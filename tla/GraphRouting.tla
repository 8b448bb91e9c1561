---------------------------- MODULE GraphRouting ----------------------------
(***************************************************************************)
(* The nodes of the support agent's graph and the routing between them,    *)
(* for the runs of a conversation and for those of the evaluation.  An     *)
(* analysis is what the intent model answers; a state has the fields that  *)
(* routing reads.                                                          *)
(***************************************************************************)

Intents == {"order_query", "refund", "policy_query", "complaint", "other"}

AnswerOf == [request_clarification |-> "clarification", unsupported |-> "unsupported",
             order_not_found |-> "not found", generate_answer |-> "order"]

Nodes == DOMAIN AnswerOf \cup
  {"analyze_intent", "query_order", "retrieve_knowledge", "generate_knowledge_answer",
   "request_refund_approval", "submit_refund", "save_turn"}

-----------------------------------------------------------------------------
(* graph/routing.py *)

RouteAfterIntent_NeverClarifies(analysis) ==
  IF analysis.intent = "policy_query" THEN "retrieve_knowledge"
  ELSE IF analysis.intent \in {"order_query", "refund"} THEN "query_order"
  ELSE "unsupported"

RouteAfterIntent(analysis) ==
  IF analysis.clarify THEN "request_clarification"
  ELSE IF analysis.intent = "policy_query" THEN "retrieve_knowledge"
  ELSE IF analysis.intent \in {"order_query", "refund"} THEN "query_order"
  ELSE "unsupported"

RouteAfterOrder(st) ==
  IF ~st.found THEN "order_not_found"
  ELSE IF st.intent = "refund" THEN "request_refund_approval" ELSE "generate_answer"

RouteAfterRefundApproval_Always(st) == "submit_refund"

RouteAfterRefundApproval(st) ==
  IF st.refundApproved THEN "submit_refund" ELSE "save_turn"
=============================================================================
