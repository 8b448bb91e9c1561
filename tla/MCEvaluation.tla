---------------------------- MODULE MCEvaluation ----------------------------
(* A live suite of a standard and a critical case; the seven cases of       *)
(* data/evaluation/agent_cases.json, and files of one of them with another  *)
(* intent, order or outcome; two questions over three chunks.             *)
EXTENDS Evaluation

MCLiveCases == <<[risk |-> "standard", outcome |-> "result"],
                 [risk |-> "critical", outcome |-> "approval_required"]>>

(* The default policy, and one whose overall rate allows what the standard  *)
(* rate does.                                                               *)
MCPolicies == {[standard |-> <<2, 3>>, overall |-> <<9, 10>>],
               [standard |-> <<2, 3>>, overall |-> <<5, 6>>]}

-----------------------------------------------------------------------------
NoCalls == [n \in Callers |-> IF n = "analyze_intent" THEN 1 ELSE 0]

OrderCalls == [NoCalls EXCEPT !["query_order"] = 1, !["generate_answer"] = 1]

PolicyCalls ==
  [NoCalls EXCEPT !["retrieve_knowledge"] = 1, !["generate_knowledge_answer"] = 1]

OrderPath == <<"analyze_intent", "query_order", "generate_answer", "save_turn">>

PolicyPath ==
  <<"analyze_intent", "retrieve_knowledge", "generate_knowledge_answer", "save_turn">>

MCShipped == <<
  [intent |-> "order_query", outcome |-> "reply", order |-> "A1001", nodes |-> OrderPath,
   forbidden |-> {"retrieve_knowledge", "request_refund_approval", "submit_refund"},
   calls |-> OrderCalls, sources |-> <<>>, facts |-> {"A1001", "shipped"}],
  [intent |-> "order_query", outcome |-> "reply", order |-> "none",
   nodes |-> <<"analyze_intent", "request_clarification", "save_turn">>,
   forbidden |-> {"query_order", "retrieve_knowledge", "generate_answer"},
   calls |-> NoCalls, sources |-> <<>>, facts |-> {"order number"}],
  [intent |-> "policy_query", outcome |-> "reply", order |-> "none", nodes |-> PolicyPath,
   forbidden |-> {"query_order", "generate_answer", "submit_refund"},
   calls |-> PolicyCalls, sources |-> <<"refund-policy">>, facts |-> {"opened", "no return"}],
  [intent |-> "complaint", outcome |-> "reply", order |-> "none",
   nodes |-> <<"analyze_intent", "unsupported", "save_turn">>,
   forbidden |-> {"query_order", "retrieve_knowledge", "submit_refund"},
   calls |-> NoCalls, sources |-> <<>>, facts |-> {"currently"}],
  [intent |-> "refund", outcome |-> "approval_required", order |-> "A1001",
   nodes |-> <<"analyze_intent", "query_order", "request_refund_approval">>,
   forbidden |-> {"submit_refund", "retrieve_knowledge"},
   calls |-> [NoCalls EXCEPT !["query_order"] = 1], sources |-> <<>>, facts |-> {"A1001"}],
  [intent |-> "order_query", outcome |-> "reply", order |-> "A1001", nodes |-> OrderPath,
   forbidden |-> {"retrieve_knowledge", "submit_refund"},
   calls |-> OrderCalls, sources |-> <<>>, facts |-> {"A1001"}],
  [intent |-> "policy_query", outcome |-> "reply", order |-> "none", nodes |-> PolicyPath,
   forbidden |-> {"query_order", "submit_refund"},
   calls |-> PolicyCalls, sources |-> <<>>, facts |-> {"not enough"}]>>

MCSuites ==
  {MCShipped} \cup
  {<<[MCShipped[k] EXCEPT !.intent = i, !.order = o, !.outcome = t]>> :
     k \in DOMAIN MCShipped, i \in Intents, o \in {"A1001", "none"},
     t \in {"reply", "approval_required"}}

MCFixedFacts == [request_clarification |-> {"order number"}, unsupported |-> {"currently"}]

MCNoKnowledge == {"not enough"}

-----------------------------------------------------------------------------
Chunk(tenant, section, words) ==
  [tenant |-> tenant, document |-> "policy", section |-> section, words |-> words]

MCCollection == {Chunk("a", "shipped", {"x"}), Chunk("a", "unshipped", {"x", "y"}),
                 Chunk("b", "shipped", {"y"})}

Source(section, words) ==
  [document |-> "policy", section |-> section, words |-> words]

MCQuestions == <<
  [tenant |-> "a", expected |-> <<Source("none", {"x"}), Source("unshipped", {})>>],
  [tenant |-> "c", expected |-> <<>>]>>
=============================================================================
