------------------------ MODULE ControlledEvaluation ------------------------
(***************************************************************************)
(* The controlled evaluation: every case of a suite goes through the real  *)
(* graph, on a thread of its own, with a model, a business service and a   *)
(* retriever that answer what the case expects.  What is tested is the     *)
(* graph: the nodes it enters, the calls it makes, the answer it gives.    *)
(***************************************************************************)
EXTENDS GraphRouting, Integers, Sequences, FiniteSets, SequencesExt

CONSTANTS
  Suites,      \* the files of cases that are tried
  Shipped,     \* data/evaluation/agent_cases.json
  NoOrderId,   \* order_id None
  FixedFacts,  \* FixedFacts[n]: what the fixed answer of node n says
  NoKnowledge  \* what NO_KNOWLEDGE_ANSWER says

ASSUME ControlledAssumption ==
  /\ <<>> \notin Suites /\ Shipped \in Suites
  /\ \A s \in Suites : s \in Seq(ToSet(s))
  /\ DOMAIN FixedFacts = {"request_clarification", "unsupported"}

VARIABLES
  cases,    \* the suite
  place,    \* the node the run is at, or what the script does next
  visited,  \* _RunRecorder.visited_nodes of the run
  said,     \* the answer: the facts in it
  results,  \* AgentEvaluationCaseResult of the cases run so far
  exitCode  \* of the script, -1 while it runs

controlledVars == <<cases, place, visited, said, results, exitCode>>

(* The nodes that call a model, the business service or the retriever. *)
Callers == {"analyze_intent", "query_order", "retrieve_knowledge", "generate_answer",
            "generate_knowledge_answer", "submit_refund"}

(* ExpectedCallCounts of what a recorder saw: one call for each visit. *)
CallsOf(nodes) ==
  [n \in Callers |-> Cardinality({i \in DOMAIN nodes : nodes[i] = n})]

(* validate_nodes_and_outcome *)
ValidCase(c) ==
  /\ c.nodes # <<>> /\ IsInjective(c.nodes)
  /\ ToSet(c.nodes) \cap c.forbidden = {}
  /\ c.outcome = "approval_required" => Contains(c.nodes, "request_refund_approval")
  /\ c.sources # <<>> => Contains(c.nodes, "retrieve_knowledge")

Case == cases[Len(results) + 1]

ControlledInit ==
  /\ cases = <<>> /\ place = "load" /\ visited = <<>> /\ said = {} /\ results = <<>>
  /\ exitCode = -1

(* load_agent_evaluation_cases; an empty file fails later, at the report.   *)
Load ==
  /\ place = "load"
  /\ cases' \in Suites
  /\ IF \A i \in DOMAIN cases' : ValidCase(cases'[i])
       THEN place' = "analyze_intent" /\ UNCHANGED exitCode
       ELSE place' = "crashed" /\ exitCode' = 1
  /\ UNCHANGED <<visited, said, results>>

-----------------------------------------------------------------------------
(* A run of the graph with the controlled dependencies. *)

(* The model clarifies exactly where the case expects the node for it.      *)
Analysis(c) ==
  [intent |-> c.intent, clarify |-> Contains(c.nodes, "request_clarification")]

(* The business service has every order. *)
OrderState(c) == [found |-> TRUE, intent |-> c.intent]

NextNode_NoInterrupt(c, node) ==
  CASE node = "analyze_intent" -> RouteAfterIntent(Analysis(c))
    [] node = "query_order" -> RouteAfterOrder(OrderState(c))
    [] node = "retrieve_knowledge" -> "generate_knowledge_answer"
    [] node = "request_refund_approval" -> "submit_refund"
    [] node = "save_turn" -> "END"
    [] OTHER -> "save_turn"

NextNode(c, node) ==
  CASE node = "analyze_intent" -> RouteAfterIntent(Analysis(c))
    [] node = "query_order" -> RouteAfterOrder(OrderState(c))
    [] node = "retrieve_knowledge" -> "generate_knowledge_answer"
    [] node = "request_refund_approval" -> "paused"
    [] node = "save_turn" -> "END"
    [] OTHER -> "save_turn"

(* What the answer of a node says: a fixed text, the required facts, or the *)
(* order the approval is for.                                               *)
AnswerAt(c, node) ==
  CASE node \in DOMAIN FixedFacts -> FixedFacts[node]
    [] node = "generate_answer" -> c.facts
    [] node = "generate_knowledge_answer" ->
         IF c.sources = <<>> THEN NoKnowledge ELSE c.facts
    [] node = "request_refund_approval" -> {c.order}
    [] OTHER -> said

(* query_order and request_refund_approval refuse a state without an order. *)
NeedsOrder == {"query_order", "request_refund_approval"}

EnterNode_AnyOrder ==
  /\ place \in Nodes
  /\ visited' = Append(visited, place)
  /\ said' = AnswerAt(Case, place)
  /\ place' = NextNode(Case, place)
  /\ UNCHANGED <<cases, results, exitCode>>

EnterNode ==
  /\ place \in Nodes
  /\ IF place \in NeedsOrder /\ Case.order = NoOrderId
       THEN /\ place' = "crashed" /\ exitCode' = 1
            /\ UNCHANGED <<visited, said>>
       ELSE /\ visited' = Append(visited, place)
            /\ said' = AnswerAt(Case, place)
            /\ place' = NextNode(Case, place)
            /\ UNCHANGED exitCode
  /\ UNCHANGED <<cases, results>>

-----------------------------------------------------------------------------
(* The comparison and the report. *)

SourcesSeen(c, nodes) == IF Contains(nodes, "retrieve_knowledge") THEN c.sources ELSE <<>>

(* evaluate_agent_case.  Intent, order and identity are the case's own: the *)
(* dependencies hand back what the case says and the context it was given.  *)
Meets(c, nodes, outcome) ==
  /\ outcome = c.outcome
  /\ nodes = c.nodes
  /\ ToSet(nodes) \cap c.forbidden = {}
  /\ CallsOf(nodes) = c.calls
  /\ SourcesSeen(c, nodes) = c.sources

(* run_controlled_agent_case and evaluate_agent_case; the next case starts. *)
EndCase ==
  /\ place \in {"END", "paused"}
  /\ results' = Append(results,
       [contract |-> Meets(Case, visited,
                           IF place = "paused" THEN "approval_required" ELSE "reply"),
        facts |-> Case.facts \subseteq said, nodes |-> ToSet(visited)])
  /\ place' = IF Len(results) + 1 = Len(cases) THEN "report" ELSE "analyze_intent"
  /\ visited' = <<>> /\ said' = {}
  /\ UNCHANGED <<cases, exitCode>>

(* _both_ci_gates_pass, agent_evaluation_exit_code *)
ReportControlled ==
  /\ place = "report"
  /\ place' = "reported"
  /\ exitCode' = IF \A i \in DOMAIN results : results[i].contract /\ results[i].facts
                   THEN 0 ELSE 1
  /\ UNCHANGED <<cases, visited, said, results>>

ControlledNext == Load \/ EnterNode \/ EndCase \/ ReportControlled

-----------------------------------------------------------------------------
(* What the graph is meant to do with a case, without running it: the node  *)
(* that answers, the path to it and on, what it says and what the user gets.*)
AnswerNode(c) ==
  IF Contains(c.nodes, "request_clarification") THEN "request_clarification"
  ELSE IF c.intent = "policy_query" THEN "generate_knowledge_answer"
  ELSE IF c.intent = "order_query" THEN "generate_answer"
  ELSE IF c.intent = "refund" THEN "request_refund_approval" ELSE "unsupported"

PathTo == [
  request_clarification |-> <<"analyze_intent", "request_clarification", "save_turn">>,
  generate_knowledge_answer |->
    <<"analyze_intent", "retrieve_knowledge", "generate_knowledge_answer", "save_turn">>,
  generate_answer |-> <<"analyze_intent", "query_order", "generate_answer", "save_turn">>,
  request_refund_approval |-> <<"analyze_intent", "query_order", "request_refund_approval">>,
  unsupported |-> <<"analyze_intent", "unsupported", "save_turn">>]

PathOf(c) == PathTo[AnswerNode(c)]

FactsOf(c) ==
  IF AnswerNode(c) \in DOMAIN FixedFacts THEN FixedFacts[AnswerNode(c)]
  ELSE IF AnswerNode(c) = "request_refund_approval" THEN {c.order}
  ELSE IF AnswerNode(c) = "generate_knowledge_answer" /\ c.sources = <<>> THEN NoKnowledge
  ELSE c.facts

OutcomeOf(c) ==
  IF AnswerNode(c) = "request_refund_approval" THEN "approval_required" ELSE "reply"

Deserves(c) ==
  /\ ValidCase(c)
  /\ ToSet(PathOf(c)) \cap {"query_order", "request_refund_approval"} # {}
       => c.order # NoOrderId
  /\ Meets(c, PathOf(c), OutcomeOf(c))
  /\ c.facts \subseteq FactsOf(c)

(* The cases of the file list what the graph is meant to do with them.      *)
ASSUME ShippedAssumption == \A i \in DOMAIN Shipped : Deserves(Shipped[i])

(* The graph takes every case of the file the repository ships along the    *)
(* nodes, calls and facts it lists.                                         *)
ControlledCasesPass == cases = Shipped => exitCode # 1

(* The script's verdict on any file is right both ways: it ends with 0 where*)
(* every case lists the very path, calls, sources, outcome and no more facts*)
(* than the graph is meant to give it, and with 1 where one does not.       *)
GateDecides ==
  exitCode # -1 => (exitCode = 0 <=> \A i \in DOMAIN cases : Deserves(cases[i]))

(* No case of any file gets a refund submitted, and a file passes only if   *)
(* all of its cases were run and none entered a node it forbids.            *)
GateForbids ==
  /\ \A i \in DOMAIN results : "submit_refund" \notin results[i].nodes
  /\ exitCode = 0 => /\ Len(results) = Len(cases)
                     /\ \A i \in DOMAIN results : results[i].nodes \cap cases[i].forbidden = {}
=============================================================================
