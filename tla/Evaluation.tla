----------------------------- MODULE Evaluation -----------------------------
(***************************************************************************)
(* The evaluation scripts of the agent service.  Each is a process of its  *)
(* own; they share the cases and the code that is evaluated, and no state. *)
(***************************************************************************)
EXTENDS LiveEvaluation, ControlledEvaluation, RetrievalEvaluation

VARIABLE script  \* the script that is started

vars == <<script, liveVars, controlledVars, retrievalVars>>

Init ==
  /\ script \in {"evaluate_agent_live", "evaluate_agent_controlled", "evaluate_retrieval"}
  /\ LiveInit /\ ControlledInit /\ RetrievalInit

Next ==
  \/ /\ script = "evaluate_agent_live" /\ LiveNext
     /\ UNCHANGED <<script, controlledVars, retrievalVars>>
  \/ /\ script = "evaluate_agent_controlled" /\ ControlledNext
     /\ UNCHANGED <<script, liveVars, retrievalVars>>
  \/ /\ script = "evaluate_retrieval" /\ RetrievalNext
     /\ UNCHANGED <<script, liveVars, controlledVars>>

Spec == Init /\ [][Next]_vars

-----------------------------------------------------------------------------
(* Every variable has its type; a script that has written its report has    *)
(* an exit code.                                                            *)
TypeOK ==
  /\ step \in {"create", "stream", "report", "reported", "crashed"}
  /\ suite \in {"none", "SYSTEM_TIMEOUT", "JAVA_UNREACHABLE", "HTTP_STATUS"}
  /\ Len(records) <= PlannedRuns
  /\ report.status \in {"none", "PASSED", "FAILED", "ABORTED"}
  /\ step \in {"reported", "crashed"} <=> report.exit \in {0, 1}
  /\ place \in Nodes \cup {"load", "paused", "END", "report", "reported", "crashed"}
  /\ ToSet(visited) \subseteq Nodes
  /\ Len(results) <= Len(cases)
  /\ place \in {"reported", "crashed"} <=> exitCode \in {0, 1}
  /\ stage \in {"open", "reindex", "warmup", "measure", "closing", "reported", "failed"}
  /\ ToSet(samples) \subseteq Latencies /\ Len(judged) <= Len(Questions)
=============================================================================
