--------------------------- MODULE LiveEvaluation ---------------------------
(***************************************************************************)
(* The live evaluation: a suite of cases, each run several times against   *)
(* the running system through its public API.  A run creates a thread and  *)
(* reads one event stream to its end; what it delivered, or how it failed, *)
(* becomes a record.  A failure that concerns the system as a whole stops  *)
(* the suite.  The report decides the exit code of a CI job.               *)
(***************************************************************************)
EXTENDS Integers, Sequences, FiniteSets, SequencesExt

CONSTANTS
  LiveCases,    \* the cases, in the order of the file
  RunsPerCase,
  FailureCodes, \* HTTP statuses other than success that are tried
  MaxEvents,    \* bound on the events of one stream
  Policies      \* policies the report may be made with

ASSUME LiveAssumption ==
  /\ LiveCases \in Seq([risk : {"standard", "critical"},
                         outcome : {"result", "approval_required"}])
  /\ LiveCases # <<>>
  /\ RunsPerCase \in Nat \ {0, 1} /\ MaxEvents \in Nat
  /\ FailureCodes \subseteq 300..599
  /\ \A p \in Policies : p.standard \in Nat \X (Nat \ {0}) /\ p.overall \in Nat \X (Nat \ {0})

VARIABLES
  step,     \* what the suite does next
  records,  \* LiveAgentSuiteResult.runs
  suite,    \* abort_code, "none" without one
  report    \* the status of the report and the exit code of the script

liveVars == <<step, records, suite, report>>

(* StreamEventType, and events that are none: a metadata event or a result  *)
(* of another thread, one whose data is malformed, one of another name.     *)
EventKinds == {"metadata", "token", "result", "approval_required", "error", "done",
               "other_metadata", "other_result", "malformed", "unnamed"}

Metadata == {"metadata", "other_metadata"}
Replies == {"result", "other_result"}
Terminals == Replies \cup {"approval_required"}

Streams == UNION {[1..n -> EventKinds] : n \in 0..MaxEvents}

PlannedRuns == Len(LiveCases) * RunsPerCase

(* Round by round, the cases of each in order. *)
CaseOf(n) == ((n - 1) % Len(LiveCases)) + 1
RoundOf(n) == ((n - 1) \div Len(LiveCases)) + 1

LiveInit ==
  /\ step = "create" /\ records = <<>> /\ suite = "none"
  /\ report = [status |-> "none", exit |-> -1]

-----------------------------------------------------------------------------
(* A run: JavaAgentLiveClient.run_case. *)

Count(events, kinds) == Cardinality({i \in DOMAIN events : events[i] \in kinds})

LastOf(events, kinds) ==
  events[CHOOSE i \in DOMAIN events :
           events[i] \in kinds /\ \A k \in (i + 1)..Len(events) : events[k] \notin kinds]

WellFormed_OnlyEnds(events) ==
  /\ Len(events) >= 3
  /\ Head(events) \in Metadata /\ Last(events) = "done"

(* validate_public_event_sequence *)
WellFormed(events) ==
  /\ Len(events) >= 3
  /\ Head(events) \in Metadata /\ Count(events, Metadata) = 1
  /\ Last(events) = "done" /\ Count(events, {"done"}) = 1
  /\ Count(events, Terminals) = 1 /\ events[Len(events) - 1] \in Terminals

(* _build_observation: what becomes of the events that were read.  A later  *)
(* metadata event or reply takes the place of an earlier one, and only the  *)
(* sequence tells that there were two.                                      *)
Observed(events) ==
  LET bad == {i \in DOMAIN events : events[i] \in {"error", "malformed"}}
      first == CHOOSE i \in bad : \A k \in bad : i <= k
      replied == Count(events, Replies) > 0
      paused == Count(events, {"approval_required"}) > 0
  IN
  IF Count(events, {"unnamed"}) > 0 THEN "crash"
  ELSE IF bad # {} THEN IF events[first] = "error" THEN "protocol" ELSE "payload"
  ELSE IF \/ Count(events, Metadata) = 0 \/ LastOf(events, Metadata) = "other_metadata"
          \/ replied = paused
          \/ replied /\ LastOf(events, Replies) = "other_result" THEN "protocol"
  ELSE IF ~WellFormed(events) THEN "payload"
  ELSE IF replied THEN "result" ELSE "approval_required"

Codes == [protocol |-> "PUBLIC_PROTOCOL_ERROR", payload |-> "PUBLIC_PAYLOAD_INVALID",
          timeout |-> "SYSTEM_TIMEOUT", connect |-> "JAVA_UNREACHABLE",
          transport |-> "HTTP_TRANSPORT_ERROR", status |-> "HTTP_STATUS"]

Error(kind) == [kind |-> kind, status |-> 0]

RequestErrors ==
  {Error(k) : k \in {"protocol", "payload", "timeout", "connect", "transport"}}
    \cup [kind : {"status"}, status : FailureCodes]

Aborts_OnlyStatus(error) ==
  error.kind = "status" /\ error.status \in {401, 403, 429, 500, 502, 503}

(* _classify_live_failure: whether the failure is one of the whole system. *)
Aborts(error) ==
  \/ error.kind \in {"timeout", "connect"}
  \/ error.kind = "status" /\ error.status \in {401, 403, 429, 500, 502, 503}

Append1(record) == records' = Append(records, record)

NextRun == Len(records) + 1

AfterRecord_OneMore ==
  step' = IF Len(records) = PlannedRuns THEN "report" ELSE "create"

AfterRecord ==
  step' = IF NextRun = PlannedRuns THEN "report" ELSE "create"

(* _failed_case_result: a failed run is one that met nothing. *)
FailedRecord(error, events) ==
  [case |-> CaseOf(NextRun), round |-> RoundOf(NextRun),
   contract |-> FALSE, facts |-> FALSE, evidence |-> FALSE,
   error |-> error, events |-> events]

RunFailsWith(error, events) ==
  /\ Append1(FailedRecord(error, events))
  /\ IF Aborts(error)
       THEN step' = "report" /\ suite' = Codes[error.kind]
       ELSE AfterRecord /\ UNCHANGED suite
  /\ UNCHANGED report

(* An exception the suite does not expect: no report is written. *)
SuiteCrashes ==
  /\ step' = "crashed"
  /\ report' = [status |-> "none", exit |-> 1]
  /\ UNCHANGED <<records, suite>>

ThreadCreated ==
  /\ step = "create"
  /\ step' = "stream"
  /\ UNCHANGED <<records, suite, report>>

(* A request gets no usable answer: no connection, a status, a body that is *)
(* no JSON (which nothing expects), another content type, a broken stream.  *)
RequestFails ==
  /\ step \in {"create", "stream"}
  /\ \/ \E e \in RequestErrors : RunFailsWith(e, "not whole")
     \/ step = "create" /\ SuiteCrashes

(* History: the stream is one the agent service sends when all goes well.   *)
Whole(events) ==
  \E n \in 0..MaxEvents, reply \in {"result", "approval_required"} :
    events = <<"metadata">> \o [i \in 1..n |-> "token"] \o <<reply, "done">>

(* What a stream may come to: the run keeps no more of it. *)
Deliveries ==
  {[seen |-> Observed(e), events |-> IF Whole(e) THEN "whole" ELSE "not whole"] : e \in Streams}

(* evaluate_live_agent_case: right are intent, order and sources. *)
Observation(d, right, facts) ==
  [case |-> CaseOf(NextRun), round |-> RoundOf(NextRun),
   contract |-> right /\ d.seen = LiveCases[CaseOf(NextRun)].outcome,
   facts |-> facts, evidence |-> TRUE,
   error |-> Error("none"), events |-> d.events]

(* The model may have got any of it wrong. *)
StreamRead ==
  /\ step = "stream"
  /\ \E d \in Deliveries :
       IF d.seen = "crash" THEN SuiteCrashes
       ELSE IF d.seen \in DOMAIN Codes THEN RunFailsWith(Error(d.seen), d.events)
       ELSE \E right, facts \in BOOLEAN :
              /\ Append1(Observation(d, right, facts))
              /\ AfterRecord
              /\ UNCHANGED <<suite, report>>

-----------------------------------------------------------------------------
(* The report. *)

AtLeast(passed, total, rate) == passed * rate[2] >= rate[1] * total

RunsOf_Completed(c) == {i \in DOMAIN records : records[i].case = c /\ records[i].evidence}

(* results_by_case, as the places of the records. *)
RunsOf(c) == {i \in DOMAIN records : records[i].case = c}

FactsIn(runs) == Cardinality({i \in runs : records[i].facts})

(* _evaluate_case_stability *)
Stable(c, policy) ==
  LET rate == IF LiveCases[c].risk = "critical" THEN <<1, 1>> ELSE policy.standard IN
  /\ \A i \in RunsOf(c) : records[i].contract
  /\ AtLeast(FactsIn(RunsOf(c)), Cardinality(RunsOf(c)), rate)

(* evaluate_live_agent_stability *)
SuiteStable(policy) ==
  /\ \A c \in DOMAIN LiveCases : Stable(c, policy)
  /\ AtLeast(FactsIn(DOMAIN records), Len(records), policy.overall)

(* build_live_agent_evaluation_report and its exit code. *)
Report ==
  /\ step = "report"
  /\ \E policy \in Policies :
       report' = IF suite # "none" THEN [status |-> "ABORTED", exit |-> 1]
                 ELSE IF SuiteStable(policy) THEN [status |-> "PASSED", exit |-> 0]
                 ELSE [status |-> "FAILED", exit |-> 1]
  /\ step' = "reported"
  /\ UNCHANGED <<records, suite>>

LiveNext == ThreadCreated \/ RequestFails \/ StreamRead \/ Report

-----------------------------------------------------------------------------
(* The CI job is green only for a suite whose planned runs all delivered a  *)
(* whole stream that met the contract, and all the facts of critical cases. *)
GreenIsEarned ==
  report.exit = 0 =>
    /\ \A c \in DOMAIN LiveCases, n \in 1..RunsPerCase :
         \E i \in DOMAIN records : records[i].case = c /\ records[i].round = n
    /\ \A i \in DOMAIN records :
         /\ records[i].events = "whole" /\ records[i].contract
         /\ LiveCases[records[i].case].risk = "critical" => records[i].facts

(* A run counts as one that was observed exactly if its stream was whole:   *)
(* metadata, tokens, one result or approval, done, all of its own thread.   *)
OnlyWholeStreamsCount ==
  \A i \in DOMAIN records : records[i].evidence <=> records[i].events = "whole"

(* Where the system cannot be reached, does not answer in time, or refuses  *)
(* for a reason every request shares, nothing more is sent: the records are *)
(* the first runs of the plan, only the last failed so, and no conclusion   *)
(* is drawn from them.                                                      *)
AbortStopsSuite ==
  /\ \A i \in DOMAIN records :
       /\ records[i].case = CaseOf(i) /\ records[i].round = RoundOf(i)
       /\ \/ records[i].error.kind \in {"timeout", "connect"}
          \/ records[i].error.status \in {401, 403, 429, 503}
         => /\ i = Len(records) /\ step \in {"report", "reported"}
            /\ report.status \in {"none", "ABORTED"}
  /\ report.status \in {"PASSED", "FAILED"} => Len(records) = PlannedRuns
=============================================================================
