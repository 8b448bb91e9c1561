---------------------------- MODULE AgentStream ----------------------------
(***************************************************************************)
(* One request inside the agent service, from its arrival to the record    *)
(* the correlation middleware writes: an answer with a status, or a stream *)
(* of SSE events that encode_agent_event_stream makes of the run of the    *)
(* graph.  Once the first event is sent the status is 200 for good, and a  *)
(* failure of the graph is one more event.                                 *)
(***************************************************************************)
EXTENDS AgentApi

CONSTANT MaxTokens  \* bound on the tokens of one stream

ASSUME TokensAssumption == MaxTokens \in Nat

VARIABLES
  serving,   \* serving[r]: the step of the handler r is at
  reply,     \* reply[r]: the status the agent service sent, 0 before it
  sent,      \* sent[r]: the events the encoder yielded
  graph,     \* graph[r]: the run of the graph for r, and how it ended
  pyRecords  \* pyRecords[r]: the request_completed records of r

streamVars == <<serving, reply, sent, graph, pyRecords>>

(* run: the graph runs for a stream; tail: the result is sent and done is   *)
(* not; resume: the graph runs for a decision; dead: the process died.      *)
Phases == {"none", "limit", "resolve", "run", "tail", "resume", "over", "dead"}

Live == {"limit", "resolve", "run", "tail", "resume"}

Runs == {"none", "running", "completed", "failed", "cancelled"}

Results == {"result", "approval_required"}

(* StreamEventType *)
Events == {"metadata", "token", "done", "error"} \cup Results

StreamInit ==
  /\ serving = [r \in Requests |-> "none"]
  /\ reply = [r \in Requests |-> 0]
  /\ sent = [r \in Requests |-> <<>>]
  /\ graph = [r \in Requests |-> "none"]
  /\ pyRecords = [r \in Requests |-> <<>>]

(* The finally block of the middleware. *)
Finish(r, code) ==
  /\ serving' = [serving EXCEPT ![r] = "over"]
  /\ pyRecords' = [pyRecords EXCEPT ![r] = Append(@, code)]

(* An answer without a stream, its status from the exception handlers.     *)
RespondWith(r, s) ==
  /\ reply' = [reply EXCEPT ![r] = s]
  /\ Finish(r, ErrorCodeFor(s))
  /\ UNCHANGED <<sent, graph>>

(* An exception without a handler passes the middleware; the 500 is sent    *)
(* outside of it.                                                           *)
RespondUnhandled(r) ==
  /\ reply' = [reply EXCEPT ![r] = 500]
  /\ Finish(r, "UNHANDLED_EXCEPTION")
  /\ UNCHANGED <<sent, graph>>

Send(r, events) == sent' = [sent EXCEPT ![r] = @ \o events]

(* StreamingResponse: the headers, and the first event of the encoder,      *)
(* which then runs the graph.                                               *)
OpenStream(r) ==
  /\ reply' = [reply EXCEPT ![r] = 200]
  /\ Send(r, <<"metadata">>)
  /\ serving' = [serving EXCEPT ![r] = "run"]
  /\ graph' = [graph EXCEPT ![r] = "running"]
  /\ UNCHANGED pyRecords

(* A message of a visible node with text; others give no event. *)
StreamToken(r) ==
  /\ serving[r] = "run"
  /\ Len(sent[r]) <= MaxTokens
  /\ Send(r, <<"token">>)
  /\ UNCHANGED <<serving, reply, graph, pyRecords>>

(* The graph has ended and its last state is a result. *)
StreamResult(r) ==
  /\ serving[r] = "run"
  /\ \E e \in Results : Send(r, <<e>>)
  /\ graph' = [graph EXCEPT ![r] = "completed"]
  /\ serving' = [serving EXCEPT ![r] = "tail"]
  /\ UNCHANGED <<reply, pyRecords>>

StreamDone(r) ==
  /\ serving[r] = "tail"
  /\ Send(r, <<"done">>)
  /\ Finish(r, "NONE")
  /\ UNCHANGED <<reply, graph>>

StreamFails_ThenDone(r) ==
  /\ serving[r] = "run"
  /\ Send(r, <<"error", "done">>)
  /\ graph' = [graph EXCEPT ![r] = "failed"]
  /\ Finish(r, "NONE")
  /\ UNCHANGED reply

(* A node raised, or the last state is no valid result: the record of the   *)
(* request still says 200 and NONE.                                         *)
StreamFails(r) ==
  /\ serving[r] = "run"
  /\ Send(r, <<"error">>)
  /\ graph' = [graph EXCEPT ![r] = "failed"]
  /\ Finish(r, "NONE")
  /\ UNCHANGED reply

(* The caller has gone: the response is cancelled and no event is sent.     *)
(* Whether the middleware sees the cancellation is up to the server.        *)
StreamCancelled(r) ==
  /\ serving[r] \in {"run", "tail"}
  /\ \E code \in {"CLIENT_DISCONNECTED", "NONE"} : Finish(r, code)
  /\ graph' = [graph EXCEPT ![r] = IF @ = "running" THEN "cancelled" ELSE @]
  /\ UNCHANGED <<reply, sent>>

(* The process dies with all it serves. *)
StreamCrash ==
  /\ \E r \in Requests : serving[r] \in Live
  /\ serving' = [r \in Requests |->
                   IF serving[r] \in Live THEN "dead" ELSE serving[r]]
  /\ UNCHANGED <<reply, sent, graph, pyRecords>>

StreamTypeOK ==
  /\ serving \in [Requests -> Phases]
  /\ reply \in [Requests -> {0} \cup Statuses]
  /\ sent \in [Requests -> Seq(Events)]
  /\ graph \in [Requests -> Runs]
  /\ pyRecords \in
       [Requests -> Seq({"NONE", "HTTP_ERROR", "UNHANDLED_EXCEPTION",
                         "CLIENT_DISCONNECTED"})]
=============================================================================
