---------------------------- MODULE ChatGateway ----------------------------
(***************************************************************************)
(* The agent API from the client's side: AgentController relays a request  *)
(* to the agent service, where the rate limiter and the thread table stand *)
(* before the graph, and relays the answer or the event stream back.       *)
(* Composes RequestCorrelation (Java), AgentStream and ChatRateLimiter     *)
(* (Python).  Clients leave, the agent service dies, Redis and PostgreSQL  *)
(* fail and the container times out at any moment.                         *)
(***************************************************************************)
EXTENDS RequestCorrelation, AgentStream, ChatRateLimiter

CONSTANTS
  Threads,    \* the thread ids clients name
  NoOwner,    \* the owner of a thread that does not exist
  MaxOthers   \* bound on the calls of POST /agent/chat, which has no relay

ASSUME OwnerAssumption == NoOwner \notin Users

VARIABLES
  asked,    \* asked[r]: kind, user and thread of request r
  owner,    \* agent_threads: owner[t] is the user of thread t
  relayed,  \* relayed[r]: how many events of r the client was sent
  gone,     \* gone[r]: the client has closed its connection
  others    \* how many direct chats there were

gatewayVars == <<asked, owner, relayed, gone, others>>

vars == <<filterVars, streamVars, limiterVars, gatewayVars>>

Kinds == {"stream", "resume", "create"}

(* How the run of a resume ends, and the status that tells it.  A node may  *)
(* raise an error that exception_handlers knows - ORDER_NOT_FOUND, the      *)
(* conflicts, UPSTREAM, UNAVAILABLE, TIMEOUT or UNKNOWN - or another, which *)
(* is a 500; and so is a completed run of which resume_refund can make no   *)
(* reply.                                                                   *)
ResumeOutcomes == {<<"completed", 200>>, <<"completed", 500>>}
                  \cup ({"failed"} \X {404, 409, 500, 502, 503, 504})

Init ==
  /\ FilterInit
  /\ StreamInit
  /\ LimiterInit
  /\ asked \in [Requests -> [kind : Kinds, user : Users, thread : Threads]]
  /\ owner \in [Threads -> Users \cup {NoOwner}]
  /\ relayed = [r \in Requests |-> 0]
  /\ gone = [r \in Requests |-> FALSE]
  /\ others = 0

-----------------------------------------------------------------------------
(* The business service. *)

AcceptRequest(r) == Accept(r) /\ UNCHANGED <<streamVars, limiterVars, gatewayVars>>

RejectRequest(r) == Reject(r) /\ UNCHANGED <<streamVars, limiterVars, gatewayVars>>

(* The POST of AgentServiceClient reaches the agent service.  A decision    *)
(* and a new thread are not rate limited.                                   *)
Arrive(r) ==
  /\ servlet[r] = "await" /\ serving[r] = "none"
  /\ serving' = [serving EXCEPT ![r] =
                   IF asked[r].kind = "stream" THEN "limit" ELSE "resolve"]
  /\ UNCHANGED <<filterVars, reply, sent, graph, pyRecords, limiterVars, gatewayVars>>

ConnectFails_NoHandler(r) ==
  /\ serving[r] \in {"none", "dead"}
  /\ Answer(r, reply[r])
  /\ UNCHANGED <<streamVars, limiterVars, gatewayVars>>

(* An exception without a handler would be a 500. *)
ConnectFails_Unhandled(r) ==
  /\ serving[r] \in {"none", "dead"}
  /\ Answer(r, 500)
  /\ UNCHANGED <<streamVars, limiterVars, gatewayVars>>

(* WebClientRequestException: no connection, or it broke before an answer. *)
ConnectFails(r) ==
  /\ serving[r] \in {"none", "dead"}
  /\ Answer(r, 503)
  /\ UNCHANGED <<streamVars, limiterVars, gatewayVars>>

(* A body, or a WebClientResponseException, whose status is kept. *)
RelayAnswer(r) ==
  /\ reply[r] # 0 /\ sent[r] = <<>>
  /\ Answer(r, reply[r])
  /\ UNCHANGED <<streamVars, limiterVars, gatewayVars>>

RelayOpens(r) ==
  /\ sent[r] # <<>>
  /\ StartAsyncAgain(r)
  /\ UNCHANGED <<streamVars, limiterVars, gatewayVars>>

(* The next ServerSentEvent of the Flux is written to the client. *)
RelayEvent(r) ==
  /\ servlet[r] = "relay" /\ ~gone[r] /\ relayed[r] < Len(sent[r])
  /\ relayed' = [relayed EXCEPT ![r] = @ + 1]
  /\ UNCHANGED <<filterVars, streamVars, limiterVars, asked, owner, gone, others>>

RelayFails(r) ==
  /\ gone[r] /\ relayed[r] < Len(sent[r])
  /\ OnError(r)
  /\ UNCHANGED <<streamVars, limiterVars, gatewayVars>>

(* The response of the agent service ended with its last chunk, or the      *)
(* connection broke, and what was under way is lost.                        *)
RelayEnds(r) ==
  /\ \/ /\ serving[r] = "over"
        /\ relayed[r] = Len(sent[r]) \/ gone[r]
        /\ StreamEnds(r, "closing")
     \/ serving[r] = "dead" /\ StreamEnds(r, "broken")
  /\ UNCHANGED <<streamVars, limiterVars, gatewayVars>>

TimedOut(r) == OnTimeout(r) /\ UNCHANGED <<streamVars, limiterVars, gatewayVars>>

Complete(r) == OnComplete(r) /\ UNCHANGED <<streamVars, limiterVars, gatewayVars>>

-----------------------------------------------------------------------------
(* The agent service. *)

Admit(r) ==
  /\ serving[r] = "limit"
  /\ CheckAllowed(asked[r].user)
  /\ serving' = [serving EXCEPT ![r] = "resolve"]
  /\ UNCHANGED <<filterVars, reply, sent, graph, pyRecords, gatewayVars>>

RefuseOverLimit(r) ==
  /\ serving[r] = "limit"
  /\ CheckExceeded(asked[r].user)
  /\ RespondWith(r, 429)
  /\ UNCHANGED <<filterVars, gatewayVars>>

(* Fail closed: 503. *)
LimiterDown(r) ==
  /\ serving[r] = "limit"
  /\ CheckFails(asked[r].user)
  /\ RespondWith(r, 503)
  /\ UNCHANGED <<filterVars, gatewayVars>>

(* resolve_checkpoint_key finds the row only for its owner. *)
FindOwned(r) == owner[asked[r].thread] = asked[r].user

CreateThread(r) ==
  /\ serving[r] = "resolve" /\ asked[r].kind = "create"
  /\ \E t \in Threads : /\ owner[t] = NoOwner
                        /\ owner' = [owner EXCEPT ![t] = asked[r].user]
  /\ RespondWith(r, 201)
  /\ UNCHANGED <<filterVars, limiterVars, asked, relayed, gone, others>>

ThreadNotFound(r) ==
  /\ serving[r] = "resolve" /\ asked[r].kind # "create"
  /\ ~FindOwned(r)
  /\ RespondWith(r, 404)
  /\ UNCHANGED <<filterVars, limiterVars, gatewayVars>>

(* The thread table, or the checkpoint a resume looks at, cannot be read:   *)
(* psycopg errors have no handler.                                          *)
DatabaseFails(r) ==
  /\ serving[r] = "resolve"
  /\ RespondUnhandled(r)
  /\ UNCHANGED <<filterVars, limiterVars, gatewayVars>>

StartRun(r) ==
  /\ serving[r] = "resolve" /\ asked[r].kind = "stream"
  /\ FindOwned(r)
  /\ OpenStream(r)
  /\ UNCHANGED <<filterVars, limiterVars, gatewayVars>>

(* resume_refund finds no interrupt; what waits in which checkpoint is      *)
(* SupportAgent's matter.                                                   *)
ApprovalNotPending(r) ==
  /\ serving[r] = "resolve" /\ asked[r].kind = "resume"
  /\ FindOwned(r)
  /\ RespondWith(r, 409)
  /\ UNCHANGED <<filterVars, limiterVars, gatewayVars>>

(* It finds one, and runs the graph with the decision. *)
BeginResume(r) ==
  /\ serving[r] = "resolve" /\ asked[r].kind = "resume"
  /\ FindOwned(r)
  /\ serving' = [serving EXCEPT ![r] = "resume"]
  /\ graph' = [graph EXCEPT ![r] = "running"]
  /\ UNCHANGED <<filterVars, reply, sent, pyRecords, limiterVars, gatewayVars>>

(* The run returned or raised. *)
AnswerResume(r) ==
  /\ serving[r] = "resume"
  /\ \E outcome \in ResumeOutcomes :
       /\ graph' = [graph EXCEPT ![r] = outcome[1]]
       /\ reply' = [reply EXCEPT ![r] = outcome[2]]
       /\ Finish(r, IF outcome[2] = 500 THEN "UNHANDLED_EXCEPTION"
                                        ELSE ErrorCodeFor(outcome[2]))
  /\ UNCHANGED <<filterVars, sent, limiterVars, gatewayVars>>

RunStep(r) ==
  /\ \/ StreamToken(r) \/ StreamResult(r) \/ StreamDone(r) \/ StreamFails(r)
     \/ servlet[r] \notin {"await", "relay"} /\ StreamCancelled(r)
  /\ UNCHANGED <<filterVars, limiterVars, gatewayVars>>

-----------------------------------------------------------------------------
(* The environment. *)

ClientLeaves(r) ==
  /\ servlet[r] \in {"await", "relay"} /\ ~gone[r]
  /\ gone' = [gone EXCEPT ![r] = TRUE]
  /\ UNCHANGED <<filterVars, streamVars, limiterVars, asked, owner, relayed, others>>

(* POST /agent/chat of a caller: its limiter, with the key of its streams.  *)
OtherChat(u) ==
  /\ \E r \in Requests : asked[r].user = u
  /\ others < MaxOthers
  /\ others' = others + 1
  /\ CheckAllowed(u) \/ CheckExceeded(u) \/ CheckFails(u)
  /\ UNCHANGED <<filterVars, streamVars, asked, owner, relayed, gone>>

LateScript(u) == LateEval(u) /\ UNCHANGED <<filterVars, streamVars, gatewayVars>>

Second == Tick /\ UNCHANGED <<filterVars, streamVars, gatewayVars>>

Crash == StreamCrash /\ UNCHANGED <<filterVars, limiterVars, gatewayVars>>

ServletStep(r) ==
  \/ Arrive(r) \/ ConnectFails(r) \/ RelayAnswer(r) \/ RelayOpens(r)
  \/ RelayEvent(r) \/ RelayFails(r) \/ RelayEnds(r)
  \/ TimedOut(r) \/ Complete(r)

AgentStep(r) ==
  \/ Admit(r) \/ RefuseOverLimit(r) \/ LimiterDown(r)
  \/ CreateThread(r) \/ ThreadNotFound(r) \/ DatabaseFails(r)
  \/ StartRun(r) \/ RunStep(r)
  \/ ApprovalNotPending(r) \/ BeginResume(r) \/ AnswerResume(r)

Next ==
  \/ \E r \in Requests : AcceptRequest(r) \/ RejectRequest(r) \/ ClientLeaves(r)
  \/ \E r \in Requests : ServletStep(r) \/ AgentStep(r)
  \/ \E u \in Users : OtherChat(u) \/ LateScript(u)
  \/ Second
  \/ Crash

Spec == Init /\ [][Next]_vars

(* Both services run what they were given, and time passes: calls end, if   *)
(* only by their timeouts.  Nothing makes a client call or leave, Redis or  *)
(* PostgreSQL fail, or the process die.                                     *)
Fairness == /\ \A r \in Requests : WF_vars(ServletStep(r)) /\ WF_vars(AgentStep(r))
            /\ WF_vars(Second)

FairSpec == Spec /\ Fairness

-----------------------------------------------------------------------------
Received(r) == SubSeq(sent[r], 1, relayed[r])

(* Every variable has its type, and the client was sent no more than there  *)
(* was.                                                                     *)
TypeOK ==
  /\ FilterTypeOK
  /\ StreamTypeOK
  /\ LimiterTypeOK
  /\ owner \in [Threads -> Users \cup {NoOwner}]
  /\ \A r \in Requests : relayed[r] \in 0..Len(sent[r])
  /\ gone \in [Requests -> BOOLEAN]

(* What a status tells the client is so in the agent service, whatever died *)
(* or timed out in between.  After 400 and 429 no run was started, and none *)
(* after a message's 404 or 500, so that it may be sent again; a decision's *)
(* 200 is a run that has completed.  A decision's 404, 409 and 500 and what *)
(* is above tell nothing: its run may have ended so, or never have begun.   *)
StatusTellsFate ==
  \A r \in Requests :
    /\ servlet[r] = "relay" => reply[r] = 200 /\ graph[r] # "none"
    /\ servlet[r] \in {"closing", "over"} =>
         /\ status[r] \in {400, 429} => graph[r] = "none"
         /\ asked[r].kind = "stream" /\ status[r] \in {404, 500} => graph[r] = "none"
         /\ asked[r].kind = "resume" /\ status[r] = 200 => graph[r] = "completed"

(* The events the client receives are metadata, tokens and an end: a result *)
(* with done behind it exactly if the graph completed, an error exactly if  *)
(* it failed, nothing behind either.  A stream that ends as it should, with *)
(* the client still there, has ended in one of the two.                     *)
StreamTellsTruth ==
  \A r \in Requests :
    LET got == Received(r)
        n == Len(got)
    IN
    /\ n > 0 => got[1] = "metadata"
    /\ \A i \in 2..n :
         \/ got[i] = "token"
         \/ got[i] \in Results /\ i >= n - 1 /\ graph[r] = "completed"
         \/ got[i] = "done" /\ i = n /\ got[i - 1] \in Results
         \/ got[i] = "error" /\ i = n /\ graph[r] = "failed"
    /\ servlet[r] = "closing" /\ n > 0 /\ ~gone[r]
         => got[n] \in {"done", "error"}

(* A request that has reached the filter is over at some time and has its   *)
(* record, whatever client, container and agent service do.                 *)
EveryRequestIsRecorded ==
  \A r \in Requests : servlet[r] = "await" ~> records[r] # <<>>

(* No user is shut out for ever: a refused user's counter runs out, also    *)
(* one that was left without TTL.                                           *)
RefusedUserIsFreed ==
  \A r \in Requests : reply[r] = 429 ~> count[asked[r].user] = 0
=============================================================================
