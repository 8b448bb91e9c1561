------------------------- MODULE RefundIdempotency -------------------------
(***************************************************************************)
(* The refund endpoint of the business service: RefundIdempotencyService   *)
(* around the transaction of OrderService.requestRefund.  A request runs   *)
(* three Redis scripts and one MySQL transaction, and other requests, key  *)
(* expiry, crashes and lost or late Redis commands come between any two    *)
(* of them.  The JSON stored while a request is PROCESSING names only the  *)
(* order: two requests of one scope and order store equal values, and the  *)
(* compare in COMPLETE and RELEASE cannot tell them apart.                 *)
(***************************************************************************)
EXTENDS OrderDomain

CONSTANTS
  NoInput,  \* the input of a request that has not been made
  NoReply,  \* the reply of a request that has none yet
  NoRecord  \* the value of a Redis key that does not exist

VARIABLES
  status,    \* MySQL: status[o] is the status column of order o
  record,    \* Redis: record[s] is the idempotency record of scope s
  late,      \* late[r]: a script whose call by r failed and may still run,
             \*          or "over" once it has run or is lost
  input,     \* input[r]: principal, order and Idempotency-Key of request r
  pc,        \* pc[r]: the call request r makes next
  result,    \* result[r]: what action.get() returned or threw
  answer,    \* answer[r]: the HTTP reply of request r
  executed   \* history: executed[r] says r's UPDATE matched its order

vars == <<status, record, late, input, pc, result, answer, executed>>

PCs == {"idle", "claim", "execute", "complete", "release", "done"}

Records ==
  [fingerprint : Orders, state : {"PROCESSING"}, response : {NoResponse}]
    \cup [fingerprint : Orders, state : {"COMPLETED"}, response : OrderResponses]

ASSUME SentinelAssumption == /\ NoInput \notin Inputs
                             /\ NoReply \notin Replies
                             /\ NoRecord \notin Records

Scope(r) == <<input[r].principal, input[r].key>>

Processing(o) ==
  [fingerprint |-> o, state |-> "PROCESSING", response |-> NoResponse]

Completed(o, response) ==
  [fingerprint |-> o, state |-> "COMPLETED", response |-> response]

Serving == {r \in Requests : pc[r] \notin {"idle", "done"}}

-----------------------------------------------------------------------------
(* The three Lua scripts.  Each is atomic; the value is record'. *)

(* CLAIM_SCRIPT: SET only when GET finds nothing. *)
ClaimScript(s, o) ==
  [record EXCEPT ![s] = IF @ = NoRecord THEN Processing(o) ELSE @]

CompleteScript_NoBody(s, o, response) ==
  [record EXCEPT ![s] = IF @ = Processing(o) THEN Completed(o, NoResponse) ELSE @]

(* COMPLETE_SCRIPT: SET only when GET finds this PROCESSING value. *)
CompleteScript(s, o, response) ==
  [record EXCEPT ![s] = IF @ = Processing(o) THEN Completed(o, response) ELSE @]

ReleaseScript_NoCompare(s, o) == [record EXCEPT ![s] = NoRecord]

(* RELEASE_SCRIPT: DEL only when GET finds this PROCESSING value. *)
ReleaseScript(s, o) ==
  [record EXCEPT ![s] = IF @ = Processing(o) THEN NoRecord ELSE @]

HandleExisting_NoFingerprint(existing, o) ==
  IF existing.state = "PROCESSING" THEN Failed("IDEMPOTENCY_IN_PROGRESS")
  ELSE Accepted(existing.response)

(* handleExisting: the reply to a request that finds a record in its scope. *)
HandleExisting(existing, o) ==
  IF existing.fingerprint # o THEN Failed("IDEMPOTENCY_CONFLICT")
  ELSE IF existing.state = "PROCESSING" THEN Failed("IDEMPOTENCY_IN_PROGRESS")
  ELSE IF existing.response = NoResponse THEN Failed("IDEMPOTENCY_UNAVAILABLE")
  ELSE Accepted(existing.response)

-----------------------------------------------------------------------------
Init ==
  /\ status \in [Orders -> InitialStatus]
  /\ record = [s \in Scopes |-> NoRecord]
  /\ late = [r \in Requests |-> "none"]
  /\ input = [r \in Requests |-> NoInput]
  /\ pc = [r \in Requests |-> "idle"]
  /\ result = [r \in Requests |-> NoReply]
  /\ answer = [r \in Requests |-> NoReply]
  /\ executed = [r \in Requests |-> FALSE]

Reply(r, a) == /\ pc' = [pc EXCEPT ![r] = "done"]
               /\ answer' = [answer EXCEPT ![r] = a]

(* The controller hands the request to RefundApplicationService. *)
Submit(r) ==
  /\ pc[r] = "idle"
  /\ \E i \in Inputs : input' = [input EXCEPT ![r] = i]
  /\ pc' = [pc EXCEPT ![r] = "claim"]
  /\ UNCHANGED <<status, record, late, result, answer, executed>>

ClaimAcquired(r) ==
  /\ pc[r] = "claim" /\ record[Scope(r)] = NoRecord
  /\ record' = ClaimScript(Scope(r), input[r].order)
  /\ pc' = [pc EXCEPT ![r] = "execute"]
  /\ UNCHANGED <<status, late, input, result, answer, executed>>

ClaimFindsRecord(r) ==
  /\ pc[r] = "claim" /\ record[Scope(r)] # NoRecord
  /\ record' = ClaimScript(Scope(r), input[r].order)
  /\ Reply(r, HandleExisting(record[Scope(r)], input[r].order))
  /\ UNCHANGED <<status, late, input, result, executed>>

(* DataAccessException of the claim: 503 before anything was written. *)
ClaimFails(r) ==
  /\ pc[r] = "claim"
  /\ late' = [late EXCEPT ![r] = "claim"]
  /\ Reply(r, Failed("IDEMPOTENCY_UNAVAILABLE"))
  /\ UNCHANGED <<status, record, input, result, executed>>

MarkRefundingIfEligible_NoStatus(principal, o) == Owner[o] = principal

MarkRefundingIfEligible_NoOwner(principal, o) == status[o] \in RefundableStatuses

(* The WHERE clause of the UPDATE; it matches at most one row. *)
MarkRefundingIfEligible(principal, o) ==
  /\ Owner[o] = principal
  /\ status[o] \in RefundableStatuses

(* OrderService.requestRefund commits: the row was updated and read back.   *)
(* The row lock makes UPDATE, SELECT and COMMIT one step for the others.    *)
Refund(r) ==
  LET o == input[r].order IN
  /\ pc[r] = "execute"
  /\ MarkRefundingIfEligible(input[r].principal, o)
  /\ status' = [status EXCEPT ![o] = "REFUNDING"]
  /\ executed' = [executed EXCEPT ![r] = TRUE]
  /\ result' = [result EXCEPT ![r] =
                  Accepted([orderId |-> o, status |-> "REFUNDING"])]
  /\ pc' = [pc EXCEPT ![r] = "complete"]
  /\ UNCHANGED <<record, late, input, answer>>

RefundRefused_NoRelease(r) ==
  LET o == input[r].order IN
  /\ pc[r] = "execute"
  /\ ~MarkRefundingIfEligible(input[r].principal, o)
  /\ Reply(r, IF Owner[o] = input[r].principal
                THEN Failed("REFUND_NOT_ALLOWED") ELSE Failed("ORDER_NOT_FOUND"))
  /\ UNCHANGED <<status, record, late, input, result, executed>>

(* No row was updated: getOwnedOrder throws, or requestRefund does. *)
RefundRefused(r) ==
  LET o == input[r].order IN
  /\ pc[r] = "execute"
  /\ ~MarkRefundingIfEligible(input[r].principal, o)
  /\ result' = [result EXCEPT ![r] =
                  IF Owner[o] = input[r].principal
                    THEN Failed("REFUND_NOT_ALLOWED")
                    ELSE Failed("ORDER_NOT_FOUND")]
  /\ pc' = [pc EXCEPT ![r] = "release"]
  /\ UNCHANGED <<status, record, late, input, answer, executed>>

DatabaseFails_NoRelease(r) ==
  /\ pc[r] = "execute"
  /\ Reply(r, Failed("INTERNAL_ERROR"))
  /\ UNCHANGED <<status, record, late, input, result, executed>>

(* The transaction throws a database exception: it was rolled back, or the  *)
(* connection broke after MySQL had committed it.                           *)
DatabaseFails(r) ==
  LET o == input[r].order IN
  /\ pc[r] = "execute"
  /\ \/ UNCHANGED <<status, executed>>
     \/ /\ MarkRefundingIfEligible(input[r].principal, o)
        /\ status' = [status EXCEPT ![o] = "REFUNDING"]
        /\ executed' = [executed EXCEPT ![r] = TRUE]
  /\ result' = [result EXCEPT ![r] = Failed("INTERNAL_ERROR")]
  /\ pc' = [pc EXCEPT ![r] = "release"]
  /\ UNCHANGED <<record, late, input, answer>>

(* releaseQuietly, then the exception of the action is rethrown. *)
Release(r) ==
  /\ pc[r] = "release"
  /\ record' = ReleaseScript(Scope(r), input[r].order)
  /\ Reply(r, result[r])
  /\ UNCHANGED <<status, late, input, result, executed>>

ReleaseFails(r) ==
  /\ pc[r] = "release"
  /\ late' = [late EXCEPT ![r] = "release"]
  /\ Reply(r, result[r])
  /\ UNCHANGED <<status, record, input, result, executed>>

Complete(r) ==
  LET confirmed == record[Scope(r)] = Processing(input[r].order) IN
  /\ pc[r] = "complete"
  /\ record' = CompleteScript(Scope(r), input[r].order, result[r].body)
  /\ Reply(r, IF confirmed THEN result[r]
                           ELSE Failed("IDEMPOTENCY_OUTCOME_UNKNOWN"))
  /\ UNCHANGED <<status, late, input, result, executed>>

CompleteFails_Unavailable(r) ==
  /\ pc[r] = "complete"
  /\ late' = [late EXCEPT ![r] = "complete"]
  /\ Reply(r, Failed("IDEMPOTENCY_UNAVAILABLE"))
  /\ UNCHANGED <<status, record, input, result, executed>>

CompleteFails(r) ==
  /\ pc[r] = "complete"
  /\ late' = [late EXCEPT ![r] = "complete"]
  /\ Reply(r, Failed("IDEMPOTENCY_OUTCOME_UNKNOWN"))
  /\ UNCHANGED <<status, record, input, result, executed>>

-----------------------------------------------------------------------------
(* The environment: Redis, the network and the process. *)

(* A script whose caller saw a timeout reaches Redis after all, or never. *)
LateScript(r) ==
  LET s == Scope(r)
      o == input[r].order
  IN
  /\ late[r] \in {"claim", "release", "complete"}
  /\ late' = [late EXCEPT ![r] = "over"]
  /\ record' = CASE late[r] = "claim"    -> ClaimScript(s, o)
                 [] late[r] = "release"  -> ReleaseScript(s, o)
                 [] late[r] = "complete" -> CompleteScript(s, o, result[r].body)
  /\ UNCHANGED <<status, input, pc, result, answer, executed>>

ScriptLost(r) ==
  /\ late[r] \in {"claim", "release", "complete"}
  /\ late' = [late EXCEPT ![r] = "over"]
  /\ UNCHANGED <<status, record, input, pc, result, answer, executed>>

(* The TTL every SET gives the key runs out, however long a request takes. *)
Expire(s) ==
  /\ record[s] # NoRecord
  /\ record' = [record EXCEPT ![s] = NoRecord]
  /\ UNCHANGED <<status, late, input, pc, result, answer, executed>>

(* The process dies with every request it is serving; it keeps no state. *)
Crash ==
  /\ Serving # {}
  /\ pc' = [r \in Requests |-> IF r \in Serving THEN "done" ELSE pc[r]]
  /\ answer' = [r \in Requests |->
                  IF r \in Serving THEN Failed("NO_ANSWER") ELSE answer[r]]
  /\ UNCHANGED <<status, record, late, input, result, executed>>

RequestStep(r) ==
  \/ ClaimAcquired(r) \/ ClaimFindsRecord(r) \/ ClaimFails(r)
  \/ Refund(r) \/ RefundRefused(r) \/ DatabaseFails(r)
  \/ Release(r) \/ ReleaseFails(r)
  \/ Complete(r) \/ CompleteFails(r)

Next ==
  \/ \E r \in Requests : Submit(r) \/ RequestStep(r)
  \/ \E r \in Requests : LateScript(r) \/ ScriptLost(r)
  \/ \E s \in Scopes : Expire(s)
  \/ Crash

Spec == Init /\ [][Next]_vars

(* Every call of a request ends, if only by its timeout.  Nothing makes a   *)
(* client submit, Redis fail or the process die, and nothing is assumed of  *)
(* how soon a key expires.                                                  *)
Fairness == \A r \in Requests : WF_vars(RequestStep(r))

FairSpec == Spec /\ Fairness

-----------------------------------------------------------------------------
Service == INSTANCE RefundService
             WITH status <- status, input <- input, executed <- executed, answer <- answer

(* Every variable has its type, the calls a request still has to make agree *)
(* with what it holds, and a request that was not made holds nothing.       *)
TypeOK ==
  /\ status \in [Orders -> OrderStatus]
  /\ record \in [Scopes -> Records \cup {NoRecord}]
  /\ late \in [Requests -> {"none", "claim", "release", "complete", "over"}]
  /\ input \in [Requests -> Inputs \cup {NoInput}]
  /\ pc \in [Requests -> PCs]
  /\ result \in [Requests -> Replies \cup {NoReply}]
  /\ answer \in [Requests -> Replies \cup {NoReply}]
  /\ executed \in [Requests -> BOOLEAN]

(* The replies of the endpoint (GlobalExceptionHandler's codes and the 202) *)
(* are true, when sent and ever after: 202 names the order asked for, owned *)
(* by the caller and REFUNDING, also when it is replayed from Redis; 504    *)
(* means executed; the refusals, the 503 included, mean not executed; a     *)
(* conflict or an "in progress" has another request of the scope behind it. *)
RepliesAreTruthful ==
  \A r \in Requests : answer[r] # NoReply => Service!Truthful(r, answer[r])

(* Two requests never both move one order, whatever their keys: the status  *)
(* guard of the UPDATE holds where the Redis record has expired, was        *)
(* released by another request, or was never written.                       *)
RefundAppliedOnce ==
  \A q, r \in Requests :
    executed[q] /\ executed[r] /\ input[q].order = input[r].order => q = r

(* A COMPLETED record is what a replay may safely return: it is about the   *)
(* order of its fingerprint, which belongs to the principal of the key and  *)
(* is REFUNDING.                                                            *)
CompletedRecordIsTrue ==
  \A s \in Scopes :
    record[s] # NoRecord /\ record[s].state = "COMPLETED" =>
      /\ Owner[record[s].fingerprint] = s[1]
      /\ status[record[s].fingerprint] = "REFUNDING"
      /\ record[s].response = [orderId |-> record[s].fingerprint,
                               status |-> "REFUNDING"]

(* Only expiry ends a saved result: no claim, release, completion or late   *)
(* script of any request removes or replaces a COMPLETED record.            *)
SavedResultOnlyExpires ==
  [][\A s \in Scopes :
       record[s] # NoRecord /\ record[s].state = "COMPLETED"
         /\ record'[s] # record[s] => Expire(s)]_vars

(* Request r died with its process, or Redis failed one of its scripts. *)
Troubled(r) ==
  late[r] # "none" \/ (answer[r] # NoReply /\ answer[r].code = "NO_ANSWER")

(* A key is "in progress" only while a request of that key and order is     *)
(* being served, or after one that died or that Redis failed: no refusal,   *)
(* no database exception and no other request's expiry, release or late     *)
(* script leaves a PROCESSING record behind (execute, releaseQuietly).      *)
ProcessingIsHeld ==
  \A s \in Scopes :
    record[s] # NoRecord /\ record[s].state = "PROCESSING" =>
      \E r \in Requests :
        /\ input[r] # NoInput /\ Scope(r) = s /\ input[r].order = record[s].fingerprint
        /\ pc[r] \in {"execute", "complete", "release"} \/ Troubled(r)

(* The endpoint itself frees the key of every request it is left to finish, *)
(* by a result or by nothing: only after a death or a failure of Redis is   *)
(* the TTL of the PROCESSING record needed (execute).                       *)
KeyIsFreed ==
  \A s \in Scopes :
    record[s] # NoRecord /\ record[s].state = "PROCESSING"
      ~> \/ record[s] = NoRecord \/ record[s].state = "COMPLETED"
         \/ \E r \in Requests : input[r] # NoInput /\ Scope(r) = s /\ Troubled(r)

(* The endpoint is a RefundService: each order moved once, atomically, and  *)
(* each reply true when it is given.                                        *)
ImplementsRefundService == Service!Spec

(* docs/demo-walkthrough.md:91,96: an operation that timed out is retried   *)
(* with its Idempotency-Key, and the same key and request get the saved     *)
(* result.  Read of the code: the retry of a request that was told 504 (the *)
(* refund is executed) is never told that the refund is not allowed.        *)
RetryGetsSavedResult ==
  \A q, r \in Requests :
    /\ answer[q] # NoReply /\ answer[q].code = "IDEMPOTENCY_OUTCOME_UNKNOWN"
    /\ answer[r] # NoReply
    /\ Scope(q) = Scope(r) /\ input[q].order = input[r].order
    => answer[r].code # "REFUND_NOT_ALLOWED"
=============================================================================
