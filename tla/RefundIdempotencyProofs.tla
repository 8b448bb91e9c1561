---------------------- MODULE RefundIdempotencyProofs ----------------------
(***************************************************************************)
(* Theorems about RefundIdempotency, for every set of requests, orders,    *)
(* principals and keys.  The invariants of the runs are not inductive: a   *)
(* reply is true because of what its request holds while it runs, a        *)
(* replayed one because of the record it was read from.  IInv adds what a  *)
(* request holds at each pc (RequestInv), what an executed request has     *)
(* established (ExecutedInv) and where records come from (ClaimedInv).     *)
(***************************************************************************)
EXTENDS RefundIdempotency, TLAPS

RefundingResponse(o) == [orderId |-> o, status |-> "REFUNDING"]

RequestInv ==
  \A r \in Requests :
    /\ pc[r] = "idle" <=> input[r] = NoInput
    /\ pc[r] = "done" <=> answer[r] # NoReply
    /\ pc[r] \in {"idle", "claim", "execute"} => ~executed[r]
    /\ late[r] # "none" => pc[r] = "done"
    /\ pc[r] = "complete" \/ late[r] = "complete" =>
         executed[r] /\ result[r] = Accepted(RefundingResponse(input[r].order))
    /\ pc[r] = "release" =>
         result[r] # NoReply /\ Service!Truthful(r, result[r])

ExecutedInv ==
  \A r \in Requests : executed[r] =>
    /\ input[r] # NoInput
    /\ Owner[input[r].order] = input[r].principal
    /\ status[input[r].order] = "REFUNDING"

ClaimedInv ==
  \A s \in Scopes : record[s] # NoRecord =>
    \E q \in Requests :
      /\ pc[q] \notin {"idle", "claim"}
      /\ Scope(q) = s
      /\ input[q].order = record[s].fingerprint

IInv == /\ TypeOK
        /\ RequestInv
        /\ ExecutedInv
        /\ ClaimedInv
        /\ ProcessingIsHeld
        /\ RefundAppliedOnce
        /\ CompletedRecordIsTrue
        /\ RepliesAreTruthful

-----------------------------------------------------------------------------
(* Shapes of replies and records, so that the steps below need not open     *)
(* the record sets they come from.                                          *)
LEMMA ReplyShapes ==
  /\ \A o \in Orders : RefundingResponse(o) \in OrderResponses
  /\ \A response \in OrderResponses : Accepted(response) \in Replies
  /\ \A code \in ErrorCodes : Failed(code) \in Replies
  /\ NoReply \notin Replies
BY SentinelAssumption
   DEF RefundingResponse, OrderResponses, OrderStatus, Accepted, Failed, Replies

LEMMA RecordShapes ==
  /\ \A o \in Orders : Processing(o) \in Records
  /\ \A o \in Orders, response \in OrderResponses :
       Completed(o, response) \in Records
  /\ NoRecord \notin Records
  /\ \A rec \in Records :
       /\ rec.fingerprint \in Orders
       /\ rec.state \in {"PROCESSING", "COMPLETED"}
       /\ rec.state = "COMPLETED" => rec.response \in OrderResponses
BY SentinelAssumption DEF Processing, Completed, Records

(* What each script leaves in the scope it is called on and in the others. *)
LEMMA ScriptTypes ==
  ASSUME TypeOK, NEW s \in Scopes, NEW o \in Orders
  PROVE  /\ ClaimScript(s, o) \in [Scopes -> Records \cup {NoRecord}]
         /\ ReleaseScript(s, o) \in [Scopes -> Records \cup {NoRecord}]
         /\ \A response \in OrderResponses :
              CompleteScript(s, o, response)
                \in [Scopes -> Records \cup {NoRecord}]
BY RecordShapes DEF TypeOK, ClaimScript, ReleaseScript, CompleteScript

(* handleExisting answers with an error or with the stored response. *)
LEMMA HandleExistingReplies ==
  ASSUME NEW existing \in Records, NEW o \in Orders
  PROVE  HandleExisting(existing, o) \in Replies
BY ReplyShapes, RecordShapes
   DEF HandleExisting, ErrorCodes, Refusals

LEMMA InputTypes ==
  ASSUME TypeOK, NEW r \in Requests, input[r] # NoInput
  PROVE  /\ input[r] \in Inputs
         /\ input[r].order \in Orders
         /\ input[r].principal \in Principals
         /\ input[r].key \in IdemKeys
         /\ Scope(r) \in Scopes
BY DEF TypeOK, Inputs, Scope, Scopes

-----------------------------------------------------------------------------
LEMMA InitIInv == Init => IInv
<1> SUFFICES ASSUME Init PROVE IInv
  OBVIOUS
<1>1. TypeOK
  BY StatusAssumption DEF Init, TypeOK, PCs
<1>2. RequestInv
  BY DEF Init, RequestInv
<1>3. ExecutedInv /\ ClaimedInv /\ ProcessingIsHeld /\ RefundAppliedOnce
  BY DEF Init, ExecutedInv, ClaimedInv, ProcessingIsHeld, RefundAppliedOnce
<1>4. CompletedRecordIsTrue /\ RepliesAreTruthful
  BY DEF Init, CompletedRecordIsTrue, RepliesAreTruthful
<1> QED BY <1>1, <1>2, <1>3, <1>4 DEF IInv

-----------------------------------------------------------------------------
LEMMA TypeStep == IInv /\ [Next]_vars => TypeOK'
<1> SUFFICES ASSUME IInv, [Next]_vars PROVE TypeOK'
  OBVIOUS
<1> USE DEF IInv
<1>1. ASSUME NEW r \in Requests, Submit(r) PROVE TypeOK'
  BY <1>1 DEF Submit, TypeOK, PCs
<1>2. ASSUME NEW r \in Requests, ClaimAcquired(r) PROVE TypeOK'
  <2>1. input[r] # NoInput
    BY <1>2 DEF ClaimAcquired, RequestInv
  <2> QED BY <1>2, <2>1, InputTypes, ScriptTypes DEF ClaimAcquired, TypeOK, PCs
<1>3. ASSUME NEW r \in Requests, ClaimFindsRecord(r) PROVE TypeOK'
  <2>1. input[r] # NoInput
    BY <1>3 DEF ClaimFindsRecord, RequestInv
  <2>2. HandleExisting(record[Scope(r)], input[r].order) \in Replies
    BY <1>3, <2>1, InputTypes, HandleExistingReplies DEF ClaimFindsRecord, TypeOK
  <2> QED BY <1>3, <2>1, <2>2, InputTypes, ScriptTypes
          DEF ClaimFindsRecord, Reply, TypeOK, PCs
<1>4. ASSUME NEW r \in Requests, ClaimFails(r) \/ CompleteFails(r) PROVE TypeOK'
  BY <1>4, ReplyShapes DEF ClaimFails, CompleteFails, Reply, TypeOK, PCs,
                           ErrorCodes, Refusals
<1>5. ASSUME NEW r \in Requests, Refund(r) PROVE TypeOK'
  <2>1. input[r] # NoInput
    BY <1>5 DEF Refund, RequestInv
  <2>2. Accepted(RefundingResponse(input[r].order)) \in Replies
    BY <2>1, InputTypes, ReplyShapes
  <2> QED BY <1>5, <2>2 DEF Refund, RefundingResponse, TypeOK, PCs, OrderStatus
<1>6. ASSUME NEW r \in Requests, RefundRefused(r) PROVE TypeOK'
  BY <1>6, ReplyShapes DEF RefundRefused, TypeOK, PCs, ErrorCodes, Refusals
<1>7. ASSUME NEW r \in Requests, DatabaseFails(r) PROVE TypeOK'
  BY <1>7, ReplyShapes DEF DatabaseFails, TypeOK, PCs, ErrorCodes, OrderStatus
<1>8. ASSUME NEW r \in Requests, Release(r) PROVE TypeOK'
  <2>1. input[r] # NoInput
    BY <1>8 DEF Release, RequestInv
  <2> QED BY <1>8, <2>1, InputTypes, ScriptTypes DEF Release, Reply, TypeOK, PCs
<1>9. ASSUME NEW r \in Requests, ReleaseFails(r) PROVE TypeOK'
  BY <1>9 DEF ReleaseFails, Reply, TypeOK, PCs
<1>10. ASSUME NEW r \in Requests, Complete(r) PROVE TypeOK'
  <2>1. input[r] # NoInput /\ result[r] = Accepted(RefundingResponse(input[r].order))
    BY <1>10 DEF Complete, RequestInv
  <2>2. result[r].body \in OrderResponses
    BY <2>1, InputTypes, ReplyShapes DEF Accepted
  <2> QED BY <1>10, <2>1, <2>2, InputTypes, ScriptTypes, ReplyShapes
          DEF Complete, Reply, TypeOK, PCs, ErrorCodes
<1>11. ASSUME NEW r \in Requests, LateScript(r) PROVE TypeOK'
  <2>1. input[r] # NoInput
    BY <1>11 DEF LateScript, RequestInv, TypeOK
  <2>2. ASSUME late[r] = "complete" PROVE result[r].body \in OrderResponses
    <3>1. result[r] = Accepted(RefundingResponse(input[r].order))
      BY <2>2 DEF RequestInv
    <3> QED BY <3>1, <2>1, InputTypes, ReplyShapes DEF Accepted
  <2>3. late[r] \in {"claim", "release", "complete"}
    BY <1>11 DEF LateScript, TypeOK
  <2>4. record' \in [Scopes -> Records \cup {NoRecord}]
    BY <1>11, <2>1, <2>2, <2>3, InputTypes, ScriptTypes DEF LateScript
  <2> QED BY <1>11, <2>4 DEF LateScript, TypeOK
<1>12. ASSUME NEW r \in Requests, ScriptLost(r) PROVE TypeOK'
  BY <1>12 DEF ScriptLost, TypeOK
<1>13. ASSUME NEW s \in Scopes, Expire(s) PROVE TypeOK'
  BY <1>13 DEF Expire, TypeOK
<1>14. CASE Crash
  BY <1>14, ReplyShapes DEF Crash, TypeOK, PCs, ErrorCodes
<1>15. CASE UNCHANGED vars
  BY <1>15 DEF vars, TypeOK
<1> QED BY <1>1, <1>2, <1>3, <1>4, <1>5, <1>6, <1>7, <1>8, <1>9, <1>10, <1>11,
           <1>12, <1>13, <1>14, <1>15 DEF Next, RequestStep

-----------------------------------------------------------------------------
(* The only step that writes MySQL: one transaction of a request that has   *)
(* acquired its scope, on an order that passes the WHERE clause.            *)
Moves(r) ==
  /\ pc[r] = "execute"
  /\ MarkRefundingIfEligible(input[r].principal, input[r].order)
  /\ status' = [status EXCEPT ![input[r].order] = "REFUNDING"]
  /\ executed' = [executed EXCEPT ![r] = TRUE]
  /\ UNCHANGED <<input, record, late, answer>>

LEMMA DatabaseStep ==
  [Next]_vars => \/ UNCHANGED <<status, executed>>
                 \/ \E r \in Requests : Moves(r)
<1> SUFFICES ASSUME [Next]_vars
             PROVE  UNCHANGED <<status, executed>> \/ \E r \in Requests : Moves(r)
  OBVIOUS
<1>1. ASSUME NEW r \in Requests, Refund(r) \/ DatabaseFails(r)
      PROVE  UNCHANGED <<status, executed>> \/ Moves(r)
  BY <1>1 DEF Refund, DatabaseFails, Moves
<1>2. ASSUME NEW r \in Requests,
             \/ Submit(r) \/ ClaimAcquired(r) \/ ClaimFindsRecord(r)
             \/ ClaimFails(r) \/ RefundRefused(r) \/ Release(r)
             \/ ReleaseFails(r) \/ Complete(r) \/ CompleteFails(r)
             \/ LateScript(r) \/ ScriptLost(r)
      PROVE  UNCHANGED <<status, executed>>
  BY <1>2 DEF Submit, ClaimAcquired, ClaimFindsRecord, ClaimFails, RefundRefused,
              Release, ReleaseFails, Complete, CompleteFails, LateScript, ScriptLost
<1>3. ASSUME (\E s \in Scopes : Expire(s)) \/ Crash \/ UNCHANGED vars
      PROVE  UNCHANGED <<status, executed>>
  BY <1>3 DEF Expire, Crash, vars
<1> QED BY <1>1, <1>2, <1>3 DEF Next, RequestStep

(* Inputs are set once, and a request never returns to an earlier call. *)
LEMMA RequestsAdvance ==
  IInv /\ [Next]_vars =>
    \A r \in Requests :
      /\ input[r] # NoInput => input'[r] = input[r]
      /\ pc[r] \notin {"idle", "claim"} => pc'[r] \notin {"idle", "claim"}
<1> SUFFICES ASSUME IInv, [Next]_vars, NEW q \in Requests
             PROVE  /\ input[q] # NoInput => input'[q] = input[q]
                    /\ pc[q] \notin {"idle", "claim"} =>
                         pc'[q] \notin {"idle", "claim"}
  OBVIOUS
<1> USE DEF IInv, TypeOK
<1>1. ASSUME NEW r \in Requests, Submit(r)
      PROVE  /\ input[q] # NoInput => input'[q] = input[q]
             /\ pc[q] \notin {"idle", "claim"} => pc'[q] \notin {"idle", "claim"}
  BY <1>1 DEF Submit, RequestInv
<1>2. ASSUME NEW r \in Requests, RequestStep(r) \/ LateScript(r) \/ ScriptLost(r)
      PROVE  /\ input' = input
             /\ pc[q] \notin {"idle", "claim"} => pc'[q] \notin {"idle", "claim"}
  BY <1>2 DEF RequestStep, Reply, ClaimAcquired, ClaimFindsRecord, ClaimFails,
              Refund, RefundRefused, DatabaseFails, Release, ReleaseFails,
              Complete, CompleteFails, LateScript, ScriptLost
<1>3. ASSUME (\E s \in Scopes : Expire(s)) \/ Crash \/ UNCHANGED vars
      PROVE  /\ input' = input
             /\ pc[q] \notin {"idle", "claim"} => pc'[q] \notin {"idle", "claim"}
  BY <1>3 DEF Expire, Crash, vars
<1> QED BY <1>1, <1>2, <1>3 DEF Next

LEMMA ExecutedStep ==
  IInv /\ [Next]_vars => ExecutedInv' /\ RefundAppliedOnce'
<1> SUFFICES ASSUME IInv, [Next]_vars PROVE ExecutedInv' /\ RefundAppliedOnce'
  OBVIOUS
<1> USE DEF IInv
<1>1. TypeOK'
  BY TypeStep
<1>2. CASE UNCHANGED <<status, executed>>
  <2>1. \A r \in Requests : executed[r] => input'[r] = input[r]
    BY RequestsAdvance DEF ExecutedInv
  <2> QED BY <1>2, <2>1 DEF ExecutedInv, RefundAppliedOnce
<1>3. ASSUME NEW r \in Requests, Moves(r)
      PROVE  ExecutedInv' /\ RefundAppliedOnce'
  <2>1. input[r] # NoInput /\ input[r].order \in Orders
    BY <1>3, InputTypes DEF Moves, RequestInv
  <2>2. \A q \in Requests : executed[q] => input[q].order # input[r].order
    BY <1>3 DEF Moves, MarkRefundingIfEligible, ExecutedInv, RefundableStatuses
  <2>3. ExecutedInv'
    BY <1>3, <2>1, InputTypes
       DEF Moves, MarkRefundingIfEligible, ExecutedInv, TypeOK
  <2>4. RefundAppliedOnce'
    BY <1>3, <2>2 DEF Moves, RefundAppliedOnce, TypeOK
  <2> QED BY <2>3, <2>4
<1> QED BY <1>2, <1>3, DatabaseStep

-----------------------------------------------------------------------------
(* REFUNDING is never left, and only a refundable status is ever left. *)
LEMMA StatusStable ==
  IInv /\ [Next]_vars =>
    \A o \in Orders : status[o] \notin RefundableStatuses => status'[o] = status[o]
<1> SUFFICES ASSUME IInv, [Next]_vars, NEW o \in Orders,
                    status[o] \notin RefundableStatuses
             PROVE  status'[o] = status[o]
  OBVIOUS
<1>1. ASSUME NEW r \in Requests, Moves(r) PROVE status'[o] = status[o]
  BY <1>1 DEF Moves, MarkRefundingIfEligible, IInv, TypeOK
<1> QED BY <1>1, DatabaseStep

(* How request r may have written record'[s]. *)
WrittenBy(r, s) ==
  /\ input[r] # NoInput
  /\ pc'[r] \notin {"idle", "claim"}
  /\ Scope(r) = s
  /\ \/ /\ pc'[r] = "execute" \/ late'[r] = "over"
        /\ record'[s] = Processing(input[r].order)
     \/ /\ executed[r]
        /\ record'[s] = Completed(input[r].order, RefundingResponse(input[r].order))

LEMMA RecordStep ==
  IInv /\ [Next]_vars =>
    \A s \in Scopes : \/ record'[s] \in {record[s], NoRecord}
                      \/ \E r \in Requests : WrittenBy(r, s)
<1> SUFFICES ASSUME IInv, [Next]_vars, NEW s \in Scopes
             PROVE  \/ record'[s] \in {record[s], NoRecord}
                    \/ \E r \in Requests : WrittenBy(r, s)
  OBVIOUS
<1> USE DEF IInv, TypeOK
<1>1. ASSUME NEW r \in Requests, ClaimAcquired(r) \/ ClaimFindsRecord(r)
      PROVE  record'[s] \in {record[s], NoRecord} \/ WrittenBy(r, s)
  BY <1>1, InputTypes DEF ClaimAcquired, ClaimFindsRecord, ClaimScript, Reply,
                          RequestInv, WrittenBy
<1>2. ASSUME NEW r \in Requests, Release(r)
      PROVE  record'[s] \in {record[s], NoRecord}
  BY <1>2, InputTypes DEF Release, ReleaseScript, RequestInv
<1>3. ASSUME NEW r \in Requests, Complete(r)
      PROVE  record'[s] = record[s] \/ WrittenBy(r, s)
  <2>1. /\ executed[r] /\ input[r] # NoInput
        /\ result[r].body = RefundingResponse(input[r].order)
    BY <1>3 DEF Complete, RequestInv, Accepted
  <2> QED BY <1>3, <2>1 DEF Complete, CompleteScript, Reply, WrittenBy
<1>4. ASSUME NEW r \in Requests, LateScript(r)
      PROVE  record'[s] \in {record[s], NoRecord} \/ WrittenBy(r, s)
  <2>1. input[r] # NoInput /\ pc'[r] = "done" /\ late'[r] = "over"
    BY <1>4 DEF LateScript, RequestInv
  <2>2. CASE late[r] = "claim"
    BY <1>4, <2>1, <2>2 DEF LateScript, ClaimScript, WrittenBy
  <2>3. CASE late[r] = "release"
    BY <1>4, <2>3 DEF LateScript, ReleaseScript
  <2>4. CASE late[r] = "complete"
    <3>1. executed[r] /\ result[r].body = RefundingResponse(input[r].order)
      BY <2>4 DEF RequestInv, Accepted
    <3> QED BY <1>4, <2>1, <2>4, <3>1 DEF LateScript, CompleteScript, WrittenBy
  <2> QED BY <1>4, <2>2, <2>3, <2>4 DEF LateScript
<1>5. ASSUME NEW t \in Scopes, Expire(t)
      PROVE  record'[s] \in {record[s], NoRecord}
  BY <1>5 DEF Expire
<1>6. ASSUME NEW r \in Requests,
             \/ Submit(r) \/ ClaimFails(r) \/ Refund(r) \/ RefundRefused(r)
             \/ DatabaseFails(r) \/ ReleaseFails(r) \/ CompleteFails(r)
             \/ ScriptLost(r)
      PROVE  record' = record
  BY <1>6 DEF Submit, ClaimFails, Refund, RefundRefused, DatabaseFails,
              ReleaseFails, CompleteFails, ScriptLost
<1>7. ASSUME Crash \/ UNCHANGED vars PROVE record' = record
  BY <1>7 DEF Crash, vars
<1> QED BY <1>1, <1>2, <1>3, <1>4, <1>5, <1>6, <1>7 DEF Next, RequestStep

LEMMA CompletedStep == IInv /\ [Next]_vars => CompletedRecordIsTrue'
<1> SUFFICES ASSUME IInv, [Next]_vars, NEW s \in Scopes, record'[s] # NoRecord,
                    record'[s].state = "COMPLETED"
             PROVE  LET rec == record'[s] IN
                      /\ Owner[rec.fingerprint] = s[1]
                      /\ status'[rec.fingerprint] = "REFUNDING"
                      /\ rec.response = RefundingResponse(rec.fingerprint)
  BY DEF CompletedRecordIsTrue, RefundingResponse
<1> USE DEF IInv
<1>1. CASE record'[s] = record[s]
  <2>1. record[s].fingerprint \in Orders
    BY <1>1, RecordShapes DEF TypeOK
  <2>2. status'[record[s].fingerprint] = status[record[s].fingerprint]
    BY <1>1, <2>1, StatusStable DEF CompletedRecordIsTrue, RefundableStatuses
  <2> QED BY <1>1, <2>2 DEF CompletedRecordIsTrue, RefundingResponse
<1>2. ASSUME NEW r \in Requests, WrittenBy(r, s)
      PROVE  LET rec == record'[s] IN
               /\ Owner[rec.fingerprint] = s[1]
               /\ status'[rec.fingerprint] = "REFUNDING"
               /\ rec.response = RefundingResponse(rec.fingerprint)
  <2>1. /\ executed[r]
        /\ record'[s] = Completed(input[r].order, RefundingResponse(input[r].order))
    BY <1>2 DEF WrittenBy, Processing
  <2>2. status'[input[r].order] = "REFUNDING"
    BY <1>2, <2>1, InputTypes, StatusStable
       DEF WrittenBy, ExecutedInv, RefundableStatuses
  <2>3. Owner[input[r].order] = s[1]
    BY <1>2, <2>1 DEF WrittenBy, ExecutedInv, Scope
  <2> QED BY <2>1, <2>2, <2>3 DEF Completed
<1> QED BY <1>1, <1>2, RecordStep

LEMMA ClaimedStep == IInv /\ [Next]_vars => ClaimedInv'
<1> SUFFICES ASSUME IInv, [Next]_vars, NEW s \in Scopes, record'[s] # NoRecord
             PROVE  \E q \in Requests : /\ pc'[q] \notin {"idle", "claim"}
                                        /\ Scope(q)' = s
                                        /\ input'[q].order = record'[s].fingerprint
  BY DEF ClaimedInv
<1> USE DEF IInv
<1>1. CASE record'[s] = record[s]
  <2>1. PICK q \in Requests : /\ pc[q] \notin {"idle", "claim"}
                              /\ Scope(q) = s
                              /\ input[q].order = record[s].fingerprint
    BY <1>1 DEF ClaimedInv
  <2>2. input'[q] = input[q] /\ pc'[q] \notin {"idle", "claim"}
    BY <2>1, RequestsAdvance DEF RequestInv
  <2> QED BY <1>1, <2>1, <2>2 DEF Scope
<1>2. ASSUME NEW r \in Requests, WrittenBy(r, s)
      PROVE  /\ pc'[r] \notin {"idle", "claim"}
             /\ Scope(r)' = s
             /\ input'[r].order = record'[s].fingerprint
  <2>1. input'[r] = input[r]
    BY <1>2, RequestsAdvance DEF WrittenBy
  <2> QED BY <1>2, <2>1 DEF WrittenBy, Scope, Processing, Completed
<1> QED BY <1>1, <1>2, RecordStep

-----------------------------------------------------------------------------
(* Who a PROCESSING record is held by, and that the holder keeps holding it *)
(* until its own RELEASE or COMPLETE has removed the record.                *)

Holds(r, s, o) ==
  /\ input[r] # NoInput /\ Scope(r) = s /\ input[r].order = o
  /\ pc[r] \in {"execute", "complete", "release"} \/ Troubled(r)

(* Trouble leaves its mark for good. *)
LEMMA TroubleStays ==
  ASSUME IInv, [Next]_vars, NEW q \in Requests, Troubled(q)
  PROVE  Troubled(q)'
<1> USE DEF IInv, TypeOK
<1>0. pc[q] = "done"
  BY DEF Troubled, RequestInv
<1>1. ASSUME NEW r \in Requests,
             Submit(r) \/ RequestStep(r) \/ LateScript(r) \/ ScriptLost(r)
      PROVE  /\ late[q] # "none" => late'[q] # "none"
             /\ answer'[q] = answer[q]
  <2>1. CASE Submit(r) \/ ClaimAcquired(r) \/ ClaimFindsRecord(r) \/ ClaimFails(r)
    BY <1>0, <2>1 DEF Submit, ClaimAcquired, ClaimFindsRecord, ClaimFails, Reply
  <2>2. CASE Refund(r) \/ RefundRefused(r) \/ DatabaseFails(r)
    BY <1>0, <2>2 DEF Refund, RefundRefused, DatabaseFails
  <2>3. CASE Release(r) \/ ReleaseFails(r) \/ Complete(r) \/ CompleteFails(r)
    BY <1>0, <2>3 DEF Release, ReleaseFails, Complete, CompleteFails, Reply
  <2>4. CASE LateScript(r) \/ ScriptLost(r)
    BY <2>4 DEF LateScript, ScriptLost
  <2> QED BY <1>1, <2>1, <2>2, <2>3, <2>4 DEF RequestStep
<1>2. CASE Crash
  BY <1>0, <1>2 DEF Crash, Serving, Troubled
<1>3. CASE (\E s \in Scopes : Expire(s)) \/ UNCHANGED vars
  BY <1>3 DEF Expire, vars, Troubled
<1> QED BY <1>1, <1>2, <1>3 DEF Next, Troubled

(* A request at work is at work, in trouble, or has dealt with its record.  *)
LEMMA HolderKeepsOrFrees ==
  ASSUME IInv, [Next]_vars, NEW q \in Requests,
         pc[q] \in {"execute", "complete", "release"}
  PROVE  \/ pc'[q] \in {"execute", "complete", "release"}
         \/ Troubled(q)'
         \/ record'[Scope(q)] # Processing(input[q].order)
<1> USE DEF IInv, TypeOK
<1>0. /\ input[q] # NoInput /\ late[q] = "none"
      /\ Scope(q) \in Scopes /\ input[q].order \in Orders
  BY InputTypes DEF RequestInv
<1>1. ASSUME NEW r \in Requests, r # q,
             Submit(r) \/ RequestStep(r) \/ LateScript(r) \/ ScriptLost(r)
      PROVE  pc'[q] = pc[q]
  BY <1>1 DEF Submit, RequestStep, Reply, ClaimAcquired, ClaimFindsRecord, ClaimFails,
              Refund, RefundRefused, DatabaseFails, Release, ReleaseFails,
              Complete, CompleteFails, LateScript, ScriptLost
<1>2. CASE Release(q)
  BY <1>0, <1>2, RecordShapes DEF Release, ReleaseScript
<1>3. CASE Complete(q)
  BY <1>0, <1>3 DEF Complete, CompleteScript, Processing, Completed
<1>4. CASE ReleaseFails(q) \/ CompleteFails(q)
  BY <1>4 DEF ReleaseFails, CompleteFails, Troubled
<1>5. CASE \/ Submit(q) \/ ClaimAcquired(q) \/ ClaimFindsRecord(q) \/ ClaimFails(q)
           \/ Refund(q) \/ RefundRefused(q) \/ DatabaseFails(q)
           \/ LateScript(q) \/ ScriptLost(q)
  BY <1>0, <1>5 DEF Submit, ClaimAcquired, ClaimFindsRecord, ClaimFails,
     Refund, RefundRefused, DatabaseFails, LateScript, ScriptLost
<1>6. CASE Crash
  <2>1. q \in Serving
    BY DEF Serving
  <2>2. answer'[q] = Failed("NO_ANSWER")
    BY <1>6, <2>1 DEF Crash
  <2>3. answer'[q] # NoReply /\ answer'[q].code = "NO_ANSWER"
    BY <2>2, ReplyShapes DEF ErrorCodes, Failed
  <2> QED BY <2>3 DEF Troubled
<1>7. CASE (\E s \in Scopes : Expire(s)) \/ UNCHANGED vars
  BY <1>7 DEF Expire, vars
<1> QED BY <1>1, <1>2, <1>3, <1>4, <1>5, <1>6, <1>7 DEF Next, RequestStep

LEMMA HeldStep == IInv /\ [Next]_vars => ProcessingIsHeld'
<1> SUFFICES ASSUME IInv, [Next]_vars, NEW s \in Scopes, record'[s] # NoRecord,
                    record'[s].state = "PROCESSING"
             PROVE  \E q \in Requests : Holds(q, s, record[s].fingerprint)'
  BY DEF ProcessingIsHeld, Holds
<1> USE DEF IInv
<1>1. CASE record'[s] = record[s]
  <2>1. PICK q \in Requests : Holds(q, s, record[s].fingerprint)
    BY <1>1 DEF ProcessingIsHeld, Holds
  <2>2. input'[q] = input[q] /\ Scope(q)' = Scope(q)
    BY <2>1, RequestsAdvance DEF Holds, Scope
  <2>3. record'[s] = Processing(record[s].fingerprint)
    BY <1>1 DEF TypeOK, Records, Processing
  <2>4. pc'[q] \in {"execute", "complete", "release"} \/ Troubled(q)'
    BY <2>1, <2>3, TroubleStays, HolderKeepsOrFrees DEF Holds
  <2> QED BY <1>1, <2>1, <2>2, <2>4 DEF Holds
<1>2. ASSUME NEW r \in Requests, WrittenBy(r, s)
      PROVE  Holds(r, s, record[s].fingerprint)'
  <2>1. input'[r] = input[r] /\ input[r] # NoInput
    BY <1>2, RequestsAdvance DEF WrittenBy
  <2>2. CASE record'[s] = Processing(input[r].order) /\ pc'[r] = "execute"
    BY <1>2, <2>1, <2>2 DEF WrittenBy, Holds, Scope, Processing
  <2>3. CASE record'[s] = Processing(input[r].order) /\ late'[r] = "over"
    BY <1>2, <2>1, <2>3 DEF WrittenBy, Holds, Scope, Processing, Troubled
  <2> QED BY <1>2, <2>2, <2>3 DEF WrittenBy, Completed
<1> QED BY <1>1, <1>2, RecordStep

-----------------------------------------------------------------------------
(* A request executes in its transaction only. *)
LEMMA ExecutedStable ==
  IInv /\ [Next]_vars =>
    \A r \in Requests : pc[r] # "execute" => executed'[r] = executed[r]
<1> SUFFICES ASSUME IInv, [Next]_vars, NEW r \in Requests, pc[r] # "execute"
             PROVE  executed'[r] = executed[r]
  OBVIOUS
<1>1. ASSUME NEW q \in Requests, Moves(q) PROVE executed'[r] = executed[r]
  BY <1>1 DEF Moves, IInv, TypeOK
<1> QED BY <1>1, DatabaseStep

(* What makes a reply true stays: inputs, owners, REFUNDING, a status that  *)
(* is not refundable, and whether a request past its transaction executed.  *)
LEMMA TruthStable ==
  IInv /\ [Next]_vars =>
    \A r \in Requests, a \in Replies :
      input[r] # NoInput /\ pc[r] # "execute" /\ Service!Truthful(r, a)
        => Service!Truthful(r, a)'
<1> SUFFICES ASSUME IInv, [Next]_vars, NEW r \in Requests, NEW a \in Replies,
                    input[r] # NoInput, pc[r] # "execute", Service!Truthful(r, a)
             PROVE  Service!Truthful(r, a)'
  OBVIOUS
<1> USE DEF IInv
<1>1. /\ input'[r] = input[r]
      /\ executed'[r] = executed[r]
      /\ \A q \in Requests : input[q] # NoInput => input'[q] = input[q]
  BY RequestsAdvance, ExecutedStable
<1>2. /\ input[r].order \in Orders
      /\ status[input[r].order] \notin RefundableStatuses =>
           status'[input[r].order] = status[input[r].order]
  BY InputTypes, StatusStable
<1>3. "REFUNDING" \notin RefundableStatuses
  BY DEF RefundableStatuses
<1>4. ASSUME a.code = "IDEMPOTENCY_CONFLICT"
      PROVE  \E q \in Requests : /\ input'[q] # NoInput
                                 /\ Service!Scope(q)' = Service!Scope(r)'
                                 /\ input'[q].order # input'[r].order
  <2>1. PICK q \in Requests : /\ input[q] # NoInput
                              /\ Service!Scope(q) = Service!Scope(r)
                              /\ input[q].order # input[r].order
    BY <1>4 DEF Service!Truthful, Service!Submitted
  <2> QED BY <1>1, <2>1 DEF Service!Scope
<1>5. ASSUME a.code = "IDEMPOTENCY_IN_PROGRESS"
      PROVE  \E q \in Requests \ {r} : /\ input'[q] # NoInput
                                       /\ Service!Scope(q)' = Service!Scope(r)'
                                       /\ input'[q].order = input'[r].order
  <2>1. PICK q \in Requests \ {r} : /\ input[q] # NoInput
                                    /\ Service!Scope(q) = Service!Scope(r)
                                    /\ input[q].order = input[r].order
    BY <1>5 DEF Service!Truthful, Service!Submitted
  <2> QED BY <1>1, <2>1 DEF Service!Scope
<1>6. a.code = "ACCEPTED" =>
        /\ a.body = [orderId |-> input'[r].order, status |-> "REFUNDING"]
        /\ status'[input'[r].order] = "REFUNDING"
        /\ Owner[input'[r].order] = input'[r].principal
  BY <1>1, <1>2, <1>3 DEF Service!Truthful, Service!RefundableStatuses, Service!Refusals,
           RefundableStatuses, Refusals
<1>7. /\ a.code = "ORDER_NOT_FOUND" => Owner[input'[r].order] # input'[r].principal
      /\ a.code = "REFUND_NOT_ALLOWED" =>
           /\ Owner[input'[r].order] = input'[r].principal
           /\ status'[input'[r].order] \notin RefundableStatuses
      /\ a.code = "IDEMPOTENCY_OUTCOME_UNKNOWN" => executed'[r]
      /\ a.code \in Refusals => ~executed'[r]
  BY <1>1, <1>2 DEF Service!Truthful, Service!RefundableStatuses, Service!Refusals,
           RefundableStatuses, Refusals
<1> QED BY <1>4, <1>5, <1>6, <1>7
        DEF Service!Truthful, Service!Submitted, Service!RefundableStatuses,
            Service!Refusals, RefundableStatuses, Refusals

(* handleExisting tells the truth: what it replays is about the order asked *)
(* for, because the fingerprint is, and the record it found is not r's own. *)
LEMMA HandleExistingTruthful ==
  ASSUME IInv, NEW r \in Requests, pc[r] = "claim", record[Scope(r)] # NoRecord
  PROVE  Service!Truthful(r, HandleExisting(record[Scope(r)], input[r].order))
<1> USE DEF IInv
<1> DEFINE rec == record[Scope(r)]
           o   == input[r].order
<1>1. /\ input[r] # NoInput /\ ~executed[r] /\ o \in Orders
      /\ Scope(r) \in Scopes /\ Scope(r)[1] = input[r].principal
  BY InputTypes DEF RequestInv, Scope
<1>2. rec \in Records /\ rec.fingerprint \in Orders
  BY <1>1, RecordShapes DEF TypeOK
<1>3. PICK q \in Requests : /\ pc[q] \notin {"idle", "claim"}
                            /\ Scope(q) = Scope(r)
                            /\ input[q].order = rec.fingerprint
  BY <1>1 DEF ClaimedInv
<1>4. q # r /\ input[q] # NoInput /\ Service!Scope(q) = Service!Scope(r)
  BY <1>3 DEF RequestInv, Scope, Service!Scope
<1>5. CASE rec.fingerprint # o
  BY <1>1, <1>3, <1>4, <1>5
     DEF HandleExisting, Failed, Service!Truthful, Service!Submitted,
         Service!Refusals
<1>6. CASE rec.fingerprint = o /\ rec.state = "PROCESSING"
  <2>1. HandleExisting(rec, o) = Failed("IDEMPOTENCY_IN_PROGRESS")
    BY <1>6 DEF HandleExisting
  <2>2. \E p \in Requests \ {r} : /\ input[p] # NoInput
                                  /\ Service!Scope(p) = Service!Scope(r)
                                  /\ input[p].order = o
    BY <1>3, <1>4, <1>6
  <2> QED BY <1>1, <2>1, <2>2 DEF Failed, Service!Truthful, Service!Submitted,
         Service!Refusals
<1>7. CASE rec.fingerprint = o /\ rec.state = "COMPLETED"
  <2>1. /\ Owner[o] = input[r].principal
        /\ status[o] = "REFUNDING"
        /\ rec.response = RefundingResponse(o)
    BY <1>1, <1>7 DEF CompletedRecordIsTrue, RefundingResponse
  <2>2. rec.response # NoResponse
    BY <1>1, <2>1, ReplyShapes, NoResponseAssumption
  <2>3. HandleExisting(rec, o) = Accepted(RefundingResponse(o))
    BY <1>7, <2>1, <2>2 DEF HandleExisting
  <2>4. HandleExisting(rec, o).code = "ACCEPTED"
    BY <2>3 DEF Accepted
  <2>5. HandleExisting(rec, o).body = [orderId |-> o, status |-> "REFUNDING"]
    BY <2>3 DEF Accepted, RefundingResponse
  <2> HIDE DEF rec, o
  <2> QED BY <2>1, <2>4, <2>5 DEF Service!Truthful, Service!Refusals, o, rec
<1> QED BY <1>2, <1>5, <1>6, <1>7, RecordShapes

-----------------------------------------------------------------------------
(* The exception a request carries into releaseQuietly is a true reply. *)
LEMMA RefusedTruthful ==
  ASSUME IInv, NEW r \in Requests, RefundRefused(r)
  PROVE  result'[r] \in Replies /\ Service!Truthful(r, result'[r])
<1>1. /\ input[r] # NoInput /\ ~executed[r]
      /\ ~MarkRefundingIfEligible(input[r].principal, input[r].order)
  BY DEF IInv, RequestInv, RefundRefused
<1>2. CASE Owner[input[r].order] = input[r].principal
  <2>1. result'[r] = Failed("REFUND_NOT_ALLOWED")
    BY <1>2 DEF RefundRefused, IInv, TypeOK
  <2> QED BY <1>1, <1>2, <2>1, ReplyShapes
          DEF MarkRefundingIfEligible, Failed, ErrorCodes, Refusals,
              Service!Truthful, Service!Refusals, Service!RefundableStatuses,
              RefundableStatuses
<1>3. CASE Owner[input[r].order] # input[r].principal
  <2>1. result'[r] = Failed("ORDER_NOT_FOUND")
    BY <1>3 DEF RefundRefused, IInv, TypeOK
  <2> QED BY <1>1, <1>3, <2>1, ReplyShapes
          DEF Failed, ErrorCodes, Refusals, Service!Truthful, Service!Refusals
<1> QED BY <1>2, <1>3

(* Replies that are true whatever the request did, or because it executed. *)
LEMMA FailuresTruthful ==
  ASSUME NEW r \in Requests
  PROVE  /\ Service!Truthful(r, Failed("INTERNAL_ERROR"))
         /\ Service!Truthful(r, Failed("NO_ANSWER"))
         /\ executed[r] =>
              Service!Truthful(r, Failed("IDEMPOTENCY_OUTCOME_UNKNOWN"))
         /\ ~executed[r] =>
              Service!Truthful(r, Failed("IDEMPOTENCY_UNAVAILABLE"))
BY DEF Failed, Service!Truthful, Service!Refusals

(* Only the shape of RequestInv; the truth of a carried exception follows. *)
RequestShape(r) ==
  /\ pc[r] = "idle" <=> input[r] = NoInput
  /\ pc[r] = "done" <=> answer[r] # NoReply
  /\ pc[r] \in {"idle", "claim", "execute"} => ~executed[r]
  /\ late[r] # "none" => pc[r] = "done"
  /\ pc[r] = "complete" \/ late[r] = "complete" =>
       executed[r] /\ result[r] = Accepted(RefundingResponse(input[r].order))

LEMMA ShapeStep == IInv /\ [Next]_vars => \A q \in Requests : RequestShape(q)'
<1> SUFFICES ASSUME IInv, [Next]_vars, NEW q \in Requests PROVE RequestShape(q)'
  OBVIOUS
<1> USE DEF IInv, TypeOK
<1>0. RequestShape(q)
  BY DEF RequestInv, RequestShape
<1>1. ASSUME NEW r \in Requests, Submit(r) PROVE RequestShape(q)'
  BY <1>0, <1>1, SentinelAssumption DEF Submit, RequestShape
<1>2. ASSUME NEW r \in Requests, ClaimAcquired(r) PROVE RequestShape(q)'
  BY <1>0, <1>2 DEF ClaimAcquired, RequestShape
<1>3. ASSUME NEW r \in Requests, ClaimFindsRecord(r) PROVE RequestShape(q)'
  <2>1. input[r] # NoInput
    BY <1>3 DEF ClaimFindsRecord, RequestInv
  <2>2. HandleExisting(record[Scope(r)], input[r].order) \in Replies
    BY <1>3, <2>1, InputTypes, HandleExistingReplies DEF ClaimFindsRecord
  <2> QED BY <1>0, <1>3, <2>2, ReplyShapes DEF ClaimFindsRecord, Reply, RequestShape
<1>4. ASSUME NEW r \in Requests, ClaimFails(r) PROVE RequestShape(q)'
  BY <1>0, <1>4, ReplyShapes
     DEF ClaimFails, Reply, RequestShape, ErrorCodes, Refusals
<1>5. ASSUME NEW r \in Requests, Refund(r) PROVE RequestShape(q)'
  BY <1>0, <1>5 DEF Refund, RequestShape, RefundingResponse
<1>6. ASSUME NEW r \in Requests, RefundRefused(r) \/ DatabaseFails(r)
      PROVE  RequestShape(q)'
  BY <1>0, <1>6 DEF RefundRefused, DatabaseFails, RequestShape
<1>7. ASSUME NEW r \in Requests, Release(r) \/ ReleaseFails(r)
      PROVE  RequestShape(q)'
  BY <1>0, <1>7 DEF Release, ReleaseFails, Reply, RequestShape, RequestInv
<1>8. ASSUME NEW r \in Requests, Complete(r) PROVE RequestShape(q)'
  <2>1. result[r] # NoReply
    BY <1>8, InputTypes, ReplyShapes DEF Complete, RequestInv
  <2> QED BY <1>0, <1>8, <2>1, ReplyShapes DEF Complete, Reply, RequestShape, ErrorCodes
<1>9. ASSUME NEW r \in Requests, CompleteFails(r) PROVE RequestShape(q)'
  BY <1>0, <1>9, ReplyShapes DEF CompleteFails, Reply, RequestShape, ErrorCodes
<1>10. ASSUME NEW r \in Requests, LateScript(r) \/ ScriptLost(r)
       PROVE  RequestShape(q)'
  BY <1>0, <1>10 DEF LateScript, ScriptLost, RequestShape
<1>11. ASSUME (\E s \in Scopes : Expire(s)) \/ UNCHANGED vars
       PROVE  RequestShape(q)'
  BY <1>0, <1>11 DEF Expire, vars, RequestShape
<1>12. CASE Crash
  BY <1>0, <1>12, ReplyShapes DEF Crash, Serving, RequestShape, ErrorCodes, PCs
<1> QED BY <1>1, <1>2, <1>3, <1>4, <1>5, <1>6, <1>7, <1>8, <1>9, <1>10, <1>11,
           <1>12 DEF Next, RequestStep

LEMMA CarriedStep ==
  IInv /\ [Next]_vars =>
    \A q \in Requests : pc'[q] = "release" =>
      result'[q] # NoReply /\ Service!Truthful(q, result[q])'
<1> SUFFICES ASSUME IInv, [Next]_vars, NEW q \in Requests, pc'[q] = "release"
             PROVE  result'[q] # NoReply /\ Service!Truthful(q, result[q])'
  OBVIOUS
<1> USE DEF IInv, TypeOK
<1>1. CASE RefundRefused(q)
  <2>1. result'[q] \in Replies /\ Service!Truthful(q, result'[q])
    BY <1>1, RefusedTruthful
  <2>2. UNCHANGED <<status, input, executed>>
    BY <1>1 DEF RefundRefused
  <2> QED BY <2>1, <2>2, ReplyShapes
          DEF Service!Truthful, Service!Submitted, Service!Scope
<1>2. CASE DatabaseFails(q)
  <2>1. result'[q] = Failed("INTERNAL_ERROR")
    BY <1>2 DEF DatabaseFails
  <2> QED BY <2>1, ReplyShapes
          DEF Failed, ErrorCodes, Service!Truthful, Service!Refusals
<1>3. CASE pc[q] = "release" /\ result'[q] = result[q]
  <2>1. /\ input[q] # NoInput /\ result[q] \in Replies
        /\ Service!Truthful(q, result[q])
    BY <1>3 DEF RequestInv
  <2> QED BY <1>3, <2>1, TruthStable, ReplyShapes
<1>4. ASSUME NEW r \in Requests, r # q, RefundRefused(r) \/ DatabaseFails(r)
      PROVE  pc[q] = "release" /\ result'[q] = result[q]
  BY <1>4 DEF RefundRefused, DatabaseFails
<1>5. ASSUME NEW r \in Requests,
             \/ Submit(r) \/ ClaimAcquired(r) \/ ClaimFindsRecord(r)
             \/ ClaimFails(r) \/ Refund(r) \/ Release(r) \/ ReleaseFails(r)
             \/ Complete(r) \/ CompleteFails(r) \/ LateScript(r) \/ ScriptLost(r)
      PROVE  pc[q] = "release" /\ result'[q] = result[q]
  BY <1>5 DEF Submit, ClaimAcquired, ClaimFindsRecord, ClaimFails, Refund, Release,
              ReleaseFails, Complete, CompleteFails, LateScript, ScriptLost, Reply
<1>6. ASSUME (\E s \in Scopes : Expire(s)) \/ Crash \/ UNCHANGED vars
      PROVE  pc[q] = "release" /\ result'[q] = result[q]
  BY <1>6 DEF Expire, Crash, Serving, vars
<1> QED BY <1>1, <1>2, <1>3, <1>4, <1>5, <1>6 DEF Next, RequestStep

(* Every reply a step sends is true when it is sent. *)
LEMMA NewRepliesTruthful ==
  IInv /\ [Next]_vars =>
    \A q \in Requests : answer'[q] # answer[q] =>
      /\ answer'[q] \in Replies
      /\ \/ input[q] # NoInput /\ pc[q] # "execute"
         \/ answer'[q] = Failed("NO_ANSWER")
      /\ Service!Truthful(q, answer'[q])
<1> SUFFICES ASSUME IInv, [Next]_vars, NEW q \in Requests, answer'[q] # answer[q]
             PROVE  /\ answer'[q] \in Replies
                    /\ \/ input[q] # NoInput /\ pc[q] # "execute"
                       \/ answer'[q] = Failed("NO_ANSWER")
                    /\ Service!Truthful(q, answer'[q])
  OBVIOUS
<1> USE DEF IInv, TypeOK
<1>1. CASE ClaimFindsRecord(q)
  <2>1. input[q] # NoInput
    BY <1>1 DEF ClaimFindsRecord, RequestInv
  <2>2. HandleExisting(record[Scope(q)], input[q].order) \in Replies
    BY <1>1, <2>1, InputTypes, HandleExistingReplies DEF ClaimFindsRecord
  <2> QED BY <1>1, <2>1, <2>2, HandleExistingTruthful DEF ClaimFindsRecord, Reply
<1>2. CASE ClaimFails(q)
  <2>1. answer'[q] = Failed("IDEMPOTENCY_UNAVAILABLE") /\ ~executed[q]
    BY <1>2 DEF ClaimFails, Reply, RequestInv
  <2> QED BY <1>2, <2>1, FailuresTruthful, ReplyShapes
          DEF ClaimFails, RequestInv, ErrorCodes, Refusals
<1>3. CASE Release(q) \/ ReleaseFails(q)
  BY <1>3, ReplyShapes DEF Release, ReleaseFails, Reply, RequestInv
<1>4. CASE Complete(q) \/ CompleteFails(q)
  <2>1. pc[q] = "complete" /\ input[q] # NoInput /\ executed[q]
    BY <1>4 DEF Complete, CompleteFails, RequestInv
  <2>2. \/ answer'[q] = Failed("IDEMPOTENCY_OUTCOME_UNKNOWN")
        \/ answer'[q] = Accepted(RefundingResponse(input[q].order))
    BY <1>4 DEF Complete, CompleteFails, Reply, RequestInv
  <2>3. /\ input[q].order \in Orders
        /\ Owner[input[q].order] = input[q].principal
        /\ status[input[q].order] = "REFUNDING"
    BY <2>1, InputTypes DEF ExecutedInv
  <2>4. Service!Truthful(q, Accepted(RefundingResponse(input[q].order)))
    BY <2>3 DEF Accepted, RefundingResponse, Service!Truthful, Service!Refusals
  <2> QED BY <2>1, <2>2, <2>3, <2>4, FailuresTruthful, ReplyShapes DEF ErrorCodes
<1>5. CASE Crash
  <2>1. answer'[q] = Failed("NO_ANSWER")
    BY <1>5 DEF Crash
  <2> QED BY <2>1, FailuresTruthful, ReplyShapes DEF ErrorCodes
<1>6. ASSUME NEW r \in Requests, r # q,
             \/ ClaimFindsRecord(r) \/ ClaimFails(r) \/ Release(r)
             \/ ReleaseFails(r) \/ Complete(r) \/ CompleteFails(r)
      PROVE  FALSE
  BY <1>6 DEF ClaimFindsRecord, ClaimFails, Release, ReleaseFails, Complete,
              CompleteFails, Reply
<1>7. ASSUME NEW r \in Requests,
             \/ Submit(r) \/ ClaimAcquired(r) \/ Refund(r) \/ RefundRefused(r)
             \/ DatabaseFails(r) \/ LateScript(r) \/ ScriptLost(r)
      PROVE  FALSE
  BY <1>7 DEF Submit, ClaimAcquired, Refund, RefundRefused, DatabaseFails,
              LateScript, ScriptLost
<1>8. ASSUME (\E s \in Scopes : Expire(s)) \/ UNCHANGED vars PROVE FALSE
  BY <1>8 DEF Expire, vars
<1> QED BY <1>1, <1>2, <1>3, <1>4, <1>5, <1>6, <1>7, <1>8 DEF Next, RequestStep

LEMMA RepliesStep == IInv /\ [Next]_vars => RepliesAreTruthful'
<1> SUFFICES ASSUME IInv, [Next]_vars, NEW q \in Requests, answer'[q] # NoReply
             PROVE  Service!Truthful(q, answer[q])'
  BY DEF RepliesAreTruthful
<1> USE DEF IInv
<1>1. CASE answer'[q] = answer[q]
  <2>1. /\ input[q] # NoInput /\ pc[q] = "done" /\ answer[q] \in Replies
        /\ Service!Truthful(q, answer[q])
    BY <1>1 DEF RequestInv, TypeOK, RepliesAreTruthful
  <2> QED BY <1>1, <2>1, TruthStable
<1>2. CASE answer'[q] = Failed("NO_ANSWER")
  BY <1>2 DEF Failed, Service!Truthful, Service!Refusals
<1>3. CASE answer'[q] # answer[q] /\ answer'[q] # Failed("NO_ANSWER")
  BY <1>3, NewRepliesTruthful, TruthStable
<1> QED BY <1>1, <1>2, <1>3

-----------------------------------------------------------------------------
LEMMA StepIInv == IInv /\ [Next]_vars => IInv'
<1> SUFFICES ASSUME IInv, [Next]_vars PROVE IInv'
  OBVIOUS
<1>1. TypeOK' /\ ExecutedInv' /\ RefundAppliedOnce'
  BY TypeStep, ExecutedStep
<1>2. RequestInv'
  BY ShapeStep, CarriedStep DEF RequestInv, RequestShape
<1>3. /\ ClaimedInv' /\ ProcessingIsHeld'
      /\ CompletedRecordIsTrue' /\ RepliesAreTruthful'
  BY ClaimedStep, HeldStep, CompletedStep, RepliesStep
<1> QED BY <1>1, <1>2, <1>3 DEF IInv

(* The inductive invariant holds throughout: what requests hold, records    *)
(* say and replies promise fit together in every reachable state.           *)
THEOREM Invariance == Spec => []IInv
BY InitIInv, StepIInv, PTL DEF Spec

(* RefundIdempotency is well typed: what a script stores, a request carries *)
(* or the endpoint replies is always of its kind.                           *)
THEOREM TypeCorrect == Spec => []TypeOK
<1>1. IInv => TypeOK
  BY DEF IInv
<1> QED BY <1>1, Invariance, PTL

(* The endpoint's replies stay true: no interleaving of requests, expiries, *)
(* crashes and late scripts makes a 202, 409, 503 or 504 a lie.             *)
THEOREM RepliesTruthful == Spec => []RepliesAreTruthful
<1>1. IInv => RepliesAreTruthful
  BY DEF IInv
<1> QED BY <1>1, Invariance, PTL

(* An order is refunded by one request at most, however many keys are used. *)
THEOREM AppliedOnce == Spec => []RefundAppliedOnce
<1>1. IInv => RefundAppliedOnce
  BY DEF IInv
<1> QED BY <1>1, Invariance, PTL

(* A saved result may be replayed at any time: it is true of its order. *)
THEOREM CompletedRecordsTrue == Spec => []CompletedRecordIsTrue
<1>1. IInv => CompletedRecordIsTrue
  BY DEF IInv
<1> QED BY <1>1, Invariance, PTL

(* No key is in progress without a request that is served, or one that has  *)
(* died or was failed by Redis.                                             *)
THEOREM ProcessingHeld == Spec => []ProcessingIsHeld
<1>1. IInv => ProcessingIsHeld
  BY DEF IInv
<1> QED BY <1>1, Invariance, PTL

-----------------------------------------------------------------------------
(* Only its TTL ends a saved result: the compare in COMPLETE and RELEASE    *)
(* keeps them off a COMPLETED value, and CLAIM never overwrites.            *)
THEOREM SavedResultsOnlyExpire == Spec => SavedResultOnlyExpires
<1>1. ASSUME IInv, [Next]_vars, NEW s \in Scopes, record[s] # NoRecord,
             record[s].state = "COMPLETED", record'[s] # record[s]
      PROVE  Expire(s)
  <2> USE DEF IInv, TypeOK
  <2>1. \A o : record[s] # Processing(o)
    BY <1>1 DEF Processing
  <2>2. ASSUME NEW r \in Requests,
               \/ ClaimAcquired(r) \/ ClaimFindsRecord(r) \/ Release(r)
               \/ Complete(r) \/ LateScript(r)
        PROVE  FALSE
    BY <1>1, <2>1, <2>2
       DEF ClaimAcquired, ClaimFindsRecord, Release, Complete, LateScript,
           ClaimScript, ReleaseScript, CompleteScript
  <2>3. ASSUME NEW r \in Requests,
               \/ Submit(r) \/ ClaimFails(r) \/ Refund(r) \/ RefundRefused(r)
               \/ DatabaseFails(r) \/ ReleaseFails(r) \/ CompleteFails(r)
               \/ ScriptLost(r)
        PROVE  FALSE
    BY <1>1, <2>3 DEF Submit, ClaimFails, Refund, RefundRefused, DatabaseFails,
                      ReleaseFails, CompleteFails, ScriptLost
  <2>4. ASSUME Crash \/ UNCHANGED vars PROVE FALSE
    BY <1>1, <2>4 DEF Crash, vars
  <2>5. ASSUME NEW t \in Scopes, Expire(t) PROVE t = s
    BY <1>1, <2>5 DEF Expire
  <2> QED BY <1>1, <2>2, <2>3, <2>4, <2>5 DEF Next, RequestStep
<1>2. IInv /\ [Next]_vars =>
        [\A s \in Scopes :
           record[s] # NoRecord /\ record[s].state = "COMPLETED"
             /\ record'[s] # record[s] => Expire(s)]_vars
  BY <1>1
<1> QED BY <1>2, Invariance, PTL DEF Spec, SavedResultOnlyExpires

-----------------------------------------------------------------------------
LEMMA InitRefines == Init => Service!Init
BY DEF Init, Service!Init

LEMMA StepRefines ==
  IInv /\ [Next]_vars => [Service!Next]_(Service!abstractVars)
<1> SUFFICES ASSUME IInv, [Next]_vars
             PROVE  Service!Next \/ UNCHANGED <<status, input, executed, answer>>
  BY DEF Service!abstractVars
<1> USE DEF IInv, TypeOK
<1>1. ASSUME NEW r \in Requests, Submit(r) PROVE Service!Submit(r)
  BY <1>1 DEF Submit, RequestInv, Service!Submit, Service!Submitted,
              Inputs, Service!Inputs
<1>2. ASSUME NEW r \in Requests, Moves(r) PROVE Service!Refund(r)
  BY <1>2 DEF Moves, MarkRefundingIfEligible, RequestInv, Service!Refund,
              Service!Submitted, RefundableStatuses, Service!RefundableStatuses
<1>3. ASSUME NEW r \in Requests,
             \/ ClaimFindsRecord(r) \/ ClaimFails(r) \/ Release(r)
             \/ ReleaseFails(r) \/ Complete(r) \/ CompleteFails(r)
      PROVE  Service!Answer(r)
  <2>1. /\ UNCHANGED <<status, input, executed>>
        /\ answer' = [answer EXCEPT ![r] = answer'[r]]
        /\ input[r] # NoInput /\ answer[r] = NoReply /\ answer'[r] # NoReply
    <3>1. pc[r] \in {"claim", "release", "complete"} /\ pc'[r] = "done"
      BY <1>3 DEF ClaimFindsRecord, ClaimFails, Release, ReleaseFails, Complete,
                  CompleteFails, Reply
    <3>2. UNCHANGED <<status, input, executed>>
      BY <1>3 DEF ClaimFindsRecord, ClaimFails, Release, ReleaseFails, Complete,
                  CompleteFails
    <3>3. answer' = [answer EXCEPT ![r] = answer'[r]]
      BY <1>3 DEF ClaimFindsRecord, ClaimFails, Release, ReleaseFails, Complete,
                  CompleteFails, Reply
    <3>4. answer'[r] # NoReply
      BY <3>1, ShapeStep DEF RequestShape
    <3> QED BY <3>1, <3>2, <3>3, <3>4 DEF RequestInv
  <2>2. answer'[r] \in Replies /\ Service!Truthful(r, answer'[r])
    BY <2>1, NewRepliesTruthful
  <2>3. Replies = Service!Replies
    BY DEF Replies, Service!Replies, OrderResponses, Service!OrderResponses,
           OrderStatus, Service!OrderStatus, ErrorCodes, Service!ErrorCodes,
           Refusals, Service!Refusals
  <2> QED BY <2>1, <2>2, <2>3 DEF Service!Answer, Service!Submitted
<1>4. ASSUME Crash PROVE Service!Abandon
  <2>1. Serving \in SUBSET {r \in Requests : Service!Submitted(r) /\ answer[r] = NoReply}
    BY DEF Serving, RequestInv, Service!Submitted
  <2>2. Failed("NO_ANSWER") = Service!Failed("NO_ANSWER")
    BY DEF Failed, Service!Failed
  <2> QED BY <1>4, <2>1, <2>2 DEF Crash, Service!Abandon
<1>5. ASSUME NEW r \in Requests,
             ClaimAcquired(r) \/ RefundRefused(r) \/ LateScript(r) \/ ScriptLost(r)
      PROVE  UNCHANGED <<status, input, executed, answer>>
  BY <1>5 DEF ClaimAcquired, RefundRefused, LateScript, ScriptLost
<1>6. ASSUME NEW r \in Requests, Refund(r) \/ DatabaseFails(r)
      PROVE  Moves(r) \/ UNCHANGED <<status, input, executed, answer>>
  BY <1>6 DEF Refund, DatabaseFails, Moves
<1>7. ASSUME (\E s \in Scopes : Expire(s)) \/ UNCHANGED vars
      PROVE  UNCHANGED <<status, input, executed, answer>>
  BY <1>7 DEF Expire, vars
<1> QED BY <1>1, <1>2, <1>3, <1>4, <1>5, <1>6, <1>7
        DEF Next, RequestStep, Service!Next

(* The endpoint with its scripts, transaction, expiry, crashes and late     *)
(* commands is an atomic, at-most-once, truthful refund service.            *)
THEOREM Refinement == Spec => ImplementsRefundService
BY InitRefines, StepRefines, Invariance, PTL
   DEF Spec, ImplementsRefundService, Service!Spec
=============================================================================
