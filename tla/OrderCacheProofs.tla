-------------------------- MODULE OrderCacheProofs --------------------------
(***************************************************************************)
(* Theorems about OrderCache, for any number of readers, refunds and       *)
(* retries.  That nothing shows a refund before it happened needs the      *)
(* places a status rests in on its way to a reader (SourcedInv); that a    *)
(* stale entry has a cause needs to know that the refund which made it     *)
(* stale is itself still under way (CauseInv), for another call that ends  *)
(* would not do.                                                           *)
(***************************************************************************)
EXTENDS OrderCache, TLAPS

(* REFUNDING rests nowhere, in Redis or in a call, before MySQL has it. *)
SourcedInv ==
  /\ entry = "REFUNDING" \/ "REFUNDING" \in late => status = "REFUNDING"
  /\ \A r \in Readers :
       fetched[r] = "REFUNDING" \/ seen[r] = "REFUNDING" => status = "REFUNDING"
  /\ \A w \in Refunders :
       /\ job[w] = "accepted" => status = "REFUNDING"
       /\ wpc[w] \in {"delete", "accepted"} => job[w] = "accepted"

(* A job that is still to run has its caller waiting, unless that lapsed;   *)
(* an entry is stale before a lapse only while its refund is under way.     *)
CauseInv ==
  lapses = {} =>
    /\ \A w \in Refunders : job[w] = "sent" => wpc[w] = "post"
    /\ Stale(entry) =>
         \E w \in Refunders : job[w] = "accepted" /\ wpc[w] \in {"post", "delete"}

IInv == TypeOK /\ SourcedInv /\ CauseInv

-----------------------------------------------------------------------------
LEMMA TriesBounds ==
  /\ 0 \in 0..MaxRetries
  /\ \A n \in 0..MaxRetries : n < MaxRetries => n + 1 \in 0..MaxRetries
BY RetriesAssumption

LEMMA InitIInv == Init => IInv
BY RetriesAssumption, NoEntryAssumption
   DEF Init, IInv, TypeOK, SourcedInv, CauseInv, Stale, Statuses

(* A call that returns leaves the types and the statuses in order, if what  *)
(* it returns is one that has happened.                                     *)
LEMMA Returns ==
  ASSUME IInv, NEW r \in Readers, NEW value \in Statuses \cup {NoEntry, "error"},
         value = "REFUNDING" => status = "REFUNDING",
         Return(r, value), UNCHANGED status
  PROVE  /\ rpc' \in [Readers -> {"idle", "read", "fetch", "write"}]
         /\ tries' \in [Readers -> 0..MaxRetries]
         /\ fetched' \in [Readers -> Statuses \cup {NoEntry}]
         /\ seen' \in [Readers -> Statuses \cup {NoEntry, "error"}]
         /\ \A q \in Readers :
              fetched'[q] = "REFUNDING" \/ seen'[q] = "REFUNDING" => status' = "REFUNDING"
<1> USE NoEntryAssumption
    DEF IInv, TypeOK, SourcedInv, Return, Statuses
<1>1. rpc' \in [Readers -> {"idle", "read", "fetch", "write"}]
  OBVIOUS
<1>2. tries' \in [Readers -> 0..MaxRetries]
  <2> HIDE DEF IInv, SourcedInv, Statuses
  <2>1. tries \in [Readers -> 0..MaxRetries]
    BY DEF IInv
  <2> QED BY <2>1, TriesBounds
<1>3. fetched' \in [Readers -> Statuses \cup {NoEntry}]
  OBVIOUS
<1>4. seen' \in [Readers -> Statuses \cup {NoEntry, "error"}]
  OBVIOUS
<1>5. \A q \in Readers :
         fetched'[q] = "REFUNDING" \/ seen'[q] = "REFUNDING" => status' = "REFUNDING"
  OBVIOUS
<1> QED BY <1>1, <1>2, <1>3, <1>4, <1>5

(* The reads change neither the refunds nor what MySQL holds. *)
LEMMA ReadSteps ==
  ASSUME IInv, NEW r \in Readers, StartRead(r) \/ ReadStep(r)
  PROVE  IInv'
<1> USE NoEntryAssumption
    DEF IInv, TypeOK, SourcedInv, CauseInv, Stale, Statuses, refundVars
<1>1. CASE StartRead(r)  BY <1>1 DEF StartRead
<1>2. CASE ReadHit(r)
  <2>1. Return(r, entry) /\ UNCHANGED <<entry, late, asked, lapses, status, job, wpc>>
    BY <1>2 DEF ReadHit
  <2> QED BY <2>1, Returns
<1>3. CASE ReadMiss(r)  BY <1>3 DEF ReadMiss
<1>4. CASE FetchReplies(r)  BY <1>4 DEF FetchReplies
<1>5. CASE FetchRetries(r)
  <2>1. tries' \in [Readers -> 0..MaxRetries]
    <3> HIDE DEF SourcedInv, CauseInv, Stale, Statuses
    <3> QED BY <1>5, TriesBounds DEF FetchRetries
  <2> QED BY <1>5, <2>1 DEF FetchRetries
<1>6. CASE FetchRaises(r)
  <2>1. Return(r, "error") /\ UNCHANGED <<entry, late, asked, lapses, status, job, wpc>>
    BY <1>6 DEF FetchRaises
  <2> QED BY <2>1, Returns
<1>7. CASE Write(r)
  <2>1. Return(r, fetched[r]) /\ UNCHANGED <<late, asked, status, job, wpc>>
    BY <1>7 DEF Write
  <2>2. /\ entry' = fetched[r]
        /\ lapses' = lapses \cup IF Stale(fetched[r]) THEN {"raced"} ELSE {}
    BY <1>7 DEF Write
  <2> QED BY <2>1, <2>2, Returns
<1>8. CASE WriteFails(r)
  <2>1. Return(r, fetched[r]) /\ UNCHANGED <<entry, asked, lapses, status, job, wpc>>
    BY <1>8 DEF WriteFails
  <2>2. late' = late \cup {fetched[r]}
    BY <1>8 DEF WriteFails
  <2> QED BY <2>1, <2>2, Returns, ZenonT(30)
<1> HIDE DEF IInv
<1> QED BY <1>1, <1>2, <1>3, <1>4, <1>5, <1>6, <1>7, <1>8 DEF ReadStep

(* A refund changes no reader; what it leaves stale it still has to delete. *)
LEMMA RefundSteps ==
  ASSUME IInv, NEW w \in Refunders,
         SendRefund(w) \/ RefundStep(w) \/ JobAccepted(w) \/ JobRefused(w)
  PROVE  IInv'
<1> USE NoEntryAssumption
    DEF IInv, TypeOK, SourcedInv, CauseInv, Stale, Statuses, readerVars
<1>1. CASE SendRefund(w)  BY <1>1 DEF SendRefund
<1>2. CASE JobAccepted(w)  BY <1>2 DEF JobAccepted
<1>3. CASE JobRefused(w)  BY <1>3 DEF JobRefused
<1>4. CASE RefundAccepted(w)  BY <1>4 DEF RefundAccepted
<1>5. CASE RefundRefused(w)  BY <1>5 DEF RefundRefused
<1>6. CASE RefundUnknown(w)  BY <1>6 DEF RefundUnknown
<1>7. CASE Delete(w)  BY <1>7 DEF Delete
<1>8. CASE DeleteFails(w)  BY <1>8 DEF DeleteFails
<1> QED BY <1>1, <1>2, <1>3, <1>4, <1>5, <1>6, <1>7, <1>8 DEF RefundStep

LEMMA EnvironmentSteps ==
  ASSUME IInv,
         \/ \E value \in Statuses \cup {NoEntry} : LateCommand(value)
         \/ Expire \/ Crash \/ UNCHANGED vars
  PROVE  IInv'
<1> USE NoEntryAssumption
    DEF IInv, TypeOK, SourcedInv, CauseInv, Stale, Statuses, readerVars, refundVars
<1>1. ASSUME NEW value \in Statuses \cup {NoEntry}, LateCommand(value)
      PROVE  IInv'
  BY <1>1 DEF LateCommand
<1>2. CASE Expire  BY <1>2 DEF Expire
<1>3. CASE Crash
  <2>1. TypeOK'
    BY <1>3, TriesBounds DEF Crash
  <2>2. SourcedInv'
    BY <1>3 DEF Crash
  <2>3. lapses' = {} => wpc' = wpc
    BY <1>3 DEF Crash
  <2>4. lapses' = {} => lapses = {}
    BY <1>3 DEF Crash
  <2>5. CauseInv'
    BY <1>3, <2>3, <2>4 DEF Crash
  <2> QED BY <2>1, <2>2, <2>5
<1>4. CASE UNCHANGED vars  BY <1>4 DEF vars
<1> QED BY <1>1, <1>2, <1>3, <1>4

-----------------------------------------------------------------------------
(* The inductive invariant holds throughout: statuses come from MySQL, and  *)
(* an entry that is stale without a lapse has its refund under way.         *)
THEOREM CacheInvariance == Spec => []IInv
<1>1. IInv /\ [Next]_vars => IInv'
  BY ReadSteps, RefundSteps, EnvironmentSteps DEF Next
<1> QED BY InitIInv, <1>1, PTL DEF Spec

(* The cache, its readers and its refunds are well typed, and no GET is     *)
(* tried more often than business_service_max_retries allows.               *)
THEOREM CacheTypeCorrect == Spec => []TypeOK
<1>1. IInv => TypeOK
  BY DEF IInv
<1> QED BY <1>1, CacheInvariance, PTL

(* What is shown as refunded, from Redis or not, has been refunded.         *)
THEOREM ShownRefundsAreReal == Spec => []RefundShownIsReal
<1>1. IInv => RefundShownIsReal
  BY DEF IInv, SourcedInv, RefundShownIsReal
<1> QED BY <1>1, CacheInvariance, PTL

(* A cache entry that is stale is one the delete after a refund has still   *)
(* to remove, or follows a lapse the code tolerates.                        *)
THEOREM StaleEntriesHaveCauses == Spec => []StaleEntryHasCause
<1>1. IInv => StaleEntryHasCause
  BY DEF IInv, CauseInv, StaleEntryHasCause
<1> QED BY <1>1, CacheInvariance, PTL
=============================================================================
