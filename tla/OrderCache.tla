----------------------------- MODULE OrderCache -----------------------------
(***************************************************************************)
(* The agent service's view of one order: CachedOrderService in front of   *)
(* BusinessServiceClient.  A read goes to Redis, then to the business      *)
(* service, then writes Redis; a refund goes to the business service and   *)
(* then deletes the entry, but only when it was accepted.  Nothing orders  *)
(* the two against each other.  The key holds tenant, user and order, so   *)
(* the entries of other orders and users are independent of this one.      *)
(***************************************************************************)
EXTENDS Naturals

CONSTANTS
  Readers,    \* concurrent calls of get_order for this order
  Refunders,  \* calls of request_refund for this order
  MaxRetries, \* business_service_max_retries: further attempts of a GET
  NoEntry     \* the value of a cache key that does not exist

VARIABLES
  status,   \* business service: the status column of the order
  job,      \* job[w]: what the business service did with the POST of w
  entry,    \* Redis: the cached status, or NoEntry
  late,     \* commands that failed for their caller and may still run
  rpc,      \* rpc[r]: the call get_order r makes next
  tries,    \* tries[r]: failed attempts of the GET of r
  fetched,  \* fetched[r]: the order the GET of r returned
  seen,     \* seen[r]: what the last get_order r returned, or "error"
  wpc,      \* wpc[w]: where request_refund w is, or how it ended
  asked,    \* history: asked[r] says the read r began after a caller had
            \* been told "outcome unknown" of a refund that had happened
  lapses    \* history: the ways in which a stale entry came about

vars == <<status, job, entry, late, rpc, tries, fetched, seen, wpc, asked, lapses>>
readerVars == <<rpc, tries, fetched, seen, asked>>
refundVars == <<status, job, wpc>>

(* Before and after the refund.  COMPLETED behaves as SHIPPED does. *)
Statuses == {"SHIPPED", "REFUNDING"}

ASSUME RetriesAssumption == MaxRetries \in Nat
ASSUME NoEntryAssumption == NoEntry \notin Statuses

Stale(value) == value # NoEntry /\ value # status

-----------------------------------------------------------------------------
Init ==
  /\ status = "SHIPPED"
  /\ job = [w \in Refunders |-> "none"]
  /\ entry = NoEntry
  /\ late = {}
  /\ rpc = [r \in Readers |-> "idle"]
  /\ tries = [r \in Readers |-> 0]
  /\ fetched = [r \in Readers |-> NoEntry]
  /\ seen = [r \in Readers |-> NoEntry]
  /\ wpc = [w \in Refunders |-> "idle"]
  /\ asked = [r \in Readers |-> FALSE]
  /\ lapses = {}

Return(r, value) == /\ rpc' = [rpc EXCEPT ![r] = "idle"]
                    /\ seen' = [seen EXCEPT ![r] = value]
                    /\ fetched' = [fetched EXCEPT ![r] = NoEntry]
                    /\ tries' = [tries EXCEPT ![r] = 0]

(* get_order is called. *)
StartRead(r) ==
  /\ rpc[r] = "idle"
  /\ rpc' = [rpc EXCEPT ![r] = "read"]
  /\ seen' = [seen EXCEPT ![r] = NoEntry]
  /\ asked' = [asked EXCEPT ![r] =
                 status = "REFUNDING" /\ \E w \in Refunders : wpc[w] = "unknown"]
  /\ UNCHANGED <<entry, late, tries, fetched, lapses, refundVars>>

ReadHit(r) ==
  /\ rpc[r] = "read" /\ entry # NoEntry
  /\ Return(r, entry)
  /\ UNCHANGED <<entry, late, asked, lapses, refundVars>>

(* A miss, or a RedisError: the cache is bypassed. *)
ReadMiss(r) ==
  /\ rpc[r] = "read"
  /\ rpc' = [rpc EXCEPT ![r] = "fetch"]
  /\ UNCHANGED <<entry, late, tries, fetched, seen, asked, lapses, refundVars>>

FetchReplies(r) ==
  /\ rpc[r] = "fetch"
  /\ fetched' = [fetched EXCEPT ![r] = status]
  /\ rpc' = [rpc EXCEPT ![r] = "write"]
  /\ UNCHANGED <<entry, late, tries, seen, asked, lapses, refundVars>>

FetchRetries_OneMore(r) ==
  /\ rpc[r] = "fetch" /\ tries[r] <= MaxRetries
  /\ tries' = [tries EXCEPT ![r] = @ + 1]
  /\ UNCHANGED <<entry, late, rpc, fetched, seen, asked, lapses, refundVars>>

(* A timeout, a connection error or a 5xx, with attempts left. *)
FetchRetries(r) ==
  /\ rpc[r] = "fetch" /\ tries[r] < MaxRetries
  /\ tries' = [tries EXCEPT ![r] = @ + 1]
  /\ UNCHANGED <<entry, late, rpc, fetched, seen, asked, lapses, refundVars>>

(* The last attempt failed too, or the answer is no order (a 4xx, a body    *)
(* that breaks the contract): get_order raises and writes nothing.          *)
FetchRaises(r) ==
  /\ rpc[r] = "fetch"
  /\ Return(r, "error")
  /\ UNCHANGED <<entry, late, asked, lapses, refundVars>>

Write(r) ==
  /\ rpc[r] = "write"
  /\ entry' = fetched[r]
  /\ lapses' = lapses \cup IF Stale(fetched[r]) THEN {"raced"} ELSE {}
  /\ Return(r, fetched[r])
  /\ UNCHANGED <<late, asked, refundVars>>

WriteFails(r) ==
  /\ rpc[r] = "write"
  /\ late' = late \cup {fetched[r]}
  /\ Return(r, fetched[r])
  /\ UNCHANGED <<entry, asked, lapses, refundVars>>

-----------------------------------------------------------------------------
SendRefund_CachesResult(w) ==
  /\ wpc[w] = "idle"
  /\ wpc' = [wpc EXCEPT ![w] = "post"]
  /\ job' = [job EXCEPT ![w] = "sent"]
  /\ entry' = "REFUNDING"
  /\ UNCHANGED <<status, late, lapses, readerVars>>

(* request_refund is called: the POST is sent, once. *)
SendRefund(w) ==
  /\ wpc[w] = "idle"
  /\ wpc' = [wpc EXCEPT ![w] = "post"]
  /\ job' = [job EXCEPT ![w] = "sent"]
  /\ UNCHANGED <<status, entry, late, lapses, readerVars>>

(* The business service executes the POST or replays its result, however   *)
(* long ago the caller gave up waiting for it.                             *)
JobAccepted(w) ==
  /\ job[w] = "sent"
  /\ job' = [job EXCEPT ![w] = "accepted"]
  /\ status' = "REFUNDING"
  /\ UNCHANGED <<wpc, entry, late, lapses, readerVars>>

JobRefused(w) ==
  /\ job[w] = "sent"
  /\ job' = [job EXCEPT ![w] = "refused"]
  /\ UNCHANGED <<status, wpc, entry, late, lapses, readerVars>>

(* 202 with status REFUNDING reaches the caller. *)
RefundAccepted(w) ==
  /\ wpc[w] = "post" /\ job[w] = "accepted"
  /\ wpc' = [wpc EXCEPT ![w] = "delete"]
  /\ UNCHANGED <<status, job, entry, late, lapses, readerVars>>

(* 404, 409 or 503: the refund raises and the entry stays. *)
RefundRefused(w) ==
  /\ wpc[w] = "post" /\ job[w] = "refused"
  /\ wpc' = [wpc EXCEPT ![w] = "refused"]
  /\ UNCHANGED <<status, job, entry, late, lapses, readerVars>>

(* The POST times out, or a 504 or a broken connection ends it: whatever    *)
(* the business service did or will do, the refund raises and the entry     *)
(* stays.                                                                   *)
RefundUnknown(w) ==
  /\ wpc[w] = "post"
  /\ wpc' = [wpc EXCEPT ![w] = "unknown"]
  /\ lapses' = lapses \cup {"unknown"}
  /\ UNCHANGED <<status, job, entry, late, readerVars>>

Delete_OtherKey(w) ==
  /\ wpc[w] = "delete"
  /\ wpc' = [wpc EXCEPT ![w] = "accepted"]
  /\ UNCHANGED <<status, job, entry, late, lapses, readerVars>>

Delete(w) ==
  /\ wpc[w] = "delete"
  /\ entry' = NoEntry
  /\ wpc' = [wpc EXCEPT ![w] = "accepted"]
  /\ UNCHANGED <<status, job, late, lapses, readerVars>>

DeleteFails(w) ==
  /\ wpc[w] = "delete"
  /\ late' = late \cup {NoEntry}
  /\ wpc' = [wpc EXCEPT ![w] = "accepted"]
  /\ lapses' = lapses \cup {"delete failed"}
  /\ UNCHANGED <<status, job, entry, readerVars>>

-----------------------------------------------------------------------------
Expire_NoTtl == FALSE /\ UNCHANGED vars

(* ttl_seconds after the last write. *)
Expire ==
  /\ entry # NoEntry
  /\ entry' = NoEntry
  /\ UNCHANGED <<late, lapses, readerVars, refundVars>>

(* A command whose caller saw an error reaches Redis after all, or never. *)
LateCommand(value) ==
  /\ value \in late
  /\ late' = late \ {value}
  /\ \/ /\ entry' = value
        /\ lapses' = lapses \cup IF Stale(value) THEN {"raced"} ELSE {}
     \/ UNCHANGED <<entry, lapses>>
  /\ UNCHANGED <<readerVars, refundVars>>

(* The agent service dies: its calls end, Redis and MySQL keep theirs. *)
Crash ==
  /\ rpc' = [r \in Readers |-> "idle"]
  /\ fetched' = [r \in Readers |-> NoEntry]
  /\ tries' = [r \in Readers |-> 0]
  /\ wpc' = [w \in Refunders |->
               IF wpc[w] \in {"post", "delete"} THEN "crashed" ELSE wpc[w]]
  /\ lapses' = lapses \cup IF wpc' # wpc THEN {"crashed"} ELSE {}
  /\ UNCHANGED <<status, job, entry, late, seen, asked>>

ReadStep(r) == \/ ReadHit(r) \/ ReadMiss(r)
               \/ FetchReplies(r) \/ FetchRetries(r) \/ FetchRaises(r)
               \/ Write(r) \/ WriteFails(r)

RefundStep(w) == \/ RefundAccepted(w) \/ RefundRefused(w) \/ RefundUnknown(w)
                 \/ Delete(w) \/ DeleteFails(w)

Next ==
  \/ \E r \in Readers : StartRead(r) \/ ReadStep(r)
  \/ \E w \in Refunders : SendRefund(w) \/ RefundStep(w)
  \/ \E w \in Refunders : JobAccepted(w) \/ JobRefused(w)
  \/ \E value \in Statuses \cup {NoEntry} : LateCommand(value)
  \/ Expire
  \/ Crash

(* A call that was made ends, by its timeouts if by nothing else; Redis     *)
(* expires the entry and does not hold a command for ever.                  *)
Fairness == /\ \A r \in Readers : WF_vars(ReadStep(r))
            /\ \A value \in Statuses \cup {NoEntry} : WF_vars(LateCommand(value))
            /\ WF_vars(Expire)

Spec == Init /\ [][Next]_vars
FairSpec == Spec /\ Fairness

-----------------------------------------------------------------------------
(* Every variable has its type; a GET is tried again at most                *)
(* business_service_max_retries times (_get_with_retry).                    *)
TypeOK ==
  /\ status \in Statuses
  /\ job \in [Refunders -> {"none", "sent", "accepted", "refused"}]
  /\ entry \in Statuses \cup {NoEntry}
  /\ late \subseteq Statuses \cup {NoEntry}
  /\ rpc \in [Readers -> {"idle", "read", "fetch", "write"}]
  /\ tries \in [Readers -> 0..MaxRetries]
  /\ fetched \in [Readers -> Statuses \cup {NoEntry}]
  /\ seen \in [Readers -> Statuses \cup {NoEntry, "error"}]
  /\ wpc \in [Refunders -> {"idle", "post", "delete", "accepted", "refused",
                            "unknown", "crashed"}]
  /\ asked \in [Readers -> BOOLEAN]
  /\ lapses \subseteq {"raced", "unknown", "delete failed", "crashed"}

(* A reader that is shown REFUNDING, from the cache or not, and a caller    *)
(* that is told its refund was accepted, are shown what has happened: no    *)
(* late, failed or crashed call puts a refund in Redis that MySQL lacks.    *)
RefundShownIsReal ==
  /\ \A r \in Readers : seen[r] = "REFUNDING" => status = "REFUNDING"
  /\ \A w \in Refunders : wpc[w] \in {"delete", "accepted"} => status = "REFUNDING"

(* The delete of request_refund does its work: the entry of an order whose  *)
(* status changed is stale only while the refund's caller has yet to delete *)
(* it, or after a lapse the code tolerates: a fill that overtook the        *)
(* refund, a failed delete, a refund that raised, a crash.                  *)
StaleEntryHasCause ==
  Stale(entry) => \/ lapses # {}
                  \/ \E w \in Refunders : wpc[w] \in {"post", "delete"}

(* Staleness ends: whatever went wrong, some time after the refund the      *)
(* cache holds no earlier status and no call is about to write one.         *)
EventuallyCurrent ==
  status = "REFUNDING" ~>
    [](~Stale(entry) /\ \A r \in Readers : ~Stale(fetched[r]))

(* exception_handlers.py tells the caller of a refund whose outcome is      *)
(* unknown to query the order's status first; read of the code: a query     *)
(* made after that reply, of a refund that did happen, shows it.            *)
QueryAfterUnknownIsCurrent ==
  \A r \in Readers : asked[r] => seen[r] # "SHIPPED"
=============================================================================
