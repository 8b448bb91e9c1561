-------------------------- MODULE ChatRateLimiter --------------------------
(***************************************************************************)
(* The chat rate limiter of the agent service: a fixed window counter per  *)
(* user in Redis, changed by one atomic script.  Time advances in the      *)
(* seconds of EXPIRE.  A script whose caller saw an error may still run    *)
(* later.  Modules that use the limiter take CheckAllowed, CheckExceeded   *)
(* and CheckFails as the three outcomes of ChatRateLimiter.check.          *)
(***************************************************************************)
EXTENDS Integers, FiniteSets

CONSTANTS
  Users,   \* the users, each with a key of its own
  Limit,   \* redis_chat_rate_limit: calls admitted in a window
  Window   \* redis_chat_rate_window_seconds

ASSUME LimiterAssumption == Limit \in Nat \ {0} /\ Window \in Nat \ {0}

VARIABLES
  count,         \* count[u]: the value of u's key, 0 if there is none
  ttl,           \* ttl[u]: its TTL, NoTtl without one, 0 if there is no key
  lateEval,      \* lateEval[u]: failed calls whose script may still run
  availability,  \* RedisAvailability.status, which the health route reports
  recent         \* history: recent[u][i] calls of u admitted i seconds ago

limiterVars == <<count, ttl, lateEval, availability, recent>>

NoTtl == -1

Seconds == 0..(Window - 1)

(* A key may be left without TTL, by a restore or by another writer. *)
LimiterInit ==
  /\ count \in [Users -> {0, Limit}]
  /\ ttl = [u \in Users |-> IF count[u] = 0 THEN 0 ELSE NoTtl]
  /\ lateEval = [u \in Users |-> 0]
  /\ availability = "UP"
  /\ recent = [u \in Users |-> [i \in Seconds |-> 0]]

FixedWindowScript_NoRepair(u) ==
  /\ count' = [count EXCEPT ![u] = @ + 1]
  /\ ttl' = [ttl EXCEPT ![u] = IF count[u] = 0 THEN Window ELSE @]

FixedWindowScript_Milliseconds(u) ==
  /\ count' = [count EXCEPT ![u] = @ + 1]
  /\ ttl' = [ttl EXCEPT ![u] = IF count[u] = 0 \/ @ < 0 THEN 1 ELSE @]

(* _FIXED_WINDOW_SCRIPT: INCR, then EXPIRE for a new key or one without TTL. *)
FixedWindowScript(u) ==
  /\ count' = [count EXCEPT ![u] = @ + 1]
  /\ ttl' = [ttl EXCEPT ![u] = IF count[u] = 0 \/ @ < 0 THEN Window ELSE @]

(* The value INCR returns is not above the limit. *)
WithinLimit(u) == count[u] + 1 <= Limit

(* check returns a decision. *)
CheckAllowed(u) ==
  /\ WithinLimit(u)
  /\ FixedWindowScript(u)
  /\ availability' = "UP"
  /\ recent' = [recent EXCEPT ![u][0] = @ + 1]
  /\ UNCHANGED lateEval

(* check raises RateLimitExceededError: the refused call counts, too. *)
CheckExceeded(u) ==
  /\ ~WithinLimit(u)
  /\ FixedWindowScript(u)
  /\ availability' = "UP"
  /\ UNCHANGED <<lateEval, recent>>

(* check raises RateLimitUnavailableError, whatever becomes of the script. *)
CheckFails(u) ==
  /\ availability' = "DOWN"
  /\ lateEval' \in {lateEval, [lateEval EXCEPT ![u] = @ + 1]}
  /\ UNCHANGED <<count, ttl, recent>>

LateEval(u) ==
  /\ lateEval[u] > 0
  /\ lateEval' = [lateEval EXCEPT ![u] = @ - 1]
  /\ FixedWindowScript(u)
  /\ UNCHANGED <<availability, recent>>

(* A second passes: keys come closer to their end and go when they reach it. *)
Tick ==
  /\ count' = [u \in Users |-> IF ttl[u] = 1 THEN 0 ELSE count[u]]
  /\ ttl' = [u \in Users |-> IF ttl[u] > 0 THEN ttl[u] - 1 ELSE ttl[u]]
  /\ recent' = [u \in Users |->
                  [i \in Seconds |-> IF i = 0 THEN 0 ELSE recent[u][i - 1]]]
  /\ UNCHANGED <<lateEval, availability>>

LimiterTypeOK ==
  /\ count \in [Users -> Nat]
  /\ ttl \in [Users -> NoTtl..Window]
  /\ lateEval \in [Users -> Nat]
  /\ availability \in {"UP", "DOWN"}
  /\ recent \in [Users -> [Seconds -> Nat]]

(* The admissions of the last window: their second, and which of it. *)
Admissions(u) == UNION {{i} \X (1..recent[u][i]) : i \in Seconds}

(* However calls, failures and late scripts fall around the edges of the    *)
(* windows, no user is admitted more than twice the limit within the        *)
(* seconds of one window.                                                   *)
AdmissionsBounded == \A u \in Users : Cardinality(Admissions(u)) <= 2 * Limit
=============================================================================
