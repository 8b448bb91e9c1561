--------------------------- MODULE EvaluationProofs ---------------------------
(***************************************************************************)
(* Theorems about Evaluation, for any cases, questions, policies and       *)
(* bounds.  The scripts share no state, so each has an inductive invariant *)
(* of its own, which the steps of the others leave alone.                  *)
(***************************************************************************)
EXTENDS Evaluation, SequenceTheorems, FiniteSetTheorems, WellFoundedInduction, TLAPS

-----------------------------------------------------------------------------
(* Induction over the natural numbers, for sets instead of predicates: a    *)
(* least element is a minimal one of <.                                     *)
LEMMA LeastElement ==
  ASSUME NEW T \in SUBSET Nat, T # {}
  PROVE  \E x \in T : \A y \in T : x <= y
<1>1. \E R : /\ IsWellFoundedOn(R, Nat)
             /\ \A x, y \in Nat : <<y, x>> \in R <=> y < x
  <2>1. \A x, y \in Nat : <<y, x>> \in OpToRel(<, Nat) <=> y < x
    BY DEF OpToRel
  <2> QED BY <2>1, NatLessThanWellFounded, Zenon
<1>2. PICK R : /\ IsWellFoundedOn(R, Nat)
               /\ \A x, y \in Nat : <<y, x>> \in R <=> y < x
  BY <1>1
<1>3. \E x \in T : \A y \in T : ~(<<y, x>> \in R)
  BY <1>2, WFMin, Zenon
<1>4. \A x, y \in T : <<y, x>> \in R <=> y < x
  BY <1>2, Zenon
<1>5. \E x \in T : \A y \in T : ~(y < x)
  BY <1>3, <1>4, Zenon
<1>6. \A x, y \in T : ~(y < x) => x <= y
  OBVIOUS
<1> QED BY <1>5, <1>6, Zenon

LEMMA SetInduction ==
  ASSUME NEW S, 0 \in S, \A n \in Nat : n \in S => n + 1 \in S
  PROVE  Nat \subseteq S
<1> SUFFICES ASSUME Nat \ S # {} PROVE FALSE
  OBVIOUS
<1>1. PICK x \in Nat \ S : \A y \in Nat \ S : x <= y
  BY LeastElement
<1>2. x # 0 /\ x - 1 \in Nat /\ x - 1 \in S
  BY <1>1
<1> QED BY <1>1, <1>2

(* Sets of places. *)
LEMMA PlacesFinite ==
  ASSUME NEW n \in Nat, NEW S \in SUBSET (1..n)
  PROVE  IsFiniteSet(S) /\ Cardinality(S) \in Nat /\ Cardinality(S) <= n
<1>1. IsFiniteSet(1..n) /\ Cardinality(1..n) = n
  BY FS_Interval
<1>2. IsFiniteSet(S) /\ Cardinality(S) <= Cardinality(1..n)
  BY <1>1, FS_Subset, Zenon
<1> QED BY <1>1, <1>2, FS_CardinalityType

-----------------------------------------------------------------------------
(* The live suite: the runs of the plan. *)

Plan == Len(LiveCases)

LEMMA PlanFacts ==
  /\ Plan \in Nat \ {0} /\ DOMAIN LiveCases = 1..Plan
  /\ RunsPerCase \in Nat \ {0, 1} /\ PlannedRuns \in Nat /\ PlannedRuns > 0
  /\ \A c \in 1..Plan : /\ LiveCases[c].risk \in {"standard", "critical"}
                        /\ LiveCases[c].outcome \in {"result", "approval_required"}
<1>1. Plan \in Nat /\ DOMAIN LiveCases = 1..Plan /\ Plan # 0
  BY LiveAssumption, LenProperties, EmptySeq DEF Plan
<1>2. RunsPerCase \in Nat \ {0, 1}
  BY LiveAssumption
<1>3. PlannedRuns \in Nat /\ PlannedRuns > 0
  <2>1. \A a, b \in Nat \ {0} : a * b \in Nat /\ a * b > 0
    OBVIOUS
  <2>2. PlannedRuns = Plan * RunsPerCase
    BY DEF PlannedRuns, Plan
  <2> QED BY <1>1, <1>2, <2>1, <2>2
<1>4. ASSUME NEW c \in 1..Plan
      PROVE  LiveCases[c] \in [risk : {"standard", "critical"},
                               outcome : {"result", "approval_required"}]
  <2>1. LiveCases \in Seq([risk : {"standard", "critical"},
                           outcome : {"result", "approval_required"}])
    BY LiveAssumption
  <2>2. c \in 1..Len(LiveCases)
    BY DEF Plan
  <2> QED BY <2>1, <2>2, ElementOfSeq, Zenon
<1> QED BY <1>1, <1>2, <1>3, <1>4

LEMMA CaseOfPlan ==
  ASSUME NEW i \in Nat \ {0}
  PROVE  CaseOf(i) \in 1..Plan /\ RoundOf(i) \in Nat
BY PlanFacts DEF CaseOf, RoundOf, Plan

(* Every case has its turn in every round. *)
LEMMA TurnOf ==
  ASSUME NEW c \in 1..Plan, NEW n \in 1..RunsPerCase
  PROVE  \E i \in 1..PlannedRuns : CaseOf(i) = c /\ RoundOf(i) = n
<1> DEFINE i == (n - 1) * Plan + c
<1>1. /\ Plan \in Nat \ {0} /\ RunsPerCase \in Nat \ {0, 1}
      /\ PlannedRuns = Plan * RunsPerCase
  BY PlanFacts DEF PlannedRuns, Plan
<1>2. (n - 1) * Plan \in Nat /\ (n - 1) * Plan + Plan <= Plan * RunsPerCase
  BY <1>1
<1>3. i \in 1..PlannedRuns
  BY <1>1, <1>2
<1>4. (i - 1) % Plan = c - 1 /\ (i - 1) \div Plan = n - 1
  BY <1>1, <1>2
<1> QED BY <1>3, <1>4 DEF CaseOf, RoundOf, Plan

-----------------------------------------------------------------------------
(* The live suite: what a run makes of a stream. *)

LEMMA StreamsAre ==
  ASSUME NEW e \in Streams
  PROVE  /\ Len(e) \in 0..MaxEvents /\ MaxEvents \in Nat
         /\ DOMAIN e = 1..Len(e) /\ e = [i \in 1..Len(e) |-> e[i]]
         /\ \A i \in 1..Len(e) : e[i] \in EventKinds
<1>1. PICK n \in 0..MaxEvents : e \in [1..n -> EventKinds]
  BY DEF Streams
<1>2. MaxEvents \in Nat
  BY LiveAssumption
<1>3. e \in Seq(EventKinds) /\ Len(e) = n
  BY <1>1, <1>2
<1> QED BY <1>1, <1>2, <1>3

(* Counts of none, of some, and of one. *)
LEMMA CountFacts ==
  ASSUME NEW e \in Streams, NEW K
  PROVE  /\ Count(e, K) \in Nat
         /\ Count(e, K) = 0 <=> \A i \in 1..Len(e) : e[i] \notin K
         /\ Count(e, K) = 1 => \A i, j \in 1..Len(e) : e[i] \in K /\ e[j] \in K => i = j
         /\ \A i \in 1..Len(e) :
              e[i] \in K /\ (\A j \in 1..Len(e) : e[j] \in K => j = i) => Count(e, K) = 1
<1>0. DOMAIN e = 1..Len(e) /\ Len(e) \in Nat
  BY StreamsAre
<1> DEFINE S == {i \in 1..Len(e) : e[i] \in K}
<1>1. Count(e, K) = Cardinality(S)
  BY <1>0 DEF Count
<1>2. IsFiniteSet(S) /\ Cardinality(S) \in Nat
  BY <1>0, PlacesFinite
<1>3. Cardinality(S) = 0 <=> S = {}
  BY <1>2, FS_EmptySet
<1>4. Cardinality(S) = 1 => \E x : S = {x}
  BY <1>2, FS_Singleton
<1>5. \A i \in 1..Len(e) : S = {i} => Cardinality(S) = 1
  BY FS_Singleton
<1> QED BY <1>0, <1>1, <1>2, <1>3, <1>4, <1>5

(* The last event of a kind, where one index alone has it. *)
LEMMA LastOfOne ==
  ASSUME NEW e \in Streams, NEW K, NEW i \in 1..Len(e), e[i] \in K,
         \A j \in 1..Len(e) : e[j] \in K => j = i
  PROVE  LastOf(e, K) = e[i]
<1>1. DOMAIN e = 1..Len(e) /\ Len(e) \in Nat
  BY StreamsAre
<1>2. e[i] \in K /\ \A k \in (i + 1)..Len(e) : e[k] \notin K
  BY <1>1
<1>3. \A j \in DOMAIN e :
        e[j] \in K /\ (\A k \in (j + 1)..Len(e) : e[k] \notin K) => j = i
  BY <1>1
<1> DEFINE last == CHOOSE j \in DOMAIN e :
                     e[j] \in K /\ \A k \in (j + 1)..Len(e) : e[k] \notin K
<1>4. last = i
  BY <1>1, <1>2, <1>3
<1> QED BY <1>4 DEF LastOf

(* The events of a whole stream, one by one. *)
WholeBy(e, n) ==
  /\ Len(e) = n + 3 /\ e[1] = "metadata" /\ e[n + 3] = "done"
  /\ e[n + 2] \in {"result", "approval_required"}
  /\ \A i \in 2..(n + 1) : e[i] = "token"

(* The stream that tokens and a reply come to. *)
Stream(n, reply) == <<"metadata">> \o [i \in 1..n |-> "token"] \o <<reply, "done">>

LEMMA StreamIs ==
  ASSUME NEW n \in Nat, NEW reply \in {"result", "approval_required"}
  PROVE  /\ Stream(n, reply) \in Seq(EventKinds) /\ Len(Stream(n, reply)) = n + 3
         /\ Stream(n, reply)[1] = "metadata"
         /\ \A i \in 2..(n + 1) : Stream(n, reply)[i] = "token"
         /\ Stream(n, reply)[n + 2] = reply /\ Stream(n, reply)[n + 3] = "done"
<1>1. PICK one \in Seq(EventKinds), tokens \in Seq(EventKinds), end \in Seq(EventKinds) :
        one = <<"metadata">> /\ tokens = [i \in 1..n |-> "token"] /\ end = <<reply, "done">>
  <2>1. /\ <<"metadata">> \in Seq(EventKinds) /\ <<reply, "done">> \in Seq(EventKinds)
        /\ [i \in 1..n |-> "token"] \in Seq(EventKinds)
    BY DEF EventKinds
  <2> QED BY <2>1
<1>2. Len(one) = 1 /\ Len(tokens) = n /\ Len(end) = 2
  BY <1>1
<1>3. /\ one \o tokens \in Seq(EventKinds) /\ Len(one \o tokens) = 1 + n
      /\ (one \o tokens)[1] = one[1]
      /\ \A i \in 1..n : (one \o tokens)[1 + i] = tokens[i]
  <2>1. /\ one \o tokens \in Seq(EventKinds)
        /\ Len(one \o tokens) = Len(one) + Len(tokens)
        /\ \A i \in 1..Len(one) : (one \o tokens)[i] = one[i]
        /\ \A i \in 1..Len(tokens) : (one \o tokens)[Len(one) + i] = tokens[i]
    OBVIOUS
  <2> QED BY <1>2, <2>1
<1>4. PICK front \in Seq(EventKinds) : front = one \o tokens
  BY <1>3
<1>5. Len(front) = n + 1
  BY <1>3, <1>4
<1>6. /\ front \o end \in Seq(EventKinds) /\ Len(front \o end) = n + 1 + 2
      /\ \A i \in 1..(n + 1) : (front \o end)[i] = front[i]
      /\ \A i \in 1..2 : (front \o end)[n + 1 + i] = end[i]
  <2>1. /\ front \o end \in Seq(EventKinds)
        /\ Len(front \o end) = Len(front) + Len(end)
        /\ \A i \in 1..Len(front) : (front \o end)[i] = front[i]
        /\ \A i \in 1..Len(end) : (front \o end)[Len(front) + i] = end[i]
    OBVIOUS
  <2> QED BY <1>2, <1>5, <2>1
<1>7. Stream(n, reply) = front \o end
  BY <1>1, <1>4 DEF Stream
<1>8. front[1] = "metadata" /\ \A i \in 2..(n + 1) : front[i] = "token"
  <2>1. front[1] = "metadata"
    BY <1>1, <1>3, <1>4
  <2>2. ASSUME NEW i \in 2..(n + 1)
        PROVE  front[i] = "token"
    <3>1. i - 1 \in 1..n /\ 1 + (i - 1) = i
      OBVIOUS
    <3>2. (one \o tokens)[1 + (i - 1)] = tokens[i - 1]
      BY <1>3, <3>1
    <3> QED BY <1>1, <1>4, <3>1, <3>2
  <2> QED BY <2>1, <2>2
<1>9. (front \o end)[n + 2] = reply /\ (front \o end)[n + 3] = "done"
  <2>1. /\ (front \o end)[n + 1 + 1] = end[1] /\ (front \o end)[n + 1 + 2] = end[2]
        /\ n + 1 + 1 = n + 2 /\ n + 1 + 2 = n + 3
    BY <1>6
  <2> QED BY <1>1, <2>1
<1>10. PICK s : s = front \o end
  OBVIOUS
<1>11. /\ s \in Seq(EventKinds) /\ Len(s) = n + 3
       /\ s[1] = "metadata" /\ \A i \in 2..(n + 1) : s[i] = "token"
       /\ s[n + 2] = reply /\ s[n + 3] = "done"
  <2>1. s \in Seq(EventKinds) /\ Len(s) = n + 3 /\ \A i \in 1..(n + 1) : s[i] = front[i]
    BY <1>6, <1>10
  <2>2. 1 \in 1..(n + 1) /\ \A i \in 2..(n + 1) : i \in 1..(n + 1)
    OBVIOUS
  <2> QED BY <1>8, <1>9, <1>10, <2>1, <2>2
<1> QED BY <1>7, <1>10, <1>11

LEMMA WholeIs ==
  ASSUME NEW e \in Streams
  PROVE  Whole(e) <=> \E n \in 0..MaxEvents : WholeBy(e, n)
<1>1. /\ MaxEvents \in Nat /\ e \in Seq(EventKinds)
      /\ Len(e) \in Nat /\ DOMAIN e = 1..Len(e)
  BY StreamsAre
<1>2. Whole(e) <=> \E n \in 0..MaxEvents, reply \in {"result", "approval_required"} :
                     e = Stream(n, reply)
  BY DEF Whole, Stream
<1>3. ASSUME NEW n \in 0..MaxEvents, NEW reply \in {"result", "approval_required"},
             e = Stream(n, reply)
      PROVE  WholeBy(e, n)
  <2>1. n \in Nat
    BY <1>1
  <2> QED BY <1>3, <2>1, StreamIs DEF WholeBy
<1>4. ASSUME NEW n \in 0..MaxEvents, WholeBy(e, n)
      PROVE  \E reply \in {"result", "approval_required"} : e = Stream(n, reply)
  <2>1. PICK reply \in {"result", "approval_required"} : e[n + 2] = reply
    BY <1>4 DEF WholeBy
  <2>2. PICK s : s = Stream(n, reply)
    OBVIOUS
  <2>3. n \in Nat
    BY <1>1
  <2>4. /\ s \in Seq(EventKinds) /\ Len(s) = n + 3
        /\ s[1] = "metadata" /\ \A i \in 2..(n + 1) : s[i] = "token"
        /\ s[n + 2] = reply /\ s[n + 3] = "done"
    BY <2>2, <2>3, StreamIs
  <2>5. ASSUME NEW i \in 1..(n + 3)
        PROVE  e[i] = s[i]
    <3>1. i = 1 \/ i \in 2..(n + 1) \/ i = n + 2 \/ i = n + 3
      BY <2>3
    <3> QED BY <1>4, <2>1, <2>4, <3>1 DEF WholeBy
  <2>6. e = s
    BY <1>1, <1>4, <2>4, <2>5, SeqEqual DEF WholeBy
  <2> QED BY <2>2, <2>6
<1> QED BY <1>2, <1>3, <1>4

(* What has to come together for a stream to be observed. *)
Accepted(e) ==
  /\ Count(e, {"unnamed"}) = 0
  /\ {i \in DOMAIN e : e[i] \in {"error", "malformed"}} = {}
  /\ Count(e, Metadata) # 0 /\ LastOf(e, Metadata) # "other_metadata"
  /\ Count(e, Replies) > 0 => LastOf(e, Replies) # "other_result"
  /\ Count(e, Replies) > 0 <=> ~(Count(e, {"approval_required"}) > 0)
  /\ WellFormed(e)

LEMMA ObservedIs ==
  ASSUME NEW e \in Streams
  PROVE  /\ Observed(e) \in {"crash", "protocol", "payload", "result", "approval_required"}
         /\ Observed(e) \in {"result", "approval_required"} <=> Accepted(e)
<1>1. PICK unnamed, bad, metas, meta, reply :
        /\ unnamed = Count(e, {"unnamed"})
        /\ bad = {i \in DOMAIN e : e[i] \in {"error", "malformed"}}
        /\ metas = Count(e, Metadata) /\ meta = LastOf(e, Metadata)
        /\ reply = LastOf(e, Replies)
  OBVIOUS
<1>2. PICK replies \in Nat, pauses \in Nat :
        replies = Count(e, Replies) /\ pauses = Count(e, {"approval_required"})
  BY CountFacts
<1>3. PICK fault : fault = e[CHOOSE i \in bad : \A k \in bad : i <= k]
  OBVIOUS
<1>4. unnamed \in Nat /\ unnamed = Count(e, {"unnamed"})
  BY <1>1, CountFacts
<1>5. Observed(e) =
        IF unnamed > 0 THEN "crash"
        ELSE IF bad # {} THEN IF fault = "error" THEN "protocol" ELSE "payload"
        ELSE IF \/ metas = 0 \/ meta = "other_metadata"
                \/ (replies > 0) = (pauses > 0)
                \/ replies > 0 /\ reply = "other_result" THEN "protocol"
        ELSE IF ~WellFormed(e) THEN "payload"
        ELSE IF replies > 0 THEN "result" ELSE "approval_required"
  BY <1>1, <1>2, <1>3, <1>4 DEF Observed
<1>6. Accepted(e) <=>
        /\ ~(unnamed > 0) /\ bad = {} /\ metas # 0 /\ meta # "other_metadata"
        /\ replies > 0 => reply # "other_result"
        /\ replies > 0 <=> ~(pauses > 0)
        /\ WellFormed(e)
  BY <1>1, <1>2, <1>4 DEF Accepted
<1> QED BY <1>5, <1>6

LEMMA AcceptedIsWhole ==
  ASSUME NEW e \in Streams
  PROVE  Accepted(e) <=> Whole(e)
<1>1. /\ MaxEvents \in Nat /\ Len(e) \in 0..MaxEvents
      /\ Len(e) \in Nat /\ DOMAIN e = 1..Len(e)
      /\ \A i \in 1..Len(e) : e[i] \in EventKinds
  BY StreamsAre
<1>2. ASSUME NEW n \in 0..MaxEvents, WholeBy(e, n)
      PROVE  Accepted(e)
  <2>1. n \in Nat
    BY <1>1
  <2>2. PICK last : last = n + 2 /\ last \in 1..Len(e)
    BY <1>2, <2>1 DEF WholeBy
  <2>3. /\ Len(e) = n + 3 /\ e[1] = "metadata" /\ e[n + 3] = "done"
        /\ e[last] \in {"result", "approval_required"}
        /\ \A i \in 1..Len(e) : i # 1 /\ i # last /\ i # n + 3 => e[i] = "token"
    BY <1>1, <1>2, <2>1, <2>2 DEF WholeBy
  <2>4. \A i \in 1..Len(e) :
          /\ e[i] \in Metadata <=> i = 1
          /\ e[i] \in {"done"} <=> i = n + 3
          /\ e[i] \in Terminals <=> i = last
          /\ e[i] \notin {"unnamed"} /\ e[i] \notin {"error", "malformed"}
          /\ e[i] \in Replies => i = last /\ e[last] = "result"
          /\ e[i] \in {"approval_required"} => i = last /\ e[last] = "approval_required"
    BY <2>2, <2>3 DEF Metadata, Terminals, Replies
  <2>5. 1 \in 1..Len(e) /\ n + 3 \in 1..Len(e)
    BY <2>1, <2>3
  <2>6. Count(e, Metadata) = 1 /\ Count(e, {"done"}) = 1 /\ Count(e, Terminals) = 1
    <3>1. Count(e, Metadata) = 1
      <4>1. e[1] \in Metadata /\ \A j \in 1..Len(e) : e[j] \in Metadata => j = 1
        BY <2>4, <2>5
      <4> QED BY <2>5, <4>1, CountFacts, Zenon
    <3>2. Count(e, {"done"}) = 1
      <4>1. e[n + 3] \in {"done"} /\ \A j \in 1..Len(e) : e[j] \in {"done"} => j = n + 3
        BY <2>4, <2>5
      <4> QED BY <2>5, <4>1, CountFacts, Zenon
    <3>3. Count(e, Terminals) = 1
      <4>1. e[last] \in Terminals /\ \A j \in 1..Len(e) : e[j] \in Terminals => j = last
        BY <2>4, <2>2
      <4> QED BY <2>2, <4>1, CountFacts, Zenon
    <3> QED BY <3>1, <3>2, <3>3
  <2>7. LastOf(e, Metadata) = "metadata"
    BY <2>3, <2>4, <2>5, LastOfOne
  <2>8. Count(e, {"unnamed"}) = 0
    BY <2>4, CountFacts
  <2>9. CASE e[last] = "result"
    <3>1. Count(e, Replies) = 1 /\ LastOf(e, Replies) = "result"
      <4>1. e[last] \in Replies /\ \A j \in 1..Len(e) : e[j] \in Replies => j = last
        BY <2>4, <2>9 DEF Replies
      <4>2. Count(e, Replies) = 1
        BY <2>2, <4>1, CountFacts, Zenon
      <4>3. LastOf(e, Replies) = e[last]
        BY <2>2, <4>1, LastOfOne, Zenon
      <4> QED BY <2>9, <4>2, <4>3
    <3>2. Count(e, {"approval_required"}) = 0
      BY <2>4, <2>9, CountFacts
    <3> QED BY <1>1, <2>1, <2>2, <2>3, <2>4, <2>6, <2>7, <2>8, <3>1, <3>2
            DEF Accepted, WellFormed, Last, Metadata, Terminals, Replies
  <2>10. CASE e[last] = "approval_required"
    <3>1. Count(e, {"approval_required"}) = 1
      <4>1. /\ e[last] \in {"approval_required"}
            /\ \A j \in 1..Len(e) : e[j] \in {"approval_required"} => j = last
        BY <2>4, <2>10
      <4> QED BY <2>2, <4>1, CountFacts, Zenon
    <3>2. Count(e, Replies) = 0
      BY <2>4, <2>10, CountFacts
    <3> QED BY <1>1, <2>1, <2>2, <2>3, <2>4, <2>6, <2>7, <2>8, <3>1, <3>2
            DEF Accepted, WellFormed, Last, Metadata, Terminals
  <2> QED BY <2>3, <2>9, <2>10
<1>3. ASSUME Accepted(e)
      PROVE  \E n \in 0..MaxEvents : WholeBy(e, n)
  <2>0. Len(e) \in Nat
    BY <1>1
  <2>1. PICK last \in Int, end \in Nat : last = Len(e) - 1 /\ end = Len(e)
    BY <2>0
  <2>2. /\ Len(e) >= 3 /\ Head(e) \in Metadata /\ Count(e, Metadata) = 1
        /\ Last(e) = "done" /\ Count(e, {"done"}) = 1
        /\ Count(e, Terminals) = 1 /\ e[Len(e) - 1] \in Terminals
        /\ LastOf(e, Metadata) # "other_metadata"
        /\ Count(e, Replies) > 0 => LastOf(e, Replies) # "other_result"
        /\ Count(e, {"unnamed"}) = 0
        /\ {i \in DOMAIN e : e[i] \in {"error", "malformed"}} = {}
    BY <1>3 DEF Accepted, WellFormed
  <2>3. 1 \in 1..Len(e) /\ last \in 1..Len(e) /\ end \in 1..Len(e) /\ e[1] \in Metadata
    <3>1. e \in Seq(EventKinds) /\ e # <<>>
      BY <1>1, <2>2, StreamsAre
    <3> QED BY <1>1, <2>1, <2>2, <3>1
  <2>4. /\ \A j \in 1..Len(e) : e[j] \in Metadata => j = 1
        /\ \A j \in 1..Len(e) : e[j] \in {"done"} => j = end
        /\ \A j \in 1..Len(e) : e[j] \in Terminals => j = last
        /\ \A j \in 1..Len(e) : e[j] \notin {"unnamed"}
        /\ \A j \in 1..Len(e) : e[j] \notin {"error", "malformed"}
    <3>1. e[end] \in {"done"} /\ e[last] \in Terminals
      BY <2>1, <2>2 DEF Last
    <3>2. \A j \in 1..Len(e) : e[j] \in Metadata => j = 1
      BY <2>2, <2>3, CountFacts
    <3>3. \A j \in 1..Len(e) : e[j] \in {"done"} => j = end
      BY <2>2, <2>3, <3>1, CountFacts
    <3>4. \A j \in 1..Len(e) : e[j] \in Terminals => j = last
      BY <2>2, <2>3, <3>1, CountFacts
    <3>5. \A j \in 1..Len(e) : e[j] \notin {"unnamed"}
      BY <2>2, CountFacts
    <3>6. \A j \in 1..Len(e) : e[j] \notin {"error", "malformed"}
      BY <1>1, <2>2
    <3> QED BY <3>2, <3>3, <3>4, <3>5, <3>6
  <2>5. e[1] = "metadata"
    <3>1. LastOf(e, Metadata) = e[1]
      BY <2>3, <2>4, LastOfOne, Zenon
    <3> QED BY <2>2, <2>3, <3>1 DEF Metadata
  <2>6. e[last] \in {"result", "approval_required"}
    <3>1. CASE e[last] \in Replies
      <4>1. Count(e, Replies) # 0 /\ Count(e, Replies) \in Nat
        BY <2>3, <3>1, CountFacts
      <4>2. \A j \in 1..Len(e) : e[j] \in Replies => j = last
        BY <2>4 DEF Terminals
      <4>3. LastOf(e, Replies) = e[last]
        BY <2>3, <3>1, <4>2, LastOfOne
      <4> QED BY <2>2, <3>1, <4>1, <4>3 DEF Replies
    <3> QED BY <2>1, <2>2, <3>1 DEF Terminals, Replies
  <2>7. ASSUME NEW i \in 2..(last - 1)
        PROVE  e[i] = "token"
    <3>1. i \in 1..Len(e) /\ i # 1 /\ i # last /\ i # end
      BY <2>1
    <3>2. /\ e[i] \in EventKinds /\ e[i] \notin Metadata /\ e[i] # "done"
          /\ e[i] \notin Terminals /\ e[i] # "unnamed" /\ e[i] \notin {"error", "malformed"}
      BY <1>1, <2>4, <3>1
    <3> QED BY <3>2 DEF EventKinds, Metadata, Terminals, Replies
  <2>8. PICK n \in 0..MaxEvents : last = n + 2 /\ end = n + 3
    <3>1. last - 2 \in 0..MaxEvents /\ last = (last - 2) + 2 /\ end = (last - 2) + 3
      BY <1>1, <2>1, <2>2
    <3> QED BY <3>1
  <2>9. e[end] = "done"
    BY <2>1, <2>2 DEF Last
  <2>10. n + 1 = last - 1 /\ Len(e) = n + 3
    BY <1>1, <2>1, <2>8
  <2> QED BY <2>5, <2>6, <2>7, <2>8, <2>9, <2>10 DEF WholeBy
<1> QED BY <1>2, <1>3, WholeIs

-----------------------------------------------------------------------------
(* The live suite: its inductive invariant. *)

AbortCodes == {"SYSTEM_TIMEOUT", "JAVA_UNREACHABLE", "HTTP_STATUS"}

Unreported == [status |-> "none", exit |-> -1]

RunErrors == RequestErrors \cup {Error("none")}

RunRecords ==
  [case : Nat, round : Nat, contract : BOOLEAN, facts : BOOLEAN, evidence : BOOLEAN,
   error : RunErrors, events : {"whole", "not whole"}]

LiveTypes ==
  /\ step \in {"create", "stream", "report", "reported", "crashed"}
  /\ records \in Seq(RunRecords)
  /\ suite \in {"none"} \cup AbortCodes
  /\ report \in [status : {"none", "PASSED", "FAILED", "ABORTED"}, exit : {-1, 0, 1}]

(* A record is that of its place in the plan. *)
Planned(r, i) ==
  /\ r.case = CaseOf(i) /\ r.round = RoundOf(i)
  /\ r.evidence <=> r.events = "whole"
  /\ r.contract => r.evidence

(* The suite goes on while it is not aborted and runs are left; an error    *)
(* that aborts it is that of the last record.                               *)
RunsInv ==
  /\ Len(records) <= PlannedRuns
  /\ step \in {"create", "stream"} => suite = "none" /\ Len(records) < PlannedRuns
  /\ step \in {"report", "reported"} /\ suite = "none" => Len(records) = PlannedRuns
  /\ \A i \in 1..Len(records) :
       /\ Planned(records[i], i)
       /\ Aborts(records[i].error)
            => i = Len(records) /\ suite # "none" /\ step \in {"report", "reported"}

(* The report is made once, of the records there are then. *)
ReportInv ==
  /\ step \notin {"reported", "crashed"} => report = Unreported
  /\ step = "crashed" => report.status = "none" /\ report.exit = 1
  /\ step = "reported" =>
       /\ report.status = "ABORTED" <=> suite # "none"
       /\ report.status # "none" /\ report.exit = IF report.status = "PASSED" THEN 0 ELSE 1
  /\ report.status = "PASSED" => \E policy \in Policies : SuiteStable(policy)

LiveInv == LiveTypes /\ RunsInv /\ ReportInv

LEMMA LiveStarts == LiveInit => LiveInv
<1> SUFFICES ASSUME LiveInit PROVE LiveInv
  OBVIOUS
<1>1. Len(records) = 0 /\ records \in Seq(RunRecords) /\ PlannedRuns > 0 /\ PlannedRuns \in Nat
  BY PlanFacts DEF LiveInit
<1>2. LiveTypes
  BY <1>1 DEF LiveInit, LiveTypes, AbortCodes
<1>3. RunsInv
  BY <1>1 DEF LiveInit, RunsInv
<1>4. ReportInv
  BY DEF LiveInit, ReportInv, Unreported
<1> QED BY <1>2, <1>3, <1>4 DEF LiveInv

LEMMA RunRecorded ==
  ASSUME LiveInv, step \in {"create", "stream"},
         NEW r \in RunRecords, Planned(r, NextRun), Append1(r), report' = report,
         \/ ~Aborts(r.error) /\ suite' = suite /\ AfterRecord
         \/ Aborts(r.error) /\ suite' \in AbortCodes /\ step' = "report"
  PROVE  LiveInv'
<1>1. /\ records \in Seq(RunRecords) /\ Len(records) \in Nat
      /\ suite = "none" /\ Len(records) < PlannedRuns /\ PlannedRuns \in Nat
      /\ \A i \in 1..Len(records) : Planned(records[i], i) /\ ~Aborts(records[i].error)
  BY PlanFacts, LenProperties DEF LiveInv, LiveTypes, RunsInv, AbortCodes
<1>2. /\ records' \in Seq(RunRecords) /\ Len(records') = Len(records) + 1
      /\ \A i \in 1..Len(records) : records'[i] = records[i]
      /\ records'[Len(records) + 1] = r
  BY <1>1, AppendProperties DEF Append1
<1>3. /\ step' \in {"create", "report"}
      /\ step' = "create" => suite' = "none" /\ Len(records') < PlannedRuns
      /\ step' = "report" /\ suite' = "none" => Len(records') = PlannedRuns
      /\ suite' \in {"none"} \cup AbortCodes
      /\ Aborts(r.error) => suite' # "none" /\ step' = "report"
  BY <1>1, <1>2 DEF AfterRecord, NextRun, AbortCodes
<1>4. LiveTypes'
  BY <1>2, <1>3 DEF LiveInv, LiveTypes
<1>5. ASSUME NEW i \in 1..Len(records')
      PROVE  /\ Planned(records'[i], i)
             /\ Aborts(records'[i].error)
                  => i = Len(records') /\ suite' # "none" /\ step' = "report"
  <2>1. CASE i = Len(records) + 1
    BY <1>2, <1>3, <2>1 DEF NextRun
  <2>2. CASE i # Len(records) + 1
    <3>1. i \in 1..Len(records)
      BY <1>1, <1>2, <2>2
    <3> QED BY <1>1, <1>2, <3>1
  <2> QED BY <2>1, <2>2
<1>6. RunsInv'
  <2>1. Len(records') <= PlannedRuns
    BY <1>1, <1>2
  <2> QED BY <1>3, <1>5, <2>1 DEF RunsInv
<1>7. ReportInv'
  <2>1. report = Unreported
    BY DEF LiveInv, ReportInv
  <2> QED BY <1>3, <2>1 DEF ReportInv, Unreported
<1> QED BY <1>4, <1>6, <1>7 DEF LiveInv

(* Only the failure of the whole system is an abort. *)
LEMMA RecordsMade ==
  ASSUME LiveInv
  PROVE  /\ \A e \in RequestErrors, s \in {"whole", "not whole"} :
              /\ FailedRecord(e, s) \in RunRecords
              /\ FailedRecord(e, s).error = e
              /\ s = "not whole" => Planned(FailedRecord(e, s), NextRun)
         /\ \A d \in Deliveries : \A right, facts \in BOOLEAN :
              d.seen \in {"result", "approval_required"} =>
                /\ Observation(d, right, facts) \in RunRecords
                /\ Observation(d, right, facts).error = Error("none")
                /\ Planned(Observation(d, right, facts), NextRun)
         /\ \A d \in Deliveries :
              /\ d.seen \in {"crash", "protocol", "payload", "result", "approval_required"}
              /\ d.events \in {"whole", "not whole"}
              /\ d.seen \in {"result", "approval_required"} <=> d.events = "whole"
         /\ ~Aborts(Error("none"))
<1>1. NextRun \in Nat \ {0}
  BY LenProperties DEF LiveInv, LiveTypes, NextRun
<1>2. CaseOf(NextRun) \in Nat /\ RoundOf(NextRun) \in Nat
  <2>1. CaseOf(NextRun) \in 1..Plan /\ RoundOf(NextRun) \in Nat
    BY <1>1, CaseOfPlan
  <2>2. \A c \in 1..Plan : c \in Nat
    BY PlanFacts
  <2> QED BY <2>1, <2>2
<1>3. ASSUME NEW e \in RequestErrors, NEW s \in {"whole", "not whole"}
      PROVE  /\ FailedRecord(e, s) \in RunRecords
             /\ FailedRecord(e, s).error = e
             /\ s = "not whole" => Planned(FailedRecord(e, s), NextRun)
  BY <1>2 DEF FailedRecord, RunRecords, RunErrors, Planned
<1>4. ASSUME NEW d \in Deliveries
      PROVE  /\ d.seen \in {"crash", "protocol", "payload", "result", "approval_required"}
             /\ d.events \in {"whole", "not whole"}
             /\ d.seen \in {"result", "approval_required"} <=> d.events = "whole"
  <2>1. PICK e \in Streams :
          d = [seen |-> Observed(e), events |-> IF Whole(e) THEN "whole" ELSE "not whole"]
    BY DEF Deliveries
  <2> QED BY <2>1, ObservedIs, AcceptedIsWhole
<1>5. ASSUME NEW d \in Deliveries, NEW right \in BOOLEAN, NEW facts \in BOOLEAN,
             d.seen \in {"result", "approval_required"}
      PROVE  /\ Observation(d, right, facts) \in RunRecords
             /\ Observation(d, right, facts).error = Error("none")
             /\ Planned(Observation(d, right, facts), NextRun)
  BY <1>2, <1>4, <1>5 DEF Observation, RunRecords, RunErrors, Planned
<1>6. ~Aborts(Error("none"))
  BY DEF Aborts, Error
<1> QED BY <1>3, <1>4, <1>5, <1>6

LEMMA AbortHasCode ==
  ASSUME NEW e \in RequestErrors, Aborts(e)
  PROVE  Codes[e.kind] \in AbortCodes
BY DEF Aborts, Codes, AbortCodes, RequestErrors, Error

LEMMA RunFails ==
  ASSUME LiveInv, step \in {"create", "stream"}, NEW e \in RequestErrors,
         RunFailsWith(e, "not whole")
  PROVE  LiveInv'
<1>1. PICK r : r = FailedRecord(e, "not whole")
  OBVIOUS
<1>2. r \in RunRecords /\ r.error = e /\ Planned(r, NextRun)
  BY <1>1, RecordsMade
<1>3. /\ Append1(r) /\ report' = report
      /\ \/ ~Aborts(r.error) /\ suite' = suite /\ AfterRecord
         \/ Aborts(r.error) /\ suite' \in AbortCodes /\ step' = "report"
  BY <1>1, <1>2, AbortHasCode DEF RunFailsWith
<1> QED BY <1>2, <1>3, RunRecorded

LEMMA LiveSteps == LiveInv /\ (LiveNext \/ UNCHANGED liveVars) => LiveInv'
<1> SUFFICES ASSUME LiveInv, LiveNext \/ UNCHANGED liveVars PROVE LiveInv'
  OBVIOUS
<1>1. CASE ThreadCreated
  BY <1>1 DEF ThreadCreated, LiveInv, LiveTypes, RunsInv, ReportInv, SuiteStable, Stable,
     RunsOf, FactsIn, Planned, CaseOf, RoundOf
<1>2. ASSUME step \in {"create", "stream"}, SuiteCrashes
      PROVE  LiveInv'
  BY <1>2 DEF SuiteCrashes, LiveInv, LiveTypes, RunsInv, ReportInv, Planned, CaseOf, RoundOf
<1>3. CASE RequestFails
  BY <1>2, <1>3, RunFails DEF RequestFails
<1>4. CASE StreamRead
  <2>1. PICK d \in Deliveries :
          IF d.seen = "crash" THEN SuiteCrashes
          ELSE IF d.seen \in DOMAIN Codes THEN RunFailsWith(Error(d.seen), d.events)
          ELSE \E right, facts \in BOOLEAN :
                 /\ Append1(Observation(d, right, facts))
                 /\ AfterRecord
                 /\ UNCHANGED <<suite, report>>
    BY <1>4 DEF StreamRead
  <2>2. step = "stream"
    BY <1>4 DEF StreamRead
  <2>3. /\ d.seen \in {"crash", "protocol", "payload", "result", "approval_required"}
        /\ d.events \in {"whole", "not whole"}
        /\ d.seen \in {"result", "approval_required"} <=> d.events = "whole"
    BY RecordsMade
  <2>4. CASE d.seen = "crash"
    BY <1>2, <2>1, <2>2, <2>4
  <2>5. CASE d.seen \in {"protocol", "payload"}
    <3>1. d.seen \in DOMAIN Codes /\ d.seen # "crash"
      BY <2>5 DEF Codes
    <3>2. Error(d.seen) \in RequestErrors /\ d.events = "not whole"
      BY <2>3, <2>5 DEF RequestErrors
    <3> QED BY <2>1, <2>2, <3>1, <3>2, RunFails
  <2>6. CASE d.seen \in {"result", "approval_required"}
    <3>1. d.seen \notin DOMAIN Codes /\ d.seen # "crash"
      BY <2>6 DEF Codes
    <3>2. PICK right \in BOOLEAN, facts \in BOOLEAN :
            /\ Append1(Observation(d, right, facts))
            /\ AfterRecord
            /\ UNCHANGED <<suite, report>>
      BY <2>1, <3>1
    <3>3. PICK r : r = Observation(d, right, facts)
      OBVIOUS
    <3>4. /\ r \in RunRecords /\ Planned(r, NextRun) /\ ~Aborts(r.error)
      BY <2>6, <3>3, RecordsMade
    <3> QED BY <2>2, <3>2, <3>3, <3>4, RunRecorded
  <2> QED BY <2>3, <2>4, <2>5, <2>6
<1>5. CASE Report
  <2>1. PICK policy \in Policies :
          report' = IF suite # "none" THEN [status |-> "ABORTED", exit |-> 1]
                    ELSE IF SuiteStable(policy) THEN [status |-> "PASSED", exit |-> 0]
                    ELSE [status |-> "FAILED", exit |-> 1]
    BY <1>5 DEF Report
  <2>2. step = "report" /\ step' = "reported" /\ records' = records /\ suite' = suite
    BY <1>5 DEF Report
  <2>3. SuiteStable(policy)' <=> SuiteStable(policy)
    BY <2>2 DEF SuiteStable, Stable, RunsOf, FactsIn
  <2>4. LiveTypes'
    BY <2>1, <2>2 DEF LiveInv, LiveTypes
  <2>5. RunsInv'
    BY <2>2 DEF LiveInv, RunsInv, Planned, CaseOf, RoundOf
  <2>6. ReportInv'
    <3>1. CASE suite # "none"
      <4>1. report' = [status |-> "ABORTED", exit |-> 1]
        BY <2>1, <3>1
      <4> QED BY <2>2, <3>1, <4>1 DEF ReportInv
    <3>2. CASE suite = "none" /\ SuiteStable(policy)
      <4>1. report' = [status |-> "PASSED", exit |-> 0]
        BY <2>1, <3>2
      <4>2. SuiteStable(policy)'
        BY <2>3, <3>2
      <4> QED BY <2>2, <3>2, <4>1, <4>2 DEF ReportInv
    <3>3. CASE suite = "none" /\ ~SuiteStable(policy)
      <4>1. report' = [status |-> "FAILED", exit |-> 1]
        BY <2>1, <3>3
      <4> QED BY <2>2, <3>3, <4>1 DEF ReportInv
    <3> QED BY <3>1, <3>2, <3>3
  <2> QED BY <2>4, <2>5, <2>6 DEF LiveInv
<1>6. CASE UNCHANGED liveVars
  BY <1>6 DEF liveVars, LiveInv, LiveTypes, RunsInv, ReportInv, SuiteStable, Stable,
     RunsOf, FactsIn, Planned, CaseOf, RoundOf
<1> QED BY <1>1, <1>3, <1>4, <1>5, <1>6 DEF LiveNext

-----------------------------------------------------------------------------
(* The live suite: what its invariant says. *)

(* All the facts of a case with rate 1 are there in each of its runs. *)
LEMMA AllFacts ==
  ASSUME records \in Seq(RunRecords), NEW S \in SUBSET (1..Len(records)),
         AtLeast(FactsIn(S), Cardinality(S), <<1, 1>>)
  PROVE  \A i \in S : records[i].facts
<1>1. Len(records) \in Nat
  BY LenProperties
<1>2. PICK F : F = {i \in S : records[i].facts} /\ F \in SUBSET S
  OBVIOUS
<1>3. IsFiniteSet(S) /\ Cardinality(S) \in Nat
  BY <1>1, PlacesFinite
<1>4. /\ Cardinality(F) <= Cardinality(S) /\ Cardinality(F) \in Nat
      /\ Cardinality(S) = Cardinality(F) => S = F
  BY <1>2, <1>3, FS_Subset, FS_CardinalityType
<1>5. Cardinality(F) >= Cardinality(S)
  BY <1>2, <1>3, <1>4 DEF AtLeast, FactsIn
<1> QED BY <1>2, <1>3, <1>4, <1>5

LEMMA LiveGreen == LiveInv => GreenIsEarned
<1> SUFFICES ASSUME LiveInv, report.exit = 0
             PROVE  /\ \A c \in DOMAIN LiveCases, n \in 1..RunsPerCase :
                         \E i \in DOMAIN records : records[i].case = c /\ records[i].round = n
                    /\ \A i \in DOMAIN records :
                         /\ records[i].events = "whole" /\ records[i].contract
                         /\ LiveCases[records[i].case].risk = "critical" => records[i].facts
  BY DEF GreenIsEarned
<1>1. /\ records \in Seq(RunRecords) /\ Len(records) \in Nat
      /\ DOMAIN records = 1..Len(records) /\ DOMAIN LiveCases = 1..Plan
  BY LenProperties, PlanFacts DEF LiveInv, LiveTypes
<1>2. step = "reported" /\ report.status = "PASSED" /\ suite = "none"
  <2>1. step \in {"create", "stream", "report", "reported", "crashed"}
    BY DEF LiveInv, LiveTypes
  <2> QED BY <2>1 DEF LiveInv, ReportInv, Unreported
<1>3. Len(records) = PlannedRuns
  BY <1>2 DEF LiveInv, RunsInv
<1>4. PICK policy \in Policies : SuiteStable(policy)
  BY <1>2 DEF LiveInv, ReportInv
<1>5. ASSUME NEW c \in DOMAIN LiveCases, NEW n \in 1..RunsPerCase
      PROVE  \E i \in DOMAIN records : records[i].case = c /\ records[i].round = n
  <2>1. PICK i \in 1..PlannedRuns : CaseOf(i) = c /\ RoundOf(i) = n
    BY <1>1, TurnOf
  <2>2. i \in DOMAIN records /\ Planned(records[i], i)
    BY <1>1, <1>3 DEF LiveInv, RunsInv
  <2> QED BY <2>1, <2>2 DEF Planned
<1>6. ASSUME NEW i \in DOMAIN records
      PROVE  /\ records[i].events = "whole" /\ records[i].contract
             /\ LiveCases[records[i].case].risk = "critical" => records[i].facts
  <2>1. PICK c : c = records[i].case
    OBVIOUS
  <2>2. Planned(records[i], i) /\ i \in Nat \ {0}
    <3>1. i \in 1..Len(records)
      BY <1>1
    <3>2. i \in Nat \ {0}
      BY <1>1, <3>1
    <3> QED BY <3>1, <3>2 DEF LiveInv, RunsInv
  <2>3. c \in DOMAIN LiveCases /\ i \in RunsOf(c)
    BY <1>1, <2>1, <2>2, CaseOfPlan DEF Planned, RunsOf
  <2>4. Stable(c, policy)
    BY <1>4, <2>3 DEF SuiteStable
  <2>5. records[i].contract
    BY <2>3, <2>4 DEF Stable
  <2>6. records[i].events = "whole"
    BY <2>2, <2>5 DEF Planned
  <2>7. ASSUME LiveCases[c].risk = "critical"
        PROVE  records[i].facts
    <3>1. AtLeast(FactsIn(RunsOf(c)), Cardinality(RunsOf(c)), <<1, 1>>)
      BY <2>4, <2>7 DEF Stable
    <3>2. RunsOf(c) \in SUBSET (1..Len(records))
      BY <1>1 DEF RunsOf
    <3> QED BY <1>1, <2>3, <3>1, <3>2, AllFacts
  <2> QED BY <2>1, <2>5, <2>6, <2>7
<1> QED BY <1>5, <1>6

LEMMA LiveWhole == LiveInv => OnlyWholeStreamsCount
BY LenProperties DEF LiveInv, LiveTypes, RunsInv, Planned, OnlyWholeStreamsCount

LEMMA LiveAborts == LiveInv => AbortStopsSuite
<1> SUFFICES ASSUME LiveInv PROVE AbortStopsSuite
  OBVIOUS
<1>1. records \in Seq(RunRecords) /\ DOMAIN records = 1..Len(records)
  BY LenProperties DEF LiveInv, LiveTypes
<1>2. ASSUME NEW i \in DOMAIN records
      PROVE  /\ records[i].case = CaseOf(i) /\ records[i].round = RoundOf(i)
             /\ \/ records[i].error.kind \in {"timeout", "connect"}
                \/ records[i].error.status \in {401, 403, 429, 503}
               => /\ i = Len(records) /\ step \in {"report", "reported"}
                  /\ report.status \in {"none", "ABORTED"}
  <2>1. /\ Planned(records[i], i)
        /\ Aborts(records[i].error)
             => i = Len(records) /\ suite # "none" /\ step \in {"report", "reported"}
    BY <1>1 DEF LiveInv, RunsInv
  <2>2. PICK e \in RunErrors : e = records[i].error
    <3>1. records[i] \in RunRecords
      BY <1>1, ElementOfSeq
    <3> QED BY <3>1 DEF RunRecords
  <2>3. e.kind \in {"timeout", "connect"} \/ e.status \in {401, 403, 429, 503} => Aborts(e)
    BY DEF RunErrors, RequestErrors, Error, Aborts
  <2>4. suite # "none" /\ step \in {"report", "reported"}
          => report.status \in {"none", "ABORTED"}
    BY DEF LiveInv, ReportInv, Unreported
  <2> QED BY <2>1, <2>2, <2>3, <2>4 DEF Planned
<1>3. report.status \in {"PASSED", "FAILED"} => Len(records) = PlannedRuns
  <2>1. step \in {"create", "stream", "report", "reported", "crashed"}
    BY DEF LiveInv, LiveTypes
  <2> QED BY <2>1 DEF LiveInv, ReportInv, RunsInv, Unreported
<1> QED BY <1>2, <1>3 DEF AbortStopsSuite

-----------------------------------------------------------------------------
(* The controlled suite. *)

(* The graph of a run stops before the node that submits a refund. *)
Harmless == Nodes \ {"submit_refund"}

(* A result is that of its case. *)
JudgedAs(result, c) ==
  /\ result.nodes \subseteq Harmless
  /\ result.contract => result.nodes \cap c.forbidden = {}

CaseResults == [contract : BOOLEAN, facts : BOOLEAN, nodes : SUBSET Harmless]

ControlledTypes ==
  /\ place \in Harmless \cup {"load", "paused", "END", "report", "reported", "crashed"}
  /\ visited \in Seq(Harmless)
  /\ results \in Seq(CaseResults)
  /\ exitCode \in {-1, 0, 1}
  /\ place \in {"reported", "crashed"} <=> exitCode \in {0, 1}

(* A run is that of the first case without a result. *)
CasesInv ==
  /\ IF place = "load" THEN cases = <<>> ELSE cases \in Suites
  /\ Len(results) <= Len(cases)
  /\ place \in Harmless \cup {"paused", "END"} => Len(results) < Len(cases)
  /\ place = "report" \/ exitCode = 0 => Len(results) = Len(cases)

ResultsInv ==
  /\ \A i \in 1..Len(results) : JudgedAs(results[i], cases[i])
  /\ exitCode = 0 => \A i \in 1..Len(results) : results[i].contract

ControlledInv == ControlledTypes /\ CasesInv /\ ResultsInv

LEMMA SuitesAre ==
  /\ \A s \in Suites : Len(s) \in Nat \ {0}
  /\ \A c, n : n \in Harmless => NextNode(c, n) \in Harmless \cup {"paused", "END"}
<1>1. ASSUME NEW s \in Suites
      PROVE  Len(s) \in Nat \ {0}
  <2>1. s \in Seq(ToSet(s)) /\ s # <<>>
    BY ControlledAssumption
  <2> QED BY <2>1, LenProperties, EmptySeq
<1>2. ASSUME NEW c, NEW n \in Harmless
      PROVE  NextNode(c, n) \in Harmless \cup {"paused", "END"}
  BY DEF NextNode, RouteAfterIntent, RouteAfterOrder, Analysis, OrderState, Harmless, Nodes,
     AnswerOf
<1> QED BY <1>1, <1>2

LEMMA ControlledStarts == ControlledInit => ControlledInv
<1> SUFFICES ASSUME ControlledInit PROVE ControlledInv
  OBVIOUS
<1>1. /\ cases = <<>> /\ place = "load" /\ visited = <<>> /\ results = <<>> /\ exitCode = -1
      /\ Len(results) = 0 /\ Len(cases) = 0 /\ "load" \notin Harmless
  BY DEF ControlledInit, Harmless, Nodes, AnswerOf
<1>2. ControlledTypes
  BY <1>1 DEF ControlledTypes
<1>3. CasesInv /\ ResultsInv
  BY <1>1 DEF CasesInv, ResultsInv
<1> QED BY <1>2, <1>3 DEF ControlledInv

LEMMA ControlledSteps ==
  ControlledInv /\ (ControlledNext \/ UNCHANGED controlledVars) => ControlledInv'
<1> SUFFICES ASSUME ControlledTypes, CasesInv, ResultsInv,
                    ControlledNext \/ UNCHANGED controlledVars
             PROVE  ControlledInv'
  BY DEF ControlledInv
<1>0. /\ Len(results) \in Nat
      /\ place # "load" => Len(cases) \in Nat \ {0}
      /\ "submit_refund" \notin Harmless /\ "analyze_intent" \in Harmless
      /\ Harmless \cap {"load", "paused", "END", "report", "reported", "crashed"} = {}
  BY LenProperties, SuitesAre DEF ControlledTypes, CasesInv, Harmless, Nodes, AnswerOf
<1>1. CASE Load
  <2>1. /\ place = "load" /\ cases' \in Suites /\ Len(results) = 0
        /\ visited' = visited /\ results' = results /\ exitCode = -1
        /\ \/ place' = "analyze_intent" /\ exitCode' = exitCode
           \/ place' = "crashed" /\ exitCode' = 1
    <3>1. Len(cases) = 0
      BY <1>1 DEF Load, CasesInv
    <3> QED BY <1>0, <1>1, <3>1 DEF Load, CasesInv, ControlledTypes
  <2>2. Len(cases') \in Nat \ {0}
    BY <2>1, SuitesAre
  <2>3. ControlledTypes'
    BY <1>0, <2>1 DEF ControlledTypes
  <2>4. CasesInv' /\ ResultsInv'
    BY <1>0, <2>1, <2>2 DEF CasesInv, ResultsInv
  <2> QED BY <2>3, <2>4 DEF ControlledInv
<1>2. CASE EnterNode
  <2>1. /\ place \in Harmless /\ cases' = cases /\ results' = results /\ exitCode = -1
        /\ \/ place' = "crashed" /\ exitCode' = 1 /\ visited' = visited
           \/ /\ visited' = Append(visited, place)
              /\ place' = NextNode(Case, place) /\ exitCode' = exitCode
    BY <1>0, <1>2 DEF EnterNode, ControlledTypes, Harmless, Nodes, AnswerOf
  <2>2. Append(visited, place) \in Seq(Harmless)
    BY <2>1, AppendProperties DEF ControlledTypes
  <2>3. NextNode(Case, place) \in Harmless \cup {"paused", "END"}
    BY <2>1, SuitesAre
  <2>4. ControlledTypes'
    BY <1>0, <2>1, <2>2, <2>3 DEF ControlledTypes
  <2>5. place' \in Harmless \cup {"paused", "END", "crashed"} /\ exitCode' # 0
    BY <2>1, <2>3
  <2>6. CasesInv' /\ ResultsInv'
    BY <1>0, <2>1, <2>5 DEF CasesInv, ResultsInv
  <2> QED BY <2>4, <2>6 DEF ControlledInv
<1>3. CASE EndCase
  <2>1. PICK outcome : outcome = IF place = "paused" THEN "approval_required" ELSE "reply"
    OBVIOUS
  <2>2. PICK r : /\ r = [contract |-> Meets(Case, visited, outcome),
                         facts |-> Case.facts \subseteq said, nodes |-> ToSet(visited)]
                 /\ results' = Append(results, r)
    BY <1>3, <2>1 DEF EndCase
  <2>3. ToSet(visited) \subseteq Harmless
    BY ElementOfSeq, LenProperties DEF ControlledTypes, ToSet
  <2>4. r \in CaseResults /\ JudgedAs(r, Case)
    BY <2>2, <2>3 DEF CaseResults, JudgedAs, Meets
  <2>5. /\ results' \in Seq(CaseResults) /\ Len(results') = Len(results) + 1
        /\ \A i \in 1..Len(results) : results'[i] = results[i]
        /\ results'[Len(results) + 1] = r
    BY <2>2, <2>4, AppendProperties DEF ControlledTypes
  <2>6. /\ place \in {"END", "paused"} /\ cases' = cases /\ exitCode' = exitCode
        /\ place' = IF Len(results) + 1 = Len(cases) THEN "report" ELSE "analyze_intent"
        /\ visited' = <<>> /\ exitCode = -1
    BY <1>3 DEF EndCase, ControlledTypes
  <2>7. ControlledTypes'
    BY <1>0, <2>5, <2>6 DEF ControlledTypes
  <2>8. CasesInv'
    BY <1>0, <2>5, <2>6 DEF CasesInv
  <2>9. ASSUME NEW i \in 1..Len(results')
        PROVE  JudgedAs(results'[i], cases'[i])
    <3>1. CASE i = Len(results) + 1
      BY <2>4, <2>5, <2>6, <3>1 DEF Case
    <3>2. CASE i # Len(results) + 1
      <4>1. i \in 1..Len(results)
        BY <1>0, <2>5, <3>2
      <4> QED BY <2>5, <2>6, <4>1 DEF ResultsInv
    <3> QED BY <3>1, <3>2
  <2>10. ResultsInv'
    BY <2>6, <2>9 DEF ResultsInv
  <2> QED BY <2>7, <2>8, <2>10 DEF ControlledInv
<1>4. CASE ReportControlled
  <2>1. /\ place = "report" /\ place' = "reported" /\ exitCode' \in {0, 1}
        /\ cases' = cases /\ visited' = visited /\ results' = results
        /\ exitCode' = 0 => \A i \in DOMAIN results : results[i].contract
    BY <1>4 DEF ReportControlled
  <2>2. DOMAIN results = 1..Len(results)
    BY LenProperties DEF ControlledTypes
  <2>3. ControlledTypes'
    BY <1>0, <2>1 DEF ControlledTypes
  <2>4. CasesInv'
    BY <1>0, <2>1 DEF CasesInv
  <2>5. ResultsInv'
    BY <2>1, <2>2 DEF ResultsInv
  <2> QED BY <2>3, <2>4, <2>5 DEF ControlledInv
<1>5. CASE UNCHANGED controlledVars
  BY <1>5 DEF controlledVars, ControlledInv, ControlledTypes, CasesInv, ResultsInv
<1> QED BY <1>1, <1>2, <1>3, <1>4, <1>5 DEF ControlledNext

LEMMA ControlledGate == ControlledInv => GateForbids
<1> SUFFICES ASSUME ControlledInv PROVE GateForbids
  OBVIOUS
<1>1. DOMAIN results = 1..Len(results) /\ "submit_refund" \notin Harmless
  BY LenProperties DEF ControlledInv, ControlledTypes, Harmless
<1> QED BY <1>1 DEF ControlledInv, CasesInv, ResultsInv, JudgedAs, GateForbids

-----------------------------------------------------------------------------
(* The verdict on a file of cases. *)

(* The prefixes of a sequence, one element at a time. *)
LEMMA GrowingPrefixes ==
  ASSUME NEW S, NEW s \in Seq(S)
  PROVE  /\ SubSeq(s, 1, 0) = <<>>
         /\ SubSeq(s, 1, Len(s)) = s
         /\ \A n \in 1..Len(s) : Append(SubSeq(s, 1, n - 1), s[n]) = SubSeq(s, 1, n)
<1>1. ASSUME NEW n \in 1..Len(s)
      PROVE  Append(SubSeq(s, 1, n - 1), s[n]) = SubSeq(s, 1, n)
  <2>1. 1 \in 1..Len(s) /\ n \in 1..Len(s) /\ Len(s) \in Nat /\ n - 1 \in Int
    BY LenProperties
  <2>2. SubSeq(s, 1, n) = SubSeq(s, 1, n - 1) \o <<s[n]>>
    BY <2>1, SubSeqRecursiveSecond
  <2>3. \A i \in 1..n - 1 : s[i] \in S
    BY <2>1, ElementOfSeq
  <2>4. SubSeq(s, 1, n - 1) \in Seq(S) /\ s[n] \in S
    BY <2>1, <2>3, SubSeqProperties, ElementOfSeq
  <2>5. PICK t \in Seq(S) : t = SubSeq(s, 1, n - 1)
    BY <2>4
  <2>6. Append(t, s[n]) = t \o <<s[n]>>
    BY <2>4, AppendIsConcat
  <2> QED BY <2>2, <2>5, <2>6
<1> QED BY <1>1, SubSeqEmpty, SubSeqFull

EndOf(c) == IF OutcomeOf(c) = "approval_required" THEN "paused" ELSE "END"

(* The routes of the graph lead along the path of the case. *)
LEMMA PathsAre ==
  ASSUME NEW c
  PROVE  /\ PathOf(c) \in Seq(Nodes) /\ Len(PathOf(c)) \in Nat \ {0}
         /\ PathOf(c)[1] = "analyze_intent"
         /\ \E n \in 1..Len(PathOf(c)) : PathOf(c)[n] = AnswerNode(c)
         /\ \A n \in 1..Len(PathOf(c)) :
              NextNode(c, PathOf(c)[n]) =
                IF n < Len(PathOf(c)) THEN PathOf(c)[n + 1] ELSE EndOf(c)
<1> DEFINE p == PathOf(c)
<1>1. CASE AnswerNode(c) = "request_clarification"
  <2>1. p = <<"analyze_intent", "request_clarification", "save_turn">>
    BY <1>1 DEF PathOf, PathTo
  <2>2. Contains(c.nodes, "request_clarification") /\ EndOf(c) = "END"
    BY <1>1 DEF AnswerNode, OutcomeOf, EndOf
  <2>3. /\ NextNode(c, "analyze_intent") = "request_clarification"
        /\ NextNode(c, "request_clarification") = "save_turn"
        /\ NextNode(c, "save_turn") = EndOf(c)
    BY <2>2 DEF NextNode, Analysis, RouteAfterIntent
  <2> QED BY <1>1, <2>1, <2>3 DEF Nodes, AnswerOf
<1>2. CASE AnswerNode(c) = "generate_knowledge_answer"
  <2>1. p = <<"analyze_intent", "retrieve_knowledge", "generate_knowledge_answer", "save_turn">>
    BY <1>2 DEF PathOf, PathTo
  <2>2. /\ ~Contains(c.nodes, "request_clarification") /\ c.intent = "policy_query"
        /\ EndOf(c) = "END"
    BY <1>2 DEF AnswerNode, OutcomeOf, EndOf
  <2>3. /\ NextNode(c, "analyze_intent") = "retrieve_knowledge"
        /\ NextNode(c, "retrieve_knowledge") = "generate_knowledge_answer"
        /\ NextNode(c, "generate_knowledge_answer") = "save_turn"
        /\ NextNode(c, "save_turn") = EndOf(c)
    BY <2>2 DEF NextNode, Analysis, RouteAfterIntent
  <2> QED BY <1>2, <2>1, <2>3 DEF Nodes, AnswerOf
<1>3. CASE AnswerNode(c) = "generate_answer"
  <2>1. p = <<"analyze_intent", "query_order", "generate_answer", "save_turn">>
    BY <1>3 DEF PathOf, PathTo
  <2>2. /\ ~Contains(c.nodes, "request_clarification") /\ c.intent = "order_query"
        /\ EndOf(c) = "END"
    BY <1>3 DEF AnswerNode, OutcomeOf, EndOf
  <2>3. /\ NextNode(c, "analyze_intent") = "query_order"
        /\ NextNode(c, "query_order") = "generate_answer"
        /\ NextNode(c, "generate_answer") = "save_turn"
        /\ NextNode(c, "save_turn") = EndOf(c)
    BY <2>2 DEF NextNode, Analysis, OrderState, RouteAfterIntent, RouteAfterOrder
  <2> QED BY <1>3, <2>1, <2>3 DEF Nodes, AnswerOf
<1>4. CASE AnswerNode(c) = "request_refund_approval"
  <2>1. p = <<"analyze_intent", "query_order", "request_refund_approval">>
    BY <1>4 DEF PathOf, PathTo
  <2>2. /\ ~Contains(c.nodes, "request_clarification") /\ c.intent = "refund"
        /\ EndOf(c) = "paused"
    BY <1>4 DEF AnswerNode, OutcomeOf, EndOf
  <2>3. /\ NextNode(c, "analyze_intent") = "query_order"
        /\ NextNode(c, "query_order") = "request_refund_approval"
        /\ NextNode(c, "request_refund_approval") = EndOf(c)
    BY <2>2 DEF NextNode, Analysis, OrderState, RouteAfterIntent, RouteAfterOrder
  <2> QED BY <1>4, <2>1, <2>3 DEF Nodes, AnswerOf
<1>5. CASE AnswerNode(c) = "unsupported"
  <2>1. p = <<"analyze_intent", "unsupported", "save_turn">>
    BY <1>5 DEF PathOf, PathTo
  <2>2. /\ ~Contains(c.nodes, "request_clarification")
        /\ c.intent \notin {"policy_query", "order_query", "refund"}
        /\ EndOf(c) = "END"
    BY <1>5 DEF AnswerNode, OutcomeOf, EndOf
  <2>3. /\ NextNode(c, "analyze_intent") = "unsupported"
        /\ NextNode(c, "unsupported") = "save_turn"
        /\ NextNode(c, "save_turn") = EndOf(c)
    BY <2>2 DEF NextNode, Analysis, RouteAfterIntent
  <2> QED BY <1>5, <2>1, <2>3 DEF Nodes, AnswerOf
<1> QED BY <1>1, <1>2, <1>3, <1>4, <1>5 DEF AnswerNode

(* On the path, what was said changes at the node that answers only. *)
LEMMA SaidOnPath ==
  ASSUME NEW c, NEW n \in 1..Len(PathOf(c))
  PROVE  AnswerAt(c, PathOf(c)[n]) = IF PathOf(c)[n] = AnswerNode(c) THEN FactsOf(c) ELSE said
<1> DEFINE node == PathOf(c)[n]
<1>1. DOMAIN FixedFacts = {"request_clarification", "unsupported"}
  BY ControlledAssumption
<1>2. \/ node = AnswerNode(c)
      \/ node \in {"analyze_intent", "retrieve_knowledge", "query_order", "save_turn"}
  <2>1. PICK p : p = PathOf(c)
    OBVIOUS
  <2>2. CASE AnswerNode(c) = "request_clarification"
    <3>1. p = <<"analyze_intent", "request_clarification", "save_turn">>
      BY <2>1, <2>2 DEF PathOf, PathTo
    <3>2. n \in 1..3 /\ node = p[n]
      BY <2>1, <3>1
    <3> QED BY <2>2, <3>1, <3>2
  <2>3. CASE AnswerNode(c) = "generate_knowledge_answer"
    <3>1. p = <<"analyze_intent", "retrieve_knowledge", "generate_knowledge_answer", "save_turn">>
      BY <2>1, <2>3 DEF PathOf, PathTo
    <3>2. n \in 1..4 /\ node = p[n]
      BY <2>1, <3>1
    <3> QED BY <2>3, <3>1, <3>2
  <2>4. CASE AnswerNode(c) = "generate_answer"
    <3>1. p = <<"analyze_intent", "query_order", "generate_answer", "save_turn">>
      BY <2>1, <2>4 DEF PathOf, PathTo
    <3>2. n \in 1..4 /\ node = p[n]
      BY <2>1, <3>1
    <3> QED BY <2>4, <3>1, <3>2
  <2>5. CASE AnswerNode(c) = "request_refund_approval"
    <3>1. p = <<"analyze_intent", "query_order", "request_refund_approval">>
      BY <2>1, <2>5 DEF PathOf, PathTo
    <3>2. n \in 1..3 /\ node = p[n]
      BY <2>1, <3>1
    <3> QED BY <2>5, <3>1, <3>2
  <2>6. CASE AnswerNode(c) = "unsupported"
    <3>1. p = <<"analyze_intent", "unsupported", "save_turn">>
      BY <2>1, <2>6 DEF PathOf, PathTo
    <3>2. n \in 1..3 /\ node = p[n]
      BY <2>1, <3>1
    <3> QED BY <2>6, <3>1, <3>2
  <2> QED BY <2>2, <2>3, <2>4, <2>5, <2>6 DEF AnswerNode
<1>3. AnswerNode(c) \in {"request_clarification", "generate_knowledge_answer",
        "generate_answer", "request_refund_approval", "unsupported"}
  BY DEF AnswerNode
<1>4. CASE node = AnswerNode(c)
  BY <1>1, <1>3, <1>4 DEF AnswerAt, FactsOf
<1>5. CASE node # AnswerNode(c)
  BY <1>1, <1>2, <1>3, <1>5 DEF AnswerAt
<1> QED BY <1>4, <1>5

(* The first n nodes of the path of a case were entered, and left.          *)
Entered(c, n) ==
  /\ visited = SubSeq(PathOf(c), 1, n)
  /\ \A m \in 1..n : /\ PathOf(c)[m] \in NeedsOrder => c.order # NoOrderId
                     /\ PathOf(c)[m] = AnswerNode(c) => said = FactsOf(c)

HasOrder(c) ==
  \A n \in 1..Len(PathOf(c)) : PathOf(c)[n] \in NeedsOrder => c.order # NoOrderId

(* A result says of its case what the graph is meant to do with it. *)
ResultIs(result, c) ==
  /\ HasOrder(c)
  /\ result.contract <=> Meets(c, PathOf(c), OutcomeOf(c))
  /\ result.facts <=> c.facts \subseteq FactsOf(c)

VerdictInv ==
  /\ place = "load" => visited = <<>>
  /\ place \in Nodes =>
       \E n \in 1..Len(PathOf(Case)) : place = PathOf(Case)[n] /\ Entered(Case, n - 1)
  /\ place \in {"END", "paused"} =>
       Entered(Case, Len(PathOf(Case))) /\ place = EndOf(Case)
  /\ exitCode = -1 => \A i \in 1..Len(cases) : ValidCase(cases[i])
  /\ \A i \in 1..Len(results) : ResultIs(results[i], cases[i])
  /\ GateDecides

LEMMA VerdictStarts == ControlledInit => VerdictInv
<1> SUFFICES ASSUME ControlledInit PROVE VerdictInv
  OBVIOUS
<1>1. /\ cases = <<>> /\ place = "load" /\ results = <<>> /\ exitCode = -1
      /\ Len(results) = 0 /\ Len(cases) = 0 /\ "load" \notin Nodes
      /\ visited = <<>>
  BY DEF ControlledInit, Nodes, AnswerOf
<1> QED BY <1>1 DEF VerdictInv, GateDecides

(* A run starts at the first node of its path, with nothing before it. *)
LEMMA EntryOf ==
  ASSUME NEW c, place' = "analyze_intent", visited' = <<>>
  PROVE  \E n \in 1..Len(PathOf(c)) : place' = PathOf(c)[n] /\ Entered(c, n - 1)'
<1>1. Entered(c, 0)'
  BY PathsAre, GrowingPrefixes DEF Entered
<1>2. 1 \in 1..Len(PathOf(c)) /\ PathOf(c)[1] = place' /\ 1 - 1 = 0
  BY PathsAre
<1> QED BY <1>1, <1>2

LEMMA VerdictSteps ==
  ControlledInv /\ VerdictInv /\ (ControlledNext \/ UNCHANGED controlledVars) => VerdictInv'
<1> SUFFICES ASSUME ControlledTypes, CasesInv, VerdictInv,
                    ControlledNext \/ UNCHANGED controlledVars
             PROVE  VerdictInv'
  BY DEF ControlledInv
<1>0. /\ Len(results) \in Nat
      /\ place # "load" => Len(cases) \in Nat \ {0} /\ DOMAIN cases = 1..Len(cases)
      /\ "analyze_intent" \in Nodes
      /\ Nodes \cap {"load", "paused", "END", "report", "reported", "crashed"} = {}
  <2>1. \A s \in Suites : DOMAIN s = 1..Len(s)
    BY ControlledAssumption, LenProperties
  <2> QED BY <2>1, LenProperties, SuitesAre DEF ControlledTypes, CasesInv, Nodes, AnswerOf
<1>1. CASE Load
  <2>1. /\ place = "load" /\ cases' \in Suites /\ Len(results) = 0 /\ visited = visited'
        /\ results' = results /\ exitCode = -1
        /\ \/ /\ place' = "analyze_intent" /\ exitCode' = exitCode
              /\ \A i \in DOMAIN cases' : ValidCase(cases'[i])
           \/ /\ place' = "crashed" /\ exitCode' = 1
              /\ \E i \in DOMAIN cases' : ~ValidCase(cases'[i])
    <3>1. Len(cases) = 0
      BY <1>1 DEF Load, CasesInv
    <3> QED BY <1>0, <1>1, <3>1 DEF Load, CasesInv, ControlledTypes
  <2>2. DOMAIN cases' = 1..Len(cases')
    BY <2>1, ControlledAssumption, LenProperties
  <2>3. CASE place' = "analyze_intent"
    <3>1. PICK c : c = Case'
      OBVIOUS
    <3>2. \E n \in 1..Len(PathOf(c)) : place' = PathOf(c)[n] /\ Entered(c, n - 1)'
      BY <2>1, <2>3, EntryOf DEF VerdictInv
    <3>3. /\ \A i \in 1..Len(cases') : ValidCase(cases'[i])
          /\ exitCode' = -1
      BY <2>1, <2>2, <2>3
    <3> QED BY <1>0, <2>1, <2>3, <3>1, <3>2, <3>3 DEF VerdictInv, GateDecides, Entered
  <2>4. CASE place' = "crashed"
    <3>1. \E i \in DOMAIN cases' : ~Deserves(cases'[i])
      BY <2>1, <2>4 DEF Deserves
    <3> QED BY <1>0, <2>1, <2>4, <3>1 DEF VerdictInv, GateDecides
  <2> QED BY <2>1, <2>3, <2>4
<1>2. CASE EnterNode
  <2>1. /\ place \in Nodes /\ cases' = cases /\ results' = results /\ exitCode = -1
        /\ Case' = Case /\ Case = cases[Len(results) + 1]
        /\ \/ /\ place \in NeedsOrder /\ Case.order = NoOrderId
              /\ place' = "crashed" /\ exitCode' = 1
           \/ /\ ~(place \in NeedsOrder /\ Case.order = NoOrderId)
              /\ visited' = Append(visited, place) /\ said' = AnswerAt(Case, place)
              /\ place' = NextNode(Case, place) /\ exitCode' = exitCode
    BY <1>0, <1>2 DEF EnterNode, ControlledTypes, Case
  <2>2. PICK c : c = Case
    OBVIOUS
  <2>3. PICK n \in 1..Len(PathOf(c)) : place = PathOf(c)[n] /\ Entered(c, n - 1)
    BY <2>1, <2>2 DEF VerdictInv
  <2>4. Len(results) + 1 \in DOMAIN cases
    BY <1>0, <2>1 DEF CasesInv, Harmless, ControlledTypes
  <2>5. CASE place' = "crashed" /\ exitCode' = 1
    <3>1. place \in NeedsOrder /\ c.order = NoOrderId
      BY <1>0, <2>1, <2>2, <2>5 DEF ControlledTypes
    <3>2. ~Deserves(c)
      <4>1. place \in ToSet(PathOf(c))
        BY <2>3, PathsAre, LenProperties DEF ToSet
      <4> QED BY <3>1, <4>1 DEF Deserves, NeedsOrder
    <3>3. GateDecides'
      BY <2>1, <2>2, <2>4, <2>5, <3>2 DEF GateDecides
    <3> QED BY <1>0, <2>1, <2>5, <3>3 DEF VerdictInv
  <2>6. CASE /\ ~(place \in NeedsOrder /\ c.order = NoOrderId) /\ exitCode' = exitCode
             /\ visited' = Append(visited, place) /\ said' = AnswerAt(c, place)
             /\ place' = NextNode(c, place)
    <3>1. Len(PathOf(c)) \in Nat /\ n \in Nat /\ PathOf(c) \in Seq(Nodes)
      BY PathsAre
    <3>2. Entered(c, n)'
      <4>1. visited' = SubSeq(PathOf(c), 1, n)
        BY <2>3, <2>6, <3>1, PathsAre, GrowingPrefixes DEF Entered
      <4>2. said' = IF PathOf(c)[n] = AnswerNode(c) THEN FactsOf(c) ELSE said
        BY <2>3, <2>6, SaidOnPath
      <4>3. ASSUME NEW m \in 1..n
            PROVE  /\ PathOf(c)[m] \in NeedsOrder => c.order # NoOrderId
                   /\ PathOf(c)[m] = AnswerNode(c) => said' = FactsOf(c)
        <5>1. CASE m = n
          BY <2>3, <2>6, <4>2, <5>1
        <5>2. CASE m # n
          <6>1. m \in 1..n - 1
            BY <3>1, <5>2
          <6> QED BY <2>3, <4>2, <6>1 DEF Entered
        <5> QED BY <5>1, <5>2
      <4> QED BY <4>1, <4>3 DEF Entered
    <3>3. place' = IF n < Len(PathOf(c)) THEN PathOf(c)[n + 1] ELSE EndOf(c)
      BY <2>3, <2>6, PathsAre
    <3>4. CASE n < Len(PathOf(c))
      <4>1. n + 1 \in 1..Len(PathOf(c)) /\ n + 1 - 1 = n
        BY <3>1, <3>4
      <4>2. place' \in Nodes
        BY <3>1, <3>3, <3>4, <4>1, ElementOfSeq
      <4>3. \E k \in 1..Len(PathOf(c)) : place' = PathOf(c)[k] /\ Entered(c, k - 1)'
        BY <3>2, <3>3, <3>4, <4>1
      <4> QED BY <1>0, <2>1, <2>2, <2>6, <4>2, <4>3 DEF VerdictInv, GateDecides
    <3>5. CASE n = Len(PathOf(c))
      <4>1. place' = EndOf(c) /\ EndOf(c) \in {"paused", "END"}
        BY <3>1, <3>3, <3>5 DEF EndOf
      <4>2. Entered(c, Len(PathOf(c)))'
        BY <3>2, <3>5
      <4> QED BY <1>0, <2>1, <2>2, <2>6, <4>1, <4>2 DEF VerdictInv, GateDecides
    <3> QED BY <3>1, <3>4, <3>5
  <2> QED BY <2>1, <2>2, <2>5, <2>6
<1>3. CASE EndCase
  <2>1. /\ place \in {"END", "paused"} /\ cases' = cases /\ exitCode' = exitCode
        /\ place' = IF Len(results) + 1 = Len(cases) THEN "report" ELSE "analyze_intent"
        /\ visited' = <<>> /\ exitCode = -1
    BY <1>3 DEF EndCase, ControlledTypes
  <2>2. PICK c : c = Case
    OBVIOUS
  <2>3. Entered(c, Len(PathOf(c))) /\ place = EndOf(c)
    BY <2>1, <2>2 DEF VerdictInv
  <2>4. Len(PathOf(c)) \in Nat /\ visited = PathOf(c)
    BY <2>3, PathsAre, GrowingPrefixes DEF Entered
  <2>5. (IF place = "paused" THEN "approval_required" ELSE "reply") = OutcomeOf(c)
    BY <2>3 DEF EndOf, OutcomeOf
  <2>6. said = FactsOf(c)
    BY <2>3, PathsAre DEF Entered
  <2>7. PICK r : /\ r = [contract |-> Meets(c, PathOf(c), OutcomeOf(c)),
                         facts |-> c.facts \subseteq FactsOf(c), nodes |-> ToSet(PathOf(c))]
                 /\ results' = Append(results, r)
    BY <1>3, <2>2, <2>4, <2>5, <2>6 DEF EndCase
  <2>8. ResultIs(r, c)
    BY <2>3, <2>7 DEF ResultIs, HasOrder, Entered
  <2>9. /\ Len(results') = Len(results) + 1
        /\ \A i \in 1..Len(results) : results'[i] = results[i]
        /\ results'[Len(results) + 1] = r
    BY <2>7, AppendProperties DEF ControlledTypes
  <2>10. ASSUME NEW i \in 1..Len(results')
         PROVE  ResultIs(results'[i], cases'[i])
    <3>1. CASE i = Len(results) + 1
      BY <2>1, <2>2, <2>8, <2>9, <3>1 DEF Case
    <3>2. CASE i # Len(results) + 1
      <4>1. i \in 1..Len(results)
        BY <1>0, <2>9, <3>2
      <4> QED BY <2>1, <2>9, <4>1 DEF VerdictInv
    <3> QED BY <3>1, <3>2
  <2>11. PICK d : d = Case'
    OBVIOUS
  <2>12. place' = "analyze_intent" =>
           \E n \in 1..Len(PathOf(d)) : place' = PathOf(d)[n] /\ Entered(d, n - 1)'
    BY <2>1, EntryOf
  <2> QED BY <1>0, <2>1, <2>10, <2>11, <2>12 DEF VerdictInv, GateDecides, Entered
<1>4. CASE ReportControlled
  <2>1. /\ place = "report" /\ place' = "reported" /\ exitCode = -1
        /\ cases' = cases /\ visited' = visited /\ results' = results
        /\ exitCode' = IF \A i \in DOMAIN results : results[i].contract /\ results[i].facts
                         THEN 0 ELSE 1
    BY <1>4 DEF ReportControlled, ControlledTypes
  <2>2. DOMAIN results = DOMAIN cases /\ DOMAIN cases = 1..Len(cases)
    BY <1>0, <2>1, LenProperties DEF ControlledTypes, CasesInv
  <2>3. ASSUME NEW i \in DOMAIN cases
        PROVE  results[i].contract /\ results[i].facts <=> Deserves(cases[i])
    <3>1. i \in 1..Len(cases) /\ i \in 1..Len(results)
      BY <1>0, <2>1, <2>2, LenProperties DEF ControlledTypes
    <3>2. ResultIs(results[i], cases[i]) /\ ValidCase(cases[i])
      BY <2>1, <3>1 DEF VerdictInv
    <3>3. \A n \in ToSet(PathOf(cases[i])) : n \in NeedsOrder => cases[i].order # NoOrderId
      BY <3>2, PathsAre, LenProperties DEF ResultIs, HasOrder, ToSet
    <3> QED BY <3>2, <3>3 DEF ResultIs, Deserves, NeedsOrder
  <2>4. GateDecides'
    BY <2>1, <2>2, <2>3 DEF GateDecides
  <2> QED BY <1>0, <2>1, <2>4 DEF VerdictInv
<1>5. CASE UNCHANGED controlledVars
  BY <1>5 DEF controlledVars, VerdictInv, Entered, GateDecides, Case
<1> QED BY <1>1, <1>2, <1>3, <1>4, <1>5 DEF ControlledNext

-----------------------------------------------------------------------------
(* The comparison of pipelines: the counting of the chunks. *)

LEMMA MinIs ==
  ASSUME NEW T \in SUBSET Nat, NEW m \in T, \A y \in T : m <= y
  PROVE  Min(T) = m
<1>1. \A x \in T : (\A y \in T : x <= y) => x = m
  OBVIOUS
<1> QED BY <1>1 DEF Min

(* counted after n chunks, from counted after those before. *)
PassAt(q, chunks, after, n) ==
  IF n = 0 THEN [i \in DOMAIN q.expected |-> 0]
  ELSE CountChunk(after[n - 1], q, chunks[n], n)

Passes(q, chunks, last, after) == after = [n \in 0..last |-> PassAt(q, chunks, after, n)]

(* There is what the recursion defines. *)
LEMMA PassesExist ==
  ASSUME NEW q, NEW chunks
  PROVE  \A last \in Nat : \E after : Passes(q, chunks, last, after)
<1> DEFINE S == {n \in Nat : \E after : Passes(q, chunks, n, after)}
<1>1. 0 \in S
  <2>1. PICK after : after = [n \in 0..0 |-> [i \in DOMAIN q.expected |-> 0]]
    OBVIOUS
  <2>2. after = [n \in 0..0 |-> PassAt(q, chunks, after, n)]
    BY <2>1 DEF PassAt
  <2> QED BY <2>2 DEF Passes
<1>2. ASSUME NEW n \in Nat, n \in S
      PROVE  n + 1 \in S
  <2>1. PICK a : a = [k \in 0..n |-> PassAt(q, chunks, a, k)]
    BY <1>2 DEF Passes
  <2>2. PICK b : b = [k \in 0..(n + 1) |->
                        IF k <= n THEN a[k] ELSE CountChunk(a[n], q, chunks[n + 1], n + 1)]
    OBVIOUS
  <2>3. ASSUME NEW k \in 0..(n + 1)
        PROVE  b[k] = PassAt(q, chunks, b, k)
    <3>1. CASE k = 0
      <4>1. b[k] = a[k] /\ a[k] = PassAt(q, chunks, a, k)
        BY <2>1, <2>2, <3>1
      <4> QED BY <3>1, <4>1 DEF PassAt
    <3>2. CASE k # 0 /\ k <= n
      <4>0. k \in 0..n /\ k - 1 \in 0..n /\ k - 1 \in 0..(n + 1) /\ k - 1 <= n
        BY <3>2
      <4>1. b[k] = a[k] /\ a[k] = PassAt(q, chunks, a, k) /\ b[k - 1] = a[k - 1]
        <5>1. b[k] = a[k] /\ b[k - 1] = a[k - 1]
          BY <2>2, <4>0
        <5>2. a[k] = PassAt(q, chunks, a, k)
          BY <2>1, <4>0, Zenon
        <5> QED BY <5>1, <5>2
      <4> QED BY <3>2, <4>1 DEF PassAt
    <3>3. CASE k = n + 1
      <4>1. b[k] = CountChunk(a[n], q, chunks[n + 1], n + 1) /\ b[k - 1] = a[n] /\ k # 0
        BY <2>2, <3>3
      <4> QED BY <3>3, <4>1 DEF PassAt
    <3> QED BY <3>1, <3>2, <3>3
  <2>4. b = [k \in 0..(n + 1) |-> PassAt(q, chunks, b, k)]
    BY <2>2, <2>3
  <2> QED BY <2>4 DEF Passes
<1>3. Nat \subseteq S
  <2> HIDE DEF S
  <2> QED BY <1>1, <1>2, SetInduction
<1> QED BY <1>3

LEMMA CountedIs ==
  ASSUME NEW q, NEW chunks, Len(chunks) \in Nat
  PROVE  \E after : /\ Passes(q, chunks, Len(chunks), after)
                    /\ Counted(q, chunks) = after[Len(chunks)]
<1> DEFINE none == [i \in DOMAIN q.expected |-> 0]
           g == CHOOSE a : a = [n \in 0..Len(chunks) |->
                  IF n = 0 THEN none ELSE CountChunk(a[n - 1], q, chunks[n], n)]
<1>1. Counted(q, chunks) = g[Len(chunks)]
  BY DEF Counted
<1>2. \E a : a = [n \in 0..Len(chunks) |->
                    IF n = 0 THEN none ELSE CountChunk(a[n - 1], q, chunks[n], n)]
  <2>1. \A last \in Nat : \E after : Passes(q, chunks, last, after)
    BY PassesExist
  <2>2. PICK a : Passes(q, chunks, Len(chunks), a)
    BY <2>1, Zenon
  <2> QED BY <2>2, Zenon DEF Passes, PassAt
<1>3. g = [n \in 0..Len(chunks) |->
             IF n = 0 THEN none ELSE CountChunk(g[n - 1], q, chunks[n], n)]
  BY <1>2, Zenon
<1>4. Passes(q, chunks, Len(chunks), g)
  BY <1>3, Zenon DEF Passes, PassAt
<1> QED BY <1>1, <1>4, Zenon

(* Where the first n chunks have been counted: each for one source, which   *)
(* it matches, and the first that matches any source is among them.         *)
CountedInv(q, chunks, f, n) ==
  /\ f \in [DOMAIN q.expected -> 0..n]
  /\ \A i, j \in DOMAIN q.expected : f[i] = f[j] /\ f[i] # 0 => i = j
  /\ \A i \in DOMAIN q.expected : f[i] # 0 => Matches(chunks[f[i]], q.expected[i])
  /\ \A m \in 1..n :
       /\ \E i \in DOMAIN q.expected : Matches(chunks[m], q.expected[i])
       /\ \A k \in 1..(m - 1), i \in DOMAIN q.expected : ~Matches(chunks[k], q.expected[i])
       => \E i \in DOMAIN q.expected : f[i] = m

LEMMA OneCounted ==
  ASSUME NEW q, DOMAIN q.expected \subseteq Nat, NEW chunks, NEW n \in Nat, NEW f,
         CountedInv(q, chunks, f, n)
  PROVE  CountedInv(q, chunks, CountChunk(f, q, chunks[n + 1], n + 1), n + 1)
<1>1. PICK D : D = DOMAIN q.expected
  OBVIOUS
<1>2. PICK open : open = {i \in D : f[i] = 0 /\ Matches(chunks[n + 1], q.expected[i])}
  OBVIOUS
<1>3. PICK g : g = [i \in D |-> IF i \in open /\ \A k \in open : i <= k THEN n + 1 ELSE f[i]]
  OBVIOUS
<1>4. f \in [D -> 0..n] /\ D \subseteq Nat
  BY <1>1 DEF CountedInv
<1>5. CountChunk(f, q, chunks[n + 1], n + 1) = g
  <2>1. DOMAIN f = D
    BY <1>4
  <2> QED BY <1>2, <1>3, <2>1 DEF CountChunk
<1>6. g \in [D -> 0..(n + 1)]
  BY <1>3, <1>4
<1>7. \A i, j \in D : f[i] = f[j] /\ f[i] # 0 => i = j
  BY <1>1 DEF CountedInv
<1>8. ASSUME NEW i \in D, NEW j \in D, g[i] = g[j], g[i] # 0
      PROVE  i = j
  <2>1. f[i] \in 0..n /\ f[j] \in 0..n /\ i \in Nat /\ j \in Nat
    BY <1>4
  <2>2. \/ g[i] = f[i]
        \/ g[i] = n + 1 /\ i \in open /\ \A k \in open : i <= k
    BY <1>3
  <2>3. \/ g[j] = f[j]
        \/ g[j] = n + 1 /\ j \in open /\ \A k \in open : j <= k
    BY <1>3
  <2> QED BY <1>7, <1>8, <2>1, <2>2, <2>3
<1>9. ASSUME NEW i \in D, g[i] # 0
       PROVE  Matches(chunks[g[i]], q.expected[i])
  <2>1. \/ g[i] = f[i]
        \/ g[i] = n + 1 /\ i \in open
    BY <1>3
  <2>2. f[i] # 0 => Matches(chunks[f[i]], q.expected[i])
    BY <1>1 DEF CountedInv
  <2> QED BY <1>2, <1>9, <2>1, <2>2
<1>10. ASSUME NEW m \in 1..(n + 1),
              \E i \in D : Matches(chunks[m], q.expected[i]),
              \A k \in 1..(m - 1), i \in D : ~Matches(chunks[k], q.expected[i])
       PROVE  \E i \in D : g[i] = m
  <2>1. CASE m \in 1..n
    <3>1. PICK i \in D : f[i] = m
      BY <1>1, <1>10, <2>1 DEF CountedInv
    <3>2. i \notin open
      BY <1>2, <2>1, <3>1
    <3> QED BY <1>3, <3>1, <3>2
  <2>2. CASE m = n + 1
    <3>1. ASSUME NEW i \in D
          PROVE  f[i] = 0
      <4>1. f[i] \in 0..n
        BY <1>4
      <4>2. f[i] # 0 => f[i] \in 1..(m - 1) /\ Matches(chunks[f[i]], q.expected[i])
        BY <1>1, <2>2, <4>1 DEF CountedInv
      <4> QED BY <1>10, <4>2
    <3>2. open # {} /\ open \in SUBSET Nat /\ open \subseteq D
      BY <1>2, <1>4, <1>10, <2>2, <3>1
    <3>3. PICK i \in open : \A k \in open : i <= k
      BY <3>2, LeastElement
    <3> QED BY <1>3, <2>2, <3>2, <3>3
  <2> QED BY <2>1, <2>2
<1> QED BY <1>1, <1>5, <1>6, <1>8, <1>9, <1>10 DEF CountedInv

LEMMA AllCounted ==
  ASSUME NEW q, DOMAIN q.expected \subseteq Nat, NEW chunks, Len(chunks) \in Nat
  PROVE  CountedInv(q, chunks, Counted(q, chunks), Len(chunks))
<1>1. PICK a : Passes(q, chunks, Len(chunks), a) /\ Counted(q, chunks) = a[Len(chunks)]
  BY CountedIs
<1>2. \A n \in 0..Len(chunks) : a[n] = PassAt(q, chunks, a, n)
  BY <1>1, Zenon DEF Passes
<1> DEFINE S == {n \in Nat : n <= Len(chunks) => CountedInv(q, chunks, a[n], n)}
<1>3. 0 \in S
  <2>1. a[0] = [i \in DOMAIN q.expected |-> 0]
    BY <1>2 DEF PassAt
  <2> QED BY <2>1 DEF CountedInv
<1>4. ASSUME NEW n \in Nat, n \in S
      PROVE  n + 1 \in S
  <2>1. SUFFICES ASSUME n + 1 <= Len(chunks)
                 PROVE  CountedInv(q, chunks, a[n + 1], n + 1)
    BY <1>4
  <2>2. CountedInv(q, chunks, a[n], n)
    BY <1>4, <2>1
  <2>3. a[n + 1] = CountChunk(a[n], q, chunks[n + 1], n + 1)
    <3>1. a[n + 1] = PassAt(q, chunks, a, n + 1) /\ n + 1 # 0 /\ (n + 1) - 1 = n
      BY <1>2, <2>1
    <3> QED BY <3>1 DEF PassAt
  <2> QED BY <2>2, <2>3, OneCounted
<1>5. Nat \subseteq S
  <2> HIDE DEF S
  <2> QED BY <1>3, <1>4, SetInduction
<1> QED BY <1>1, <1>5

-----------------------------------------------------------------------------
(* The comparison of pipelines: the judgement of a retrieval. *)

LEMMA MinOfTwo ==
  ASSUME NEW a \in Nat, NEW b \in Nat
  PROVE  Min({a, b}) = IF a <= b THEN a ELSE b
<1>1. CASE a <= b
  BY <1>1, MinIs
<1>2. CASE ~(a <= b)
  BY <1>2, MinIs
<1> QED BY <1>1, <1>2

LEMMA QuestionsAre ==
  /\ Len(Questions) \in Nat \ {0} /\ DOMAIN Questions = 1..Len(Questions)
  /\ \A q \in ToSet(Questions) : /\ Len(q.expected) \in Nat
                                 /\ DOMAIN q.expected = 1..Len(q.expected)
                                 /\ Len(q.expected) = 0 <=> q.expected = <<>>
<1>1. Questions \in Seq(ToSet(Questions)) /\ ToSet(Questions) # {}
  BY RetrievalAssumption
<1>2. /\ Len(Questions) \in Nat /\ DOMAIN Questions = 1..Len(Questions)
      /\ Len(Questions) # 0
  <2>1. Len(Questions) \in Nat /\ DOMAIN Questions = 1..Len(Questions)
    BY <1>1, LenProperties
  <2>2. DOMAIN Questions # {}
    BY <1>1 DEF ToSet
  <2> QED BY <2>1, <2>2
<1>3. ASSUME NEW q \in ToSet(Questions)
      PROVE  /\ Len(q.expected) \in Nat /\ DOMAIN q.expected = 1..Len(q.expected)
             /\ Len(q.expected) = 0 <=> q.expected = <<>>
  <2>1. q.expected \in Seq(ToSet(q.expected))
    BY RetrievalAssumption
  <2>2. \A S : \A e \in Seq(S) : /\ Len(e) \in Nat /\ DOMAIN e = 1..Len(e)
                                 /\ Len(e) = 0 <=> e = <<>>
    BY LenProperties, EmptySeq
  <2> QED BY <2>1, <2>2, Zenon
<1> QED BY <1>2, <1>3

LEMMA RetrievalsAre ==
  ASSUME NEW chunks \in Retrievals
  PROVE  Len(chunks) \in 0..RagTopK /\ DOMAIN chunks = 1..Len(chunks) /\ RagTopK \in Nat
<1>1. RagTopK \in Nat
  BY RetrievalAssumption
<1>2. PICK n \in 0..RagTopK : chunks \in [1..n -> Collection]
  BY DEF Retrievals
<1>3. Len(chunks) = n /\ DOMAIN chunks = 1..n
  BY <1>1, <1>2
<1> QED BY <1>1, <1>3

(* Of a retrieval of n chunks for a question that expects m sources: ranks  *)
(* of matching chunks, that of the first among them; as many as pairs, at   *)
(* most as many as sources and as chunks.                                   *)
RanksFacts(q, chunks, m, n, relevant) ==
  /\ Ranks(relevant) \in SUBSET (1..n)
  /\ \A r \in Ranks(relevant) : \E i \in 1..m : Matches(chunks[r], q.expected[i])
  /\ \A r \in 1..n :
       /\ \E i \in 1..m : Matches(chunks[r], q.expected[i])
       /\ \A k \in 1..(r - 1), i \in 1..m : ~Matches(chunks[k], q.expected[i])
       => r \in Ranks(relevant)
  /\ relevant # {} <=> Ranks(relevant) # {}
  /\ Cardinality(Ranks(relevant)) = Cardinality(relevant)
  /\ Cardinality(Ranks(relevant)) \in Nat
  /\ Cardinality(Ranks(relevant)) <= n /\ Cardinality(Ranks(relevant)) <= m

LEMMA RanksCounted ==
  ASSUME NEW q, NEW m \in Nat, DOMAIN q.expected = 1..m, NEW chunks, Len(chunks) \in Nat,
         NEW n, n = Len(chunks), NEW relevant, relevant = RelevantRanks(q, chunks)
  PROVE  RanksFacts(q, chunks, m, n, relevant)
<1>1. PICK f : f = Counted(q, chunks)
  OBVIOUS
<1>2. /\ f \in [1..m -> 0..n] /\ n \in Nat
      /\ \A i, j \in 1..m : f[i] = f[j] /\ f[i] # 0 => i = j
      /\ \A i \in 1..m : f[i] # 0 => Matches(chunks[f[i]], q.expected[i])
      /\ \A r \in 1..n :
           /\ \E i \in 1..m : Matches(chunks[r], q.expected[i])
           /\ \A k \in 1..(r - 1), i \in 1..m : ~Matches(chunks[k], q.expected[i])
           => \E i \in 1..m : f[i] = r
  <2>1. DOMAIN q.expected \subseteq Nat
    OBVIOUS
  <2>2. CountedInv(q, chunks, f, n)
    BY <1>1, <2>1, AllCounted
  <2> QED BY <2>2 DEF CountedInv
<1>3. PICK P : P = {i \in 1..m : f[i] # 0}
  OBVIOUS
<1>4. relevant = {<<i, f[i]>> : i \in P}
  <2>1. DOMAIN f = 1..m
    BY <1>2
  <2> QED BY <1>1, <1>3, <2>1 DEF RelevantRanks
<1>5. Ranks(relevant) = {f[i] : i \in P}
  <2>1. \A i \in P : <<i, f[i]>>[2] = f[i]
    OBVIOUS
  <2>2. {pair[2] : pair \in {<<i, f[i]>> : i \in P}} = {<<i, f[i]>>[2] : i \in P}
    BY Zenon
  <2>3. {<<i, f[i]>>[2] : i \in P} = {f[i] : i \in P}
    BY <2>1
  <2> QED BY <1>4, <2>2, <2>3 DEF Ranks
<1>6. Ranks(relevant) \in SUBSET (1..n)
  BY <1>2, <1>3, <1>5
<1>7. IsFiniteSet(P) /\ Cardinality(P) <= m
  BY <1>3, PlacesFinite
<1>8. PICK g : g = [i \in P |-> f[i]]
  OBVIOUS
<1>9. g \in Bijection(P, Ranks(relevant))
  <2>1. g \in [P -> Ranks(relevant)] /\ \A r \in Ranks(relevant) : \E i \in P : g[i] = r
    BY <1>5, <1>8
  <2>2. \A i, j \in P : g[i] = g[j] => i = j
    BY <1>2, <1>3, <1>8
  <2> QED BY <2>1, <2>2 DEF Bijection, Injection, Surjection, IsInjective
<1>10. PICK h : h = [i \in P |-> <<i, f[i]>>]
  OBVIOUS
<1>11. h \in Bijection(P, relevant)
  <2>1. h \in [P -> relevant] /\ \A r \in relevant : \E i \in P : h[i] = r
    BY <1>4, <1>10
  <2>2. \A i, j \in P : h[i] = h[j] => i = j
    BY <1>10
  <2> QED BY <2>1, <2>2 DEF Bijection, Injection, Surjection, IsInjective
<1>12. Cardinality(Ranks(relevant)) = Cardinality(P) /\ Cardinality(relevant) = Cardinality(P)
  <2>1. ExistsBijection(P, Ranks(relevant)) /\ ExistsBijection(P, relevant)
    BY <1>9, <1>11, Zenon DEF ExistsBijection
  <2>2. Cardinality(Ranks(relevant)) = Cardinality(P)
    BY <1>7, <2>1, FS_Bijection, Zenon
  <2>3. Cardinality(relevant) = Cardinality(P)
    BY <1>7, <2>1, FS_Bijection, Zenon
  <2> QED BY <2>2, <2>3
<1>13. Cardinality(Ranks(relevant)) \in Nat /\ Cardinality(Ranks(relevant)) <= n
  BY <1>2, <1>6, PlacesFinite, Zenon
<1>14. relevant # {} <=> Ranks(relevant) # {}
  <2>1. relevant # {} <=> P # {}
    BY <1>4
  <2>2. Ranks(relevant) # {} <=> P # {}
    BY <1>5
  <2> QED BY <2>1, <2>2
<1>15. \A r \in Ranks(relevant) : \E i \in 1..m : Matches(chunks[r], q.expected[i])
  BY <1>2, <1>3, <1>5
<1>16. ASSUME NEW r \in 1..n, \E i \in 1..m : Matches(chunks[r], q.expected[i]),
              \A k \in 1..(r - 1), i \in 1..m : ~Matches(chunks[k], q.expected[i])
       PROVE  r \in Ranks(relevant)
  <2>1. PICK i \in 1..m : f[i] = r
    BY <1>2, <1>16
  <2>2. i \in P
    BY <1>3, <2>1
  <2> QED BY <1>5, <2>1, <2>2
<1> QED BY <1>6, <1>7, <1>12, <1>13, <1>14, <1>15, <1>16 DEF RanksFacts

(* What RanksAreSound says of a result, and what a summary counts of it.    *)
SoundResult(r) ==
  /\ Cardinality(Ranks(r.relevant)) = Cardinality(r.relevant)
  /\ Cardinality(Ranks(r.relevant)) <= r.ideal
  /\ r.first = IF Ranks(r.relevant) = {} THEN 0 ELSE Min(Ranks(r.relevant))
  /\ r.empty => Ranks(r.relevant) = {}
  /\ r.passed /\ ~r.empty => \E n \in Ranks(r.relevant) : n <= RagTopK

LEMMA FirstIsFirst ==
  ASSUME NEW q \in ToSet(Questions), NEW chunks \in Retrievals,
         NEW ranks, ranks = Ranks(RelevantRanks(q, chunks))
  PROVE  FirstMatch(q, chunks) = IF ranks = {} THEN 0 ELSE Min(ranks)
<1>1. PICK m \in Nat : m = Len(q.expected) /\ DOMAIN q.expected = 1..m
  BY QuestionsAre
<1>2. PICK n \in Nat : n = Len(chunks) /\ DOMAIN chunks = 1..n
  BY RetrievalsAre
<1>3. PICK fits : fits = {r \in 1..n : \E i \in 1..m : Matches(chunks[r], q.expected[i])}
  OBVIOUS
<1>4. FirstMatch(q, chunks) = IF fits = {} THEN 0 ELSE Min(fits)
  BY <1>1, <1>2, <1>3, Zenon DEF FirstMatch
<1>5. /\ ranks \in SUBSET (1..n)
      /\ \A r \in ranks : \E i \in 1..m : Matches(chunks[r], q.expected[i])
      /\ \A r \in 1..n :
           /\ \E i \in 1..m : Matches(chunks[r], q.expected[i])
           /\ \A k \in 1..(r - 1), i \in 1..m : ~Matches(chunks[k], q.expected[i])
           => r \in ranks
  <2>1. RanksFacts(q, chunks, m, n, RelevantRanks(q, chunks))
    BY <1>1, <1>2, RanksCounted, Zenon
  <2> QED BY <2>1 DEF RanksFacts
<1>6. ranks \subseteq fits /\ fits \in SUBSET Nat
  BY <1>3, <1>5
<1>7. CASE fits = {}
  BY <1>4, <1>6, <1>7
<1>8. CASE fits # {}
  <2>1. PICK r \in fits : \A k \in fits : r <= k
    BY <1>6, <1>8, LeastElement
  <2>2. r \in 1..n /\ \E i \in 1..m : Matches(chunks[r], q.expected[i])
    BY <1>3, <2>1
  <2>3. \A k \in 1..(r - 1) : k \in 1..n /\ k \notin fits
    BY <1>6, <2>1, <2>2
  <2>4. \A k \in 1..(r - 1), i \in 1..m : ~Matches(chunks[k], q.expected[i])
    BY <1>3, <2>3
  <2>5. r \in ranks
    BY <1>5, <2>2, <2>4
  <2>6. Min(fits) = r
    BY <1>6, <2>1, MinIs
  <2>7. ranks \in SUBSET Nat /\ \A k \in ranks : r <= k
    BY <1>6, <2>1
  <2>8. Min(ranks) = r
    BY <2>5, <2>7, MinIs
  <2> QED BY <1>4, <1>8, <2>5, <2>6, <2>8
<1> QED BY <1>7, <1>8

LEMMA JudgedSoundly ==
  ASSUME NEW q \in ToSet(Questions), NEW chunks \in Retrievals
  PROVE  SoundResult(Judge(q, chunks))
<1>1. PICK m \in Nat : /\ m = Len(q.expected) /\ DOMAIN q.expected = 1..m
                       /\ m = 0 <=> q.expected = <<>>
  BY QuestionsAre
<1>2. PICK n \in Nat : n = Len(chunks) /\ n <= RagTopK
  BY RetrievalsAre
<1>3. PICK relevant : relevant = RelevantRanks(q, chunks)
  OBVIOUS
<1>4. PICK ranks : ranks = Ranks(relevant)
  OBVIOUS
<1>5. /\ ranks \in SUBSET (1..n) /\ Cardinality(ranks) = Cardinality(relevant)
      /\ \A r \in ranks : \E i \in 1..m : Matches(chunks[r], q.expected[i])
      /\ relevant # {} <=> ranks # {}
      /\ Cardinality(ranks) \in Nat /\ Cardinality(ranks) <= n /\ Cardinality(ranks) <= m
  <2>1. Len(chunks) \in Nat
    BY <1>2
  <2>2. RanksFacts(q, chunks, m, n, relevant)
    BY <1>1, <1>2, <1>3, <2>1, RanksCounted, Zenon
  <2> QED BY <1>4, <2>2 DEF RanksFacts
<1>6. Cardinality(ranks) <= Min({m, n})
  BY <1>5, MinOfTwo
<1>7. FirstMatch(q, chunks) = IF ranks = {} THEN 0 ELSE Min(ranks)
  BY <1>3, <1>4, FirstIsFirst
<1>8. PICK r : r = Judge(q, chunks)
  OBVIOUS
<1>9. /\ r.relevant = relevant /\ r.ideal = Min({m, n}) /\ r.first = FirstMatch(q, chunks)
      /\ r.empty <=> q.expected = <<>>
      /\ r.passed /\ ~r.empty => relevant # {}
  BY <1>1, <1>2, <1>3, <1>8 DEF Judge
<1>10. r.empty => ranks = {}
  BY <1>1, <1>5, <1>9
<1>11. r.passed /\ ~r.empty => \E k \in ranks : k <= RagTopK
  <2>1. \A k \in ranks : k <= RagTopK
    BY <1>2, <1>5, RetrievalAssumption
  <2> QED BY <1>5, <1>9, <2>1
<1> QED BY <1>4, <1>5, <1>6, <1>7, <1>8, <1>9, <1>10, <1>11 DEF SoundResult

-----------------------------------------------------------------------------
(* The comparison of pipelines: the percentiles.  v has n measured values.  *)

LEMMA MaxIs ==
  ASSUME NEW T \in SUBSET Int, NEW m \in T, \A y \in T : y <= m
  PROVE  Max(T) = m
<1>1. \A x \in T : (\A y \in T : x >= y) => x = m
  OBVIOUS
<1>2. \A y \in T : m >= y
  OBVIOUS
<1> QED BY <1>1, <1>2 DEF Max

(* The values that have no later place than value i. *)
UpTo(v, n, i) == {k \in 1..n : v[k] < v[i] \/ (v[k] = v[i] /\ k <= i)}

LEMMA PlaceCounts ==
  ASSUME NEW n \in Nat, NEW v \in [1..n -> Int], NEW i \in 1..n
  PROVE  /\ SortedPlace(v, i) = Cardinality(UpTo(v, n, i))
         /\ IsFiniteSet(UpTo(v, n, i)) /\ i \in UpTo(v, n, i)
         /\ SortedPlace(v, i) \in 1..n
<1>1. SortedPlace(v, i) = Cardinality(UpTo(v, n, i))
  BY DEF SortedPlace, UpTo
<1>2. UpTo(v, n, i) \in SUBSET (1..n) /\ i \in UpTo(v, n, i)
  BY DEF UpTo
<1>3. /\ IsFiniteSet(UpTo(v, n, i)) /\ Cardinality(UpTo(v, n, i)) \in Nat
      /\ Cardinality(UpTo(v, n, i)) <= n
  BY <1>2, PlacesFinite
<1>4. Cardinality(UpTo(v, n, i)) # 0
  BY <1>2, <1>3, FS_EmptySet
<1> QED BY <1>1, <1>2, <1>3, <1>4

(* A proper part has fewer elements. *)
LEMMA FewerPlaces ==
  ASSUME NEW T, IsFiniteSet(T), NEW S \in SUBSET T, S # T
  PROVE  Cardinality(S) < Cardinality(T)
<1>1. IsFiniteSet(S) /\ Cardinality(S) <= Cardinality(T) /\ Cardinality(T) # Cardinality(S)
  BY FS_Subset
<1>2. Cardinality(S) \in Nat /\ Cardinality(T) \in Nat
  BY <1>1, FS_CardinalityType
<1> QED BY <1>1, <1>2

LEMMA PlacesTaken ==
  ASSUME NEW n \in Nat, NEW v \in [1..n -> Int]
  PROVE  /\ \A i, j \in 1..n : SortedPlace(v, i) = SortedPlace(v, j) => i = j
         /\ \A m \in 1..n : \E i \in 1..n : SortedPlace(v, i) = m
<1>1. ASSUME NEW i \in 1..n, NEW j \in 1..n, v[i] < v[j] \/ (v[i] = v[j] /\ i < j)
      PROVE  SortedPlace(v, i) < SortedPlace(v, j)
  <2>1. v[i] \in Int /\ v[j] \in Int /\ \A k \in 1..n : v[k] \in Int
    OBVIOUS
  <2>2. UpTo(v, n, i) \in SUBSET UpTo(v, n, j)
    BY <1>1, <2>1 DEF UpTo
  <2>3. j \in UpTo(v, n, j) /\ j \notin UpTo(v, n, i)
    BY <1>1, <2>1 DEF UpTo
  <2>4. Cardinality(UpTo(v, n, i)) < Cardinality(UpTo(v, n, j))
    BY <2>2, <2>3, PlaceCounts, FewerPlaces
  <2> QED BY <2>4, PlaceCounts
<1>2. ASSUME NEW i \in 1..n, NEW j \in 1..n, SortedPlace(v, i) = SortedPlace(v, j)
      PROVE  i = j
  <2>1. SortedPlace(v, i) \in Int /\ v[i] \in Int /\ v[j] \in Int
    BY PlaceCounts
  <2>2. /\ ~(v[i] < v[j] \/ (v[i] = v[j] /\ i < j))
        /\ ~(v[j] < v[i] \/ (v[j] = v[i] /\ j < i))
    BY <1>1, <1>2, <2>1
  <2> QED BY <2>1, <2>2
<1>3. PICK f : f = [i \in 1..n |-> SortedPlace(v, i)]
  OBVIOUS
<1>4. f \in [1..n -> 1..n]
  BY <1>3, PlaceCounts
<1>5. f \in Injection(1..n, 1..n)
  BY <1>2, <1>3, <1>4 DEF Injection, IsInjective
<1>6. f \in Surjection(1..n, 1..n)
  BY <1>5, FS_Interval, FS_Injection
<1>7. \A m \in 1..n : \E i \in 1..n : SortedPlace(v, i) = m
  BY <1>3, <1>6 DEF Surjection
<1> QED BY <1>2, <1>7

Percents == {50, 75, 95}

(* The rank is that of ceil(percent * n / 100). *)
RankDivides(n, p, m) ==
  PercentileRank(n, p) = m /\ (m - 1) * 100 < p * n /\ p * n <= m * 100

LEMMA RankIs ==
  ASSUME NEW n \in Nat \ {0}, NEW p \in Percents
  PROVE  \E m \in 1..n : RankDivides(n, p, m)
<1>1. PICK m \in Int : m = (p * n + 99) \div 100
  BY DEF Percents
<1>2. p * n \in Nat /\ p * n > 0 /\ p * n < 100 * n
  BY DEF Percents
<1>3. 100 * m <= p * n + 99 /\ p * n + 99 < 100 * m + 100
  <2>1. PICK x \in Nat : x = p * n + 99
    BY <1>2
  <2> QED BY <1>1, <2>1
<1>4. m \in 1..n
  BY <1>2, <1>3
<1>5. Max({m, 1}) = m
  BY <1>4, MaxIs
<1>6. PercentileRank(n, p) = m
  BY <1>1, <1>5 DEF PercentileRank
<1> QED BY <1>2, <1>3, <1>4, <1>6 DEF RankDivides

LEMMA PercentileIs ==
  ASSUME NEW n \in Nat \ {0}, NEW v \in [1..n -> Int], NEW p \in Percents
  PROVE  \E i \in 1..n : /\ Percentile(v, p) = v[i]
                         /\ SortedPlace(v, i) = PercentileRank(n, p)
<1>1. Len(v) = n /\ DOMAIN v = 1..n
  OBVIOUS
<1>2. PICK m \in 1..n : RankDivides(n, p, m)
  BY RankIs
<1>3. \E i \in 1..n : SortedPlace(v, i) = m
  BY <1>2, PlacesTaken
<1>4. PICK j : j = CHOOSE i \in 1..n : SortedPlace(v, i) = m
  OBVIOUS
<1>5. j \in 1..n /\ SortedPlace(v, j) = m
  BY <1>3, <1>4, Zenon
<1>6. Percentile(v, p) = v[j]
  BY <1>1, <1>2, <1>4 DEF Percentile, RankDivides
<1> QED BY <1>2, <1>5, <1>6 DEF RankDivides

(* What ReportIsSound says of the percentiles. *)
Divided(v, p) ==
  /\ Cardinality({k \in DOMAIN v : v[k] <= Percentile(v, p)}) * 100 >= p * Len(v)
  /\ Cardinality({k \in DOMAIN v : v[k] < Percentile(v, p)}) * 100 < p * Len(v)

LEMMA PercentileDivides ==
  ASSUME NEW n \in Nat \ {0}, NEW v \in [1..n -> Int], NEW p \in Percents
  PROVE  Divided(v, p)
<1>0. PICK value : value = Percentile(v, p)
  OBVIOUS
<1>1. PICK i \in 1..n : value = v[i] /\ SortedPlace(v, i) = PercentileRank(n, p)
  <2>1. \E i \in 1..n : /\ Percentile(v, p) = v[i]
                         /\ SortedPlace(v, i) = PercentileRank(n, p)
    BY PercentileIs, Zenon
  <2> QED BY <1>0, <2>1, Zenon
<1>2. PICK m \in 1..n : RankDivides(n, p, m)
  BY RankIs
<1>3. Cardinality(UpTo(v, n, i)) = m /\ i \in UpTo(v, n, i) /\ IsFiniteSet(UpTo(v, n, i))
  BY <1>1, <1>2, PlaceCounts DEF RankDivides
<1>4. PICK high : high = {k \in 1..n : v[k] <= value}
  OBVIOUS
<1>5. PICK low : low = {k \in 1..n : v[k] < value}
  OBVIOUS
<1>6. value \in Int /\ \A k \in 1..n : v[k] \in Int
  BY <1>1
<1>7. UpTo(v, n, i) \in SUBSET high /\ high \in SUBSET (1..n)
  BY <1>1, <1>4, <1>6 DEF UpTo
<1>8. low \in SUBSET UpTo(v, n, i) /\ i \notin low /\ low \in SUBSET (1..n)
  BY <1>1, <1>5, <1>6 DEF UpTo
<1>9. Cardinality(high) \in Nat /\ Cardinality(high) >= m
  BY <1>3, <1>7, PlacesFinite, FS_Subset
<1>10. Cardinality(low) \in Nat /\ Cardinality(low) < m
  BY <1>3, <1>8, PlacesFinite, FewerPlaces
<1>11. Cardinality(high) * 100 >= p * n /\ Cardinality(low) * 100 < p * n
  <2>1. p * n \in Nat
    BY DEF Percents
  <2> QED BY <1>2, <1>9, <1>10, <2>1 DEF RankDivides
<1>12. Len(v) = n /\ DOMAIN v = 1..n
  OBVIOUS
<1> QED BY <1>0, <1>4, <1>5, <1>11, <1>12 DEF Divided

(* The value with the last place is the maximum. *)
LEMMA WorstIsHighest ==
  ASSUME NEW n \in Nat \ {0}, NEW v \in [1..n -> Int]
  PROVE  Percentile(v, 95) <= Max({v[k] : k \in 1..n})
<1>1. PICK j \in 1..n : SortedPlace(v, j) = n
  BY PlacesTaken
<1>2. /\ Cardinality(UpTo(v, n, j)) = n /\ UpTo(v, n, j) \in SUBSET (1..n)
      /\ IsFiniteSet(1..n) /\ Cardinality(1..n) = n
  <2>1. Cardinality(UpTo(v, n, j)) = n
    BY <1>1, PlaceCounts
  <2>2. UpTo(v, n, j) \in SUBSET (1..n)
    BY DEF UpTo
  <2>3. IsFiniteSet(1..n) /\ Cardinality(1..n) = n
    BY FS_Interval
  <2> QED BY <2>1, <2>2, <2>3
<1>3. UpTo(v, n, j) = 1..n
  BY <1>2, FS_Subset
<1>4. \A k \in 1..n : v[k] <= v[j]
  BY <1>3 DEF UpTo
<1>5. Max({v[k] : k \in 1..n}) = v[j]
  <2>1. {v[k] : k \in 1..n} \in SUBSET Int /\ v[j] \in {v[k] : k \in 1..n}
    OBVIOUS
  <2>2. \A y \in {v[k] : k \in 1..n} : y <= v[j]
    BY <1>4
  <2> QED BY <2>1, <2>2, MaxIs
<1>6. PICK i \in 1..n : Percentile(v, 95) = v[i]
  <2>1. 95 \in Percents
    BY DEF Percents
  <2> QED BY <2>1, PercentileIs
<1> QED BY <1>4, <1>5, <1>6

-----------------------------------------------------------------------------
(* The comparison of pipelines: the summary of a pipeline. *)

Judgements == {Judge(q, c) : q \in ToSet(Questions), c \in Retrievals}

LEMMA JudgementsSound ==
  ASSUME NEW r \in Judgements
  PROVE  SoundResult(r)
<1>1. PICK q \in ToSet(Questions), c \in Retrievals : r = Judge(q, c)
  BY DEF Judgements
<1> QED BY <1>1, JudgedSoundly, Zenon

(* What ReportIsSound says of a summary. *)
SoundSummary(s) ==
  /\ s.questions = Len(Questions) /\ s.sampled = Repetitions * Len(Questions)
  /\ s.passed <= s.hits + (s.questions - s.positive) /\ s.hits <= s.positive
  /\ s.p95 <= s.worst

LEMMA SummaryCounts ==
  ASSUME NEW n \in Nat, NEW made \in [1..n -> Judgements],
         NEW passed, passed = {k \in 1..n : made[k].passed},
         NEW positive, positive = {k \in 1..n : ~made[k].empty},
         NEW hit, hit = {k \in 1..n : \E r \in Ranks(made[k].relevant) : r <= RagTopK}
  PROVE  /\ Cardinality(passed) <= Cardinality(hit) + (n - Cardinality(positive))
         /\ Cardinality(hit) <= Cardinality(positive)
<1>1. \A k \in 1..n : SoundResult(made[k])
  BY JudgementsSound
<1>2. hit \in SUBSET positive /\ positive \in SUBSET (1..n) /\ hit \in SUBSET (1..n)
  BY <1>1 DEF SoundResult
<1>3. passed \in SUBSET (hit \cup ((1..n) \ positive))
  BY <1>1 DEF SoundResult
<1>4. /\ IsFiniteSet(1..n) /\ Cardinality(1..n) = n
      /\ IsFiniteSet(positive) /\ Cardinality(positive) \in Nat
      /\ IsFiniteSet(hit) /\ Cardinality(hit) \in Nat
  <2>1. IsFiniteSet(1..n) /\ Cardinality(1..n) = n
    BY FS_Interval
  <2>2. IsFiniteSet(positive) /\ Cardinality(positive) \in Nat
    BY <1>2, PlacesFinite
  <2>3. IsFiniteSet(hit) /\ Cardinality(hit) \in Nat
    BY <1>2, PlacesFinite
  <2> QED BY <2>1, <2>2, <2>3
<1>5. Cardinality(hit) <= Cardinality(positive)
  BY <1>2, <1>4, FS_Subset
<1>6. PICK others : others = (1..n) \ positive
  OBVIOUS
<1>7. IsFiniteSet(others) /\ Cardinality(others) = n - Cardinality(positive)
  <2>1. (1..n) \cap positive = positive
    BY <1>2
  <2>2. /\ IsFiniteSet((1..n) \ positive)
        /\ Cardinality((1..n) \ positive)
             = Cardinality(1..n) - Cardinality((1..n) \cap positive)
    BY <1>4, FS_Difference, Zenon
  <2> QED BY <1>4, <1>6, <2>1, <2>2
<1>8. /\ IsFiniteSet(hit \cup others)
      /\ Cardinality(hit \cup others) <= Cardinality(hit) + Cardinality(others)
  <2>1. /\ IsFiniteSet(hit \cup others)
        /\ Cardinality(hit \cup others)
             = Cardinality(hit) + Cardinality(others) - Cardinality(hit \cap others)
    BY <1>4, <1>7, FS_Union
  <2>2. IsFiniteSet(hit \cap others) /\ Cardinality(hit \cap others) \in Nat
    BY <1>2, <1>6, PlacesFinite
  <2> QED BY <1>4, <1>7, <2>1, <2>2
<1>9. Cardinality(passed) <= Cardinality(hit \cup others)
  BY <1>3, <1>6, <1>8, FS_Subset
<1>10. Cardinality(passed) \in Nat /\ Cardinality(hit \cup others) \in Nat
  <2>1. passed \in SUBSET (1..n) /\ hit \cup others \in SUBSET (1..n)
    BY <1>2, <1>3, <1>6
  <2> QED BY <2>1, PlacesFinite
<1> QED BY <1>4, <1>5, <1>7, <1>8, <1>9, <1>10

LEMMA SummarySound ==
  ASSUME judged \in Seq(Judgements), Len(judged) = Len(Questions),
         samples \in Seq(Latencies), Len(samples) = Repetitions * Len(Questions)
  PROVE  SoundSummary(Summary)
<1>1. PICK n \in Nat : n = Len(judged) /\ DOMAIN judged = 1..n /\ judged \in [1..n -> Judgements]
  BY LenProperties
<1>2. PICK m \in Nat \ {0} : m = Len(samples)
  <2>1. Len(Questions) \in Nat \ {0} /\ Repetitions \in Nat \ {0}
    BY QuestionsAre, RetrievalAssumption
  <2>2. Repetitions * Len(Questions) \in Nat \ {0}
    BY <2>1
  <2> QED BY <2>2
<1>3. samples \in [1..m -> Int] /\ DOMAIN samples = 1..m
  <2>1. DOMAIN samples = 1..m /\ samples \in [1..m -> Latencies]
    BY <1>2, LenProperties
  <2> QED BY <2>1, RetrievalAssumption
<1>4. PICK passed : passed = {k \in 1..n : judged[k].passed}
  OBVIOUS
<1>5. PICK positive : positive = {k \in 1..n : ~judged[k].empty}
  OBVIOUS
<1>6. PICK hit : hit = {k \in 1..n : \E r \in Ranks(judged[k].relevant) : r <= RagTopK}
  OBVIOUS
<1>7. /\ Cardinality(passed) <= Cardinality(hit) + (n - Cardinality(positive))
      /\ Cardinality(hit) <= Cardinality(positive)
  BY <1>1, <1>4, <1>5, <1>6, SummaryCounts
<1>8. ToSet(samples) = {samples[k] : k \in 1..m}
  BY <1>3 DEF ToSet
<1>9. Percentile(samples, 95) <= Max(ToSet(samples))
  BY <1>3, <1>8, WorstIsHighest
<1>10. Summary = [questions |-> n, sampled |-> m,
                  passed |-> Cardinality(passed), positive |-> Cardinality(positive),
                  hits |-> Cardinality(hit),
                  p95 |-> Percentile(samples, 95), worst |-> Max(ToSet(samples))]
  <2>1. Hits(judged) = Cardinality(hit)
    BY <1>1, <1>6, Zenon DEF Hits
  <2>2. /\ passed = {k \in DOMAIN judged : judged[k].passed}
        /\ positive = {k \in DOMAIN judged : ~judged[k].empty}
    BY <1>1, <1>4, <1>5, Zenon
  <2> QED BY <1>1, <1>2, <2>1, <2>2, Zenon DEF Summary
<1>11. n = Len(Questions) /\ m = Repetitions * Len(Questions)
  BY <1>1, <1>2
<1> QED BY <1>7, <1>9, <1>10, <1>11 DEF SoundSummary

-----------------------------------------------------------------------------
(* The comparison of pipelines: the invariant of its script. *)

RetrievalTypes ==
  /\ stage \in {"open", "reindex", "warmup", "measure", "closing", "reported", "failed"}
  /\ judged \in Seq(Judgements) /\ samples \in Seq(Latencies)
  /\ \E S : summaries \in Seq(S)

(* The first repetition is judged, all are timed. *)
SamplesInv ==
  Len(judged) = IF Len(samples) <= Len(Questions) THEN Len(samples) ELSE Len(Questions)

SummariesInv == \A k \in 1..Len(summaries) : SoundSummary(summaries[k])

RetrievalInv == RetrievalTypes /\ SamplesInv /\ SummariesInv

LEMMA RetrievalStarts == RetrievalInit => RetrievalInv
<1> SUFFICES ASSUME RetrievalInit PROVE RetrievalInv
  OBVIOUS
<1>1. /\ stage = "open" /\ judged = <<>> /\ samples = <<>> /\ summaries = <<>>
      /\ Len(judged) = 0 /\ Len(samples) = 0 /\ Len(summaries) = 0
  BY DEF RetrievalInit
<1>2. summaries \in Seq({})
  BY <1>1
<1>3. RetrievalTypes
  BY <1>1, <1>2 DEF RetrievalTypes
<1>4. SamplesInv /\ SummariesInv
  BY <1>1, QuestionsAre DEF SamplesInv, SummariesInv
<1> QED BY <1>3, <1>4 DEF RetrievalInv

(* The steps that only move the script on. *)
LEMMA StageSteps ==
  ASSUME RetrievalInv, UNCHANGED <<judged, samples, summaries>>,
         stage' \in {"open", "reindex", "warmup", "measure", "closing", "reported", "failed"}
  PROVE  RetrievalInv'
<1>1. judged' = judged /\ samples' = samples /\ summaries' = summaries
  OBVIOUS
<1>2. RetrievalTypes'
  BY <1>1 DEF RetrievalInv, RetrievalTypes
<1> QED BY <1>1, <1>2 DEF RetrievalInv, SamplesInv, SummariesInv

LEMMA MeasureStep == RetrievalInv /\ Measure => RetrievalInv'
<1> SUFFICES ASSUME RetrievalTypes, SamplesInv, SummariesInv, Measure PROVE RetrievalInv'
  BY DEF RetrievalInv
<1>1. PICK n \in Nat : n = Len(samples)
  BY LenProperties DEF RetrievalTypes
<1>2. PICK q : q = Questions[(n % Len(Questions)) + 1]
  OBVIOUS
<1>3. q \in ToSet(Questions)
  <2>1. Len(Questions) \in Nat \ {0} /\ DOMAIN Questions = 1..Len(Questions)
    BY QuestionsAre
  <2>2. (n % Len(Questions)) + 1 \in 1..Len(Questions)
    BY <2>1
  <2> QED BY <1>2, <2>1, <2>2 DEF ToSet
<1>4. PICK chunks \in Retrievals, latency \in Latencies :
        /\ samples' = Append(samples, latency)
        /\ judged' = IF n < Len(Questions) THEN Append(judged, Judge(q, chunks)) ELSE judged
  BY <1>1, <1>2, Zenon DEF Measure
<1>5. Judge(q, chunks) \in Judgements
  BY <1>3 DEF Judgements
<1>6. samples' \in Seq(Latencies) /\ Len(samples') = n + 1
  BY <1>1, <1>4, AppendProperties DEF RetrievalTypes
<1>7. /\ judged' \in Seq(Judgements) /\ Len(judged) \in Nat
      /\ Len(judged') = IF n < Len(Questions) THEN Len(judged) + 1 ELSE Len(judged)
  <2>1. /\ Append(judged, Judge(q, chunks)) \in Seq(Judgements)
        /\ Len(Append(judged, Judge(q, chunks))) = Len(judged) + 1
        /\ Len(judged) \in Nat
    BY <1>5, AppendProperties, LenProperties DEF RetrievalTypes
  <2> QED BY <1>4, <2>1 DEF RetrievalTypes
<1>8. stage' = stage /\ summaries' = summaries
  BY DEF Measure
<1>9. RetrievalTypes'
  BY <1>6, <1>7, <1>8 DEF RetrievalTypes
<1>10. SamplesInv'
  <2>1. Len(Questions) \in Nat \ {0}
    BY QuestionsAre
  <2> QED BY <1>1, <1>6, <1>7, <2>1 DEF SamplesInv
<1>11. SummariesInv'
  BY <1>8 DEF SummariesInv
<1> QED BY <1>9, <1>10, <1>11 DEF RetrievalInv

LEMMA EndStep == RetrievalInv /\ EndPipeline => RetrievalInv'
<1> SUFFICES ASSUME RetrievalTypes, SamplesInv, SummariesInv, EndPipeline
             PROVE  RetrievalInv'
  BY DEF RetrievalInv
<1>1. Len(Questions) \in Nat \ {0} /\ Repetitions \in Nat \ {0}
  BY QuestionsAre, RetrievalAssumption
<1>2. Len(samples) = Repetitions * Len(Questions)
  BY DEF EndPipeline
<1>3. Repetitions * Len(Questions) >= Len(Questions)
  BY <1>1
<1>4. Len(judged) = Len(Questions)
  BY <1>1, <1>2, <1>3 DEF SamplesInv
<1>5. SoundSummary(Summary)
  BY <1>2, <1>4, SummarySound DEF RetrievalTypes
<1>6. PICK S : summaries \in Seq(S)
  BY DEF RetrievalTypes
<1>7. PICK s : s = Summary
  OBVIOUS
<1>8. PICK T : T = S \cup {s}
  OBVIOUS
<1>9. summaries \in Seq(T) /\ s \in T
  BY <1>6, <1>8
<1>10. /\ summaries' \in Seq(T) /\ Len(summaries') = Len(summaries) + 1
       /\ Len(summaries) \in Nat
       /\ \A k \in 1..Len(summaries) : summaries'[k] = summaries[k]
       /\ summaries'[Len(summaries) + 1] = s
  <2>1. summaries' = Append(summaries, s)
    BY <1>7 DEF EndPipeline
  <2> QED BY <1>9, <2>1, AppendProperties, LenProperties
<1>11. /\ judged' = <<>> /\ samples' = <<>> /\ Len(judged') = 0 /\ Len(samples') = 0
       /\ stage' \in {"closing", "warmup"}
  BY DEF EndPipeline
<1>12. RetrievalTypes'
  BY <1>10, <1>11 DEF RetrievalTypes
<1>13. SamplesInv'
  BY <1>1, <1>11 DEF SamplesInv
<1>14. SummariesInv'
  <2>1. ASSUME NEW k \in 1..Len(summaries')
        PROVE  SoundSummary(summaries'[k])
    <3>1. CASE k \in 1..Len(summaries)
      BY <1>10, <3>1 DEF SummariesInv
    <3>2. CASE k = Len(summaries) + 1
      BY <1>5, <1>7, <1>10, <3>2
    <3> QED BY <1>10, <3>1, <3>2
  <2> QED BY <2>1 DEF SummariesInv, SoundSummary
<1> QED BY <1>12, <1>13, <1>14 DEF RetrievalInv

LEMMA RetrievalSteps ==
  RetrievalInv /\ (RetrievalNext \/ UNCHANGED retrievalVars) => RetrievalInv'
<1> SUFFICES ASSUME RetrievalInv, RetrievalNext \/ UNCHANGED retrievalVars
             PROVE  RetrievalInv'
  OBVIOUS
<1>1. CASE OpenResources
  BY <1>1, StageSteps DEF OpenResources
<1>2. CASE ReindexAll
  BY <1>2, StageSteps DEF ReindexAll
<1>3. CASE WarmUp
  BY <1>3, StageSteps DEF WarmUp
<1>4. CASE Measure
  BY <1>4, MeasureStep
<1>5. CASE EndPipeline
  BY <1>5, EndStep
<1>6. CASE RetrievalFails
  BY <1>6, StageSteps DEF RetrievalFails
<1>7. CASE CloseStore
  BY <1>7, StageSteps DEF CloseStore
<1>8. CASE UNCHANGED retrievalVars
  BY <1>8, StageSteps DEF retrievalVars, RetrievalInv, RetrievalTypes
<1> QED BY <1>1, <1>2, <1>3, <1>4, <1>5, <1>6, <1>7, <1>8 DEF RetrievalNext

LEMMA RetrievalRanks == RetrievalInv => RanksAreSound
<1> SUFFICES ASSUME RetrievalInv, NEW k \in DOMAIN judged
             PROVE  SoundResult(judged[k])
  BY Zenon DEF RanksAreSound, SoundResult
<1>1. judged[k] \in Judgements
  BY ElementOfSeq, LenProperties DEF RetrievalInv, RetrievalTypes
<1> QED BY <1>1, JudgementsSound

LEMMA IntegersAre ==
  ASSUME NEW n \in Nat, NEW S \in SUBSET Int, NEW f \in [1..n -> S]
  PROVE  f \in [1..n -> Int]
OBVIOUS

LEMMA SamplesDivided ==
  ASSUME NEW v \in Seq(Latencies), v # <<>>, NEW p \in Percents
  PROVE  Divided(v, p)
<1>1. PICK n \in Nat \ {0} : n = Len(v) /\ v \in [1..n -> Latencies]
  <2>1. Len(v) \in Nat \ {0} /\ v \in [1..Len(v) -> Latencies]
    BY LenProperties, EmptySeq
  <2> QED BY <2>1
<1>2. v \in [1..n -> Int]
  <2>1. Latencies \subseteq Int
    BY RetrievalAssumption
  <2> QED BY <1>1, <2>1, IntegersAre
<1> QED BY <1>2, PercentileDivides

LEMMA RetrievalReport == RetrievalInv => ReportIsSound
<1> SUFFICES ASSUME RetrievalInv PROVE ReportIsSound
  OBVIOUS
<1>1. ASSUME NEW k \in DOMAIN summaries
      PROVE  SoundSummary(summaries[k])
  <2>1. DOMAIN summaries = 1..Len(summaries)
    BY LenProperties DEF RetrievalInv, RetrievalTypes
  <2> QED BY <2>1 DEF RetrievalInv, SummariesInv
<1>2. samples # <<>> => \A p \in Percents : Divided(samples, p)
  BY SamplesDivided DEF RetrievalInv, RetrievalTypes
<1> QED BY <1>1, <1>2, Zenon DEF ReportIsSound, SoundSummary, Divided, Percents

-----------------------------------------------------------------------------
(* The scripts together. *)

Inv == LiveInv /\ ControlledInv /\ VerdictInv /\ RetrievalInv

LEMMA InvInit == Init => Inv
BY LiveStarts, ControlledStarts, VerdictStarts, RetrievalStarts DEF Init, Inv

LEMMA InvNext == Inv /\ [Next]_vars => Inv'
<1> SUFFICES ASSUME Inv, [Next]_vars PROVE Inv'
  OBVIOUS
<1>1. LiveNext \/ UNCHANGED liveVars
  BY DEF Next, vars
<1>2. ControlledNext \/ UNCHANGED controlledVars
  BY DEF Next, vars
<1>3. RetrievalNext \/ UNCHANGED retrievalVars
  BY DEF Next, vars
<1> QED BY <1>1, <1>2, <1>3, LiveSteps, ControlledSteps, VerdictSteps, RetrievalSteps DEF Inv

LEMMA Invariance == Spec => []Inv
BY InvInit, InvNext, PTL DEF Spec

(* Every variable of every script has its type, a script that has reported  *)
(* has an exit code, and none is short of or past its plan.                 *)
THEOREM EvaluationTypeCorrect == Spec => []TypeOK
<1>1. Inv => TypeOK
  <2> SUFFICES ASSUME LiveInv, ControlledInv, RetrievalInv PROVE TypeOK
    BY DEF Inv
  <2>1. /\ step \in {"create", "stream", "report", "reported", "crashed"}
        /\ suite \in {"none", "SYSTEM_TIMEOUT", "JAVA_UNREACHABLE", "HTTP_STATUS"}
        /\ Len(records) <= PlannedRuns
        /\ report.status \in {"none", "PASSED", "FAILED", "ABORTED"}
    BY DEF LiveInv, LiveTypes, RunsInv, AbortCodes
  <2>2. step \in {"reported", "crashed"} <=> report.exit \in {0, 1}
    BY <2>1 DEF LiveInv, ReportInv, Unreported
  <2>3. /\ place \in Nodes \cup {"load", "paused", "END", "report", "reported", "crashed"}
        /\ Len(results) <= Len(cases)
        /\ place \in {"reported", "crashed"} <=> exitCode \in {0, 1}
    BY DEF ControlledInv, ControlledTypes, CasesInv, Harmless
  <2>4. ToSet(visited) \subseteq Nodes
    <3>1. ToSet(visited) \subseteq Harmless
      BY ElementOfSeq, LenProperties DEF ControlledInv, ControlledTypes, ToSet
    <3> QED BY <3>1 DEF Harmless
  <2>5. /\ stage \in {"open", "reindex", "warmup", "measure", "closing", "reported", "failed"}
        /\ Len(judged) <= Len(Questions)
    <3>1. Len(samples) \in Nat /\ Len(Questions) \in Nat
      BY LenProperties, QuestionsAre DEF RetrievalInv, RetrievalTypes
    <3> QED BY <3>1 DEF RetrievalInv, RetrievalTypes, SamplesInv
  <2>6. ToSet(samples) \subseteq Latencies
    BY ElementOfSeq, LenProperties DEF RetrievalInv, RetrievalTypes, ToSet
  <2> QED BY <2>1, <2>2, <2>3, <2>4, <2>5, <2>6 DEF TypeOK
<1> QED BY <1>1, Invariance, PTL

(* build_live_report and the script, for any cases, streams and policies:   *)
(* exit code 0 means that every round of every case was run, each with a    *)
(* whole stream that met its contract, the critical ones with all facts.    *)
THEOREM GreenEarned == Spec => []GreenIsEarned
<1>1. Inv => GreenIsEarned
  BY LiveGreen DEF Inv
<1> QED BY <1>1, Invariance, PTL

(* The stream reader and the recorder: a run has evidence exactly where its *)
(* events are metadata, tokens, one result or approval and done, in this    *)
(* order and of its own thread, whatever the service sent.                  *)
THEOREM WholeStreamsCount == Spec => []OnlyWholeStreamsCount
<1>1. Inv => OnlyWholeStreamsCount
  BY LiveWhole DEF Inv
<1> QED BY <1>1, Invariance, PTL

(* run_live_suite: the records are the first runs of the plan, in order; a  *)
(* failure all requests share ends it, and no verdict is drawn from a part. *)
THEOREM AbortsStop == Spec => []AbortStopsSuite
<1>1. Inv => AbortStopsSuite
  BY LiveAborts DEF Inv
<1> QED BY <1>1, Invariance, PTL

(* The controlled evaluation, for any files of cases: no case gets a refund *)
(* submitted, because the graph stops for the approval, and the script ends *)
(* with 0 only if every case of the file was run and none entered a node it *)
(* forbids.                                                                 *)
THEOREM GateKeeps == Spec => []GateForbids
<1>1. Inv => GateForbids
  BY ControlledGate DEF Inv
<1> QED BY <1>1, Invariance, PTL

(* The controlled evaluation, for any files of cases: the script ends with  *)
(* 0 where every case lists the very path, calls, sources, outcome and no   *)
(* more facts than the graph is meant to give it, and with 1 where not.     *)
THEOREM VerdictRight == Spec => []GateDecides
<1>1. Inv => GateDecides
  BY DEF Inv, VerdictInv
<1> QED BY <1>1, Invariance, PTL

(* The cases of data/evaluation/agent_cases.json never fail: each is one    *)
(* that the verdict is 0 for (ShippedAssumption).                           *)
THEOREM ShippedCasesPass == Spec => []ControlledCasesPass
<1>1. Inv => ControlledCasesPass
  BY ShippedAssumption DEF Inv, VerdictInv, GateDecides, ControlledCasesPass
<1> QED BY <1>1, Invariance, PTL

(* evaluate_retrieval_case, for any chunks and expected sources: no rank is *)
(* counted twice, there are no more ranks than an ideal ranking has, and    *)
(* the reciprocal rank is that of the first chunk that matches anything.    *)
THEOREM RanksSound == Spec => []RanksAreSound
<1>1. Inv => RanksAreSound
  BY RetrievalRanks DEF Inv
<1> QED BY <1>1, Invariance, PTL

(* evaluate_pipeline, for any questions, repetitions and latencies: each    *)
(* summary is of every question once and of every measurement, what passed  *)
(* was hit or was not to be, and the percentile divides the samples as its  *)
(* name says.                                                               *)
THEOREM ReportSound == Spec => []ReportIsSound
<1>1. Inv => ReportIsSound
  BY RetrievalReport DEF Inv
<1> QED BY <1>1, Invariance, PTL
=============================================================================
