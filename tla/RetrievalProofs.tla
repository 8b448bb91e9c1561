---------------------------- MODULE RetrievalProofs ----------------------------
(***************************************************************************)
(* A theorem about the answers of KnowledgeIndex, for any points, scores,  *)
(* candidate_k and top_k.  The place of a candidate is one more than the   *)
(* number of those before it; that all places are taken, each by one       *)
(* candidate, is what makes the sequence of the reranked ones complete.    *)
(***************************************************************************)
EXTENDS KnowledgeIndexProofs, SequenceTheorems, FiniteSetTheorems

-----------------------------------------------------------------------------
(* The collection stays finite. *)

FiniteInv == IsFiniteSet(index)

LEMMA ChunksFinite ==
  ASSUME NEW t, NEW d, NEW v, NEW low \in Int, NEW high \in Int
  PROVE  IsFiniteSet(ChunksFrom(t, d, v, low, high))
<1> DEFINE chunk(i) == [tenant |-> t, document |-> d, chunk |-> i, version |-> v]
<1>1. PICK f : f = [i \in low..high |-> chunk(i)]
  OBVIOUS
<1>2. f \in Surjection(low..high, ChunksFrom(t, d, v, low, high))
  BY <1>1 DEF Surjection, ChunksFrom
<1> QED BY <1>2, FS_Interval, FS_Surjection

LEMMA DeletedFinite ==
  ASSUME IsFiniteSet(index), NEW t, NEW d, index' = {p \in index : ~DeleteSelects(p, t, d)}
  PROVE  IsFiniteSet(index')
BY FS_Subset

LEMMA UpsertedFinite ==
  ASSUME IsFiniteSet(index), IInv, NEW j \in Jobs, job[j].phase \in {"upsert", "late"},
         index' = Upserted(Batch(j))
  PROVE  IsFiniteSet(index')
<1>1. PICK t, d, n : t = job[j].tenant /\ d = job[j].doc /\ n = job[j].next
  OBVIOUS
<1>2. PICK v : v = job[j].plan[d]
  OBVIOUS
<1>3. job[j] \in JobStates /\ v \in Versions /\ Written(v)
  BY <1>1, <1>2 DEF IInv, Types, JobInv
<1>4. PICK m \in Nat : n \in Nat /\ Batch(j) = ChunksFrom(t, d, v, n, m - 1)
  BY <1>1, <1>2, <1>3, BatchIs
<1>5. IsFiniteSet(Batch(j))
  BY <1>4, ChunksFinite
<1>6. IsFiniteSet({p \in index : \A q \in Batch(j) : ~SameId(p, q)})
  BY FS_Subset
<1> QED BY <1>5, <1>6, FS_Union DEF Upserted

LEMMA NextFinite == IInv /\ FiniteInv /\ [Next]_vars => FiniteInv'
<1> SUFFICES ASSUME IInv, IsFiniteSet(index), [Next]_vars PROVE IsFiniteSet(index')
  BY DEF FiniteInv
<1>1. ASSUME NEW j \in Jobs, Delete(j) \/ Upsert(j) \/ LateCall(j)
      PROVE  IsFiniteSet(index')
  <2>1. CASE Delete(j)
    BY <2>1, DeletedFinite DEF Delete
  <2>2. CASE Upsert(j)
    BY <2>2, UpsertedFinite DEF Upsert
  <2>3. CASE LateCall(j)
    BY <2>3, DeletedFinite, UpsertedFinite DEF LateCall
  <2> QED BY <1>1, <2>1, <2>2, <2>3
<1>2. ASSUME NEW j \in Jobs,
             ReindexRefused(j) \/ StartReindex(j) \/ NextDocument(j) \/ CallFails(j)
               \/ CallLost(j)
      PROVE  UNCHANGED index
  BY <1>2 DEF ReindexRefused, StartReindex, NextDocument, CallFails, CallLost
<1>3. CASE StartWithKnowledge \/ StartDegraded \/ StartDisabled \/ StartFails
             \/ SearchSucceeds \/ SearchUnavailable \/ Crash
             \/ \E t \in Tenants : Publish(t)
  BY <1>3 DEF StartWithKnowledge, StartDegraded, StartDisabled, StartFails, Started,
     SearchSucceeds, SearchUnavailable, Crash, Publish, jobVars
<1>4. CASE UNCHANGED vars
  BY <1>4 DEF vars
<1> QED BY <1>1, <1>2, <1>3, <1>4 DEF Next, JobStep

-----------------------------------------------------------------------------
(* The places of the candidates. *)

(* Those the reranker puts before candidate i. *)
Before(n, scores, i) ==
  {k \in 1..n : scores[k] > scores[i] \/ (scores[k] = scores[i] /\ k < i)}

LEMMA PlaceCounts ==
  ASSUME NEW n \in Nat, NEW scores \in [1..n -> Int], NEW i \in 1..n
  PROVE  /\ IsFiniteSet(Before(n, scores, i))
         /\ RerankPlace(scores, i) = 1 + Cardinality(Before(n, scores, i))
         /\ RerankPlace(scores, i) \in 1..n
<1> DEFINE B == Before(n, scores, i)
<1>1. IsFiniteSet(1..n) /\ Cardinality(1..n) = n
  BY FS_Interval
<1>2. B \in SUBSET ((1..n) \ {i})
  BY DEF Before
<1>3. IsFiniteSet((1..n) \ {i}) /\ Cardinality((1..n) \ {i}) = n - 1
  BY <1>1, FS_RemoveElement
<1> HIDE DEF B
<1>4. IsFiniteSet(B) /\ Cardinality(B) <= n - 1
  BY <1>2, <1>3, FS_Subset, ZenonT(30)
<1>5. Cardinality(B) \in Nat
  BY <1>4, FS_CardinalityType
<1>6. RerankPlace(scores, i) = 1 + Cardinality(B)
  BY DEF RerankPlace, Before, B
<1> QED BY <1>4, <1>5, <1>6 DEF B

(* Who is before another has the smaller place. *)
LEMMA PlacesOrdered ==
  ASSUME NEW n \in Nat, NEW scores \in [1..n -> Int], NEW i \in 1..n, NEW j \in 1..n,
         i \in Before(n, scores, j)
  PROVE  RerankPlace(scores, i) < RerankPlace(scores, j)
<1>1. PICK A, B : A = Before(n, scores, i) /\ B = Before(n, scores, j)
  OBVIOUS
<1>2. i \notin A /\ A \cup {i} \in SUBSET B
  BY <1>1 DEF Before
<1>3. IsFiniteSet(A) /\ IsFiniteSet(B)
  BY <1>1, PlaceCounts
<1>4. Cardinality(A \cup {i}) = Cardinality(A) + 1
  BY <1>2, <1>3, FS_AddElement
<1>5. Cardinality(A \cup {i}) <= Cardinality(B)
  BY <1>2, <1>3, FS_Subset
<1>6. Cardinality(A) \in Nat /\ Cardinality(B) \in Nat
  BY <1>3, FS_CardinalityType
<1>7. /\ RerankPlace(scores, i) = 1 + Cardinality(A)
      /\ RerankPlace(scores, j) = 1 + Cardinality(B)
  BY <1>1, PlaceCounts
<1> QED BY <1>4, <1>5, <1>6, <1>7

(* Each place is that of one candidate. *)
LEMMA PlacesTaken ==
  ASSUME NEW n \in Nat, NEW scores \in [1..n -> Int]
  PROVE  /\ \A i, j \in 1..n : RerankPlace(scores, i) = RerankPlace(scores, j) => i = j
         /\ \A m \in 1..n : \E i \in 1..n : RerankPlace(scores, i) = m
<1>1. ASSUME NEW i \in 1..n, NEW j \in 1..n, RerankPlace(scores, i) = RerankPlace(scores, j)
      PROVE  i = j
  <2>1. i \notin Before(n, scores, j) /\ j \notin Before(n, scores, i)
    <3>1. RerankPlace(scores, i) \in Int /\ RerankPlace(scores, j) \in Int
      BY PlaceCounts
    <3> QED BY <1>1, <3>1, PlacesOrdered
  <2> QED BY <2>1 DEF Before
<1>2. PICK f : f = [i \in 1..n |-> RerankPlace(scores, i)]
  OBVIOUS
<1>3. f \in [1..n -> 1..n]
  BY <1>2, PlaceCounts
<1>4. f \in Injection(1..n, 1..n)
  BY <1>1, <1>2, <1>3 DEF Injection, IsInjective
<1>5. f \in Surjection(1..n, 1..n)
  BY <1>4, FS_Interval, FS_Injection
<1>6. \A m \in 1..n : \E i \in 1..n : RerankPlace(scores, i) = m
  BY <1>2, <1>5 DEF Surjection
<1> QED BY <1>1, <1>6

-----------------------------------------------------------------------------
(* The chunks that are cited. *)

(* n candidates c, and their scores. *)
Scored(n, c, scores) ==
  n \in Nat /\ DOMAIN c = 1..n /\ scores \in [1..n -> Int]

LEMMA RerankedIsSorted ==
  ASSUME NEW n, NEW c, NEW scores, Scored(n, c, scores)
  PROVE  /\ \E S : Reranked(c, scores) \in [1..n -> S]
         /\ \A i \in 1..n : Reranked(c, scores)[RerankPlace(scores, i)] = c[i]
<1>0. n \in Nat /\ DOMAIN c = 1..n /\ scores \in [1..n -> Int]
  BY DEF Scored
<1> DEFINE at(m) == CHOOSE i \in 1..n : RerankPlace(scores, i) = m
<1>1. \A m \in 1..n : at(m) \in 1..n /\ RerankPlace(scores, at(m)) = m
  BY <1>0, PlacesTaken
<1>2. Reranked(c, scores) = [m \in 1..n |-> c[at(m)]]
  BY <1>0 DEF Reranked
<1>3. ASSUME NEW i \in 1..n
      PROVE  Reranked(c, scores)[RerankPlace(scores, i)] = c[i]
  <2>1. RerankPlace(scores, i) \in 1..n
    BY <1>0, PlaceCounts
  <2>2. at(RerankPlace(scores, i)) = i
    BY <1>0, <1>1, <2>1, PlacesTaken
  <2> HIDE DEF at
  <2> QED BY <1>2, <2>1, <2>2
<1> HIDE DEF at
<1>4. Reranked(c, scores) \in [1..n -> {c[at(m)] : m \in 1..n}]
  BY <1>2
<1> QED BY <1>3, <1>4

(* A ranking is a sequence: what the search gave, in its order. *)
LEMMA RankingIsSeq ==
  ASSUME NEW points, IsFiniteSet(points), NEW c \in Rankings(points, CandidateK)
  PROVE  \E n \in Nat : /\ c \in [1..n -> points] /\ Len(c) = n /\ DOMAIN c = 1..n
                        /\ \A i, j \in 1..n : c[i] = c[j] => i = j
<1>1. CandidateK \in Nat /\ Cardinality(points) \in Nat
  BY KnowledgeAssumption, FS_CardinalityType
<1>2. PICK n : n = Min({CandidateK, Cardinality(points)})
  OBVIOUS
<1>3. n \in Nat
  BY <1>1, <1>2, MinOfTwo
<1>4. c \in [1..n -> points] /\ IsInjective(c)
  BY <1>2 DEF Rankings
<1>5. Len(c) = n
  BY <1>3, <1>4
<1> QED BY <1>3, <1>4, <1>5 DEF IsInjective

(* What is cited where a reranker is configured, how much, and which        *)
(* candidate it is.                                                         *)
BestOf(c, scores) == Cited(c, TRUE, scores)

Kept(n) == Min({TopK, n})

PlaceOf(c, n, chunk) == CHOOSE a \in 1..n : c[a] = chunk

LEMMA CitedAreFirst ==
  ASSUME NEW n, NEW c, NEW scores, Scored(n, c, scores),
         NEW cited, cited = BestOf(c, scores)
  PROVE  \E k \in Nat :
           /\ k = Kept(n) /\ k <= n /\ Len(cited) = k /\ DOMAIN cited = 1..k
           /\ \A m \in 1..k : cited[m] = Reranked(c, scores)[m]
<1>1. PICK k : k = Kept(n)
  OBVIOUS
<1>2. TopK \in Nat /\ n \in Nat
  BY KnowledgeAssumption DEF Scored
<1>3. k \in Nat /\ k <= n
  BY <1>1, <1>2, MinOfTwo DEF Kept
<1>4. PICK ranked : ranked = Reranked(c, scores)
  OBVIOUS
<1>5. PICK S : ranked \in [1..n -> S]
  BY <1>4, RerankedIsSorted
<1>6. Len(ranked) = n
  BY <1>2, <1>5
<1>7. cited = SubSeq(ranked, 1, k)
  BY <1>1, <1>4, <1>6 DEF Cited, BestOf, Kept
<1>8. \A m \in 1..k : ranked[m] \in S
  BY <1>2, <1>3, <1>5
<1>9. /\ cited \in Seq(S) /\ Len(cited) = k
      /\ \A m \in 1..k : cited[m] = ranked[m]
  <2>1. PICK t : t = SubSeq(ranked, 1, k)
    OBVIOUS
  <2>2. 1 \in Int /\ k \in Int
    BY <1>3
  <2>3. /\ t \in Seq(S) /\ Len(t) = IF 1 <= k THEN k - 1 + 1 ELSE 0
        /\ \A m \in 1..(k - 1 + 1) : t[m] = ranked[1 + m - 1]
    BY <1>8, <2>1, <2>2, SubSeqProperties
  <2>4. Len(t) = k /\ \A m \in 1..k : t[m] = ranked[m]
    BY <1>3, <2>3
  <2> QED BY <1>7, <2>1, <2>3, <2>4
<1>10. DOMAIN cited = 1..k
  BY <1>9, LenProperties
<1> QED BY <1>1, <1>3, <1>4, <1>9, <1>10

(* No candidate that is better than a cited one is left out. *)
LEMMA BetterAreCited ==
  ASSUME NEW n, NEW c, NEW scores, Scored(n, c, scores),
         \A i, j \in 1..n : c[i] = c[j] => i = j,
         NEW cited, cited = BestOf(c, scores)
  PROVE  /\ Len(cited) = Kept(n) /\ IsInjective(cited)
         /\ \A m \in DOMAIN cited : \E j \in 1..n :
              /\ j = PlaceOf(c, n, cited[m])
              /\ \A i \in Before(n, scores, j) : \E l \in 1..(m - 1) : cited[l] = c[i]
<1>0. n \in Nat /\ scores \in [1..n -> Int]
  BY DEF Scored
<1>1. PICK k \in Nat :
        /\ k = Kept(n) /\ k <= n /\ Len(cited) = k /\ DOMAIN cited = 1..k
        /\ \A l \in 1..k : cited[l] = Reranked(c, scores)[l]
  BY CitedAreFirst
<1>2. \A i \in 1..n : Reranked(c, scores)[RerankPlace(scores, i)] = c[i]
  BY RerankedIsSorted
<1>3. ASSUME NEW m \in 1..k
      PROVE  \E j \in 1..n :
               /\ j = PlaceOf(c, n, cited[m])
               /\ \A i \in Before(n, scores, j) : \E l \in 1..(m - 1) : cited[l] = c[i]
  <2>1. m \in 1..n
    BY <1>0, <1>1
  <2>2. PICK j \in 1..n : RerankPlace(scores, j) = m
    BY <1>0, <2>1, PlacesTaken
  <2>3. c[j] = cited[m]
    BY <1>1, <1>2, <2>2
  <2>4. j = PlaceOf(c, n, cited[m])
    BY <2>3 DEF PlaceOf
  <2>5. ASSUME NEW i \in Before(n, scores, j)
        PROVE  \E l \in 1..(m - 1) : cited[l] = c[i]
    <3>1. i \in 1..n
      BY DEF Before
    <3>2. PICK l : l = RerankPlace(scores, i)
      OBVIOUS
    <3>3. l \in 1..n /\ l < m
      BY <1>0, <2>2, <3>1, <3>2, PlaceCounts, PlacesOrdered
    <3>4. l \in 1..(m - 1) /\ l \in 1..k
      BY <1>1, <3>3
    <3> QED BY <1>1, <1>2, <3>1, <3>2, <3>4
  <2> QED BY <2>4, <2>5
<1>4. ASSUME NEW m \in 1..k, NEW l \in 1..k, cited[m] = cited[l]
      PROVE  m = l
  <2>1. m \in 1..n /\ l \in 1..n
    BY <1>0, <1>1
  <2>2. PICK i \in 1..n : RerankPlace(scores, i) = m
    BY <1>0, <2>1, PlacesTaken
  <2>3. PICK j \in 1..n : RerankPlace(scores, j) = l
    BY <1>0, <2>1, PlacesTaken
  <2>4. c[i] = c[j]
    BY <1>1, <1>2, <1>4, <2>2, <2>3
  <2> QED BY <2>2, <2>3, <2>4
<1> QED BY <1>1, <1>3, <1>4 DEF IsInjective

LEMMA BestAreCited == FiniteInv => AnswerIsBestOfTenant
<1> SUFFICES ASSUME IsFiniteSet(index), NEW t \in Tenants,
                    NEW c \in Rankings(Searched(t), CandidateK)
             PROVE  /\ \A m \in DOMAIN c : c[m].tenant = t
                    /\ Cited(c, FALSE, <<>>) = SubSeq(c, 1, Min({TopK, Len(c)}))
                    /\ \A s \in [DOMAIN c -> Scores] :
                         LET cited == Cited(c, TRUE, s)
                             at(m) == CHOOSE i \in DOMAIN c : c[i] = cited[m]
                         IN
                         /\ Len(cited) = Min({TopK, Len(c)}) /\ IsInjective(cited)
                         /\ \A m \in DOMAIN cited, i \in DOMAIN c :
                              s[i] > s[at(m)] \/ (s[i] = s[at(m)] /\ i < at(m))
                                => \E l \in 1..(m - 1) : cited[l] = c[i]
  BY DEF AnswerIsBestOfTenant, FiniteInv
<1>1. PICK S : S = Searched(t)
  OBVIOUS
<1>2. IsFiniteSet(S)
  BY <1>1, FS_Subset DEF Searched
<1>3. PICK n \in Nat : /\ c \in [1..n -> S] /\ Len(c) = n /\ DOMAIN c = 1..n
                       /\ \A i, j \in 1..n : c[i] = c[j] => i = j
  BY <1>1, <1>2, RankingIsSeq
<1>4. \A m \in DOMAIN c : c[m].tenant = t
  BY <1>1, <1>3 DEF Searched
<1>5. Cited(c, FALSE, <<>>) = SubSeq(c, 1, Min({TopK, Len(c)}))
  BY DEF Cited
<1> SUFFICES ASSUME NEW s \in [DOMAIN c -> Scores]
             PROVE  LET cited == Cited(c, TRUE, s)
                        at(m) == CHOOSE i \in DOMAIN c : c[i] = cited[m]
                    IN
                    /\ Len(cited) = Min({TopK, Len(c)}) /\ IsInjective(cited)
                    /\ \A m \in DOMAIN cited, i \in DOMAIN c :
                         s[i] > s[at(m)] \/ (s[i] = s[at(m)] /\ i < at(m))
                           => \E l \in 1..(m - 1) : cited[l] = c[i]
  BY <1>4, <1>5
<1> DEFINE cited == Cited(c, TRUE, s)
           at(m) == CHOOSE i \in DOMAIN c : c[i] = cited[m]
<1> SUFFICES /\ Len(cited) = Min({TopK, Len(c)}) /\ IsInjective(cited)
             /\ \A m \in DOMAIN cited, i \in DOMAIN c :
                  s[i] > s[at(m)] \/ (s[i] = s[at(m)] /\ i < at(m))
                    => \E l \in 1..(m - 1) : cited[l] = c[i]
  OBVIOUS
<1>6. Scored(n, c, s)
  BY <1>3, ScoresAssumption DEF Scored
<1>7. /\ Len(cited) = Kept(n) /\ IsInjective(cited)
      /\ \A m \in DOMAIN cited : \E j \in 1..n :
           /\ j = PlaceOf(c, n, cited[m])
           /\ \A i \in Before(n, s, j) : \E l \in 1..(m - 1) : cited[l] = c[i]
  <2>1. cited = BestOf(c, s)
    BY DEF BestOf
  <2> HIDE DEF cited
  <2> QED BY <1>3, <1>6, <2>1, BetterAreCited, SMTT(30)
<1> HIDE DEF cited
<1>8. Len(cited) = Min({TopK, Len(c)}) /\ IsInjective(cited)
  BY <1>3, <1>7 DEF Kept
<1>9. \A m \in DOMAIN cited, i \in DOMAIN c :
        s[i] > s[at(m)] \/ (s[i] = s[at(m)] /\ i < at(m))
          => \E l \in 1..(m - 1) : cited[l] = c[i]
  <2> SUFFICES ASSUME NEW m \in DOMAIN cited, NEW i \in DOMAIN c,
                      s[i] > s[at(m)] \/ (s[i] = s[at(m)] /\ i < at(m))
               PROVE  \E l \in 1..(m - 1) : cited[l] = c[i]
    OBVIOUS
  <2>1. PICK j : j = at(m)
    OBVIOUS
  <2>2. j = PlaceOf(c, n, cited[m])
    BY <1>3, <2>1 DEF PlaceOf
  <2>3. i \in Before(n, s, j)
    BY <1>3, <2>1 DEF Before
  <2> QED BY <1>7, <2>2, <2>3
<1> HIDE DEF at
<1> QED BY <1>8, <1>9

(* An answer cites chunks of the asking tenant only, each once, and of what *)
(* the search gave the best, equal scores in the order of the search        *)
(* (retriever.py, reranker.py).                                             *)
THEOREM AnswersAreBest == Spec => []AnswerIsBestOfTenant
<1>1. Init => FiniteInv
  BY FS_EmptySet DEF Init, FiniteInv
<1>2. FiniteInv => AnswerIsBestOfTenant
  BY BestAreCited
<1> QED BY <1>1, <1>2, NextFinite, IndexInvariance, PTL DEF Spec
=============================================================================
