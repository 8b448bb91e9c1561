-------------------------- MODULE KnowledgeIndexProofs --------------------------
(***************************************************************************)
(* Theorems about KnowledgeIndex, for any tenants, documents, versions,    *)
(* sizes, batches and jobs.  The invariant says of a reindex that nobody   *)
(* has disturbed what it has written so far, document by document, and     *)
(* within the document it is at, chunk by chunk.                           *)
(***************************************************************************)
EXTENDS KnowledgeIndex, TLAPS

JobPhases == {"idle", "choose", "delete", "upsert", "late", "ended"}

Outcomes == {"none", "503", "404", "500", "ok", "lost", "delete", "upsert"}

JobStates ==
  [phase : JobPhases, tenant : Tenants \cup {"none"},
   plan : [Documents -> Versions] \cup {<<>>}, todo : SUBSET Documents,
   doc : Documents \cup {"none"}, next : Nat, clean : BOOLEAN, alone : BOOLEAN,
   outcome : Outcomes]

IndexTypes ==
  /\ index \subseteq Points
  /\ \A p, q \in index : SameId(p, q) => p = q

Types ==
  /\ TypeOK
  /\ catalog \in [Tenants -> [Documents -> Versions]]
  /\ expected \in [Tenants -> [Documents -> Versions]]
  /\ job \in [Jobs -> JobStates]

(* A version with chunks. *)
Written(v) == v # 0 /\ Size[v] > 0

JobInv(j) ==
  /\ job[j].phase \in {"choose", "delete", "upsert", "late"} =>
       /\ job[j].tenant \in Tenants /\ job[j].plan \in [Documents -> Versions]
       /\ \A d \in job[j].todo : Written(job[j].plan[d])
  /\ job[j].phase \in {"delete", "upsert", "late"} =>
       /\ job[j].doc \in Documents /\ Written(job[j].plan[job[j].doc])
  /\ job[j].phase = "upsert" => job[j].next < Size[job[j].plan[job[j].doc]]

(* What j has upserted of its document. *)
Begun(j) ==
  ChunksFrom(job[j].tenant, job[j].doc, job[j].plan[job[j].doc], 0, job[j].next - 1)

(* No other job has deleted t's document d and not yet upserted its end. *)
Sole(j) ==
  \A k \in Jobs : k # j =>
    ~(/\ job[k].phase = "upsert"
      /\ job[k].tenant = job[j].tenant /\ job[k].doc = job[j].doc)

CleanInv(j) ==
  job[j].phase = "upsert" /\ job[j].clean =>
    Sole(j) /\ PointsOf(job[j].tenant, job[j].doc) = Begun(j)

AloneAt(j) ==
  \A k \in Jobs : k # j =>
    ~(/\ job[k].tenant = job[j].tenant
      /\ job[k].phase \in {"choose", "delete", "upsert", "late"})

(* Of j's plan, the documents that are neither left nor at work are done. *)
AloneInv(j) ==
  job[j].phase \in {"choose", "delete", "upsert"} /\ job[j].alone =>
    /\ AloneAt(j)
    /\ job[j].phase = "upsert" =>
         PointsOf(job[j].tenant, job[j].doc) = Begun(j)
    /\ \A d \in Documents :
         /\ Written(job[j].plan[d]) /\ d \notin job[j].todo
         /\ job[j].phase = "choose" \/ d # job[j].doc
         => PointsOf(job[j].tenant, d) = Chunks(job[j].tenant, d, job[j].plan[d])

LastInv ==
  \A t \in Tenants, d \in Documents :
    /\ <<t, d>> \notin harmed
    /\ \A k \in Jobs :
         ~(job[k].phase = "upsert" /\ job[k].tenant = t /\ job[k].doc = d)
    => PointsOf(t, d) = Chunks(t, d, expected[t][d])

IInv ==
  /\ Types /\ LastInv
  /\ \A j \in Jobs : JobInv(j) /\ CleanInv(j) /\ AloneInv(j)

-----------------------------------------------------------------------------
(* Chunks and points. *)

LEMMA ChunksFound ==
  ASSUME NEW t, NEW d, NEW v \in Versions
  PROVE  /\ Chunks(t, d, v) # {} <=> Written(v)
         /\ Written(v) => /\ Size[v] \in Nat
                          /\ Chunks(t, d, v) = ChunksFrom(t, d, v, 0, Size[v] - 1)
<1>1. v # 0 => Size[v] \in Nat
  BY KnowledgeAssumption DEF Versions
<1>2. ASSUME v # 0, Size[v] > 0
      PROVE  Chunks(t, d, v) # {}
  <2>1. [tenant |-> t, document |-> d, chunk |-> 0, version |-> v] \in Chunks(t, d, v)
    BY <1>1, <1>2 DEF Chunks, ChunksFrom
  <2> QED BY <2>1
<1>3. ASSUME v # 0, ~(Size[v] > 0)
      PROVE  Chunks(t, d, v) = {}
  BY <1>1, <1>3 DEF Chunks, ChunksFrom
<1>4. v = 0 => Chunks(t, d, v) = {}
  BY DEF Chunks
<1> QED BY <1>1, <1>2, <1>3, <1>4 DEF Written, Chunks

LEMMA MinOfTwo ==
  ASSUME NEW a \in Int, NEW b \in Int
  PROVE  Min({a, b}) = IF a <= b THEN a ELSE b
BY DEF Min

(* The points of a document after a step. *)
After(t, d) == {p \in index' : p.tenant = t /\ p.document = d}

LEMMA DeletePoints ==
  ASSUME NEW t, NEW d, \A p : p \in index' <=> p \in index /\ ~DeleteSelects(p, t, d)
  PROVE  /\ After(t, d) = {}
         /\ \A t2, d2 : t2 # t \/ d2 # d => After(t2, d2) = PointsOf(t2, d2)
         /\ IndexTypes => IndexTypes'
BY DEF PointsOf, After, DeleteSelects, IndexTypes

(* Upserting chunks of one document leaves the points of the others. *)
LEMMA UpsertElsewhere ==
  ASSUME NEW t, NEW d, NEW v, NEW low, NEW high,
         index' = Upserted(ChunksFrom(t, d, v, low, high)),
         NEW t2, NEW d2, t2 # t \/ d2 # d
  PROVE  After(t2, d2) = PointsOf(t2, d2)
<1>1. \A p \in ChunksFrom(t, d, v, low, high) : p.tenant = t /\ p.document = d
  BY DEF ChunksFrom
<1> QED BY <1>1 DEF PointsOf, After, Upserted, SameId

LEMMA UpsertTypes ==
  ASSUME NEW t \in Tenants, NEW d \in Documents, NEW v \in Versions,
         NEW low \in Nat, NEW high \in Int, IndexTypes,
         index' = Upserted(ChunksFrom(t, d, v, low, high))
  PROVE  IndexTypes'
<1> DEFINE new == ChunksFrom(t, d, v, low, high)
<1>1. new \subseteq Points
  BY DEF ChunksFrom, Points
<1>2. \A p, q \in new : SameId(p, q) => p = q
  BY DEF ChunksFrom, SameId
<1>3. \A p, q : SameId(p, q) => SameId(q, p)
  BY DEF SameId
<1> HIDE DEF new
<1>4. index' = {p \in index : \A q \in new : ~SameId(p, q)} \cup new
  BY DEF Upserted, new
<1>5. index' \subseteq Points
  BY <1>1, <1>4 DEF IndexTypes
<1>6. ASSUME NEW p \in index', NEW q \in index', SameId(p, q)
      PROVE  p = q
  BY <1>2, <1>3, <1>4, <1>6 DEF IndexTypes
<1> QED BY <1>5, <1>6 DEF IndexTypes

(* A batch continues what is there. *)
LEMMA UpsertContinues ==
  ASSUME NEW t, NEW d, NEW v, NEW n \in Nat, NEW m \in Nat, n <= m,
         PointsOf(t, d) = ChunksFrom(t, d, v, 0, n - 1),
         index' = Upserted(ChunksFrom(t, d, v, n, m - 1))
  PROVE  After(t, d) = ChunksFrom(t, d, v, 0, m - 1)
<1> DEFINE new == ChunksFrom(t, d, v, n, m - 1)
           old == ChunksFrom(t, d, v, 0, n - 1)
<1>1. \A p \in new : p.tenant = t /\ p.document = d
  BY DEF ChunksFrom
<1>2. \A p \in old, q \in new : ~SameId(p, q)
  BY DEF ChunksFrom, SameId
<1>3. old \cup new = ChunksFrom(t, d, v, 0, m - 1)
  BY DEF ChunksFrom
<1> HIDE DEF new, old
<1>4. index' = {p \in index : \A q \in new : ~SameId(p, q)} \cup new
  BY DEF Upserted, new
<1>5. After(t, d) = {p \in PointsOf(t, d) : \A q \in new : ~SameId(p, q)} \cup new
  BY <1>1, <1>4 DEF PointsOf, After
<1>6. PointsOf(t, d) = old
  BY DEF old
<1> QED BY <1>2, <1>3, <1>5, <1>6

-----------------------------------------------------------------------------
(* Jobs that a step leaves as they are. *)

Same(k) ==
  /\ job'[k].phase = job[k].phase /\ job'[k].tenant = job[k].tenant
  /\ job'[k].plan = job[k].plan /\ job'[k].todo = job[k].todo
  /\ job'[k].doc = job[k].doc /\ job'[k].next = job[k].next

LEMMA JobKept ==
  ASSUME NEW k \in Jobs, JobInv(k), CleanInv(k), AloneInv(k), Same(k),
         job'[k].clean => job[k].clean,
         job'[k].alone => job[k].alone,
         job[k].phase = "upsert" /\ job'[k].clean =>
           /\ Sole(k)'
           /\ After(job[k].tenant, job[k].doc) = PointsOf(job[k].tenant, job[k].doc),
         job[k].phase \in {"choose", "delete", "upsert"} /\ job'[k].alone =>
           /\ AloneAt(k)'
           /\ \A d : After(job[k].tenant, d) = PointsOf(job[k].tenant, d)
  PROVE  JobInv(k)' /\ CleanInv(k)' /\ AloneInv(k)'
<1>1. Begun(k)' = Begun(k)
  BY DEF Same, Begun, ChunksFrom
<1>2. JobInv(k)'
  BY DEF Same, JobInv
<1>4. CleanInv(k)'
  BY <1>1 DEF Same, CleanInv, PointsOf, After
<1>5. AloneInv(k)'
  BY <1>1 DEF Same, AloneInv, PointsOf, After, Chunks, ChunksFrom
<1> QED BY <1>2, <1>4, <1>5

(* A job that is over is of no concern. *)
LEMMA JobOver ==
  ASSUME NEW k \in Jobs, job'[k].phase \in {"idle", "ended"}
  PROVE  JobInv(k)' /\ CleanInv(k)' /\ AloneInv(k)'
BY DEF JobInv, CleanInv, AloneInv

LEMMA EndedTypes ==
  ASSUME NEW outcome \in Outcomes
  PROVE  Ended(outcome) \in JobStates /\ Ended(outcome).phase = "ended"
BY DEF Ended, NoJob, JobStates, JobPhases

LEMMA IndexInit == Init => IInv
<1> SUFFICES ASSUME Init PROVE IInv
  OBVIOUS
<1>1. \A j \in Jobs : job[j] = NoJob("idle", "none")
  BY DEF Init
<1>2. \A j \in Jobs : job[j] \in JobStates /\ job[j].phase = "idle"
  <2>1. NoJob("idle", "none") \in JobStates /\ NoJob("idle", "none").phase = "idle"
    BY DEF NoJob, JobStates, JobPhases, Outcomes
  <2> QED BY <1>1, <2>1
<1>3. job \in [Jobs -> JobStates]
  BY <1>2 DEF Init
<1>4. /\ catalog \in [Tenants -> [Documents -> Versions]]
      /\ expected \in [Tenants -> [Documents -> Versions]]
  BY KnowledgeAssumption DEF Init, Versions
<1>5. TypeOK
  BY <1>2 DEF Init, TypeOK
<1>6. LastInv
  BY DEF Init, LastInv, PointsOf, Chunks
<1>7. \A j \in Jobs : JobInv(j) /\ CleanInv(j) /\ AloneInv(j)
  BY <1>2 DEF JobInv, CleanInv, AloneInv
<1> QED BY <1>3, <1>4, <1>5, <1>6, <1>7 DEF IInv, Types

(* Start-up, search and publication leave jobs and index alone. *)
LEMMA ServiceOnly ==
  ASSUME IInv, UNCHANGED jobVars,
         agent' \in {"off", "failed", "ready", "degraded", "disabled"},
         availability' \in {"UP", "DOWN", "DISABLED"},
         agent' = "ready" => collection' = "hybrid",
         agent' \in {"degraded", "disabled"} => availability' # "UP",
         catalog' \in [Tenants -> [Documents -> Versions]]
  PROVE  IInv'
<1> USE DEF jobVars
<1>1. Types'
  BY DEF IInv, Types, TypeOK
<1>2. LastInv'
  BY DEF IInv, LastInv, PointsOf
<1>3. \A j \in Jobs : JobInv(j)' /\ CleanInv(j)' /\ AloneInv(j)'
  BY DEF IInv, JobInv, CleanInv, AloneInv, Sole, AloneAt, PointsOf, Begun
<1> QED BY <1>1, <1>2, <1>3 DEF IInv

LEMMA ServiceSteps ==
  ASSUME IInv,
         \/ StartWithKnowledge \/ StartDegraded \/ StartDisabled \/ StartFails
         \/ SearchSucceeds \/ SearchUnavailable \/ \E t \in Tenants : Publish(t)
  PROVE  IInv'
<1>1. TypeOK /\ catalog \in [Tenants -> [Documents -> Versions]]
  BY DEF IInv, Types
<1>2. CASE StartWithKnowledge \/ StartDegraded \/ StartDisabled \/ StartFails
  BY <1>1, <1>2, ServiceOnly DEF StartWithKnowledge, StartDegraded, StartDisabled,
     StartFails, Started
<1>3. CASE SearchSucceeds \/ SearchUnavailable
  BY <1>1, <1>3, ServiceOnly DEF SearchSucceeds, SearchUnavailable, TypeOK
<1>4. ASSUME NEW t \in Tenants, Publish(t)
      PROVE  IInv'
  <2>1. catalog' \in [Tenants -> [Documents -> Versions]]
    BY <1>1, <1>4 DEF Publish
  <2> QED BY <1>1, <1>4, <2>1, ServiceOnly DEF Publish, TypeOK
<1> QED BY <1>2, <1>3, <1>4

-----------------------------------------------------------------------------
(* The steps of a job. *)

(* The types after a step of j that leaves the service alone. *)
LEMMA JobTypes ==
  ASSUME IInv, UNCHANGED serviceVars, IndexTypes', job' \in [Jobs -> JobStates],
         expected' \in [Tenants -> [Documents -> Versions]]
  PROVE  Types'
<1> USE DEF serviceVars
<1>1. \A j \in Jobs : job'[j].phase \in JobPhases
  BY DEF JobStates
<1>2. TypeOK'
  BY <1>1 DEF IInv, Types, TypeOK, IndexTypes, JobPhases
<1> QED BY <1>2 DEF IInv, Types

(* The index stays, and no document ceases to be replaced unharmed. *)
LEMMA LastKept ==
  ASSUME LastInv, UNCHANGED <<index, expected>>, harmed \subseteq harmed',
         \A k \in Jobs : job[k].phase = "upsert" =>
           \/ /\ job'[k].phase = "upsert" /\ job'[k].tenant = job[k].tenant
              /\ job'[k].doc = job[k].doc
           \/ <<job[k].tenant, job[k].doc>> \in harmed'
  PROVE  LastInv'
BY DEF LastInv, PointsOf

(* A call ends that has not deleted anything, or whose document is harmed.  *)
LEMMA EndStep ==
  ASSUME IInv, NEW j \in Jobs, NEW outcome \in Outcomes, End(j, outcome),
         UNCHANGED serviceVars, UNCHANGED <<index, expected>>,
         harmed \subseteq harmed',
         job[j].phase = "upsert" => <<job[j].tenant, job[j].doc>> \in harmed'
  PROVE  IInv'
<1>0. job \in [Jobs -> JobStates] /\ IndexTypes
  BY DEF IInv, Types, TypeOK, IndexTypes
<1>1. Ended(outcome) \in JobStates /\ Ended(outcome).phase = "ended"
  BY EndedTypes
<1>2. job' \in [Jobs -> JobStates] /\ job'[j].phase = "ended"
  BY <1>0, <1>1 DEF End
<1>3. \A k \in Jobs : k # j => job'[k] = job[k]
  BY <1>0 DEF End
<1>4. \A t, d : After(t, d) = PointsOf(t, d)
  BY DEF PointsOf, After
<1>5. Types'
  BY <1>0, <1>2, JobTypes DEF IndexTypes, IInv, Types
<1>6. LastInv'
  BY <1>2, <1>3 DEF IInv, LastInv, PointsOf
<1>7. ASSUME NEW k \in Jobs, k # j
      PROVE  JobInv(k)' /\ CleanInv(k)' /\ AloneInv(k)'
  <2>1. Sole(k) => Sole(k)'
    BY <1>2, <1>3, <1>7 DEF Sole
  <2>2. AloneAt(k) => AloneAt(k)'
    BY <1>2, <1>3, <1>7 DEF AloneAt
  <2>3. JobInv(k) /\ CleanInv(k) /\ AloneInv(k) /\ Same(k)
    BY <1>3, <1>7 DEF IInv, Same
  <2> QED BY <1>3, <1>4, <1>7, <2>1, <2>2, <2>3, JobKept DEF CleanInv, AloneInv
<1>8. JobInv(j)' /\ CleanInv(j)' /\ AloneInv(j)'
  BY <1>2, JobOver
<1> QED BY <1>5, <1>6, <1>7, <1>8 DEF IInv

LEMMA RefusalStep ==
  ASSUME IInv, NEW j \in Jobs, ReindexRefused(j) \/ CallLost(j)
  PROVE  IInv'
<1>1. CASE ReindexRefused(j)
  <2>1. /\ UNCHANGED serviceVars /\ UNCHANGED <<index, expected>> /\ harmed' = harmed
        /\ job[j].phase = "idle"
    BY <1>1 DEF ReindexRefused
  <2>2. PICK t \in Tenants :
          End(j, IF agent # "ready" THEN "503"
                 ELSE IF \A d \in Documents : catalog[t][d] = 0 THEN "404" ELSE "500")
    BY <1>1 DEF ReindexRefused
  <2>3. End(j, "503") \/ End(j, "404") \/ End(j, "500")
    BY <2>2
  <2> QED BY <2>1, <2>3, EndStep DEF Outcomes
<1>2. CASE CallLost(j)
  BY <1>2, EndStep DEF CallLost, Outcomes
<1> QED BY <1>1, <1>2

(* A step of j for which nothing changes in the index. *)
LEMMA StartStep ==
  ASSUME IInv, NEW j \in Jobs, StartReindex(j)
  PROVE  IInv'
<1>0. /\ job \in [Jobs -> JobStates] /\ IndexTypes
      /\ catalog \in [Tenants -> [Documents -> Versions]]
  BY DEF IInv, Types, TypeOK, IndexTypes
<1>1. /\ job[j].phase = "idle" /\ UNCHANGED serviceVars
      /\ UNCHANGED <<index, expected, harmed>>
  BY DEF StartReindex
<1>2. PICK t \in Tenants :
        job' = [k \in Jobs |->
            IF k = j THEN
              [phase |-> "choose", tenant |-> t, plan |-> catalog[t],
               todo |-> {d \in Documents : Chunks(t, d, catalog[t][d]) # {}}, doc |-> "none",
               next |-> 0, clean |-> FALSE, alone |-> AtWorkFor(t) = {}, outcome |-> "none"]
            ELSE IF k \in AtWorkFor(t) THEN [job[k] EXCEPT !.alone = FALSE]
            ELSE job[k]]
  BY DEF StartReindex
<1> DEFINE todo == {d \in Documents : Chunks(t, d, catalog[t][d]) # {}}
           free == AtWorkFor(t) = {}
<1>3. todo \in SUBSET Documents /\ free \in BOOLEAN
  OBVIOUS
<1>4. /\ free => \A k \in Jobs : k \notin AtWorkFor(t)
      /\ \A d \in Documents : d \in todo <=> Written(catalog[t][d])
  BY <1>0, ChunksFound
<1>5. \A k \in Jobs : k \in AtWorkFor(t) <=>
        job[k].tenant = t /\ job[k].phase \in {"choose", "delete", "upsert", "late"}
  BY DEF AtWorkFor, Running
<1>6. job'[j] = [phase |-> "choose", tenant |-> t, plan |-> catalog[t], todo |-> todo,
                 doc |-> "none", next |-> 0, clean |-> FALSE, alone |-> free,
                 outcome |-> "none"]
  BY <1>2
<1> HIDE DEF todo, free
<1>7. job'[j] \in JobStates
  BY <1>0, <1>3, <1>6 DEF JobStates, JobPhases, Outcomes
<1>8. /\ job'[j].phase = "choose" /\ job'[j].tenant = t /\ job'[j].plan = catalog[t]
      /\ job'[j].todo = todo /\ job'[j].alone = free
  BY <1>6
<1>9. ASSUME NEW k \in Jobs, k # j
      PROVE  /\ job'[k] = IF k \in AtWorkFor(t) THEN [job[k] EXCEPT !.alone = FALSE]
                          ELSE job[k]
             /\ job'[k] \in JobStates /\ Same(k) /\ job'[k].clean = job[k].clean
             /\ k \in AtWorkFor(t) => job'[k].alone = FALSE
             /\ job'[k].alone => job[k].alone
  <2>1. job[k] \in JobStates
    BY <1>0
  <2>2. job'[k] = IF k \in AtWorkFor(t) THEN [job[k] EXCEPT !.alone = FALSE] ELSE job[k]
    BY <1>2, <1>9
  <2> QED BY <2>1, <2>2 DEF JobStates, Same
<1>10. job' \in [Jobs -> JobStates]
  <2>1. \A k \in Jobs : job'[k] \in JobStates
    BY <1>7, <1>9
  <2> QED BY <1>2, <2>1
<1>11. Types'
  BY <1>0, <1>1, <1>10, JobTypes DEF IndexTypes, IInv, Types
<1>12. \A u, d : After(u, d) = PointsOf(u, d)
  BY <1>1 DEF After, PointsOf
<1>13. LastInv'
  BY <1>1, <1>9, LastKept DEF IInv, Same
<1>14. ASSUME NEW k \in Jobs, k # j
       PROVE  JobInv(k)' /\ CleanInv(k)' /\ AloneInv(k)'
  <2>1. Same(k) /\ JobInv(k) /\ CleanInv(k) /\ AloneInv(k)
    BY <1>9, <1>14 DEF IInv
  <2>2. Sole(k) => Sole(k)'
    BY <1>8, <1>9, <2>1 DEF Sole, Same
  <2>3. AloneAt(k) /\ job[k].phase \in {"choose", "delete", "upsert"} /\ job'[k].alone
          => AloneAt(k)'
    <3> SUFFICES ASSUME AloneAt(k), job[k].phase \in {"choose", "delete", "upsert"},
                        job'[k].alone, NEW i \in Jobs, i # k
                 PROVE  ~(/\ job'[i].tenant = job'[k].tenant
                          /\ job'[i].phase \in {"choose", "delete", "upsert", "late"})
      BY DEF AloneAt
    <3>1. job'[k].tenant = job[k].tenant /\ job[k].tenant # t
      BY <1>5, <1>9, <1>14, <2>1 DEF Same
    <3>2. CASE i = j
      BY <1>8, <3>1, <3>2
    <3>3. CASE i # j
      <4>1. job'[i].tenant = job[i].tenant /\ job'[i].phase = job[i].phase
        BY <1>9, <3>3 DEF Same
      <4> QED BY <3>1, <4>1 DEF AloneAt
    <3> QED BY <3>2, <3>3
  <2> QED BY <1>9, <1>12, <1>14, <2>1, <2>2, <2>3, JobKept DEF CleanInv, AloneInv
<1>15. JobInv(j)'
  BY <1>0, <1>3, <1>4, <1>8 DEF JobInv
<1>16. CleanInv(j)'
  BY <1>8 DEF CleanInv
<1>17. AloneInv(j)'
  <2>1. free => AloneAt(j)'
    BY <1>4, <1>5, <1>8, <1>9 DEF AloneAt, Same
  <2> QED BY <1>4, <1>8, <2>1 DEF AloneInv
<1> QED BY <1>11, <1>13, <1>14, <1>15, <1>16, <1>17 DEF IInv

LEMMA NextDocumentStep ==
  ASSUME IInv, NEW j \in Jobs, NextDocument(j)
  PROVE  IInv'
<1>0. /\ job \in [Jobs -> JobStates] /\ IndexTypes
      /\ JobInv(j) /\ AloneInv(j)
  BY DEF IInv, Types, TypeOK, IndexTypes
<1>1. /\ job[j].phase = "choose" /\ UNCHANGED serviceVars
      /\ UNCHANGED <<index, expected, harmed>>
  BY DEF NextDocument
<1>2. CASE End(j, "ok")
  BY <1>1, <1>2, EndStep DEF Outcomes
<1>3. ASSUME NEW d \in job[j].todo,
             job' = [job EXCEPT ![j].phase = "delete", ![j].doc = d, ![j].todo = @ \ {d}]
      PROVE  IInv'
  <2>1. d \in Documents /\ job[j].todo \subseteq Documents
    BY <1>0, <1>3 DEF JobStates
  <2>2. /\ job' \in [Jobs -> JobStates]
        /\ job'[j].phase = "delete" /\ job'[j].doc = d
        /\ job'[j].todo = job[j].todo \ {d}
        /\ job'[j].tenant = job[j].tenant /\ job'[j].plan = job[j].plan
        /\ job'[j].alone = job[j].alone
    BY <1>0, <1>3, <2>1 DEF JobStates, JobPhases
  <2>3. \A k \in Jobs : k # j => job'[k] = job[k]
    BY <1>0, <1>3
  <2>4. Types'
    BY <1>0, <1>1, <2>2, JobTypes DEF IndexTypes, IInv, Types
  <2>5. \A u, e : After(u, e) = PointsOf(u, e)
    BY <1>1 DEF After, PointsOf
  <2>6. LastInv'
    BY <1>1, <2>2, <2>3 DEF IInv, LastInv, PointsOf
  <2>7. ASSUME NEW k \in Jobs, k # j
        PROVE  JobInv(k)' /\ CleanInv(k)' /\ AloneInv(k)'
    <3>1. Same(k) /\ JobInv(k) /\ CleanInv(k) /\ AloneInv(k)
      BY <2>3, <2>7 DEF IInv, Same
    <3>2. Sole(k) => Sole(k)'
      BY <2>2, <2>3, <2>7 DEF Sole
    <3>3. AloneAt(k) => AloneAt(k)'
      BY <1>1, <2>2, <2>3, <2>7 DEF AloneAt
    <3> QED BY <2>3, <2>5, <2>7, <3>1, <3>2, <3>3, JobKept DEF CleanInv, AloneInv
  <2>8. JobInv(j)'
    BY <1>0, <1>1, <2>1, <2>2 DEF JobInv
  <2>9. CleanInv(j)'
    BY <2>2 DEF CleanInv
  <2>10. AloneInv(j)'
    <3>1. AloneAt(j) => AloneAt(j)'
      BY <2>2, <2>3 DEF AloneAt
    <3> QED BY <1>0, <1>1, <2>2, <3>1 DEF AloneInv, PointsOf
  <2> QED BY <2>4, <2>6, <2>7, <2>8, <2>9, <2>10 DEF IInv
<1> QED BY <1>2, <1>3 DEF NextDocument

(* The steps of j that change the index at its document and nowhere else.   *)
LEMMA OthersKept ==
  ASSUME IInv, NEW j \in Jobs, NEW k \in Jobs, k # j, Same(k),
         job[j].phase \in {"delete", "upsert", "late"},
         \/ job'[j].tenant = job[j].tenant /\ job'[j].doc = job[j].doc
         \/ job'[j].phase = "ended",
         \A i \in Jobs : i # j => Same(i),
         \A t, d : t # job[j].tenant \/ d # job[j].doc => After(t, d) = PointsOf(t, d),
         job'[k].clean => job[k].clean, job'[k].alone => job[k].alone,
         job[k].phase = "upsert" /\ job'[k].clean =>
           job[k].tenant # job[j].tenant \/ job[k].doc # job[j].doc
  PROVE  JobInv(k)' /\ CleanInv(k)' /\ AloneInv(k)'
<1>1. JobInv(k) /\ CleanInv(k) /\ AloneInv(k)
  BY DEF IInv
<1>2. job[k].phase = "upsert" /\ job'[k].clean =>
        Sole(k)' /\ After(job[k].tenant, job[k].doc) = PointsOf(job[k].tenant, job[k].doc)
  <2> SUFFICES ASSUME job[k].phase = "upsert", job'[k].clean
               PROVE  /\ Sole(k)'
                      /\ After(job[k].tenant, job[k].doc) = PointsOf(job[k].tenant, job[k].doc)
    OBVIOUS
  <2>1. Sole(k)
    BY <1>1 DEF CleanInv
  <2>2. Sole(k)'
    BY <2>1 DEF Sole, Same
  <2> QED BY <2>2
<1>3. job[k].phase \in {"choose", "delete", "upsert"} /\ job'[k].alone =>
        AloneAt(k)' /\ \A d : After(job[k].tenant, d) = PointsOf(job[k].tenant, d)
  <2> SUFFICES ASSUME job[k].phase \in {"choose", "delete", "upsert"}, job'[k].alone
               PROVE  /\ AloneAt(k)'
                      /\ \A d : After(job[k].tenant, d) = PointsOf(job[k].tenant, d)
    OBVIOUS
  <2>1. AloneAt(k)
    BY <1>1 DEF AloneInv
  <2>2. job[j].tenant # job[k].tenant
    BY <2>1 DEF AloneAt
  <2>3. AloneAt(k)'
    BY <2>1, <2>2 DEF AloneAt, Same
  <2> QED BY <2>2, <2>3
<1> QED BY <1>1, <1>2, <1>3, JobKept

LEMMA DeleteStep ==
  ASSUME IInv, NEW j \in Jobs, Delete(j)
  PROVE  IInv'
<1>0. /\ job \in [Jobs -> JobStates] /\ IndexTypes
      /\ JobInv(j) /\ AloneInv(j)
  BY DEF IInv, Types, TypeOK, IndexTypes
<1>a. PICK t, d : t = job[j].tenant /\ d = job[j].doc
  OBVIOUS
<1>b. PICK others : others = Replacing(t, d) \ {j}
  OBVIOUS
<1>c. PICK sole \in BOOLEAN : sole = (others = {})
  <2>1. (others = {}) \in BOOLEAN
    OBVIOUS
  <2> QED BY <2>1
<1>1. /\ job[j].phase = "delete" /\ UNCHANGED serviceVars
      /\ UNCHANGED <<expected, harmed>>
      /\ index' = {p \in index : ~DeleteSelects(p, t, d)}
      /\ job' = [k \in Jobs |->
           IF k = j THEN [job[k] EXCEPT !.phase = "upsert", !.next = 0, !.clean = sole]
           ELSE IF k \in others THEN [job[k] EXCEPT !.clean = FALSE]
           ELSE job[k]]
  BY <1>a, <1>b, <1>c, Zenon DEF Delete
<1>2. \A k \in Jobs : k # j =>
        (k \in others <=> job[k].phase = "upsert" /\ job[k].tenant = t /\ job[k].doc = d)
  BY <1>b DEF Replacing
<1>3. sole => \A k \in Jobs : k \notin others
  BY <1>c
<1>4. job'[j] = [job[j] EXCEPT !.phase = "upsert", !.next = 0, !.clean = sole]
  BY <1>1
<1>5. /\ job'[j] \in JobStates /\ job'[j].phase = "upsert" /\ job'[j].next = 0
      /\ job'[j].clean = sole /\ job'[j].alone = job[j].alone
      /\ job'[j].tenant = t /\ job'[j].doc = d /\ job'[j].plan = job[j].plan
      /\ job'[j].todo = job[j].todo
  <2>1. job[j] \in JobStates
    BY <1>0
  <2>2. /\ job[j].tenant \in Tenants \cup {"none"}
        /\ job[j].plan \in [Documents -> Versions] \cup {<<>>}
        /\ job[j].todo \in SUBSET Documents /\ job[j].doc \in Documents \cup {"none"}
        /\ job[j].alone \in BOOLEAN /\ job[j].outcome \in Outcomes
    BY <2>1 DEF JobStates
  <2>3. job'[j] = [phase |-> "upsert", tenant |-> job[j].tenant, plan |-> job[j].plan,
                   todo |-> job[j].todo, doc |-> job[j].doc, next |-> 0, clean |-> sole,
                   alone |-> job[j].alone, outcome |-> job[j].outcome]
    BY <1>4, <2>1 DEF JobStates
  <2> QED BY <1>a, <1>c, <2>2, <2>3 DEF JobStates, JobPhases
<1>6. ASSUME NEW k \in Jobs, k # j
      PROVE  /\ job'[k] \in JobStates /\ Same(k) /\ job'[k].alone = job[k].alone
             /\ job'[k].clean => job[k].clean /\ k \notin others
  <2>1. job[k] \in JobStates
    BY <1>0
  <2>2. job'[k] = IF k \in others THEN [job[k] EXCEPT !.clean = FALSE] ELSE job[k]
    BY <1>1, <1>6
  <2> QED BY <2>1, <2>2 DEF JobStates, Same
<1>7. job' \in [Jobs -> JobStates]
  <2>1. \A k \in Jobs : job'[k] \in JobStates
    BY <1>5, <1>6
  <2> QED BY <1>1, <2>1
<1>8. /\ After(t, d) = {} /\ IndexTypes'
      /\ \A t2, d2 : t2 # t \/ d2 # d => After(t2, d2) = PointsOf(t2, d2)
  <2>1. \A p : p \in index' <=> p \in index /\ ~DeleteSelects(p, t, d)
    BY <1>1
  <2> QED BY <1>0, <2>1, DeletePoints
<1>9. Types'
  BY <1>1, <1>7, <1>8, JobTypes DEF IInv, Types
<1>10. LastInv'
  <2> SUFFICES ASSUME NEW t2 \in Tenants, NEW d2 \in Documents, <<t2, d2>> \notin harmed',
                      \A k \in Jobs : ~(/\ job'[k].phase = "upsert"
                                        /\ job'[k].tenant = t2 /\ job'[k].doc = d2)
               PROVE  After(t2, d2) = Chunks(t2, d2, expected'[t2][d2])
    BY DEF LastInv, PointsOf, After
  <2>1. t2 # t \/ d2 # d
    BY <1>5
  <2>2. \A k \in Jobs : ~(/\ job[k].phase = "upsert"
                          /\ job[k].tenant = t2 /\ job[k].doc = d2)
    <3>1. job[j].phase # "upsert"
      BY <1>1
    <3>2. \A k \in Jobs : k # j => Same(k)
      BY <1>6
    <3> QED BY <3>1, <3>2 DEF Same
  <2> QED BY <1>1, <1>8, <2>1, <2>2 DEF IInv, LastInv
<1>11. ASSUME NEW k \in Jobs, k # j
       PROVE  JobInv(k)' /\ CleanInv(k)' /\ AloneInv(k)'
  <2>1. \A i \in Jobs : i # j => Same(i)
    BY <1>6
  <2>2. \A t2, d2 : t2 # job[j].tenant \/ d2 # job[j].doc => After(t2, d2) = PointsOf(t2, d2)
    BY <1>a, <1>8
  <2>3. /\ job'[k].clean => job[k].clean
        /\ job'[k].alone => job[k].alone
        /\ job[k].phase = "upsert" /\ job'[k].clean =>
             job[k].tenant # job[j].tenant \/ job[k].doc # job[j].doc
    BY <1>a, <1>2, <1>6, <1>11
  <2>4. job'[j].tenant = job[j].tenant /\ job'[j].doc = job[j].doc
    BY <1>a, <1>5
  <2> QED BY <1>1, <1>11, <2>1, <2>2, <2>3, <2>4, OthersKept
<1>12. JobInv(j)'
  <2>1. /\ t \in Tenants /\ d \in Documents /\ job[j].plan \in [Documents -> Versions]
        /\ Written(job[j].plan[d]) /\ \A e \in job[j].todo : Written(job[j].plan[e])
    BY <1>0, <1>a, <1>1 DEF JobInv
  <2> QED BY <1>5, <2>1 DEF JobInv, Written
<1>13. Begun(j)' = {}
  BY <1>5 DEF Begun, ChunksFrom
<1>14. CleanInv(j)'
  <2>1. sole => Sole(j)'
    BY <1>2, <1>3, <1>5, <1>6 DEF Sole, Same
  <2> QED BY <1>5, <1>8, <1>13, <2>1 DEF CleanInv, PointsOf, After
<1>15. AloneInv(j)'
  <2> SUFFICES ASSUME job'[j].alone
               PROVE  /\ AloneAt(j)' /\ After(t, d) = Begun(j)'
                      /\ \A e \in Documents :
                           Written(job[j].plan[e]) /\ e \notin job[j].todo /\ e # d
                             => After(t, e) = Chunks(t, e, job[j].plan[e])
    BY <1>5 DEF AloneInv, PointsOf, After
  <2>1. /\ AloneAt(j)
        /\ \A e \in Documents :
             Written(job[j].plan[e]) /\ e \notin job[j].todo /\ e # d
               => PointsOf(t, e) = Chunks(t, e, job[j].plan[e])
    BY <1>0, <1>a, <1>1, <1>5 DEF AloneInv
  <2>2. AloneAt(j)'
    BY <1>a, <1>5, <1>6, <2>1 DEF AloneAt, Same
  <2>3. \A e : e # d => After(t, e) = PointsOf(t, e)
    BY <1>8
  <2> QED BY <1>8, <1>13, <2>1, <2>2, <2>3
<1> QED BY <1>9, <1>10, <1>11, <1>12, <1>14, <1>15 DEF IInv

(* The batch of a job: from what it has upserted on, to the end or not. *)
LEMMA BatchIs ==
  ASSUME NEW j \in Jobs, job[j] \in JobStates, NEW t, t = job[j].tenant,
         NEW d, d = job[j].doc, NEW v, v = job[j].plan[d],
         NEW n, n = job[j].next, v \in Versions, Written(v)
  PROVE  /\ Size[v] \in Nat /\ n \in Nat
         /\ \E m \in Nat :
              /\ m = IF n + BatchSize <= Size[v] THEN n + BatchSize ELSE Size[v]
              /\ Batch(j) = ChunksFrom(t, d, v, n, m - 1)
<1>1. Size[v] \in Nat /\ n \in Nat /\ BatchSize \in Nat
  BY ChunksFound, KnowledgeAssumption DEF JobStates
<1>2. Min({n + BatchSize, Size[v]}) =
        IF n + BatchSize <= Size[v] THEN n + BatchSize ELSE Size[v]
  BY <1>1, MinOfTwo
<1>3. Min({n + BatchSize, Size[v]}) \in Nat
  BY <1>1, <1>2
<1>4. Batch(j) = ChunksFrom(t, d, v, n, Min({n + BatchSize, Size[v]}) - 1)
  BY DEF Batch
<1> QED BY <1>1, <1>2, <1>3, <1>4

LEMMA UpsertStep ==
  ASSUME IInv, NEW j \in Jobs, Upsert(j)
  PROVE  IInv'
<1>0. /\ job \in [Jobs -> JobStates] /\ IndexTypes /\ job[j] \in JobStates
      /\ JobInv(j) /\ CleanInv(j) /\ AloneInv(j)
  BY DEF IInv, Types, TypeOK, IndexTypes
<1>a. PICK t, d, n : t = job[j].tenant /\ d = job[j].doc /\ n = job[j].next
  OBVIOUS
<1>b. PICK v : v = job[j].plan[d]
  OBVIOUS
<1>1. /\ job[j].phase = "upsert" /\ UNCHANGED serviceVars
      /\ index' = Upserted(Batch(j))
      /\ IF n + BatchSize >= Size[v]
           THEN /\ job' = [job EXCEPT ![j].phase = "choose"]
                /\ expected' = [expected EXCEPT ![t][d] = v]
                /\ harmed' = IF job[j].clean THEN harmed \ {<<t, d>>}
                                             ELSE harmed \cup {<<t, d>>}
           ELSE /\ job' = [job EXCEPT ![j].next = @ + BatchSize]
                /\ UNCHANGED <<expected, harmed>>
  BY <1>a, <1>b DEF Upsert, LastBatch
<1>2. /\ t \in Tenants /\ d \in Documents /\ v \in Versions /\ Written(v) /\ n < Size[v]
      /\ job[j].plan \in [Documents -> Versions]
      /\ \A e \in job[j].todo : Written(job[j].plan[e])
  BY <1>0, <1>a, <1>b, <1>1 DEF JobInv
<1>3. Size[v] \in Nat /\ n \in Nat /\ BatchSize \in Nat
  BY <1>0, <1>a, <1>2, ChunksFound, KnowledgeAssumption DEF JobStates
<1>4. PICK m \in Nat :
        /\ m = IF n + BatchSize <= Size[v] THEN n + BatchSize ELSE Size[v]
        /\ Batch(j) = ChunksFrom(t, d, v, n, m - 1)
  BY <1>0, <1>a, <1>b, <1>2, BatchIs
<1>5. n <= m /\ index' = Upserted(ChunksFrom(t, d, v, n, m - 1))
  BY <1>1, <1>2, <1>3, <1>4
<1>6. /\ IndexTypes'
      /\ \A t2, d2 : t2 # t \/ d2 # d => After(t2, d2) = PointsOf(t2, d2)
  BY <1>0, <1>2, <1>3, <1>4, <1>5, UpsertTypes, UpsertElsewhere
<1>7. PointsOf(t, d) = ChunksFrom(t, d, v, 0, n - 1)
        => After(t, d) = ChunksFrom(t, d, v, 0, m - 1)
  BY <1>3, <1>4, <1>5, UpsertContinues
<1>8. /\ job'[j] \in JobStates /\ job'[j].tenant = t /\ job'[j].doc = d
      /\ job'[j].plan = job[j].plan /\ job'[j].todo = job[j].todo
      /\ job'[j].clean = job[j].clean /\ job'[j].alone = job[j].alone
      /\ \/ n + BatchSize >= Size[v] /\ job'[j].phase = "choose" /\ m = Size[v]
         \/ ~(n + BatchSize >= Size[v]) /\ job'[j].phase = "upsert"
              /\ job'[j].next = m /\ m < Size[v]
  <2>1. CASE n + BatchSize >= Size[v]
    BY <1>0, <1>a, <1>1, <1>3, <1>4, <2>1 DEF JobStates, JobPhases
  <2>2. CASE ~(n + BatchSize >= Size[v])
    BY <1>0, <1>a, <1>1, <1>3, <1>4, <2>2 DEF JobStates, JobPhases
  <2> QED BY <2>1, <2>2
<1>9. \A k \in Jobs : k # j => job'[k] = job[k]
  BY <1>0, <1>1
<1>10. job' \in [Jobs -> JobStates]
  BY <1>0, <1>1, <1>8, <1>9
<1>c. /\ expected' \in [Tenants -> [Documents -> Versions]]
      /\ \A t2 \in Tenants, d2 \in Documents :
           t2 # t \/ d2 # d => expected'[t2][d2] = expected[t2][d2]
      /\ n + BatchSize >= Size[v] => expected'[t][d] = v
  <2>1. expected \in [Tenants -> [Documents -> Versions]]
    BY DEF IInv, Types
  <2>2. CASE n + BatchSize >= Size[v]
    <3>1. expected' = [expected EXCEPT ![t] = [expected[t] EXCEPT ![d] = v]]
      BY <1>1, <2>1, <2>2
    <3>2. expected[t] \in [Documents -> Versions]
      BY <1>2, <2>1
    <3> QED BY <1>2, <2>1, <3>1, <3>2
  <2>3. CASE ~(n + BatchSize >= Size[v])
    BY <1>1, <2>1, <2>3
  <2> QED BY <2>2, <2>3
<1>11. Types'
  BY <1>1, <1>6, <1>10, <1>c, JobTypes
<1>12. ASSUME NEW k \in Jobs, k # j
       PROVE  JobInv(k)' /\ CleanInv(k)' /\ AloneInv(k)'
  <2>1. \A i \in Jobs : i # j => Same(i)
    BY <1>9 DEF Same
  <2>2. \A t2, d2 : t2 # job[j].tenant \/ d2 # job[j].doc => After(t2, d2) = PointsOf(t2, d2)
    BY <1>a, <1>6
  <2>3. CleanInv(k) => /\ job'[k].clean => job[k].clean
                       /\ job'[k].alone => job[k].alone
                       /\ job[k].phase = "upsert" /\ job'[k].clean =>
                            job[k].tenant # job[j].tenant \/ job[k].doc # job[j].doc
    BY <1>1, <1>9, <1>12 DEF CleanInv, Sole
  <2>4. job'[j].tenant = job[j].tenant /\ job'[j].doc = job[j].doc
    BY <1>a, <1>8
  <2>5. CleanInv(k)
    BY DEF IInv
  <2> QED BY <1>1, <1>12, <2>1, <2>2, <2>3, <2>4, <2>5, OthersKept
<1>13. JobInv(j)'
  BY <1>2, <1>b, <1>8 DEF JobInv, Written
<1>14. CleanInv(j)'
  <2> SUFFICES ASSUME job'[j].phase = "upsert", job[j].clean
               PROVE  Sole(j)' /\ After(t, d) = ChunksFrom(t, d, v, 0, m - 1)
    BY <1>b, <1>8 DEF CleanInv, Begun, PointsOf, After
  <2>1. Sole(j) /\ PointsOf(t, d) = ChunksFrom(t, d, v, 0, n - 1)
    BY <1>0, <1>a, <1>b, <1>1 DEF CleanInv, Begun
  <2>2. Sole(j)'
    BY <1>a, <1>8, <1>9, <2>1 DEF Sole
  <2> QED BY <1>7, <2>1, <2>2
<1>15. AloneInv(j)'
  <2> SUFFICES ASSUME job[j].alone
               PROVE  /\ AloneAt(j)' /\ After(t, d) = ChunksFrom(t, d, v, 0, m - 1)
                      /\ \A e \in Documents :
                           Written(job[j].plan[e]) /\ e \notin job[j].todo /\ e # d
                             => After(t, e) = Chunks(t, e, job[j].plan[e])
    <3>1. m = Size[v] => Chunks(t, d, v) = ChunksFrom(t, d, v, 0, m - 1)
      BY <1>2, ChunksFound
    <3> QED BY <1>b, <1>8, <3>1 DEF AloneInv, Begun, PointsOf, After
  <2>1. /\ AloneAt(j) /\ PointsOf(t, d) = ChunksFrom(t, d, v, 0, n - 1)
        /\ \A e \in Documents :
             Written(job[j].plan[e]) /\ e \notin job[j].todo /\ e # d
               => PointsOf(t, e) = Chunks(t, e, job[j].plan[e])
    BY <1>0, <1>a, <1>b, <1>1 DEF AloneInv, Begun
  <2>2. AloneAt(j)'
    BY <1>a, <1>8, <1>9, <2>1 DEF AloneAt
  <2>3. \A e : e # d => After(t, e) = PointsOf(t, e)
    BY <1>6
  <2> QED BY <1>7, <2>1, <2>2, <2>3
<1>16. LastInv'
  <2> SUFFICES ASSUME NEW t2 \in Tenants, NEW d2 \in Documents, <<t2, d2>> \notin harmed',
                      \A k \in Jobs : ~(/\ job'[k].phase = "upsert"
                                        /\ job'[k].tenant = t2 /\ job'[k].doc = d2)
               PROVE  After(t2, d2) = Chunks(t2, d2, expected'[t2][d2])
    BY DEF LastInv, PointsOf, After
  <2>1. CASE t2 # t \/ d2 # d
    <3>1. <<t2, d2>> \notin harmed
      BY <1>1, <2>1
    <3>2. expected'[t2][d2] = expected[t2][d2]
      BY <1>c, <2>1
    <3>3. \A k \in Jobs : ~(/\ job[k].phase = "upsert"
                            /\ job[k].tenant = t2 /\ job[k].doc = d2)
      BY <1>a, <1>9, <2>1
    <3> QED BY <1>6, <2>1, <3>1, <3>2, <3>3 DEF IInv, LastInv
  <2>2. CASE t2 = t /\ d2 = d
    <3>1. n + BatchSize >= Size[v] /\ m = Size[v]
      BY <1>8, <2>2
    <3>2. job[j].clean
      BY <1>1, <2>2, <3>1
    <3>3. PointsOf(t, d) = ChunksFrom(t, d, v, 0, n - 1)
      BY <1>0, <1>a, <1>b, <1>1, <3>2 DEF CleanInv, Begun
    <3>4. Chunks(t, d, v) = ChunksFrom(t, d, v, 0, m - 1)
      BY <1>2, <3>1, ChunksFound
    <3>5. expected'[t][d] = v
      BY <1>c, <3>1
    <3> QED BY <1>7, <2>2, <3>3, <3>4, <3>5
  <2> QED BY <2>1, <2>2
<1> QED BY <1>11, <1>12, <1>13, <1>14, <1>15, <1>16 DEF IInv

LEMMA CallFailsStep ==
  ASSUME IInv, NEW j \in Jobs, CallFails(j)
  PROVE  IInv'
<1>0. /\ job \in [Jobs -> JobStates] /\ IndexTypes /\ job[j] \in JobStates /\ JobInv(j)
  BY DEF IInv, Types, TypeOK, IndexTypes
<1>1. /\ job[j].phase \in {"delete", "upsert"} /\ UNCHANGED serviceVars
      /\ UNCHANGED <<index, expected>> /\ harmed \subseteq harmed'
      /\ job[j].phase = "upsert" => <<job[j].tenant, job[j].doc>> \in harmed'
  BY DEF CallFails
<1>2. CASE End(j, "500")
  BY <1>1, <1>2, EndStep DEF Outcomes
<1>3. CASE job' = [job EXCEPT ![j].phase = "late", ![j].outcome = job[j].phase]
  <2>1. /\ job' \in [Jobs -> JobStates]
        /\ job'[j].phase = "late" /\ job'[j].tenant = job[j].tenant
        /\ job'[j].plan = job[j].plan /\ job'[j].todo = job[j].todo
        /\ job'[j].doc = job[j].doc
    <3>1. job[j].phase \in Outcomes
      BY <1>1 DEF Outcomes
    <3> QED BY <1>0, <1>3, <3>1 DEF JobStates, JobPhases
  <2>2. \A k \in Jobs : k # j => job'[k] = job[k]
    BY <1>0, <1>3
  <2>3. Types'
    BY <1>0, <1>1, <2>1, JobTypes DEF IndexTypes, IInv, Types
  <2>4. LastInv'
    BY <1>1, <2>2, LastKept DEF IInv
  <2>5. \A t, d : After(t, d) = PointsOf(t, d)
    BY <1>1 DEF After, PointsOf
  <2>6. ASSUME NEW k \in Jobs, k # j
        PROVE  JobInv(k)' /\ CleanInv(k)' /\ AloneInv(k)'
    <3>1. Same(k) /\ JobInv(k) /\ CleanInv(k) /\ AloneInv(k)
      BY <2>2, <2>6 DEF IInv, Same
    <3>2. Sole(k) => Sole(k)'
      BY <2>1, <2>2, <2>6 DEF Sole
    <3>3. AloneAt(k) => AloneAt(k)'
      BY <1>1, <2>1, <2>2, <2>6 DEF AloneAt
    <3> QED BY <2>2, <2>5, <2>6, <3>1, <3>2, <3>3, JobKept DEF CleanInv, AloneInv
  <2>7. JobInv(j)'
    BY <1>0, <1>1, <2>1 DEF JobInv, Written
  <2>8. CleanInv(j)' /\ AloneInv(j)'
    BY <2>1 DEF CleanInv, AloneInv
  <2> QED BY <2>3, <2>4, <2>6, <2>7, <2>8 DEF IInv
<1> QED BY <1>2, <1>3 DEF CallFails

LEMMA LateCallStep ==
  ASSUME IInv, NEW j \in Jobs, LateCall(j)
  PROVE  IInv'
<1>0. /\ job \in [Jobs -> JobStates] /\ IndexTypes /\ job[j] \in JobStates /\ JobInv(j)
  BY DEF IInv, Types, TypeOK, IndexTypes
<1>a. PICK t, d : t = job[j].tenant /\ d = job[j].doc
  OBVIOUS
<1>1. /\ job[j].phase = "late" /\ UNCHANGED serviceVars /\ UNCHANGED expected
      /\ \/ index' = {p \in index : ~DeleteSelects(p, t, d)}
         \/ index' = Upserted(Batch(j))
      /\ job' = [k \in Jobs |->
           IF k = j THEN Ended("500")
           ELSE IF k \in Replacing(t, d) THEN [job[k] EXCEPT !.clean = FALSE]
           ELSE job[k]]
      /\ harmed' = harmed \cup {<<t, d>>}
  BY <1>a DEF LateCall
<1>2. \A k \in Jobs :
        k \in Replacing(t, d) <=> job[k].phase = "upsert" /\ job[k].tenant = t /\ job[k].doc = d
  BY DEF Replacing
<1>b. PICK v : v = job[j].plan[d]
  OBVIOUS
<1>3. t \in Tenants /\ d \in Documents /\ v \in Versions /\ Written(v)
  BY <1>0, <1>a, <1>b, <1>1 DEF JobInv
<1>4. /\ IndexTypes'
      /\ \A t2, d2 : t2 # t \/ d2 # d => After(t2, d2) = PointsOf(t2, d2)
  <2>1. CASE index' = {p \in index : ~DeleteSelects(p, t, d)}
    <3>1. \A p : p \in index' <=> p \in index /\ ~DeleteSelects(p, t, d)
      BY <2>1
    <3> QED BY <1>0, <3>1, DeletePoints
  <2>2. CASE index' = Upserted(Batch(j))
    <3>a. PICK n : n = job[j].next
      OBVIOUS
    <3>1. n \in Nat
      BY <1>0, <1>a, <1>b, <1>3, <3>a, BatchIs
    <3>2. PICK m \in Nat : Batch(j) = ChunksFrom(t, d, v, n, m - 1)
      BY <1>0, <1>a, <1>b, <1>3, <3>a, BatchIs
    <3>3. index' = Upserted(ChunksFrom(t, d, v, n, m - 1)) /\ m - 1 \in Int
      BY <2>2, <3>2
    <3> QED BY <1>0, <1>3, <3>1, <3>3, UpsertTypes, UpsertElsewhere
  <2> QED BY <1>1, <2>1, <2>2
<1>5. job'[j] \in JobStates /\ job'[j].phase = "ended"
  <2>1. "500" \in Outcomes
    BY DEF Outcomes
  <2> QED BY <1>1, <2>1, EndedTypes
<1>6. ASSUME NEW k \in Jobs, k # j
      PROVE  /\ job'[k] \in JobStates /\ Same(k) /\ job'[k].alone = job[k].alone
             /\ job'[k].clean => job[k].clean /\ k \notin Replacing(t, d)
  <2>1. job[k] \in JobStates
    BY <1>0
  <2>2. job'[k] = IF k \in Replacing(t, d) THEN [job[k] EXCEPT !.clean = FALSE] ELSE job[k]
    BY <1>1, <1>6
  <2> QED BY <2>1, <2>2 DEF JobStates, Same
<1>7. job' \in [Jobs -> JobStates]
  <2>1. \A k \in Jobs : job'[k] \in JobStates
    BY <1>5, <1>6
  <2> QED BY <1>1, <2>1
<1>8. Types'
  BY <1>1, <1>4, <1>7, JobTypes DEF IInv, Types
<1>9. LastInv'
  <2> SUFFICES ASSUME NEW t2 \in Tenants, NEW d2 \in Documents, <<t2, d2>> \notin harmed',
                      \A k \in Jobs : ~(/\ job'[k].phase = "upsert"
                                        /\ job'[k].tenant = t2 /\ job'[k].doc = d2)
               PROVE  After(t2, d2) = Chunks(t2, d2, expected'[t2][d2])
    BY DEF LastInv, PointsOf, After
  <2>1. (t2 # t \/ d2 # d) /\ <<t2, d2>> \notin harmed
    BY <1>1
  <2>2. \A k \in Jobs : ~(/\ job[k].phase = "upsert"
                          /\ job[k].tenant = t2 /\ job[k].doc = d2)
    <3>1. job[j].phase # "upsert"
      BY <1>1
    <3>2. \A k \in Jobs : k # j => Same(k)
      BY <1>6
    <3> QED BY <3>1, <3>2 DEF Same
  <2> QED BY <1>1, <1>4, <2>1, <2>2 DEF IInv, LastInv
<1>10. ASSUME NEW k \in Jobs, k # j
       PROVE  JobInv(k)' /\ CleanInv(k)' /\ AloneInv(k)'
  <2>1. \A i \in Jobs : i # j => Same(i)
    BY <1>6
  <2>2. \A t2, d2 : t2 # job[j].tenant \/ d2 # job[j].doc => After(t2, d2) = PointsOf(t2, d2)
    BY <1>a, <1>4
  <2>3. /\ job'[k].clean => job[k].clean
        /\ job'[k].alone => job[k].alone
        /\ job[k].phase = "upsert" /\ job'[k].clean =>
             job[k].tenant # job[j].tenant \/ job[k].doc # job[j].doc
    BY <1>a, <1>2, <1>6, <1>10
  <2> QED BY <1>1, <1>5, <1>10, <2>1, <2>2, <2>3, OthersKept
<1>11. JobInv(j)' /\ CleanInv(j)' /\ AloneInv(j)'
  BY <1>5, JobOver
<1> QED BY <1>8, <1>9, <1>10, <1>11 DEF IInv

(* The process dies: nothing is at work, and what was is harmed. *)
LEMMA CrashStep ==
  ASSUME IInv, Crash
  PROVE  IInv'
<1>0. /\ job \in [Jobs -> JobStates] /\ IndexTypes
  BY DEF IInv, Types, TypeOK, IndexTypes
<1>1. /\ agent' = "off" /\ availability' = "DOWN"
      /\ UNCHANGED <<collection, catalog, published, index, expected>>
      /\ job' = [j \in Jobs |->
           IF job[j].phase \in {"delete", "upsert"}
             THEN [job[j] EXCEPT !.phase = "late", !.outcome = job[j].phase]
             ELSE IF Running(j) THEN Ended("lost")
             ELSE job[j]]
      /\ harmed \subseteq harmed'
      /\ \A j \in Jobs : job[j].phase = "upsert" => <<job[j].tenant, job[j].doc>> \in harmed'
  BY DEF Crash
<1>2. ASSUME NEW j \in Jobs
      PROVE  /\ job'[j] \in JobStates
             /\ job'[j].phase \in {"idle", "late", "ended"}
             /\ JobInv(j)' /\ CleanInv(j)' /\ AloneInv(j)'
  <2>0. job[j] \in JobStates /\ JobInv(j)
    BY <1>0 DEF IInv
  <2>1. CASE job[j].phase \in {"delete", "upsert"}
    <3>1. job'[j] = [job[j] EXCEPT !.phase = "late", !.outcome = job[j].phase]
      BY <1>1, <2>1
    <3>2. job[j].phase \in Outcomes
      BY <2>1 DEF Outcomes
    <3>3. /\ job'[j] \in JobStates /\ job'[j].phase = "late"
          /\ job'[j].tenant = job[j].tenant /\ job'[j].plan = job[j].plan
          /\ job'[j].todo = job[j].todo /\ job'[j].doc = job[j].doc
      BY <2>0, <3>1, <3>2 DEF JobStates, JobPhases
    <3>4. JobInv(j)'
      BY <2>0, <2>1, <3>3 DEF JobInv, Written
    <3> QED BY <3>3, <3>4 DEF CleanInv, AloneInv
  <2>2. CASE job[j].phase = "choose"
    <3>1. job'[j] = Ended("lost")
      BY <1>1, <2>2 DEF Running
    <3>2. "lost" \in Outcomes
      BY DEF Outcomes
    <3>3. job'[j] \in JobStates /\ job'[j].phase = "ended"
      BY <3>1, <3>2, EndedTypes
    <3> QED BY <3>3, JobOver
  <2>3. CASE job[j].phase \in {"idle", "late", "ended"}
    <3>1. job'[j] = job[j]
      BY <1>1, <2>3 DEF Running
    <3>2. JobInv(j)'
      BY <2>0, <2>3, <3>1 DEF JobInv
    <3> QED BY <2>0, <2>3, <3>1, <3>2 DEF CleanInv, AloneInv
  <2> QED BY <2>0, <2>1, <2>2, <2>3 DEF JobStates, JobPhases
<1>3. job' \in [Jobs -> JobStates]
  BY <1>1, <1>2
<1>4. Types'
  BY <1>1, <1>2, <1>3 DEF IInv, Types, TypeOK
<1>5. LastInv'
  BY <1>1, LastKept DEF IInv
<1> QED BY <1>2, <1>4, <1>5 DEF IInv

LEMMA NextIInv == IInv /\ [Next]_vars => IInv'
<1> SUFFICES ASSUME IInv, [Next]_vars PROVE IInv'
  OBVIOUS
<1>1. CASE UNCHANGED vars
  BY <1>1, ServiceOnly DEF vars, serviceVars, jobVars, IInv, Types, TypeOK
<1>2. ASSUME NEW j \in Jobs,
             ReindexRefused(j) \/ StartReindex(j) \/ JobStep(j) \/ LateCall(j) \/ CallLost(j)
      PROVE  IInv'
  BY <1>2, RefusalStep, StartStep, NextDocumentStep, DeleteStep, UpsertStep,
     CallFailsStep, LateCallStep DEF JobStep
<1> QED BY <1>1, <1>2, ServiceSteps, CrashStep DEF Next

(* The invariant holds in every reachable state. *)
THEOREM IndexInvariance == Spec => []IInv
BY IndexInit, NextIInv, PTL DEF Spec

(* Every variable has its type, and no point is in the collection twice.    *)
THEOREM IndexTypeCorrect == Spec => []TypeOK
<1>1. IInv => TypeOK
  BY DEF IInv, Types
<1> QED BY <1>1, IndexInvariance, PTL

(* A document that no replacement has harmed holds the chunks of its last   *)
(* replacement, whatever other reindexes, failures and late calls did.      *)
THEOREM IndexesAreLastReplacements == Spec => []IndexIsLastReplacement
<1>1. IInv => IndexIsLastReplacement
  BY DEF IInv, LastInv, IndexIsLastReplacement, Replacing
<1> QED BY <1>1, IndexInvariance, PTL

(* A reindex answers 200 only by finding no group left. *)
LEMMA OnlyEmptyIsOk ==
  ASSUME IInv, Next, NEW j \in Jobs, job[j].outcome # "ok", job'[j].outcome = "ok"
  PROVE  NextDocument(j) /\ job[j].phase = "choose" /\ job[j].todo = {}
<1>0. job \in [Jobs -> JobStates]
  BY DEF IInv, Types
<1>1. \A k \in Jobs : \A outcome : End(k, outcome) =>
        /\ k # j => job'[j] = job[j]
        /\ k = j => job'[j].outcome = outcome
  BY <1>0 DEF End, Ended, NoJob
<1>2. ASSUME StartWithKnowledge \/ StartDegraded \/ StartDisabled \/ StartFails
             \/ SearchSucceeds \/ SearchUnavailable \/ (\E t \in Tenants : Publish(t))
      PROVE  FALSE
  <2>1. job' = job
    BY <1>2 DEF StartWithKnowledge, StartDegraded, StartDisabled, StartFails, Started,
       SearchSucceeds, SearchUnavailable, Publish, jobVars
  <2> QED BY <2>1
<1>3. ASSUME Crash
      PROVE  FALSE
  <2>1. job'[j] = IF job[j].phase \in {"delete", "upsert"}
                    THEN [job[j] EXCEPT !.phase = "late", !.outcome = job[j].phase]
                    ELSE IF Running(j) THEN Ended("lost") ELSE job[j]
    BY <1>3 DEF Crash
  <2>2. job[j] \in JobStates
    BY <1>0
  <2> QED BY <2>1, <2>2 DEF Ended, NoJob, JobStates
<1>4. ASSUME NEW k \in Jobs, ReindexRefused(k)
      PROVE  FALSE
  <2>1. PICK t \in Tenants :
          End(k, IF agent # "ready" THEN "503"
                 ELSE IF \A d \in Documents : catalog[t][d] = 0 THEN "404" ELSE "500")
    BY <1>4 DEF ReindexRefused
  <2>2. End(k, "503") \/ End(k, "404") \/ End(k, "500")
    BY <2>1
  <2> QED BY <1>1, <2>2
<1>5. ASSUME NEW k \in Jobs, StartReindex(k)
      PROVE  FALSE
  <2>1. \/ job'[j].outcome = "none"
        \/ job'[j] = [job[j] EXCEPT !.alone = FALSE]
        \/ job'[j] = job[j]
    BY <1>5 DEF StartReindex
  <2> QED BY <1>0, <2>1 DEF JobStates
<1>6. ASSUME NEW k \in Jobs, Delete(k)
      PROVE  FALSE
  <2>1. job'[j].outcome = job[j].outcome
    <3>1. PICK others : job' = [i \in Jobs |->
            IF i = k THEN [job[i] EXCEPT !.phase = "upsert", !.next = 0, !.clean = others = {}]
            ELSE IF i \in others THEN [job[i] EXCEPT !.clean = FALSE]
            ELSE job[i]]
      BY <1>6 DEF Delete
    <3>2. job[j] \in JobStates
      BY <1>0
    <3>3. PICK sole \in BOOLEAN : sole = (others = {})
      OBVIOUS
    <3>4. job'[j] = IF j = k THEN [job[j] EXCEPT !.phase = "upsert", !.next = 0, !.clean = sole]
                    ELSE IF j \in others THEN [job[j] EXCEPT !.clean = FALSE]
                    ELSE job[j]
      BY <3>1, <3>3
    <3> QED BY <3>2, <3>4 DEF JobStates
  <2> QED BY <2>1
<1>7. ASSUME NEW k \in Jobs, Upsert(k)
      PROVE  FALSE
  <2>1. \/ job' = [job EXCEPT ![k].phase = "choose"]
        \/ job' = [job EXCEPT ![k].next = @ + BatchSize]
    BY <1>7 DEF Upsert
  <2> QED BY <1>0, <2>1 DEF JobStates
<1>8. ASSUME NEW k \in Jobs, CallFails(k)
      PROVE  FALSE
  <2>1. job[k].phase # "ok"
    BY <1>8 DEF CallFails
  <2>2. End(k, "500") \/ job' = [job EXCEPT ![k].phase = "late", ![k].outcome = job[k].phase]
    BY <1>8 DEF CallFails
  <2> QED BY <1>0, <1>1, <2>1, <2>2 DEF JobStates
<1>9. ASSUME NEW k \in Jobs, LateCall(k)
      PROVE  FALSE
  <2>1. \/ job'[j] = Ended("500")
        \/ job'[j] = [job[j] EXCEPT !.clean = FALSE]
        \/ job'[j] = job[j]
    BY <1>9 DEF LateCall
  <2> QED BY <1>0, <2>1 DEF Ended, NoJob, JobStates
<1>10. ASSUME NEW k \in Jobs, CallLost(k)
       PROVE  FALSE
  BY <1>1, <1>10 DEF CallLost
<1>11. ASSUME NEW k \in Jobs, NextDocument(k)
       PROVE  k = j /\ job[j].phase = "choose" /\ job[j].todo = {}
  <2>1. \/ \E d \in job[k].todo :
             job' = [job EXCEPT ![k].phase = "delete", ![k].doc = d, ![k].todo = @ \ {d}]
        \/ job[k].todo = {} /\ End(k, "ok")
    BY <1>11 DEF NextDocument
  <2>2. CASE \E d \in job[k].todo :
             job' = [job EXCEPT ![k].phase = "delete", ![k].doc = d, ![k].todo = @ \ {d}]
    BY <1>0, <2>2 DEF JobStates
  <2>3. CASE job[k].todo = {} /\ End(k, "ok")
    <3>1. k = j
      BY <1>1, <2>3
    <3> QED BY <1>11, <2>3, <3>1 DEF NextDocument
  <2> QED BY <2>1, <2>2, <2>3
<1> QED
  BY <1>2, <1>3, <1>4, <1>5, <1>6, <1>7, <1>8, <1>9, <1>10, <1>11 DEF Next, JobStep

(* A reindex that had its tenant to itself leaves the catalogue it loaded.  *)
THEOREM ReindexesAreExact == Spec => ReindexIsExact
<1> DEFINE Exact ==
      \A j \in Jobs, t \in Tenants :
        /\ job[j].tenant = t /\ job[j].alone
        /\ job[j].outcome # "ok" /\ job'[j].outcome = "ok"
        => \A d \in Documents :
             LET chunks == Chunks(t, d, job[j].plan[d]) IN
             chunks # {} => PointsOf(t, d)' = chunks
<1>1. IInv /\ [Next]_vars => [Exact]_vars
  <2> SUFFICES ASSUME IInv, Next,
                      NEW j \in Jobs, job[j].alone,
                      job[j].outcome # "ok", job'[j].outcome = "ok",
                      NEW d \in Documents,
                      Chunks(job[j].tenant, d, job[j].plan[d]) # {}
               PROVE  After(job[j].tenant, d) = Chunks(job[j].tenant, d, job[j].plan[d])
    BY DEF After, PointsOf
  <2>0. job \in [Jobs -> JobStates] /\ JobInv(j) /\ AloneInv(j)
    BY DEF IInv, Types
  <2>1. NextDocument(j) /\ job[j].todo = {} /\ job[j].phase = "choose"
    BY OnlyEmptyIsOk
  <2>2. UNCHANGED index
    BY <2>1 DEF NextDocument
  <2>3. Written(job[j].plan[d])
    BY <2>0, <2>1, ChunksFound DEF JobInv
  <2> QED BY <2>0, <2>1, <2>2, <2>3 DEF AloneInv, After, PointsOf
<1> QED BY <1>1, IndexInvariance, PTL DEF Spec, ReindexIsExact
=============================================================================
