-------------------------- MODULE KnowledgeIndex --------------------------
(***************************************************************************)
(* The knowledge index of the agent service: reindexing of a tenant's      *)
(* catalogue into one Qdrant collection that all tenants share, and the    *)
(* retrieval of chunks for a question.  A reindex replaces document after  *)
(* document by a delete and an upsert in batches; reindexes run in a       *)
(* thread pool, overlap, fail between any two calls and die with the       *)
(* process, and a call whose caller saw an error may still run.            *)
(***************************************************************************)
EXTENDS Integers, Sequences, FiniteSets, SequencesExt

CONSTANTS
  Tenants, Documents,
  MaxVersion,   \* versions of a document are 1..MaxVersion
  Size,         \* Size[v]: number of chunks of a document of version v
  BatchSize,    \* chunks the vector store upserts in one call
  Jobs,         \* calls of POST /knowledge/reindex
  CandidateK,   \* points a search asks for
  TopK,         \* chunks an answer may cite
  Scores,       \* the scores a reranker may give
  MaxPublished  \* bound on changes of a catalogue

ASSUME KnowledgeAssumption ==
  /\ MaxVersion \in Nat \ {0} /\ Size \in [1..MaxVersion -> Nat]
  /\ BatchSize \in Nat \ {0}
  /\ TopK \in Nat \ {0} /\ CandidateK \in Nat /\ TopK <= CandidateK
ASSUME ScoresAssumption == Scores \subseteq Int

VARIABLES
  agent,         \* the agent service, and whether it started with Qdrant
  availability,  \* RagAvailability.status
  collection,    \* the layout of the Qdrant collection
  catalog,       \* catalog[t][d]: version of d in t's catalogue, 0: not in it
  published,     \* how often a catalogue was changed
  index,         \* the points of the collection
  job,           \* job[j]: the state of reindex j
  expected,      \* history: expected[t][d] is the version last replaced whole
  harmed         \* history: <<t, d>> whose last replacement was disturbed

vars == <<agent, availability, collection, catalog, published,
          index, job, expected, harmed>>

serviceVars == <<agent, availability, collection, catalog, published>>

jobVars == <<job, index, expected, harmed>>

Versions == 0..MaxVersion

Points == [tenant : Tenants, document : Documents, chunk : Nat, version : Versions]

ChunksFrom(t, d, v, low, high) ==
  {[tenant |-> t, document |-> d, chunk |-> i, version |-> v] : i \in low..high}

(* load_and_split_catalog: the chunks of version v, numbered from 0. *)
Chunks(t, d, v) ==
  IF v = 0 THEN {} ELSE ChunksFrom(t, d, v, 0, Size[v] - 1)

PointsOf(t, d) == {p \in index : p.tenant = t /\ p.document = d}

DeleteSelects_AnyTenant(p, t, d) == p.document = d

(* The filter of the delete in replace_document. *)
DeleteSelects(p, t, d) == p.tenant = t /\ p.document = d

(* build_chunk_id: what makes two points the same. *)
SameId(p, q) ==
  p.tenant = q.tenant /\ p.document = q.document /\ p.chunk = q.chunk

Upserted_Appends(points) == index \cup points

Upserted(points) == {p \in index : \A q \in points : ~SameId(p, q)} \cup points

-----------------------------------------------------------------------------
NoJob(phase, outcome) ==
  [phase |-> phase, tenant |-> "none", plan |-> <<>>, todo |-> {}, doc |-> "none",
   next |-> 0, clean |-> FALSE, alone |-> FALSE, outcome |-> outcome]

Init ==
  /\ agent = "off"
  /\ availability = "DOWN"
  /\ collection \in {"missing", "hybrid", "legacy"}
  /\ catalog \in [Tenants -> [Documents -> {0, 1}]]
  /\ published = 0
  /\ index = {}
  /\ job = [j \in Jobs |-> NoJob("idle", "none")]
  /\ expected = [t \in Tenants |-> [d \in Documents |-> 0]]
  /\ harmed = {}

-----------------------------------------------------------------------------
(* Start-up: lifespan, create_vector_store_resources, ensure_collection. *)

Started(state, status) ==
  /\ agent \in {"off", "failed"}
  /\ agent' = state
  /\ availability' = status
  /\ UNCHANGED <<catalog, published, jobVars>>

StartWithKnowledge ==
  /\ collection # "legacy"
  /\ collection' = "hybrid"
  /\ Started("ready", "UP")

(* Qdrant cannot be reached: the service starts without its retriever. *)
StartDegraded == Started("degraded", "DOWN") /\ UNCHANGED collection

StartDisabled == Started("disabled", "DISABLED") /\ UNCHANGED collection

(* CollectionConfigurationError, or a response that is no outage: no start. *)
StartFails == Started("failed", "DOWN") /\ UNCHANGED collection

-----------------------------------------------------------------------------
(* Reindexing. *)

Running(j) == job[j].phase \in {"delete", "upsert", "choose"}

Ended(outcome) == NoJob("ended", outcome)

End(j, outcome) == job' = [job EXCEPT ![j] = Ended(outcome)]

(* Jobs that run, or have a call that may still run, for tenant t. *)
AtWorkFor(t) == {k \in Jobs : job[k].tenant = t /\ (Running(k) \/ job[k].phase = "late")}

(* The route refuses: 503 without the service, 404 without a catalogue; a   *)
(* catalogue that cannot be loaded is a 500 before anything is deleted.     *)
ReindexRefused(j) ==
  /\ agent \in {"ready", "degraded", "disabled"}
  /\ job[j].phase = "idle"
  /\ \E t \in Tenants :
       End(j, IF agent # "ready" THEN "503"
              ELSE IF \A d \in Documents : catalog[t][d] = 0 THEN "404" ELSE "500")
  /\ UNCHANGED <<serviceVars, index, expected, harmed>>

(* ingest_catalog loads the whole catalogue; a document without chunks has  *)
(* no group and is not replaced.                                            *)
StartReindex(j) ==
  /\ agent = "ready" /\ job[j].phase = "idle"
  /\ \E t \in Tenants :
       LET others == AtWorkFor(t)
           plan == catalog[t]
       IN
       /\ \E d \in Documents : plan[d] # 0
       /\ job' = [k \in Jobs |->
            IF k = j THEN
              [phase |-> "choose", tenant |-> t, plan |-> plan,
               todo |-> {d \in Documents : Chunks(t, d, plan[d]) # {}}, doc |-> "none",
               next |-> 0, clean |-> FALSE, alone |-> others = {}, outcome |-> "none"]
            ELSE IF k \in others THEN [job[k] EXCEPT !.alone = FALSE]
            ELSE job[k]]
  /\ UNCHANGED <<serviceVars, index, expected, harmed>>

(* The next group, or the result of the call. *)
NextDocument(j) ==
  /\ job[j].phase = "choose"
  /\ \/ \E d \in job[j].todo :
          job' = [job EXCEPT ![j].phase = "delete", ![j].doc = d, ![j].todo = @ \ {d}]
     \/ job[j].todo = {} /\ End(j, "ok")
  /\ UNCHANGED <<serviceVars, index, expected, harmed>>

(* Jobs that have deleted the document and not yet upserted its last chunk. *)
Replacing(t, d) ==
  {k \in Jobs : job[k].phase = "upsert" /\ job[k].tenant = t /\ job[k].doc = d}

Delete(j) ==
  LET t == job[j].tenant
      d == job[j].doc
      others == Replacing(t, d) \ {j}
  IN
  /\ job[j].phase = "delete"
  /\ index' = {p \in index : ~DeleteSelects(p, t, d)}
  /\ job' = [k \in Jobs |->
       IF k = j THEN [job[k] EXCEPT !.phase = "upsert", !.next = 0, !.clean = others = {}]
       ELSE IF k \in others THEN [job[k] EXCEPT !.clean = FALSE]
       ELSE job[k]]
  /\ UNCHANGED <<serviceVars, expected, harmed>>

Batch(j) ==
  LET v == job[j].plan[job[j].doc] IN
  ChunksFrom(job[j].tenant, job[j].doc, v, job[j].next,
             Min({job[j].next + BatchSize, Size[v]}) - 1)

LastBatch_First(j) == TRUE

LastBatch(j) == job[j].next + BatchSize >= Size[job[j].plan[job[j].doc]]

(* add_documents upserts a batch; with the last one the document is whole.  *)
Upsert(j) ==
  LET t == job[j].tenant
      d == job[j].doc
  IN
  /\ job[j].phase = "upsert"
  /\ index' = Upserted(Batch(j))
  /\ IF LastBatch(j)
       THEN /\ job' = [job EXCEPT ![j].phase = "choose"]
            /\ expected' = [expected EXCEPT ![t][d] = job[j].plan[d]]
            /\ harmed' = IF job[j].clean THEN harmed \ {<<t, d>>}
                                         ELSE harmed \cup {<<t, d>>}
       ELSE /\ job' = [job EXCEPT ![j].next = @ + BatchSize]
            /\ UNCHANGED <<expected, harmed>>
  /\ UNCHANGED serviceVars

(* A call fails, or the embedding before an upsert: the reindex ends with   *)
(* 500, and the call may still run.                                         *)
CallFails(j) ==
  LET pair == <<job[j].tenant, job[j].doc>> IN
  /\ job[j].phase \in {"delete", "upsert"}
  /\ \/ End(j, "500")
     \/ job' = [job EXCEPT ![j].phase = "late", ![j].outcome = job[j].phase]
  /\ harmed' = IF job[j].phase = "upsert" THEN harmed \cup {pair} ELSE harmed
  /\ UNCHANGED <<serviceVars, index, expected>>

(* The call of a failed reindex runs after all, between steps of others. *)
LateCall(j) ==
  LET t == job[j].tenant
      d == job[j].doc
  IN
  /\ job[j].phase = "late"
  /\ index' = IF job[j].outcome = "delete"
                THEN {p \in index : ~DeleteSelects(p, t, d)}
                ELSE Upserted(Batch(j))
  /\ job' = [k \in Jobs |->
       IF k = j THEN Ended("500")
       ELSE IF k \in Replacing(t, d) THEN [job[k] EXCEPT !.clean = FALSE]
       ELSE job[k]]
  /\ harmed' = harmed \cup {<<t, d>>}
  /\ UNCHANGED <<serviceVars, expected>>

CallLost(j) ==
  /\ job[j].phase = "late"
  /\ End(j, "500")
  /\ UNCHANGED <<serviceVars, index, expected, harmed>>

-----------------------------------------------------------------------------
(* Retrieval.  An answer depends on one search and on nothing later, so it  *)
(* is a function of the index; the actions are what else a search changes.  *)

(* The points the tenant filter of the search lets through. *)
Searched(t) == {p \in index : p.tenant = t}

(* Hybrid search ranks the points in some order and gives the first k. *)
Rankings(points, k) ==
  LET n == Min({k, Cardinality(points)}) IN
  {s \in [1..n -> points] : IsInjective(s)}

RerankPlace_Ascending(scores, i) ==
  1 + Cardinality({k \in DOMAIN scores :
        scores[k] < scores[i] \/ (scores[k] = scores[i] /\ k < i)})

(* Where the stable descending sort by score puts candidate i. *)
RerankPlace(scores, i) ==
  1 + Cardinality({k \in DOMAIN scores :
        scores[k] > scores[i] \/ (scores[k] = scores[i] /\ k < i)})

Reranked(candidates, scores) ==
  [n \in DOMAIN candidates |->
     candidates[CHOOSE i \in DOMAIN candidates : RerankPlace(scores, i) = n]]

(* The chunks cited, by reference number: the first TopK of the candidates, *)
(* which a reranker, if one is configured, has ordered anew.                *)
Cited(candidates, reranker, scores) ==
  LET ranked == IF reranker THEN Reranked(candidates, scores) ELSE candidates
  IN SubSeq(ranked, 1, Min({TopK, Len(ranked)}))

SearchSucceeds ==
  /\ agent = "ready"
  /\ availability' = "UP"
  /\ UNCHANGED <<agent, collection, catalog, published, jobVars>>

(* KnowledgeStoreUnavailableError: the node gives the fixed answer, as it   *)
(* does when there is no retriever.                                         *)
SearchUnavailable ==
  /\ agent = "ready"
  /\ availability' = "DOWN"
  /\ UNCHANGED <<agent, collection, catalog, published, jobVars>>

-----------------------------------------------------------------------------
(* The environment. *)

(* Someone edits the catalogue or the documents of a tenant. *)
Publish(t) ==
  /\ published < MaxPublished
  /\ published' = published + 1
  /\ \E d \in Documents, v \in Versions :
       catalog' = [catalog EXCEPT ![t][d] = v]
  /\ UNCHANGED <<agent, availability, collection, jobVars>>

(* The process dies; what its last calls asked of Qdrant may still happen.  *)
Crash ==
  LET cut == {j \in Jobs : job[j].phase = "upsert"} IN
  /\ agent \in {"ready", "degraded", "disabled"}
  /\ agent' = "off" /\ availability' = "DOWN"
  /\ job' = [j \in Jobs |->
       IF job[j].phase \in {"delete", "upsert"}
         THEN [job[j] EXCEPT !.phase = "late", !.outcome = job[j].phase]
         ELSE IF Running(j) THEN Ended("lost")
         ELSE job[j]]
  /\ harmed' = harmed \cup {<<job[j].tenant, job[j].doc>> : j \in cut}
  /\ UNCHANGED <<collection, catalog, published, index, expected>>

JobStep(j) == NextDocument(j) \/ Delete(j) \/ Upsert(j) \/ CallFails(j)

Next ==
  \/ StartWithKnowledge \/ StartDegraded \/ StartDisabled \/ StartFails
  \/ \E j \in Jobs : ReindexRefused(j) \/ StartReindex(j) \/ JobStep(j)
  \/ \E j \in Jobs : LateCall(j) \/ CallLost(j)
  \/ SearchSucceeds \/ SearchUnavailable
  \/ \E t \in Tenants : Publish(t)
  \/ Crash

Spec == Init /\ [][Next]_vars

-----------------------------------------------------------------------------
(* Every variable has its type; a point is there once.                      *)
TypeOK ==
  /\ agent \in {"off", "failed", "ready", "degraded", "disabled"}
  /\ availability \in {"UP", "DOWN", "DISABLED"}
  /\ agent = "ready" => collection = "hybrid"
  /\ agent \in {"degraded", "disabled"} => availability # "UP"
  /\ index \subseteq Points
  /\ \A p, q \in index : SameId(p, q) => p = q
  /\ \A j \in Jobs : job[j].phase \in
       {"idle", "choose", "delete", "upsert", "late", "ended"}

(* The chunks of a document are those of the version it was last replaced   *)
(* by, all of them and no other version's, except while it is replaced and  *)
(* after a replacement that failed, was cut off or ran into another one.    *)
(* The other tenants' documents of the same id are not concerned.           *)
IndexIsLastReplacement ==
  \A t \in Tenants, d \in Documents :
    <<t, d>> \notin harmed /\ Replacing(t, d) = {}
      => PointsOf(t, d) = Chunks(t, d, expected[t][d])

(* A reindex that answers 200 and had its tenant to itself leaves exactly   *)
(* the catalogue it loaded, whatever failed, late or overlapping reindexes  *)
(* left there before; documents without chunks stay as they were.           *)
ReindexIsExact ==
  [][\A j \in Jobs, t \in Tenants :
       /\ job[j].tenant = t /\ job[j].alone
       /\ job[j].outcome # "ok" /\ job'[j].outcome = "ok"
       => \A d \in Documents :
            LET chunks == Chunks(t, d, job[j].plan[d]) IN
            chunks # {} => PointsOf(t, d)' = chunks
    ]_vars

(* An answer cites chunks of the asking tenant only, each once, the best of *)
(* what the search gave: by descending score, equal scores in the order of  *)
(* the search, and no better candidate left out.                            *)
AnswerIsBestOfTenant ==
  \A t \in Tenants : \A c \in Rankings(Searched(t), CandidateK) :
    /\ \A n \in DOMAIN c : c[n].tenant = t
    /\ Cited(c, FALSE, <<>>) = SubSeq(c, 1, Min({TopK, Len(c)}))
    /\ \A s \in [DOMAIN c -> Scores] :
         LET cited == Cited(c, TRUE, s)
             at(n) == CHOOSE i \in DOMAIN c : c[i] = cited[n]
         IN
         /\ Len(cited) = Min({TopK, Len(c)}) /\ IsInjective(cited)
         /\ \A n \in DOMAIN cited, i \in DOMAIN c :
              s[i] > s[at(n)] \/ (s[i] = s[at(n)] /\ i < at(n))
                => \E m \in 1..(n - 1) : cited[m] = c[i]
=============================================================================
