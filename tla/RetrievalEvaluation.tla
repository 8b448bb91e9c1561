------------------------ MODULE RetrievalEvaluation ------------------------
(***************************************************************************)
(* The comparison of retrieval pipelines: each answers the same questions  *)
(* over the same index several times.  The first repetition is judged by   *)
(* the sources each case expects, all of them give the latencies.          *)
(***************************************************************************)
EXTENDS Integers, Sequences, FiniteSets, SequencesExt

CONSTANTS
  Questions,   \* the cases, in the order of the file
  Collection,  \* the chunks a retriever may return
  RagTopK,     \* chunks it returns at most
  Pipelines,   \* how many pipelines are compared
  Repetitions,
  Latencies,   \* values a measurement may have, in some unit
  NoSection    \* section_title None

ASSUME RetrievalAssumption ==
  /\ Pipelines \in Nat \ {0} /\ Repetitions \in Nat \ {0} /\ RagTopK \in Nat \ {0}
  /\ Questions \in Seq(ToSet(Questions))
  /\ \A q \in ToSet(Questions) : q.expected \in Seq(ToSet(q.expected))
  /\ \E q \in ToSet(Questions) : q.expected # <<>>
  /\ Latencies \subseteq Int

VARIABLES
  stage,      \* what the script does next
  judged,     \* the results of the pipeline at work
  samples,    \* its latencies
  summaries   \* of the pipelines that are done

retrievalVars == <<stage, judged, samples, summaries>>

RetrievalInit ==
  /\ stage = "open" /\ judged = <<>> /\ samples = <<>> /\ summaries = <<>>

-----------------------------------------------------------------------------
(* The judgement of one retrieval. *)

(* matches_expected_source *)
Matches(chunk, source) ==
  /\ chunk.document = source.document
  /\ source.section \in {NoSection, chunk.section}
  /\ source.words \subseteq chunk.words

(* The loop of evaluate_retrieval_case over the chunks: each is counted for *)
(* the first expected source it matches that no earlier chunk was counted   *)
(* for; counted[i] is the rank counted for source i, 0 for none.            *)
CountChunk_ForAll(counted, question, chunk, rank) ==
  [i \in DOMAIN counted |->
     IF counted[i] = 0 /\ Matches(chunk, question.expected[i]) THEN rank ELSE counted[i]]

CountChunk(counted, question, chunk, rank) ==
  LET open == {i \in DOMAIN counted : counted[i] = 0 /\ Matches(chunk, question.expected[i])}
  IN [i \in DOMAIN counted |->
        IF i \in open /\ \A k \in open : i <= k THEN rank ELSE counted[i]]

Counted(question, chunks) ==
  LET none == [i \in DOMAIN question.expected |-> 0]
      after[n \in 0..Len(chunks)] ==
        IF n = 0 THEN none ELSE CountChunk(after[n - 1], question, chunks[n], n)
  IN after[Len(chunks)]

(* relevant_ranks, as a set of pairs <<source, rank>>. *)
RelevantRanks(question, chunks) ==
  LET counted == Counted(question, chunks) IN
  {<<i, counted[i]>> : i \in {k \in DOMAIN counted : counted[k] # 0}}

Ranks(relevant) == {pair[2] : pair \in relevant}

(* History: the rank of the first chunk that any expected source matches.   *)
FirstMatch(question, chunks) ==
  LET matching == {n \in DOMAIN chunks :
                     \E i \in DOMAIN question.expected : Matches(chunks[n], question.expected[i])}
  IN IF matching = {} THEN 0 ELSE Min(matching)

(* evaluate_retrieval_case; a question that expects nothing has no sources. *)
Judge(question, chunks) ==
  LET relevant == RelevantRanks(question, chunks)
      leaked == Cardinality({i \in DOMAIN chunks : chunks[i].tenant # question.tenant})
      empty == question.expected = <<>>
  IN
  [empty |-> empty, relevant |-> relevant, leaked |-> leaked,
   ideal |-> Min({Len(question.expected), Len(chunks)}),
   passed |-> leaked = 0 /\ IF empty THEN chunks = <<>> ELSE relevant # {},
   first |-> FirstMatch(question, chunks)]

-----------------------------------------------------------------------------
(* The summary of a pipeline. *)

Hits(results) ==
  Cardinality({k \in DOMAIN results : \E n \in Ranks(results[k].relevant) : n <= RagTopK})

PercentileRank_Floor(n, percent) == Max({(percent * n) \div 100, 1})

(* percentile: the place of the nearest rank, ceil(percent * n / 100). *)
PercentileRank(n, percent) == Max({(percent * n + 99) \div 100, 1})

(* The place of the ith value in sorted(values), which is stable.           *)
SortedPlace(values, i) ==
  Cardinality({k \in DOMAIN values :
                 values[k] < values[i] \/ (values[k] = values[i] /\ k <= i)})

Percentile(values, percent) ==
  values[CHOOSE i \in DOMAIN values :
           SortedPlace(values, i) = PercentileRank(Len(values), percent)]

(* summarize_retrieval_results and the latency part of evaluate_pipeline. *)
Summary ==
  [questions |-> Len(judged), sampled |-> Len(samples),
   passed |-> Cardinality({k \in DOMAIN judged : judged[k].passed}),
   positive |-> Cardinality({k \in DOMAIN judged : ~judged[k].empty}),
   hits |-> Hits(judged),
   p95 |-> Percentile(samples, 95), worst |-> Max(ToSet(samples))]

-----------------------------------------------------------------------------
(* run_evaluation *)

Retrievals ==
  {s \in UNION {[1..n -> Collection] : n \in 0..RagTopK} : IsInjective(s)}

(* Settings, models and vector store; then the reindexing, if asked for. *)
OpenResources ==
  /\ stage = "open"
  /\ stage' \in {"reindex", "warmup", "failed"}
  /\ UNCHANGED <<judged, samples, summaries>>

(* reindex_all_catalogs: there is a catalogue, and all are ingested. *)
ReindexAll ==
  /\ stage = "reindex"
  /\ stage' \in {"warmup", "closing"}
  /\ UNCHANGED <<judged, samples, summaries>>

(* One retrieval before the measurement, which is not counted. *)
WarmUp ==
  /\ stage = "warmup"
  /\ stage' = "measure"
  /\ UNCHANGED <<judged, samples, summaries>>

(* One question of one repetition; the pipeline's results with the last.    *)
Measure ==
  LET n == Len(samples)
      question == Questions[(n % Len(Questions)) + 1]
  IN
  /\ stage = "measure" /\ n < Repetitions * Len(Questions)
  /\ \E chunks \in Retrievals, latency \in Latencies :
       /\ samples' = Append(samples, latency)
       /\ judged' = IF n < Len(Questions)
                      THEN Append(judged, Judge(question, chunks)) ELSE judged
  /\ UNCHANGED <<stage, summaries>>

EndPipeline ==
  /\ stage = "measure" /\ Len(samples) = Repetitions * Len(Questions)
  /\ summaries' = Append(summaries, Summary)
  /\ stage' = IF Len(summaries) + 1 = Pipelines THEN "closing" ELSE "warmup"
  /\ judged' = <<>> /\ samples' = <<>>

(* A retrieval fails: the store is closed all the same, no report is made.  *)
RetrievalFails ==
  /\ stage \in {"warmup", "measure"}
  /\ stage' = "closing"
  /\ UNCHANGED <<judged, samples, summaries>>

(* The finally block. *)
CloseStore ==
  /\ stage = "closing"
  /\ stage' = IF Len(summaries) = Pipelines THEN "reported" ELSE "failed"
  /\ UNCHANGED <<judged, samples, summaries>>

RetrievalNext ==
  \/ OpenResources \/ ReindexAll \/ WarmUp \/ Measure \/ EndPipeline
  \/ RetrievalFails \/ CloseStore

-----------------------------------------------------------------------------
(* The gain of a result is at most that of the ideal ranking: its ranks are *)
(* all different and no more than an ideal ranking has.  The first of them  *)
(* is the rank of the first chunk that matches any expected source.         *)
RanksAreSound ==
  \A k \in DOMAIN judged :
    LET result == judged[k]
        ranks == Ranks(result.relevant)
    IN
    /\ Cardinality(ranks) = Cardinality(result.relevant)
    /\ Cardinality(ranks) <= result.ideal
    /\ result.first = IF ranks = {} THEN 0 ELSE Min(ranks)

(* A pipeline is judged on one result per question and timed on every       *)
(* repetition of every question; a question that passed is a hit; of the    *)
(* samples, at least p in 100 are not above the pth percentile, and fewer   *)
(* than p in 100 are below it.                                              *)
ReportIsSound ==
  /\ \A k \in DOMAIN summaries :
       LET s == summaries[k] IN
       /\ s.questions = Len(Questions) /\ s.sampled = Repetitions * Len(Questions)
       /\ s.passed <= s.hits + (s.questions - s.positive) /\ s.hits <= s.positive
       /\ s.p95 <= s.worst
  /\ samples # <<>> =>
       \A p \in {50, 75, 95} :
         LET n == Len(samples)
             value == Percentile(samples, p)
         IN
         /\ Cardinality({k \in DOMAIN samples : samples[k] <= value}) * 100 >= p * n
         /\ Cardinality({k \in DOMAIN samples : samples[k] < value}) * 100 < p * n
=============================================================================
