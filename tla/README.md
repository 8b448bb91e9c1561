# Verification of Enterprise-Support-Agent

TLA+ models of the support agent (`agent-service`, Python) and of the order service
behind it (`business-service`, Java), checked by TLC on small instances; their safety
is proved by TLAPS for all instances. Paths below are relative to the repository;
`agent_service/` stands for `agent-service/src/agent_service/` and `business/` for
`business-service/src/main/java/com/mirs/agent/business/`.

## 1. The system

| Component | State it keeps | Operations | Where it is hard |
| --- | --- | --- | --- |
| Refund endpoint (`business/order`) | MySQL `customer_orders.status`; Redis record per (tenant, user, Idempotency-Key) | claim, transaction, complete, release | a TTL that ends while a request runs; commands that fail for their caller and run later; commit followed by a crash |
| Order cache and client (`agent_service/integrations/business_service`) | Redis entry per (tenant, user, order) | `get_order` (read, GET with retries, fill), `request_refund` (one POST, delete) | a fill that races the refund; a delete that fails; a refund that raises |
| Support agent graph (`agent_service/graph`, `services/support_agent.py`) | one PostgreSQL checkpoint per thread: history, active order, state of the graph | chat, chat stream, resume | nothing serialises calls of one thread; check-then-resume; failed nodes; crashes around the pause |
| Conversation threads (`services/conversation_thread.py`) | PostgreSQL `agent_threads` | create, resolve to a checkpoint key | ownership only |
| Chat rate limiter (`services/rate_limiter.py`) | Redis counter per (tenant, user), availability | check | TTL repair, window edge, scripts that run after their call failed |
| Agent API: event streams (`api/streaming.py`), relay (`business/agent`), HTTP surface | the connection | encode, relay, answer with a status | exactly one end, errors after the 200 is sent, clients that leave, crashes |
| Request correlation (`business/common/observability`, `core/request_context.py`) | per-request flags | servlet filter, async listener, middleware | completion logged once through two asynchronous cycles |
| Knowledge index (`agent_service/rag`, `services/knowledge_ingestion.py`) | Qdrant points per (tenant, document, chunk) | reindex, retrieve, rerank | delete-then-upsert is not atomic; concurrent reindexing; calls that run late |
| Start-up (`core/lifespan.py`) | which resources there are | start, with or without Qdrant | degraded start |
| Evaluation (`agent_service/evaluation`, `scripts/evaluate_*.py`) | records of runs, report, exit code | live suite, controlled suite, comparison of retrievers | malformed streams, aborts, greedy matching, percentiles |
| Language models, embeddings, infrastructure | - | external | - |

They interact by calls only. A browser reaches the business service, which
relays chats and resumes to the agent service; the agent's graph reads orders and
posts refunds back to the business service, through the cache. State is shared
through three stores: MySQL (orders), Redis (idempotency records, cache entries,
counters) and PostgreSQL (checkpoints, threads); Qdrant holds the chunks of all
tenants in one collection. A refund crosses everything:

    chat -> analyze_intent -> query_order (cache, GET) -> interrupt, checkpoint
    resume -> checkpoint -> submit_refund -> POST -> claim, UPDATE, complete
           -> delete cache entry -> save_turn, checkpoint -> reply

What makes each part correct: an order is refunded at most once, whatever is retried,
and every reply about it is true (endpoint); what is shown as refunded is, and
staleness ends (cache); no refund without an approval, no claim of a refund that did
not happen, no lost approval, the right history and active order (agent); a status
and the end of a stream say what really became of a request, it is recorded once, and
the limiter neither admits too much nor shuts a user out for ever (agent API); a
document is whole and of one version unless its replacement was disturbed, and an
answer cites only the asking tenant (knowledge index); a green exit code is deserved
(evaluation). The hazards behind these are listed, with their lines, in
`PROJECT.json`.

## 2. Modules

| Module | Models |
| --- | --- |
| `OrderDomain` | orders, statuses, the refundable ones, requests, replies and error codes of the endpoint |
| `RefundService` | abstract specification: an order moves to REFUNDING in one step, at most once, and every reply is true |
| `RefundIdempotency` | `RefundIdempotencyService.execute` around `OrderService.requestRefund`; refines `RefundService` |
| `RefundIdempotencyProofs` | theorems about it |
| `OrderCache` | `CachedOrderService` over `BusinessServiceClient`, for one order |
| `OrderCacheProofs` | theorems about it |
| `GraphRouting` | the nodes of the graph and the functions of `graph/routing.py` |
| `SupportAgent` | the graph, `SupportAgentService` and the checkpoint of one thread |
| `SupportAgentProofs`, `ApprovalProofs` | theorems about it |
| `AgentApi` | requests, statuses and error codes the two services have in common |
| `RequestCorrelation` | `RequestCorrelationFilter` and its async listener |
| `AgentStream` | a request inside the agent service: handler, SSE encoder, middleware |
| `ChatRateLimiter` | the Redis script, its three outcomes, time |
| `ChatGateway` | composes the last three with the thread table, the relay of `AgentController`, the client |
| `ChatGatewayProofs` | theorems about it |
| `KnowledgeIndex` | start-up, reindexing, retrieval and reranking over one collection |
| `KnowledgeIndexProofs`, `RetrievalProofs` | theorems about it |
| `LiveEvaluation`, `ControlledEvaluation`, `RetrievalEvaluation` | the three evaluation scripts |
| `Evaluation` | the scripts beside each other, as processes |
| `EvaluationProofs` | theorems about it |
| `MC...` | instances for TLC |

### RefundIdempotency

`record[s]` is the Redis value of scope `s` (principal and key), `status[o]` the
column in MySQL. A request's `pc` names its next call: `claim` (CLAIM_SCRIPT),
`execute` (the transaction), `complete` or `release` (the other two scripts).
The scripts are operators, because the same script also runs late:
`late[r]` is a command whose caller saw a `DataAccessException` and which may
still reach Redis (`LateScript`) or not (`ScriptLost`). The UPDATE, the SELECT
and the COMMIT are one action, since the row lock keeps others out;
`DatabaseFails` also covers a commit whose acknowledgement is lost. `Expire` may
happen at any time, so no relation is assumed between the TTL and the length of a
request. The JSON of a PROCESSING record holds only the fingerprint: two requests
of one scope and order write the same value, and the model keeps that.
Undecodable records (`readRecord`) are left out: only this class writes the key.

### OrderCache

One order key, as the entries of others are independent. The status is SHIPPED
or REFUNDING; `job[w]` is what the business service does with the POST of `w`,
before or after its caller stopped waiting. `late` holds commands that failed for
their caller and may still run. `lapses` is a history variable: the ways in which
staleness may come about. An undecodable entry, which no version of the writer
produces, is left out.

### SupportAgent

Each node of `graph/builder.py` is an action; `local[c].next` is the next node,
computed by the functions of `graph/routing.py` (`GraphRouting`, which the controlled
evaluation uses, too). The model's answer is any `IntentAnalysis` of a given set. A
run works on its own copy of the state (`local`); after each node LangGraph makes a
checkpoint and writes it in the background (`unsaved`, `Persist`); the latest
checkpoint is the one made last, not the one written last; a run waits for its own
before it returns (`Finish`). PostgreSQL may fail to take one, or what is saved
beside it, at any time (`PersistFails`): the run goes on, and where it would have
ended with a result its caller gets an unhandled 500 instead (`lost`, `Finish`). The
checkpoint a resume looks at may be unreadable, too (`ReadFails`). These facts about
LangGraph 1.2 (default durability) and its PostgreSQL saver are the external part of
the module. An interrupt is noted on the checkpoint the run is at, unless that note
is lost. A resume checks for an interrupt (`CheckPending`), then continues from
whatever is the latest checkpoint (`Resume`); the decision serves the first node of
the run only (`fresh`). When `submit_refund` raises, the checkpoint stays behind the
decision, without an interrupt. The business service is reduced to what it may answer
(`Accepts`, `Refuses`, or an unknown outcome). Texts are reduced to their kind; the
streamed tokens are left out.

### ChatGateway

One request goes through both services. `servlet[r]` is where it is in the business
service: waiting for the agent service (first asynchronous cycle), relaying a stream
(second cycle, to which `onStartAsync` takes the listener over), about to be ended by
the container, over. `serving[r]` is the step of its handler in the agent service:
limiter, thread, graph for a stream, graph for a decision (`resume`), the `done`
behind a result, over, dead. `sent[r]` are the events the encoder has yielded,
`relayed[r]` how many of them the client was sent; what lies between is lost when the
agent service dies. `reply[r]` is the status that was sent, 200 for good once a
stream has begun. `graph[r]` says that a run of the graph has begun and how it ended,
which is what events and statuses are compared with; the graph itself is
`SupportAgent`. What a resume may answer after its run is `ResumeOutcomes`: the 404,
409, 502, 503 and 504 that its nodes raise, and the 500 of everything without a
handler.

The limiter counts in the seconds of EXPIRE: `Tick` is one second, `count` and
`ttl` are the key, `recent` the admissions of the last window, a history. A key
may start without a TTL, which the script repairs. `CheckFails` leaves the script
behind (`lateEval`), and `LateEval` runs it. Other chats of the same user use the
same key (`OtherChat`). The container may time out any first cycle, a client may
leave, PostgreSQL may fail, the agent service may die at any time and with all
that it serves.

### KnowledgeIndex

`index` is the set of points of the one collection; `catalog[t][d]` the version
of document `d` that tenant `t` has published. A job takes the whole catalogue
(`plan`), then goes document after document through a delete (by filter) and
upserts of `BatchSize` chunks, each a call of its own. A call may fail having run,
not having run, or with the prospect of running later, after other calls
(`"late"`, `LateCall`, `CallLost`); a crash leaves the calls under way late.
`expected` and `harmed` are histories: the version a document was last replaced
by, and whether anything came between the delete and the last upsert of that.
`clean` and `alone` are histories of a job: nobody else has touched the document
it is replacing; nobody else has worked for its tenant since it began. Splitting
is `Size[v]`, the number of chunks of version `v`; text, embeddings and scores are
data. An answer depends on one search and nothing later, so it is an operator on
the index (`Rankings`, `Reranked`, `Cited`), over any ranking and any scores.

### Evaluation

The scripts share cases and code, and no state. `LiveEvaluation` creates threads
and reads streams in the order of the plan; a stream is any sequence of events up
to a length, with events of other threads, malformed data and unknown names among
them, and `Observed` is the reader's verdict on it, translated from its state
machine; `Whole` is what a stream should be, stated independently.
`ControlledEvaluation` runs each case through `GraphRouting`, with dependencies
that answer what the case expects; `Deserves` says, without running the graph, which
cases it is meant to pass. `RetrievalEvaluation` counts matches chunk by
chunk as the code does and keeps the ranks; the discounted gain is left out, as it
is a function of the ranks and of the ideal number (`RanksAreSound` is what makes
it at most 1). Rates are compared as fractions.

## 3. What the runs check

| Run | Instance | Shows |
| --- | --- | --- |
| `refund_safety` | 3 requests, 2 users, 2 orders, 1 key, symmetric requests; 0.8 M states | `TypeOK`, `RepliesAreTruthful`, `RefundAppliedOnce`, `CompletedRecordIsTrue`, `SavedResultOnlyExpires`, `ProcessingIsHeld` |
| `refund_liveness` | 2 requests, 2 keys; 61 k states | `KeyIsFreed`, `ImplementsRefundService` |
| `refund_retry` | as above, expected violation | `RetryGetsSavedResult` |
| `cache` | 2 readers, 1 refund, 1 retry; 27 k states | `TypeOK`, `RefundShownIsReal`, `StaleEntryHasCause`, `EventuallyCurrent` |
| `cache_query` | expected violation | `QueryAfterUnknownIsCurrent` |
| `agent_refunds` | 2 chats, 2 resumes, any overlap, refunds of 2 orders, 1 of them refundable, lost writes where calls do not overlap; 1.3 M states | `EveryRefundWasApproved`, `SubmittedReplyIsTrue`, `ShownApprovalWaits`, `OneRequestPerApproval`, `DenialRefundsNothing` |
| `agent_turns` | 3 chats, 1 resume, not overlapping, all paths of the graph, history of 2 turns, lost writes of one call; 1.4 M states | `TypeOK`, `ActiveOrderWasFound`, `HistoryIsRecentTurns` |
| `gateway` | 1 request of any kind, 2 users, 1 thread, limit 1, window 3 s, 1 token, 2 other chats; 0.4 M states | `TypeOK`, `AdmissionsBounded`, `StatusTellsFate`, `StreamTellsTruth`, `OneCompletionRecord`, `EveryRequestIsRecorded`, `RefusedUserIsFreed` |
| `knowledge` | 2 tenants, 2 documents of the same ids, versions of 2 and 1 chunks, batches of 1, 2 jobs, 2 candidates, 1 cited, 1 change of a catalogue, symmetric; 0.3 M states | `TypeOK`, `IndexIsLastReplacement`, `ReindexIsExact`, `AnswerIsBestOfTenant` |
| `evaluation` | 2 live cases x 3 runs, streams of up to 4 events, 2 policies; the 7 shipped controlled cases and 140 variants of them; 2 questions, 3 chunks, 2 pipelines x 2 repetitions; 1 M states | `TypeOK`, `GreenIsEarned`, `OnlyWholeStreamsCount`, `AbortStopsSuite`, `ControlledCasesPass`, `GateDecides`, `GateForbids`, `RanksAreSound`, `ReportIsSound` |
| `agent_approval`, `agent_repeat` | expected violations | `RefundIsOfAnsweredApproval`, `FailedRefundCanBeRepeated` |

The bounds. Three requests are what the identical PROCESSING values need: one
whose record expired, one that took the key over, one that finds what is left.
Two keys, in the liveness run, let one order be asked for under both. Two readers
and a refund give a fill that overtakes the refund beside a read that is served.
Two chats and two resumes are the least in which an approval is replaced, a
decision is repeated and each meets another in between; three chats make a
history of two turns drop one. `agent_turns` explores only calls that do not
overlap (`CONSTRAINT OneAtATime`), because that is what `HistoryIsRecentTurns`
speaks of, and because overlapping the long paths multiplies states without new
writers of the active order.

Writes that PostgreSQL loses multiply the states of every interleaving, so
constraints of `MCSupportAgent` divide them: `agent_refunds` has any overlap, and
losses of any calls as long as none overlap (`NoLossInOverlap`); `agent_turns` lets
one call lose writes (`OneAtATime`). The theorems about these properties have no
such bound: `ShownApprovalsWait`, for one, covers losses of calls that overlap.

`OneRequestPerApproval` counts for each crash and each call with a lost write one
request more than there were approvals, which is what the code does: the POST
went out, the checkpoint behind the approval did not arrive, and the approval waits
for another resume. `StatusTellsFate` promises nothing of a resume's 404, 409 or 500:
each may come before its run, or from a node of it that has called the business
service.

In `gateway`, one request and two other chats are a user at the limit from three
sides; requests share nothing but the limiter and the thread table, and what one
does to another there the other chats and the arbitrary initial owner do, too.
A window of 3 s is the least with an inside. The proofs cover any number of
requests. In `knowledge`, two chunks in batches of one put a step between the
first and the last upsert, the shorter version shows chunks that are left over,
and two jobs are the least that overlap. In `evaluation`, four events are one more
than a whole stream needs; three runs are the least that make the 2/3 of the
policy differ from all and from none.

Every counter is bounded by a constant: `Requests`, `ChatCalls`, `ResumeCalls` and
`Jobs` are calls that happen once, `MaxTokens`, `MaxOthers` and `MaxPublished`
bound the environment, `MaxRetries`, `HistoryTurns`, `Limit`, `Window`,
`BatchSize`, `TopK` and `CandidateK` are settings of the code. With finitely many
calls the system may stop, and a script does, so deadlock is checked only in
`cache`, `gateway` and `knowledge`, where there is always something left to do.

Fairness. `RefundIdempotency` assumes that a request's calls end (each has a
timeout) and nothing of the expiry of keys: `KeyIsFreed` says that the endpoint
itself frees the key, and names the two cases, a process that died and a script
Redis failed, in which the TTL has to. `OrderCache` assumes that calls of
`get_order` end, that a late command arrives or is dropped, and that the entry
expires. Nothing forces a client to call, a command to fail, a process to die, or
the business service to execute a POST. `ChatGateway` assumes that both services
go on with what they were given and that time passes; nothing makes a client call
or leave, a store fail, the container time out rather than the answer come, or the
process die. `SupportAgent`, `KnowledgeIndex` and the evaluation have no liveness
property: their calls end because each has finitely many steps.

## 4. Where documents and code part

Four runs state what a document or a message says and find a counterexample:

- `refund_retry`: `docs/demo-walkthrough.md:91,96` has a client repeat a timed-out
  refund with its key and get the saved result. If the PROCESSING record is gone
  by then the repetition is told REFUND_NOT_ALLOWED, of a refund that happened.
- `cache_query`: `api/exception_handlers.py:136` tells the caller of an unknown
  outcome to query the order first. The cache entry was not deleted, and the
  query may show the status of before the refund until its TTL ends.
- `agent_approval`: `docs/architecture.md:102` has Python resume from the original
  checkpoint. It resumes from the latest: after another chat the decision is
  applied to the order of the newer approval.
- `agent_repeat`: the same lines of `demo-walkthrough.md`, one layer up. A resume
  whose refund fails has used up the interrupt, so its repetition gets 409
  APPROVAL_NOT_PENDING and never reaches the idempotency record.

Met while modelling, and worth knowing, without a document that says otherwise in
so many words, or says it of one call after another:

- `docs/demo-walkthrough.md:67` has a resume with `approved: false` end without a
  refund. It does where calls do not overlap (`DenialRefundsNothing`). A resume
  checks for the interrupt first and runs later: if another one approves and moves
  the checkpoint to `submit_refund` in between, the run that was to deny continues
  there, where nothing reads its decision, and sends the refund.
- `docs/architecture.md:82` says that a reindex keeps versions from being mixed.
  It does for each document (`IndexIsLastReplacement`), and for the tenant if
  nobody else reindexes it meanwhile (`ReindexIsExact`); two reindexes of one
  tenant that overlap may interleave the chunks of two versions of one document.
- A document that was removed from the catalogue, or has become empty, stays in
  the index: nothing deletes it.
- A service that started without Qdrant stays without knowledge until it is
  restarted.
- The limiter admits up to twice its limit around the edge of a window
  (`AdmissionsBounded` is that bound), and refused calls count.
- A stream that fails ends with `error`, and nothing behind it; the list of
  events in `docs/architecture.md:118` can be read as if `done` followed.
- In the controlled evaluation the model and the order service echo the case's own
  intent and order, so that comparing those two cannot fail; what a case tests is
  path, calls and facts.
- The matching of chunks and expected sources is greedy and may find fewer pairs
  than there are. An event of an unknown name, or a 201 that is not JSON, ends the
  live suite with no report (`SuiteCrashes`).

## 5. What is proved

`RefundIdempotencyProofs`, for any sets of requests, orders, principals, keys and
initial statuses, from three assumptions: `Owner` maps orders to principals,
initial statuses are statuses, and the sentinels are no inputs, replies, records
or responses.

- `IInv` is inductive (`Invariance`). The checked invariants are not: a reply is true
  because of what its request held while it ran. `RequestInv` says what that is at
  each `pc` (before its transaction a request has not executed; at `complete` it has,
  and carries the REFUNDING response; at `release` it carries a true refusal),
  `ExecutedInv` what an executed request has established, and `ClaimedInv` that every
  record was claimed by a request of that scope and order, which makes "conflict" and
  "in progress" true. `ProcessingIsHeld` needs no more than that trouble leaves its
  mark (`TroubleStays`) and that a request at work stays at work, gets into trouble,
  or deals with its record (`HolderKeepsOrFrees`). Each action is a step of the
  proof; the facts about truth that only grows (`StatusStable`, `RequestsAdvance`,
  `TruthStable`) are lemmas.
- `TypeCorrect`, `RepliesTruthful`, `AppliedOnce`, `CompletedRecordsTrue`,
  `ProcessingHeld` are conjuncts of `IInv`; `SavedResultsOnlyExpire` is the action
  property.
- `Refinement`: `Spec => Service!Spec`. The transaction maps to the abstract
  `Refund`, sending a reply to `Answer` (true by `IInv`), a crash to `Abandon`, every
  Redis step to a stutter.

`OrderCacheProofs`, for any readers, refunds and `MaxRetries \in Nat`:
`SourcedInv` follows a REFUNDING status from MySQL through jobs, replies, calls
and late commands; `CauseInv` says that an entry that is stale without a lapse
has the very refund that made it stale still under way, which is stronger than
`StaleEntryHasCause` and is what survives another refund's end. From them
`CacheTypeCorrect`, `ShownRefundsAreReal`, `StaleEntriesHaveCauses`.

`SupportAgentProofs`, for any calls, orders, analyses and `HistoryTurns`: `Good`
says what a state of the graph may claim (a found order is owned, at
`submit_refund` it was approved, an answer "submitted" is of a refunded order), and
`StateInv` says it of every copy of the state: the one in PostgreSQL and each
run's own. This is the strengthening: what a reply says comes from a copy that may
have been saved by another call. `CallInv` is the rest of the types, `RefundInv`
the two safety properties about refunds, `ApprovalInv` that a call about to show
an approval has its checkpoint either still on the way or in PostgreSQL, and
`CopyInv` that what is in PostgreSQL is what the run has, unless a write was lost.
`HistoriesAreRecent` needs two invariants more, of the checkpoints on their way
(no call has two, `Distinct(unsaved)`) and of calls that do not overlap
(`HistoryInv`: at most one is in progress, and its history is the saved one with
what it added).

`ApprovalProofs` adds `RequestsHaveOwnApprovals`. The thread keeps no record of
which approval a refund request came from, so `Matched` says that the requests can
be given witnesses, one each: an approval that was shown, or a call that a crash or
a lost write has hit. A request may hold an approval only as long as nothing else
can use it (`Kept`): no resume is at work on it, and if PostgreSQL still shows it,
the checkpoint behind the answer is on its way. When that checkpoint is lost, the
request lets the approval go and holds its own call, which is now troubled
(`LossKeepsMatch`, `CrashKeepsMatch`); that no other request holds that call is
`PostInv`, a call sends one request at most. A new request takes the approval its
run was resumed from (`MatchGrows`), every other step leaves the witnesses as they
are (`MatchKept`). The rest of the invariant says where an interrupt can be and
which nodes a resume can be at. It needs `HistoryInv`: one call moves, and the
others leave what it reads alone (`Frame`, `OneCall`). `DenialsRefundNothing` follows
from the same invariant: a resume starts at the pause, and only its own decision
leads from there to `submit_refund` (`SubmitFollowsDecision`).

`ChatGatewayProofs`, for any requests, users, threads, limit, window and length of
streams: an invariant for each request. `Recorded` ties listener and records to the
servlet, `Fated` status and reply to the handler, `Answered` the reply to the run of
the graph (which of a message or a decision has begun, and for which of its answers),
`Streamed` the events to that run, `Relayed` what the client has to what was sent. A
step is one of the servlet or of the handler, of one request, and leaves the others
alone (`Untouched`), save that threads may get an owner. From them
`GatewayTypeCorrect`, `OneRecordPerRequest`, `StatusesTellFate`, `StreamsTellTruth`.

`KnowledgeIndexProofs`, for any tenants, documents, versions, sizes, batches and
jobs, from `KnowledgeAssumption`: `CleanInv` says that the points of a document
that is being replaced undisturbed are the chunks upserted so far, `AloneInv` that
a job alone with its tenant has done exactly the documents it has neither left nor
at work, `LastInv` is `IndexIsLastReplacement`. `UpsertContinues`, `UpsertElsewhere`
and `DeletePoints` say what the two calls do to the points of a document and
leave of the others. From them `IndexTypeCorrect`, `IndexesAreLastReplacements`
and, with `OnlyEmptyIsOk`, the action property `ReindexesAreExact`.

`RetrievalProofs` adds `AnswersAreBest`, for any `CandidateK`, `TopK` and integer
scores (`ScoresAssumption`). The model places a candidate by counting those before
it. Who is before another has the smaller place (`PlacesOrdered`), hence the places
of n candidates are distinct, and being within 1..n they are all taken
(`PlacesTaken`): the reranked sequence loses and repeats nothing, and what is
better than a cited chunk is cited before it (`BetterAreCited`). The count needs the
collection to be finite, an invariant of its own (`FiniteInv`).

`AdmissionsAreBounded`, in `ChatGatewayProofs`, is about a sum over seconds, which
the model takes as the number of admissions, each a pair of its second and of its
place there. `WindowInv` splits them by `Age`, the seconds since the open window
began: those of that window (`Current`) are no more than its counter and no more than
`Limit`, those before it (`Earlier`) no more than `Limit`. The script, run for a call
or late, adds at most one to the first (`ScriptWindow`). When a second passes
(`TickWindow`) every admission grows older, which is an injection of the new
admissions into the old (`AtMostInjected`), and where the window ends, those of it
become the earlier ones while the earlier ones leave the last `Window` seconds.

`EvaluationProofs`, for any cases, suites, questions, streams, policies and
bounds. Each script has an invariant of its own, since they share no state.

- Live suite (`LiveInv`): a record is that of its place in the plan and has
  evidence exactly where its events were whole; an error that aborts is the last. The
  reader judges a stream by counts and by the last event of a kind, while `Whole`
  says what the stream is. That they agree (`AcceptedIsWhole`) is the lemma
  `WholeStreamsCount` rests on, for any length. `GreenEarned` needs that every
  case has its turn in every round (`TurnOf`, the arithmetic of the plan) and that
  a rate of 1 leaves out none (`AllFacts`).
- Controlled suite (`ControlledInv`): from a node other than `submit_refund` no
  route leads there without a decision (`SuitesAre`), and a result is that of its
  case (`JudgedAs`). `GateKeeps` is what follows for any file of cases.
- Its verdict (`VerdictInv`): the nodes entered so far are a prefix of the path the
  graph is meant to take, the next node is the one after it, and once the answering
  node was left the answer says what it is meant to (`Entered`). That the routes lead
  along the path is `PathsAre`. A result is then what a comparison with the whole path
  gives (`ResultIs`), a run that crashes for want of an order is one the case did not
  deserve to pass, and `VerdictRight` follows: exit code 0 exactly for the files whose
  cases all deserve it. `ShippedCasesPass` is the same for the file of the repository,
  from `ShippedAssumption`, which TLC evaluates on its seven cases.
- Comparison of retrievers (`RetrievalInv`): `Counted` is defined by recursion over
  the chunks. `CountedInv` says what holds after n of them: each source has one
  rank at most, no rank serves two, and the first chunk that matches is among
  them. `OneCounted` is one chunk, `AllCounted` the induction. Ranks, pairs and
  matched sources then correspond one to one (`RanksCounted`), which gives
  `RanksSound`. For the percentile, the places in the sorted order are a
  permutation (`PlacesTaken`), the rank m satisfies (m - 1) * 100 < p * n <= m * 100
  (`RankIs`), and the values placed up to m divide the samples
  (`PercentileDivides`); the counts of a summary are of sets that include one
  another (`SummaryCounts`). From these `ReportSound`.

The induction over chunks does not use the induction theorems of the library,
whose operator parameter the provers cannot instantiate: `LeastElement` gets a least
element of a set of naturals from the library's well-foundedness of <, and
`SetInduction` states induction for a set in place of a predicate. The function that
the recursion defines exists by the same induction (`PassesExist`).

Only model-checked: the liveness properties `KeyIsFreed`, `EventuallyCurrent`,
`EveryRequestIsRecorded`, `RefusedUserIsFreed`, since fairness is out of the prover's
reach. Every other property of a passing run is a theorem.

## 6. Not modelled

The language models, prompts and embeddings (their answers are arbitrary
inputs), wording and amounts, metrics and logs other than the completion records,
the compose file. Of what is modelled, these parts are left out:

- HTTP surface: the internal token, blank identities and schema validation (one
  refusal, 400, stands for what is refused before a controller runs).
- Agent: the results of single nodes that LangGraph saves beside a checkpoint
  ("pending writes"), by which a resume after a crash or a lost checkpoint may go on
  with the decision already taken instead of asking again; that would send fewer
  requests than the model does. A field that was written only by a lost checkpoint
  and is missing from the next one, which takes it for unchanged.
- Limiter: without Redis configured there is none. Seconds are whole.
- Threads: the column status, which nothing sets to anything but ACTIVE.
- Start-up: PostgreSQL or Redis that is down ends it before anything is served;
  settings are constants; the rest wires objects.
- Knowledge index: `tenant_id` inside a catalogue file is not compared with the
  tenant that was asked for, and two documents of one id in one catalogue would
  replace each other; both are matters of the files, which the model takes as sets.
- Evaluation: `stability.py`, which no script uses and which repeats the formulas
  of `live_report.py`; the `check_`, `acceptance_` and `inspect_` scripts, which
  print what the services answer.

## 7. What is left

1. `RefundSystem`: resume, cache and endpoint composed, over `RefundService` in
   place of its details: what the user is told against what MySQL holds, with
   retries across the layers.
2. A larger `gateway` instance, with two requests of one user, once properties and
   states allow one run more.
