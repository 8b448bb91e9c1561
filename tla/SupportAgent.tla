---------------------------- MODULE SupportAgent ----------------------------
(***************************************************************************)
(* One conversation thread of the agent service: the graph of              *)
(* graph/builder.py, run by chat and resume calls over one checkpoint.     *)
(*                                                                         *)
(* Nothing serialises the calls.  A run loads the latest checkpoint, works *)
(* on its own copy and makes a checkpoint of it after every node.  The     *)
(* checkpoints reach PostgreSQL later, and the latest is the one that was  *)
(* made last.  A run ends only when its own are written.  If one could not *)
(* be, the run has gone on all the same, and its caller is told of a       *)
(* failure in place of the result.  A resume decides "approved" or not     *)
(* about whatever approval the latest checkpoint holds when its run        *)
(* starts: the decision names no order.                                    *)
(***************************************************************************)
EXTENDS GraphRouting, Naturals, SequencesExt

CONSTANTS
  ChatCalls,    \* calls of /chat and /chat/stream on the thread
  ResumeCalls,  \* calls of /threads/{id}/resume on the thread
  Analyses,     \* what the intent model may answer
  Orders,       \* order numbers that are mentioned
  OwnedOrders,  \* those of the user of the thread
  Refundable,   \* those in a status that may be refunded
  Keys,         \* values of Idempotency-Key
  HistoryTurns, \* history_max_messages / 2: turns that are kept
  NoOrder,      \* order_id None
  NoCall        \* no message yet

VARIABLES
  saved,    \* PostgreSQL: the latest checkpoint of the thread
  latest,   \* the call that made it
  unsaved,  \* calls whose newest checkpoint is on its way, oldest first
  lost,     \* lost[c]: PostgreSQL failed to take something the run of c wrote
  pc,       \* pc[c]: what call c does next
  local,    \* local[c]: the state the run of c works on
  fresh,    \* fresh[c]: the run of c is at its first node
  decision, \* decision[c]: what resume call c carries, and what the user saw
  reply,    \* reply[c]: what call c answers
  refunded, \* business service: the orders that are REFUNDING
  posts,    \* the refund requests the thread has sent
  approved, \* history: the orders whose refund a run took as approved
  turns,    \* history: the turns that reached PostgreSQL, in order
  overlap   \* history: two calls have been in progress at once

callVars == <<pc, local, fresh, reply>>
savedVars == <<saved, latest, unsaved, lost>>
serviceVars == <<refunded, posts>>
historyVars == <<approved, turns, overlap>>
vars == <<saved, latest, unsaved, lost, pc, local, fresh, decision, reply,
          refunded, posts, approved, turns, overlap>>

Calls == ChatCalls \cup ResumeCalls

Answers == {"", "clarification", "unsupported", "not found", "order", "knowledge",
            "knowledge unavailable", "cancelled", "submitted"}

Codes == {"none", "OK", "APPROVAL_REQUIRED", "APPROVAL_NOT_PENDING", "REFUND_REFUSED",
          "IDEMPOTENCY_UNAVAILABLE", "REFUND_OUTCOME_UNKNOWN", "UPSTREAM_FAILED",
          "INTERNAL_ERROR"}

ASSUME AnalysesAssumption ==
  Analyses \subseteq [intent : Intents, order : Orders \cup {NoOrder}, clarify : BOOLEAN]
ASSUME OrdersAssumption ==
  NoOrder \notin Orders /\ OwnedOrders \subseteq Orders /\ Refundable \subseteq OwnedOrders
ASSUME CallsAssumption ==
  ChatCalls \cap ResumeCalls = {} /\ NoCall \notin ChatCalls \cup ResumeCalls
ASSUME HistoryAssumption == HistoryTurns \in Nat \ {0}

(* Before the first message the thread has no checkpoint. *)
NoState ==
  [message |-> NoCall, history |-> <<>>, active |-> NoOrder, intent |-> "none",
   order |-> NoOrder, found |-> FALSE, refundApproved |-> FALSE,
   knowledge |-> "no_match", answer |-> "", next |-> "END", interrupted |-> FALSE]

NoDecision == [approved |-> FALSE, key |-> "none", order |-> NoOrder]
NoReply == [code |-> "none", answer |-> "", order |-> NoOrder]

(* _new_graph_input: all but the history and the active order is reset, and *)
(* LangGraph starts the graph again, dropping an interrupt it waits on.     *)
NewGraphInput(st, c) ==
  [NoState EXCEPT !.message = c, !.history = st.history, !.active = st.active,
                  !.next = "analyze_intent"]

-----------------------------------------------------------------------------
(* save_turn: the turn joins the history, of which the last turns are kept. *)
AddTurn_Unbounded(history, turn) == Append(history, turn)

AddTurn_KeepsOldest(history, turn) ==
  IF Len(history) < HistoryTurns THEN Append(history, turn) ELSE history

AddTurn(history, turn) ==
  IF Len(history) < HistoryTurns THEN Append(history, turn)
                                 ELSE Append(Tail(history), turn)

ActiveAfter_Mentioned(st) == IF st.order # NoOrder THEN st.order ELSE st.active

(* save_turn: an order becomes the active one only if it was found. *)
ActiveAfter(st) == IF st.found /\ st.order # NoOrder THEN st.order ELSE st.active

-----------------------------------------------------------------------------
Init ==
  /\ saved = NoState /\ latest = NoCall /\ unsaved = <<>>
  /\ lost = [c \in Calls |-> FALSE]
  /\ pc = [c \in Calls |-> "idle"]
  /\ local = [c \in Calls |-> NoState]
  /\ fresh = [c \in Calls |-> FALSE]
  /\ decision = [c \in Calls |-> NoDecision]
  /\ reply = [c \in Calls |-> NoReply]
  /\ refunded = {} /\ posts = {}
  /\ approved = {} /\ turns = <<>> /\ overlap = FALSE

InProgress(c) == pc[c] \in {"check", "resume", "run", "finish"}

Begin == /\ overlap' = (overlap \/ \E c \in Calls : InProgress(c))
         /\ UNCHANGED <<approved, turns>>

(* The run of c makes a checkpoint of st: of those on their way, the newest. *)
Step(c, st) == /\ local' = [local EXCEPT ![c] = st]
               /\ fresh' = [fresh EXCEPT ![c] = FALSE]
               /\ unsaved' = Append(RemoveFirst(unsaved, c), c)
               /\ UNCHANGED <<saved, latest, lost>>

(* The run ends, for a reply that is sent once its checkpoints are written. *)
End(c, code, answer) ==
  /\ pc' = [pc EXCEPT ![c] = "finish"]
  /\ reply' = [reply EXCEPT ![c] =
                 [code |-> code, answer |-> answer, order |-> local[c].order]]

(* /chat: the message becomes the input of a new run. *)
StartChat(c) ==
  /\ c \in ChatCalls /\ pc[c] = "idle"
  /\ pc' = [pc EXCEPT ![c] = "run"]
  /\ Step(c, NewGraphInput(saved, c))
  /\ Begin
  /\ UNCHANGED <<decision, reply, serviceVars>>

(* /resume: the user answers one of the approvals the thread has shown. *)
StartResume(c) ==
  /\ c \in ResumeCalls /\ pc[c] = "idle"
  /\ \E yes \in BOOLEAN, k \in Keys, shown \in ChatCalls :
       /\ pc[shown] = "done" /\ reply[shown].code = "APPROVAL_REQUIRED"
       /\ decision' = [decision EXCEPT ![c] =
                         [approved |-> yes, key |-> k, order |-> reply[shown].order]]
  /\ pc' = [pc EXCEPT ![c] = "check"]
  /\ Begin
  /\ UNCHANGED <<savedVars, local, fresh, reply, serviceVars>>

CheckPending_Skipped(c) ==
  /\ pc[c] = "check"
  /\ pc' = [pc EXCEPT ![c] = "resume"]
  /\ UNCHANGED <<savedVars, local, fresh, decision, reply, serviceVars, historyVars>>

(* aget_state: an interrupt is waiting. *)
CheckPending(c) ==
  /\ pc[c] = "check" /\ saved.interrupted
  /\ pc' = [pc EXCEPT ![c] = "resume"]
  /\ UNCHANGED <<savedVars, local, fresh, decision, reply, serviceVars, historyVars>>

NothingPending(c) ==
  /\ pc[c] = "check" /\ ~saved.interrupted
  /\ pc' = [pc EXCEPT ![c] = "done"]
  /\ reply' = [reply EXCEPT ![c].code = "APPROVAL_NOT_PENDING"]
  /\ UNCHANGED <<savedVars, local, fresh, decision, serviceVars, historyVars>>

(* aget_state, or the load of the run, does not reach PostgreSQL. *)
ReadFails(c) ==
  /\ pc[c] \in {"check", "resume"}
  /\ pc' = [pc EXCEPT ![c] = "done"]
  /\ reply' = [reply EXCEPT ![c].code = "INTERNAL_ERROR"]
  /\ UNCHANGED <<savedVars, local, fresh, decision, serviceVars, historyVars>>

(* ainvoke(Command(resume)): the run goes on from the latest checkpoint,    *)
(* which another call may have moved since the check.  Where no node is     *)
(* left to run, the state of the finished turn is answered again.           *)
Resume(c) ==
  /\ pc[c] = "resume"
  /\ local' = [local EXCEPT ![c] = saved]
  /\ fresh' = [fresh EXCEPT ![c] = TRUE]
  /\ IF saved.next # "END"
       THEN pc' = [pc EXCEPT ![c] = "run"] /\ UNCHANGED reply
       ELSE /\ pc' = [pc EXCEPT ![c] = "finish"]
            /\ reply' = [reply EXCEPT ![c] = [code |-> "OK", answer |-> saved.answer,
                                              order |-> saved.order]]
  /\ UNCHANGED <<savedVars, decision, serviceVars, historyVars>>

-----------------------------------------------------------------------------
(* The nodes.  Each runs on the state of its run, and is checkpointed. *)

At(c, node) == pc[c] = "run" /\ local[c].next = node

AnalyzeIntent(c) ==
  /\ At(c, "analyze_intent")
  /\ \E a \in Analyses :
       LET reuse == /\ a.intent = "order_query" /\ a.order = NoOrder
                    /\ local[c].active # NoOrder
           used == IF reuse THEN [a EXCEPT !.order = local[c].active, !.clarify = FALSE]
                            ELSE a
       IN Step(c, [local[c] EXCEPT !.intent = used.intent, !.order = used.order,
                                   !.next = RouteAfterIntent(used)])
  /\ UNCHANGED <<pc, decision, reply, serviceVars, historyVars>>

(* request_clarification, unsupported, order_not_found, generate_answer *)
SetAnswer(c) ==
  /\ pc[c] = "run" /\ local[c].next \in DOMAIN AnswerOf
  /\ Step(c, [local[c] EXCEPT !.answer = AnswerOf[local[c].next], !.next = "save_turn"])
  /\ UNCHANGED <<pc, decision, reply, serviceVars, historyVars>>

QueryOrder(c) ==
  LET st == [local[c] EXCEPT !.found = local[c].order \in OwnedOrders] IN
  /\ At(c, "query_order") /\ local[c].order # NoOrder
  /\ Step(c, [st EXCEPT !.next = RouteAfterOrder(st)])
  /\ UNCHANGED <<pc, decision, reply, serviceVars, historyVars>>

RetrieveKnowledge(c) ==
  /\ At(c, "retrieve_knowledge")
  /\ \E k \in {"available", "no_match", "unavailable"} :
       Step(c, [local[c] EXCEPT !.knowledge = k, !.next = "generate_knowledge_answer"])
  /\ UNCHANGED <<pc, decision, reply, serviceVars, historyVars>>

GenerateKnowledgeAnswer(c) ==
  /\ At(c, "generate_knowledge_answer")
  /\ Step(c, [local[c] EXCEPT
                !.answer = IF local[c].knowledge = "unavailable"
                             THEN "knowledge unavailable" ELSE "knowledge",
                !.next = "save_turn"])
  /\ UNCHANGED <<pc, decision, reply, serviceVars, historyVars>>

(* interrupt() without a decision: the pause is noted on the checkpoint the *)
(* run is at, if PostgreSQL takes the note, and the run ends.  A resume     *)
(* that gets here has spent its decision on an earlier node, and may not    *)
(* pause again.                                                             *)
RequestRefundApproval(c) ==
  /\ At(c, "request_refund_approval") /\ ~fresh[c]
  /\ \E noted \in BOOLEAN :
       LET st == [local[c] EXCEPT !.interrupted = noted] IN
       /\ local' = [local EXCEPT ![c] = st]
       /\ saved' = IF latest = c /\ saved = local[c] THEN st ELSE saved
       /\ lost' = [lost EXCEPT ![c] = @ \/ ~noted]
  /\ End(c, IF c \in ChatCalls THEN "APPROVAL_REQUIRED" ELSE "INTERNAL_ERROR", "")
  /\ UNCHANGED <<latest, unsaved, fresh, decision, serviceVars, historyVars>>

(* interrupt() returns the decision: the node runs again and goes on. *)
TakeDecision(c) ==
  LET yes == decision[c].approved
      st == [local[c] EXCEPT !.refundApproved = yes, !.interrupted = FALSE,
                             !.answer = IF yes THEN @ ELSE "cancelled"]
  IN
  /\ At(c, "request_refund_approval") /\ fresh[c]
  /\ Step(c, [st EXCEPT !.next = RouteAfterRefundApproval(st)])
  /\ approved' = approved \cup IF yes THEN {local[c].order} ELSE {}
  /\ UNCHANGED <<pc, decision, reply, serviceVars, turns, overlap>>

(* What the business service may do with a request: it accepts it, or       *)
(* answers the saved result of an earlier one with the same key ...         *)
Accepts(order, key) ==
  /\ order \in Refundable
  /\ \/ order \notin refunded
     \/ \E p \in posts : p.order = order /\ p.key = key /\ p.outcome # "refused"

(* ... or refuses it, for the order or for the use of the key. *)
Refuses(order, key) ==
  \/ order \notin Refundable
  \/ order \in refunded
  \/ \E p \in posts : p.key = key /\ (p.order # order \/ p.outcome = "unknown")

Post(c, outcome) ==
  posts' = posts \cup {[call |-> c, order |-> local[c].order,
                        key |-> decision[c].key, outcome |-> outcome]}

AtSubmit(c) == At(c, "submit_refund") /\ c \in ResumeCalls

SubmitRefund(c) ==
  /\ AtSubmit(c) /\ Accepts(local[c].order, decision[c].key)
  /\ refunded' = refunded \cup {local[c].order}
  /\ Post(c, "accepted")
  /\ Step(c, [local[c] EXCEPT !.answer = "submitted", !.next = "save_turn"])
  /\ UNCHANGED <<pc, decision, reply, historyVars>>

SubmitRefundFails_Answers(c) ==
  /\ AtSubmit(c)
  /\ Post(c, "unknown")
  /\ Step(c, [local[c] EXCEPT !.answer = "submitted", !.next = "save_turn"])
  /\ UNCHANGED <<pc, decision, reply, refunded, historyVars>>

(* request_refund raises: the node fails, and with it the run.  The latest  *)
(* checkpoint stays where it is, past the approval and with no interrupt.   *)
(* A timeout or a 504 is "outcome unknown"; so is in fact what a broken     *)
(* connection, a 500 or an unreadable reply hides.                          *)
SubmitRefundFails(c) ==
  LET o == local[c].order IN
  /\ AtSubmit(c)
  /\ \/ /\ Refuses(o, decision[c].key)
        /\ Post(c, "refused") /\ UNCHANGED refunded
        /\ End(c, "REFUND_REFUSED", "")
     \/ /\ Post(c, "refused") /\ UNCHANGED refunded
        /\ End(c, "IDEMPOTENCY_UNAVAILABLE", "")
     \/ /\ Post(c, "unknown")
        /\ refunded' \in {refunded, refunded \cup ({o} \cap Refundable)}
        /\ \E code \in {"REFUND_OUTCOME_UNKNOWN", "UPSTREAM_FAILED"} : End(c, code, "")
  /\ UNCHANGED <<savedVars, local, fresh, decision, historyVars>>

SaveTurn(c) ==
  LET turn == [message |-> local[c].message, answer |-> local[c].answer] IN
  /\ At(c, "save_turn") /\ local[c].answer # ""
  /\ Step(c, [local[c] EXCEPT !.history = AddTurn(@, turn),
                              !.active = ActiveAfter(local[c]),
                              !.next = "END"])
  /\ End(c, "OK", local[c].answer)
  /\ UNCHANGED <<decision, serviceVars, historyVars>>

(* A model, the business service or the check of a node's input fails, or   *)
(* the client of a stream goes away: the run ends where it is.              *)
RunFails(c) ==
  /\ pc[c] = "run"
  /\ \/ c \in ChatCalls
     \/ local[c].next \in {"analyze_intent", "query_order", "generate_answer",
                           "generate_knowledge_answer"}
  /\ End(c, "INTERNAL_ERROR", "")
  /\ UNCHANGED <<savedVars, local, fresh, decision, serviceVars, historyVars>>

Node(c) ==
  \/ AnalyzeIntent(c) \/ SetAnswer(c) \/ QueryOrder(c)
  \/ RetrieveKnowledge(c) \/ GenerateKnowledgeAnswer(c)
  \/ RequestRefundApproval(c) \/ TakeDecision(c)
  \/ SubmitRefund(c) \/ SubmitRefundFails(c) \/ SaveTurn(c)

-----------------------------------------------------------------------------
(* The newest checkpoint of c reaches PostgreSQL.  Those made before it are *)
(* never the latest any more.                                               *)
Persist(c) ==
  /\ Contains(unsaved, c)
  /\ saved' = local[c] /\ latest' = c
  /\ unsaved' = SubSeq(unsaved, 1 + CHOOSE i \in DOMAIN unsaved : unsaved[i] = c,
                       Len(unsaved))
  /\ turns' = IF local[c].next = "END" THEN Append(turns, Last(local[c].history))
                                       ELSE turns
  /\ UNCHANGED <<lost, callVars, decision, serviceVars, approved, overlap>>

(* Or PostgreSQL fails while something the run wrote is on its way: the     *)
(* checkpoint is lost, or only what is saved beside it is, or just the      *)
(* confirmation.  The run hears of it at its end, and later writes are      *)
(* tried as if nothing had happened.                                        *)
PersistFails(c) ==
  /\ pc[c] \in {"run", "finish"}
  /\ lost' = [lost EXCEPT ![c] = TRUE]
  /\ unsaved' \in {unsaved, RemoveFirst(unsaved, c)}
  /\ UNCHANGED <<saved, latest, callVars, decision, serviceVars, historyVars>>

Finish_HidesLoss(c) ==
  /\ pc[c] = "finish" /\ ~Contains(unsaved, c)
  /\ pc' = [pc EXCEPT ![c] = "done"]
  /\ local' = [local EXCEPT ![c] = NoState]
  /\ UNCHANGED <<savedVars, fresh, decision, reply, serviceVars, historyVars>>

(* No write of the run is on its way any more and its reply is sent.  The   *)
(* failure of one is raised here, in place of a result but not of another   *)
(* failure.                                                                 *)
Finish(c) ==
  /\ pc[c] = "finish" /\ ~Contains(unsaved, c)
  /\ pc' = [pc EXCEPT ![c] = "done"]
  /\ local' = [local EXCEPT ![c] = NoState]
  /\ reply' = IF lost[c] /\ reply[c].code \in {"OK", "APPROVAL_REQUIRED"}
                THEN [reply EXCEPT ![c].code = "INTERNAL_ERROR", ![c].answer = ""]
                ELSE reply
  /\ UNCHANGED <<savedVars, fresh, decision, serviceVars, historyVars>>

(* The process dies with its calls and the checkpoints on their way. *)
Crash ==
  /\ \E c \in Calls : pc[c] \notin {"idle", "done"}
  /\ pc' = [c \in Calls |-> IF pc[c] \in {"idle", "done"} THEN pc[c] ELSE "dead"]
  /\ reply' = [c \in Calls |-> IF pc[c] = "done" THEN reply[c] ELSE NoReply]
  /\ local' = [c \in Calls |-> NoState]
  /\ fresh' = [c \in Calls |-> FALSE]
  /\ unsaved' = <<>>
  /\ UNCHANGED <<saved, latest, lost, decision, serviceVars, historyVars>>

Next ==
  \/ \E c \in Calls : \/ StartChat(c) \/ StartResume(c)
                      \/ CheckPending(c) \/ NothingPending(c) \/ ReadFails(c)
                      \/ Resume(c) \/ Node(c) \/ RunFails(c)
                      \/ Persist(c) \/ PersistFails(c) \/ Finish(c)
  \/ Crash

Spec == Init /\ [][Next]_vars

-----------------------------------------------------------------------------
(* What must hold. *)

Turns == [message : ChatCalls, answer : Answers \ {""}]

States ==
  [message : ChatCalls \cup {NoCall}, history : Seq(Turns),
   active : Orders \cup {NoOrder}, intent : Intents \cup {"none"},
   order : Orders \cup {NoOrder}, found : BOOLEAN, refundApproved : BOOLEAN,
   knowledge : {"available", "no_match", "unavailable"}, answer : Answers,
   next : Nodes \cup {"END"}, interrupted : BOOLEAN]

(* Every variable has its type; the history never holds more turns than     *)
(* history_max_messages allows (SupportAgentNodes.save_turn).               *)
TypeOK ==
  /\ saved \in States /\ Len(saved.history) <= HistoryTurns
  /\ latest \in Calls \cup {NoCall} /\ unsaved \in Seq(Calls)
  /\ lost \in [Calls -> BOOLEAN]
  /\ pc \in [Calls -> {"idle", "check", "resume", "run", "finish", "done", "dead"}]
  /\ local \in [Calls -> States]
  /\ fresh \in [Calls -> BOOLEAN]
  /\ decision \in [Calls -> [approved : BOOLEAN, key : Keys \cup {"none"},
                             order : Orders \cup {NoOrder}]]
  /\ reply \in [Calls -> [code : Codes, answer : Answers, order : Orders \cup {NoOrder}]]
  /\ refunded \subseteq Orders
  /\ posts \subseteq [call : ResumeCalls, order : Orders, key : Keys,
                      outcome : {"accepted", "refused", "unknown"}]
  /\ approved \subseteq Orders
  /\ overlap \in BOOLEAN

Replied(c, code) == pc[c] = "done" /\ reply[c].code = code

(* No refund is sent to the business service, by any interleaving of chats, *)
(* resumes and crashes, for an order whose pause no run took as approved    *)
(* (request_refund_approval, route_after_refund_approval, submit_refund).   *)
EveryRefundWasApproved == \A p \in posts : p.order \in approved

(* An answer that a refund has been submitted, whichever call gives it and  *)
(* however late, is true: the order is REFUNDING (submit_refund).           *)
SubmittedReplyIsTrue ==
  \A c \in Calls : Replied(c, "OK") /\ reply[c].answer = "submitted" =>
                     reply[c].order \in refunded

(* The order a later question is silently about is an order of this user,   *)
(* also after questions about others' orders, failures and lost checkpoints *)
(* (analyze_intent takes it from save_turn).                                *)
ActiveOrderWasFound == saved.active \in OwnedOrders \cup {NoOrder}

(* As long as no two calls were in progress at once, the history is that of *)
(* the last finished turns, through crashes, approvals that are dropped and *)
(* refunds that fail (save_turn, _new_graph_input).                         *)
HistoryIsRecentTurns ==
  ~overlap => saved.history = SubSeq(turns, 1 + Len(turns) - Len(saved.history),
                                     Len(turns))
              /\ Len(saved.history) =
                   IF Len(turns) < HistoryTurns THEN Len(turns) ELSE HistoryTurns

(* An approval that was shown waits in PostgreSQL for its decision until    *)
(* another call moves the thread: no crash and no failing write takes it    *)
(* away (chat, request_refund_approval, checkpoint.py).                     *)
ShownApprovalWaits ==
  \A c \in ChatCalls : Replied(c, "APPROVAL_REQUIRED") /\ latest = c =>
                         saved.interrupted /\ saved.order = reply[c].order

(* The process died in call c, or a write of its run to PostgreSQL failed. *)
Troubled(c) == pc[c] = "dead" \/ lost[c]

(* Calls that do not overlap send at most one refund request for each       *)
(* approval that was shown, and one more for each call that a crash or a    *)
(* failing checkpoint write has hit: no other failure, of the business      *)
(* service, a model or a repeated resume, brings an approval back that was  *)
(* answered (resume_refund's check of the interrupts, submit_refund).       *)
OneRequestPerApproval ==
  ~overlap =>
     ExistsInjection(posts, {c \in ChatCalls : Replied(c, "APPROVAL_REQUIRED")}
                            \cup {c \in Calls : Troubled(c)})

(* docs/demo-walkthrough.md:67 has a resume with approved: false end        *)
(* without a refund.  Of calls that do not overlap that is so, also where a *)
(* crash, a failed node or a lost write has left another's approval at      *)
(* submit_refund, which a denial must not carry out (resume_refund's check, *)
(* request_refund_approval).                                                *)
DenialRefundsNothing == ~overlap => \A p \in posts : decision[p.call].approved

-----------------------------------------------------------------------------
(* What the documentation says, and the code does not do. *)

(* docs/architecture.md:102 has Python resume from the original checkpoint: *)
(* the refund that is sent is of the order whose approval the user answered *)
(* (resume_refund passes no more than "approved").                          *)
RefundIsOfAnsweredApproval == \A p \in posts : p.order = decision[p.call].order

(* docs/demo-walkthrough.md:91 and :96 have a client whose refund timed out *)
(* repeat it with the same key and get the saved result: a resume of the    *)
(* thread a failed resume has left alone is not told that nothing is        *)
(* pending (resume_refund, submit_refund).                                  *)
FailedRefundCanBeRepeated ==
  [][\A c, d \in ResumeCalls :
       Replied(c, "REFUND_OUTCOME_UNKNOWN") /\ latest = c /\ decision[d] = decision[c]
       => ~ (pc[d] = "check" /\ Replied(d, "APPROVAL_NOT_PENDING")')]_vars
=============================================================================
