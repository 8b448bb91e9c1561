------------------------- MODULE SupportAgentProofs -------------------------
(***************************************************************************)
(* Theorems about SupportAgent, for any calls, orders and analyses.  What  *)
(* a run may do next depends on the checkpoint it started from, so that    *)
(* the invariant is one about every state of the graph there is: the one   *)
(* in PostgreSQL and those the runs work on (StateInv).  That an approval  *)
(* which was shown is in PostgreSQL needs in addition where it was before: *)
(* in a checkpoint on its way, for which the call still waits              *)
(* (ApprovalInv), or in PostgreSQL as the run has it, as long as no write  *)
(* of the run was lost (CopyInv).                                          *)
(***************************************************************************)
EXTENDS SupportAgent, SequenceTheorems, WellFoundedInduction, TLAPS

-----------------------------------------------------------------------------
(* The queue of the checkpoints on their way. *)

LEMMA MinExists ==
  ASSUME NEW I \in SUBSET Nat, I # {}
  PROVE  Min(I) \in I
<1>1. \E x \in I : \A y \in I : ~ (<<y, x>> \in OpToRel(<, Nat))
  BY NatLessThanWellFounded, WFMin
<1>2. \A x, y \in Nat : y < x => <<y, x>> \in OpToRel(<, Nat)
  BY Zenon DEF OpToRel
<1>3. \E x \in I : \A y \in I : x <= y
  <2>1. PICK x \in I : \A y \in I : ~ (<<y, x>> \in OpToRel(<, Nat))
    BY <1>1
  <2>2. \A y \in I : ~ (y < x)
    BY <1>2, <2>1
  <2> QED BY <2>2
<1> QED BY <1>3 DEF Min

(* RemoveFirst takes out one place that holds e. *)
LEMMA FirstPlace ==
  ASSUME NEW S, NEW s \in Seq(S), NEW e, Contains(s, e)
  PROVE  \E i \in 1..Len(s) : s[i] = e /\ RemoveFirst(s, e) = RemoveAt(s, i)
<1> DEFINE I == {i \in 1..Len(s) : s[i] = e}
<1>1. I \in SUBSET Nat /\ I # {}
  BY LenProperties DEF Contains
<1>2. Min(I) \in I
  <2> HIDE DEF I
  <2> QED BY <1>1, MinExists
<1>3. RemoveFirst(s, e) = RemoveAt(s, Min(I))
  BY <1>1 DEF RemoveFirst, SelectInSeq, Contains
<1> QED BY <1>2, <1>3

LEMMA WithoutPlace ==
  ASSUME NEW S, NEW s \in Seq(S), NEW i \in 1..Len(s)
  PROVE  /\ RemoveAt(s, i) \in Seq(S)
         /\ Len(RemoveAt(s, i)) = Len(s) - 1
         /\ \A j \in 1..(Len(s) - 1) :
              RemoveAt(s, i)[j] = IF j < i THEN s[j] ELSE s[j + 1]
<1> DEFINE front == SubSeq(s, 1, i - 1)
           back == SubSeq(s, i + 1, Len(s))
<1>0. Len(s) \in Nat /\ \A j \in 1..Len(s) : s[j] \in S
  BY LenProperties, ElementOfSeq
<1>1. /\ front \in Seq(S) /\ Len(front) = i - 1
      /\ \A j \in 1..(i - 1) : front[j] = s[j]
  <2>1. \A j \in 1..(i - 1) : s[j] \in S
    BY <1>0
  <2> QED BY <1>0, <2>1, SubSeqProperties
<1>2. /\ back \in Seq(S) /\ Len(back) = Len(s) - i
      /\ \A j \in 1..(Len(s) - i) : back[j] = s[i + j]
  <2>1. \A j \in (i + 1)..Len(s) : s[j] \in S
    BY <1>0
  <2>2. /\ back \in Seq(S)
        /\ Len(back) = IF i + 1 <= Len(s) THEN Len(s) - (i + 1) + 1 ELSE 0
        /\ \A j \in 1..(Len(s) - (i + 1) + 1) : back[j] = s[(i + 1) + j - 1]
    <3>1. i + 1 \in Int /\ Len(s) \in Int
      BY <1>0
    <3> QED BY <2>1, <3>1, SubSeqProperties
  <2> HIDE DEF back
  <2> QED BY <1>0, <2>2
<1>3. /\ front \o back \in Seq(S)
      /\ Len(front \o back) = Len(front) + Len(back)
      /\ \A j \in 1..(Len(front) + Len(back)) :
           (front \o back)[j] = IF j <= Len(front) THEN front[j]
                                                   ELSE back[j - Len(front)]
  <2> HIDE DEF front, back
  <2> QED BY <1>1, <1>2, ConcatProperties
<1>4. RemoveAt(s, i) = front \o back
  BY DEF RemoveAt
<1> HIDE DEF front, back
<1>5. Len(front \o back) = Len(s) - 1
  BY <1>0, <1>1, <1>2, <1>3
<1>6. ASSUME NEW j \in 1..(Len(s) - 1)
      PROVE  (front \o back)[j] = IF j < i THEN s[j] ELSE s[j + 1]
  <2>1. (front \o back)[j] = IF j <= i - 1 THEN front[j] ELSE back[j - (i - 1)]
    BY <1>0, <1>1, <1>2, <1>3
  <2>2. CASE j < i
    <3>1. j \in 1..(i - 1) /\ j <= i - 1
      BY <1>0, <2>2
    <3> QED BY <1>1, <2>1, <2>2, <3>1
  <2>3. CASE ~(j < i)
    <3>1. j - (i - 1) \in 1..(Len(s) - i) /\ ~(j <= i - 1)
      BY <1>0, <2>3
    <3>2. i + (j - (i - 1)) = j + 1
      BY <1>0
    <3> QED BY <1>2, <2>1, <2>3, <3>1, <3>2
  <2> QED BY <2>2, <2>3
<1> QED BY <1>3, <1>4, <1>5, <1>6

(* Taking e out of the queue leaves the others in it. *)
LEMMA Unqueued ==
  ASSUME NEW S, NEW s \in Seq(S), NEW e
  PROVE  /\ RemoveFirst(s, e) \in Seq(S)
         /\ \A d : d # e => (Contains(RemoveFirst(s, e), d) <=> Contains(s, d))
<1> DEFINE r == RemoveFirst(s, e)
<1>1. CASE Contains(s, e)
  <2>1. PICK i \in 1..Len(s) : s[i] = e /\ r = RemoveAt(s, i)
    BY <1>1, FirstPlace
  <2>2. /\ r \in Seq(S) /\ Len(r) = Len(s) - 1
        /\ \A j \in 1..(Len(s) - 1) : r[j] = IF j < i THEN s[j] ELSE s[j + 1]
    BY <2>1, WithoutPlace
  <2>3. Len(s) \in Nat
    BY LenProperties
  <2> HIDE DEF r
  <2>4. ASSUME NEW d, d # e, Contains(r, d)
        PROVE  Contains(s, d)
    BY <2>2, <2>3, <2>4 DEF Contains
  <2>5. ASSUME NEW d, d # e, Contains(s, d)
        PROVE  Contains(r, d)
    <3>1. PICK k \in 1..Len(s) : s[k] = d
      BY <2>5 DEF Contains
    <3>2. k # i
      BY <2>1, <2>5, <3>1
    <3>3. CASE k < i
      <4>1. k \in 1..(Len(s) - 1) /\ r[k] = d
        BY <2>2, <2>3, <3>1, <3>3
      <4> QED BY <2>2, <4>1 DEF Contains
    <3>4. CASE k > i
      <4>1. k - 1 \in 1..(Len(s) - 1) /\ r[k - 1] = d
        BY <2>2, <2>3, <3>1, <3>4
      <4> QED BY <2>2, <4>1 DEF Contains
    <3> QED BY <2>3, <3>2, <3>3, <3>4
  <2> QED BY <2>2, <2>4, <2>5 DEF r
<1>2. CASE ~Contains(s, e)
  BY <1>2 DEF RemoveFirst, Contains
<1> QED BY <1>1, <1>2

(* A checkpoint of e joins the queue: e is in it, the others stay in it. *)
LEMMA Requeued ==
  ASSUME NEW S, NEW s \in Seq(S), NEW e \in S
  PROVE  LET t == Append(RemoveFirst(s, e), e) IN
         /\ t \in Seq(S)
         /\ \A d : Contains(t, d) <=> d = e \/ Contains(s, d)
<1> DEFINE r == RemoveFirst(s, e)
           t == Append(r, e)
<1>1. r \in Seq(S) /\ \A d : d # e => (Contains(r, d) <=> Contains(s, d))
  BY Unqueued
<1> HIDE DEF r
<1>2. /\ t \in Seq(S) /\ Len(t) = Len(r) + 1 /\ Len(r) \in Nat
      /\ \A j \in 1..Len(r) : t[j] = r[j]
      /\ t[Len(r) + 1] = e
  BY <1>1, AppendProperties, LenProperties
<1> HIDE DEF t
<1>3. \A d : Contains(t, d) <=> d = e \/ Contains(r, d)
  BY <1>2 DEF Contains
<1> QED BY <1>1, <1>2, <1>3 DEF r, t

(* The checkpoints behind one that was written stay on their way. *)
LEMMA Dequeued ==
  ASSUME NEW S, NEW s \in Seq(S), NEW k \in 1..Len(s)
  PROVE  /\ SubSeq(s, 1 + k, Len(s)) \in Seq(S)
         /\ \A d : Contains(SubSeq(s, 1 + k, Len(s)), d) => Contains(s, d)
<1> DEFINE t == SubSeq(s, 1 + k, Len(s))
<1>0. Len(s) \in Nat /\ \A j \in 1..Len(s) : s[j] \in S
  BY LenProperties, ElementOfSeq
<1>1. \A j \in (1 + k)..Len(s) : s[j] \in S
  BY <1>0
<1>2. 1 + k \in Int /\ Len(s) \in Int
  BY <1>0
<1>3. /\ t \in Seq(S)
      /\ Len(t) = IF 1 + k <= Len(s) THEN Len(s) - (1 + k) + 1 ELSE 0
      /\ \A i \in 1..(Len(s) - (1 + k) + 1) : t[i] = s[(1 + k) + i - 1]
  BY <1>1, <1>2, SubSeqProperties
<1> HIDE DEF t
<1>4. ASSUME NEW d, Contains(t, d)
      PROVE  Contains(s, d)
  <2>1. PICK i \in 1..Len(t) : t[i] = d
    BY <1>4 DEF Contains
  <2>2. i \in 1..(Len(s) - (1 + k) + 1)
    BY <1>0, <1>3, <2>1
  <2>3. (1 + k) + i - 1 \in 1..Len(s) /\ s[(1 + k) + i - 1] = d
    BY <1>0, <1>3, <2>1, <2>2
  <2> QED BY <2>3 DEF Contains
<1> QED BY <1>3, <1>4 DEF t

-----------------------------------------------------------------------------
(* The inductive invariant. *)

(* What holds of every state of the graph, given the orders whose refund    *)
(* was taken as approved and those that are REFUNDING.                      *)
Good(st, taken, done) ==
  /\ st \in States /\ Len(st.history) <= HistoryTurns
  /\ st.next # "END" => st.message \in ChatCalls
  /\ st.next = "analyze_intent" => st.answer = "" /\ ~st.found
  /\ st.found => st.order \in OwnedOrders
  /\ st.next = "request_refund_approval" => st.found
  /\ st.next = "submit_refund" => st.order \in taken
  /\ st.answer = "submitted" => st.order \in done
  /\ st.active \in OwnedOrders \cup {NoOrder}

StateInv ==
  /\ Good(saved, approved, refunded)
  /\ local \in [Calls -> States]
  /\ \A c \in Calls : Good(local[c], approved, refunded)

(* The rest of TypeOK; a resume that has started carries a key. *)
CallInv ==
  /\ latest \in Calls \cup {NoCall} /\ unsaved \in Seq(Calls)
  /\ lost \in [Calls -> BOOLEAN]
  /\ pc \in [Calls -> {"idle", "check", "resume", "run", "finish", "done", "dead"}]
  /\ fresh \in [Calls -> BOOLEAN]
  /\ decision \in [Calls -> [approved : BOOLEAN, key : Keys \cup {"none"},
                             order : Orders \cup {NoOrder}]]
  /\ reply \in [Calls -> [code : Codes, answer : Answers, order : Orders \cup {NoOrder}]]
  /\ refunded \subseteq Orders
  /\ posts \subseteq [call : ResumeCalls, order : Orders, key : Keys,
                      outcome : {"accepted", "refused", "unknown"}]
  /\ approved \subseteq Orders
  /\ overlap \in BOOLEAN
  /\ \A c \in ResumeCalls : pc[c] # "idle" => decision[c].key \in Keys

RefundInv ==
  /\ EveryRefundWasApproved
  /\ \A c \in Calls : reply[c].answer = "submitted" => reply[c].order \in refunded

Showing(c) == pc[c] = "finish" /\ reply[c].code = "APPROVAL_REQUIRED" /\ ~lost[c]

ApprovalInv ==
  /\ \A c \in Calls : Contains(unsaved, c) => pc[c] \in {"run", "finish"}
  /\ \A c \in ChatCalls : Showing(c) =>
       /\ local[c].interrupted /\ local[c].order = reply[c].order
       /\ latest = c /\ ~Contains(unsaved, c) =>
            saved.interrupted /\ saved.order = reply[c].order
  /\ ShownApprovalWaits

CopyInv ==
  \A c \in Calls :
    /\ pc[c] \in {"idle", "check", "resume"} => latest # c
    /\ pc[c] = "run" /\ latest = c /\ ~Contains(unsaved, c) /\ ~lost[c] => saved = local[c]

IInv == CallInv /\ StateInv /\ RefundInv /\ ApprovalInv /\ CopyInv

-----------------------------------------------------------------------------
(* The states the nodes make. *)

LEMMA NodeNames ==
  /\ DOMAIN AnswerOf =
       {"request_clarification", "unsupported", "order_not_found", "generate_answer"}
  /\ \A n \in DOMAIN AnswerOf : AnswerOf[n] \in Answers \ {"", "submitted"}
<1>1. DOMAIN AnswerOf =
        {"request_clarification", "unsupported", "order_not_found", "generate_answer"}
  BY DEF AnswerOf
<1>2. /\ AnswerOf["request_clarification"] = "clarification"
      /\ AnswerOf["unsupported"] = "unsupported"
      /\ AnswerOf["order_not_found"] = "not found"
      /\ AnswerOf["generate_answer"] = "order"
  BY DEF AnswerOf
<1> QED BY <1>1, <1>2 DEF Answers

LEMMA RouteTypes ==
  ASSUME NEW a
  PROVE  /\ RouteAfterIntent(a) \in
              {"request_clarification", "retrieve_knowledge", "query_order", "unsupported"}
         /\ RouteAfterOrder(a) \in
              {"order_not_found", "request_refund_approval", "generate_answer"}
         /\ RouteAfterOrder(a) = "request_refund_approval" => a.found
         /\ RouteAfterRefundApproval(a) \in {"submit_refund", "save_turn"}
         /\ RouteAfterRefundApproval(a) = "submit_refund" => a.refundApproved
BY DEF RouteAfterIntent, RouteAfterOrder, RouteAfterRefundApproval

LEMMA GoodStaysGood ==
  ASSUME NEW st, NEW taken, NEW done, NEW taken2, NEW done2,
         Good(st, taken, done), taken \subseteq taken2, done \subseteq done2
  PROVE  Good(st, taken2, done2)
BY DEF Good

LEMMA NoStateGood ==
  ASSUME NEW taken, NEW done
  PROVE  Good(NoState, taken, done)
<1>1. <<>> \in Seq(Turns) /\ Len(<<>>) <= HistoryTurns
  BY HistoryAssumption, EmptySeq
<1> QED BY <1>1 DEF Good, NoState, States, Intents, Answers

LEMMA NewInputGood ==
  ASSUME NEW st, NEW taken, NEW done, NEW c \in ChatCalls, Good(st, taken, done)
  PROVE  Good(NewGraphInput(st, c), taken, done)
<1>1. NoState \in States
  BY NoStateGood DEF Good
<1>2. NoState.answer = "" /\ NoState.found = FALSE
  BY DEF NoState
<1>3. st.history \in Seq(Turns) /\ st.active \in Orders \cup {NoOrder}
  BY DEF Good, States
<1> DEFINE t == NewGraphInput(st, c)
<1>4. t \in States
  BY <1>1, <1>3 DEF NewGraphInput, States, Nodes
<1>5. /\ t.message = c /\ t.history = st.history /\ t.active = st.active
      /\ t.answer = "" /\ t.found = FALSE /\ t.next = "analyze_intent"
  BY <1>1, <1>2 DEF NewGraphInput, States
<1> HIDE DEF t
<1>6. Good(t, taken, done)
  BY <1>4, <1>5 DEF Good
<1> QED BY <1>6 DEF t

LEMMA AnalysedGood ==
  ASSUME NEW st, NEW taken, NEW done, NEW a \in Analyses, NEW order, NEW n,
         Good(st, taken, done), st.next = "analyze_intent",
         order \in Orders \cup {NoOrder},
         n \in {"request_clarification", "retrieve_knowledge", "query_order", "unsupported"}
  PROVE  Good([st EXCEPT !.intent = a.intent, !.order = order, !.next = n], taken, done)
<1>1. a.intent \in Intents
  BY AnalysesAssumption
<1> QED BY <1>1, NodeNames DEF Good, States, Nodes

(* request_clarification, retrieve_knowledge and the other nodes that only  *)
(* answer or go on: nothing the invariant is about changes, unless the      *)
(* answer is that of a refund.                                              *)
LEMMA AnsweredGood ==
  ASSUME NEW st, NEW taken, NEW done, NEW answer \in Answers \ {"submitted"},
         NEW n \in {"save_turn", "generate_knowledge_answer"},
         Good(st, taken, done), st.next # "END"
  PROVE  Good([st EXCEPT !.answer = answer, !.next = n], taken, done)
BY DEF Good, States, Nodes

LEMMA SearchedGood ==
  ASSUME NEW st, NEW taken, NEW done, NEW k \in {"available", "no_match", "unavailable"},
         Good(st, taken, done), st.next # "END"
  PROVE  Good([st EXCEPT !.knowledge = k, !.next = "generate_knowledge_answer"],
              taken, done)
BY DEF Good, States, Nodes

LEMMA QueriedGood ==
  ASSUME NEW st, NEW taken, NEW done, NEW found \in BOOLEAN, NEW n,
         Good(st, taken, done), st.next # "END",
         found => st.order \in OwnedOrders,
         n \in {"order_not_found", "request_refund_approval", "generate_answer"},
         n = "request_refund_approval" => found
  PROVE  Good([[st EXCEPT !.found = found] EXCEPT !.next = n], taken, done)
BY NodeNames DEF Good, States, Nodes

LEMMA PausedGood ==
  ASSUME NEW st, NEW taken, NEW done, NEW noted \in BOOLEAN, Good(st, taken, done)
  PROVE  /\ Good([st EXCEPT !.interrupted = noted], taken, done)
         /\ [st EXCEPT !.interrupted = noted].interrupted = noted
         /\ [st EXCEPT !.interrupted = noted].order = st.order
BY ZenonT(30) DEF Good, States

LEMMA DecidedGood ==
  ASSUME NEW st, NEW taken, NEW done, NEW yes \in BOOLEAN, NEW n,
         Good(st, taken, done), st.next # "END",
         n \in {"submit_refund", "save_turn"},
         n = "submit_refund" => st.order \in taken
  PROVE  Good([[st EXCEPT !.refundApproved = yes, !.interrupted = FALSE,
                          !.answer = IF yes THEN @ ELSE "cancelled"]
               EXCEPT !.next = n], taken, done)
<1> DEFINE answer == IF yes THEN st.answer ELSE "cancelled"
           t == [st EXCEPT !.refundApproved = yes, !.interrupted = FALSE,
                           !.answer = answer]
<1>1. answer \in Answers /\ (answer = "submitted" => st.answer = "submitted")
  BY DEF Good, States, Answers
<1>2. Good([t EXCEPT !.next = n], taken, done)
  <2> HIDE DEF answer
  <2> QED BY <1>1, ZenonT(30) DEF Good, States, Nodes
<1> QED BY <1>2 DEF Good, States

LEMMA SubmittedGood ==
  ASSUME NEW st, NEW taken, NEW done, Good(st, taken, done), st.next # "END",
         st.order \in done
  PROVE  Good([st EXCEPT !.answer = "submitted", !.next = "save_turn"], taken, done)
<1>1. "submitted" \in Answers
  BY DEF Answers
<1> QED BY <1>1 DEF Good, States, Nodes

LEMMA TurnsBounded ==
  ASSUME NEW history \in Seq(Turns), NEW turn \in Turns, Len(history) <= HistoryTurns
  PROVE  AddTurn(history, turn) \in Seq(Turns) /\ Len(AddTurn(history, turn)) <= HistoryTurns
<1>1. Len(history) \in Nat /\ HistoryTurns \in Nat \ {0}
  BY LenProperties, HistoryAssumption
<1>2. CASE Len(history) < HistoryTurns
  <2>1. Append(history, turn) \in Seq(Turns) /\ Len(Append(history, turn)) = Len(history) + 1
    BY AppendProperties
  <2> QED BY <1>1, <1>2, <2>1 DEF AddTurn
<1>3. CASE ~(Len(history) < HistoryTurns)
  <2>1. history # <<>>
    BY <1>1, <1>3, EmptySeq
  <2>2. Tail(history) \in Seq(Turns) /\ Len(Tail(history)) = Len(history) - 1
    BY <2>1, HeadTailProperties
  <2>3. /\ Append(Tail(history), turn) \in Seq(Turns)
        /\ Len(Append(Tail(history), turn)) = Len(Tail(history)) + 1
    BY <2>2, AppendProperties
  <2> QED BY <1>1, <1>3, <2>2, <2>3 DEF AddTurn
<1> QED BY <1>2, <1>3

LEMMA SavedTurnGood ==
  ASSUME NEW st, NEW taken, NEW done, Good(st, taken, done), st.next # "END",
         st.answer # ""
  PROVE  Good([st EXCEPT !.history = AddTurn(@, [message |-> st.message,
                                                 answer |-> st.answer]),
                         !.active = ActiveAfter(st), !.next = "END"], taken, done)
<1> DEFINE turn == [message |-> st.message, answer |-> st.answer]
           h == AddTurn(st.history, turn)
           a == ActiveAfter(st)
<1>1. turn \in Turns
  BY DEF Turns, Good, States
<1>2. h \in Seq(Turns) /\ Len(h) <= HistoryTurns
  <2> HIDE DEF turn
  <2>1. st.history \in Seq(Turns) /\ Len(st.history) <= HistoryTurns
    BY DEF Good, States
  <2> QED BY <1>1, <2>1, TurnsBounded
<1>3. a \in OwnedOrders \cup {NoOrder}
  BY DEF Good, ActiveAfter
<1>4. Good([st EXCEPT !.history = h, !.active = a, !.next = "END"], taken, done)
  <2> HIDE DEF h, a
  <2> QED BY <1>2, <1>3, OrdersAssumption, ZenonT(30) DEF Good, States, Nodes
<1> QED BY <1>4 DEF Good, States

-----------------------------------------------------------------------------
(* The steps. *)

(* A checkpoint that the run of c makes. *)
LEMMA StepEffect ==
  ASSUME CallInv, StateInv, NEW c \in Calls, NEW st, Step(c, st), Good(st, approved', refunded'),
         approved \subseteq approved', refunded \subseteq refunded'
  PROVE  /\ StateInv'
         /\ unsaved' \in Seq(Calls)
         /\ \A d : Contains(unsaved', d) <=> d = c \/ Contains(unsaved, d)
         /\ fresh' \in [Calls -> BOOLEAN]
         /\ UNCHANGED <<saved, latest, lost>>
         /\ \A d \in Calls : d # c => local'[d] = local[d]
<1>1. unsaved \in Seq(Calls)
  BY DEF CallInv
<1>2. unsaved' = Append(RemoveFirst(unsaved, c), c)
  BY DEF Step
<1>3. /\ unsaved' \in Seq(Calls)
      /\ \A d : Contains(unsaved', d) <=> d = c \/ Contains(unsaved, d)
  <2>1. LET t == Append(RemoveFirst(unsaved, c), c) IN
        /\ t \in Seq(Calls)
        /\ \A d : Contains(t, d) <=> d = c \/ Contains(unsaved, d)
    BY <1>1, Requeued
  <2> QED BY <1>2, <2>1
<1>4. local \in [Calls -> States] /\ local' = [local EXCEPT ![c] = st] /\ saved' = saved
  BY DEF Step, StateInv
<1>5. st \in States
  BY DEF Good
<1>6. Good(saved', approved', refunded')
  BY <1>4, GoodStaysGood DEF StateInv
<1>7. \A d \in Calls : Good(local'[d], approved', refunded')
  BY <1>4, GoodStaysGood DEF StateInv
<1>8. local' \in [Calls -> States]
  BY <1>4, <1>5
<1>9. StateInv'
  BY <1>6, <1>7, <1>8 DEF StateInv
<1> QED BY <1>3, <1>4, <1>9 DEF Step, CallInv

(* A step that leaves the states as they are. *)
LEMMA StatesKept ==
  ASSUME StateInv, UNCHANGED <<saved, local>>,
         approved \subseteq approved', refunded \subseteq refunded'
  PROVE  StateInv'
<1>1. Good(saved', approved', refunded')
  BY GoodStaysGood DEF StateInv
<1>2. \A d \in Calls : Good(local'[d], approved', refunded')
  BY GoodStaysGood DEF StateInv
<1> QED BY <1>1, <1>2 DEF StateInv

(* A step of c that writes nothing to PostgreSQL. *)
LEMMA CopyKept ==
  ASSUME CopyInv, NEW c \in Calls, UNCHANGED <<saved, latest>>,
         \A d \in Calls : d # c =>
            /\ pc'[d] = pc[d] /\ local'[d] = local[d] /\ lost'[d] = lost[d]
            /\ Contains(unsaved, d) => Contains(unsaved', d),
         pc'[c] \in {"idle", "check", "resume"} => pc[c] \in {"idle", "check", "resume"},
         pc'[c] = "run" => latest # c \/ Contains(unsaved', c) \/ lost'[c]
  PROVE  CopyInv'
BY DEF CopyInv

LEMMA InitIInv == Init => IInv
<1> SUFFICES ASSUME Init PROVE IInv
  OBVIOUS
<1>1. StateInv
  <2>1. \A taken, done : Good(NoState, taken, done)
    BY NoStateGood
  <2>2. NoState \in States
    BY <2>1 DEF Good
  <2> QED BY <2>1, <2>2 DEF Init, StateInv
<1>2. CallInv
  BY EmptySeq DEF Init, CallInv, NoDecision, NoReply, Codes, Answers, Calls
<1>3. RefundInv
  BY DEF Init, RefundInv, EveryRefundWasApproved, NoReply
<1>4. ApprovalInv
  <2>1. \A c : ~Contains(unsaved, c)
    BY EmptySeq DEF Init, Contains
  <2> QED BY <2>1 DEF Init, ApprovalInv, Showing, ShownApprovalWaits, Replied, Calls
<1>5. CopyInv
  BY CallsAssumption DEF Init, CopyInv, Calls
<1> QED BY <1>1, <1>2, <1>3, <1>4, <1>5 DEF IInv

(* A node that neither pauses, decides nor sends changes no more than the   *)
(* state of its run.                                                        *)
LEMMA QuietStep ==
  ASSUME IInv, NEW c \in Calls, pc[c] = "run", NEW st,
         Good(st, approved, refunded), Step(c, st),
         UNCHANGED <<pc, decision, reply, serviceVars, historyVars>>
  PROVE  IInv'
<1>1. /\ StateInv'
      /\ unsaved' \in Seq(Calls)
      /\ \A d : Contains(unsaved', d) <=> d = c \/ Contains(unsaved, d)
      /\ fresh' \in [Calls -> BOOLEAN]
      /\ UNCHANGED <<saved, latest, lost>>
      /\ \A d \in Calls : d # c => local'[d] = local[d]
  BY StepEffect DEF IInv, serviceVars, historyVars
<1>2. CallInv'
  BY <1>1 DEF IInv, CallInv, serviceVars, historyVars
<1>3. RefundInv'
  BY DEF IInv, RefundInv, EveryRefundWasApproved, serviceVars, historyVars
<1>4. ApprovalInv'
  BY <1>1 DEF IInv, ApprovalInv, Showing, ShownApprovalWaits, Replied, Calls
<1>5. CopyInv'
  BY <1>1, CopyKept DEF IInv
<1> QED BY <1>1, <1>2, <1>3, <1>4, <1>5 DEF IInv

LEMMA NodeSteps ==
  ASSUME IInv, NEW c \in Calls,
         AnalyzeIntent(c) \/ SetAnswer(c) \/ QueryOrder(c)
           \/ RetrieveKnowledge(c) \/ GenerateKnowledgeAnswer(c)
  PROVE  IInv'
<1> DEFINE st == local[c]
<1>0. Good(st, approved, refunded)
  BY DEF IInv, StateInv
<1>1. CASE AnalyzeIntent(c)
  <2>1. PICK a \in Analyses :
          LET reuse == /\ a.intent = "order_query" /\ a.order = NoOrder
                       /\ local[c].active # NoOrder
              used == IF reuse THEN [a EXCEPT !.order = local[c].active, !.clarify = FALSE]
                               ELSE a
          IN Step(c, [local[c] EXCEPT !.intent = used.intent, !.order = used.order,
                                      !.next = RouteAfterIntent(used)])
    BY <1>1 DEF AnalyzeIntent
  <2> DEFINE reuse == /\ a.intent = "order_query" /\ a.order = NoOrder /\ st.active # NoOrder
             used == IF reuse THEN [a EXCEPT !.order = st.active, !.clarify = FALSE] ELSE a
             t == [st EXCEPT !.intent = used.intent, !.order = used.order,
                             !.next = RouteAfterIntent(used)]
  <2>2. used.intent = a.intent /\ used.order \in Orders \cup {NoOrder}
    BY <1>0, AnalysesAssumption, OrdersAssumption DEF Good
  <2>3. RouteAfterIntent(used) \in
          {"request_clarification", "retrieve_knowledge", "query_order", "unsupported"}
    BY RouteTypes
  <2>4. pc[c] = "run" /\ st.next = "analyze_intent"
    BY <1>1 DEF AnalyzeIntent, At
  <2>5. Good(t, approved, refunded)
    <3> HIDE DEF used, st
    <3> QED BY <1>0, <2>2, <2>3, <2>4, AnalysedGood
  <2>6. Step(c, t)
    BY <2>1
  <2>7. UNCHANGED <<pc, decision, reply, serviceVars, historyVars>>
    BY <1>1 DEF AnalyzeIntent
  <2> HIDE DEF t
  <2> QED BY <2>4, <2>5, <2>6, <2>7, QuietStep
<1>2. CASE SetAnswer(c)
  <2> DEFINE t == [st EXCEPT !.answer = AnswerOf[st.next], !.next = "save_turn"]
  <2>1. /\ pc[c] = "run" /\ st.next \in DOMAIN AnswerOf /\ Step(c, t)
        /\ UNCHANGED <<pc, decision, reply, serviceVars, historyVars>>
    BY <1>2 DEF SetAnswer
  <2>2. AnswerOf[st.next] \in Answers \ {"submitted"} /\ st.next # "END"
    BY <2>1, NodeNames
  <2>3. Good(t, approved, refunded)
    BY <1>0, <2>2, AnsweredGood
  <2> QED BY <2>1, <2>3, QuietStep
<1>3. CASE QueryOrder(c)
  <2> DEFINE found == st.order \in OwnedOrders
             q == [st EXCEPT !.found = found]
             t == [q EXCEPT !.next = RouteAfterOrder(q)]
  <2>1. /\ pc[c] = "run" /\ st.next = "query_order" /\ Step(c, t)
        /\ UNCHANGED <<pc, decision, reply, serviceVars, historyVars>>
    BY <1>3 DEF QueryOrder, At
  <2>2. q.found = found
    BY <1>0 DEF Good, States
  <2>3. /\ RouteAfterOrder(q) \in
             {"order_not_found", "request_refund_approval", "generate_answer"}
        /\ RouteAfterOrder(q) = "request_refund_approval" => found
    <3>1. /\ RouteAfterOrder(q) \in
               {"order_not_found", "request_refund_approval", "generate_answer"}
          /\ RouteAfterOrder(q) = "request_refund_approval" => q.found
      <4> HIDE DEF q
      <4> QED BY RouteTypes
    <3> HIDE DEF q
    <3> QED BY <2>2, <3>1
  <2>4. found \in BOOLEAN /\ (found => st.order \in OwnedOrders)
    OBVIOUS
  <2>5. Good(t, approved, refunded)
    <3> DEFINE n == RouteAfterOrder(q)
    <3>1. Good([[st EXCEPT !.found = found] EXCEPT !.next = n], approved, refunded)
      <4> HIDE DEF n, st, found
      <4> QED BY <1>0, <2>1, <2>3, <2>4, QueriedGood DEF n
    <3> QED BY <3>1
  <2> HIDE DEF t
  <2> QED BY <2>1, <2>5, QuietStep
<1>4. CASE RetrieveKnowledge(c)
  <2>1. PICK k \in {"available", "no_match", "unavailable"} :
          Step(c, [st EXCEPT !.knowledge = k, !.next = "generate_knowledge_answer"])
    BY <1>4 DEF RetrieveKnowledge
  <2>2. /\ pc[c] = "run" /\ st.next = "retrieve_knowledge"
        /\ UNCHANGED <<pc, decision, reply, serviceVars, historyVars>>
    BY <1>4 DEF RetrieveKnowledge, At
  <2>3. Good([st EXCEPT !.knowledge = k, !.next = "generate_knowledge_answer"],
             approved, refunded)
    BY <1>0, <2>2, SearchedGood
  <2> QED BY <2>1, <2>2, <2>3, QuietStep
<1>5. CASE GenerateKnowledgeAnswer(c)
  <2> DEFINE answer == IF st.knowledge = "unavailable" THEN "knowledge unavailable"
                                                       ELSE "knowledge"
             t == [st EXCEPT !.answer = answer, !.next = "save_turn"]
  <2>1. /\ pc[c] = "run" /\ st.next = "generate_knowledge_answer" /\ Step(c, t)
        /\ UNCHANGED <<pc, decision, reply, serviceVars, historyVars>>
    BY <1>5 DEF GenerateKnowledgeAnswer, At
  <2>2. answer \in Answers \ {"submitted"}
    BY DEF Answers
  <2>3. Good(t, approved, refunded)
    <3> HIDE DEF answer
    <3> QED BY <1>0, <2>1, <2>2, AnsweredGood
  <2> HIDE DEF t
  <2> QED BY <2>1, <2>3, QuietStep
<1> QED BY <1>1, <1>2, <1>3, <1>4, <1>5

(* A run that ends with no answer and without an approval to show. *)
LEMMA EndStep ==
  ASSUME IInv, NEW c \in Calls, pc[c] = "run",
         NEW code \in Codes \ {"APPROVAL_REQUIRED"}, End(c, code, ""),
         UNCHANGED <<savedVars, local, fresh, decision, historyVars>>,
         refunded \subseteq refunded', refunded' \subseteq Orders,
         posts' \subseteq [call : ResumeCalls, order : Orders, key : Keys,
                           outcome : {"accepted", "refused", "unknown"}],
         EveryRefundWasApproved'
  PROVE  IInv'
<1> USE DEF savedVars, historyVars
<1>1. StateInv'
  BY StatesKept DEF IInv
<1>2. CallInv'
  <2>1. local[c].order \in Orders \cup {NoOrder}
    BY DEF IInv, StateInv, Good, States
  <2>2. [code |-> code, answer |-> "", order |-> local[c].order] \in
          [code : Codes, answer : Answers, order : Orders \cup {NoOrder}]
    BY <2>1 DEF Answers
  <2>3. reply' \in [Calls -> [code : Codes, answer : Answers,
                              order : Orders \cup {NoOrder}]]
    BY <2>2 DEF IInv, CallInv, End
  <2>4. pc' \in [Calls -> {"idle", "check", "resume", "run", "finish", "done", "dead"}]
    BY DEF IInv, CallInv, End
  <2>5. \A d \in ResumeCalls : pc'[d] # "idle" => decision'[d].key \in Keys
    BY DEF IInv, CallInv, End, Calls
  <2> QED BY <2>3, <2>4, <2>5 DEF IInv, CallInv
<1>3. RefundInv'
  BY DEF IInv, RefundInv, CallInv, End
<1>4. ApprovalInv'
  BY DEF IInv, CallInv, ApprovalInv, Showing, ShownApprovalWaits, Replied, End, Calls
<1>5. CopyInv'
  BY DEF IInv, CallInv, CopyInv, End
<1> QED BY <1>1, <1>2, <1>3, <1>4, <1>5 DEF IInv

(* The approval: it is shown, or it is decided. *)
LEMMA ApprovalSteps ==
  ASSUME IInv, NEW c \in Calls, RequestRefundApproval(c) \/ TakeDecision(c)
  PROVE  IInv'
<1>0. Good(local[c], approved, refunded)
  BY DEF IInv, StateInv
<1>1. CASE RequestRefundApproval(c)
  <2>0. PICK noted \in BOOLEAN :
          LET st == [local[c] EXCEPT !.interrupted = noted] IN
          /\ local' = [local EXCEPT ![c] = st]
          /\ saved' = IF latest = c /\ saved = local[c] THEN st ELSE saved
          /\ lost' = [lost EXCEPT ![c] = @ \/ ~noted]
    BY <1>1 DEF RequestRefundApproval
  <2> DEFINE st == [local[c] EXCEPT !.interrupted = noted]
             code == IF c \in ChatCalls THEN "APPROVAL_REQUIRED" ELSE "INTERNAL_ERROR"
  <2>1. /\ pc[c] = "run" /\ local' = [local EXCEPT ![c] = st]
        /\ saved' = IF latest = c /\ saved = local[c] THEN st ELSE saved
        /\ End(c, code, "")
        /\ UNCHANGED <<latest, unsaved, fresh, decision, serviceVars, historyVars>>
    BY <1>1, <2>0 DEF RequestRefundApproval, At
  <2>2. /\ Good(st, approved, refunded)
        /\ st.interrupted = noted /\ st.order = local[c].order
    BY <1>0, PausedGood
  <2>12. /\ lost' \in [Calls -> BOOLEAN] /\ (~lost'[c] => noted /\ ~lost[c])
         /\ \A d \in Calls : d # c => lost'[d] = lost[d]
    BY <2>0 DEF IInv, CallInv
  <2>3. st \in States
    BY <2>2 DEF Good
  <2> HIDE DEF st
  <2>4. StateInv'
    BY <2>1, <2>2, <2>3 DEF IInv, StateInv, serviceVars, historyVars
  <2>5. CallInv'
    <3>1. local[c].order \in Orders \cup {NoOrder}
      BY <1>0 DEF Good, States
    <3>2. [code |-> code, answer |-> "", order |-> local[c].order] \in
            [code : Codes, answer : Answers, order : Orders \cup {NoOrder}]
      BY <3>1 DEF Answers, Codes
    <3> HIDE DEF code
    <3>3. reply' \in [Calls -> [code : Codes, answer : Answers,
                                order : Orders \cup {NoOrder}]]
      BY <2>1, <3>2 DEF IInv, CallInv, End
    <3>4. pc' \in [Calls -> {"idle", "check", "resume", "run", "finish", "done", "dead"}]
      BY <2>1 DEF IInv, CallInv, End
    <3>5. \A d \in ResumeCalls : pc'[d] # "idle" => decision'[d].key \in Keys
      BY <2>1 DEF IInv, CallInv, End, Calls
    <3> QED BY <2>1, <2>12, <3>3, <3>4, <3>5 DEF IInv, CallInv, serviceVars, historyVars
  <2>6. RefundInv'
    BY <2>1 DEF IInv, RefundInv, CallInv, EveryRefundWasApproved, End, serviceVars, historyVars
  <2>7. ApprovalInv'
    <3>1. \A d \in Calls : Contains(unsaved', d) => pc'[d] \in {"run", "finish"}
      BY <2>1 DEF IInv, CallInv, ApprovalInv, End
    <3>2. ASSUME NEW d \in ChatCalls, Showing(d)'
          PROVE  /\ local'[d].interrupted /\ local'[d].order = reply'[d].order
                 /\ latest' = d /\ ~Contains(unsaved', d) =>
                      saved'.interrupted /\ saved'.order = reply'[d].order
      <4>1. CASE d = c
        <5>1. reply'[c].order = local[c].order /\ local'[c] = st
          BY <2>1 DEF IInv, CallInv, StateInv, End
        <5>2. noted /\ (latest = c /\ ~Contains(unsaved, c) => saved = local[c])
          BY <2>1, <2>12, <3>2, <4>1 DEF Showing, IInv, CopyInv
        <5> QED BY <2>1, <2>2, <4>1, <5>1, <5>2
      <4>2. CASE d # c
        <5>1. /\ reply'[d] = reply[d] /\ local'[d] = local[d] /\ Showing(d)
              /\ latest = d => saved' = saved
          BY <2>1, <2>12, <3>2, <4>2 DEF IInv, CallInv, StateInv, End, Showing, Calls
        <5> QED BY <2>1, <5>1 DEF IInv, ApprovalInv
      <4> QED BY <4>1, <4>2
    <3>3. ShownApprovalWaits'
      <4>1. ASSUME NEW d \in ChatCalls, Replied(d, "APPROVAL_REQUIRED")', latest' = d
            PROVE  saved'.interrupted /\ saved'.order = reply'[d].order
        <5>1. d # c /\ reply'[d] = reply[d] /\ Replied(d, "APPROVAL_REQUIRED")
          BY <2>1, <4>1 DEF IInv, CallInv, End, Replied, Calls
        <5> QED BY <2>1, <4>1, <5>1 DEF IInv, ApprovalInv, ShownApprovalWaits
      <4> QED BY <4>1 DEF ShownApprovalWaits
    <3> QED BY <3>1, <3>2, <3>3 DEF ApprovalInv
  <2>8. CopyInv'
    <3>1. /\ pc'[c] = "finish"
          /\ \A d \in Calls : d # c => pc'[d] = pc[d] /\ local'[d] = local[d]
      BY <2>1 DEF IInv, CallInv, StateInv, End
    <3>2. \A d \in Calls : d # c /\ latest = d => saved' = saved
      BY <2>1
    <3> QED BY <2>1, <2>12, <3>1, <3>2 DEF IInv, CopyInv
  <2> QED BY <2>4, <2>5, <2>6, <2>7, <2>8 DEF IInv
<1>2. CASE TakeDecision(c)
  <2> DEFINE yes == decision[c].approved
             st == [local[c] EXCEPT !.refundApproved = yes, !.interrupted = FALSE,
                                    !.answer = IF yes THEN @ ELSE "cancelled"]
             n == RouteAfterRefundApproval(st)
             t == [st EXCEPT !.next = n]
  <2>1. /\ pc[c] = "run" /\ local[c].next = "request_refund_approval" /\ Step(c, t)
        /\ approved' = approved \cup IF yes THEN {local[c].order} ELSE {}
        /\ UNCHANGED <<pc, decision, reply, serviceVars, turns, overlap>>
    BY <1>2 DEF TakeDecision, At
  <2>2. yes \in BOOLEAN
    BY DEF IInv, CallInv
  <2>3. st.refundApproved = yes
    BY <1>0 DEF Good, States
  <2>4. n \in {"submit_refund", "save_turn"} /\ (n = "submit_refund" => yes)
    <3>1. n \in {"submit_refund", "save_turn"} /\ (n = "submit_refund" => st.refundApproved)
      <4> HIDE DEF st
      <4> QED BY RouteTypes
    <3> QED BY <2>3, <3>1
  <2>5. local[c].order \in OwnedOrders
    BY <1>0, <2>1 DEF Good
  <2>6. /\ approved \subseteq approved' /\ approved' \subseteq Orders
        /\ n = "submit_refund" => local[c].order \in approved'
    <3>1. approved \subseteq Orders
      BY DEF IInv, CallInv
    <3> HIDE DEF yes, n
    <3> QED BY <2>1, <2>4, <2>5, <3>1, OrdersAssumption
  <2>7. refunded' = refunded /\ posts' = posts
    BY <2>1 DEF serviceVars
  <2>8. Good(t, approved', refunded')
    <3>1. Good(local[c], approved', refunded')
      BY <1>0, <2>6, <2>7, GoodStaysGood
    <3>2. Good([[local[c] EXCEPT !.refundApproved = yes, !.interrupted = FALSE,
                                 !.answer = IF yes THEN @ ELSE "cancelled"]
                EXCEPT !.next = n], approved', refunded')
      <4> HIDE DEF yes, n
      <4> QED BY <2>1, <2>2, <2>4, <2>6, <3>1, DecidedGood
    <3> QED BY <3>2
  <2> HIDE DEF t, n, yes
  <2>9. /\ StateInv'
        /\ unsaved' \in Seq(Calls)
        /\ \A d : Contains(unsaved', d) <=> d = c \/ Contains(unsaved, d)
        /\ fresh' \in [Calls -> BOOLEAN]
        /\ UNCHANGED <<saved, latest, lost>>
        /\ \A d \in Calls : d # c => local'[d] = local[d]
    BY <2>1, <2>6, <2>7, <2>8, StepEffect DEF IInv
  <2>10. CallInv'
    BY <2>1, <2>6, <2>7, <2>9 DEF IInv, CallInv
  <2>11. RefundInv'
    BY <2>1, <2>6, <2>7 DEF IInv, RefundInv, EveryRefundWasApproved
  <2>12. ApprovalInv'
    BY <2>1, <2>9 DEF IInv, ApprovalInv, Showing, ShownApprovalWaits, Replied, Calls
  <2>13. CopyInv'
    BY <2>1, <2>9, CopyKept DEF IInv
  <2> QED BY <2>9, <2>10, <2>11, <2>12, <2>13 DEF IInv
<1> QED BY <1>1, <1>2

LEMMA PostTypes ==
  ASSUME IInv, NEW c \in Calls, AtSubmit(c),
         NEW outcome \in {"accepted", "refused", "unknown"}, Post(c, outcome)
  PROVE  /\ posts' \subseteq [call : ResumeCalls, order : Orders, key : Keys,
                              outcome : {"accepted", "refused", "unknown"}]
         /\ local[c].order \in approved /\ local[c].order \in Orders
         /\ approved' = approved => EveryRefundWasApproved'
<1>1. c \in ResumeCalls /\ pc[c] = "run" /\ local[c].next = "submit_refund"
  BY DEF AtSubmit, At
<1>2. local[c].order \in approved /\ local[c].order \in Orders /\ decision[c].key \in Keys
  BY <1>1 DEF IInv, CallInv, StateInv, Good
<1>3. posts' = posts \cup {[call |-> c, order |-> local[c].order,
                            key |-> decision[c].key, outcome |-> outcome]}
  BY DEF Post
<1>4. EveryRefundWasApproved
  BY DEF IInv, RefundInv
<1>5. posts \subseteq [call : ResumeCalls, order : Orders, key : Keys,
                       outcome : {"accepted", "refused", "unknown"}]
  BY DEF IInv, CallInv
<1> QED BY <1>1, <1>2, <1>3, <1>4, <1>5 DEF EveryRefundWasApproved

LEMMA SubmitSteps ==
  ASSUME IInv, NEW c \in Calls, SubmitRefund(c) \/ SubmitRefundFails(c)
  PROVE  IInv'
<1>0. /\ Good(local[c], approved, refunded)
      /\ approved \subseteq Orders /\ refunded \subseteq Orders
  BY DEF IInv, StateInv, CallInv
<1>1. CASE SubmitRefund(c)
  <2> DEFINE st == [local[c] EXCEPT !.answer = "submitted", !.next = "save_turn"]
  <2>1. /\ AtSubmit(c) /\ Post(c, "accepted") /\ Step(c, st)
        /\ refunded' = refunded \cup {local[c].order}
        /\ UNCHANGED <<pc, decision, reply, historyVars>>
    BY <1>1 DEF SubmitRefund
  <2>2. pc[c] = "run" /\ local[c].next # "END"
    BY <2>1 DEF AtSubmit, At
  <2>3. /\ posts' \subseteq [call : ResumeCalls, order : Orders, key : Keys,
                             outcome : {"accepted", "refused", "unknown"}]
        /\ local[c].order \in Orders
        /\ approved' = approved
        /\ EveryRefundWasApproved'
    BY <2>1, PostTypes DEF historyVars
  <2>4. Good(st, approved', refunded')
    <3>1. Good(local[c], approved', refunded')
      BY <1>0, <2>1, <2>3, GoodStaysGood
    <3> QED BY <2>1, <2>2, <3>1, SubmittedGood
  <2> HIDE DEF st
  <2>5. /\ StateInv'
        /\ unsaved' \in Seq(Calls)
        /\ \A d : Contains(unsaved', d) <=> d = c \/ Contains(unsaved, d)
        /\ fresh' \in [Calls -> BOOLEAN]
        /\ UNCHANGED <<saved, latest, lost>>
        /\ \A d \in Calls : d # c => local'[d] = local[d]
    BY <2>1, <2>3, <2>4, StepEffect DEF IInv
  <2>6. CallInv'
    BY <1>0, <2>1, <2>3, <2>5 DEF IInv, CallInv, historyVars
  <2>7. RefundInv'
    BY <2>1, <2>3 DEF IInv, RefundInv
  <2>8. ApprovalInv'
    BY <2>1, <2>2, <2>5 DEF IInv, ApprovalInv, Showing, ShownApprovalWaits, Replied, Calls
  <2>9. CopyInv'
    BY <2>1, <2>5, CopyKept DEF IInv
  <2> QED BY <2>5, <2>6, <2>7, <2>8, <2>9 DEF IInv
<1>2. CASE SubmitRefundFails(c)
  <2>1. /\ AtSubmit(c) /\ pc[c] = "run"
        /\ UNCHANGED <<savedVars, local, fresh, decision, historyVars>>
    BY <1>2 DEF SubmitRefundFails, AtSubmit, At
  <2>2. \E outcome \in {"refused", "unknown"} : Post(c, outcome)
    BY <1>2 DEF SubmitRefundFails
  <2>3. /\ posts' \subseteq [call : ResumeCalls, order : Orders, key : Keys,
                             outcome : {"accepted", "refused", "unknown"}]
        /\ EveryRefundWasApproved'
    <3>1. approved' = approved
      BY <2>1 DEF historyVars
    <3> QED BY <2>1, <2>2, <3>1, PostTypes
  <2>4. refunded \subseteq refunded' /\ refunded' \subseteq Orders
    BY <1>0, <1>2, OrdersAssumption DEF SubmitRefundFails
  <2>5. \E code \in Codes \ {"APPROVAL_REQUIRED"} : End(c, code, "")
    BY <1>2 DEF SubmitRefundFails, Codes
  <2> QED BY <2>1, <2>3, <2>4, <2>5, EndStep
<1> QED BY <1>1, <1>2

LEMMA SaveTurnStep ==
  ASSUME IInv, NEW c \in Calls, SaveTurn(c)
  PROVE  IInv'
<1> DEFINE st == [local[c] EXCEPT !.history = AddTurn(@, [message |-> local[c].message,
                                                          answer |-> local[c].answer]),
                                  !.active = ActiveAfter(local[c]), !.next = "END"]
<1>0. Good(local[c], approved, refunded)
  BY DEF IInv, StateInv
<1>1. /\ pc[c] = "run" /\ local[c].next = "save_turn" /\ local[c].answer # ""
      /\ Step(c, st) /\ End(c, "OK", local[c].answer)
      /\ UNCHANGED <<decision, serviceVars, historyVars>>
  BY DEF SaveTurn, At
<1>2. Good(st, approved, refunded)
  BY <1>0, <1>1, SavedTurnGood
<1> HIDE DEF st
<1>3. /\ StateInv'
      /\ unsaved' \in Seq(Calls)
      /\ \A d : Contains(unsaved', d) <=> d = c \/ Contains(unsaved, d)
      /\ fresh' \in [Calls -> BOOLEAN]
      /\ UNCHANGED <<saved, latest, lost>>
      /\ \A d \in Calls : d # c => local'[d] = local[d]
  BY <1>1, <1>2, StepEffect DEF IInv, serviceVars, historyVars
<1>4. CallInv'
  <2>1. [code |-> "OK", answer |-> local[c].answer, order |-> local[c].order] \in
          [code : Codes, answer : Answers, order : Orders \cup {NoOrder}]
    BY <1>0 DEF Good, States, Codes
  <2>2. reply' \in [Calls -> [code : Codes, answer : Answers,
                              order : Orders \cup {NoOrder}]]
    BY <1>1, <2>1 DEF IInv, CallInv, End
  <2>3. pc' \in [Calls -> {"idle", "check", "resume", "run", "finish", "done", "dead"}]
    BY <1>1 DEF IInv, CallInv, End
  <2>4. \A d \in ResumeCalls : pc'[d] # "idle" => decision'[d].key \in Keys
    BY <1>1 DEF IInv, CallInv, End, Calls
  <2> QED BY <1>1, <1>3, <2>2, <2>3, <2>4 DEF IInv, CallInv, serviceVars, historyVars
<1>5. RefundInv'
  <2>1. \A d \in Calls : reply'[d].answer = "submitted" => reply'[d].order \in refunded'
    BY <1>0, <1>1 DEF IInv, RefundInv, CallInv, Good, End, serviceVars
  <2> QED BY <1>1, <2>1 DEF IInv, RefundInv, EveryRefundWasApproved, serviceVars, historyVars
<1>6. ApprovalInv'
  <2>1. pc'[c] = "finish" /\ reply'[c].code = "OK"
    BY <1>1 DEF IInv, CallInv, End
  <2>2. \A d \in Calls : d # c => pc'[d] = pc[d] /\ reply'[d] = reply[d]
    BY <1>1 DEF IInv, CallInv, End
  <2>3. ~Showing(c)' /\ ~Replied(c, "APPROVAL_REQUIRED")'
    BY <2>1 DEF Showing, Replied
  <2>4. \A d \in Calls : Contains(unsaved', d) => pc'[d] \in {"run", "finish"}
    BY <1>3, <2>1, <2>2 DEF IInv, ApprovalInv
  <2>5. \A d \in ChatCalls : d # c => (Showing(d)' <=> Showing(d))
    BY <1>3, <2>2 DEF Showing, Calls
  <2>6. \A d \in ChatCalls : d # c =>
          (Replied(d, "APPROVAL_REQUIRED")' <=> Replied(d, "APPROVAL_REQUIRED"))
    BY <2>2 DEF Replied, Calls
  <2>7. ShownApprovalWaits'
    BY <1>3, <2>2, <2>3, <2>6 DEF IInv, ApprovalInv, ShownApprovalWaits, Calls
  <2> QED BY <1>3, <2>2, <2>3, <2>4, <2>5, <2>7 DEF IInv, ApprovalInv, Calls
<1>7. CopyInv'
  <2>1. pc'[c] = "finish" /\ \A d \in Calls : d # c => pc'[d] = pc[d]
    BY <1>1 DEF IInv, CallInv, End
  <2> QED BY <1>3, <2>1, CopyKept DEF IInv
<1> QED BY <1>3, <1>4, <1>5, <1>6, <1>7 DEF IInv

LEMMA RunFailsStep ==
  ASSUME IInv, NEW c \in Calls, RunFails(c)
  PROVE  IInv'
<1>1. /\ pc[c] = "run" /\ End(c, "INTERNAL_ERROR", "")
      /\ UNCHANGED <<savedVars, local, fresh, decision, serviceVars, historyVars>>
  BY DEF RunFails
<1>2. /\ refunded \subseteq refunded' /\ refunded' \subseteq Orders
      /\ posts' \subseteq [call : ResumeCalls, order : Orders, key : Keys,
                           outcome : {"accepted", "refused", "unknown"}]
      /\ EveryRefundWasApproved'
  BY <1>1 DEF IInv, CallInv, RefundInv, EveryRefundWasApproved, serviceVars, historyVars
<1>3. "INTERNAL_ERROR" \in Codes \ {"APPROVAL_REQUIRED"}
  BY DEF Codes
<1> QED BY <1>1, <1>2, <1>3, EndStep

-----------------------------------------------------------------------------
(* The calls, the checkpoints and the process. *)

LEMMA StartSteps ==
  ASSUME IInv, NEW c \in Calls, StartChat(c) \/ StartResume(c)
  PROVE  IInv'
<1>1. CASE StartChat(c)
  <2> DEFINE st == NewGraphInput(saved, c)
  <2>1. /\ c \in ChatCalls /\ pc[c] = "idle"
        /\ pc' = [pc EXCEPT ![c] = "run"]
        /\ Step(c, st)
        /\ UNCHANGED <<decision, reply, serviceVars, approved>>
        /\ overlap' \in BOOLEAN
    BY <1>1 DEF StartChat, Begin, InProgress, IInv, CallInv
  <2>2. Good(st, approved, refunded)
    BY <2>1, NewInputGood DEF IInv, StateInv
  <2> HIDE DEF st
  <2>3. /\ StateInv'
        /\ unsaved' \in Seq(Calls)
        /\ \A d : Contains(unsaved', d) <=> d = c \/ Contains(unsaved, d)
        /\ fresh' \in [Calls -> BOOLEAN]
        /\ UNCHANGED <<saved, latest, lost>>
        /\ \A d \in Calls : d # c => local'[d] = local[d]
    BY <2>1, <2>2, StepEffect DEF IInv, serviceVars
  <2>4. CallInv'
    <3>1. \A d \in ResumeCalls : pc'[d] # "idle" => decision'[d].key \in Keys
      BY <2>1, CallsAssumption DEF IInv, CallInv, Calls
    <3> QED BY <2>1, <2>3, <3>1 DEF IInv, CallInv, serviceVars
  <2>5. RefundInv'
    BY <2>1 DEF IInv, RefundInv, EveryRefundWasApproved, serviceVars
  <2>6. ApprovalInv'
    <3>1. /\ pc'[c] = "run" /\ \A d \in Calls : d # c => pc'[d] = pc[d]
      BY <2>1 DEF IInv, CallInv
    <3>2. \A d \in Calls : Contains(unsaved', d) => pc'[d] \in {"run", "finish"}
      BY <2>3, <3>1 DEF IInv, ApprovalInv
    <3>3. \A d \in ChatCalls :
            /\ Showing(d)' => d # c /\ Showing(d)
            /\ Replied(d, "APPROVAL_REQUIRED")' => Replied(d, "APPROVAL_REQUIRED")
      BY <2>1, <2>3, <3>1 DEF Showing, Replied, Calls
    <3>4. ASSUME NEW d \in ChatCalls, Showing(d)'
          PROVE  /\ local'[d].interrupted /\ local'[d].order = reply'[d].order
                 /\ latest' = d /\ ~Contains(unsaved', d) =>
                      saved'.interrupted /\ saved'.order = reply'[d].order
      <4>1. d # c /\ d \in Calls /\ Showing(d)
        BY <3>3, <3>4 DEF Calls
      <4>2. /\ local'[d] = local[d] /\ (Contains(unsaved, d) => Contains(unsaved', d))
        BY <2>3, <4>1
      <4> QED BY <2>1, <2>3, <4>1, <4>2 DEF IInv, ApprovalInv
    <3>5. ShownApprovalWaits'
      BY <2>1, <2>3, <3>3 DEF IInv, ApprovalInv, ShownApprovalWaits
    <3> QED BY <3>2, <3>4, <3>5 DEF ApprovalInv
  <2>7. CopyInv'
    <3>1. pc'[c] = "run" /\ \A d \in Calls : d # c => pc'[d] = pc[d]
      BY <2>1 DEF IInv, CallInv
    <3> QED BY <2>3, <3>1, CopyKept DEF IInv
  <2> QED BY <2>3, <2>4, <2>5, <2>6, <2>7 DEF IInv
<1>2. CASE StartResume(c)
  <2>1. PICK yes \in BOOLEAN, k \in Keys, shown \in ChatCalls :
          decision' = [decision EXCEPT ![c] =
                         [approved |-> yes, key |-> k, order |-> reply[shown].order]]
    BY <1>2 DEF StartResume
  <2>2. /\ pc' = [pc EXCEPT ![c] = "check"] /\ pc[c] = "idle"
        /\ UNCHANGED <<savedVars, local, fresh, reply, serviceVars, approved>>
        /\ overlap' \in BOOLEAN
    BY <1>2 DEF StartResume, Begin, InProgress, IInv, CallInv
  <2>3. reply[shown].order \in Orders \cup {NoOrder}
    BY DEF IInv, CallInv, Calls
  <2>4. CallInv'
    <3>1. decision' \in [Calls -> [approved : BOOLEAN, key : Keys \cup {"none"},
                                   order : Orders \cup {NoOrder}]]
      BY <2>1, <2>3 DEF IInv, CallInv
    <3>2. \A d \in ResumeCalls : pc'[d] # "idle" => decision'[d].key \in Keys
      BY <2>1, <2>2 DEF IInv, CallInv, Calls
    <3>3. pc' \in [Calls -> {"idle", "check", "resume", "run", "finish", "done", "dead"}]
      BY <2>2 DEF IInv, CallInv
    <3> QED BY <2>2, <3>1, <3>2, <3>3 DEF IInv, CallInv, savedVars, serviceVars
  <2>5. StateInv'
    BY <2>2, StatesKept DEF IInv, savedVars, serviceVars
  <2>6. RefundInv'
    BY <2>2 DEF IInv, RefundInv, EveryRefundWasApproved, serviceVars
  <2>7. ApprovalInv'
    BY <2>2 DEF IInv, CallInv, ApprovalInv, Showing, ShownApprovalWaits, Replied, Calls, savedVars
  <2>8. CopyInv'
    BY <2>2 DEF IInv, CallInv, CopyInv, savedVars
  <2> QED BY <2>4, <2>5, <2>6, <2>7, <2>8 DEF IInv
<1> QED BY <1>1, <1>2

LEMMA ResumeSteps ==
  ASSUME IInv, NEW c \in Calls,
         CheckPending(c) \/ NothingPending(c) \/ ReadFails(c) \/ Resume(c)
  PROVE  IInv'
<1> USE DEF savedVars, serviceVars, historyVars
<1>1. CASE CheckPending(c)
  <2>1. StateInv'
    BY <1>1, StatesKept DEF IInv, CheckPending
  <2>2. CallInv'
    BY <1>1 DEF IInv, CallInv, CheckPending, Calls
  <2>3. RefundInv'
    BY <1>1 DEF IInv, RefundInv, EveryRefundWasApproved, CheckPending
  <2>4. ApprovalInv'
    BY <1>1 DEF IInv, CallInv, ApprovalInv, Showing, ShownApprovalWaits, Replied, Calls,
       CheckPending
  <2>5. CopyInv'
    BY <1>1 DEF IInv, CallInv, CopyInv, CheckPending
  <2> QED BY <2>1, <2>2, <2>3, <2>4, <2>5 DEF IInv
<1>2. CASE NothingPending(c) \/ ReadFails(c)
  <2>1. PICK code \in {"APPROVAL_NOT_PENDING", "INTERNAL_ERROR"} :
          /\ pc[c] \in {"check", "resume"} /\ pc' = [pc EXCEPT ![c] = "done"]
          /\ reply' = [reply EXCEPT ![c].code = code]
          /\ UNCHANGED <<savedVars, local, fresh, decision, serviceVars, historyVars>>
    BY <1>2 DEF NothingPending, ReadFails
  <2>2. /\ reply'[c].code = code
        /\ reply'[c].answer = reply[c].answer /\ reply'[c].order = reply[c].order
        /\ \A d \in Calls : d # c => reply'[d] = reply[d] /\ pc'[d] = pc[d]
        /\ pc'[c] = "done"
    BY <2>1 DEF IInv, CallInv
  <2>3. StateInv'
    BY <2>1, StatesKept DEF IInv
  <2>4. CallInv'
    <3>1. reply' \in [Calls -> [code : Codes, answer : Answers,
                                order : Orders \cup {NoOrder}]]
      BY <2>1 DEF IInv, CallInv, Codes
    <3>2. pc' \in [Calls -> {"idle", "check", "resume", "run", "finish", "done", "dead"}]
      BY <2>1 DEF IInv, CallInv
    <3>3. \A d \in ResumeCalls : pc'[d] # "idle" => decision'[d].key \in Keys
      BY <2>1, <2>2 DEF IInv, CallInv, Calls
    <3> QED BY <2>1, <3>1, <3>2, <3>3 DEF IInv, CallInv
  <2>5. RefundInv'
    BY <2>1, <2>2 DEF IInv, RefundInv, EveryRefundWasApproved
  <2>6. ApprovalInv'
    <3>1. ~Showing(c)' /\ ~Replied(c, "APPROVAL_REQUIRED")'
      BY <2>2 DEF Showing, Replied
    <3>2. \A d \in Calls : d # c =>
            /\ Showing(d)' <=> Showing(d)
            /\ Replied(d, "APPROVAL_REQUIRED")' <=> Replied(d, "APPROVAL_REQUIRED")
      BY <2>1, <2>2 DEF Showing, Replied
    <3>3. \A d \in Calls : Contains(unsaved', d) => pc'[d] \in {"run", "finish"}
      BY <2>1, <2>2 DEF IInv, ApprovalInv
    <3>4. ShownApprovalWaits'
      BY <2>1, <2>2, <3>1, <3>2 DEF IInv, ApprovalInv, ShownApprovalWaits, Calls
    <3> QED BY <2>1, <2>2, <3>1, <3>2, <3>3, <3>4 DEF IInv, ApprovalInv, Calls
  <2>7. CopyInv'
    BY <2>1, <2>2 DEF IInv, CallInv, CopyInv
  <2> QED BY <2>3, <2>4, <2>5, <2>6, <2>7 DEF IInv
<1>3. CASE Resume(c)
  <2>1. /\ pc[c] = "resume"
        /\ local' = [local EXCEPT ![c] = saved]
        /\ fresh' = [fresh EXCEPT ![c] = TRUE]
        /\ \/ pc' = [pc EXCEPT ![c] = "run"] /\ UNCHANGED reply
           \/ /\ pc' = [pc EXCEPT ![c] = "finish"]
              /\ reply' = [reply EXCEPT ![c] = [code |-> "OK", answer |-> saved.answer,
                                                order |-> saved.order]]
        /\ UNCHANGED <<savedVars, decision, serviceVars, historyVars>>
    BY <1>3 DEF Resume
  <2>2. Good(saved, approved, refunded) /\ saved \in States
    BY DEF IInv, StateInv, Good
  <2>3. StateInv'
    BY <2>1, <2>2 DEF IInv, StateInv
  <2>4. [code |-> "OK", answer |-> saved.answer, order |-> saved.order] \in
          [code : Codes, answer : Answers, order : Orders \cup {NoOrder}]
    BY <2>2 DEF States, Codes
  <2>5. CallInv'
    <3>1. reply' \in [Calls -> [code : Codes, answer : Answers,
                                order : Orders \cup {NoOrder}]]
      BY <2>1, <2>4 DEF IInv, CallInv
    <3>2. pc' \in [Calls -> {"idle", "check", "resume", "run", "finish", "done", "dead"}]
      BY <2>1 DEF IInv, CallInv
    <3>3. \A d \in ResumeCalls : pc'[d] # "idle" => decision'[d].key \in Keys
      BY <2>1 DEF IInv, CallInv, Calls
    <3>4. fresh' \in [Calls -> BOOLEAN]
      BY <2>1 DEF IInv, CallInv
    <3> QED BY <2>1, <3>1, <3>2, <3>3, <3>4 DEF IInv, CallInv
  <2>6. RefundInv'
    <3>1. \A d \in Calls : reply'[d].answer = "submitted" => reply'[d].order \in refunded'
      <4>1. saved.answer = "submitted" => saved.order \in refunded
        BY <2>2 DEF Good
      <4>2. \A d \in Calls : \/ reply'[d] = reply[d]
                             \/ reply'[d] = [code |-> "OK", answer |-> saved.answer,
                                             order |-> saved.order]
        BY <2>1 DEF IInv, CallInv
      <4> QED BY <2>1, <4>1, <4>2 DEF IInv, RefundInv
    <3> QED BY <2>1, <3>1 DEF IInv, RefundInv, EveryRefundWasApproved
  <2>7. ApprovalInv'
    <3>1. ~Showing(c)' /\ ~Replied(c, "APPROVAL_REQUIRED")' /\ pc'[c] \in {"run", "finish"}
      BY <2>1 DEF Showing, Replied, IInv, CallInv
    <3>2. \A d \in Calls : d # c =>
            /\ Showing(d)' <=> Showing(d)
            /\ Replied(d, "APPROVAL_REQUIRED")' <=> Replied(d, "APPROVAL_REQUIRED")
            /\ pc'[d] = pc[d] /\ reply'[d] = reply[d] /\ local'[d] = local[d]
      BY <2>1 DEF Showing, Replied, IInv, CallInv, StateInv
    <3>3. \A d \in Calls : Contains(unsaved', d) => pc'[d] \in {"run", "finish"}
      BY <2>1, <3>1, <3>2 DEF IInv, ApprovalInv
    <3>4. ShownApprovalWaits'
      BY <2>1, <3>1, <3>2 DEF IInv, ApprovalInv, ShownApprovalWaits, Calls
    <3> QED BY <2>1, <3>1, <3>2, <3>3, <3>4 DEF IInv, ApprovalInv, Calls
  <2>8. CopyInv'
    <3>1. /\ pc'[c] \in {"run", "finish"} /\ latest # c
          /\ \A d \in Calls : d # c => pc'[d] = pc[d] /\ local'[d] = local[d]
      BY <2>1 DEF IInv, CallInv, StateInv, CopyInv
    <3> QED BY <2>1, <3>1, CopyKept DEF IInv
  <2> QED BY <2>3, <2>5, <2>6, <2>7, <2>8 DEF IInv
<1> QED BY <1>1, <1>2, <1>3

LEMMA PersistStep ==
  ASSUME IInv, NEW c \in Calls, Persist(c)
  PROVE  IInv'
<1> DEFINE k == CHOOSE i \in DOMAIN unsaved : unsaved[i] = c
<1>1. /\ Contains(unsaved, c) /\ saved' = local[c] /\ latest' = c
      /\ unsaved' = SubSeq(unsaved, 1 + k, Len(unsaved))
      /\ UNCHANGED <<lost, callVars, decision, serviceVars, approved, overlap>>
  BY DEF Persist
<1>2. unsaved \in Seq(Calls)
  BY DEF IInv, CallInv
<1>3. k \in 1..Len(unsaved)
  <2>1. \E i \in DOMAIN unsaved : unsaved[i] = c
    BY <1>1, <1>2, LenProperties DEF Contains
  <2>2. k \in DOMAIN unsaved
    BY <2>1
  <2> QED BY <1>2, <2>2, LenProperties
<1>4. unsaved' \in Seq(Calls) /\ \A d : Contains(unsaved', d) => Contains(unsaved, d)
  <2> HIDE DEF k
  <2> QED BY <1>1, <1>2, <1>3, Dequeued
<1> HIDE DEF k
<1>5. StateInv'
  BY <1>1 DEF IInv, StateInv, callVars, serviceVars
<1>6. CallInv'
  BY <1>1, <1>4 DEF IInv, CallInv, callVars, serviceVars
<1>7. RefundInv'
  BY <1>1 DEF IInv, RefundInv, EveryRefundWasApproved, callVars, serviceVars
<1>8. pc[c] \in {"run", "finish"}
  BY <1>1 DEF IInv, ApprovalInv
<1>9. ApprovalInv'
  BY <1>1, <1>4, <1>8
     DEF IInv, ApprovalInv, Showing, ShownApprovalWaits, Replied, Calls, callVars
<1>10. CopyInv'
  BY <1>1, <1>8 DEF CopyInv, callVars
<1> QED BY <1>5, <1>6, <1>7, <1>9, <1>10 DEF IInv

LEMMA PersistFailsStep ==
  ASSUME IInv, NEW c \in Calls, PersistFails(c)
  PROVE  IInv'
<1>1. /\ pc[c] \in {"run", "finish"} /\ lost' = [lost EXCEPT ![c] = TRUE]
      /\ unsaved' \in {unsaved, RemoveFirst(unsaved, c)}
      /\ UNCHANGED <<saved, latest, callVars, decision, serviceVars, historyVars>>
  BY DEF PersistFails
<1>2. /\ unsaved' \in Seq(Calls)
      /\ \A d : d # c => (Contains(unsaved', d) <=> Contains(unsaved, d))
  BY <1>1, Unqueued DEF IInv, CallInv
<1>3. /\ lost' \in [Calls -> BOOLEAN] /\ lost'[c]
      /\ \A d \in Calls : d # c => lost'[d] = lost[d]
  BY <1>1 DEF IInv, CallInv
<1>4. UNCHANGED <<pc, local, fresh, reply, refunded, posts, approved, overlap>>
  BY <1>1 DEF callVars, serviceVars, historyVars
<1>5. StateInv'
  BY <1>1, <1>4, StatesKept DEF IInv
<1>6. CallInv'
  BY <1>1, <1>2, <1>3, <1>4 DEF IInv, CallInv
<1>7. RefundInv'
  BY <1>4 DEF IInv, RefundInv, EveryRefundWasApproved
<1>8. ApprovalInv'
  <2>1. \A d \in Calls : Contains(unsaved', d) => pc'[d] \in {"run", "finish"}
    BY <1>1, <1>2, <1>4 DEF IInv, ApprovalInv
  <2>2. ~Showing(c)' /\ \A d \in Calls : d # c => (Showing(d)' <=> Showing(d))
    BY <1>3, <1>4 DEF Showing
  <2>3. ShownApprovalWaits'
    BY <1>1, <1>4 DEF IInv, ApprovalInv, ShownApprovalWaits, Replied
  <2> QED BY <1>1, <1>2, <1>4, <2>1, <2>2, <2>3 DEF IInv, ApprovalInv, Calls
<1>9. CopyInv'
  BY <1>1, <1>2, <1>3, <1>4, CopyKept DEF IInv
<1> QED BY <1>5, <1>6, <1>7, <1>8, <1>9 DEF IInv

LEMMA FinishStep ==
  ASSUME IInv, NEW c \in Calls, Finish(c)
  PROVE  IInv'
<1> USE DEF savedVars, serviceVars, historyVars
<1>1. /\ pc[c] = "finish" /\ ~Contains(unsaved, c)
      /\ pc' = [pc EXCEPT ![c] = "done"]
      /\ local' = [local EXCEPT ![c] = NoState]
      /\ reply' = IF lost[c] /\ reply[c].code \in {"OK", "APPROVAL_REQUIRED"}
                    THEN [reply EXCEPT ![c].code = "INTERNAL_ERROR", ![c].answer = ""]
                    ELSE reply
      /\ UNCHANGED <<savedVars, fresh, decision, serviceVars, historyVars>>
  BY DEF Finish
<1>7. /\ reply' \in [Calls -> [code : Codes, answer : Answers,
                                order : Orders \cup {NoOrder}]]
      /\ \A d \in Calls : d # c => reply'[d] = reply[d]
      /\ reply'[c].order = reply[c].order
      /\ reply'[c].answer = reply[c].answer \/ reply'[c].answer = ""
      /\ reply'[c].code = "APPROVAL_REQUIRED" =>
           ~lost[c] /\ reply[c].code = "APPROVAL_REQUIRED"
  BY <1>1 DEF IInv, CallInv, Codes, Answers
<1>2. NoState \in States /\ Good(NoState, approved, refunded)
  BY NoStateGood DEF Good
<1>3. StateInv'
  BY <1>1, <1>2 DEF IInv, StateInv
<1>4. CallInv'
  <2>1. pc' \in [Calls -> {"idle", "check", "resume", "run", "finish", "done", "dead"}]
    BY <1>1 DEF IInv, CallInv
  <2>2. \A d \in ResumeCalls : pc'[d] # "idle" => decision'[d].key \in Keys
    BY <1>1 DEF IInv, CallInv, Calls
  <2> QED BY <1>1, <1>7, <2>1, <2>2 DEF IInv, CallInv
<1>5. RefundInv'
  <2>1. \A d \in Calls : reply[d].answer = "submitted" => reply[d].order \in refunded
    BY DEF IInv, RefundInv
  <2>2. \A d \in Calls : reply'[d].answer = "submitted" => reply'[d].order \in refunded
    BY <1>7, <2>1
  <2> QED BY <1>1, <2>2 DEF IInv, RefundInv, EveryRefundWasApproved
<1>6. ApprovalInv'
  <2>1. \A d \in Calls : d # c => pc'[d] = pc[d] /\ local'[d] = local[d]
    BY <1>1 DEF IInv, CallInv, StateInv
  <2>2. pc'[c] = "done"
    BY <1>1 DEF IInv, CallInv
  <2>3. \A d \in Calls : Contains(unsaved', d) => pc'[d] \in {"run", "finish"}
    BY <1>1, <2>1 DEF IInv, ApprovalInv
  <2>4. ~Showing(c)' /\ \A d \in Calls : d # c => (Showing(d)' <=> Showing(d))
    BY <1>1, <1>7, <2>1, <2>2 DEF Showing
  <2>5. ShownApprovalWaits'
    <3>1. ASSUME NEW d \in ChatCalls, Replied(d, "APPROVAL_REQUIRED")', latest' = d
          PROVE  saved'.interrupted /\ saved'.order = reply'[d].order
      <4>1. CASE d = c
        <5>1. Showing(c) /\ c \in ChatCalls
          BY <1>1, <1>7, <3>1, <4>1 DEF Showing, Replied
        <5>2. reply[c].code = "APPROVAL_REQUIRED" /\ reply'[c].order = reply[c].order
          BY <1>7, <5>1 DEF Showing
        <5>3. latest = c /\ ~Contains(unsaved, c) =>
                saved.interrupted /\ saved.order = reply[c].order
          BY <5>1 DEF IInv, ApprovalInv
        <5> QED BY <1>1, <3>1, <4>1, <5>2, <5>3
      <4>2. CASE d # c
        <5>1. Replied(d, "APPROVAL_REQUIRED")
          BY <1>1, <1>7, <2>1, <3>1, <4>2 DEF Replied, Calls
        <5>2. reply'[d] = reply[d] /\ saved' = saved /\ latest' = latest
          BY <1>1, <1>7, <4>2 DEF Calls
        <5>3. latest = d => saved.interrupted /\ saved.order = reply[d].order
          BY <5>1 DEF IInv, ApprovalInv, ShownApprovalWaits
        <5> QED BY <3>1, <5>2, <5>3
      <4> QED BY <4>1, <4>2
    <3> QED BY <3>1 DEF ShownApprovalWaits
  <2>6. ASSUME NEW d \in ChatCalls, Showing(d)'
        PROVE  /\ local'[d].interrupted /\ local'[d].order = reply'[d].order
               /\ latest' = d /\ ~Contains(unsaved', d) =>
                    saved'.interrupted /\ saved'.order = reply'[d].order
    <3>1. d # c /\ d \in Calls /\ Showing(d)
      BY <2>4, <2>6 DEF Calls
    <3>2. /\ reply'[d] = reply[d] /\ local'[d] = local[d]
          /\ UNCHANGED <<saved, latest, unsaved>>
      BY <1>1, <1>7, <2>1, <3>1
    <3> QED BY <3>1, <3>2 DEF IInv, ApprovalInv
  <2> QED BY <2>3, <2>5, <2>6 DEF ApprovalInv
<1>8. CopyInv'
  <2>1. pc'[c] = "done" /\ \A d \in Calls : d # c => pc'[d] = pc[d] /\ local'[d] = local[d]
    BY <1>1 DEF IInv, CallInv, StateInv
  <2> QED BY <1>1, <2>1, CopyKept DEF IInv
<1> QED BY <1>3, <1>4, <1>5, <1>6, <1>8 DEF IInv

LEMMA CrashStep ==
  ASSUME IInv, Crash
  PROVE  IInv'
<1> USE DEF serviceVars, historyVars
<1>1. /\ pc' = [c \in Calls |-> IF pc[c] \in {"idle", "done"} THEN pc[c] ELSE "dead"]
      /\ reply' = [c \in Calls |-> IF pc[c] = "done" THEN reply[c] ELSE NoReply]
      /\ local' = [c \in Calls |-> NoState]
      /\ fresh' = [c \in Calls |-> FALSE]
      /\ unsaved' = <<>>
      /\ UNCHANGED <<saved, latest, lost, decision, serviceVars, historyVars>>
  BY DEF Crash
<1>2. NoState \in States /\ Good(NoState, approved, refunded)
  BY NoStateGood DEF Good
<1>3. StateInv'
  BY <1>1, <1>2 DEF IInv, StateInv
<1>4. unsaved' \in Seq(Calls) /\ \A d : ~Contains(unsaved', d)
  BY <1>1, EmptySeq DEF Contains
<1>5. NoReply \in [code : Codes, answer : Answers, order : Orders \cup {NoOrder}]
      /\ NoReply.answer # "submitted"
  BY DEF NoReply, Codes, Answers
<1>6. CallInv'
  <2>1. pc' \in [Calls -> {"idle", "check", "resume", "run", "finish", "done", "dead"}]
    BY <1>1 DEF IInv, CallInv
  <2>2. \A d \in ResumeCalls : pc'[d] # "idle" => decision'[d].key \in Keys
    BY <1>1 DEF IInv, CallInv, Calls
  <2>3. reply' \in [Calls -> [code : Codes, answer : Answers, order : Orders \cup {NoOrder}]]
    BY <1>1, <1>5 DEF IInv, CallInv
  <2> QED BY <1>1, <1>4, <2>1, <2>2, <2>3 DEF IInv, CallInv
<1>7. RefundInv'
  BY <1>1, <1>5 DEF IInv, RefundInv, EveryRefundWasApproved
<1>8. ApprovalInv'
  <2>1. \A d \in Calls : ~Showing(d)'
    BY <1>1 DEF Showing
  <2>2. \A d \in Calls : Replied(d, "APPROVAL_REQUIRED")' =>
          Replied(d, "APPROVAL_REQUIRED") /\ reply'[d] = reply[d]
    BY <1>1 DEF Replied
  <2> QED BY <1>1, <1>4, <2>1, <2>2 DEF IInv, ApprovalInv, ShownApprovalWaits, Calls
<1>9. CopyInv'
  BY <1>1 DEF IInv, CopyInv
<1> QED BY <1>3, <1>6, <1>7, <1>8, <1>9 DEF IInv

LEMMA NextIInv == IInv /\ [Next]_vars => IInv'
<1> SUFFICES ASSUME IInv, [Next]_vars PROVE IInv'
  OBVIOUS
<1>1. ASSUME NEW c \in Calls,
             StartChat(c) \/ StartResume(c) \/ CheckPending(c) \/ NothingPending(c)
               \/ ReadFails(c) \/ Resume(c) \/ Node(c) \/ RunFails(c)
               \/ Persist(c) \/ PersistFails(c) \/ Finish(c)
      PROVE  IInv'
  BY <1>1, StartSteps, ResumeSteps, NodeSteps, ApprovalSteps, SubmitSteps,
     SaveTurnStep, RunFailsStep, PersistStep, PersistFailsStep, FinishStep DEF Node
<1>2. CASE Crash
  BY <1>2, CrashStep
<1>3. CASE UNCHANGED vars
  <2> USE <1>3 DEF vars
  <2>1. StateInv'
    BY StatesKept DEF IInv
  <2>2. CallInv'
    BY DEF IInv, CallInv
  <2>3. RefundInv'
    BY DEF IInv, RefundInv, EveryRefundWasApproved
  <2>4. ApprovalInv'
    BY DEF IInv, ApprovalInv, Showing, ShownApprovalWaits, Replied
  <2>5. CopyInv'
    BY DEF IInv, CopyInv
  <2> QED BY <2>1, <2>2, <2>3, <2>4, <2>5 DEF IInv
<1> QED BY <1>1, <1>2, <1>3 DEF Next

-----------------------------------------------------------------------------
(* The inductive invariant holds in every state that calls, crashes and     *)
(* late or lost checkpoints of one thread reach.                            *)
THEOREM AgentInvariance == Spec => []IInv
BY InitIInv, NextIInv, PTL DEF Spec

(* Every variable has its type, and no history outgrows                     *)
(* history_max_messages (SupportAgentNodes.save_turn).                      *)
THEOREM AgentTypeCorrect == Spec => []TypeOK
<1>1. IInv => TypeOK
  BY DEF IInv, StateInv, CallInv, Good, TypeOK
<1> QED BY <1>1, AgentInvariance, PTL

(* No refund request is sent for an order whose pause no run took as        *)
(* approved (request_refund_approval, submit_refund).                       *)
THEOREM RefundsAreApproved == Spec => []EveryRefundWasApproved
<1>1. IInv => EveryRefundWasApproved
  BY DEF IInv, RefundInv
<1> QED BY <1>1, AgentInvariance, PTL

(* Whichever call answers that a refund has been submitted, and however     *)
(* late, the order is REFUNDING (submit_refund, resume_refund).             *)
THEOREM SubmittedRepliesAreTrue == Spec => []SubmittedReplyIsTrue
<1>1. IInv => SubmittedReplyIsTrue
  BY DEF IInv, RefundInv, SubmittedReplyIsTrue
<1> QED BY <1>1, AgentInvariance, PTL

(* An approval that was shown waits in PostgreSQL until another call moves  *)
(* the thread (chat, request_refund_approval).                              *)
THEOREM ShownApprovalsWait == Spec => []ShownApprovalWaits
<1>1. IInv => ShownApprovalWaits
  BY DEF IInv, ApprovalInv
<1> QED BY <1>1, AgentInvariance, PTL

(* A later question is never silently about an order that was not found as  *)
(* one of the user's (analyze_intent, save_turn).                           *)
THEOREM ActiveOrdersAreOwned == Spec => []ActiveOrderWasFound
<1>1. IInv => ActiveOrderWasFound
  BY DEF IInv, StateInv, Good, ActiveOrderWasFound
<1> QED BY <1>1, AgentInvariance, PTL

-----------------------------------------------------------------------------
(* No call has two checkpoints on their way: Step replaces the older one.   *)

Distinct(s) == \A i, j \in 1..Len(s) : s[i] = s[j] => i = j

LEMMA UnqueuedDistinct ==
  ASSUME NEW S, NEW s \in Seq(S), NEW e, Distinct(s)
  PROVE  LET r == RemoveFirst(s, e) IN r \in Seq(S) /\ Distinct(r) /\ ~Contains(r, e)
<1> DEFINE r == RemoveFirst(s, e)
<1>1. CASE Contains(s, e)
  <2>1. PICK i \in 1..Len(s) : s[i] = e /\ r = RemoveAt(s, i)
    BY <1>1, FirstPlace
  <2>2. /\ r \in Seq(S) /\ Len(r) = Len(s) - 1
        /\ \A j \in 1..(Len(s) - 1) : r[j] = IF j < i THEN s[j] ELSE s[j + 1]
    BY <2>1, WithoutPlace
  <2>3. Len(s) \in Nat
    BY LenProperties
  <2> HIDE DEF r
  <2> DEFINE place(j) == IF j < i THEN j ELSE j + 1
  <2>4. \A j \in 1..Len(r) : /\ place(j) \in 1..Len(s) /\ place(j) # i
                             /\ r[j] = s[place(j)]
    BY <2>2, <2>3
  <2>5. \A j, k \in 1..Len(r) : place(j) = place(k) => j = k
    BY <2>2, <2>3
  <2> HIDE DEF place
  <2>6. Distinct(r)
    BY <2>4, <2>5 DEF Distinct
  <2>7. ~Contains(r, e)
    BY <2>1, <2>4 DEF Distinct, Contains
  <2> QED BY <2>2, <2>6, <2>7 DEF r
<1>2. CASE ~Contains(s, e)
  BY <1>2 DEF RemoveFirst, Contains
<1> QED BY <1>1, <1>2

LEMMA RequeuedDistinct ==
  ASSUME NEW S, NEW s \in Seq(S), NEW e \in S, Distinct(s)
  PROVE  Distinct(Append(RemoveFirst(s, e), e))
<1> DEFINE r == RemoveFirst(s, e)
           t == Append(r, e)
<1>1. r \in Seq(S) /\ Distinct(r) /\ ~Contains(r, e)
  BY UnqueuedDistinct
<1> HIDE DEF r
<1>2. /\ Len(t) = Len(r) + 1 /\ Len(r) \in Nat
      /\ \A j \in 1..Len(r) : t[j] = r[j]
      /\ t[Len(r) + 1] = e
  BY <1>1, AppendProperties, LenProperties
<1> HIDE DEF t
<1>3. Distinct(t)
  BY <1>1, <1>2 DEF Distinct, Contains
<1> QED BY <1>3 DEF r, t

LEMMA DequeuedDistinct ==
  ASSUME NEW S, NEW s \in Seq(S), NEW k \in 1..Len(s), Distinct(s)
  PROVE  /\ Distinct(SubSeq(s, 1 + k, Len(s)))
         /\ ~Contains(SubSeq(s, 1 + k, Len(s)), s[k])
<1> DEFINE t == SubSeq(s, 1 + k, Len(s))
<1>0. Len(s) \in Nat /\ \A j \in 1..Len(s) : s[j] \in S
  BY LenProperties, ElementOfSeq
<1>1. \A j \in (1 + k)..Len(s) : s[j] \in S
  BY <1>0
<1>2. 1 + k \in Int /\ Len(s) \in Int
  BY <1>0
<1>3. /\ Len(t) = IF 1 + k <= Len(s) THEN Len(s) - (1 + k) + 1 ELSE 0
      /\ \A i \in 1..(Len(s) - (1 + k) + 1) : t[i] = s[(1 + k) + i - 1]
  BY <1>1, <1>2, SubSeqProperties
<1> HIDE DEF t
<1>4. \A i \in 1..Len(t) : t[i] = s[k + i] /\ k + i \in 1..Len(s)
  <2>1. \A i \in 1..Len(t) : i \in 1..(Len(s) - (1 + k) + 1)
    BY <1>0, <1>3
  <2>2. \A i \in 1..Len(t) : (1 + k) + i - 1 = k + i /\ k + i \in 1..Len(s)
    BY <1>0, <2>1
  <2> QED BY <1>3, <2>1, <2>2
<1>5. Len(t) \in Nat
  BY <1>0, <1>3
<1>6. Distinct(t)
  BY <1>0, <1>4, <1>5 DEF Distinct
<1>7. ~Contains(t, s[k])
  BY <1>0, <1>4, <1>5 DEF Distinct, Contains
<1> QED BY <1>6, <1>7 DEF t

LEMMA PersistTakesOut ==
  ASSUME IInv, Distinct(unsaved), NEW c \in Calls, Persist(c)
  PROVE  Distinct(unsaved') /\ ~Contains(unsaved', c)
<1>0. unsaved \in Seq(Calls)
  BY DEF IInv, CallInv
<1> DEFINE k == CHOOSE i \in DOMAIN unsaved : unsaved[i] = c
<1>1. unsaved' = SubSeq(unsaved, 1 + k, Len(unsaved)) /\ Contains(unsaved, c)
  BY DEF Persist
<1>2. k \in 1..Len(unsaved) /\ unsaved[k] = c
  <2>1. \E i \in DOMAIN unsaved : unsaved[i] = c
    BY <1>0, <1>1, LenProperties DEF Contains
  <2>2. k \in DOMAIN unsaved /\ unsaved[k] = c
    BY <2>1
  <2> QED BY <1>0, <2>2, LenProperties
<1> HIDE DEF k
<1> QED BY <1>0, <1>1, <1>2, DequeuedDistinct

LEMMA QueueDistinct ==
  ASSUME IInv, Distinct(unsaved), [Next]_vars
  PROVE  Distinct(unsaved')
<1>1. unsaved \in Seq(Calls)
  BY DEF IInv, CallInv
<1>2. ASSUME NEW c \in Calls, NEW st, Step(c, st)
      PROVE  Distinct(unsaved')
  BY <1>1, <1>2, RequeuedDistinct DEF Step
<1>3. ASSUME NEW c \in Calls,
             StartChat(c) \/ AnalyzeIntent(c) \/ SetAnswer(c) \/ QueryOrder(c)
               \/ RetrieveKnowledge(c) \/ GenerateKnowledgeAnswer(c)
               \/ TakeDecision(c) \/ SubmitRefund(c) \/ SaveTurn(c)
      PROVE  \E st : Step(c, st)
  BY <1>3 DEF StartChat, AnalyzeIntent, SetAnswer, QueryOrder, RetrieveKnowledge,
     GenerateKnowledgeAnswer, TakeDecision, SubmitRefund, SaveTurn
<1>4. ASSUME NEW c \in Calls,
             StartResume(c) \/ CheckPending(c) \/ NothingPending(c) \/ ReadFails(c)
               \/ Resume(c) \/ RequestRefundApproval(c) \/ SubmitRefundFails(c)
               \/ RunFails(c) \/ Finish(c)
      PROVE  Distinct(unsaved')
  BY <1>4 DEF StartResume, CheckPending, NothingPending, ReadFails, Resume,
     RequestRefundApproval, SubmitRefundFails, RunFails, Finish, savedVars
<1>5. ASSUME NEW c \in Calls, Persist(c)
      PROVE  Distinct(unsaved')
  BY <1>5, PersistTakesOut
<1>6. CASE Crash
  BY <1>6, EmptySeq DEF Crash, Distinct
<1>7. CASE UNCHANGED vars
  BY <1>7 DEF vars
<1>8. ASSUME NEW c \in Calls, PersistFails(c)
      PROVE  Distinct(unsaved')
  BY <1>1, <1>8, UnqueuedDistinct DEF PersistFails
<1> QED BY <1>2, <1>3, <1>4, <1>5, <1>6, <1>7, <1>8 DEF Next, Node

-----------------------------------------------------------------------------
(* The history of calls that do not overlap: that in PostgreSQL holds the   *)
(* last turns, and the only run there is works on that very history, until  *)
(* it has added its turn to it.  The checkpoint of that may then be lost.   *)

Recent(history, all) ==
  /\ history = SubSeq(all, 1 + Len(all) - Len(history), Len(all))
  /\ Len(history) = IF Len(all) < HistoryTurns THEN Len(all) ELSE HistoryTurns

OwnHistory(c) ==
  IF local[c].next = "END"
    THEN Contains(unsaved, c) =>
           \E turn \in Turns : local[c].history = AddTurn(saved.history, turn)
    ELSE local[c].history = saved.history

HistoryInv ==
  ~overlap =>
    /\ \A c, d \in Calls : InProgress(c) /\ InProgress(d) => c = d
    /\ turns \in Seq(Turns) /\ Recent(saved.history, turns)
    /\ \A c \in Calls : pc[c] \in {"run", "finish"} => OwnHistory(c)

LEMMA RecentPlaces ==
  ASSUME NEW all \in Seq(Turns), NEW h \in Seq(Turns), Len(h) <= Len(all)
  PROVE  h = SubSeq(all, 1 + Len(all) - Len(h), Len(all))
           <=> \A i \in 1..Len(h) : h[i] = all[Len(all) - Len(h) + i]
<1> DEFINE n == Len(all)
           m == Len(h)
           s == SubSeq(all, 1 + n - m, n)
<1>1. n \in Nat /\ m \in Nat /\ m <= n /\ \A i \in 1..n : all[i] \in Turns
  BY LenProperties, ElementOfSeq
<1>2. \A i \in (1 + n - m)..n : all[i] \in Turns
  BY <1>1
<1>3. 1 + n - m \in Int /\ n \in Int
  BY <1>1
<1>4. /\ s \in Seq(Turns)
      /\ Len(s) = IF 1 + n - m <= n THEN n - (1 + n - m) + 1 ELSE 0
      /\ \A i \in 1..(n - (1 + n - m) + 1) : s[i] = all[(1 + n - m) + i - 1]
  <2> HIDE DEF n, m
  <2> QED BY <1>2, <1>3, SubSeqProperties
<1> HIDE DEF s, n, m
<1>5. Len(s) = m /\ \A i \in 1..m : s[i] = all[n - m + i]
  <2>1. n - (1 + n - m) + 1 = m
    BY <1>1
  <2>2. Len(s) = m
    BY <1>1, <1>4, <2>1
  <2>3. \A i \in 1..m : (1 + n - m) + i - 1 = n - m + i
    BY <1>1
  <2> QED BY <1>4, <2>1, <2>2, <2>3
<1>6. h = s <=> \A i \in 1..m : h[i] = s[i]
  <2>1. ASSUME \A i \in 1..m : h[i] = s[i]
        PROVE  h = s
    BY <1>4, <1>5, <2>1, SeqEqual DEF m
  <2> QED BY <2>1
<1> QED BY <1>5, <1>6 DEF s, n, m

(* save_turn keeps the history that of the last turns. *)
LEMMA RecentTurnAdded ==
  ASSUME NEW all \in Seq(Turns), NEW h \in Seq(Turns), NEW turn \in Turns,
         Recent(h, all)
  PROVE  Recent(AddTurn(h, turn), Append(all, turn)) /\ Last(AddTurn(h, turn)) = turn
<1> DEFINE n == Len(all)
           m == Len(h)
           more == Append(all, turn)
           g == AddTurn(h, turn)
<1>1. n \in Nat /\ m \in Nat /\ HistoryTurns \in Nat \ {0}
  BY LenProperties, HistoryAssumption
<1>2. m = (IF n < HistoryTurns THEN n ELSE HistoryTurns) /\ m <= n
  BY <1>1 DEF Recent
<1>3. \A i \in 1..m : h[i] = all[n - m + i]
  BY <1>2, RecentPlaces DEF Recent
<1>4. /\ more \in Seq(Turns) /\ Len(more) = n + 1
      /\ \A i \in 1..n : more[i] = all[i]
      /\ more[n + 1] = turn
  BY AppendProperties
<1>5. CASE m < HistoryTurns
  <2>1. g = Append(h, turn)
    BY <1>5 DEF AddTurn
  <2>2. /\ g \in Seq(Turns) /\ Len(g) = m + 1
        /\ \A i \in 1..m : g[i] = h[i]
        /\ g[m + 1] = turn
    BY <2>1, AppendProperties
  <2> HIDE DEF g, more, n, m
  <2>3. m = n
    BY <1>1, <1>2, <1>5
  <2>4. \A i \in 1..Len(g) : g[i] = more[Len(more) - Len(g) + i]
    BY <1>1, <1>3, <1>4, <2>2, <2>3
  <2>5. Len(g) <= Len(more)
    BY <1>1, <1>4, <2>2, <2>3
  <2>6. g = SubSeq(more, 1 + Len(more) - Len(g), Len(more))
    BY <1>4, <2>2, <2>4, <2>5, RecentPlaces
  <2>7. Len(g) = IF Len(more) < HistoryTurns THEN Len(more) ELSE HistoryTurns
    BY <1>1, <1>4, <1>5, <2>2, <2>3
  <2> QED BY <2>2, <2>6, <2>7 DEF Recent, Last, g, more
<1>6. CASE ~(m < HistoryTurns)
  <2>1. m = HistoryTurns /\ h # <<>>
    BY <1>1, <1>2, <1>6, EmptySeq
  <2>2. /\ Tail(h) \in Seq(Turns) /\ Len(Tail(h)) = m - 1
        /\ \A i \in 1..Len(Tail(h)) : Tail(h)[i] = h[i + 1]
    BY <2>1, HeadTailProperties
  <2>3. g = Append(Tail(h), turn)
    BY <1>6 DEF AddTurn
  <2>4. /\ g \in Seq(Turns) /\ Len(g) = Len(Tail(h)) + 1
        /\ \A i \in 1..Len(Tail(h)) : g[i] = Tail(h)[i]
        /\ g[Len(Tail(h)) + 1] = turn
    BY <2>2, <2>3, AppendProperties
  <2> HIDE DEF g, more, n, m
  <2>5. Len(g) = m /\ g[m] = turn /\ \A i \in 1..(m - 1) : g[i] = h[i + 1]
    BY <1>1, <2>1, <2>2, <2>4
  <2>6. ASSUME NEW i \in 1..Len(g)
        PROVE  g[i] = more[Len(more) - Len(g) + i]
    <3>1. Len(more) - Len(g) + i = n - m + (i + 1)
      BY <1>1, <1>4, <2>5
    <3>2. CASE i = m
      BY <1>1, <1>4, <2>5, <3>1, <3>2
    <3>3. CASE i # m
      <4>1. i \in 1..(m - 1) /\ i + 1 \in 1..m /\ n - m + (i + 1) \in 1..n
        BY <1>1, <1>2, <2>5, <3>3
      <4> QED BY <1>3, <1>4, <2>5, <3>1, <4>1
    <3> QED BY <3>2, <3>3
  <2>7. Len(g) <= Len(more)
    BY <1>1, <1>2, <1>4, <2>5
  <2>8. g = SubSeq(more, 1 + Len(more) - Len(g), Len(more))
    BY <1>4, <2>4, <2>6, <2>7, RecentPlaces
  <2>9. Len(g) = IF Len(more) < HistoryTurns THEN Len(more) ELSE HistoryTurns
    BY <1>1, <1>2, <1>4, <2>1, <2>5
  <2> QED BY <2>5, <2>8, <2>9 DEF Recent, Last, g, more
<1> QED BY <1>5, <1>6

(* A step of the one run there is. *)
LEMMA HistoryKept ==
  ASSUME HistoryInv, NEW c \in Calls, InProgress(c), UNCHANGED <<turns, overlap>>,
         \A d \in Calls : d # c => pc'[d] = pc[d],
         ~overlap => saved'.history = saved.history,
         ~overlap => (pc'[c] \in {"run", "finish"} => OwnHistory(c)')
  PROVE  HistoryInv'
<1> SUFFICES ASSUME ~overlap
             PROVE  /\ \A d, e \in Calls : InProgress(d)' /\ InProgress(e)' => d = e
                    /\ Recent(saved'.history, turns)
                    /\ \A d \in Calls : pc'[d] \in {"run", "finish"} => OwnHistory(d)'
  BY DEF HistoryInv
<1>1. \A d \in Calls : d # c => ~InProgress(d) /\ pc'[d] = pc[d]
  BY DEF HistoryInv
<1>2. \A d \in Calls : d # c => ~InProgress(d)' /\ pc'[d] \notin {"run", "finish"}
  BY <1>1 DEF InProgress
<1>3. Recent(saved'.history, turns)
  BY DEF HistoryInv
<1> QED BY <1>2, <1>3

LEMMA HistoryOfStep ==
  ASSUME IInv, HistoryInv, NEW c \in Calls, pc[c] = "run", local[c].next # "END",
         NEW st, Step(c, st), st.history = local[c].history, st.next # "END",
         UNCHANGED <<pc, turns, overlap>>
  PROVE  HistoryInv'
<1>1. local'[c] = st /\ saved' = saved
  BY DEF Step, IInv, StateInv
<1>2. ~overlap => OwnHistory(c)
  BY DEF HistoryInv
<1>3. ~overlap => OwnHistory(c)'
  BY <1>1, <1>2 DEF OwnHistory
<1>4. InProgress(c)
  BY DEF InProgress
<1> QED BY <1>1, <1>3, <1>4, HistoryKept

LEMMA HistoryOfNodes ==
  ASSUME IInv, HistoryInv, NEW c \in Calls,
         AnalyzeIntent(c) \/ SetAnswer(c) \/ QueryOrder(c) \/ RetrieveKnowledge(c)
           \/ GenerateKnowledgeAnswer(c) \/ TakeDecision(c) \/ SubmitRefund(c)
  PROVE  HistoryInv'
<1>0. local[c] \in States
  BY DEF IInv, StateInv
<1>1. /\ pc[c] = "run" /\ local[c].next # "END"
      /\ UNCHANGED <<pc, turns, overlap>>
  BY NodeNames DEF AnalyzeIntent, SetAnswer, QueryOrder, RetrieveKnowledge,
     GenerateKnowledgeAnswer, TakeDecision, SubmitRefund, AtSubmit, At, historyVars
<1>2. \E st : Step(c, st) /\ st.history = local[c].history /\ st.next # "END"
  <2>1. CASE AnalyzeIntent(c)
    <3>1. PICK used : Step(c, [local[c] EXCEPT !.intent = used.intent,
                                               !.order = used.order,
                                               !.next = RouteAfterIntent(used)])
      BY <2>1 DEF AnalyzeIntent
    <3> DEFINE t == [local[c] EXCEPT !.intent = used.intent, !.order = used.order,
                                     !.next = RouteAfterIntent(used)]
    <3>2. t.history = local[c].history /\ t.next # "END"
      BY <1>0, RouteTypes DEF States
    <3> HIDE DEF t
    <3> QED BY <3>1, <3>2 DEF t
  <2>2. CASE SetAnswer(c)
    <3> DEFINE t == [local[c] EXCEPT !.answer = AnswerOf[local[c].next],
                                     !.next = "save_turn"]
    <3>1. Step(c, t)
      BY <2>2 DEF SetAnswer
    <3>2. t.history = local[c].history /\ t.next # "END"
      BY <1>0 DEF States
    <3> HIDE DEF t
    <3> QED BY <3>1, <3>2
  <2>3. CASE QueryOrder(c)
    <3> DEFINE found == local[c].order \in OwnedOrders
               q == [local[c] EXCEPT !.found = found]
               t == [q EXCEPT !.next = RouteAfterOrder(q)]
    <3>1. Step(c, t)
      BY <2>3 DEF QueryOrder
    <3>2. q \in States /\ q.history = local[c].history
      <4>1. found \in BOOLEAN
        OBVIOUS
      <4> HIDE DEF found
      <4> QED BY <1>0, <4>1 DEF States
    <3>3. t.history = local[c].history /\ t.next # "END"
      <4>1. RouteAfterOrder(q) # "END"
        BY RouteTypes
      <4> HIDE DEF q
      <4> QED BY <3>2, <4>1 DEF States
    <3> HIDE DEF t
    <3> QED BY <3>1, <3>3
  <2>4. CASE RetrieveKnowledge(c)
    <3>1. PICK k : Step(c, [local[c] EXCEPT !.knowledge = k,
                                            !.next = "generate_knowledge_answer"])
      BY <2>4 DEF RetrieveKnowledge
    <3> DEFINE t == [local[c] EXCEPT !.knowledge = k,
                                     !.next = "generate_knowledge_answer"]
    <3>2. t.history = local[c].history /\ t.next # "END"
      BY <1>0 DEF States
    <3> HIDE DEF t
    <3> QED BY <3>1, <3>2 DEF t
  <2>5. CASE GenerateKnowledgeAnswer(c)
    <3> DEFINE t == [local[c] EXCEPT
                       !.answer = IF local[c].knowledge = "unavailable"
                                    THEN "knowledge unavailable" ELSE "knowledge",
                       !.next = "save_turn"]
    <3>1. Step(c, t)
      BY <2>5 DEF GenerateKnowledgeAnswer
    <3>2. t.history = local[c].history /\ t.next # "END"
      BY <1>0 DEF States
    <3> HIDE DEF t
    <3> QED BY <3>1, <3>2
  <2>6. CASE TakeDecision(c)
    <3>1. \A q : RouteAfterRefundApproval(q) # "END"
      BY RouteTypes
    <3> DEFINE yes == decision[c].approved
               q == [local[c] EXCEPT !.refundApproved = yes, !.interrupted = FALSE,
                                     !.answer = IF yes THEN @ ELSE "cancelled"]
    <3>2. Step(c, [q EXCEPT !.next = RouteAfterRefundApproval(q)])
      BY <2>6 DEF TakeDecision
    <3>3. q \in States /\ q.history = local[c].history
      <4>1. yes \in BOOLEAN /\ "cancelled" \in Answers
        BY DEF IInv, CallInv, Answers
      <4> HIDE DEF yes
      <4> QED BY <1>0, <4>1 DEF States
    <3> HIDE DEF q
    <3> QED BY <3>1, <3>2, <3>3 DEF States
  <2>7. CASE SubmitRefund(c)
    <3> DEFINE t == [local[c] EXCEPT !.answer = "submitted", !.next = "save_turn"]
    <3>1. Step(c, t)
      BY <2>7 DEF SubmitRefund
    <3>2. t.history = local[c].history /\ t.next # "END"
      BY <1>0 DEF States
    <3> HIDE DEF t
    <3> QED BY <3>1, <3>2
  <2> QED BY <2>1, <2>2, <2>3, <2>4, <2>5, <2>6, <2>7
<1> QED BY <1>1, <1>2, HistoryOfStep

LEMMA HistoryOfEnds ==
  ASSUME IInv, HistoryInv, NEW c \in Calls,
         RequestRefundApproval(c) \/ SubmitRefundFails(c) \/ RunFails(c) \/ SaveTurn(c)
  PROVE  HistoryInv'
<1>0. local[c] \in States /\ pc \in [Calls -> {"idle", "check", "resume", "run",
                                               "finish", "done", "dead"}]
  BY DEF IInv, StateInv, CallInv
<1>1. /\ pc[c] = "run" /\ UNCHANGED <<turns, overlap>>
      /\ pc' = [pc EXCEPT ![c] = "finish"]
  BY DEF RequestRefundApproval, SubmitRefundFails, RunFails, SaveTurn, AtSubmit, At,
         End, historyVars
<1>2. InProgress(c) /\ (~overlap => OwnHistory(c)) /\ \A d \in Calls : d # c => pc'[d] = pc[d]
  BY <1>0, <1>1 DEF InProgress, HistoryInv
<1>3. CASE RequestRefundApproval(c)
  <2>0. PICK noted \in BOOLEAN :
          LET st == [local[c] EXCEPT !.interrupted = noted] IN
          local' = [local EXCEPT ![c] = st] /\ saved' \in {st, saved}
    BY <1>3 DEF RequestRefundApproval
  <2> DEFINE st == [local[c] EXCEPT !.interrupted = noted]
  <2>1. /\ local[c].next = "request_refund_approval"
        /\ local' = [local EXCEPT ![c] = st] /\ saved' \in {st, saved}
        /\ unsaved' = unsaved
    BY <1>3, <2>0 DEF RequestRefundApproval, At
  <2>2. st.history = local[c].history /\ st.next = local[c].next
    BY <1>0 DEF States
  <2>3. local'[c] = st
    BY <2>1 DEF IInv, StateInv
  <2> HIDE DEF st
  <2>4. ~overlap => local[c].history = saved.history
    BY <1>2, <2>1 DEF OwnHistory
  <2>5. ~overlap => saved'.history = saved.history /\ OwnHistory(c)'
    BY <2>1, <2>2, <2>3, <2>4 DEF OwnHistory
  <2> QED BY <1>1, <1>2, <2>5, HistoryKept
<1>4. CASE SubmitRefundFails(c) \/ RunFails(c)
  <2>1. UNCHANGED <<saved, unsaved, local>>
    BY <1>4 DEF SubmitRefundFails, RunFails, savedVars
  <2>2. ~overlap => OwnHistory(c)'
    BY <1>2, <2>1 DEF OwnHistory
  <2> QED BY <1>1, <1>2, <2>1, <2>2, HistoryKept
<1>5. CASE SaveTurn(c)
  <2> DEFINE turn == [message |-> local[c].message, answer |-> local[c].answer]
             h == AddTurn(local[c].history, turn)
             st == [local[c] EXCEPT !.history = h, !.active = ActiveAfter(local[c]),
                                    !.next = "END"]
  <2>1. /\ local[c].next = "save_turn" /\ local[c].answer # "" /\ Step(c, st)
    BY <1>5 DEF SaveTurn, At
  <2>2. turn \in Turns
    <3>1. local[c].message \in ChatCalls
      BY <2>1 DEF IInv, StateInv, Good
    <3> QED BY <1>0, <2>1, <3>1 DEF Turns, States
  <2>3. st.history = h
    <3> HIDE DEF h
    <3> QED BY <1>0 DEF States
  <2>4. local'[c] = st /\ saved' = saved
    BY <2>1 DEF Step, IInv, StateInv
  <2> HIDE DEF st
  <2>5. ~overlap => local[c].history = saved.history
    BY <1>2, <2>1 DEF OwnHistory
  <2>6. ~overlap => \E t \in Turns : local'[c].history = AddTurn(saved'.history, t)
    BY <2>2, <2>3, <2>4, <2>5
  <2>7. Contains(unsaved', c)
    <3>1. unsaved \in Seq(Calls)
      BY DEF IInv, CallInv
    <3>2. unsaved' = Append(RemoveFirst(unsaved, c), c)
      BY <2>1 DEF Step
    <3> QED BY <3>1, <3>2, Requeued
  <2>8. st.next = "END"
    BY <1>0 DEF States, st
  <2>9. ~overlap => OwnHistory(c)'
    BY <2>4, <2>6, <2>7, <2>8 DEF OwnHistory
  <2> QED BY <1>1, <1>2, <2>4, <2>9, HistoryKept
<1> QED BY <1>3, <1>4, <1>5

(* A call begins: with no other in progress, or the calls overlap. *)
LEMMA HistoryOfStarts ==
  ASSUME IInv, HistoryInv, NEW c \in Calls, StartChat(c) \/ StartResume(c)
  PROVE  HistoryInv'
<1> SUFFICES ASSUME ~overlap'
             PROVE  /\ \A d, e \in Calls : InProgress(d)' /\ InProgress(e)' => d = e
                    /\ turns' \in Seq(Turns) /\ Recent(saved'.history, turns')
                    /\ \A d \in Calls : pc'[d] \in {"run", "finish"} => OwnHistory(d)'
  BY DEF HistoryInv
<1>1. Begin /\ UNCHANGED saved
  BY DEF StartChat, StartResume, Step, savedVars
<1>2. ~overlap /\ UNCHANGED turns /\ \A d \in Calls : ~InProgress(d)
  BY <1>1 DEF Begin
<1>3. \A d \in Calls : d # c => pc'[d] = pc[d]
  BY DEF StartChat, StartResume, IInv, CallInv
<1>4. \A d \in Calls : d # c => ~InProgress(d)'
  BY <1>2, <1>3 DEF InProgress
<1>5. turns' \in Seq(Turns) /\ Recent(saved'.history, turns')
  BY <1>1, <1>2 DEF HistoryInv
<1>6. pc'[c] \in {"run", "finish"} => OwnHistory(c)'
  <2>1. CASE StartChat(c)
    <3>1. local'[c] = NewGraphInput(saved, c)
      BY <2>1 DEF StartChat, Step, IInv, StateInv
    <3>2. NoState \in States
      BY NoStateGood DEF Good
    <3>3. /\ NewGraphInput(saved, c).history = saved.history
          /\ NewGraphInput(saved, c).next = "analyze_intent"
      BY <3>2 DEF NewGraphInput, States
    <3> QED BY <1>1, <3>1, <3>3 DEF OwnHistory
  <2>2. CASE StartResume(c)
    BY <2>2 DEF StartResume, IInv, CallInv
  <2> QED BY <2>1, <2>2
<1> QED BY <1>4, <1>5, <1>6 DEF InProgress

LEMMA HistoryOfResumes ==
  ASSUME IInv, HistoryInv, NEW c \in Calls,
         CheckPending(c) \/ NothingPending(c) \/ ReadFails(c) \/ Resume(c) \/ Finish(c)
  PROVE  HistoryInv'
<1>1. /\ InProgress(c) /\ UNCHANGED <<saved, unsaved, turns, overlap>>
      /\ \A d \in Calls : d # c => pc'[d] = pc[d]
  BY DEF CheckPending, NothingPending, ReadFails, Resume, Finish, InProgress, IInv,
     CallInv, savedVars, historyVars
<1>2. pc'[c] \in {"run", "finish"} => OwnHistory(c)'
  <2>1. CASE Resume(c)
    <3>1. local'[c] = saved /\ pc[c] = "resume"
      BY <2>1 DEF Resume, IInv, StateInv
    <3>2. ~Contains(unsaved, c)
      BY <3>1 DEF IInv, ApprovalInv
    <3> QED BY <1>1, <3>1, <3>2 DEF OwnHistory
  <2>2. CASE CheckPending(c) \/ NothingPending(c) \/ ReadFails(c) \/ Finish(c)
    BY <2>2 DEF CheckPending, NothingPending, ReadFails, Finish, IInv, CallInv
  <2> QED BY <2>1, <2>2
<1> QED BY <1>1, <1>2, HistoryKept

(* The checkpoint behind save_turn brings the turn to PostgreSQL. *)
LEMMA HistoryOfPersist ==
  ASSUME IInv, HistoryInv, NEW c \in Calls, Persist(c), ~Contains(unsaved', c)
  PROVE  HistoryInv'
<1>1. /\ Contains(unsaved, c) /\ saved' = local[c]
      /\ turns' = IF local[c].next = "END" THEN Append(turns, Last(local[c].history))
                                           ELSE turns
      /\ UNCHANGED <<pc, local, overlap>>
  BY DEF Persist, callVars
<1>2. pc[c] \in {"run", "finish"} /\ InProgress(c)
  BY <1>1 DEF IInv, ApprovalInv, InProgress
<1>3. saved.history \in Seq(Turns)
  BY DEF IInv, StateInv, Good, States
<1> SUFFICES ASSUME ~overlap
             PROVE  /\ \A d, e \in Calls : InProgress(d)' /\ InProgress(e)' => d = e
                    /\ turns' \in Seq(Turns) /\ Recent(saved'.history, turns')
                    /\ \A d \in Calls : pc'[d] \in {"run", "finish"} => OwnHistory(d)'
  BY <1>1 DEF HistoryInv
<1>4. /\ \A d, e \in Calls : InProgress(d) /\ InProgress(e) => d = e
      /\ turns \in Seq(Turns) /\ Recent(saved.history, turns)
      /\ OwnHistory(c)
  BY <1>2 DEF HistoryInv
<1>5. turns' \in Seq(Turns) /\ Recent(saved'.history, turns')
  <2>1. CASE local[c].next = "END"
    <3>1. PICK turn \in Turns : local[c].history = AddTurn(saved.history, turn)
      BY <1>1, <1>4, <2>1 DEF OwnHistory
    <3>2. /\ Recent(local[c].history, Append(turns, turn))
          /\ Last(local[c].history) = turn
      BY <1>3, <1>4, <3>1, RecentTurnAdded
    <3>3. turns' = Append(turns, turn)
      BY <1>1, <2>1, <3>2
    <3>4. turns' \in Seq(Turns)
      BY <1>4, <3>3, AppendProperties
    <3> QED BY <1>1, <3>2, <3>3, <3>4
  <2>2. CASE local[c].next # "END"
    BY <1>1, <1>4, <2>2 DEF OwnHistory
  <2> QED BY <2>1, <2>2
<1>6. OwnHistory(c)'
  BY <1>1 DEF OwnHistory
<1>7. \A d \in Calls : InProgress(d)' <=> InProgress(d)
  BY <1>1 DEF InProgress
<1> QED BY <1>1, <1>2, <1>4, <1>5, <1>6, <1>7 DEF InProgress

LEMMA HistoryOfLoss ==
  ASSUME IInv, HistoryInv, NEW c \in Calls, PersistFails(c)
  PROVE  HistoryInv'
<1>1. /\ pc[c] \in {"run", "finish"} /\ unsaved' \in {unsaved, RemoveFirst(unsaved, c)}
      /\ UNCHANGED <<saved, pc, local, turns, overlap>>
  BY DEF PersistFails, callVars, historyVars
<1>2. ~overlap /\ Contains(unsaved', c) => Contains(unsaved, c)
  BY <1>1 DEF RemoveFirst, Contains
<1>3. InProgress(c)
  BY <1>1 DEF InProgress
<1>4. ~overlap => OwnHistory(c)'
  BY <1>1, <1>2 DEF OwnHistory, HistoryInv
<1> QED BY <1>1, <1>3, <1>4, HistoryKept

LEMMA HistoryOfCrash ==
  ASSUME IInv, HistoryInv, Crash
  PROVE  HistoryInv'
<1>1. /\ pc' = [c \in Calls |-> IF pc[c] \in {"idle", "done"} THEN pc[c] ELSE "dead"]
      /\ UNCHANGED <<saved, turns, overlap>>
  BY DEF Crash, historyVars
<1>2. \A c \in Calls : ~InProgress(c)' /\ pc'[c] \notin {"run", "finish"}
  BY <1>1 DEF InProgress
<1> QED BY <1>1, <1>2 DEF HistoryInv

LEMMA NextHistory == IInv /\ Distinct(unsaved) /\ HistoryInv /\ [Next]_vars => HistoryInv'
<1> SUFFICES ASSUME IInv, Distinct(unsaved), HistoryInv, [Next]_vars PROVE HistoryInv'
  OBVIOUS
<1>1. ASSUME NEW c \in Calls, Persist(c)
      PROVE  HistoryInv'
  BY <1>1, PersistTakesOut, HistoryOfPersist
<1>2. CASE UNCHANGED vars
  BY <1>2 DEF vars, HistoryInv, OwnHistory, InProgress
<1> QED BY <1>1, <1>2, HistoryOfNodes, HistoryOfEnds, HistoryOfStarts, HistoryOfResumes,
           HistoryOfLoss, HistoryOfCrash DEF Next, Node

LEMMA InitHistory == Init => Distinct(unsaved) /\ HistoryInv
<1> SUFFICES ASSUME Init PROVE Distinct(unsaved) /\ HistoryInv
  OBVIOUS
<1>1. <<>> \in Seq(Turns) /\ Len(<<>>) = 0
  BY EmptySeq
<1>2. Recent(<<>>, <<>>)
  BY <1>1, RecentPlaces, HistoryAssumption DEF Recent
<1>3. saved.history = <<>> /\ turns = <<>> /\ unsaved = <<>>
  BY DEF Init, NoState
<1>4. \A c \in Calls : pc[c] = "idle"
  BY DEF Init
<1> QED BY <1>1, <1>2, <1>3, <1>4 DEF HistoryInv, InProgress, Distinct

(* Where no calls overlap, the history in PostgreSQL is that of the last    *)
(* turns that reached it, through crashes, lost checkpoints, dropped        *)
(* approvals and failed refunds (save_turn, _new_graph_input).              *)
THEOREM HistoriesAreRecent == Spec => []HistoryIsRecentTurns
<1>1. IInv /\ Distinct(unsaved) /\ [Next]_vars => Distinct(unsaved)'
  BY QueueDistinct
<1>2. HistoryInv => HistoryIsRecentTurns
  BY DEF HistoryInv, Recent, HistoryIsRecentTurns
<1> QED BY <1>1, <1>2, InitHistory, NextHistory, AgentInvariance, PTL DEF Spec
=============================================================================
