---------------------------- MODULE ApprovalProofs ----------------------------
(***************************************************************************)
(* Two theorems about SupportAgent, for any number of calls: where calls   *)
(* do not overlap, a resume that denies sends no refund request, and every *)
(* request that was sent has an approval of its own that was shown before, *)
(* or a crash or a lost write of its own.                                  *)
(* Nothing in the thread remembers which.  The invariant says that one can *)
(* match requests with approvals and troubled calls so that no request     *)
(* holds the approval that may still be answered: where the checkpoint     *)
(* still shows it, the checkpoint behind the answer is on its way, and if  *)
(* that is lost, the request is matched with its own call instead.         *)
(***************************************************************************)
EXTENDS SupportAgentProofs

Paused(st) == st.interrupted => st.next = "request_refund_approval"

Shown == {c \in ChatCalls : Replied(c, "APPROVAL_REQUIRED")}

Witnesses == Shown \cup {c \in Calls : Troubled(c)}

Ended(c) == pc[c] \in {"done", "dead"}

(* Chat m has told its user of an approval or is about to, or trouble kept  *)
(* it from that.                                                            *)
Presented(m) ==
  /\ m \in ChatCalls /\ (pc[m] = "finish" \/ Ended(m))
  /\ Troubled(m) \/ reply[m].code = "APPROVAL_REQUIRED"

Asking == {"request_refund_approval", "submit_refund"}

ChatInv(c) ==
  /\ pc[c] \notin {"check", "resume"}
  /\ pc[c] \in {"run", "finish"} =>
       /\ local[c].message = c
       /\ local[c].interrupted => Presented(c)

(* The run of a resume begins at the pause, with its decision. *)
DecisionInv(d) ==
  /\ pc[d] = "resume" => saved.interrupted
  /\ pc[d] \in {"run", "finish"} /\ local[d].interrupted => fresh[d] /\ ~Contains(unsaved, d)
  /\ pc[d] = "run" =>
       /\ local[d].next \in Asking \cup {"save_turn"}
       /\ local[d].next \in Asking => Presented(local[d].message)
       /\ local[d].next = "request_refund_approval" => local[d].interrupted
       /\ local[d].next = "submit_refund" =>
            Contains(unsaved, d) \/ ~saved.interrupted \/ lost[d]

PauseInv ==
  /\ Paused(saved) /\ \A c \in Calls : Paused(local[c])
  /\ saved.interrupted => Presented(saved.message)

(* Request p may hold the approval of chat m: no run is about to use it,    *)
(* and if the checkpoint still shows it, another is on its way.             *)
Kept(m, p) ==
  /\ saved.interrupted /\ m = saved.message => Contains(unsaved, p.call)
  /\ \A d \in ResumeCalls :
       pc[d] = "run" /\ local[d].next \in Asking => m # local[d].message

Fits(m, p) == m = p.call \/ (m \in ChatCalls /\ Ended(m) /\ Kept(m, p))

Matched == \E f \in Injection(posts, Witnesses) : \A p \in posts : Fits(f[p], p)

ApprovalsInv ==
  ~overlap => /\ PauseInv /\ Matched
              /\ \A c \in ChatCalls : ChatInv(c)
              /\ \A d \in ResumeCalls : DecisionInv(d)

(* A call sends one request, and no other after it. *)
Spent(c) == pc[c] = "finish" \/ Ended(c) \/ (pc[c] = "run" /\ local[c].next = "save_turn")

PostInv ==
  \A p \in posts : Spent(p.call) /\ \A q \in posts : p.call = q.call => p = q

-----------------------------------------------------------------------------
(* Everything a call does, the death of the process apart, leaves the other *)
(* calls and their replies alone.                                           *)

Does(c) ==
  \/ StartChat(c) \/ StartResume(c) \/ CheckPending(c) \/ NothingPending(c) \/ ReadFails(c)
  \/ Resume(c) \/ Node(c) \/ RunFails(c) \/ Persist(c) \/ PersistFails(c) \/ Finish(c)

LEMMA OneMoves ==
  ASSUME IInv, NEW c \in Calls, Does(c), NEW d \in Calls, d # c
  PROVE  pc'[d] = pc[d] /\ reply'[d] = reply[d] /\ local'[d] = local[d] /\ lost'[d] = lost[d]
<1>0. /\ pc \in [Calls -> {"idle", "check", "resume", "run", "finish", "done", "dead"}]
      /\ local \in [Calls -> States] /\ lost \in [Calls -> BOOLEAN]
      /\ DOMAIN reply = Calls
  BY DEF IInv, CallInv, StateInv
<1>1. \A st : Step(c, st) => local'[d] = local[d] /\ lost' = lost
  BY <1>0 DEF Step
<1>2. \A code, answer : End(c, code, answer) => pc'[d] = pc[d] /\ reply'[d] = reply[d]
  BY <1>0 DEF End
<1>3. CASE Node(c)
  <2>1. CASE AnalyzeIntent(c) \/ SetAnswer(c) \/ QueryOrder(c) \/ RetrieveKnowledge(c)
               \/ GenerateKnowledgeAnswer(c) \/ TakeDecision(c) \/ SubmitRefund(c)
    BY <1>1, <2>1 DEF AnalyzeIntent, SetAnswer, QueryOrder, RetrieveKnowledge,
       GenerateKnowledgeAnswer, TakeDecision, SubmitRefund
  <2>2. CASE RequestRefundApproval(c)
    BY <1>0, <1>2, <2>2 DEF RequestRefundApproval
  <2>3. CASE SubmitRefundFails(c)
    BY <1>2, <2>3 DEF SubmitRefundFails, savedVars
  <2>4. CASE SaveTurn(c)
    BY <1>1, <1>2, <2>4 DEF SaveTurn
  <2> QED BY <1>3, <2>1, <2>2, <2>3, <2>4 DEF Node
<1>4. CASE RunFails(c)
  BY <1>2, <1>4 DEF RunFails, savedVars
<1>5. CASE StartChat(c)
  BY <1>0, <1>1, <1>5 DEF StartChat
<1>6. CASE Persist(c) \/ PersistFails(c)
  BY <1>0, <1>6 DEF Persist, PersistFails, callVars
<1>7. CASE StartResume(c) \/ CheckPending(c)
  BY <1>0, <1>7 DEF StartResume, CheckPending, savedVars
<1>8. CASE NothingPending(c) \/ ReadFails(c) \/ Resume(c) \/ Finish(c)
  BY <1>0, <1>8 DEF NothingPending, ReadFails, Resume, Finish, savedVars
<1> QED BY <1>3, <1>4, <1>5, <1>6, <1>7, <1>8 DEF Does

LEMMA SpentStays ==
  ASSUME IInv, NEW c \in Calls, Does(c), Spent(c)
  PROVE  Spent(c)' /\ UNCHANGED posts
<1>0. /\ pc \in [Calls -> {"idle", "check", "resume", "run", "finish", "done", "dead"}]
      /\ Contains(unsaved, c) => pc[c] \in {"run", "finish"}
  BY DEF IInv, CallInv, ApprovalInv
<1>1. pc[c] = "run" => local[c].next = "save_turn"
  BY DEF Spent, Ended
<1>2. \/ SaveTurn(c) \/ RunFails(c) \/ Persist(c) \/ PersistFails(c) \/ Finish(c)
  BY <1>0, <1>1, NodeNames DEF Spent, Ended, Does, Node, StartChat, StartResume, CheckPending,
     NothingPending, ReadFails, Resume, AnalyzeIntent, SetAnswer, QueryOrder,
     RetrieveKnowledge, GenerateKnowledgeAnswer, RequestRefundApproval, TakeDecision,
     SubmitRefund, SubmitRefundFails, AtSubmit, At
<1>3. CASE SaveTurn(c) \/ RunFails(c) \/ Finish(c)
  BY <1>0, <1>3 DEF SaveTurn, RunFails, Finish, End, serviceVars, Spent, Ended
<1>4. CASE Persist(c) \/ PersistFails(c)
  BY <1>4 DEF Persist, PersistFails, callVars, serviceVars, Spent, Ended
<1> QED BY <1>2, <1>3, <1>4

LEMMA OnePost ==
  ASSUME NEW c, SubmitRefund(c) \/ SubmitRefundFails(c)
  PROVE  \E p : posts' = posts \cup {p} /\ p.call = c
<1>1. PICK outcome : Post(c, outcome)
  <2>1. CASE SubmitRefund(c)
    BY <2>1 DEF SubmitRefund
  <2>2. CASE SubmitRefundFails(c)
    BY <2>2 DEF SubmitRefundFails
  <2> QED BY <2>1, <2>2
<1>2. PICK p : p = [call |-> c, order |-> local[c].order,
                    key |-> decision[c].key, outcome |-> outcome]
  OBVIOUS
<1>3. p.call = c /\ posts' = posts \cup {p}
  BY <1>1, <1>2 DEF Post
<1> QED BY <1>3

LEMMA NextPosts == IInv /\ PostInv /\ [Next]_vars => PostInv'
<1> SUFFICES ASSUME IInv, PostInv, [Next]_vars PROVE PostInv'
  OBVIOUS
<1>0. \A p \in posts : p.call \in Calls
  BY DEF IInv, CallInv, Calls
<1>1. ASSUME NEW c \in Calls, Does(c)
      PROVE  PostInv'
  <2>1. \A d \in Calls : Spent(d) => Spent(d)'
    BY <1>1, OneMoves, SpentStays DEF Spent, Ended
  <2>2. CASE UNCHANGED posts
    BY <1>0, <2>1, <2>2 DEF PostInv
  <2>3. CASE SubmitRefund(c) \/ SubmitRefundFails(c)
    <3>1. PICK p : posts' = posts \cup {p} /\ p.call = c
      BY <2>3, OnePost
    <3>2. pc[c] = "run" /\ local[c].next = "submit_refund"
      BY <2>3 DEF SubmitRefund, SubmitRefundFails, AtSubmit, At
    <3>3. \A q \in posts : q.call # c
      BY <3>2 DEF PostInv, Spent, Ended
    <3>4. Spent(c)'
      <4>1. CASE SubmitRefund(c)
        <5>1. local[c] \in States /\ local \in [Calls -> States]
          BY DEF IInv, StateInv
        <5>2. PICK st : /\ st = [local[c] EXCEPT !.answer = "submitted", !.next = "save_turn"]
                        /\ local' = [local EXCEPT ![c] = st] /\ pc' = pc
          BY <4>1 DEF SubmitRefund, Step
        <5>3. local'[c].next = "save_turn"
          BY <5>1, <5>2 DEF States
        <5> QED BY <3>2, <5>2, <5>3 DEF Spent
      <4>2. CASE SubmitRefundFails(c)
        BY <4>2 DEF SubmitRefundFails, End, IInv, CallInv, Spent
      <4> QED BY <2>3, <4>1, <4>2
    <3> QED BY <1>0, <2>1, <3>1, <3>3, <3>4 DEF PostInv
  <2>4. CASE ~(SubmitRefund(c) \/ SubmitRefundFails(c))
    <3>1. UNCHANGED posts
      BY <1>1, <2>4 DEF Does, Node, StartChat, StartResume, CheckPending, NothingPending,
         ReadFails, Resume, RunFails, Persist, PersistFails, Finish, AnalyzeIntent, SetAnswer,
         QueryOrder, RetrieveKnowledge, GenerateKnowledgeAnswer, RequestRefundApproval,
         TakeDecision, SaveTurn, serviceVars
    <3> QED BY <2>2, <3>1
  <2> QED BY <2>3, <2>4
<1>2. CASE Crash
  <2>1. /\ pc' = [c \in Calls |-> IF pc[c] \in {"idle", "done"} THEN pc[c] ELSE "dead"]
        /\ UNCHANGED posts
    BY <1>2 DEF Crash, serviceVars
  <2>2. \A c \in Calls : Spent(c) => Spent(c)'
    BY <2>1 DEF Spent, Ended
  <2> QED BY <1>0, <2>1, <2>2 DEF PostInv
<1>3. CASE UNCHANGED vars
  BY <1>3 DEF vars, PostInv, Spent, Ended
<1> QED BY <1>1, <1>2, <1>3 DEF Next, Does

-----------------------------------------------------------------------------
(* Where calls do not overlap, c is the only one in progress. *)

Others(c) ==
  \A d \in Calls : d # c =>
     /\ ~InProgress(d) /\ ~Contains(unsaved, d)
     /\ pc'[d] = pc[d] /\ lost'[d] = lost[d]
     /\ pc[d] = "done" => reply'[d] = reply[d]
     /\ local'[d] \in {local[d], NoState}

Alone(c) ==
  /\ ~overlap /\ Others(c)
  /\ lost[c] => lost'[c]
  /\ Ended(c) => pc[c] = "dead" /\ pc'[c] = "dead"

LEMMA Frame ==
  ASSUME IInv, HistoryInv, NEW c \in Calls, Does(c), ~overlap'
  PROVE  Alone(c) /\ ~Ended(c)
<1>0. /\ pc \in [Calls -> {"idle", "check", "resume", "run", "finish", "done", "dead"}]
      /\ \A d \in Calls : Contains(unsaved, d) => InProgress(d)
  BY DEF IInv, CallInv, ApprovalInv, InProgress
<1>1. \A d \in Calls : d # c => pc'[d] = pc[d] /\ reply'[d] = reply[d]
                               /\ local'[d] = local[d] /\ lost'[d] = lost[d]
  BY OneMoves
<1>2. lost[c] => lost'[c]
  BY DEF Does, StartChat, StartResume, CheckPending, NothingPending, ReadFails, Resume, Node,
     RunFails, Persist, PersistFails, Finish, AnalyzeIntent, SetAnswer, QueryOrder,
     RetrieveKnowledge, GenerateKnowledgeAnswer, RequestRefundApproval, TakeDecision,
     SubmitRefund, SubmitRefundFails, SaveTurn, Step, savedVars, IInv, CallInv
<1>3. CASE StartChat(c) \/ StartResume(c)
  <2>1. Begin /\ pc[c] = "idle"
    BY <1>3 DEF StartChat, StartResume
  <2> QED BY <1>0, <1>1, <1>2, <2>1 DEF Begin, Alone, Others, Ended
<1>4. CASE ~(StartChat(c) \/ StartResume(c))
  <2>1. InProgress(c)
    BY <1>0, <1>4 DEF Does, CheckPending, NothingPending, ReadFails, Resume, Node, RunFails,
       Persist, PersistFails, Finish, AnalyzeIntent, SetAnswer, QueryOrder, RetrieveKnowledge,
       GenerateKnowledgeAnswer, RequestRefundApproval, TakeDecision, SubmitRefund,
       SubmitRefundFails, SaveTurn, AtSubmit, At, InProgress
  <2>2. overlap' = overlap
    BY <1>4 DEF Does, CheckPending, NothingPending, ReadFails, Resume, Node, RunFails, Persist,
       PersistFails, Finish, AnalyzeIntent, SetAnswer, QueryOrder, RetrieveKnowledge,
       GenerateKnowledgeAnswer, RequestRefundApproval, TakeDecision, SubmitRefund,
       SubmitRefundFails, SaveTurn, historyVars
  <2>3. \A d \in Calls : d # c => ~InProgress(d)
    BY <2>1, <2>2 DEF HistoryInv
  <2> QED BY <1>0, <1>1, <1>2, <2>1, <2>2, <2>3 DEF Alone, Others, InProgress, Ended
<1> QED BY <1>3, <1>4

(* What was shown, and what was said of it, stays. *)
LEMMA ShownStays ==
  ASSUME NEW c \in Calls, Alone(c)
  PROVE  /\ Witnesses \subseteq Witnesses'
         /\ \A m \in ChatCalls : Ended(m) => Ended(m)'
         /\ \A m : m # c /\ Presented(m) => Presented(m)' /\ Ended(m) /\ m \in Witnesses
<1>1. \A m \in ChatCalls : m \in Calls
  BY DEF Calls
<1>2. \A m \in Calls : Troubled(m) => Troubled(m)'
  BY DEF Alone, Others, Ended, Troubled
<1>3. \A m \in Shown : m \in Shown'
  BY <1>1 DEF Alone, Others, Ended, Shown, Replied
<1>4. ASSUME NEW m, m # c, Presented(m)
      PROVE  Presented(m)' /\ Ended(m) /\ m \in Witnesses
  <2>1. m \in ChatCalls /\ m \in Calls /\ Ended(m) /\ Ended(m)'
    BY <1>1, <1>4 DEF Presented, Alone, Others, InProgress, Ended
  <2>2. CASE Troubled(m)
    BY <1>2, <2>1, <2>2 DEF Presented, Witnesses
  <2>3. CASE ~Troubled(m)
    <3>1. pc[m] = "done" /\ reply[m].code = "APPROVAL_REQUIRED" /\ reply'[m] = reply[m]
      BY <1>4, <2>1, <2>3 DEF Presented, Troubled, Ended, Alone, Others
    <3> QED BY <2>1, <3>1 DEF Presented, Witnesses, Shown, Replied
  <2> QED BY <2>2, <2>3
<1>5. \A m \in ChatCalls : Ended(m) => Ended(m)'
  BY <1>1 DEF Alone, Others, Ended
<1> QED BY <1>2, <1>3, <1>4, <1>5 DEF Witnesses

(* It is enough to look at the call that moves. *)
LEMMA OneCall ==
  ASSUME NEW c \in Calls, Alone(c), ApprovalsInv,
         Paused(saved)', Paused(local[c])',
         (saved.interrupted => Presented(saved.message))', Matched',
         c \in ChatCalls => ChatInv(c)', c \in ResumeCalls => DecisionInv(c)'
  PROVE  ApprovalsInv'
<1>1. \A d \in Calls : Paused(local[d])'
  <2> SUFFICES ASSUME NEW d \in Calls, d # c PROVE Paused(local[d])'
    OBVIOUS
  <2>1. Paused(local[d]) /\ Paused(NoState)
    BY DEF ApprovalsInv, PauseInv, Alone, Paused, NoState
  <2>2. local'[d] = local[d] \/ local'[d] = NoState
    BY DEF Alone, Others
  <2> QED BY <2>1, <2>2 DEF Paused
<1>2. ASSUME NEW d \in Calls, d # c
      PROVE  pc'[d] \notin {"check", "resume", "run", "finish"}
  BY <1>2 DEF Alone, Others, InProgress
<1>3. \A d \in ChatCalls : ChatInv(d)'
  <2> SUFFICES ASSUME NEW d \in ChatCalls, d # c PROVE ChatInv(d)'
    OBVIOUS
  <2>1. d \in Calls
    BY DEF Calls
  <2> QED BY <1>2, <2>1 DEF ChatInv
<1>4. \A d \in ResumeCalls : DecisionInv(d)'
  <2> SUFFICES ASSUME NEW d \in ResumeCalls, d # c PROVE DecisionInv(d)'
    OBVIOUS
  <2>1. d \in Calls
    BY DEF Calls
  <2> QED BY <1>2, <2>1 DEF DecisionInv
<1> QED BY <1>1, <1>3, <1>4 DEF ApprovalsInv, PauseInv

(* No checkpoint is on its way where no call has one, and one is after a    *)
(* node.                                                                    *)
LEMMA NoneWaits ==
  ASSUME NEW s \in Seq(Calls), \A d \in Calls : ~Contains(s, d)
  PROVE  s = <<>>
<1>1. Len(s) \in Nat /\ \A i \in 1..Len(s) : s[i] \in Calls
  BY LenProperties, ElementOfSeq
<1>2. \A i \in 1..Len(s) : FALSE
  BY <1>1 DEF Contains
<1>3. Len(s) = 0
  BY <1>1, <1>2
<1> QED BY <1>3, EmptySeq

LEMMA StepWaits ==
  ASSUME IInv, NEW c \in Calls, NEW st, Step(c, st)
  PROVE  Contains(unsaved', c)
<1>1. unsaved \in Seq(Calls) /\ unsaved' = Append(RemoveFirst(unsaved, c), c)
  BY DEF IInv, CallInv, Step
<1> QED BY <1>1, Requeued

-----------------------------------------------------------------------------
(* The matching. *)

LEMMA MatchKept ==
  ASSUME NEW c \in Calls, Alone(c), Matched, UNCHANGED posts,
         \A m \in ChatCalls, p \in posts : Ended(m) /\ Kept(m, p) => Kept(m, p)'
  PROVE  Matched'
<1>1. PICK f \in Injection(posts, Witnesses) : \A p \in posts : Fits(f[p], p)
  BY DEF Matched
<1>2. f \in Injection(posts, Witnesses)'
  BY <1>1, ShownStays DEF Injection, IsInjective
<1>3. \A p \in posts' : Fits(f[p], p)'
  BY <1>1, ShownStays DEF Fits
<1> QED BY <1>2, <1>3 DEF Matched

(* A request that is new is matched with a witness that no other holds. *)
LEMMA MatchGrows ==
  ASSUME NEW c \in Calls, Alone(c), Matched, NEW p, posts' = posts \cup {p},
         \A m \in ChatCalls, q \in posts : Ended(m) /\ Kept(m, q) => Kept(m, q)',
         NEW w \in Witnesses, Fits(w, p)', \A q \in posts : ~Fits(w, q)
  PROVE  Matched'
<1>1. PICK f \in Injection(posts, Witnesses) : \A q \in posts : Fits(f[q], q)
  BY DEF Matched
<1>2. /\ f \in [posts -> Witnesses] /\ \A q \in posts : f[q] # w
      /\ \A q, r \in posts : f[q] = f[r] => q = r
  BY <1>1 DEF Injection, IsInjective
<1>3. PICK g : g = [q \in posts' |-> IF q \in posts THEN f[q] ELSE w]
  OBVIOUS
<1>4. g \in [posts' -> Witnesses']
  BY <1>2, <1>3, ShownStays
<1>5. \A q, r \in posts' : g[q] = g[r] => q = r
  BY <1>2, <1>3
<1>6. \A q \in posts : Fits(f[q], q)'
  BY <1>1, ShownStays DEF Fits
<1>7. \A q \in posts' : Fits(g[q], q)'
  <2> SUFFICES ASSUME NEW q \in posts' PROVE Fits(g[q], q)'
    OBVIOUS
  <2>1. CASE q \in posts
    <3>1. g[q] = f[q]
      BY <1>3, <2>1
    <3> QED BY <1>6, <2>1, <3>1 DEF Fits, Kept
  <2>2. CASE q \notin posts
    <3>1. g[q] = w /\ q = p
      BY <1>3, <2>2
    <3> QED BY <3>1 DEF Fits, Kept
  <2> QED BY <2>1, <2>2
<1>8. g \in Injection(posts', Witnesses')
  BY <1>4, <1>5 DEF Injection, IsInjective
<1> QED BY <1>7, <1>8 DEF Matched

(* The request of a call in trouble needs no approval any more. *)
LEMMA MatchReleased ==
  ASSUME IInv, PostInv, NEW c \in Calls, Alone(c), Matched, UNCHANGED posts, Troubled(c)',
         \A m \in ChatCalls, p \in posts :
            p.call # c /\ Ended(m) /\ Kept(m, p) => Kept(m, p)',
         c \in ResumeCalls \/ c \in ChatCalls
  PROVE  Matched'
<1>1. PICK f \in Injection(posts, Witnesses) : \A p \in posts : Fits(f[p], p)
  BY DEF Matched
<1>2. /\ f \in [posts -> Witnesses]
      /\ \A q, r \in posts : f[q] = f[r] => q = r
  BY <1>1 DEF Injection, IsInjective
<1>3. PICK g : g = [q \in posts' |-> IF q.call = c THEN c ELSE f[q]]
  OBVIOUS
<1>4. g \in [posts' -> Witnesses']
  <2>1. c \in Witnesses'
    BY DEF Witnesses
  <2> QED BY <1>2, <1>3, <2>1, ShownStays
<1>5. \A q, r \in posts' : g[q] = g[r] => q = r
  <2>1. \A q, r \in posts : q.call = c /\ f[r] = c => r.call = c
    <3>1. \A q \in posts : q.call \in ResumeCalls
      BY DEF IInv, CallInv
    <3>2. \A r \in posts : f[r] = r.call \/ f[r] \in ChatCalls
      BY <1>1 DEF Fits
    <3> QED BY <3>1, <3>2, CallsAssumption
  <2>2. \A q, r \in posts : q.call = c /\ r.call = c => q = r
    BY DEF PostInv
  <2> QED BY <1>2, <1>3, <2>1, <2>2
<1>6. \A q \in posts' : Fits(g[q], q)'
  <2> SUFFICES ASSUME NEW q \in posts PROVE Fits(g[q], q)'
    OBVIOUS
  <2>1. CASE q.call = c
    <3>1. g[q] = q.call
      BY <1>3, <2>1
    <3> QED BY <3>1 DEF Fits
  <2>2. CASE q.call # c
    <3>1. g[q] = f[q] /\ Fits(f[q], q)
      BY <1>1, <1>3, <2>2
    <3>2. PICK m : m = f[q]
      OBVIOUS
    <3>3. Fits(m, q)'
      BY <2>2, <3>1, <3>2, ShownStays DEF Fits
    <3> QED BY <3>1, <3>2, <3>3 DEF Fits, Kept
  <2> QED BY <2>1, <2>2
<1>7. g \in Injection(posts', Witnesses')
  BY <1>4, <1>5 DEF Injection, IsInjective
<1> QED BY <1>6, <1>7 DEF Matched

(* While the checkpoint stays, a request keeps what it holds unless its own *)
(* checkpoint is lost or a run comes to use it.                             *)
LEMMA KeptBySame ==
  ASSUME NEW c \in Calls, Alone(c), UNCHANGED saved, NEW m, NEW p, Kept(m, p),
         p.call \in ResumeCalls,
         p.call = c /\ Contains(unsaved, c) => Contains(unsaved', c),
         c \in ResumeCalls /\ pc'[c] = "run" /\ local'[c].next \in Asking =>
            m # local'[c].message
  PROVE  Kept(m, p)'
<1>1. \A d \in ResumeCalls : d \in Calls
  BY DEF Calls
<1>2. \A d \in ResumeCalls : d # c => pc'[d] # "run"
  BY <1>1 DEF Alone, Others, InProgress
<1>3. p.call # c => ~Contains(unsaved, p.call)
  BY <1>1 DEF Alone, Others
<1> QED BY <1>2, <1>3 DEF Kept

-----------------------------------------------------------------------------
(* The steps of chats. *)

(* The approval in PostgreSQL is one that another call has shown. *)
LEMMA SavedByOther ==
  ASSUME NEW c \in Calls, Alone(c), ApprovalsInv,
         UNCHANGED saved, c \in ResumeCalls \/ pc[c] \in {"idle", "run"}
  PROVE  (saved.interrupted => Presented(saved.message))' /\ Paused(saved)'
<1>1. Paused(saved) /\ (saved.interrupted => Presented(saved.message))
  BY DEF ApprovalsInv, PauseInv, Alone
<1>2. PICK m : m = saved.message
  OBVIOUS
<1>3. Presented(m) => m # c
  BY CallsAssumption DEF Presented, Ended
<1>4. saved.interrupted => Presented(m)'
  BY <1>1, <1>2, <1>3, ShownStays
<1> QED BY <1>1, <1>2, <1>4 DEF Paused, Presented

(* A chat that leaves the checkpoint alone takes nothing from a request. *)
LEMMA KeptByChat ==
  ASSUME IInv, NEW c \in ChatCalls, c \in Calls, Alone(c), ApprovalsInv,
         UNCHANGED <<saved, posts>>
  PROVE  Matched'
<1>1. c \notin ResumeCalls /\ \A p \in posts : p.call \in ResumeCalls
  BY CallsAssumption DEF IInv, CallInv
<1>2. \A m \in ChatCalls, p \in posts : Kept(m, p) => Kept(m, p)'
  BY <1>1, KeptBySame
<1> QED BY <1>2, MatchKept DEF ApprovalsInv, Alone

LEMMA ChatSteps ==
  ASSUME IInv, ApprovalsInv, NEW c \in ChatCalls, c \in Calls, Alone(c), NEW st,
         Step(c, st), st.message = c, st.interrupted = FALSE, UNCHANGED posts,
         pc[c] \in {"idle", "run"}, pc'[c] \in {"run", "finish"}
  PROVE  ApprovalsInv'
<1>1. local'[c] = st /\ saved' = saved
  BY DEF Step, IInv, StateInv
<1>2. Paused(local[c])' /\ ChatInv(c)'
  BY <1>1 DEF Paused, ChatInv
<1>3. c \notin ResumeCalls
  BY CallsAssumption
<1> QED BY <1>1, <1>2, <1>3, KeptByChat, SavedByOther, OneCall

LEMMA ChatNodes ==
  ASSUME IInv, ApprovalsInv, NEW c \in ChatCalls, c \in Calls, Alone(c),
         \/ AnalyzeIntent(c) \/ SetAnswer(c) \/ QueryOrder(c) \/ RetrieveKnowledge(c)
         \/ GenerateKnowledgeAnswer(c) \/ TakeDecision(c) \/ SaveTurn(c)
  PROVE  ApprovalsInv'
<1>0. local[c] \in States /\ pc[c] = "run" /\ pc'[c] \in {"run", "finish"}
  BY DEF IInv, StateInv, CallInv, AnalyzeIntent, SetAnswer, QueryOrder, RetrieveKnowledge,
     GenerateKnowledgeAnswer, TakeDecision, SaveTurn, At, End
<1>1. local[c].message = c /\ local[c].interrupted = FALSE
  BY <1>0 DEF ApprovalsInv, Alone, ChatInv, Presented, Ended, States
<1>2. UNCHANGED posts
  BY DEF AnalyzeIntent, SetAnswer, QueryOrder, RetrieveKnowledge,
     GenerateKnowledgeAnswer, TakeDecision, SaveTurn, serviceVars
<1>3. ASSUME NEW st, Step(c, st), st.message = c, st.interrupted = FALSE
      PROVE  ApprovalsInv'
  BY <1>0, <1>2, <1>3, ChatSteps
<1>4. CASE AnalyzeIntent(c)
  <2>1. PICK i, o, n : Step(c, [local[c] EXCEPT !.intent = i, !.order = o, !.next = n])
    BY <1>4 DEF AnalyzeIntent
  <2> QED BY <1>0, <1>1, <1>3, <2>1 DEF States
<1>5. CASE SetAnswer(c)
  <2>1. PICK a : Step(c, [local[c] EXCEPT !.answer = a, !.next = "save_turn"])
    BY <1>5 DEF SetAnswer
  <2> QED BY <1>0, <1>1, <1>3, <2>1 DEF States
<1>6. CASE QueryOrder(c)
  <2>1. PICK f, n : Step(c, [[local[c] EXCEPT !.found = f] EXCEPT !.next = n])
    BY <1>6 DEF QueryOrder
  <2> QED BY <1>0, <1>1, <1>3, <2>1 DEF States
<1>7. CASE RetrieveKnowledge(c)
  <2>1. PICK k, n : Step(c, [local[c] EXCEPT !.knowledge = k, !.next = n])
    BY <1>7 DEF RetrieveKnowledge
  <2> QED BY <1>0, <1>1, <1>3, <2>1 DEF States
<1>8. CASE GenerateKnowledgeAnswer(c)
  <2>1. PICK a : Step(c, [local[c] EXCEPT !.answer = a, !.next = "save_turn"])
    BY <1>8 DEF GenerateKnowledgeAnswer
  <2> QED BY <1>0, <1>1, <1>3, <2>1 DEF States
<1>9. CASE TakeDecision(c)
  <2>1. PICK y, a, n : Step(c, [[local[c] EXCEPT !.refundApproved = y, !.interrupted = FALSE,
                                                 !.answer = a] EXCEPT !.next = n])
    BY <1>0, <1>9 DEF TakeDecision, States
  <2> QED BY <1>0, <1>1, <1>3, <2>1 DEF States
<1>10. CASE SaveTurn(c)
  <2>1. PICK h, a : Step(c, [local[c] EXCEPT !.history = h, !.active = a, !.next = "END"])
    BY <1>0, <1>10 DEF SaveTurn, States
  <2> QED BY <1>0, <1>1, <1>3, <2>1 DEF States
<1> QED BY <1>4, <1>5, <1>6, <1>7, <1>8, <1>9, <1>10

LEMMA ChatEnds ==
  ASSUME IInv, ApprovalsInv, NEW c \in ChatCalls, c \in Calls, Alone(c),
         RequestRefundApproval(c) \/ RunFails(c)
  PROVE  ApprovalsInv'
<1>0. /\ local[c] \in States /\ local \in [Calls -> States] /\ pc[c] = "run"
      /\ pc'[c] = "finish" /\ UNCHANGED <<posts, unsaved>>
  BY DEF IInv, StateInv, CallInv, RequestRefundApproval, RunFails, At, End, savedVars,
     serviceVars
<1>1. local[c].message = c /\ ~local[c].interrupted
  BY <1>0 DEF ApprovalsInv, Alone, ChatInv, Presented, Ended
<1>2. c \notin ResumeCalls /\ ~Ended(c)
  BY <1>0, CallsAssumption DEF Ended
<1>3. CASE RequestRefundApproval(c)
  <2>1. PICK noted, st : /\ st = [local[c] EXCEPT !.interrupted = noted]
                         /\ local' = [local EXCEPT ![c] = st] /\ saved' \in {st, saved}
    BY <1>3 DEF RequestRefundApproval
  <2>2. /\ local'[c] = st /\ st.message = c /\ st.next = "request_refund_approval"
    BY <1>0, <1>1, <1>3, <2>1 DEF RequestRefundApproval, At, States
  <2>3. reply'[c].code = "APPROVAL_REQUIRED"
    BY <1>3 DEF RequestRefundApproval, End, IInv, CallInv
  <2>4. Presented(c)'
    BY <1>0, <2>3 DEF Presented
  <2>5. /\ (saved.interrupted => Presented(saved.message))' /\ Paused(saved)' /\ Matched'
    <3>1. CASE saved' = st
      <4>1. \A m \in ChatCalls, p \in posts : Ended(m) => Kept(m, p)'
        <5>1. \A d \in ResumeCalls : pc'[d] # "run"
          BY <1>2 DEF Calls, Alone, Others, InProgress
        <5> QED BY <1>2, <2>2, <3>1, <5>1 DEF Kept
      <4>2. Matched'
        BY <1>0, <4>1, MatchKept DEF ApprovalsInv, Alone
      <4> QED BY <2>2, <2>4, <3>1, <4>2 DEF Paused
    <3>2. CASE saved' = saved
      BY <1>0, <3>2, KeptByChat, SavedByOther
    <3> QED BY <2>1, <3>1, <3>2
  <2>6. Paused(local[c])' /\ ChatInv(c)'
    BY <1>0, <2>2, <2>4 DEF Paused, ChatInv
  <2> QED BY <1>2, <2>5, <2>6, OneCall
<1>4. CASE RunFails(c)
  <2>1. UNCHANGED <<saved, local>>
    BY <1>4 DEF RunFails, savedVars
  <2>2. Paused(local[c])' /\ ChatInv(c)'
    BY <1>0, <1>1, <2>1 DEF Paused, ChatInv
  <2> QED BY <1>0, <1>2, <2>1, <2>2, KeptByChat, SavedByOther, OneCall
<1> QED BY <1>3, <1>4

LEMMA ChatStarts ==
  ASSUME IInv, ApprovalsInv, NEW c \in Calls, Alone(c), StartChat(c)
  PROVE  ApprovalsInv'
<1>1. /\ Step(c, NewGraphInput(saved, c)) /\ c \in ChatCalls /\ UNCHANGED posts
      /\ pc[c] = "idle" /\ pc'[c] = "run"
  BY DEF StartChat, serviceVars, IInv, CallInv
<1>2. NoState \in States /\ NoState.interrupted = FALSE
  BY NoStateGood DEF Good, NoState
<1>3. NewGraphInput(saved, c).message = c /\ NewGraphInput(saved, c).interrupted = FALSE
  BY <1>2 DEF NewGraphInput, States
<1> QED BY <1>1, <1>3, ChatSteps

-----------------------------------------------------------------------------
(* The steps of resumes. *)

LEMMA ResumeAtWork ==
  ASSUME ~overlap, ApprovalsInv, NEW c \in ResumeCalls, c \in Calls
  PROVE  /\ Paused(local[c]) /\ DecisionInv(c) /\ c \notin ChatCalls
         /\ ~AnalyzeIntent(c) /\ ~SetAnswer(c) /\ ~QueryOrder(c) /\ ~RetrieveKnowledge(c)
         /\ ~GenerateKnowledgeAnswer(c) /\ ~RequestRefundApproval(c) /\ ~RunFails(c)
<1>1. Paused(local[c]) /\ DecisionInv(c) /\ c \notin ChatCalls
  BY CallsAssumption DEF ApprovalsInv, PauseInv
<1>2. pc[c] = "run" =>
        local[c].next \in {"request_refund_approval", "submit_refund", "save_turn"}
  BY <1>1 DEF DecisionInv, Asking
<1>3. pc[c] = "run" /\ local[c].next = "request_refund_approval" => fresh[c]
  BY <1>1 DEF DecisionInv
<1> QED BY <1>1, <1>2, <1>3, NodeNames DEF AnalyzeIntent, SetAnswer, QueryOrder,
           RetrieveKnowledge, GenerateKnowledgeAnswer, RequestRefundApproval, RunFails, At

(* The approval a resume works on has been shown, and no request holds it. *)
LEMMA AskedIsFree ==
  ASSUME IInv, ApprovalsInv, NEW c \in ResumeCalls, c \in Calls, Alone(c),
         pc[c] = "run", local[c].next \in Asking
  PROVE  /\ local[c].message \in Witnesses /\ Presented(local[c].message)
         /\ Ended(local[c].message) /\ local[c].message \in ChatCalls
         /\ \A q \in posts : ~Fits(local[c].message, q)
<1>1. Presented(local[c].message) /\ c \notin ChatCalls
  BY ResumeAtWork DEF DecisionInv, Alone
<1>2. PICK m : m = local[c].message
  OBVIOUS
<1>3. Presented(m) /\ m # c /\ m \in ChatCalls
  BY <1>1, <1>2 DEF Presented
<1>4. \A q \in posts : q.call # m /\ ~Kept(m, q)
  BY <1>2, <1>3, CallsAssumption DEF Kept, IInv, CallInv
<1> QED BY <1>2, <1>3, <1>4, ShownStays DEF Fits

(* The message a resume works for is that of another call. *)
LEMMA AskedStays ==
  ASSUME ApprovalsInv, NEW c \in ResumeCalls, c \in Calls, Alone(c),
         pc[c] = "run", local[c].next \in Asking, local'[c].message = local[c].message
  PROVE  Presented(local[c].message)'
<1>1. Presented(local[c].message) /\ c \notin ChatCalls
  BY ResumeAtWork DEF DecisionInv, Alone
<1>2. PICK m : m = local[c].message
  OBVIOUS
<1>3. Presented(m)'
  BY <1>1, <1>2, ShownStays DEF Presented
<1> QED BY <1>2, <1>3 DEF Presented

LEMMA ResumeDecides ==
  ASSUME IInv, ApprovalsInv, NEW c \in ResumeCalls, c \in Calls, Alone(c), TakeDecision(c)
  PROVE  ApprovalsInv'
<1>0. /\ local[c] \in States /\ pc[c] = "run" /\ pc' = pc /\ UNCHANGED posts
      /\ local[c].next = "request_refund_approval"
  BY DEF IInv, StateInv, TakeDecision, At, serviceVars
<1>1. PICK st : /\ Step(c, st) /\ st.message = local[c].message /\ ~st.interrupted
                /\ st.next \in {"submit_refund", "save_turn"}
  <2>1. PICK y, a, n : /\ n \in {"submit_refund", "save_turn"}
                       /\ Step(c, [[local[c] EXCEPT !.refundApproved = y,
                                                    !.interrupted = FALSE, !.answer = a]
                                   EXCEPT !.next = n])
    BY <1>0, RouteTypes DEF TakeDecision, States
  <2>2. PICK st : st = [[local[c] EXCEPT !.refundApproved = y, !.interrupted = FALSE,
                                         !.answer = a] EXCEPT !.next = n]
    OBVIOUS
  <2>3. st.message = local[c].message /\ st.interrupted = FALSE /\ st.next = n
    BY <1>0, <2>2 DEF States
  <2> QED BY <2>1, <2>2, <2>3
<1>2. local'[c] = st /\ saved' = saved /\ Contains(unsaved', c)
  BY <1>1, StepWaits DEF Step, IInv, StateInv
<1>3. \A p \in posts : p.call \in ResumeCalls
  BY DEF IInv, CallInv
<1>4. \A m \in ChatCalls, p \in posts : Kept(m, p) => Kept(m, p)'
  <2> SUFFICES ASSUME NEW m, NEW p \in posts, Kept(m, p) PROVE Kept(m, p)'
    OBVIOUS
  <2>1. m # local'[c].message
    BY <1>0, <1>1, <1>2 DEF Kept, Asking
  <2> QED BY <1>2, <1>3, <2>1, KeptBySame
<1>5. Matched'
  BY <1>0, <1>4, MatchKept DEF ApprovalsInv, Alone
<1>6. Presented(local[c].message)'
  BY <1>0, <1>1, <1>2, AskedStays DEF Asking
<1>7. Paused(local[c])' /\ DecisionInv(c)'
  BY <1>0, <1>1, <1>2, <1>6 DEF Paused, DecisionInv, Asking
<1> QED BY <1>2, <1>5, <1>7, SavedByOther, OneCall, CallsAssumption

(* What is left of a resume that has spent its decision. *)
LEMMA SpentResume ==
  ASSUME NEW c, pc'[c] # "resume",
         ~local'[c].interrupted,
         pc'[c] = "run" => local'[c].next = "save_turn"
  PROVE  Paused(local[c])' /\ DecisionInv(c)'
BY DEF Paused, DecisionInv, Asking

(* A resume beyond its decision that leaves the checkpoint alone. *)
LEMMA KeptByResume ==
  ASSUME IInv, NEW c \in ResumeCalls, c \in Calls, Alone(c), UNCHANGED saved,
         Contains(unsaved, c) => Contains(unsaved', c),
         pc'[c] = "run" => local'[c].next = "save_turn"
  PROVE  \A m \in ChatCalls, p \in posts : Kept(m, p) => Kept(m, p)'
<1>1. \A p \in posts : p.call \in ResumeCalls
  BY DEF IInv, CallInv
<1> QED BY <1>1, KeptBySame DEF Asking

LEMMA ResumeSubmits ==
  ASSUME IInv, PostInv, ApprovalsInv, NEW c \in ResumeCalls, c \in Calls, Alone(c),
         SubmitRefund(c) \/ SubmitRefundFails(c)
  PROVE  ApprovalsInv'
<1>0. /\ local[c] \in States /\ pc[c] = "run" /\ local[c].next = "submit_refund"
      /\ saved' = saved /\ c \notin ChatCalls
  BY CallsAssumption DEF IInv, StateInv, SubmitRefund, SubmitRefundFails, AtSubmit, At, Step,
     savedVars
<1>1. /\ ~local[c].interrupted
      /\ Contains(unsaved, c) \/ ~saved.interrupted \/ lost[c]
  BY <1>0, ResumeAtWork DEF Paused, DecisionInv, Alone
<1>2. PICK p : posts' = posts \cup {p} /\ p.call = c
  BY OnePost
<1>3. /\ pc'[c] \in {"run", "finish"} /\ ~local'[c].interrupted
      /\ pc'[c] = "run" => local'[c].next = "save_turn"
      /\ Contains(unsaved, c) => Contains(unsaved', c)
  <2>1. CASE SubmitRefund(c)
    <3>1. PICK st : /\ st = [local[c] EXCEPT !.answer = "submitted", !.next = "save_turn"]
                    /\ Step(c, st)
      BY <2>1 DEF SubmitRefund
    <3>2. st.interrupted = local[c].interrupted /\ st.next = "save_turn"
      BY <1>0, <3>1 DEF States
    <3>3. local'[c] = st /\ Contains(unsaved', c)
      BY <3>1, StepWaits DEF Step, IInv, StateInv
    <3>4. pc' = pc
      BY <2>1 DEF SubmitRefund
    <3> QED BY <1>0, <1>1, <3>2, <3>3, <3>4
  <2>2. CASE SubmitRefundFails(c)
    <3>1. UNCHANGED <<unsaved, local>> /\ pc'[c] = "finish"
      BY <2>2 DEF SubmitRefundFails, savedVars, End, IInv, CallInv
    <3> QED BY <1>1, <3>1
  <2> QED BY <2>1, <2>2
<1>4. \A m \in ChatCalls, q \in posts : Kept(m, q) => Kept(m, q)'
  BY <1>0, <1>3, KeptByResume
<1>5. Matched'
  <2>1. CASE lost[c]
    <3>1. c \in Witnesses /\ Fits(c, p)'
      BY <1>2, <2>1 DEF Witnesses, Troubled, Fits
    <3>2. \A q \in posts : ~Fits(c, q)
      BY <1>0 DEF PostInv, Spent, Ended, Fits
    <3> QED BY <1>2, <1>4, <3>1, <3>2, MatchGrows DEF ApprovalsInv, Alone
  <2>2. CASE ~lost[c]
    <3>1. PICK m \in Witnesses : /\ m = local[c].message /\ Ended(m) /\ m \in ChatCalls
                                 /\ \A q \in posts : ~Fits(m, q)
      BY <1>0, AskedIsFree DEF Asking
    <3>2. \A d \in ResumeCalls : pc'[d] = "run" => local'[d].next \notin Asking
      BY <1>3 DEF Calls, Alone, Others, InProgress, Asking
    <3>3. saved'.interrupted => Contains(unsaved', c)
      <4>1. CASE SubmitRefund(c)
        BY <4>1, StepWaits DEF SubmitRefund
      <4>2. CASE SubmitRefundFails(c)
        BY <1>0, <1>1, <1>3, <2>2
      <4> QED BY <4>1, <4>2
    <3>4. Fits(m, p)'
      BY <1>2, <3>1, <3>2, <3>3, ShownStays DEF Fits, Kept
    <3> QED BY <1>2, <1>4, <3>1, <3>4, MatchGrows DEF ApprovalsInv, Alone
  <2> QED BY <2>1, <2>2
<1>6. Paused(local[c])' /\ DecisionInv(c)'
  BY <1>3, SpentResume
<1> QED BY <1>0, <1>5, <1>6, SavedByOther, OneCall

LEMMA ResumeSaves ==
  ASSUME IInv, ApprovalsInv, NEW c \in ResumeCalls, c \in Calls, Alone(c), SaveTurn(c)
  PROVE  ApprovalsInv'
<1>0. /\ local[c] \in States /\ pc[c] = "run" /\ local[c].next = "save_turn"
      /\ pc'[c] = "finish" /\ UNCHANGED posts /\ c \notin ChatCalls
  BY CallsAssumption DEF IInv, StateInv, CallInv, SaveTurn, At, End, serviceVars
<1>1. ~local[c].interrupted
  BY <1>0, ResumeAtWork DEF Paused, Alone
<1>2. PICK h, a, st : /\ st = [local[c] EXCEPT !.history = h, !.active = a, !.next = "END"]
                      /\ Step(c, st)
  BY <1>0 DEF SaveTurn, States
<1>3. st.interrupted = local[c].interrupted
  BY <1>0, <1>2 DEF States
<1>4. local'[c] = st /\ saved' = saved /\ Contains(unsaved', c)
  BY <1>2, StepWaits DEF Step, IInv, StateInv
<1>5. Matched'
  <2>1. \A m \in ChatCalls, q \in posts : Kept(m, q) => Kept(m, q)'
    BY <1>0, <1>4, KeptByResume
  <2> QED BY <1>0, <2>1, MatchKept DEF ApprovalsInv, Alone
<1>6. Paused(local[c])' /\ DecisionInv(c)'
  BY <1>0, <1>1, <1>3, <1>4, SpentResume
<1> QED BY <1>0, <1>4, <1>5, <1>6, SavedByOther, OneCall

(* Before its run, a resume changes nothing but where it is. *)
LEMMA ResumeStarts ==
  ASSUME IInv, ApprovalsInv, NEW c \in Calls, Alone(c),
         StartResume(c) \/ CheckPending(c) \/ NothingPending(c) \/ ReadFails(c)
  PROVE  ApprovalsInv'
<1>1. /\ UNCHANGED <<saved, unsaved, local, posts>>
      /\ pc[c] \in {"idle", "check", "resume"} /\ pc'[c] \in {"check", "resume", "done"}
      /\ pc'[c] = "resume" => saved.interrupted
  BY DEF StartResume, CheckPending, NothingPending, ReadFails, savedVars, serviceVars, IInv,
     CallInv
<1>2. c \in ResumeCalls /\ c \notin ChatCalls
  BY <1>1, CallsAssumption DEF StartResume, CheckPending, NothingPending, ReadFails,
     ApprovalsInv, Alone, ChatInv, Calls
<1>3. Matched'
  <2>1. \A m \in ChatCalls, q \in posts : Kept(m, q) => Kept(m, q)'
    BY <1>1, <1>2, KeptByResume
  <2> QED BY <1>1, <2>1, MatchKept DEF ApprovalsInv, Alone
<1>4. Paused(local[c])'
  BY <1>1 DEF ApprovalsInv, Alone, PauseInv, Paused
<1>5. DecisionInv(c)'
  BY <1>1 DEF DecisionInv
<1> QED BY <1>1, <1>2, <1>3, <1>4, <1>5, SavedByOther, OneCall

LEMMA ResumeRuns ==
  ASSUME IInv, PostInv, ApprovalsInv, NEW c \in Calls, Alone(c), Resume(c)
  PROVE  ApprovalsInv'
<1>1. c \in ResumeCalls /\ c \notin ChatCalls
  BY CallsAssumption DEF Resume, ApprovalsInv, Alone, ChatInv, Calls
<1>2. /\ saved.interrupted /\ Paused(saved) /\ Presented(saved.message)
      /\ saved.next = "request_refund_approval"
  BY <1>1, ResumeAtWork DEF Resume, DecisionInv, ApprovalsInv, Alone, PauseInv, Paused
<1>3. /\ UNCHANGED <<saved, unsaved, posts>> /\ local'[c] = saved /\ fresh'[c]
      /\ pc[c] = "resume" /\ pc'[c] = "run"
  BY <1>2 DEF Resume, savedVars, serviceVars, IInv, CallInv, StateInv
<1>4. \A d \in Calls : ~Contains(unsaved, d)
  BY <1>3 DEF Alone, Others, IInv, ApprovalInv
<1>5. \A p \in posts : p.call \in ResumeCalls /\ p.call \in Calls
  BY DEF IInv, CallInv, Calls
<1>6. \A m \in ChatCalls, p \in posts : Kept(m, p) => Kept(m, p)'
  <2> SUFFICES ASSUME NEW m, NEW p \in posts, Kept(m, p) PROVE Kept(m, p)'
    OBVIOUS
  <2>1. m # local'[c].message
    BY <1>2, <1>3, <1>4, <1>5 DEF Kept
  <2> QED BY <1>3, <1>5, <2>1, KeptBySame
<1>7. Matched'
  BY <1>3, <1>6, MatchKept DEF ApprovalsInv, Alone
<1>8. (saved.interrupted => Presented(saved.message))' /\ Paused(saved)'
  BY <1>1, <1>3, SavedByOther
<1>9. Presented(local[c].message)'
  BY <1>2, <1>3, <1>8
<1>10. Paused(local[c])' /\ DecisionInv(c)'
  BY <1>2, <1>3, <1>4, <1>9 DEF Paused, DecisionInv, Asking
<1> QED BY <1>1, <1>7, <1>8, <1>10, OneCall

-----------------------------------------------------------------------------
(* The checkpoints that are written or lost, the calls that end, and the    *)
(* process.                                                                 *)

LEMMA PersistKeepsMatch ==
  ASSUME IInv, Distinct(unsaved), ApprovalsInv, NEW c \in Calls, Alone(c), Persist(c)
  PROVE  ApprovalsInv'
<1>1. /\ saved' = local[c] /\ UNCHANGED <<pc, local, fresh, reply, lost, posts>>
      /\ Contains(unsaved, c) /\ pc[c] \in {"run", "finish"}
  BY DEF Persist, callVars, serviceVars, IInv, ApprovalInv
<1>2. ~Contains(unsaved', c)
  BY PersistTakesOut
<1>3. Paused(local[c]) /\ (Paused(saved) /\ Paused(local[c]))'
  BY <1>1 DEF ApprovalsInv, Alone, PauseInv, Paused
<1>4. CASE c \in ChatCalls
  <2>1. ChatInv(c) /\ c \notin ResumeCalls
    BY <1>4, CallsAssumption DEF ApprovalsInv, Alone
  <2>2. local[c].message = c /\ (local[c].interrupted => Presented(c))
    BY <1>1, <2>1 DEF ChatInv
  <2>3. ChatInv(c)'
    BY <1>1, <2>1 DEF ChatInv, Presented, Ended, Troubled
  <2>4. (saved.interrupted => Presented(saved.message))'
    BY <1>1, <2>2 DEF Presented, Ended, Troubled
  <2>5. \A m \in ChatCalls, p \in posts : Ended(m) => Kept(m, p)'
    <3>1. \A d \in ResumeCalls : pc'[d] # "run"
      BY <2>1 DEF Calls, Alone, Others, InProgress
    <3> QED BY <1>1, <2>2, <3>1 DEF Kept, Ended
  <2>6. Matched'
    BY <1>1, <2>5, MatchKept DEF ApprovalsInv, Alone
  <2> QED BY <1>3, <2>1, <2>3, <2>4, <2>6, OneCall
<1>5. CASE c \in ResumeCalls
  <2>1. DecisionInv(c) /\ ~local[c].interrupted /\ c \notin ChatCalls
    BY <1>1, <1>5, ResumeAtWork DEF DecisionInv, Alone
  <2>2. DecisionInv(c)'
    BY <1>1, <2>1 DEF DecisionInv, Presented, Ended, Troubled
  <2>3. \A m \in ChatCalls, p \in posts : Kept(m, p) => Kept(m, p)'
    BY <1>1, <2>1 DEF Kept
  <2>4. Matched'
    BY <1>1, <2>3, MatchKept DEF ApprovalsInv, Alone
  <2>5. (saved.interrupted => Presented(saved.message))'
    BY <1>1, <2>1
  <2> QED BY <1>3, <2>1, <2>2, <2>4, <2>5, OneCall
<1> QED BY <1>4, <1>5 DEF Calls

(* What a call in trouble, or one that ends, had presented is presented. *)
LEMMA PresentedStays ==
  ASSUME NEW c \in Calls, Alone(c), ApprovalsInv, UNCHANGED saved, Presented(c) => Presented(c)'
  PROVE  (saved.interrupted => Presented(saved.message))' /\ Paused(saved)'
<1>1. Paused(saved) /\ (saved.interrupted => Presented(saved.message))
  BY DEF ApprovalsInv, Alone, PauseInv
<1>2. PICK m : m = saved.message
  OBVIOUS
<1>3. saved.interrupted => Presented(m)'
  BY <1>1, <1>2, ShownStays
<1> QED BY <1>1, <1>2, <1>3 DEF Paused, Presented

LEMMA LossKeepsMatch ==
  ASSUME IInv, PostInv, ApprovalsInv, NEW c \in Calls, Alone(c), PersistFails(c)
  PROVE  ApprovalsInv'
<1>1. /\ pc[c] \in {"run", "finish"} /\ UNCHANGED <<saved, pc, local, fresh, reply, posts>>
      /\ lost'[c] /\ unsaved' \in {unsaved, RemoveFirst(unsaved, c)}
  BY DEF PersistFails, callVars, serviceVars, IInv, CallInv
<1>2. ~Contains(unsaved, c) => ~Contains(unsaved', c)
  BY <1>1 DEF RemoveFirst, Contains
<1>3. Troubled(c)' /\ (Presented(c) => Presented(c)')
  BY <1>1 DEF Troubled, Presented, Ended
<1>4. Matched'
  <2>1. \A p \in posts : p.call \in ResumeCalls
    BY DEF IInv, CallInv
  <2>2. ASSUME NEW m, NEW p \in posts, p.call # c, Kept(m, p)
        PROVE  Kept(m, p)'
    <3>1. c \in ResumeCalls /\ pc'[c] = "run" /\ local'[c].next \in Asking =>
            m # local'[c].message
      BY <1>1, <2>2 DEF Kept
    <3> QED BY <1>1, <2>1, <2>2, <3>1, KeptBySame
  <2> QED BY <1>1, <1>3, <2>2, MatchReleased DEF ApprovalsInv, Alone, Calls
<1>5. Paused(local[c])'
  BY <1>1 DEF ApprovalsInv, Alone, PauseInv, Paused
<1>6. c \in ChatCalls => ChatInv(c)'
  BY <1>1, <1>3 DEF ApprovalsInv, Alone, ChatInv
<1>7. c \in ResumeCalls => DecisionInv(c)'
  <2> SUFFICES ASSUME c \in ResumeCalls PROVE DecisionInv(c)'
    OBVIOUS
  <2>1. DecisionInv(c)
    BY DEF ApprovalsInv, Alone
  <2>2. pc[c] = "run" /\ local[c].next \in Asking => Presented(local[c].message)'
    BY <1>1, AskedStays
  <2> QED BY <1>1, <1>2, <2>1, <2>2 DEF DecisionInv, Asking
<1> QED BY <1>1, <1>3, <1>4, <1>5, <1>6, <1>7, PresentedStays, OneCall

LEMMA FinishKeepsMatch ==
  ASSUME IInv, ApprovalsInv, NEW c \in Calls, Alone(c), Finish(c)
  PROVE  ApprovalsInv'
<1>1. /\ UNCHANGED <<saved, unsaved, posts, lost>> /\ local'[c] = NoState
      /\ pc[c] = "finish" /\ pc'[c] = "done"
  BY DEF Finish, savedVars, serviceVars, IInv, CallInv, StateInv
<1>2. ~lost[c] => reply' = reply
  BY DEF Finish
<1>3. Presented(c) => Presented(c)'
  BY <1>1, <1>2 DEF Presented, Ended, Troubled
<1>4. Matched'
  <2>1. \A p \in posts : p.call \in ResumeCalls
    BY DEF IInv, CallInv
  <2>2. \A m \in ChatCalls, p \in posts : Kept(m, p) => Kept(m, p)'
    BY <1>1, <2>1, KeptBySame
  <2> QED BY <1>1, <2>2, MatchKept DEF ApprovalsInv, Alone
<1>5. Paused(local[c])' /\ ChatInv(c)' /\ DecisionInv(c)'
  <2>1. NoState.interrupted = FALSE
    BY DEF NoState
  <2> QED BY <1>1, <2>1 DEF Paused, ChatInv, DecisionInv
<1> QED BY <1>1, <1>3, <1>4, <1>5, PresentedStays, OneCall

LEMMA CrashKeepsMatch ==
  ASSUME IInv, PostInv, HistoryInv, ApprovalsInv, Crash, ~overlap
  PROVE  ApprovalsInv'
<1>1. /\ pc' = [c \in Calls |-> IF pc[c] \in {"idle", "done"} THEN pc[c] ELSE "dead"]
      /\ reply' = [c \in Calls |-> IF pc[c] = "done" THEN reply[c] ELSE NoReply]
      /\ local' = [c \in Calls |-> NoState]
      /\ UNCHANGED <<saved, lost, posts>>
  BY DEF Crash, serviceVars
<1>2. PICK c \in Calls : /\ pc[c] \notin {"idle", "done"}
                         /\ \A d \in Calls : d # c => ~InProgress(d)
  <2>1. CASE \E d \in Calls : InProgress(d)
    BY <2>1 DEF HistoryInv, InProgress
  <2>2. CASE ~\E d \in Calls : InProgress(d)
    BY <2>2 DEF Crash
  <2> QED BY <2>1, <2>2
<1>3. Alone(c)
  <2>1. \A d \in Calls : Contains(unsaved, d) => InProgress(d)
    BY DEF IInv, ApprovalInv, InProgress
  <2>2. pc \in [Calls -> {"idle", "check", "resume", "run", "finish", "done", "dead"}]
    BY DEF IInv, CallInv
  <2> QED BY <1>1, <1>2, <2>1, <2>2 DEF Alone, Others, InProgress, Ended
<1>4. pc'[c] = "dead" /\ Troubled(c)' /\ (Presented(c) => Presented(c)')
  BY <1>1, <1>2 DEF Troubled, Presented, Ended
<1>5. Matched'
  <2>1. \A p \in posts : p.call \in ResumeCalls
    BY DEF IInv, CallInv
  <2>2. \A m \in ChatCalls, p \in posts : p.call # c /\ Kept(m, p) => Kept(m, p)'
    BY <1>1, <1>3, <1>4, <2>1, KeptBySame
  <2> QED BY <1>1, <1>3, <1>4, <2>2, MatchReleased DEF ApprovalsInv, Calls
<1>6. Paused(local[c])' /\ ChatInv(c)' /\ DecisionInv(c)'
  BY <1>1, <1>4 DEF Paused, ChatInv, DecisionInv, NoState
<1> QED BY <1>1, <1>3, <1>4, <1>5, <1>6, PresentedStays, OneCall

-----------------------------------------------------------------------------

LEMMA InitApprovals == Init => PostInv /\ ApprovalsInv
<1> SUFFICES ASSUME Init PROVE PostInv /\ ApprovalsInv
  OBVIOUS
<1>1. /\ saved = NoState /\ posts = {} /\ \A c \in Calls : pc[c] = "idle" /\ local[c] = NoState
      /\ ~NoState.interrupted
  BY DEF Init, NoState
<1>2. Matched
  <2>1. PICK f : f = [q \in {} |-> q]
    OBVIOUS
  <2>2. f \in Injection(posts, Witnesses)
    BY <1>1, <2>1 DEF Injection, IsInjective
  <2> QED BY <1>1, <2>2 DEF Matched
<1>3. PauseInv
  BY <1>1 DEF PauseInv, Paused
<1> QED BY <1>1, <1>2, <1>3 DEF PostInv, ApprovalsInv, ChatInv, DecisionInv, Calls

LEMMA NextApprovals ==
  IInv /\ Distinct(unsaved) /\ HistoryInv /\ PostInv /\ ApprovalsInv /\ [Next]_vars
    => ApprovalsInv'
<1> SUFFICES ASSUME IInv, Distinct(unsaved), HistoryInv, PostInv, ApprovalsInv, [Next]_vars,
                    ~overlap'
             PROVE  ApprovalsInv'
  BY DEF ApprovalsInv
<1>1. ASSUME NEW c \in Calls, Does(c)
      PROVE  ApprovalsInv'
  <2>1. Alone(c) /\ ~overlap
    BY <1>1, Frame DEF Alone
  <2>2. CASE c \in ChatCalls /\ (Node(c) \/ RunFails(c))
    BY <2>1, <2>2, ChatNodes, ChatEnds, CallsAssumption
       DEF Node, SubmitRefund, SubmitRefundFails, AtSubmit
  <2>3. CASE c \in ResumeCalls /\ (Node(c) \/ RunFails(c))
    BY <2>1, <2>3, ResumeAtWork, ResumeDecides, ResumeSubmits, ResumeSaves DEF Node
  <2>4. CASE StartChat(c)
    BY <2>1, <2>4, ChatStarts
  <2>5. CASE StartResume(c) \/ CheckPending(c) \/ NothingPending(c) \/ ReadFails(c)
               \/ Resume(c)
    BY <2>1, <2>5, ResumeStarts, ResumeRuns
  <2>6. CASE Persist(c) \/ PersistFails(c) \/ Finish(c)
    BY <2>1, <2>6, PersistKeepsMatch, LossKeepsMatch, FinishKeepsMatch
  <2> QED BY <1>1, <2>2, <2>3, <2>4, <2>5, <2>6 DEF Does, Calls
<1>2. CASE Crash
  <2>1. ~overlap
    BY <1>2 DEF Crash, historyVars
  <2> QED BY <1>2, <2>1, CrashKeepsMatch
<1>3. CASE UNCHANGED vars
  BY <1>3 DEF vars, ApprovalsInv, PauseInv, Paused, Matched, Witnesses, Fits, Kept, Shown,
     Replied, Presented, Ended, Troubled, ChatInv, DecisionInv
<1> QED BY <1>1, <1>2, <1>3 DEF Next, Does

(* Calls that do not overlap send at most one refund request for each       *)
(* approval that was shown, and one more for each call that a crash or a    *)
(* failing checkpoint write has hit (resume_refund's check of the           *)
(* interrupts, request_refund_approval, submit_refund).                     *)
THEOREM RequestsHaveOwnApprovals == Spec => []OneRequestPerApproval
<1>1. IInv /\ Distinct(unsaved) /\ [Next]_vars => Distinct(unsaved)'
  BY QueueDistinct
<1>2. ApprovalsInv => OneRequestPerApproval
  BY DEF ApprovalsInv, Matched, OneRequestPerApproval, ExistsInjection, Witnesses, Shown
<1> QED BY <1>1, <1>2, InitHistory, NextHistory, InitApprovals, NextPosts, NextApprovals,
           AgentInvariance, PTL DEF Spec

-----------------------------------------------------------------------------
(* A resume gets to submit_refund by its own decision: its run begins at    *)
(* the pause, and no other node leads there.                                *)

DenialInv ==
  ~overlap => /\ \A p \in posts : decision[p.call].approved
              /\ \A d \in ResumeCalls :
                   pc[d] = "run" /\ local[d].next = "submit_refund" => decision[d].approved

LEMMA SubmitFollowsDecision ==
  ASSUME IInv, ApprovalsInv, ~overlap, NEW d \in ResumeCalls, Does(d),
         pc'[d] = "run", local'[d].next = "submit_refund"
  PROVE  /\ decision' = decision
         /\ (pc[d] = "run" /\ local[d].next = "submit_refund") \/ decision[d].approved
<1>0. /\ local \in [Calls -> States] /\ local[d] \in States
      /\ pc \in [Calls -> {"idle", "check", "resume", "run", "finish", "done", "dead"}]
      /\ d \in Calls /\ d \notin ChatCalls
  BY CallsAssumption DEF IInv, StateInv, CallInv, Calls
<1>1. CASE TakeDecision(d)
  <2>1. PICK st : /\ st.refundApproved = decision[d].approved
                  /\ local'[d].next = RouteAfterRefundApproval(st)
                  /\ decision' = decision
    <3>1. PICK a : LET st == [local[d] EXCEPT !.refundApproved = decision[d].approved,
                                              !.interrupted = FALSE, !.answer = a]
                   IN Step(d, [st EXCEPT !.next = RouteAfterRefundApproval(st)])
      BY <1>0, <1>1 DEF TakeDecision, States
    <3>2. PICK st : /\ st = [local[d] EXCEPT !.refundApproved = decision[d].approved,
                                             !.interrupted = FALSE, !.answer = a]
                    /\ Step(d, [st EXCEPT !.next = RouteAfterRefundApproval(st)])
      BY <3>1
    <3>3. st.refundApproved = decision[d].approved
      BY <1>0, <3>2 DEF States
    <3>4. local'[d].next = RouteAfterRefundApproval(st)
      BY <1>0, <3>2 DEF Step, States
    <3> QED BY <1>1, <3>3, <3>4 DEF TakeDecision
  <2> QED BY <2>1 DEF RouteAfterRefundApproval
<1>2. ASSUME SubmitRefund(d) \/ SubmitRefundFails(d) \/ SaveTurn(d)
      PROVE  FALSE
  <2>1. CASE SubmitRefund(d)
    <3>1. PICK st : st.next = "save_turn" /\ Step(d, st)
      <4>1. PICK st : /\ st = [local[d] EXCEPT !.answer = "submitted", !.next = "save_turn"]
                      /\ Step(d, st)
        BY <2>1 DEF SubmitRefund
      <4> QED BY <1>0, <4>1 DEF States
    <3> QED BY <1>0, <3>1 DEF Step
  <2>2. CASE SubmitRefundFails(d) \/ SaveTurn(d)
    BY <1>0, <2>2 DEF SubmitRefundFails, SaveTurn, End
  <2> QED BY <1>2, <2>1, <2>2
<1>3. CASE Persist(d) \/ PersistFails(d)
  BY <1>3 DEF Persist, PersistFails, callVars
<1>4. ASSUME Resume(d)
      PROVE  FALSE
  <2>1. saved.next = "request_refund_approval"
    BY <1>0, <1>4, ResumeAtWork DEF Resume, DecisionInv, ApprovalsInv, PauseInv, Paused
  <2> QED BY <1>0, <1>4, <2>1 DEF Resume
<1>5. CASE StartChat(d) \/ StartResume(d) \/ CheckPending(d) \/ NothingPending(d)
             \/ ReadFails(d) \/ Finish(d)
  BY <1>0, <1>5 DEF StartChat, StartResume, CheckPending, NothingPending, ReadFails, Finish
<1> QED BY <1>0, <1>1, <1>2, <1>3, <1>4, <1>5, ResumeAtWork DEF Does, Node

LEMMA NextDenial ==
  IInv /\ HistoryInv /\ PostInv /\ ApprovalsInv /\ DenialInv /\ [Next]_vars => DenialInv'
<1> SUFFICES ASSUME IInv, HistoryInv, PostInv, ApprovalsInv, DenialInv, [Next]_vars, ~overlap'
             PROVE  DenialInv'
  BY DEF DenialInv
<1>0. /\ \A p \in posts : p.call \in ResumeCalls
      /\ ResumeCalls \subseteq Calls
  BY DEF IInv, CallInv, Calls
<1>1. ASSUME NEW c \in Calls, Does(c)
      PROVE  DenialInv'
  <2>1. ~overlap
    BY <1>1, Frame DEF Alone
  <2>2. \A d \in Calls : decision'[d] # decision[d] => d = c /\ pc[c] = "idle"
    BY <1>1 DEF Does, Node, StartChat, StartResume, CheckPending, NothingPending, ReadFails,
       Resume, RunFails, Persist, PersistFails, Finish, AnalyzeIntent, SetAnswer, QueryOrder,
       RetrieveKnowledge, GenerateKnowledgeAnswer, RequestRefundApproval, TakeDecision,
       SubmitRefund, SubmitRefundFails, SaveTurn, IInv, CallInv
  <2>3. \A p \in posts : decision'[p.call].approved
    BY <1>0, <2>1, <2>2 DEF DenialInv, PostInv, Spent, Ended
  <2>4. \A p \in posts' : decision'[p.call].approved
    <3>1. CASE SubmitRefund(c) \/ SubmitRefundFails(c)
      <4>1. PICK p : posts' = posts \cup {p} /\ p.call = c
        BY <3>1, OnePost
      <4>2. c \in ResumeCalls /\ pc[c] = "run" /\ local[c].next = "submit_refund"
        BY <3>1 DEF SubmitRefund, SubmitRefundFails, AtSubmit, At
      <4>3. decision'[c].approved
        BY <2>1, <2>2, <4>2 DEF DenialInv
      <4> QED BY <2>3, <4>1, <4>3
    <3>2. CASE ~(SubmitRefund(c) \/ SubmitRefundFails(c))
      <4>1. UNCHANGED posts
        BY <1>1, <3>2 DEF Does, Node, StartChat, StartResume, CheckPending, NothingPending,
           ReadFails, Resume, RunFails, Persist, PersistFails, Finish, AnalyzeIntent, SetAnswer,
           QueryOrder, RetrieveKnowledge, GenerateKnowledgeAnswer, RequestRefundApproval,
           TakeDecision, SaveTurn, serviceVars
      <4> QED BY <2>3, <4>1
    <3> QED BY <3>1, <3>2
  <2>5. ASSUME NEW d \in ResumeCalls, pc'[d] = "run", local'[d].next = "submit_refund"
        PROVE  decision'[d].approved
    <3>1. CASE d = c
      BY <1>1, <2>1, <2>5, <3>1, SubmitFollowsDecision DEF DenialInv
    <3>2. CASE d # c
      <4>1. pc'[d] = pc[d] /\ local'[d] = local[d]
        BY <1>0, <1>1, <3>2, OneMoves
      <4> QED BY <1>0, <2>1, <2>2, <2>5, <3>2, <4>1 DEF DenialInv
    <3> QED BY <3>1, <3>2
  <2> QED BY <2>4, <2>5 DEF DenialInv
<1>2. CASE Crash
  BY <1>0, <1>2 DEF Crash, serviceVars, historyVars, DenialInv, IInv, CallInv
<1>3. CASE UNCHANGED vars
  BY <1>3 DEF vars, DenialInv
<1> QED BY <1>1, <1>2, <1>3 DEF Next, Does

(* Calls that do not overlap: a resume that denies sends no refund request, *)
(* wherever crashes, failures and lost writes have left the thread.         *)
THEOREM DenialsRefundNothing == Spec => []DenialRefundsNothing
<1>1. IInv /\ Distinct(unsaved) /\ [Next]_vars => Distinct(unsaved)'
  BY QueueDistinct
<1>2. Init => DenialInv
  BY DEF Init, DenialInv, Calls
<1>3. DenialInv => DenialRefundsNothing
  BY DEF DenialInv, DenialRefundsNothing
<1> QED BY <1>1, <1>2, <1>3, InitHistory, NextHistory, InitApprovals, NextPosts, NextApprovals,
           NextDenial, AgentInvariance, PTL DEF Spec
=============================================================================
