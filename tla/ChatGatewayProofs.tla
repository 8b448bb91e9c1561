-------------------------- MODULE ChatGatewayProofs --------------------------
(***************************************************************************)
(* Theorems about ChatGateway, for any requests, users, threads and        *)
(* lengths of streams.  The invariant is one about each request: what its  *)
(* servlet, its handler in the agent service and the events on their way   *)
(* have to do with each other.  A step is one of the servlet or one of the *)
(* handler, of one request, and leaves the other requests alone.           *)
(***************************************************************************)
EXTENDS ChatGateway, SequenceTheorems, FiniteSetTheorems, TLAPS

RecordCodes == {"NONE", "HTTP_ERROR", "ASYNC_TIMEOUT", "ASYNC_ERROR"}

GatewayTypes ==
  /\ FilterTypeOK /\ StreamTypeOK /\ LimiterTypeOK
  /\ asked \in [Requests -> [kind : Kinds, user : Users, thread : Threads]]
  /\ owner \in [Threads -> Users \cup {NoOwner}]
  /\ relayed \in [Requests -> Nat]
  /\ gone \in [Requests -> BOOLEAN]

(* The listener is there as long as the container may call it. *)
Recorded(r) ==
  /\ records[r] = <<>> \/ \E code \in RecordCodes : records[r] = <<code>>
  /\ servlet[r] = "idle" => records[r] = <<>>
  /\ servlet[r] \in {"await", "relay", "closing", "broken"} => listener[r]
  /\ servlet[r] = "over" => records[r] # <<>>

(* Once the agent service has answered without a stream, it is done; what   *)
(* the client is told is that answer, or a 400 or 503 of the servlet's own. *)
Fated(r) ==
  /\ servlet[r] \in {"idle", "await", "relay", "broken"} => status[r] = 200
  /\ servlet[r] = "idle" => serving[r] = "none"
  /\ reply[r] # 0 => serving[r] \in {"run", "tail", "over", "dead"}
  /\ reply[r] # 0 /\ sent[r] = <<>> => serving[r] = "over"
  /\ sent[r] # <<>> => reply[r] = 200
  /\ servlet[r] \in {"relay", "broken"} => sent[r] # <<>>
  /\ servlet[r] \in {"closing", "over"} =>
       /\ status[r] = 400 => serving[r] = "none"
       /\ status[r] \notin {400, 503} => status[r] = reply[r] /\ reply[r] # 0

(* What an answer says of the run, which a stream or a resume has. *)
Answered(r) ==
  /\ reply[r] # 400
  /\ serving[r] \in {"limit", "run", "tail"} \/ sent[r] # <<>> => asked[r].kind = "stream"
  /\ serving[r] = "resume" =>
       asked[r].kind = "resume" /\ graph[r] = "running" /\ sent[r] = <<>>
  /\ serving[r] \in {"run", "tail"} \/ sent[r] # <<>> => graph[r] # "none" /\ reply[r] = 200
  /\ reply[r] = 429 => graph[r] = "none"
  /\ asked[r].kind = "stream" /\ reply[r] \in {404, 500} => graph[r] = "none"
  /\ asked[r].kind = "resume" /\ reply[r] = 200 => graph[r] = "completed"

Tokens(s, n) == \A i \in 2..n : s[i] = "token"

(* What the encoder has yielded, given how the graph ended. *)
Told(s, ended) ==
  /\ s # <<>> => s[1] = "metadata"
  /\ \A i \in 2..Len(s) :
       \/ s[i] = "token"
       \/ s[i] \in Results /\ i >= Len(s) - 1 /\ ended = "completed"
       \/ s[i] = "done" /\ i = Len(s) /\ s[i - 1] \in Results
       \/ s[i] = "error" /\ i = Len(s) /\ ended = "failed"

Ended(s) == s[Len(s)] \in {"done", "error"}

Streamed(r) ==
  /\ Told(sent[r], graph[r])
  /\ serving[r] \in {"none", "limit", "resolve"} => graph[r] = "none"
  /\ serving[r] = "run" =>
       sent[r] # <<>> /\ graph[r] = "running" /\ Tokens(sent[r], Len(sent[r]))
  /\ serving[r] = "tail" =>
       /\ Len(sent[r]) >= 2 /\ sent[r][Len(sent[r])] \in Results
       /\ graph[r] = "completed" /\ Tokens(sent[r], Len(sent[r]) - 1)
  /\ servlet[r] \in {"await", "relay"} /\ serving[r] = "over" /\ sent[r] # <<>>
       => Ended(sent[r])

Relayed(r) ==
  /\ relayed[r] <= Len(sent[r])
  /\ servlet[r] \in {"idle", "await"} => relayed[r] = 0
  /\ servlet[r] = "closing" /\ relayed[r] > 0 /\ ~gone[r] =>
       serving[r] = "over" /\ relayed[r] = Len(sent[r]) /\ Ended(sent[r])

RequestInv(r) ==
  Recorded(r) /\ Fated(r) /\ Answered(r) /\ Streamed(r) /\ Relayed(r)

IInv == GatewayTypes /\ \A r \in Requests : RequestInv(r)

-----------------------------------------------------------------------------
(* A request that a step leaves alone. *)
Untouched(r) ==
  /\ servlet'[r] = servlet[r] /\ status'[r] = status[r]
  /\ listener'[r] = listener[r] /\ records'[r] = records[r]
  /\ serving'[r] = serving[r] /\ reply'[r] = reply[r]
  /\ sent'[r] = sent[r] /\ graph'[r] = graph[r]
  /\ relayed'[r] = relayed[r] /\ gone'[r] = gone[r] /\ asked'[r] = asked[r]

LEMMA UntouchedKept ==
  ASSUME GatewayTypes, NEW r \in Requests, RequestInv(r), Untouched(r)
  PROVE  RequestInv(r)'
<1>1. Fated(r)'
  BY DEF Untouched, RequestInv, Fated
<1>2. Recorded(r)'
  BY DEF Untouched, RequestInv, Recorded
<1>3. Answered(r)'
  BY DEF Untouched, RequestInv, Answered
<1>4. Streamed(r)'
  BY DEF Untouched, RequestInv, Streamed
<1>5. Relayed(r)'
  BY DEF Untouched, RequestInv, Relayed
<1> QED BY <1>1, <1>2, <1>3, <1>4, <1>5 DEF RequestInv

LEMMA OtherRequests ==
  ASSUME IInv, NEW r \in Requests, RequestInv(r)', GatewayTypes',
         \A q \in Requests : q # r => Untouched(q)
  PROVE  IInv'
BY UntouchedKept DEF IInv

LEMMA StatusTypes ==
  /\ {200, 201, 400, 404, 409, 429, 500, 502, 503, 504} \subseteq Statuses
  /\ 0 \notin Statuses
  /\ \A s : ErrorCodeFor(s) \in {"NONE", "HTTP_ERROR"}
BY DEF Statuses, ErrorCodeFor

LEMMA LimiterInitTypes == LimiterInit => LimiterTypeOK
BY LimiterAssumption DEF LimiterInit, LimiterTypeOK, NoTtl, Seconds

LEMMA GatewayInit == Init => IInv
<1> SUFFICES ASSUME Init PROVE IInv
  OBVIOUS
<1>1. GatewayTypes
  <2>1. FilterTypeOK
    BY StatusTypes, EmptySeq DEF Init, FilterInit, FilterTypeOK, ServletStates
  <2>2. StreamTypeOK
    BY EmptySeq DEF Init, StreamInit, StreamTypeOK, Phases, Runs
  <2> QED BY <2>1, <2>2, LimiterInitTypes DEF Init, GatewayTypes
<1>2. ASSUME NEW r \in Requests
      PROVE  RequestInv(r)
  <2>1. /\ servlet[r] = "idle" /\ status[r] = 200 /\ records[r] = <<>>
        /\ serving[r] = "none" /\ reply[r] = 0 /\ sent[r] = <<>> /\ relayed[r] = 0
        /\ graph[r] = "none"
    BY DEF Init, FilterInit, StreamInit
  <2>2. Len(<<>>) = 0
    BY EmptySeq
  <2> QED BY <2>1, <2>2 DEF RequestInv, Recorded, Fated, Answered, Streamed, Relayed, Told
<1> QED BY <1>1, <1>2 DEF IInv

-----------------------------------------------------------------------------
(* The limiter: its counters stay numbers. *)

LEMMA ScriptTypes ==
  ASSUME LimiterTypeOK, NEW u \in Users, FixedWindowScript(u)
  PROVE  count' \in [Users -> Nat] /\ ttl' \in [Users -> NoTtl..Window]
<1>1. Window \in NoTtl..Window
  BY LimiterAssumption DEF NoTtl
<1> QED BY <1>1 DEF LimiterTypeOK, FixedWindowScript

LEMMA LimiterSteps ==
  ASSUME LimiterTypeOK, NEW u \in Users,
         CheckAllowed(u) \/ CheckExceeded(u) \/ CheckFails(u) \/ LateEval(u)
  PROVE  LimiterTypeOK'
<1>1. CASE CheckAllowed(u)
  <2>1. 0 \in Seconds
    BY LimiterAssumption DEF Seconds
  <2>2. recent' \in [Users -> [Seconds -> Nat]]
    BY <1>1, <2>1 DEF CheckAllowed, LimiterTypeOK
  <2> QED BY <1>1, <2>2, ScriptTypes DEF CheckAllowed, LimiterTypeOK
<1>2. CASE CheckExceeded(u)
  BY <1>2, ScriptTypes DEF CheckExceeded, LimiterTypeOK
<1>3. CASE CheckFails(u)
  BY <1>3 DEF CheckFails, LimiterTypeOK
<1>4. CASE LateEval(u)
  <2>1. lateEval' \in [Users -> Nat]
    BY <1>4 DEF LateEval, LimiterTypeOK
  <2> QED BY <1>4, <2>1, ScriptTypes DEF LateEval, LimiterTypeOK
<1> QED BY <1>1, <1>2, <1>3, <1>4

LEMMA TickTypes == LimiterTypeOK /\ Tick => LimiterTypeOK'
<1> SUFFICES ASSUME LimiterTypeOK, Tick PROVE LimiterTypeOK'
  OBVIOUS
<1>1. count' \in [Users -> Nat]
  BY DEF LimiterTypeOK, Tick
<1>2. ttl' \in [Users -> NoTtl..Window]
  BY LimiterAssumption DEF LimiterTypeOK, Tick, NoTtl
<1>3. recent' \in [Users -> [Seconds -> Nat]]
  BY LimiterAssumption DEF LimiterTypeOK, Tick, Seconds
<1> QED BY <1>1, <1>2, <1>3 DEF LimiterTypeOK, Tick

(* Neither of them touches a request. *)
LEMMA LimiterOnly ==
  ASSUME IInv, LimiterTypeOK', UNCHANGED <<filterVars, streamVars>>,
         UNCHANGED <<asked, owner, relayed, gone>>
  PROVE  IInv'
<1> USE DEF filterVars, streamVars
<1>1. GatewayTypes'
  BY DEF IInv, GatewayTypes, FilterTypeOK, StreamTypeOK
<1>2. \A r \in Requests : Untouched(r)
  BY DEF Untouched
<1> QED BY <1>1, <1>2, UntouchedKept DEF IInv

-----------------------------------------------------------------------------
(* The steps of the servlet. *)

LEMMA LogCompletionEffect ==
  ASSUME FilterTypeOK, NEW r \in Requests, Recorded(r), NEW code \in RecordCodes,
         LogCompletion(r, code)
  PROVE  /\ records' \in [Requests -> Seq(RecordCodes)]
         /\ \E c \in RecordCodes : records'[r] = <<c>>
         /\ \A q \in Requests : q # r => records'[q] = records[q]
<1>1. records \in [Requests -> Seq(RecordCodes)]
  BY DEF FilterTypeOK, RecordCodes
<1>2. <<code>> \in Seq(RecordCodes) /\ <<code>> # <<>>
  OBVIOUS
<1>3. records' = [records EXCEPT ![r] = IF @ = <<>> THEN <<code>> ELSE @]
  BY DEF LogCompletion
<1>4. CASE records[r] = <<>>
  BY <1>1, <1>2, <1>3, <1>4
<1>5. CASE records[r] # <<>>
  BY <1>1, <1>3, <1>5 DEF Recorded
<1> QED BY <1>4, <1>5

(* What a callback leaves of the records. *)
LEMMA CallbackEffect ==
  ASSUME FilterTypeOK, NEW r \in Requests, Recorded(r), NEW code \in RecordCodes,
         IF listener[r] THEN LogCompletion(r, code) ELSE UNCHANGED records
  PROVE  /\ records' \in [Requests -> Seq(RecordCodes)]
         /\ listener[r] => \E c \in RecordCodes : records'[r] = <<c>>
         /\ records'[r] = <<>> \/ \E c \in RecordCodes : records'[r] = <<c>>
         /\ \A q \in Requests : q # r => records'[q] = records[q]
<1>1. CASE listener[r]
  BY <1>1, LogCompletionEffect
<1>2. CASE ~listener[r]
  BY <1>2 DEF FilterTypeOK, RecordCodes, Recorded
<1> QED BY <1>1, <1>2

(* A step of the servlet of r, given what it does to the state of r. *)
LEMMA ServletOnly ==
  ASSUME IInv, NEW r \in Requests,
         NEW place \in ServletStates, NEW s \in Statuses,
         servlet' = [servlet EXCEPT ![r] = place],
         status' = [status EXCEPT ![r] = s],
         listener' = listener,
         records' \in [Requests -> Seq(RecordCodes)],
         \A q \in Requests : q # r => records'[q] = records[q],
         UNCHANGED <<streamVars, limiterVars, gatewayVars>>,
         Recorded(r)', Fated(r)', Streamed(r)', Relayed(r)'
  PROVE  IInv'
<1> USE DEF streamVars, limiterVars, gatewayVars
<1>1. FilterTypeOK'
  BY DEF IInv, GatewayTypes, FilterTypeOK, RecordCodes
<1>2. GatewayTypes'
  BY <1>1 DEF IInv, GatewayTypes, StreamTypeOK, LimiterTypeOK
<1>3. \A q \in Requests : q # r => Untouched(q)
  BY DEF Untouched, IInv, GatewayTypes, FilterTypeOK
<1>4. Answered(r)'
  BY DEF IInv, RequestInv, Answered
<1> QED BY <1>2, <1>3, <1>4, OtherRequests DEF RequestInv

LEMMA AcceptStep ==
  ASSUME IInv, NEW r \in Requests, AcceptRequest(r)
  PROVE  IInv'
<1>0. RequestInv(r) /\ GatewayTypes
  BY DEF IInv
<1>1. /\ servlet[r] = "idle"
      /\ servlet' = [servlet EXCEPT ![r] = "await"]
      /\ listener' = [listener EXCEPT ![r] = TRUE]
      /\ UNCHANGED <<status, records>>
      /\ UNCHANGED <<streamVars, limiterVars, gatewayVars>>
  BY DEF AcceptRequest, Accept
<1> USE DEF streamVars, limiterVars, gatewayVars
<1>2. GatewayTypes'
  BY <1>0, <1>1 DEF GatewayTypes, FilterTypeOK, StreamTypeOK, LimiterTypeOK, ServletStates
<1>3. \A q \in Requests : q # r => Untouched(q)
  BY <1>0, <1>1 DEF Untouched, GatewayTypes, FilterTypeOK
<1>4. servlet'[r] = "await" /\ listener'[r] = TRUE
  BY <1>0, <1>1 DEF GatewayTypes, FilterTypeOK
<1>5. Recorded(r)'
  BY <1>0, <1>1, <1>4 DEF RequestInv, Recorded
<1>6. Fated(r)' /\ Answered(r)'
  BY <1>0, <1>1, <1>4 DEF RequestInv, Fated, Answered
<1>7. Relayed(r)'
  BY <1>0, <1>1, <1>4 DEF RequestInv, Relayed
<1>8. Streamed(r)'
  BY <1>0, <1>1, <1>4 DEF RequestInv, Fated, Streamed
<1> QED BY <1>2, <1>3, <1>5, <1>6, <1>7, <1>8, OtherRequests DEF RequestInv

LEMMA RejectStep ==
  ASSUME IInv, NEW r \in Requests, RejectRequest(r)
  PROVE  IInv'
<1>0. RequestInv(r) /\ GatewayTypes /\ FilterTypeOK
  BY DEF IInv, GatewayTypes
<1>1. /\ servlet[r] = "idle"
      /\ servlet' = [servlet EXCEPT ![r] = "over"]
      /\ status' = [status EXCEPT ![r] = 400]
      /\ LogCompletion(r, ErrorCodeFor(400)) /\ listener' = listener
      /\ UNCHANGED <<streamVars, limiterVars, gatewayVars>>
  BY DEF RejectRequest, Reject
<1>2. /\ records' \in [Requests -> Seq(RecordCodes)]
      /\ \E c \in RecordCodes : records'[r] = <<c>>
      /\ \A q \in Requests : q # r => records'[q] = records[q]
  <2>1. ErrorCodeFor(400) \in RecordCodes
    BY StatusTypes DEF RecordCodes
  <2> QED BY <1>0, <1>1, <2>1, LogCompletionEffect DEF RequestInv
<1>3. servlet'[r] = "over" /\ status'[r] = 400
  BY <1>0, <1>1 DEF FilterTypeOK
<1> USE DEF streamVars, limiterVars, gatewayVars
<1>4. Recorded(r)'
  BY <1>2, <1>3 DEF Recorded
<1>5. Fated(r)'
  BY <1>0, <1>1, <1>3 DEF RequestInv, Fated
<1>6. Streamed(r)'
  BY <1>0, <1>1, <1>3 DEF RequestInv, Streamed
<1>7. Relayed(r)'
  BY <1>0, <1>1, <1>3 DEF RequestInv, Relayed
<1>8. "over" \in ServletStates /\ 400 \in Statuses
  BY StatusTypes DEF ServletStates
<1> HIDE DEF streamVars, limiterVars, gatewayVars
<1> QED BY <1>1, <1>2, <1>4, <1>5, <1>6, <1>7, <1>8, ServletOnly

(* The Mono gave an answer: 503 without one of the agent service, else that *)
(* which the agent service has finished with.                               *)
LEMMA AnswerSteps ==
  ASSUME IInv, NEW r \in Requests, ConnectFails(r) \/ RelayAnswer(r) \/ TimedOut(r)
  PROVE  IInv'
<1>0. RequestInv(r) /\ GatewayTypes /\ FilterTypeOK
  BY DEF IInv, GatewayTypes
<1> DEFINE Given(s) ==
      /\ servlet[r] = "await"
      /\ servlet' = [servlet EXCEPT ![r] = "closing"]
      /\ status' = [status EXCEPT ![r] = s]
      /\ s # 503 => s = reply[r] /\ reply[r] # 0 /\ sent[r] = <<>>
      /\ listener' = listener
      /\ \/ UNCHANGED records
         \/ IF listener[r] THEN LogCompletion(r, "ASYNC_TIMEOUT") ELSE UNCHANGED records
      /\ UNCHANGED <<streamVars, limiterVars, gatewayVars>>
<1>1. \E s \in Statuses : Given(s)
  <2>1. CASE ConnectFails(r)
    <3>1. Given(503)
      BY <2>1 DEF ConnectFails, Answer
    <3> HIDE DEF Given
    <3> QED BY <3>1, StatusTypes
  <2>2. CASE RelayAnswer(r)
    <3>1. reply[r] \in Statuses
      BY <1>0, <2>2 DEF RelayAnswer, GatewayTypes, StreamTypeOK
    <3>2. Given(reply[r])
      BY <2>2 DEF RelayAnswer, Answer
    <3> HIDE DEF Given
    <3> QED BY <3>1, <3>2
  <2>3. CASE TimedOut(r)
    <3>1. Given(503)
      BY <2>3 DEF TimedOut, OnTimeout
    <3> HIDE DEF Given
    <3> QED BY <3>1, StatusTypes
  <2> QED BY <2>1, <2>2, <2>3
<1>2. PICK s \in Statuses : Given(s)
  BY <1>1
<1>3. /\ records' \in [Requests -> Seq(RecordCodes)]
      /\ records'[r] = <<>> \/ \E c \in RecordCodes : records'[r] = <<c>>
      /\ \A q \in Requests : q # r => records'[q] = records[q]
  <2>1. "ASYNC_TIMEOUT" \in RecordCodes
    BY DEF RecordCodes
  <2>2. CASE UNCHANGED records
    BY <1>0, <2>2 DEF RequestInv, Recorded, FilterTypeOK, RecordCodes
  <2>3. CASE ~UNCHANGED records
    BY <1>0, <1>2, <2>1, <2>3, CallbackEffect DEF RequestInv
  <2> QED BY <2>2, <2>3
<1>4. servlet'[r] = "closing" /\ status'[r] = s
  BY <1>0, <1>2 DEF FilterTypeOK
<1> USE DEF streamVars, limiterVars, gatewayVars
<1>5. Recorded(r)'
  BY <1>0, <1>2, <1>3, <1>4 DEF RequestInv, Recorded
<1>6. Fated(r)'
  BY <1>0, <1>2, <1>4 DEF RequestInv, Fated, Answered
<1>7. Streamed(r)'
  BY <1>0, <1>2, <1>4 DEF RequestInv, Streamed
<1>8. Relayed(r)'
  BY <1>0, <1>2, <1>4 DEF RequestInv, Relayed
<1>9. "closing" \in ServletStates
  BY DEF ServletStates
<1> HIDE DEF streamVars, limiterVars, gatewayVars
<1> QED BY <1>2, <1>3, <1>5, <1>6, <1>7, <1>8, <1>9, ServletOnly

LEMMA RelayOpensStep ==
  ASSUME IInv, NEW r \in Requests, RelayOpens(r)
  PROVE  IInv'
<1>0. RequestInv(r) /\ GatewayTypes /\ FilterTypeOK
  BY DEF IInv, GatewayTypes
<1>1. /\ servlet[r] = "await" /\ sent[r] # <<>>
      /\ servlet' = [servlet EXCEPT ![r] = "relay"]
      /\ listener' = [listener EXCEPT ![r] = listener[r]]
      /\ UNCHANGED <<status, records>>
      /\ UNCHANGED <<streamVars, limiterVars, gatewayVars>>
  BY DEF RelayOpens, StartAsyncAgain
<1>2. /\ listener' = listener
      /\ status' = [status EXCEPT ![r] = 200] /\ status[r] = 200
      /\ records' \in [Requests -> Seq(RecordCodes)]
      /\ servlet'[r] = "relay"
  BY <1>0, <1>1 DEF FilterTypeOK, RecordCodes, RequestInv, Fated
<1> USE DEF streamVars, limiterVars, gatewayVars
<1>3. Recorded(r)'
  BY <1>0, <1>1, <1>2 DEF RequestInv, Recorded
<1>4. Fated(r)'
  BY <1>0, <1>1, <1>2 DEF RequestInv, Fated
<1>5. Streamed(r)'
  BY <1>0, <1>1, <1>2 DEF RequestInv, Streamed
<1>6. Relayed(r)'
  BY <1>0, <1>1, <1>2 DEF RequestInv, Relayed
<1>7. "relay" \in ServletStates /\ 200 \in Statuses
  BY StatusTypes DEF ServletStates
<1>8. \A q \in Requests : q # r => records'[q] = records[q]
  BY <1>1
<1>9. UNCHANGED <<streamVars, limiterVars, gatewayVars>>
  BY <1>1
<1> HIDE DEF streamVars, limiterVars, gatewayVars
<1> QED BY <1>0, <1>1, <1>2, <1>3, <1>4, <1>5, <1>6, <1>7, <1>8, <1>9, ServletOnly, ZenonT(30)

(* The stream ends for the servlet, in order or not. *)
LEMMA RelayEndSteps ==
  ASSUME IInv, NEW r \in Requests, RelayFails(r) \/ RelayEnds(r)
  PROVE  IInv'
<1>0. RequestInv(r) /\ GatewayTypes /\ FilterTypeOK
  BY DEF IInv, GatewayTypes
<1>1. PICK place \in {"closing", "broken"} :
        /\ servlet[r] = "relay"
        /\ servlet' = [servlet EXCEPT ![r] = place]
        /\ place = "closing" => serving[r] = "over" /\ (relayed[r] = Len(sent[r]) \/ gone[r])
        /\ UNCHANGED <<status, listener>>
        /\ UNCHANGED records \/ IF listener[r] THEN LogCompletion(r, "ASYNC_ERROR")
                                               ELSE UNCHANGED records
        /\ UNCHANGED <<streamVars, limiterVars, gatewayVars>>
  BY DEF RelayFails, RelayEnds, OnError, StreamEnds
<1>2. /\ records' \in [Requests -> Seq(RecordCodes)]
      /\ records'[r] = <<>> \/ \E c \in RecordCodes : records'[r] = <<c>>
      /\ \A q \in Requests : q # r => records'[q] = records[q]
  <2>1. "ASYNC_ERROR" \in RecordCodes
    BY DEF RecordCodes
  <2>2. CASE UNCHANGED records
    BY <1>0, <2>2 DEF RequestInv, Recorded, FilterTypeOK, RecordCodes
  <2>3. CASE ~UNCHANGED records
    BY <1>0, <1>1, <2>1, <2>3, CallbackEffect DEF RequestInv
  <2> QED BY <2>2, <2>3
<1>3. /\ servlet'[r] = place /\ status[r] = 200
      /\ status' = [status EXCEPT ![r] = 200] /\ status'[r] = 200
  BY <1>0, <1>1 DEF FilterTypeOK, RequestInv, Fated
<1> USE DEF streamVars, limiterVars, gatewayVars
<1>4. Recorded(r)'
  BY <1>0, <1>1, <1>2, <1>3 DEF RequestInv, Recorded
<1>5. Fated(r)'
  BY <1>0, <1>1, <1>3 DEF RequestInv, Fated
<1>6. Streamed(r)'
  BY <1>0, <1>1, <1>3 DEF RequestInv, Streamed
<1>7. Relayed(r)'
  BY <1>0, <1>1, <1>3 DEF RequestInv, Fated, Streamed, Relayed
<1>8. place \in ServletStates /\ 200 \in Statuses
  BY StatusTypes DEF ServletStates
<1>9. listener' = listener /\ servlet' = [servlet EXCEPT ![r] = place]
  BY <1>1
<1>10. UNCHANGED <<streamVars, limiterVars, gatewayVars>>
  BY <1>1
<1> HIDE DEF streamVars, limiterVars, gatewayVars
<1> QED BY <1>2, <1>3, <1>4, <1>5, <1>6, <1>7, <1>8, <1>9, <1>10, ServletOnly

LEMMA CompleteStep ==
  ASSUME IInv, NEW r \in Requests, Complete(r)
  PROVE  IInv'
<1>0. RequestInv(r) /\ GatewayTypes /\ FilterTypeOK
  BY DEF IInv, GatewayTypes
<1>1. /\ servlet[r] \in {"closing", "broken"}
      /\ servlet' = [servlet EXCEPT ![r] = "over"]
      /\ IF listener[r] THEN LogCompletion(r, ErrorCodeFor(status[r]))
                        ELSE UNCHANGED records
      /\ UNCHANGED <<status, listener>>
      /\ UNCHANGED <<streamVars, limiterVars, gatewayVars>>
  BY DEF Complete, OnComplete
<1>2. /\ records' \in [Requests -> Seq(RecordCodes)]
      /\ \E c \in RecordCodes : records'[r] = <<c>>
      /\ \A q \in Requests : q # r => records'[q] = records[q]
  <2>1. ErrorCodeFor(status[r]) \in RecordCodes
    BY StatusTypes DEF RecordCodes
  <2>2. listener[r]
    BY <1>0, <1>1 DEF RequestInv, Recorded
  <2> QED BY <1>0, <1>1, <2>1, <2>2, CallbackEffect DEF RequestInv
<1>3. /\ servlet'[r] = "over" /\ status[r] \in Statuses
      /\ status' = [status EXCEPT ![r] = status[r]] /\ status'[r] = status[r]
  BY <1>0, <1>1 DEF FilterTypeOK
<1> USE DEF streamVars, limiterVars, gatewayVars
<1>4. Recorded(r)'
  BY <1>2, <1>3 DEF Recorded
<1>5. Fated(r)'
  BY <1>0, <1>1, <1>3 DEF RequestInv, Fated
<1>6. Streamed(r)'
  BY <1>0, <1>1, <1>3 DEF RequestInv, Streamed
<1>7. Relayed(r)'
  BY <1>0, <1>1, <1>3 DEF RequestInv, Relayed
<1>8. "over" \in ServletStates
  BY DEF ServletStates
<1> HIDE DEF streamVars, limiterVars, gatewayVars
<1> QED BY <1>1, <1>2, <1>3, <1>4, <1>5, <1>6, <1>7, <1>8, ServletOnly

(* Events go to the client, and the client may go away. *)
LEMMA ClientSteps ==
  ASSUME IInv, NEW r \in Requests, RelayEvent(r) \/ ClientLeaves(r)
  PROVE  IInv'
<1>0. RequestInv(r) /\ GatewayTypes
  BY DEF IInv
<1> USE DEF filterVars, streamVars, limiterVars
<1>1. CASE RelayEvent(r)
  <2>1. /\ servlet[r] = "relay" /\ relayed[r] < Len(sent[r])
        /\ relayed' = [relayed EXCEPT ![r] = @ + 1]
        /\ UNCHANGED <<filterVars, streamVars, limiterVars, asked, owner, gone>>
    BY <1>1 DEF RelayEvent
  <2>2. relayed'[r] = relayed[r] + 1 /\ relayed[r] \in Nat /\ Len(sent[r]) \in Nat
    BY <1>0, <2>1, LenProperties DEF GatewayTypes, StreamTypeOK
  <2>3. GatewayTypes'
    BY <1>0, <2>1, SMTT(20) DEF GatewayTypes, FilterTypeOK, StreamTypeOK, LimiterTypeOK
  <2>4. \A q \in Requests : q # r => Untouched(q)
    BY <1>0, <2>1 DEF Untouched, GatewayTypes
  <2>5. Recorded(r)' /\ Fated(r)' /\ Answered(r)' /\ Streamed(r)'
    BY <1>0, <2>1 DEF RequestInv, Recorded, Fated, Answered, Streamed
  <2>6. Relayed(r)'
    BY <1>0, <2>1, <2>2 DEF RequestInv, Relayed
  <2> QED BY <2>3, <2>4, <2>5, <2>6, OtherRequests DEF RequestInv
<1>2. CASE ClientLeaves(r)
  <2>1. /\ servlet[r] \in {"await", "relay"}
        /\ gone' = [gone EXCEPT ![r] = TRUE]
        /\ UNCHANGED <<filterVars, streamVars, limiterVars, asked, owner, relayed>>
    BY <1>2 DEF ClientLeaves
  <2>2. GatewayTypes'
    BY <1>0, <2>1 DEF GatewayTypes, FilterTypeOK, StreamTypeOK, LimiterTypeOK
  <2>3. \A q \in Requests : q # r => Untouched(q)
    BY <1>0, <2>1 DEF Untouched, GatewayTypes
  <2>4. Recorded(r)' /\ Fated(r)' /\ Answered(r)' /\ Streamed(r)'
    BY <1>0, <2>1 DEF RequestInv, Recorded, Fated, Answered, Streamed
  <2>5. Relayed(r)'
    BY <1>0, <2>1 DEF RequestInv, Relayed
  <2> QED BY <2>2, <2>3, <2>4, <2>5, OtherRequests DEF RequestInv
<1> QED BY <1>1, <1>2

-----------------------------------------------------------------------------
(* The steps of the handler in the agent service. *)

PyCodes == {"NONE", "HTTP_ERROR", "UNHANDLED_EXCEPTION", "CLIENT_DISCONNECTED"}

(* A step of the handler of r, given what it does to the state of r. *)
LEMMA AgentOnly ==
  ASSUME IInv, NEW r \in Requests,
         filterVars' = filterVars, StreamTypeOK', LimiterTypeOK',
         \A q \in Requests : q # r =>
           /\ serving'[q] = serving[q] /\ reply'[q] = reply[q]
           /\ sent'[q] = sent[q] /\ graph'[q] = graph[q],
         UNCHANGED <<asked, relayed, gone>>,
         owner' \in [Threads -> Users \cup {NoOwner}],
         Fated(r)', Answered(r)', Streamed(r)', Relayed(r)'
  PROVE  IInv'
<1> USE DEF filterVars
<1>0. GatewayTypes /\ RequestInv(r)
  BY DEF IInv
<1>1. GatewayTypes'
  BY <1>0 DEF GatewayTypes, FilterTypeOK
<1>2. \A q \in Requests : q # r => Untouched(q)
  BY <1>0 DEF Untouched
<1>3. Recorded(r)'
  BY <1>0 DEF RequestInv, Recorded
<1> QED BY <1>1, <1>2, <1>3, OtherRequests DEF RequestInv

LEMMA FinishEffect ==
  ASSUME StreamTypeOK, NEW r \in Requests, NEW code \in PyCodes, Finish(r, code)
  PROVE  /\ serving' = [serving EXCEPT ![r] = "over"]
         /\ serving' \in [Requests -> Phases]
         /\ serving'[r] = "over"
         /\ \A q \in Requests : q # r => serving'[q] = serving[q]
         /\ pyRecords' \in [Requests -> Seq(PyCodes)]
<1>1. Append(pyRecords[r], code) \in Seq(PyCodes)
  BY AppendProperties DEF StreamTypeOK, PyCodes
<1> QED BY <1>1 DEF Finish, StreamTypeOK, Phases, PyCodes

(* Before it has answered, a handler has sent nothing. *)
LEMMA Unanswered ==
  ASSUME IInv, NEW r \in Requests, serving[r] \in {"none", "limit", "resolve"}
  PROVE  /\ reply[r] = 0 /\ sent[r] = <<>> /\ relayed[r] = 0 /\ graph[r] = "none"
         /\ servlet[r] \notin {"relay"}
<1>1. RequestInv(r) /\ relayed[r] \in Nat
  BY DEF IInv, GatewayTypes
<1>2. reply[r] = 0 /\ sent[r] = <<>>
  BY <1>1 DEF RequestInv, Fated
<1>3. relayed[r] <= 0
  BY <1>1, <1>2, EmptySeq DEF RequestInv, Relayed
<1> QED BY <1>1, <1>2, <1>3 DEF RequestInv, Fated, Streamed

(* The request comes to the handler, or passes its limiter. *)
LEMMA MovesOn ==
  ASSUME IInv, NEW r \in Requests, NEW place \in {"limit", "resolve"},
         servlet[r] # "idle", serving[r] \in {"none", "limit"},
         serving[r] = "none" => servlet[r] = "await",
         place = "limit" => asked[r].kind = "stream",
         serving' = [serving EXCEPT ![r] = place], LimiterTypeOK',
         filterVars' = filterVars,
         UNCHANGED <<reply, sent, graph, pyRecords>>, UNCHANGED gatewayVars
  PROVE  IInv'
<1> USE DEF gatewayVars
<1>0. RequestInv(r) /\ GatewayTypes /\ StreamTypeOK
  BY DEF IInv, GatewayTypes
<1>1. /\ reply[r] = 0 /\ sent[r] = <<>> /\ relayed[r] = 0 /\ servlet[r] \notin {"relay"}
      /\ graph[r] = "none"
  BY Unanswered
<1>2. StreamTypeOK' /\ serving'[r] = place
  BY <1>0 DEF StreamTypeOK, Phases
<1>3. servlet' = servlet /\ status' = status
  BY DEF filterVars
<1>4. Fated(r)' /\ Answered(r)'
  BY <1>0, <1>1, <1>2, <1>3 DEF RequestInv, Fated, Answered
<1>5. Streamed(r)'
  BY <1>0, <1>1, <1>2, <1>3 DEF RequestInv, Streamed
<1>6. Relayed(r)'
  BY <1>0, <1>1, <1>2, <1>3 DEF RequestInv, Relayed
<1>7. \A q \in Requests : q # r => serving'[q] = serving[q]
  BY <1>0 DEF StreamTypeOK
<1>8. owner' \in [Threads -> Users \cup {NoOwner}]
  BY <1>0 DEF GatewayTypes
<1> QED BY <1>2, <1>4, <1>5, <1>6, <1>7, <1>8, AgentOnly

(* An answer without a stream. *)
LEMMA Responded ==
  ASSUME IInv, NEW r \in Requests, serving[r] \in {"limit", "resolve"},
         NEW s \in Statuses \ {200, 400}, NEW code \in PyCodes,
         reply' = [reply EXCEPT ![r] = s], Finish(r, code),
         UNCHANGED <<sent, graph>>, filterVars' = filterVars, LimiterTypeOK',
         UNCHANGED <<asked, relayed, gone>>,
         owner' \in [Threads -> Users \cup {NoOwner}]
  PROVE  IInv'
<1>0. RequestInv(r) /\ GatewayTypes /\ StreamTypeOK
  BY DEF IInv, GatewayTypes
<1>1. /\ reply[r] = 0 /\ sent[r] = <<>> /\ relayed[r] = 0 /\ servlet[r] \notin {"relay"}
      /\ graph[r] = "none"
  BY Unanswered
<1>2. servlet' = servlet /\ status' = status
  BY DEF filterVars
<1>3. /\ serving' \in [Requests -> Phases] /\ serving'[r] = "over"
      /\ \A q \in Requests : q # r => serving'[q] = serving[q]
      /\ pyRecords' \in [Requests -> Seq(PyCodes)]
  BY <1>0, FinishEffect
<1>4. /\ reply' \in [Requests -> {0} \cup Statuses] /\ reply'[r] = s /\ s # 0
      /\ \A q \in Requests : q # r => reply'[q] = reply[q]
  BY <1>0, StatusTypes DEF StreamTypeOK
<1>5. StreamTypeOK'
  BY <1>0, <1>3, <1>4 DEF StreamTypeOK, PyCodes
<1>6. Fated(r)' /\ Answered(r)'
  BY <1>0, <1>1, <1>2, <1>3, <1>4 DEF RequestInv, Fated, Answered
<1>7. Streamed(r)'
  BY <1>0, <1>1, <1>2, <1>3 DEF RequestInv, Streamed
<1>8. Relayed(r)'
  BY <1>0, <1>1, <1>2, <1>3 DEF RequestInv, Relayed
<1> QED BY <1>3, <1>4, <1>5, <1>6, <1>7, <1>8, AgentOnly

LEMMA ArriveStep ==
  ASSUME IInv, NEW r \in Requests, Arrive(r)
  PROVE  IInv'
<1> DEFINE place == IF asked[r].kind = "stream" THEN "limit" ELSE "resolve"
<1>1. /\ servlet[r] = "await" /\ serving[r] = "none"
      /\ serving' = [serving EXCEPT ![r] = place]
      /\ filterVars' = filterVars /\ UNCHANGED <<reply, sent, graph, pyRecords>>
      /\ UNCHANGED limiterVars /\ UNCHANGED gatewayVars
  BY DEF Arrive
<1>2. LimiterTypeOK'
  BY <1>1 DEF IInv, GatewayTypes, LimiterTypeOK, limiterVars
<1>3. place \in {"limit", "resolve"} /\ (place = "limit" => asked[r].kind = "stream")
  OBVIOUS
<1> HIDE DEF place
<1> QED BY <1>1, <1>2, <1>3, MovesOn

LEMMA AdmitStep ==
  ASSUME IInv, NEW r \in Requests, Admit(r)
  PROVE  IInv'
<1>1. /\ serving[r] = "limit" /\ CheckAllowed(asked[r].user)
      /\ serving' = [serving EXCEPT ![r] = "resolve"]
      /\ filterVars' = filterVars /\ UNCHANGED <<reply, sent, graph, pyRecords>>
      /\ UNCHANGED gatewayVars
  BY DEF Admit
<1>2. asked[r].user \in Users /\ servlet[r] # "idle" /\ LimiterTypeOK
  BY <1>1 DEF IInv, GatewayTypes, RequestInv, Fated
<1>3. LimiterTypeOK'
  BY <1>1, <1>2, LimiterSteps
<1> QED BY <1>1, <1>2, <1>3, MovesOn

(* The answers without a stream, of the limiter and behind it. *)
LEMMA RefusalSteps ==
  ASSUME IInv, NEW r \in Requests,
         \/ RefuseOverLimit(r) \/ LimiterDown(r) \/ ThreadNotFound(r)
         \/ DatabaseFails(r) \/ ApprovalNotPending(r)
  PROVE  IInv'
<1>0. /\ LimiterTypeOK /\ asked[r].user \in Users
      /\ owner \in [Threads -> Users \cup {NoOwner}]
  BY DEF IInv, GatewayTypes
<1> DEFINE Result(s, code) ==
      /\ serving[r] \in {"limit", "resolve"}
      /\ reply' = [reply EXCEPT ![r] = s] /\ Finish(r, code)
      /\ UNCHANGED <<sent, graph>> /\ filterVars' = filterVars
      /\ UNCHANGED <<asked, relayed, gone>> /\ owner' = owner
<1>1. LimiterTypeOK'
  <2>1. CASE RefuseOverLimit(r) \/ LimiterDown(r)
    BY <1>0, <2>1, LimiterSteps DEF RefuseOverLimit, LimiterDown
  <2>2. CASE ThreadNotFound(r) \/ DatabaseFails(r) \/ ApprovalNotPending(r)
    BY <1>0, <2>2 DEF ThreadNotFound, DatabaseFails, ApprovalNotPending, LimiterTypeOK,
       limiterVars
  <2> QED BY <2>1, <2>2
<1>2. \E s \in Statuses \ {200, 400} : \E code \in PyCodes : Result(s, code)
  <2> USE DEF RespondWith, RespondUnhandled, gatewayVars
  <2>1. CASE RefuseOverLimit(r)
    <3>1. Result(429, ErrorCodeFor(429))
      BY <2>1 DEF RefuseOverLimit
    <3> HIDE DEF Result
    <3> QED BY <3>1, StatusTypes DEF PyCodes
  <2>2. CASE LimiterDown(r)
    <3>1. Result(503, ErrorCodeFor(503))
      BY <2>2 DEF LimiterDown
    <3> HIDE DEF Result
    <3> QED BY <3>1, StatusTypes DEF PyCodes
  <2>3. CASE ThreadNotFound(r)
    <3>1. Result(404, ErrorCodeFor(404))
      BY <2>3 DEF ThreadNotFound
    <3> HIDE DEF Result
    <3> QED BY <3>1, StatusTypes DEF PyCodes
  <2>4. CASE DatabaseFails(r)
    <3>1. Result(500, "UNHANDLED_EXCEPTION")
      BY <2>4 DEF DatabaseFails
    <3> HIDE DEF Result
    <3> QED BY <3>1, StatusTypes DEF PyCodes
  <2>5. CASE ApprovalNotPending(r)
    <3>1. Result(409, ErrorCodeFor(409))
      BY <2>5 DEF ApprovalNotPending
    <3> HIDE DEF Result
    <3> QED BY <3>1, StatusTypes DEF PyCodes
  <2> QED BY <2>1, <2>2, <2>3, <2>4, <2>5
<1>3. PICK s \in Statuses \ {200, 400}, code \in PyCodes : Result(s, code)
  BY <1>2
<1>4. owner' \in [Threads -> Users \cup {NoOwner}]
  BY <1>0, <1>3
<1> QED BY <1>1, <1>3, <1>4, Responded

LEMMA CreateThreadStep ==
  ASSUME IInv, NEW r \in Requests, CreateThread(r)
  PROVE  IInv'
<1>0. /\ LimiterTypeOK /\ asked[r].user \in Users
      /\ owner \in [Threads -> Users \cup {NoOwner}]
  BY DEF IInv, GatewayTypes
<1>1. /\ serving[r] = "resolve"
      /\ reply' = [reply EXCEPT ![r] = 201] /\ Finish(r, ErrorCodeFor(201))
      /\ UNCHANGED <<sent, graph>> /\ filterVars' = filterVars
      /\ UNCHANGED <<asked, relayed, gone>> /\ UNCHANGED limiterVars
  BY DEF CreateThread, RespondWith
<1>2. PICK t \in Threads : /\ owner[t] = NoOwner
                           /\ owner' = [owner EXCEPT ![t] = asked[r].user]
  BY DEF CreateThread
<1>3. owner' \in [Threads -> Users \cup {NoOwner}]
  BY <1>0, <1>2
<1>4. LimiterTypeOK'
  BY <1>0, <1>1 DEF LimiterTypeOK, limiterVars
<1> DEFINE Given(s, code) == reply' = [reply EXCEPT ![r] = s] /\ Finish(r, code)
<1>5. PICK s \in Statuses \ {200, 400}, code \in PyCodes : Given(s, code)
  <2>1. ErrorCodeFor(201) \in PyCodes /\ 201 \in Statuses \ {200, 400}
    BY StatusTypes DEF PyCodes
  <2>2. Given(201, ErrorCodeFor(201))
    BY <1>1
  <2> HIDE DEF Given
  <2> QED BY <2>1, <2>2
<1> QED BY <1>1, <1>3, <1>4, <1>5, Responded

-----------------------------------------------------------------------------
(* The stream. *)

LEMMA SendEffect ==
  ASSUME NEW s \in Seq(Events), NEW e \in Events
  PROVE  /\ s \o <<e>> \in Seq(Events) /\ s \o <<e>> # <<>>
         /\ Len(s) \in Nat /\ Len(s \o <<e>>) = Len(s) + 1
         /\ \A i \in 1..Len(s) : (s \o <<e>>)[i] = s[i]
         /\ (s \o <<e>>)[Len(s) + 1] = e
<1>1. <<e>> \in Seq(Events) /\ Len(<<e>>) = 1
  OBVIOUS
<1> QED BY <1>1, ConcatProperties, LenProperties

LEMMA StartRunStep ==
  ASSUME IInv, NEW r \in Requests, StartRun(r)
  PROVE  IInv'
<1>0. RequestInv(r) /\ GatewayTypes /\ StreamTypeOK
  BY DEF IInv, GatewayTypes
<1>1. /\ serving[r] = "resolve" /\ asked[r].kind = "stream"
      /\ reply' = [reply EXCEPT ![r] = 200]
      /\ sent' = [sent EXCEPT ![r] = @ \o <<"metadata">>]
      /\ serving' = [serving EXCEPT ![r] = "run"]
      /\ graph' = [graph EXCEPT ![r] = "running"]
      /\ pyRecords' = pyRecords /\ filterVars' = filterVars
      /\ UNCHANGED limiterVars /\ UNCHANGED <<asked, owner, relayed, gone>>
  BY DEF StartRun, OpenStream, Send, gatewayVars
<1>2. reply[r] = 0 /\ sent[r] = <<>> /\ relayed[r] = 0 /\ servlet[r] \notin {"relay"}
  BY <1>1, Unanswered
<1>3. servlet' = servlet /\ status' = status
  BY <1>1 DEF filterVars
<1>4. "metadata" \in Events
  BY DEF Events
<1>5. /\ sent' \in [Requests -> Seq(Events)]
      /\ sent'[r] = <<"metadata">>
      /\ \A q \in Requests : q # r => sent'[q] = sent[q]
  BY <1>0, <1>1, <1>2, <1>4, SendEffect DEF StreamTypeOK
<1>6. /\ serving' \in [Requests -> Phases] /\ serving'[r] = "run"
      /\ reply' \in [Requests -> {0} \cup Statuses] /\ reply'[r] = 200
      /\ \A q \in Requests : q # r => serving'[q] = serving[q] /\ reply'[q] = reply[q]
  BY <1>0, <1>1, StatusTypes DEF StreamTypeOK, Phases
<1>7. /\ graph' \in [Requests -> Runs] /\ graph'[r] = "running"
      /\ \A q \in Requests : q # r => graph'[q] = graph[q]
  BY <1>0, <1>1 DEF StreamTypeOK, Runs
<1>8. StreamTypeOK' /\ LimiterTypeOK'
  BY <1>0, <1>1, <1>5, <1>6, <1>7 DEF StreamTypeOK, GatewayTypes, LimiterTypeOK, limiterVars
<1>9. Fated(r)' /\ Answered(r)'
  BY <1>0, <1>1, <1>2, <1>3, <1>5, <1>6, <1>7 DEF RequestInv, Fated, Answered
<1>10. Streamed(r)'
  BY <1>0, <1>1, <1>2, <1>3, <1>5, <1>6, <1>7 DEF RequestInv, Streamed, Told, Tokens
<1>11. Relayed(r)'
  BY <1>0, <1>1, <1>2, <1>3, <1>5, <1>6 DEF RequestInv, Relayed
<1>12. owner' \in [Threads -> Users \cup {NoOwner}]
  BY <1>0, <1>1 DEF GatewayTypes
<1> QED BY <1>1, <1>5, <1>6, <1>7, <1>8, <1>9, <1>10, <1>11, <1>12, AgentOnly

(* The run of a resume begins, and ends with its answer. *)
LEMMA ResumeSteps ==
  ASSUME IInv, NEW r \in Requests, BeginResume(r) \/ AnswerResume(r)
  PROVE  IInv'
<1>0. /\ RequestInv(r) /\ GatewayTypes /\ StreamTypeOK /\ relayed[r] \in Nat
      /\ owner \in [Threads -> Users \cup {NoOwner}]
  BY DEF IInv, GatewayTypes
<1>1. CASE BeginResume(r)
  <2>1. /\ serving[r] = "resolve" /\ asked[r].kind = "resume"
        /\ serving' = [serving EXCEPT ![r] = "resume"]
        /\ graph' = [graph EXCEPT ![r] = "running"]
        /\ UNCHANGED <<reply, sent, pyRecords>> /\ filterVars' = filterVars
        /\ UNCHANGED limiterVars /\ UNCHANGED <<asked, owner, relayed, gone>>
    BY <1>1 DEF BeginResume, gatewayVars
  <2>2. reply[r] = 0 /\ sent[r] = <<>> /\ relayed[r] = 0 /\ servlet[r] \notin {"relay"}
    BY <2>1, Unanswered
  <2>3. /\ StreamTypeOK' /\ serving'[r] = "resume" /\ graph'[r] = "running"
        /\ \A q \in Requests : q # r => serving'[q] = serving[q] /\ graph'[q] = graph[q]
    BY <1>0, <2>1 DEF StreamTypeOK, Phases, Runs
  <2>4. servlet' = servlet /\ status' = status
    BY <2>1 DEF filterVars
  <2>5. Fated(r)' /\ Answered(r)'
    BY <1>0, <2>1, <2>2, <2>3, <2>4 DEF RequestInv, Fated, Answered
  <2>6. Streamed(r)' /\ Relayed(r)'
    BY <1>0, <2>1, <2>2, <2>3, <2>4 DEF RequestInv, Streamed, Told, Relayed
  <2>7. LimiterTypeOK'
    BY <1>0, <2>1 DEF GatewayTypes, LimiterTypeOK, limiterVars
  <2> QED BY <1>0, <2>1, <2>3, <2>5, <2>6, <2>7, AgentOnly
<1>2. CASE AnswerResume(r)
  <2>0. PICK outcome \in ResumeOutcomes :
          /\ graph' = [graph EXCEPT ![r] = outcome[1]]
          /\ reply' = [reply EXCEPT ![r] = outcome[2]]
          /\ Finish(r, IF outcome[2] = 500 THEN "UNHANDLED_EXCEPTION"
                                           ELSE ErrorCodeFor(outcome[2]))
    BY <1>2 DEF AnswerResume
  <2>1. PICK code \in PyCodes : Finish(r, code)
    BY <2>0, StatusTypes DEF PyCodes
  <2>2. /\ serving[r] = "resume" /\ sent' = sent /\ filterVars' = filterVars
        /\ UNCHANGED limiterVars /\ UNCHANGED <<asked, owner, relayed, gone>>
    BY <1>2 DEF AnswerResume, gatewayVars
  <2>3. /\ outcome[1] \in {"completed", "failed"}
        /\ outcome[2] \in Statuses \ {400, 429}
        /\ outcome[2] = 200 => outcome[1] = "completed"
    BY StatusTypes DEF ResumeOutcomes
  <2>4. /\ serving' \in [Requests -> Phases] /\ serving'[r] = "over"
        /\ \A q \in Requests : q # r => serving'[q] = serving[q]
        /\ pyRecords' \in [Requests -> Seq(PyCodes)]
    BY <1>0, <2>1, FinishEffect
  <2>5. /\ graph' \in [Requests -> Runs] /\ graph'[r] = outcome[1]
        /\ reply' \in [Requests -> {0} \cup Statuses] /\ reply'[r] = outcome[2]
        /\ \A q \in Requests : q # r => graph'[q] = graph[q] /\ reply'[q] = reply[q]
    BY <1>0, <2>0, <2>3 DEF StreamTypeOK, Runs
  <2>6. /\ asked[r].kind = "resume" /\ sent[r] = <<>> /\ reply[r] = 0
        /\ outcome[2] # 0 /\ servlet[r] # "idle"
    BY <1>0, <2>2, <2>3, StatusTypes DEF RequestInv, Fated, Answered
  <2>7. servlet' = servlet /\ status' = status
    BY <2>2 DEF filterVars
  <2>8. Fated(r)' /\ Answered(r)'
    BY <1>0, <2>2, <2>3, <2>4, <2>5, <2>6, <2>7 DEF RequestInv, Fated, Answered
  <2>9. Streamed(r)' /\ Relayed(r)'
    BY <1>0, <2>2, <2>4, <2>6, <2>7, EmptySeq DEF RequestInv, Streamed, Told, Relayed
  <2>10. StreamTypeOK' /\ LimiterTypeOK'
    BY <1>0, <2>2, <2>4, <2>5 DEF StreamTypeOK, PyCodes, GatewayTypes, LimiterTypeOK,
       limiterVars
  <2> QED BY <1>0, <2>2, <2>4, <2>5, <2>8, <2>9, <2>10, AgentOnly
<1> QED BY <1>1, <1>2

(* One more event of a running stream: what all of them have in common. *)
LEMMA SendSteps ==
  ASSUME IInv, NEW r \in Requests, serving[r] \in {"run", "tail"},
         NEW e \in Events, NEW place \in {"run", "tail", "over"},
         sent' = [sent EXCEPT ![r] = @ \o <<e>>],
         serving' \in [Requests -> Phases], serving'[r] = place,
         \A q \in Requests : q # r => serving'[q] = serving[q] /\ graph'[q] = graph[q],
         graph' \in [Requests -> Runs], graph'[r] # "none",
         pyRecords' \in [Requests -> Seq(PyCodes)], reply' = reply,
         UNCHANGED <<filterVars, limiterVars, gatewayVars>>, Streamed(r)'
  PROVE  IInv'
<1> USE DEF filterVars, limiterVars, gatewayVars
<1>0. RequestInv(r) /\ GatewayTypes /\ StreamTypeOK
  BY DEF IInv, GatewayTypes
<1>1. sent[r] # <<>>
  <2>1. CASE serving[r] = "run"
    BY <1>0, <2>1 DEF RequestInv, Streamed
  <2>2. CASE serving[r] = "tail"
    BY <1>0, <2>2, EmptySeq DEF RequestInv, Streamed
  <2> QED BY <2>1, <2>2
<1>2. sent[r] \in Seq(Events) /\ sent'[r] = sent[r] \o <<e>>
  BY <1>0 DEF StreamTypeOK
<1>3. /\ sent' \in [Requests -> Seq(Events)] /\ sent'[r] # <<>>
      /\ Len(sent[r]) \in Nat /\ Len(sent'[r]) = Len(sent[r]) + 1
      /\ \A q \in Requests : q # r => sent'[q] = sent[q]
  BY <1>0, <1>2, SendEffect DEF StreamTypeOK
<1>4. StreamTypeOK' /\ LimiterTypeOK'
  BY <1>0, <1>3 DEF StreamTypeOK, PyCodes, GatewayTypes, LimiterTypeOK
<1>5. Fated(r)' /\ Answered(r)'
  BY <1>0, <1>1, <1>3 DEF RequestInv, Fated, Answered
<1>6. relayed[r] \in Nat
  BY <1>0 DEF GatewayTypes
<1>7. Relayed(r)'
  BY <1>0, <1>1, <1>3, <1>6 DEF RequestInv, Relayed
<1>8. owner' \in [Threads -> Users \cup {NoOwner}]
  BY <1>0 DEF GatewayTypes
<1> QED BY <1>3, <1>4, <1>5, <1>7, <1>8, AgentOnly

LEMMA TokenStep ==
  ASSUME IInv, NEW r \in Requests, StreamToken(r),
         UNCHANGED <<filterVars, limiterVars, gatewayVars>>
  PROVE  IInv'
<1>0. RequestInv(r) /\ StreamTypeOK
  BY DEF IInv, GatewayTypes
<1>1. /\ serving[r] = "run" /\ sent' = [sent EXCEPT ![r] = @ \o <<"token">>]
      /\ UNCHANGED <<serving, reply, graph, pyRecords>>
  BY DEF StreamToken, Send
<1>2. /\ "token" \in Events /\ sent[r] \in Seq(Events)
      /\ sent'[r] = sent[r] \o <<"token">>
  BY <1>0, <1>1 DEF StreamTypeOK, Events
<1>3. /\ sent'[r] # <<>> /\ Len(sent[r]) \in Nat /\ Len(sent'[r]) = Len(sent[r]) + 1
      /\ \A i \in 1..Len(sent[r]) : sent'[r][i] = sent[r][i]
      /\ sent'[r][Len(sent[r]) + 1] = "token"
  BY <1>2, SendEffect
<1>4. sent[r] # <<>> /\ graph[r] = "running" /\ Tokens(sent[r], Len(sent[r]))
  BY <1>0, <1>1 DEF RequestInv, Streamed
<1>5. Len(sent[r]) >= 1
  BY <1>2, <1>3, <1>4, EmptySeq
<1>6. Tokens(sent'[r], Len(sent'[r]))
  BY <1>3, <1>4 DEF Tokens
<1>7. Told(sent'[r], graph[r])
  BY <1>0, <1>3, <1>4, <1>5, <1>6 DEF RequestInv, Streamed, Told, Tokens
<1>8. Streamed(r)'
  BY <1>1, <1>3, <1>4, <1>6, <1>7 DEF Streamed
<1>9. /\ serving' \in [Requests -> Phases] /\ serving'[r] = "run"
      /\ graph' \in [Requests -> Runs] /\ graph'[r] # "none"
      /\ pyRecords' \in [Requests -> Seq(PyCodes)]
  BY <1>0, <1>1, <1>4 DEF StreamTypeOK, PyCodes
<1> QED BY <1>1, <1>2, <1>8, <1>9, SendSteps

LEMMA ResultStep ==
  ASSUME IInv, NEW r \in Requests, StreamResult(r),
         UNCHANGED <<filterVars, limiterVars, gatewayVars>>
  PROVE  IInv'
<1>0. RequestInv(r) /\ StreamTypeOK
  BY DEF IInv, GatewayTypes
<1>1. PICK e \in Results : sent' = [sent EXCEPT ![r] = @ \o <<e>>]
  BY DEF StreamResult, Send
<1>2. /\ serving[r] = "run" /\ graph' = [graph EXCEPT ![r] = "completed"]
      /\ serving' = [serving EXCEPT ![r] = "tail"] /\ UNCHANGED <<reply, pyRecords>>
  BY DEF StreamResult
<1>3. e \in Events /\ sent[r] \in Seq(Events) /\ sent'[r] = sent[r] \o <<e>>
  BY <1>0, <1>1 DEF StreamTypeOK, Events
<1>4. /\ sent'[r] # <<>> /\ Len(sent[r]) \in Nat /\ Len(sent'[r]) = Len(sent[r]) + 1
      /\ \A i \in 1..Len(sent[r]) : sent'[r][i] = sent[r][i]
      /\ sent'[r][Len(sent[r]) + 1] = e
  BY <1>3, SendEffect
<1>5. sent[r] # <<>> /\ Tokens(sent[r], Len(sent[r])) /\ sent[r][1] = "metadata"
  BY <1>0, <1>2 DEF RequestInv, Streamed, Told
<1>6. Len(sent[r]) >= 1
  BY <1>3, <1>4, <1>5, EmptySeq
<1>7. /\ serving' \in [Requests -> Phases] /\ serving'[r] = "tail"
      /\ graph' \in [Requests -> Runs]
      /\ graph'[r] = "completed"
      /\ \A q \in Requests : q # r => serving'[q] = serving[q] /\ graph'[q] = graph[q]
      /\ pyRecords' \in [Requests -> Seq(PyCodes)]
  BY <1>0, <1>2 DEF StreamTypeOK, PyCodes, Phases, Runs
<1>8. Tokens(sent'[r], Len(sent'[r]) - 1)
  BY <1>4, <1>5 DEF Tokens
<1>9. Told(sent'[r], "completed")
  BY <1>4, <1>5, <1>6, <1>8 DEF Told, Tokens
<1>10. Streamed(r)'
  BY <1>4, <1>6, <1>7, <1>8, <1>9 DEF Streamed
<1> QED BY <1>1, <1>2, <1>3, <1>7, <1>10, SendSteps

LEMMA DoneStep ==
  ASSUME IInv, NEW r \in Requests, StreamDone(r),
         UNCHANGED <<filterVars, limiterVars, gatewayVars>>
  PROVE  IInv'
<1>0. RequestInv(r) /\ StreamTypeOK
  BY DEF IInv, GatewayTypes
<1>1. /\ serving[r] = "tail" /\ sent' = [sent EXCEPT ![r] = @ \o <<"done">>]
      /\ Finish(r, "NONE") /\ UNCHANGED <<reply, graph>>
  BY DEF StreamDone, Send
<1>2. /\ "done" \in Events /\ sent[r] \in Seq(Events)
      /\ sent'[r] = sent[r] \o <<"done">>
  BY <1>0, <1>1 DEF StreamTypeOK, Events
<1>3. /\ sent'[r] # <<>> /\ Len(sent[r]) \in Nat /\ Len(sent'[r]) = Len(sent[r]) + 1
      /\ \A i \in 1..Len(sent[r]) : sent'[r][i] = sent[r][i]
      /\ sent'[r][Len(sent[r]) + 1] = "done"
  BY <1>2, SendEffect
<1>4. /\ Len(sent[r]) >= 2 /\ sent[r][Len(sent[r])] \in Results
      /\ graph[r] = "completed" /\ Tokens(sent[r], Len(sent[r]) - 1)
      /\ sent[r] # <<>> => sent[r][1] = "metadata"
  BY <1>0, <1>1 DEF RequestInv, Streamed, Told
<1>5. sent[r][1] = "metadata"
  BY <1>2, <1>4, EmptySeq
<1>6. "NONE" \in PyCodes
  BY DEF PyCodes
<1>7. /\ serving' \in [Requests -> Phases] /\ serving'[r] = "over"
      /\ \A q \in Requests : q # r => serving'[q] = serving[q]
      /\ pyRecords' \in [Requests -> Seq(PyCodes)]
  BY <1>0, <1>1, <1>6, FinishEffect
<1>8. Told(sent'[r], "completed")
  BY <1>3, <1>4, <1>5, SMTT(20) DEF Told, Tokens
<1>9. Streamed(r)'
  BY <1>1, <1>3, <1>4, <1>7, <1>8 DEF Streamed, Ended
<1>10. graph' \in [Requests -> Runs] /\ graph'[r] # "none"
  BY <1>0, <1>1, <1>4 DEF StreamTypeOK
<1> QED BY <1>1, <1>2, <1>7, <1>9, <1>10, SendSteps

LEMMA FailStep ==
  ASSUME IInv, NEW r \in Requests, StreamFails(r),
         UNCHANGED <<filterVars, limiterVars, gatewayVars>>
  PROVE  IInv'
<1>0. RequestInv(r) /\ StreamTypeOK
  BY DEF IInv, GatewayTypes
<1>1. /\ serving[r] = "run" /\ sent' = [sent EXCEPT ![r] = @ \o <<"error">>]
      /\ graph' = [graph EXCEPT ![r] = "failed"]
      /\ Finish(r, "NONE") /\ UNCHANGED reply
  BY DEF StreamFails, Send
<1>2. /\ "error" \in Events /\ sent[r] \in Seq(Events)
      /\ sent'[r] = sent[r] \o <<"error">>
  BY <1>0, <1>1 DEF StreamTypeOK, Events
<1>3. /\ sent'[r] # <<>> /\ Len(sent[r]) \in Nat /\ Len(sent'[r]) = Len(sent[r]) + 1
      /\ \A i \in 1..Len(sent[r]) : sent'[r][i] = sent[r][i]
      /\ sent'[r][Len(sent[r]) + 1] = "error"
  BY <1>2, SendEffect
<1>4. sent[r] # <<>> /\ Tokens(sent[r], Len(sent[r])) /\ sent[r][1] = "metadata"
  BY <1>0, <1>1 DEF RequestInv, Streamed, Told
<1>5. Len(sent[r]) >= 1
  BY <1>2, <1>3, <1>4, EmptySeq
<1>6. "NONE" \in PyCodes
  BY DEF PyCodes
<1>7. /\ serving' \in [Requests -> Phases] /\ serving'[r] = "over"
      /\ \A q \in Requests : q # r => serving'[q] = serving[q]
      /\ pyRecords' \in [Requests -> Seq(PyCodes)]
  BY <1>0, <1>1, <1>6, FinishEffect
<1>8. /\ graph' \in [Requests -> Runs]
      /\ graph'[r] = "failed" /\ \A q \in Requests : q # r => graph'[q] = graph[q]
  BY <1>0, <1>1 DEF StreamTypeOK, Runs
<1>9. Told(sent'[r], "failed")
  BY <1>3, <1>4, <1>5 DEF Told, Tokens
<1>10. Streamed(r)'
  BY <1>3, <1>7, <1>8, <1>9 DEF Streamed, Ended
<1> QED BY <1>1, <1>2, <1>7, <1>8, <1>10, SendSteps

LEMMA CancelStep ==
  ASSUME IInv, NEW r \in Requests, StreamCancelled(r),
         servlet[r] \notin {"await", "relay"},
         UNCHANGED <<filterVars, limiterVars, gatewayVars>>
  PROVE  IInv'
<1> USE DEF filterVars, limiterVars, gatewayVars
<1>0. RequestInv(r) /\ GatewayTypes /\ StreamTypeOK
  BY DEF IInv, GatewayTypes
<1>1. PICK code \in {"CLIENT_DISCONNECTED", "NONE"} : Finish(r, code)
  BY DEF StreamCancelled
<1>2. /\ serving[r] \in {"run", "tail"} /\ UNCHANGED <<reply, sent>>
      /\ graph' = [graph EXCEPT ![r] = IF @ = "running" THEN "cancelled" ELSE @]
  BY DEF StreamCancelled
<1>3. code \in PyCodes
  BY DEF PyCodes
<1>4. /\ serving' \in [Requests -> Phases] /\ serving'[r] = "over"
      /\ \A q \in Requests : q # r => serving'[q] = serving[q]
      /\ pyRecords' \in [Requests -> Seq(PyCodes)]
  BY <1>0, <1>1, <1>3, FinishEffect
<1>5. /\ graph' \in [Requests -> Runs]
      /\ graph'[r] = IF graph[r] = "running" THEN "cancelled" ELSE graph[r]
      /\ \A q \in Requests : q # r => graph'[q] = graph[q]
  BY <1>0, <1>2 DEF StreamTypeOK, Runs
<1>6. StreamTypeOK' /\ LimiterTypeOK'
  BY <1>0, <1>2, <1>4, <1>5 DEF StreamTypeOK, PyCodes, GatewayTypes, LimiterTypeOK
<1>7. Told(sent[r], graph'[r])
  <2>1. CASE serving[r] = "run"
    BY <1>0, <2>1 DEF RequestInv, Streamed, Told, Tokens
  <2>2. CASE serving[r] = "tail"
    BY <1>0, <1>5, <2>2 DEF RequestInv, Streamed
  <2> QED BY <1>2, <2>1, <2>2
<1>8. Streamed(r)'
  BY <1>2, <1>4, <1>7 DEF Streamed
<1>9. sent[r] # <<>>
  <2>1. CASE serving[r] = "run"
    BY <1>0, <2>1 DEF RequestInv, Streamed
  <2>2. CASE serving[r] = "tail"
    BY <1>0, <2>2, EmptySeq DEF RequestInv, Streamed
  <2> QED BY <1>2, <2>1, <2>2
<1>10. Fated(r)' /\ Answered(r)'
  BY <1>0, <1>2, <1>4, <1>5, <1>9 DEF RequestInv, Fated, Answered
<1>11. Relayed(r)'
  BY <1>0, <1>2, <1>4 DEF RequestInv, Relayed
<1>12. owner' \in [Threads -> Users \cup {NoOwner}]
  BY <1>0 DEF GatewayTypes
<1> QED BY <1>2, <1>4, <1>5, <1>6, <1>8, <1>10, <1>11, <1>12, AgentOnly

LEMMA RunSteps ==
  ASSUME IInv, NEW r \in Requests, RunStep(r)
  PROVE  IInv'
<1>1. UNCHANGED <<filterVars, limiterVars, gatewayVars>>
  BY DEF RunStep
<1> QED BY <1>1, TokenStep, ResultStep, DoneStep, FailStep, CancelStep DEF RunStep

(* The process dies under all requests at once. *)
LEMMA CrashStep ==
  ASSUME IInv, Crash
  PROVE  IInv'
<1> USE DEF filterVars, limiterVars, gatewayVars
<1>0. GatewayTypes /\ StreamTypeOK
  BY DEF IInv, GatewayTypes
<1>1. /\ serving' = [r \in Requests |->
                       IF serving[r] \in Live THEN "dead" ELSE serving[r]]
      /\ UNCHANGED <<reply, sent, graph, pyRecords>>
      /\ UNCHANGED <<filterVars, limiterVars, gatewayVars>>
  BY DEF Crash, StreamCrash
<1>2. GatewayTypes'
  <2>1. StreamTypeOK'
    BY <1>0, <1>1 DEF StreamTypeOK, Phases
  <2> QED BY <1>0, <1>1, <2>1 DEF GatewayTypes, FilterTypeOK, LimiterTypeOK
<1>3. ASSUME NEW r \in Requests
      PROVE  RequestInv(r)'
  <2>0. RequestInv(r)
    BY DEF IInv
  <2>1. \/ serving'[r] = serving[r]
        \/ serving[r] \in {"limit", "resolve", "run", "tail", "resume"} /\ serving'[r] = "dead"
    BY <1>1 DEF Live
  <2>2. Recorded(r)'
    BY <1>1, <2>0 DEF RequestInv, Recorded
  <2>3. Fated(r)' /\ Answered(r)'
    BY <1>1, <2>0, <2>1 DEF RequestInv, Fated, Answered
  <2>4. Streamed(r)'
    BY <1>1, <2>0, <2>1 DEF RequestInv, Streamed
  <2>5. Relayed(r)'
    BY <1>1, <2>0, <2>1 DEF RequestInv, Relayed
  <2> QED BY <2>2, <2>3, <2>4, <2>5 DEF RequestInv
<1> QED BY <1>2, <1>3 DEF IInv

-----------------------------------------------------------------------------
(* The steps that concern no request. *)
LEMMA LimiterOnlySteps ==
  ASSUME IInv, Second \/ \E u \in Users : OtherChat(u) \/ LateScript(u)
  PROVE  IInv'
<1> USE DEF gatewayVars
<1>0. LimiterTypeOK
  BY DEF IInv, GatewayTypes
<1>1. CASE Second
  <2>1. LimiterTypeOK'
    BY <1>0, <1>1, TickTypes DEF Second
  <2> QED BY <1>1, <2>1, LimiterOnly DEF Second
<1>2. ASSUME NEW u \in Users, OtherChat(u)
      PROVE  IInv'
  <2>1. LimiterTypeOK'
    BY <1>0, <1>2, LimiterSteps DEF OtherChat
  <2> QED BY <1>2, <2>1, LimiterOnly DEF OtherChat
<1>3. ASSUME NEW u \in Users, LateScript(u)
      PROVE  IInv'
  <2>1. LimiterTypeOK'
    BY <1>0, <1>3, LimiterSteps DEF LateScript
  <2> QED BY <1>3, <2>1, LimiterOnly DEF LateScript
<1> QED BY <1>1, <1>2, <1>3

LEMMA NextIInv == IInv /\ [Next]_vars => IInv'
<1> SUFFICES ASSUME IInv, [Next]_vars PROVE IInv'
  OBVIOUS
<1>1. ASSUME NEW r \in Requests,
             AcceptRequest(r) \/ RejectRequest(r) \/ ClientLeaves(r)
      PROVE  IInv'
  BY <1>1, AcceptStep, RejectStep, ClientSteps
<1>2. ASSUME NEW r \in Requests, ServletStep(r)
      PROVE  IInv'
  BY <1>2, ArriveStep, AnswerSteps, RelayOpensStep, ClientSteps, RelayEndSteps,
     CompleteStep DEF ServletStep
<1>3. ASSUME NEW r \in Requests, AgentStep(r)
      PROVE  IInv'
  BY <1>3, AdmitStep, RefusalSteps, CreateThreadStep, StartRunStep, ResumeSteps,
     RunSteps
     DEF AgentStep
<1>4. CASE UNCHANGED vars
  <2>1. LimiterTypeOK'
    BY <1>4 DEF vars, limiterVars, LimiterTypeOK, IInv, GatewayTypes
  <2> QED BY <1>4, <2>1, LimiterOnly DEF vars, gatewayVars
<1> QED BY <1>1, <1>2, <1>3, <1>4, LimiterOnlySteps, CrashStep DEF Next

(* The invariant holds in every reachable state. *)
THEOREM GatewayInvariance == Spec => []IInv
BY GatewayInit, NextIInv, PTL DEF Spec

(* Every variable of the gateway keeps its type, and no client is sent more *)
(* events than the agent service has yielded.                               *)
THEOREM GatewayTypeCorrect == Spec => []TypeOK
<1>1. IInv => TypeOK
  <2> SUFFICES ASSUME IInv PROVE TypeOK
    OBVIOUS
  <2>1. ASSUME NEW r \in Requests
        PROVE  relayed[r] \in 0..Len(sent[r])
    BY LenProperties DEF IInv, GatewayTypes, StreamTypeOK, RequestInv, Relayed
  <2> QED BY <2>1 DEF IInv, GatewayTypes, TypeOK
<1> QED BY <1>1, GatewayInvariance, PTL

(* The callbacks of the asynchronous request leave one completion record,   *)
(* in whatever order timeout, error and completion come.                    *)
THEOREM OneRecordPerRequest == Spec => []OneCompletionRecord
<1>1. IInv => OneCompletionRecord
  <2> SUFFICES ASSUME IInv, NEW r \in Requests
               PROVE  /\ Len(records[r]) <= 1
                      /\ servlet[r] = "over" => Len(records[r]) = 1
    BY DEF OneCompletionRecord
  <2>1. Recorded(r)
    BY DEF IInv, RequestInv
  <2>2. records[r] = <<>> => Len(records[r]) = 0
    BY EmptySeq
  <2>3. \A code \in RecordCodes : Len(<<code>>) = 1
    OBVIOUS
  <2>4. CASE records[r] = <<>>
    BY <2>1, <2>2, <2>4 DEF Recorded
  <2>5. CASE records[r] # <<>>
    <3>1. PICK code \in RecordCodes : records[r] = <<code>>
      BY <2>1, <2>5 DEF Recorded
    <3>2. Len(records[r]) = 1
      BY <2>3, <3>1
    <3> QED BY <3>2
  <2> QED BY <2>4, <2>5
<1> QED BY <1>1, GatewayInvariance, PTL

(* What a status tells the client of the run is so, whatever happened to    *)
(* the services in between: after 400 and 429, and a message's 404 and 500, *)
(* no run was started, and the run of a decision answered 200 completed.    *)
THEOREM StatusesTellFate == Spec => []StatusTellsFate
<1>1. ASSUME IInv, NEW r \in Requests
      PROVE  /\ servlet[r] = "relay" => reply[r] = 200 /\ graph[r] # "none"
             /\ servlet[r] \in {"closing", "over"} =>
                  /\ status[r] \in {400, 429} => graph[r] = "none"
                  /\ asked[r].kind = "stream" /\ status[r] \in {404, 500}
                       => graph[r] = "none"
                  /\ asked[r].kind = "resume" /\ status[r] = 200
                       => graph[r] = "completed"
  BY <1>1 DEF IInv, RequestInv, Fated, Answered, Streamed
<1>2. IInv => StatusTellsFate
  BY <1>1 DEF StatusTellsFate
<1> QED BY <1>2, GatewayInvariance, PTL

(* What the client has received is a beginning of what the encoder yielded, *)
(* so that its end means what the encoder meant by it.                      *)
THEOREM StreamsTellTruth == Spec => []StreamTellsTruth
<1>1. ASSUME IInv, NEW r \in Requests
      PROVE  LET got == Received(r)
                 n == Len(got)
             IN
             /\ n > 0 => got[1] = "metadata"
             /\ \A i \in 2..n :
                  \/ got[i] = "token"
                  \/ got[i] \in Results /\ i >= n - 1 /\ graph[r] = "completed"
                  \/ got[i] = "done" /\ i = n /\ got[i - 1] \in Results
                  \/ got[i] = "error" /\ i = n /\ graph[r] = "failed"
             /\ servlet[r] = "closing" /\ n > 0 /\ ~gone[r]
                  => got[n] \in {"done", "error"}
  <2> DEFINE s == sent[r]
             got == Received(r)
             n == relayed[r]
  <2>1. s \in Seq(Events) /\ n \in Nat /\ n <= Len(s) /\ Len(s) \in Nat
    BY <1>1, LenProperties DEF IInv, GatewayTypes, StreamTypeOK, RequestInv, Relayed
  <2>2. /\ Len(got) = n
        /\ \A i \in 1..n : got[i] = s[i]
    BY <2>1, SubSeqProperties DEF Received
  <2>3. Told(s, graph[r])
    BY <1>1 DEF IInv, RequestInv, Streamed
  <2>4. n > 0 => s # <<>>
    BY <2>1, EmptySeq
  <2>5. servlet[r] = "closing" /\ n > 0 /\ ~gone[r] => n = Len(s) /\ Ended(s)
    BY <1>1 DEF IInv, RequestInv, Relayed
  <2> HIDE DEF s, got, n
  <2>6. n > 0 => got[1] = "metadata"
    BY <2>1, <2>2, <2>3, <2>4 DEF Told
  <2>7. ASSUME NEW i \in 2..n
        PROVE  \/ got[i] = "token"
               \/ got[i] \in Results /\ i >= n - 1 /\ graph[r] = "completed"
               \/ got[i] = "done" /\ i = n /\ got[i - 1] \in Results
               \/ got[i] = "error" /\ i = n /\ graph[r] = "failed"
    <3>1. i \in 2..Len(s) /\ got[i] = s[i] /\ got[i - 1] = s[i - 1]
      BY <2>1, <2>2
    <3> QED BY <2>1, <2>3, <3>1 DEF Told
  <2>8. servlet[r] = "closing" /\ n > 0 /\ ~gone[r] => got[n] \in {"done", "error"}
    BY <2>1, <2>2, <2>5 DEF Ended
  <2>9. got = Received(r)
    BY DEF got
  <2> QED BY <2>2, <2>6, <2>7, <2>8, <2>9
<1>2. IInv => StreamTellsTruth
  BY <1>1 DEF StreamTellsTruth
<1> QED BY <1>2, GatewayInvariance, PTL
-----------------------------------------------------------------------------
(* The limiter: the admissions of the last Window seconds are those of the  *)
(* window that is open and those of the one before.                         *)

(* How many seconds ago the open window began; -1 where none is open.       *)
Age(u) == IF ttl[u] > 0 THEN Window - ttl[u] ELSE -1

Current(u) == {a \in Admissions(u) : a[1] <= Age(u)}
Earlier(u) == {a \in Admissions(u) : a[1] > Age(u)}

(* S has at most n members. *)
AtMost(S, n) == IsFiniteSet(S) /\ Cardinality(S) <= n

(* The counter counts at least what was admitted in its window, and there   *)
(* is no room for more than one window before it: a key without TTL has met *)
(* no admission, and when a window ends, what is older than it is too old.  *)
WindowInv(u) ==
  /\ count[u] = 0 <=> ttl[u] = 0
  /\ ttl[u] = NoTtl => Admissions(u) = {}
  /\ ttl[u] = 0 => recent[u][0] = 0
  /\ AtMost(Current(u), count[u]) /\ AtMost(Current(u), Limit)
  /\ AtMost(Earlier(u), Limit)

WindowsInv == \A u \in Users : WindowInv(u)

LEMMA AtMostFacts ==
  /\ \A n \in Nat : AtMost({}, n)
  /\ \A S, x, n : n \in Nat /\ AtMost(S, n) => AtMost(S \cup {x}, n + 1)
  /\ \A S, T, n : n \in Nat /\ AtMost(T, n) /\ S \subseteq T => AtMost(S, n)
  /\ \A S, m, n : m \in Nat /\ n \in Nat /\ AtMost(S, m) /\ m <= n => AtMost(S, n)
<1>1. \A n \in Nat : AtMost({}, n)
  BY FS_EmptySet DEF AtMost
<1>2. ASSUME NEW S, NEW x, NEW n \in Nat, AtMost(S, n)
      PROVE  AtMost(S \cup {x}, n + 1)
  <2>1. IsFiniteSet(S) /\ Cardinality(S) \in Nat /\ Cardinality(S) <= n
    BY <1>2, FS_CardinalityType DEF AtMost
  <2>2. /\ IsFiniteSet(S \cup {x})
        /\ Cardinality(S \cup {x}) \in {Cardinality(S), Cardinality(S) + 1}
    BY <2>1, FS_AddElement
  <2> QED BY <2>1, <2>2 DEF AtMost
<1>3. ASSUME NEW S, NEW T, NEW n \in Nat, AtMost(T, n), S \subseteq T
      PROVE  AtMost(S, n)
  BY <1>3, FS_Subset, FS_CardinalityType DEF AtMost
<1>4. ASSUME NEW S, NEW m \in Nat, NEW n \in Nat, AtMost(S, m), m <= n
      PROVE  AtMost(S, n)
  BY <1>4, FS_CardinalityType DEF AtMost
<1> QED BY <1>1, <1>2, <1>3, <1>4

LEMMA AtMostInjected ==
  ASSUME NEW S, NEW T, NEW n \in Nat, AtMost(T, n), NEW f \in Injection(S, T)
  PROVE  AtMost(S, n)
BY FS_Injection, FS_CardinalityType DEF AtMost

Slots(f) == UNION {{i} \X (1..f[i]) : i \in Seconds}

LEMMA SlotsAre ==
  ASSUME NEW f \in [Seconds -> Nat]
  PROVE  \A a : a \in Slots(f) <=>
           \E i \in Seconds, k \in Nat \ {0} : k <= f[i] /\ a = <<i, k>>
<1>1. ASSUME NEW i \in Seconds, NEW a
      PROVE  a \in {i} \X (1..f[i]) <=> \E k \in Nat \ {0} : k <= f[i] /\ a = <<i, k>>
  <2>1. f[i] \in Nat
    OBVIOUS
  <2> QED BY <2>1
<1> QED BY <1>1 DEF Slots

LEMMA AdmissionsAre ==
  \A u : Admissions(u) = Slots(recent[u]) /\ Admissions(u)' = Slots(recent'[u])
BY DEF Admissions, Slots

(* What a step leaves of a user keeps the invariant of that user. *)
LEMMA WindowKept ==
  ASSUME NEW u, WindowInv(u), count'[u] = count[u], ttl'[u] = ttl[u],
         recent'[u] = recent[u]
  PROVE  WindowInv(u)'
<1>1. Admissions(u)' = Admissions(u)
  BY AdmissionsAre
<1>2. Age(u)' = Age(u)
  BY DEF Age
<1>3. Current(u)' = Current(u) /\ Earlier(u)' = Earlier(u)
  BY <1>1, <1>2 DEF Current, Earlier
<1> QED BY <1>1, <1>3 DEF WindowInv

(* The script counts; a call that is admitted is one more of the window.    *)
LEMMA ScriptWindow ==
  ASSUME LimiterTypeOK, NEW u \in Users, WindowInv(u), FixedWindowScript(u),
         NEW more \in {0, 1}, more = 1 => WithinLimit(u),
         recent' = [recent EXCEPT ![u][0] = @ + more]
  PROVE  WindowInv(u)'
<1> DEFINE new == IF more = 0 THEN {} ELSE {<<0, recent[u][0] + 1>>}
<1>0. /\ count[u] \in Nat /\ ttl[u] \in NoTtl..Window /\ recent[u] \in [Seconds -> Nat]
      /\ 0 \in Seconds /\ Limit \in Nat \ {0} /\ Window \in Nat \ {0}
  BY LimiterAssumption DEF LimiterTypeOK, Seconds
<1>1. /\ count'[u] = count[u] + 1
      /\ ttl'[u] = IF count[u] = 0 \/ ttl[u] < 0 THEN Window ELSE ttl[u]
  BY DEF LimiterTypeOK, FixedWindowScript
<1>2. /\ recent'[u] \in [Seconds -> Nat]
      /\ \A i \in Seconds : recent'[u][i] = recent[u][i] + (IF i = 0 THEN more ELSE 0)
  BY <1>0 DEF LimiterTypeOK
<1>3. Admissions(u)' \subseteq Admissions(u) \cup new
  <2>1. ASSUME NEW i \in Seconds, NEW k \in Nat \ {0}, k <= recent'[u][i]
        PROVE  k <= recent[u][i] \/ <<i, k>> \in new
    BY <1>0, <1>2, <2>1
  <2> HIDE DEF new
  <2> QED BY <1>0, <1>2, <2>1, SlotsAre, AdmissionsAre
<1>4. \A a \in Admissions(u) : a[1] \in Nat /\ (recent[u][0] = 0 => a[1] > 0)
  BY <1>0, SlotsAre, AdmissionsAre DEF Seconds
<1>5. Current(u)' \subseteq Current(u) \cup new
  BY <1>0, <1>1, <1>3, <1>4 DEF Current, Age, WindowInv, NoTtl
<1>6. Earlier(u)' \subseteq Earlier(u)
  BY <1>0, <1>1, <1>3, <1>4 DEF Earlier, Age, WindowInv, NoTtl
<1>7. AtMost(Earlier(u)', Limit)
  BY <1>0, <1>6, AtMostFacts DEF WindowInv
<1>8. AtMost(Current(u) \cup new, count[u] + more)
  <2>1. CASE more = 0
    <3>1. Current(u) \cup new = Current(u) /\ count[u] + more = count[u]
      BY <1>0, <2>1
    <3> QED BY <3>1 DEF WindowInv
  <2>2. CASE more = 1
    <3>1. AtMost(Current(u), count[u])
      BY DEF WindowInv
    <3>2. AtMost(Current(u) \cup {<<0, recent[u][0] + 1>>}, count[u] + 1)
      BY <1>0, <3>1, AtMostFacts
    <3> QED BY <2>2, <3>2
  <2> QED BY <2>1, <2>2
<1>9. AtMost(Current(u)', count[u] + more)
  BY <1>0, <1>5, <1>8, AtMostFacts
<1>10. AtMost(Current(u)', count'[u]) /\ AtMost(Current(u)', Limit)
  <2>1. CASE more = 0
    BY <1>0, <1>1, <1>5, <1>9, <2>1, AtMostFacts DEF WindowInv
  <2>2. CASE more = 1
    BY <1>0, <1>1, <1>9, <2>2, AtMostFacts DEF WithinLimit
  <2> QED BY <2>1, <2>2
<1>11. ttl'[u] > 0
  BY <1>0, <1>1 DEF WindowInv, NoTtl
<1> QED BY <1>0, <1>1, <1>7, <1>10, <1>11 DEF WindowInv, NoTtl

(* A second later, the admissions are those of a second before that are not *)
(* too old by now.                                                          *)
LEMMA Shifted ==
  ASSUME NEW S, NEW T, NEW n \in Nat, AtMost(T, n),
         \A a \in S : a = <<a[1], a[2]>> /\ a[1] \in Int /\ <<a[1] - 1, a[2]>> \in T
  PROVE  AtMost(S, n)
<1>1. PICK f : f = [a \in S |-> <<a[1] - 1, a[2]>>]
  OBVIOUS
<1>2. f \in [S -> T]
  BY <1>1
<1>3. ASSUME NEW a \in S, NEW b \in S, f[a] = f[b]
      PROVE  a = b
  <2>1. a[1] \in Int /\ b[1] \in Int /\ a = <<a[1], a[2]>> /\ b = <<b[1], b[2]>>
    OBVIOUS
  <2>2. <<a[1] - 1, a[2]>> = <<b[1] - 1, b[2]>>
    BY <1>1, <1>3
  <2>3. a[1] - 1 = b[1] - 1 /\ a[2] = b[2]
    BY <2>2
  <2>4. a[1] = b[1]
    BY <2>1, <2>3
  <2> QED BY <2>1, <2>3, <2>4
<1>4. f \in Injection(S, T)
  BY <1>2, <1>3 DEF Injection, IsInjective
<1> QED BY <1>4, AtMostInjected

LEMMA TickWindow ==
  ASSUME LimiterTypeOK, NEW u \in Users, WindowInv(u), Tick
  PROVE  WindowInv(u)'
<1>0. /\ count[u] \in Nat /\ ttl[u] \in NoTtl..Window /\ recent[u] \in [Seconds -> Nat]
      /\ 0 \in Seconds /\ Limit \in Nat \ {0} /\ Window \in Nat \ {0}
  BY LimiterAssumption DEF LimiterTypeOK, Seconds
<1>1. /\ count'[u] = IF ttl[u] = 1 THEN 0 ELSE count[u]
      /\ ttl'[u] = IF ttl[u] > 0 THEN ttl[u] - 1 ELSE ttl[u]
      /\ recent'[u] = [i \in Seconds |-> IF i = 0 THEN 0 ELSE recent[u][i - 1]]
  BY DEF Tick
<1>2. recent'[u] \in [Seconds -> Nat]
  BY <1>0, <1>1 DEF Seconds
<1>3. PICK A, B, age, aged :
        /\ A = Admissions(u) /\ B = Admissions(u)'
        /\ age = Age(u) /\ aged = Age(u)'
  OBVIOUS
<1>4. /\ age = IF ttl[u] > 0 THEN Window - ttl[u] ELSE -1
      /\ aged = IF ttl'[u] > 0 THEN Window - ttl'[u] ELSE -1
      /\ Current(u) = {a \in A : a[1] <= age} /\ Earlier(u) = {a \in A : a[1] > age}
      /\ Current(u)' = {a \in B : a[1] <= aged} /\ Earlier(u)' = {a \in B : a[1] > aged}
  BY <1>3 DEF Age, Current, Earlier
<1>5. ASSUME NEW a \in B
      PROVE  /\ a = <<a[1], a[2]>> /\ a[1] \in Seconds /\ a[1] > 0
             /\ <<a[1] - 1, a[2]>> \in A
  <2>1. PICK i \in Seconds, k \in Nat \ {0} : k <= recent'[u][i] /\ a = <<i, k>>
    BY <1>2, <1>3, SlotsAre, AdmissionsAre
  <2>2. i # 0 /\ recent'[u][i] = recent[u][i - 1] /\ i - 1 \in Seconds
    BY <1>0, <1>1, <2>1 DEF Seconds
  <2>3. <<i - 1, k>> \in A
    BY <1>0, <1>3, <2>1, <2>2, SlotsAre, AdmissionsAre
  <2> QED BY <2>1, <2>2, <2>3 DEF Seconds
<1>6. ASSUME NEW S, NEW T, S \subseteq B, AtMost(T, Limit),
             \A a \in S : <<a[1] - 1, a[2]>> \in T
      PROVE  AtMost(S, Limit)
  BY <1>0, <1>5, <1>6, Shifted DEF Seconds
<1>7. ASSUME NEW a \in B
       PROVE  /\ ~(a[1] <= -1)
              /\ <<a[1] - 1, a[2]>>[1] > -1 /\ <<a[1] - 1, a[2]>>[1] <= Window - 1
              /\ <<a[1] - 1, a[2]>> \in A
  BY <1>0, <1>5 DEF Seconds
<1>8. CASE ttl[u] > 1
  <2>1. aged = age + 1 /\ age \in Int
    BY <1>0, <1>1, <1>4, <1>8 DEF NoTtl
  <2>2. /\ \A a \in Current(u)' : <<a[1] - 1, a[2]>> \in Current(u)
        /\ \A a \in Earlier(u)' : <<a[1] - 1, a[2]>> \in Earlier(u)
    BY <1>4, <1>5, <2>1 DEF Seconds
  <2>3. AtMost(Current(u)', count[u])
    BY <1>0, <1>4, <1>5, <2>2, Shifted DEF WindowInv, Seconds
  <2>4. AtMost(Current(u)', Limit) /\ AtMost(Earlier(u)', Limit)
    BY <1>4, <1>6, <2>2 DEF WindowInv
  <2> QED BY <1>0, <1>1, <1>8, <2>3, <2>4 DEF WindowInv, NoTtl
<1>9. CASE ttl[u] = 1
  <2>1. aged = -1 /\ age = Window - 1
    BY <1>0, <1>1, <1>4, <1>9
  <2>2. /\ Current(u)' = {}
        /\ \A a \in Earlier(u)' : <<a[1] - 1, a[2]>> \in Current(u)
    <3>1. /\ Current(u)' = {a \in B : a[1] <= -1} /\ Earlier(u)' \subseteq B
          /\ Current(u) = {a \in A : a[1] <= Window - 1}
      BY <1>4, <2>1
    <3>2. Current(u)' = {}
      BY <1>7, <3>1
    <3>3. \A a \in Earlier(u)' : <<a[1] - 1, a[2]>> \in Current(u)
      BY <1>7, <3>1
    <3> QED BY <3>2, <3>3
  <2>3. AtMost(Earlier(u)', Limit)
    BY <1>4, <1>6, <2>2 DEF WindowInv
  <2>4. AtMost(Current(u)', count'[u]) /\ AtMost(Current(u)', Limit)
    BY <1>0, <1>1, <1>9, <2>2, AtMostFacts
  <2> QED BY <1>0, <1>1, <1>9, <2>3, <2>4 DEF WindowInv, NoTtl
<1>10. CASE ttl[u] \in {0, NoTtl}
  <2>1. aged = -1 /\ age = -1
    BY <1>0, <1>1, <1>4, <1>10 DEF NoTtl
  <2>2. /\ Current(u)' = {}
        /\ \A a \in Earlier(u)' : <<a[1] - 1, a[2]>> \in Earlier(u)
    <3>1. /\ Current(u)' = {a \in B : a[1] <= -1} /\ Earlier(u)' \subseteq B
          /\ Earlier(u) = {a \in A : a[1] > -1}
      BY <1>4, <2>1
    <3>2. Current(u)' = {}
      BY <1>7, <3>1
    <3>3. \A a \in Earlier(u)' : <<a[1] - 1, a[2]>> \in Earlier(u)
      BY <1>7, <3>1
    <3> QED BY <3>2, <3>3
  <2>3. AtMost(Earlier(u)', Limit)
    BY <1>4, <1>6, <2>2 DEF WindowInv
  <2>4. AtMost(Current(u)', count'[u]) /\ AtMost(Current(u)', Limit)
    BY <1>0, <1>1, <1>10, <2>2, AtMostFacts DEF NoTtl
  <2>5. ttl'[u] = ttl[u] /\ count'[u] = count[u]
    BY <1>0, <1>1, <1>10 DEF NoTtl
  <2>6. ttl'[u] = NoTtl => B = {}
    BY <1>3, <1>5, <2>5 DEF WindowInv
  <2>7. recent'[u][0] = 0
    BY <1>0, <1>1
  <2> QED BY <1>3, <2>3, <2>4, <2>5, <2>6, <2>7 DEF WindowInv
<1> QED BY <1>0, <1>8, <1>9, <1>10 DEF NoTtl

LEMMA WindowInit == LimiterInit => WindowsInv
<1> SUFFICES ASSUME LimiterInit, NEW u \in Users PROVE WindowInv(u)
  BY DEF WindowsInv
<1>1. /\ recent[u] = [i \in Seconds |-> 0] /\ 0 \in Seconds
      /\ count[u] \in {0, Limit} /\ ttl[u] = IF count[u] = 0 THEN 0 ELSE NoTtl
  BY LimiterAssumption DEF LimiterInit, Seconds
<1>2. Admissions(u) = {}
  BY <1>1, SlotsAre, AdmissionsAre
<1>3. Current(u) = {} /\ Earlier(u) = {}
  BY <1>2 DEF Current, Earlier
<1> QED BY <1>1, <1>2, <1>3, AtMostFacts, LimiterAssumption DEF WindowInv, NoTtl

LEMMA OneUserCalls ==
  ASSUME LimiterTypeOK, WindowsInv, NEW u \in Users,
         CheckAllowed(u) \/ CheckExceeded(u) \/ CheckFails(u) \/ LateEval(u)
  PROVE  WindowsInv'
<1> SUFFICES ASSUME NEW v \in Users PROVE WindowInv(v)'
  BY DEF WindowsInv
<1>1. WindowInv(v)
  BY DEF WindowsInv
<1>2. CASE CheckFails(u)
  BY <1>1, <1>2, WindowKept DEF CheckFails
<1>3. CASE v # u
  <2>1. CASE CheckAllowed(u)
    BY <1>1, <1>3, <2>1, WindowKept DEF CheckAllowed, FixedWindowScript, LimiterTypeOK
  <2>2. CASE CheckExceeded(u)
    BY <1>1, <1>3, <2>2, WindowKept DEF CheckExceeded, FixedWindowScript, LimiterTypeOK
  <2>3. CASE LateEval(u)
    BY <1>1, <1>3, <2>3, WindowKept DEF LateEval, FixedWindowScript, LimiterTypeOK
  <2> QED BY <1>2, <2>1, <2>2, <2>3
<1>4. CASE v = u /\ CheckAllowed(u)
  BY <1>1, <1>4, ScriptWindow DEF CheckAllowed
<1>5. CASE v = u /\ (CheckExceeded(u) \/ LateEval(u))
  <2>1. FixedWindowScript(u) /\ recent' = recent
    BY <1>5 DEF CheckExceeded, LateEval
  <2>2. recent' = [recent EXCEPT ![u][0] = @ + 0]
    BY <2>1, LimiterAssumption DEF LimiterTypeOK, Seconds
  <2>3. PICK more \in {0, 1} : more = 0
    OBVIOUS
  <2>4. recent' = [recent EXCEPT ![u][0] = @ + more] /\ WindowInv(u)
    BY <1>1, <1>5, <2>2, <2>3
  <2>5. more = 1 => WithinLimit(u)
    BY <2>3
  <2>6. WindowInv(u)'
    BY <2>1, <2>4, <2>5, ScriptWindow, Zenon
  <2> QED BY <1>5, <2>6
<1> QED BY <1>2, <1>3, <1>4, <1>5

(* However calls, refusals, failures and late scripts fall around the edges *)
(* of the windows, no user is admitted more than twice the limit within the *)
(* seconds of one window.                                                   *)
THEOREM AdmissionsAreBounded == Spec => []AdmissionsBounded
<1>1. Init => WindowsInv
  BY WindowInit DEF Init
<1>2. IInv /\ WindowsInv /\ [Next]_vars => WindowsInv'
  <2> SUFFICES ASSUME LimiterTypeOK, WindowsInv, [Next]_vars,
                      asked \in [Requests -> [kind : Kinds, user : Users, thread : Threads]]
               PROVE  WindowsInv'
    BY DEF IInv, GatewayTypes
  <2>1. ASSUME UNCHANGED limiterVars
        PROVE  WindowsInv'
    BY <2>1, WindowKept DEF limiterVars, WindowsInv
  <2>2. ASSUME NEW r \in Requests
        PROVE  asked[r].user \in Users
    OBVIOUS
  <2>3. ASSUME NEW r \in Requests, AgentStep(r)
        PROVE  WindowsInv'
    <3>1. CASE Admit(r)
      BY <2>2, <3>1, OneUserCalls DEF Admit
    <3>2. CASE RefuseOverLimit(r)
      BY <2>2, <3>2, OneUserCalls DEF RefuseOverLimit
    <3>3. CASE LimiterDown(r)
      BY <2>2, <3>3, OneUserCalls DEF LimiterDown
    <3>4. CASE \/ CreateThread(r) \/ ThreadNotFound(r) \/ DatabaseFails(r)
               \/ StartRun(r) \/ RunStep(r)
               \/ ApprovalNotPending(r) \/ BeginResume(r) \/ AnswerResume(r)
      BY <2>1, <3>4 DEF CreateThread, ThreadNotFound, DatabaseFails, StartRun, RunStep,
         ApprovalNotPending, BeginResume, AnswerResume
    <3> QED BY <2>3, <3>1, <3>2, <3>3, <3>4 DEF AgentStep
  <2>4. ASSUME NEW r \in Requests, ServletStep(r)
        PROVE  WindowsInv'
    BY <2>1, <2>4 DEF ServletStep, Arrive, ConnectFails, RelayAnswer, RelayOpens,
       RelayEvent, RelayFails, RelayEnds, TimedOut, Complete
  <2>5. ASSUME NEW r \in Requests,
               AcceptRequest(r) \/ RejectRequest(r) \/ ClientLeaves(r)
        PROVE  WindowsInv'
    BY <2>1, <2>5 DEF AcceptRequest, RejectRequest, ClientLeaves
  <2>6. ASSUME NEW u \in Users, OtherChat(u) \/ LateScript(u)
        PROVE  WindowsInv'
    BY <2>6, OneUserCalls DEF OtherChat, LateScript
  <2>7. CASE Second
    BY <2>7, TickWindow DEF Second, WindowsInv
  <2>8. CASE Crash \/ UNCHANGED vars
    BY <2>1, <2>8 DEF Crash, vars
  <2> QED BY <2>3, <2>4, <2>5, <2>6, <2>7, <2>8 DEF Next
<1>3. LimiterTypeOK /\ WindowsInv => AdmissionsBounded
  <2> SUFFICES ASSUME LimiterTypeOK, WindowsInv, NEW u \in Users
               PROVE  Cardinality(Admissions(u)) <= 2 * Limit
    BY DEF AdmissionsBounded
  <2>1. Limit \in Nat
    BY LimiterAssumption
  <2>2. \A a \in Admissions(u) : a[1] \in Int /\ Age(u) \in Int
    <3>1. recent[u] \in [Seconds -> Nat] /\ ttl[u] \in NoTtl..Window /\ Window \in Nat
      BY LimiterAssumption DEF LimiterTypeOK
    <3>2. Age(u) \in Int
      BY <3>1 DEF Age, NoTtl
    <3>3. \A a \in Admissions(u) : \E i \in Seconds, k \in Nat : a = <<i, k>>
      BY <3>1, SlotsAre, AdmissionsAre
    <3> QED BY <3>1, <3>2, <3>3 DEF Seconds
  <2>3. Admissions(u) = Current(u) \cup Earlier(u)
    BY <2>2 DEF Current, Earlier
  <2>4. /\ IsFiniteSet(Current(u)) /\ Cardinality(Current(u)) <= Limit
        /\ IsFiniteSet(Earlier(u)) /\ Cardinality(Earlier(u)) <= Limit
    BY DEF WindowsInv, WindowInv, AtMost
  <2>5. Cardinality(Current(u) \cup Earlier(u))
          <= Cardinality(Current(u)) + Cardinality(Earlier(u))
    <3>1. IsFiniteSet(Current(u) \cap Earlier(u))
      BY <2>4, FS_Intersection
    <3>2. /\ Cardinality(Current(u)) \in Nat /\ Cardinality(Earlier(u)) \in Nat
          /\ Cardinality(Current(u) \cap Earlier(u)) \in Nat
      BY <2>4, <3>1, FS_CardinalityType
    <3>3. Cardinality(Current(u) \cup Earlier(u))
            = Cardinality(Current(u)) + Cardinality(Earlier(u))
                - Cardinality(Current(u) \cap Earlier(u))
      BY <2>4, FS_Union
    <3> QED BY <3>2, <3>3
  <2>6. /\ Cardinality(Current(u)) \in Nat /\ Cardinality(Earlier(u)) \in Nat
        /\ Cardinality(Current(u) \cup Earlier(u)) \in Nat
    BY <2>4, FS_CardinalityType, FS_Union
  <2> QED BY <2>1, <2>3, <2>4, <2>5, <2>6
<1>4. IInv => LimiterTypeOK
  BY DEF IInv, GatewayTypes
<1> QED BY <1>1, <1>2, <1>3, <1>4, GatewayInvariance, PTL DEF Spec
=============================================================================
