------------------------- MODULE RequestCorrelation -------------------------
(***************************************************************************)
(* RequestCorrelationFilter of the business service, which writes one      *)
(* completion record per request.  A request of the agent API answers      *)
(* asynchronously: one asynchronous cycle waits for the agent service, and *)
(* a stream starts a second one, at which the container drops the          *)
(* listeners of the first.  The container then calls the listener at a     *)
(* timeout, at an I/O error and at the end, in that order.                 *)
(***************************************************************************)
EXTENDS AgentApi

VARIABLES
  servlet,   \* servlet[r]: where request r is
  status,    \* status[r]: HttpServletResponse.getStatus()
  listener,  \* listener[r]: completionListener hears of the current cycle
  records    \* records[r]: the request_completed records of r

filterVars == <<servlet, status, listener, records>>

(* await: first cycle; relay: second cycle; closing: the answer is complete *)
(* or broken and the container is about to end the request.                 *)
ServletStates == {"idle", "await", "relay", "closing", "broken", "over"}

FilterInit ==
  /\ servlet = [r \in Requests |-> "idle"]
  /\ status = [r \in Requests |-> 200]
  /\ listener = [r \in Requests |-> FALSE]
  /\ records = [r \in Requests |-> <<>>]

LogCompletion_NoCompareAndSet(r, code) ==
  records' = [records EXCEPT ![r] = Append(@, code)]

(* logCompletion: compareAndSet lets the first caller through. *)
LogCompletion(r, code) ==
  records' = [records EXCEPT ![r] = IF @ = <<>> THEN <<code>> ELSE @]

(* doFilterInternal, when the controller returned a Mono. *)
Accept(r) ==
  /\ servlet[r] = "idle"
  /\ servlet' = [servlet EXCEPT ![r] = "await"]
  /\ listener' = [listener EXCEPT ![r] = TRUE]
  /\ UNCHANGED <<status, records>>

(* doFilterInternal, when validation answered before a Mono was made. *)
Reject(r) ==
  /\ servlet[r] = "idle"
  /\ servlet' = [servlet EXCEPT ![r] = "over"]
  /\ status' = [status EXCEPT ![r] = 400]
  /\ LogCompletion(r, ErrorCodeFor(400))
  /\ UNCHANGED listener

(* The Mono gave a body or an error: the dispatch writes status s. *)
Answer(r, s) ==
  /\ servlet[r] = "await"
  /\ servlet' = [servlet EXCEPT ![r] = "closing"]
  /\ status' = [status EXCEPT ![r] = s]
  /\ UNCHANGED <<listener, records>>

StartAsyncAgain_Dropped(r) ==
  /\ servlet[r] = "await"
  /\ servlet' = [servlet EXCEPT ![r] = "relay"]
  /\ listener' = [listener EXCEPT ![r] = FALSE]
  /\ UNCHANGED <<status, records>>

(* The Mono gave a stream: the second cycle, to which onStartAsync takes    *)
(* the listener over.                                                       *)
StartAsyncAgain(r) ==
  /\ servlet[r] = "await"
  /\ servlet' = [servlet EXCEPT ![r] = "relay"]
  /\ listener' = [listener EXCEPT ![r] = listener[r]]
  /\ UNCHANGED <<status, records>>

(* The first cycle has the container's timeout, a stream has none.  The     *)
(* record is written before the dispatch that makes the answer a 503.       *)
OnTimeout(r) ==
  /\ servlet[r] = "await"
  /\ servlet' = [servlet EXCEPT ![r] = "closing"]
  /\ status' = [status EXCEPT ![r] = 503]
  /\ IF listener[r] THEN LogCompletion(r, "ASYNC_TIMEOUT")
                    ELSE UNCHANGED records
  /\ UNCHANGED listener

(* Writing to a client that is gone fails. *)
OnError(r) ==
  /\ servlet[r] = "relay"
  /\ servlet' = [servlet EXCEPT ![r] = "broken"]
  /\ IF listener[r] THEN LogCompletion(r, "ASYNC_ERROR")
                    ELSE UNCHANGED records
  /\ UNCHANGED <<status, listener>>

(* The Flux completed, or failed. *)
StreamEnds(r, state) ==
  /\ servlet[r] = "relay"
  /\ servlet' = [servlet EXCEPT ![r] = state]
  /\ UNCHANGED <<status, listener, records>>

OnComplete(r) ==
  /\ servlet[r] \in {"closing", "broken"}
  /\ servlet' = [servlet EXCEPT ![r] = "over"]
  /\ IF listener[r] THEN LogCompletion(r, ErrorCodeFor(status[r]))
                    ELSE UNCHANGED records
  /\ UNCHANGED <<status, listener>>

FilterTypeOK ==
  /\ servlet \in [Requests -> ServletStates]
  /\ status \in [Requests -> Statuses]
  /\ listener \in [Requests -> BOOLEAN]
  /\ records \in
       [Requests -> Seq({"NONE", "HTTP_ERROR", "ASYNC_TIMEOUT", "ASYNC_ERROR"})]

(* A request has one completion record when it is over, whichever of        *)
(* timeout, error and completion came first, and never two.                 *)
OneCompletionRecord ==
  \A r \in Requests : /\ Len(records[r]) <= 1
                      /\ servlet[r] = "over" => Len(records[r]) = 1
=============================================================================
