--------------------------- MODULE RefundService ---------------------------
(***************************************************************************)
(* What the refund endpoint of the business service promises, without      *)
(* Redis, records or scripts: a request moves its order to REFUNDING at    *)
(* most once, in one step, and the reply it gets is true of the order.     *)
(* RefundIdempotency implements this specification.                        *)
(***************************************************************************)
EXTENDS OrderDomain

CONSTANTS
  NoInput,  \* the input of a request that has not been made
  NoReply   \* the reply of a request that has not been answered

VARIABLES
  status,    \* status[o]: the status column of order o
  input,     \* input[r]: what request r asks for
  executed,  \* executed[r]: the UPDATE of request r moved its order
  answer     \* answer[r]: the HTTP reply to request r

abstractVars == <<status, input, executed, answer>>

Submitted(r) == input[r] # NoInput
Scope(r) == <<input[r].principal, input[r].key>>

(***************************************************************************)
(* When reply a tells request r the truth.  It mentions only facts that    *)
(* stay true once they are, so a reply that is true stays true.            *)
(***************************************************************************)
Truthful(r, a) ==
  /\ a.code = "ACCEPTED" =>
       /\ a.body = [orderId |-> input[r].order, status |-> "REFUNDING"]
       /\ status[input[r].order] = "REFUNDING"
       /\ Owner[input[r].order] = input[r].principal
  /\ a.code = "ORDER_NOT_FOUND" => Owner[input[r].order] # input[r].principal
  /\ a.code = "REFUND_NOT_ALLOWED" =>
       /\ Owner[input[r].order] = input[r].principal
       /\ status[input[r].order] \notin RefundableStatuses
  /\ a.code = "IDEMPOTENCY_CONFLICT" =>
       \E q \in Requests : /\ Submitted(q)
                           /\ Scope(q) = Scope(r)
                           /\ input[q].order # input[r].order
  /\ a.code = "IDEMPOTENCY_IN_PROGRESS" =>
       \E q \in Requests \ {r} : /\ Submitted(q)
                                 /\ Scope(q) = Scope(r)
                                 /\ input[q].order = input[r].order
  /\ a.code = "IDEMPOTENCY_OUTCOME_UNKNOWN" => executed[r]
  /\ a.code \in Refusals => ~executed[r]

-----------------------------------------------------------------------------
Init ==
  /\ status \in [Orders -> InitialStatus]
  /\ input = [r \in Requests |-> NoInput]
  /\ executed = [r \in Requests |-> FALSE]
  /\ answer = [r \in Requests |-> NoReply]

Submit(r) ==
  /\ ~Submitted(r)
  /\ \E i \in Inputs : input' = [input EXCEPT ![r] = i]
  /\ UNCHANGED <<status, executed, answer>>

Refund(r) ==
  /\ Submitted(r) /\ answer[r] = NoReply /\ ~executed[r]
  /\ Owner[input[r].order] = input[r].principal
  /\ status[input[r].order] \in RefundableStatuses
  /\ status' = [status EXCEPT ![input[r].order] = "REFUNDING"]
  /\ executed' = [executed EXCEPT ![r] = TRUE]
  /\ UNCHANGED <<input, answer>>

Answer(r) ==
  /\ Submitted(r) /\ answer[r] = NoReply
  /\ \E a \in Replies : Truthful(r, a) /\ answer' = [answer EXCEPT ![r] = a]
  /\ UNCHANGED <<status, input, executed>>

(* A process that dies answers nothing to every request it was serving. *)
Abandon ==
  /\ \E S \in SUBSET {r \in Requests : Submitted(r) /\ answer[r] = NoReply} :
       answer' = [r \in Requests |->
                    IF r \in S THEN Failed("NO_ANSWER") ELSE answer[r]]
  /\ UNCHANGED <<status, input, executed>>

Next ==
  \/ \E r \in Requests : Submit(r) \/ Refund(r) \/ Answer(r)
  \/ Abandon

Spec == Init /\ [][Next]_abstractVars
=============================================================================
