------------------------------ MODULE AgentApi ------------------------------
(***************************************************************************)
(* What the two services that serve the agent API have in common: the      *)
(* requests, known to both by one request id, the HTTP statuses, and the   *)
(* error code of a completion record, which is a function of the status.   *)
(***************************************************************************)
EXTENDS Integers, Sequences

CONSTANT Requests  \* the requests to the agent API, each with its request id

Statuses == {200, 201} \cup 400..599

(* errorCodeFor in Java, the same expression in Python. *)
ErrorCodeFor(s) == IF s >= 400 THEN "HTTP_ERROR" ELSE "NONE"
=============================================================================
