---------------------------- MODULE OrderDomain ----------------------------
(***************************************************************************)
(* The order domain of the business service: the states of an order, the   *)
(* rule that says which of them may be refunded, the requests for a refund *)
(* and the replies to them.  Every other module of the refund path builds  *)
(* on these definitions.                                                   *)
(***************************************************************************)

CONSTANTS
  Orders,        \* rows of customer_orders, one per (tenant_id, order_id)
  Principals,    \* (tenant, user) pairs, as the trusted headers name them
  Owner,         \* Owner[o]: the principal whose tenant and user own row o
  IdemKeys,      \* values of the Idempotency-Key header
  Requests,      \* the calls of the refund endpoint that are ever made
  InitialStatus, \* the statuses an order may have before any refund
  NoResponse     \* the null OrderResponse

OrderStatus == {"PENDING_PAYMENT", "PAID", "SHIPPED", "COMPLETED",
                "CANCELLED", "REFUNDING", "REFUNDED"}

RefundableStatuses == {"SHIPPED", "COMPLETED"}

(* What a reply tells of an order: its number and its status.  The product, *)
(* the amount and the two flags computed from the status are left out.      *)
OrderResponses == [orderId : Orders, status : OrderStatus]

Inputs == [principal : Principals, order : Orders, key : IdemKeys]

(* The Redis key of a refund: principal and Idempotency-Key, not the order. *)
Scopes == Principals \X IdemKeys

ASSUME OwnerAssumption == Owner \in [Orders -> Principals]
ASSUME StatusAssumption == InitialStatus \subseteq OrderStatus
ASSUME NoResponseAssumption == NoResponse \notin OrderResponses

-----------------------------------------------------------------------------
(* Errors that leave the order untouched by the request that gets them. *)
Refusals == {"ORDER_NOT_FOUND", "REFUND_NOT_ALLOWED", "IDEMPOTENCY_CONFLICT",
             "IDEMPOTENCY_IN_PROGRESS", "IDEMPOTENCY_UNAVAILABLE"}

ErrorCodes == Refusals \cup
  {"IDEMPOTENCY_OUTCOME_UNKNOWN", \* 504: executed, the record not confirmed
   "INTERNAL_ERROR",              \* 500: the database failed
   "NO_ANSWER"}                   \* the process died, the connection dropped

Replies == [code : {"ACCEPTED"}, body : OrderResponses]
             \cup [code : ErrorCodes, body : {NoResponse}]

Accepted(response) == [code |-> "ACCEPTED", body |-> response]
Failed(code) == [code |-> code, body |-> NoResponse]
=============================================================================
