------------------------ MODULE MCRefundIdempotency ------------------------
(* Small instances of RefundIdempotency for TLC. *)
EXTENDS RefundIdempotency, TLC

CONSTANTS alice, bob, o1, o2

(* o1 belongs to alice; o2 to alice or bob, as the run chooses. *)
OneOwner == o1 :> alice @@ o2 :> alice
TwoOwners == o1 :> alice @@ o2 :> bob

RequestSymmetry == Permutations(Requests)
=============================================================================
