SPECIFICATION Spec
CONSTANTS
  alice = alice
  bob = bob
  o1 = o1
  o2 = o2
  Orders = {o1, o2}
  Principals = {alice, bob}
  Owner <- TwoOwners
  IdemKeys = {k1}
  Requests = {r1, r2, r3}
  InitialStatus = {"SHIPPED", "PAID"}
  NoResponse = NoResponse
  NoInput = NoInput
  NoReply = NoReply
  NoRecord = NoRecord
SYMMETRY RequestSymmetry
INVARIANTS
  TypeOK
  RepliesAreTruthful
  RefundAppliedOnce
  CompletedRecordIsTrue
  ProcessingIsHeld
PROPERTIES
  SavedResultOnlyExpires
CHECK_DEADLOCK FALSE
