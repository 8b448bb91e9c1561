SPECIFICATION FairSpec
CONSTANTS
  alice = alice
  bob = bob
  o1 = o1
  o2 = o2
  Orders = {o1, o2}
  Principals = {alice, bob}
  Owner <- TwoOwners
  IdemKeys = {k1, k2}
  Requests = {r1, r2}
  InitialStatus = {"SHIPPED"}
  NoResponse = NoResponse
  NoInput = NoInput
  NoReply = NoReply
  NoRecord = NoRecord
PROPERTIES
  KeyIsFreed
  ImplementsRefundService
CHECK_DEADLOCK FALSE
