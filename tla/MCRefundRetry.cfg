SPECIFICATION Spec
CONSTANTS
  alice = alice
  bob = bob
  o1 = o1
  o2 = o2
  Orders = {o1, o2}
  Principals = {alice}
  Owner <- OneOwner
  IdemKeys = {k1}
  Requests = {r1, r2}
  InitialStatus = {"SHIPPED"}
  NoResponse = NoResponse
  NoInput = NoInput
  NoReply = NoReply
  NoRecord = NoRecord
INVARIANTS
  RetryGetsSavedResult
CHECK_DEADLOCK FALSE
