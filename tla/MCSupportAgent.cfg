SPECIFICATION Spec
CONSTANTS
  c1 = c1
  c2 = c2
  c3 = c3
  d1 = d1
  d2 = d2
  o1 = o1
  o2 = o2
  o3 = o3
  ChatCalls = {c1, c2}
  ResumeCalls = {d1, d2}
  Orders = {o1, o2, o3}
  OwnedOrders = {o1, o2}
  Refundable = {o1}
  Keys = {"k1"}
  HistoryTurns = 1
  NoOrder = NoOrder
  NoCall = NoCall
  Analyses <- TwoRefunds
SYMMETRY Symmetry
CONSTRAINT NoLossInOverlap
CHECK_DEADLOCK FALSE
INVARIANTS
  EveryRefundWasApproved
  SubmittedReplyIsTrue
  ShownApprovalWaits
  OneRequestPerApproval
  
