SPECIFICATION Spec
CONSTANTS
  c1 = c1
  c2 = c2
  c3 = c3
  d1 = d1
  d2 = d2
  o1 = o1
  o2 = o2
  o3 = o3
  ChatCalls = {c1, c2, c3}
  ResumeCalls = {d1}
  Orders = {o1, o2, o3}
  OwnedOrders = {o1, o2}
  Refundable = {o1}
  Keys = {"k1"}
  HistoryTurns = 2
  NoOrder = NoOrder
  NoCall = NoCall
  Analyses <- MCAnalyses
SYMMETRY Symmetry
CONSTRAINT OneAtATime
CHECK_DEADLOCK FALSE
INVARIANTS
  TypeOK
  ActiveOrderWasFound
  HistoryIsRecentTurns
