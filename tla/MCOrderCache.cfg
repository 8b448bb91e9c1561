SPECIFICATION FairSpec
CONSTANTS
  Readers = {r1, r2}
  Refunders = {w1}
  MaxRetries = 1
  NoEntry = NoEntry
INVARIANTS
  TypeOK
  RefundShownIsReal
  StaleEntryHasCause
PROPERTIES
  EventuallyCurrent
