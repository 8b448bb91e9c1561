SPECIFICATION Spec
CONSTANTS
  Readers = {r1}
  Refunders = {w1}
  MaxRetries = 0
  NoEntry = NoEntry
INVARIANTS
  QueryAfterUnknownIsCurrent
