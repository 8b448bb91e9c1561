SPECIFICATION FairSpec
CONSTANTS
  Users = {u1, u2}
  Requests = {r1}
  Threads = {t1}
  NoOwner = NoOwner
  Limit = 1
  Window = 3
  MaxTokens = 1
  MaxOthers = 2
INVARIANTS
  TypeOK
  AdmissionsBounded
  StatusTellsFate
  StreamTellsTruth
  OneCompletionRecord
PROPERTIES
  EveryRequestIsRecorded
  RefusedUserIsFreed
