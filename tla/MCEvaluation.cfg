SPECIFICATION Spec
CONSTANTS
  LiveCases <- MCLiveCases
  RunsPerCase = 3
  FailureCodes = {401, 429, 503, 504}
  MaxEvents = 4
  Policies <- MCPolicies
  Suites <- MCSuites
  Shipped <- MCShipped
  NoOrderId = "none"
  FixedFacts <- MCFixedFacts
  NoKnowledge <- MCNoKnowledge
  Questions <- MCQuestions
  Collection <- MCCollection
  RagTopK = 2
  Pipelines = 2
  Repetitions = 2
  Latencies = {1, 2}
  NoSection = "none"
INVARIANTS
  TypeOK
  GreenIsEarned
  OnlyWholeStreamsCount
  AbortStopsSuite
  ControlledCasesPass
  GateDecides
  GateForbids
  RanksAreSound
  ReportIsSound
CHECK_DEADLOCK FALSE
