SPECIFICATION Spec
CONSTANTS
  Tenants = {a, b}
  Documents = {d, e}
  MaxVersion = 2
  Size <- MCSize
  BatchSize = 1
  Jobs = {j1, j2}
  CandidateK = 2
  TopK = 1
  Scores = {0, 1}
  MaxPublished = 1
SYMMETRY Symmetry
INVARIANTS
  TypeOK
  IndexIsLastReplacement
  AnswerIsBestOfTenant
PROPERTIES
  ReindexIsExact
