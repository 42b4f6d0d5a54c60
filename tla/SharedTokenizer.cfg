SPECIFICATION Spec
CONSTANTS
  Workers = {w1, w2}
  Requests <- TwoTypes
  HeaderLimit = 4
  BodyLimit = 9
  MaxConnections = 2
  Faults = {}
INVARIANT
  AnswerMatchesRequest
