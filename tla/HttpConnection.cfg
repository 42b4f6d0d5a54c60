SPECIFICATION FairSpec
CONSTANTS
  Workers = {w1}
  Requests <- AllRequests
  HeaderLimit = 4
  BodyLimit = 9
  MaxConnections = 1
  Faults = {"oom"}
INVARIANTS
  TypeOK
  AnswerMatchesRequest
  ExecutesOnlyAccepted
  AnsweredWhole
PROPERTY
  ConnectionEnds
