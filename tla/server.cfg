CONSTANTS
  Clients = {c1, c2, c3}
  Workers = 2
  HostRefs = 1
  MaxErrors = 1
SPECIFICATION FairSpec
INVARIANTS
  NoClientCutOff
  ContextOutlivesSessions
PROPERTIES
  ObjectAgrees
  RequestAnswered
  LeavingSessionEnds
CHECK_DEADLOCK FALSE
