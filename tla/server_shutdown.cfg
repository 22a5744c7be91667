CONSTANTS
  Clients = {c1, c2}
  Workers = 2
  HostRefs = 1
  MaxErrors = 0
SPECIFICATION FairSpec
PROPERTIES
  ShutdownNoticed
CHECK_DEADLOCK FALSE
