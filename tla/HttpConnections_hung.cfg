SPECIFICATION FairSpec
CONSTANTS
  s1 = s1
  s2 = s2
  Sessions = {s1, s2}
  MaxConnections = 1
  Cors = TRUE
  IoThreads = 2
  Faults = {"late_error"}
PROPERTY EveryRequestEnds
