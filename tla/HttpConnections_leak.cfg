SPECIFICATION Spec
CONSTANTS
  s1 = s1
  s2 = s2
  Sessions = {s1, s2}
  MaxConnections = 1
  Cors = TRUE
  IoThreads = 2
  Faults = {"chunk_write"}
SYMMETRY SessionSymmetry
PROPERTY RefusedOnlyAtLimit
