SPECIFICATION FairSpec
CONSTANTS
  s1 = s1
  s2 = s2
  s3 = s3
  Sessions = {s1, s2, s3}
  MaxConnections = 2
  Cors = TRUE
  IoThreads = 3
  Faults = {"chunk_write", "options_write", "late_error", "bad_id", "accept_throws", "stall"}
INVARIANTS TypeOK NeverUndercounts OpenWithinLimit
PROPERTIES CounterFollowsSessions EveryRequestSettles
CHECK_DEADLOCK FALSE
