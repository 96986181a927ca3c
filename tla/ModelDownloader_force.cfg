SPECIFICATION Spec
CONSTANTS
  p1 = p1
  Processes = {p1}
  NumFiles = 3
  Commands = {"pull", "force"}
  MaxRetries = 3
INVARIANT ForcedPullRepairs
