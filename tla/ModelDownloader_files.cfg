SPECIFICATION FairSpec
CONSTANTS
  p1 = p1
  p2 = p2
  Processes = {p1, p2}
  NumFiles = 2
  Commands = {"pull", "force", "check", "ensure", "remove"}
  MaxRetries = 2
INVARIANTS TypeOK UndisturbedPullCompletes SuccessMeansPresent
PROPERTIES AloneNeverDestroys EveryCommandEnds
