SPECIFICATION FairSpec
CONSTANTS
  n1 = n1
  n2 = n2
  n3 = n3
  n4 = n4
  f1 = f1
  f2 = f2
  NpuRequests = {n1, n2, n3, n4}
  FreeRequests = {f1, f2}
  BadIdRequests = {n4, f2}
  SlowRequests = {n1, f1}
  IoThreads = 4
  MaxNpuQueue = 2
  NoRequest = NoRequest
INVARIANTS
  TypeOK ExclusiveOwner FlagTracksOwner QueueMatchesWaiters CooldownFindsWork
PROPERTIES NoOvertakingWhileBusy ImplementsLease EveryOwnerFinishes QueuedServedByAnswers
