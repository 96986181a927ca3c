SPECIFICATION FairSpec
CONSTANTS
  n1 = n1
  n2 = n2
  NpuRequests = {n1, n2}
  FreeRequests = {}
  BadIdRequests = {}
  SlowRequests = {}
  IoThreads = 2
  MaxNpuQueue = 2
  NoRequest = NoRequest
PROPERTY QueuedIsProcessed
