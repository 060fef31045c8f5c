SPECIFICATION Spec
CONSTANTS
  p1 = p1
  p2 = p2
  cp = cp
  NBuffers = 2
  Pages <- MCPages
  Backends = {p1, p2}
  Checkpointer = cp
  Partition <- MCPartition
  BM_MAX_USAGE_COUNT = 1
  Workloads <- MCWorkloads
  NoProc = NoProc
  NoPage = NoPage
  NoBuffer = NoBuffer
  Garbage = Garbage
INVARIANTS MappingSound HeldPageStays IoHasOwner CrashSafe CleanupAlone CleanupWakeup DroppedStaysGone NoDeadlock
PROPERTY Transparent
