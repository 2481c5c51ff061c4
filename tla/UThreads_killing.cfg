SPECIFICATION Spec

CONSTANTS
  MaxThreads = 3
  Queues = {}
  Locks = {l1}
  CVs = {c1}
  Uses <- Killing
  NULL = NULL

INVARIANTS
  QueuedAtMostOnce
  OneRunning
  FreeIdsUnused
  KilledDoesNotRun
  ResumeDoesNotSwitch
  MutualExclusion
  NoSleeperOnFreeLock
  LiveStackAllocated
