SPECIFICATION FairSpec

CONSTANTS
  MaxThreads = 3
  Queues = {q1}
  Locks = {l1}
  CVs = {c1}
  Uses <- Blocking
  NULL = NULL

INVARIANTS
  TypeOK
  NoThreadLost
  NoIdLeaked
  YieldCanSwitch
  WaitersHaveTarget
  SpinsOnlyBehindSleeper
  CvWaiterListed

PROPERTIES
  PoppedRuns
  ReadyRuns
