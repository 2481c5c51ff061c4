SPECIFICATION Spec

CONSTANTS
  MaxThreads = 3
  Queues = {q1}
  Locks = {l1}
  CVs = {c1}
  Uses = {"kill"}
  NULL = NULL

INVARIANTS
  NoThreadLost
