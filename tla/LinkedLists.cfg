SPECIFICATION Spec
CONSTANT N = 4
INVARIANTS
  NothingDangles
  BackwardsAgrees
PROPERTY
  ImplementsQueues
