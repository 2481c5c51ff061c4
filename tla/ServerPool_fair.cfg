SPECIFICATION FairSpec

CONSTANTS
  MaxThreads = 3
  MaxQueue = 2
  MaxConns = 4

INVARIANTS
  TypeOK
  EachInOnePlace
  InArrivalOrder
  NoWorkIgnored
  MainWaitsForRoom
  ExitJoinsAll

PROPERTIES
  AcceptedServed
