SPECIFICATION FairSpec

CONSTANTS
  MaxThreads = 2
  MaxQueue = 2
  MaxConns = 1

PROPERTIES
  ExitCompletes
