SPECIFICATION Spec
SYMMETRY Symmetry
CONSTANTS
  Short1 = Short1
  Short2 = Short2
  Long = Long
  BLOCK_SIZE = 3
  NR_DIRECT_BLOCKS = 1
  NrInodes = 3
  InodeBits = 4
  BlockBits = 4
  Names = {Short1, Short2, Long}
  NameLen <- MCNameLen
  FileSystems = {3, 4}
  Offsets = {0, 3, 9, 12}
  Data <- MCData
  MaxCrashes <- MCMaxCrashes
  MaxLeaks = 1
INVARIANT
  BlocksOwnedOnce
  NothingLeaks
  TreeShaped
  CacheCoherent
  AllocationAssertionsHold
  FailedCommandUndone
  CommandsReleaseInodes
PROPERTY
  ImplementsFileTree
