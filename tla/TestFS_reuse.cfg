SPECIFICATION Spec
CONSTANTS
  Short1 = Short1
  Short2 = Short2
  Long = Long
  BLOCK_SIZE = 3
  NR_DIRECT_BLOCKS = 1
  NrInodes = 3
  InodeBits = 4
  BlockBits = 4
  Names = {Short1, Short2, Long}
  NameLen <- MCNameLen
  FileSystems = {3}
  Offsets = {0, 3, 6}
  Data <- MCData
  MaxCrashes <- MCMaxCrashes
  MaxLeaks = 1
INVARIANT
  CreatesEmptyFile
