SPECIFICATION Spec

CONSTANTS
  Requests = {r1, r2, r3}
  Files = {f, g, h}
  Sizes = {0, 1, 2, 3}
  MAX_SIZE = 2
  NULL = NULL

SYMMETRY Symmetry

INVARIANTS
  TypeOK
  SizeAccounted
  LRUMatchesCache
  CachedNotFreed
  FlightsMatch
