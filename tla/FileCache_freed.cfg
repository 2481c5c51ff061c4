SPECIFICATION Spec

CONSTANTS
  Requests = {r1, r2, r3}
  Files = {f, g}
  Sizes = {1}
  MAX_SIZE = 1
  NULL = NULL

INVARIANTS
  NoUseAfterFree
