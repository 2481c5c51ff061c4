SPECIFICATION FairSpec

CONSTANTS
  Requests = {r1, r2}
  Files = {f, g}
  Sizes = {1}
  MAX_SIZE = 1
  NULL = NULL

PROPERTIES
  EveryRequestAnswered
