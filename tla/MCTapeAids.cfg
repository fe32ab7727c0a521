SPECIFICATION Spec
CONSTANTS
  Handles = {1, 2, 3, 4, 5, 6, 7, 8}
  NewAt <- LowestFree
  Ops = {"unary", "layernorm", "cross_entropy", "embedding"}
  Modulus = 1
  MaxAlloc = 2
  MaxLive = 3
  MaxNodes = 1
  MaxExtra = 1
  MaxLeaves = 1
  MaxDepth = 2
  MaxAbandoned = 1
INVARIANTS RefsExact
