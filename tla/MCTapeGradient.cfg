SPECIFICATION FairSpec
CONSTANTS
  Handles = {1, 2, 3, 4, 5, 6, 7, 8, 9}
  NewAt <- LowestFree
  Ops = {"binop"}
  Modulus = 3
  MaxAlloc = 1
  MaxLive = 3
  MaxNodes = 2
  MaxExtra = 1
  MaxLeaves = 1
  MaxDepth = 0
  MaxAbandoned = 0
PROPERTIES GradientConserved BackwardReturns
