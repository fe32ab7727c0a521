SPECIFICATION FairSpec
CONSTANTS
  Types <- MCTypes
  Orders <- MCOrders
  Params <- MCParams
  Bodies <- MCBodies
  Shapes = "followed"
  LoopBound = 2
  CallBound = 3
INVARIANTS NothingMissed Settled
PROPERTIES Terminates
