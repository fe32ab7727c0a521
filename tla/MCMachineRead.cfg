CONSTANTS
  Length = 3
  Shapes = "reads"
  LoopBound = 2
  MaxSlots = 2
  Types <- MCTypes
  Params <- MCParams
  Fns <- MCFns
  Sources <- MCSources
SPECIFICATION Spec
INVARIANTS NoUseAfterFree
