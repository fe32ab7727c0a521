CONSTANTS
  Length = 3
  Shapes = "clean"
  LoopBound = 2
  MaxSlots = 2
  Types <- MCTypes
  Params <- MCParams
  Fns <- MCFns
  Sources <- MCSources
SPECIFICATION Spec
INVARIANTS NoUseAfterFree OwnersCovered NothingLeaks AddedNamesExist
