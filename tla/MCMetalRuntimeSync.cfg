SPECIFICATION Spec
CONSTANTS
  h1 = h1
  h2 = h2
  h3 = h3
  b1 = b1
  b2 = b2
  b3 = b3
  b4 = b4
  Handles = {h1, h2}
  Buffers = {b1, b2, b3}
  NoBuffer = NoBuffer
  NoReply = NoReply
  Lens = {1}
  Value = {0, 1, 2, 3, 4}
  Zero = 0
  Data = {2}
  Compute <- MCCompute
  MaxArity = 1
  SyncDispatch = TRUE
  DeviceFaults = FALSE
  DefaultBudget = 6
  Budgets = {}
  MaxGen = 3
  MaxCommands = 2
  MaxRef = 1
SYMMETRY MCSymmetry
INVARIANTS SyncAttributes
