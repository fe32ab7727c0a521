SPECIFICATION Spec
CONSTANTS
  h1 = h1
  h2 = h2
  h3 = h3
  b1 = b1
  b2 = b2
  b3 = b3
  b4 = b4
  Handles = {h1, h2, h3}
  Buffers = {b1, b2, b3}
  NoBuffer = NoBuffer
  NoReply = NoReply
  Lens = {0, 1}
  Value = {0}
  Zero = 0
  Data = {0}
  Compute <- FlatCompute
  MaxArity = 2
  SyncDispatch = FALSE
  DeviceFaults = TRUE
  DefaultBudget = 6
  Budgets = {}
  MaxGen = 2
  MaxCommands = 2
  MaxRef = 2
SYMMETRY MCSymmetry
INVARIANTS TypeOK NoRecycleInFlight PendingExact BufferExclusive LedgerExact PeakCoversDevice NoSelfDeadlock
