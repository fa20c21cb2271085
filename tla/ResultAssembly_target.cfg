SPECIFICATION Spec
CONSTANTS
  i1 = i1
  i2 = i2
  m1 = m1
  m2 = m2
  None = None
  Inputs = {i1, i2}
  Manifests = {m1, m2}
  NParts = 2
  Procs = {p1, p2}
  SourceOf <- MCSource
  Worlds <- MCWorlds
  World <- MCWorld
  Attempts = {1, 2}
  Builds <- MCBuilds
  Gated <- MCGated
  Chunks <- MCChunks
  Times = {1, 2}
  Operations <- MCOperations
  MaxOperations = 3
  MaxMishaps = 1
SYMMETRY Symmetry
INVARIANTS
  CompleteIsWhole
  CheckpointGoverns
  ReceiptNamesRows
  RowsHold
CHECK_DEADLOCK FALSE
