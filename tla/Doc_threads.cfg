CONSTANTS
  Nodes = {n1}
  Files = {f1, f2}
  Times <- OneTime
  Workers = {w1, w2}
  Fanout = 4
  InitKeys <- OwnKey
  AdminActions = {"add_node"}
  NoFile = NoFile
  MaxBlocks = 4
  MaxCrashes = 0
SYMMETRY SymmetricWorkers
SPECIFICATION Spec
INVARIANT ChainWellFormed
CHECK_DEADLOCK FALSE
