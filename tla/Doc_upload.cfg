CONSTANTS
  Nodes = {n1, n2}
  Files = {f1}
  Times <- OneTime
  Workers = {w1}
  Fanout = 4
  InitKeys <- NoKeys
  AdminActions = {"add_node"}
  NoFile = NoFile
  MaxBlocks = 4
  MaxCrashes = 0
SPECIFICATION Spec
INVARIANT FilesOnChain
CHECK_DEADLOCK FALSE
