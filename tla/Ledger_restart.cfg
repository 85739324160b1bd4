CONSTANTS
  Nodes = {n1, n2}
  Files = {f1}
  Times <- TwoTimes
  Workers = {w1}
  Fanout = 1
  InitKeys <- OneKey
  AdminActions = {"add_node", "remove_node"}
  NoFile = NoFile
  MaxBlocks = 4
  MaxCrashes = 1
SPECIFICATION Spec
INVARIANT RestartReplays
INVARIANT ChainInv
INVARIANT ChainWellFormed
PROPERTY ImplementsChainStore
INVARIANT SavedWhenSettled
INVARIANT ListedOrRefused
INVARIANT FilesFollowChain
CHECK_DEADLOCK FALSE
