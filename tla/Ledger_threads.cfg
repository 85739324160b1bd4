CONSTANTS
  Nodes = {n1, n2}
  Files = {f1}
  Times <- OneTime
  Workers = {w1, w2}
  Fanout = 4
  InitKeys <- NoKeys
  AdminActions = {"add_node", "remove_file"}
  NoFile = NoFile
  MaxBlocks = 3
  MaxCrashes = 2
SPECIFICATION FairSpec
INVARIANT KeysHeld
PROPERTY HandlersFinish
 
CHECK_DEADLOCK FALSE
