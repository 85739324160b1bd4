CONSTANTS
  Nodes = {n1, n2}
  Files = {f1}
  Times <- OneTime
  Workers = {w1}
  Fanout = 4
  InitKeys <- OwnKey
  AdminActions = {"add_node"}
  NoFile = NoFile
  MaxBlocks = 5
  MaxCrashes = 0
SYMMETRY SymmetricNodes
SPECIFICATION Spec
INVARIANT TypeOK
INVARIANT ServesAChain
INVARIANT PrefixAgreement
PROPERTY AppendOnly
CHECK_DEADLOCK FALSE
