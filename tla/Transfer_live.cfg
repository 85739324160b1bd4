CONSTANTS
  n1 = n1
  n2 = n2
  n3 = n3
  Nodes = {n1, n2, n3}
  Origin = n1
  Knows <- Fork
  Fanout = 4
  Size = 3
  ChunkSize = 2
  InitListed = {n1, n2, n3}
  None = None
  Missing = Missing
  MaxFaults = 1
  MaxLost = 0
  MaxTorn = 0
  MaxInvites = 0
  MaxCrashes <- NoCrash
SPECIFICATION FairSpec
INVARIANT TypeOK
INVARIANT FilesAreExact
PROPERTY ImplementsSpreading
PROPERTY CompletesOrStalls
CHECK_DEADLOCK FALSE
