CONSTANTS
  n1 = n1
  n2 = n2
  n3 = n3
  Nodes = {n1, n2}
  Origin = n1
  Knows <- Everybody
  Fanout = 4
  Size = 4
  ChunkSize = 2
  InitListed = {n1, n2}
  None = None
  Missing = Missing
  MaxFaults = 0
  MaxLost = 0
  MaxTorn = 0
  MaxInvites = 0
  MaxCrashes <- NoCrash
SPECIFICATION FairSpec
PROPERTY FileArrives
CHECK_DEADLOCK FALSE
