CONSTANTS
  n1 = n1
  n2 = n2
  n3 = n3
  Nodes = {n1, n2, n3}
  Origin = n1
  Knows <- Line
  Fanout = 4
  Size = 4
  ChunkSize = 2
  InitListed = {n1}
  None = None
  Missing = Missing
  MaxFaults = 0
  MaxLost = 1
  MaxTorn = 1
  MaxInvites = 1
  MaxCrashes <- CrashInTheMiddle
SPECIFICATION Spec
INVARIANT CheckedWhenComplete
INVARIANT SavedAreThere
INVARIANT OriginKeeps
PROPERTY CountsGrow
CHECK_DEADLOCK FALSE
