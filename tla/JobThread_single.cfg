CONSTANTS
  Handlers = {h1}
  Jobs = {j1, j2}
  Poison = {j2}
  Threads = {t1, t2}
  NoJob = NoJob
  MaxQueue = 2
SYMMETRY SymmetricThreads
SPECIFICATION Spec
INVARIANT TypeOK
INVARIANT OneThread
INVARIANT NeverClash
CHECK_DEADLOCK FALSE
