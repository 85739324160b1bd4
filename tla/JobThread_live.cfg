CONSTANTS
  Handlers = {h1, h2}
  Jobs = {j1}
  Poison = {j1}
  Threads = {t1, t2}
  NoJob = NoJob
  MaxQueue = 1
SPECIFICATION FairSpec
PROPERTY Revives
CHECK_DEADLOCK FALSE
