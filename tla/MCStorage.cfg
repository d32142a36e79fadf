CONSTANTS
  RecordFiles = {t}
  IndexFiles = {x}
  MaxFd = 1
  MaxPage = 2
  MaxFiles = 2
  PoolSize = 2
SPECIFICATION Spec
INVARIANTS  HeaderCovered
