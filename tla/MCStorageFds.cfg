CONSTANTS
  RecordFiles = {t, u}
  IndexFiles = {}
  MaxFd = 2
  MaxPage = 1
  MaxFiles = 2
  PoolSize = 2
SYMMETRY PathSymmetry
SPECIFICATION Spec
INVARIANTS TablesAgree ForeignPagesNeedReuse
