SPECIFICATION ScanSpec
CONSTANTS
  PAGE_SIZE = 40
  record_size = 8
  Records = {a}
  NoRecord = NoRecord
  pool_size = 1
  MaxPages = 2
  MaxBelow = 1
INVARIANT ScanComplete
PROPERTIES NeverTwice ImplementsRecords
CHECK_DEADLOCK FALSE
