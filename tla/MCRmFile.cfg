SPECIFICATION Spec
CONSTANTS
  PAGE_SIZE = 40
  record_size = 8
  Records = {a}
  NoRecord = NoRecord
  pool_size = 2
  MaxPages = 3
  MaxBelow = 1
INVARIANTS CountsMatchBitmap FreeListSound
CHECK_DEADLOCK FALSE
