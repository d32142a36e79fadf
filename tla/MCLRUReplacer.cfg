SPECIFICATION ReplacerSpec
CONSTANTS
  Frames = {f1, f2, f3, f4}
  max_size_ = 3
  INVALID_FRAME_ID = invalid
INVARIANT HashIndexesList
PROPERTY ImplementsOrder
