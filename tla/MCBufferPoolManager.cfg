SPECIFICATION Spec
CONSTANTS
  Frames <- TwoFrames
  max_size_ = 2
  INVALID_FRAME_ID <- NoPageId
  INVALID_PAGE_ID <- NoPageId
  Threads = {t1, t2}
  Fds = {fd1}
  MaxPages = 3
  Data = {d1}
  Zero = zero
  EOF = eof
  OldPages = 1
  IOErrors = {"evict", "flush"}
INVARIANTS PageTableConsistent FramesApart PinsCounted PointersStay CleanMeansOnDisk
PROPERTY ImplementsPageStore
