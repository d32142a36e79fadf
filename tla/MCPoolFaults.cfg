SPECIFICATION Spec
CONSTANTS
  Frames <- TwoFrames
  max_size_ = 2
  INVALID_FRAME_ID <- NoPageId
  INVALID_PAGE_ID <- NoPageId
  Threads = {t1, t2}
  Fds = {fd1}
  MaxPages = 2
  Data = {d1}
  Zero = zero
  EOF = eof
  OldPages = 1
  IOErrors = {"read", "evict", "flush", "delete"}
INVARIANTS FramesApart
