------------------------- MODULE MCBufferPoolManager -------------------------
(* Small pools for TLC.  The frames are integers, so only the threads and    *)
(* the contents are interchangeable.                                         *)
EXTENDS BufferPoolManager

TwoFrames == 0..1
NoPageId == -1
==============================================================================
