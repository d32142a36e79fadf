---------------------------- MODULE MCLRUReplacer ----------------------------
(* LRUReplacer with more frames than capacity, so that unpins are refused.  *)
EXTENDS LRUReplacer
==============================================================================
