SPECIFICATION FairSpec
CONSTANTS
  Threads = {t1, t2, t3, t4}
  MAX_READERS = 4
INVARIANTS MutualExclusion NoLostWakeup
PROPERTIES DrainEnds NobodyForgotten
