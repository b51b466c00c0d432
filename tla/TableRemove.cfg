SPECIFICATION HtSpec
CONSTANTS
  TableThreads = {t1, t2}
  Keys = {k1, k2}
  Removers = {t1}
  TableNodes = {a1, a2, a3}
  Null = null
INVARIANT HtKeepsKeys
CHECK_DEADLOCK FALSE
