SPECIFICATION RingSpec
CONSTANTS
  Writers = {w1, w2}
  Readers = {r1, r2}
  Capacity = 3
  Items = 1
  Blank = blank
INVARIANT EachOnce
