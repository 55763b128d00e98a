CONSTANTS
  NDIRECT = 1
  NINDIRECT = 2
  BSIZE = 2
  UINT_BITS = 4
  NBLOCK = 11
  Inums = {1, 2}
  Vals = {1, 2}
  Calls <- MCCalls
  MaxCalls = 3
  RecycleReleased = TRUE

SPECIFICATION Spec

INVARIANT
  WrittenReadsBack
