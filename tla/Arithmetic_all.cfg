SPECIFICATION Spec
CONSTANTS
  WI = 6
  WF = 12
  EF = 5
  WD = 10
  ED = 4
  Ends <- MCEnds
  QuadEnds <- MCQuadEnds
  Counts <- MCCounts
  Floats <- MCFloats
  FloatDoubles <- MCFloatDoubles
  Gap = 13
INVARIANTS TypeOK FixedRight ShiftRight FloatRight DoubleRight
CHECK_DEADLOCK FALSE
