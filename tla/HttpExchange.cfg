SPECIFICATION Spec
CONSTANTS
  missing = missing
  small = small
  large = large
  Resource <- Pages
  BodySize <- Bodies
  BufferSize = 18
  Outstanding = 2
  WholeWrites = TRUE
  WholeHeaders = TRUE
CHECK_DEADLOCK FALSE
INVARIANT BodyIsItsOwn
PROPERTY EveryRequestAnswered
