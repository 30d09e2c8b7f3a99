CONSTANTS
  small = small
  exact = exact
  large = large
  Message = {small, large}
  BodySize <- Bodies
  HeaderSize = 2
  BufferSize = 5
  Patient = FALSE
  WholeHeaders = TRUE
SPECIFICATION Spec
INVARIANT StreamIntact
CHECK_DEADLOCK FALSE
