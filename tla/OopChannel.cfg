CONSTANTS
  small = small
  exact = exact
  large = large
  Message = {small, exact, large}
  BodySize <- Bodies
  HeaderSize = 2
  BufferSize = 5
  Patient = TRUE
  WholeHeaders = FALSE
SPECIFICATION FairSpec
INVARIANT StreamIntact
INVARIANT FreedWhenSent
PROPERTY FaultsKnown
PROPERTY InOrder
PROPERTY Delivered
CHECK_DEADLOCK FALSE
