SPECIFICATION Spec
CONSTANTS
  Memory = {m1, m2, m3}
  BlockSize = 8
  PageSize = 40
  MinBlocks = 3
  MaxBlocks = 4
  ByteRange = 5
  Junk = Junk
SYMMETRY Areas
INVARIANTS FreeLists Bookkeeping
PROPERTY Implements
