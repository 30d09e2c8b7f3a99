SPECIFICATION Spec
CONSTANTS
  A = A
  B = B
  C = C
  Crawler = {c1, c2, c3, c4, c5, c6}
  MaxLoad = 2
  Inputs <- MCInputs
  Shapes <- MCShapes
  SizeRange = 100
  MaxId = 8
  WordBits = 4
  AnyOrder = FALSE
  Context = {x1, x2}
  Session = {s1, s2, s3}
  TrailUrls <- MCTrailUrls
  Units <- MCUnits
  AgedUrls <- MCAgedUrls
  Epoch <- MCEpoch
  MaxLinks = 1
  MaxCrawls = 1
  NoNode = NoNode
  Null = Null
  Idle = Idle
CHECK_DEADLOCK FALSE
INVARIANTS
  TopLeastLoaded
  ReadsWhatWasWritten
  MeetsEachPart
  CreatesItsOwn
  SessionFindsContext
  DrawnAsWalked
  WeightsAddUp
PROPERTY PopTakesTop
