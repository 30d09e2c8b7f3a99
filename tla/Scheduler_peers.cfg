CONSTANTS
  Label <- MCLabel
  Url <- NestedUrls
  Seeds <- FrontPage
  Linked <- DeepPage
  Id <- NestedUrls
  PageId <- Distinct
  c1 = c1
  c2 = c2
  Crawler = {c1, c2}
  Cores <- UnlikeCores
  UnitPerCore = 1
  UnitRange = 8
  TallyRange = 3
  Connected <- OneCrawler
  Peer = {"leave","return","recrawl","ahead"}
  MaxUpdates = 1
  MaxQueued = 3
  NoNode = NoNode
  NoCrawler = NoCrawler
SPECIFICATION Spec
CHECK_DEADLOCK FALSE
INVARIANT TypeOK
INVARIANT UnitsMatch
INVARIANT WithinCapacity
INVARIANT TableFindsPage
INVARIANT OneBeginEach
INVARIANT QueuedOnce
PROPERTY ImplementsAllocation
