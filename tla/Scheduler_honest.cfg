CONSTANTS
  Label <- MCLabel
  Url <- LeafUrls
  Seeds <- LeafUrls
  Linked = {}
  Id <- LeafUrls
  PageId <- Distinct
  c1 = c1
  c2 = c2
  Crawler = {c1, c2}
  Cores <- OneCore
  UnitPerCore = 1
  UnitRange = 8
  TallyRange = 2
  Connected <- TwoCrawlers
  Peer = {}
  MaxUpdates = 3
  MaxQueued = 2
  NoNode = NoNode
  NoCrawler = NoCrawler
SPECIFICATION FairSpec
INVARIANT NoFault
INVARIANT RedMeansVisited
INVARIANT AllBusyOrDone
INVARIANT NothingUnsent
INVARIANT Ledger
PROPERTY RunEnds
PROPERTY WorkReleased
