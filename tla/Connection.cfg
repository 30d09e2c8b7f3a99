CONSTANTS
  Crawler = {c1, c2}
  Addresses = 2
  SchedThreads = 1
  CrawlThreads = 2
  Batches = {0, 1}
  MaxBegins = 2
  Conduct = {"unresolved", "refused", "exhausted", "leave"}
SPECIFICATION Spec
CHECK_DEADLOCK FALSE
INVARIANTS DialogHolds IdleLeaveIsHarmless
PROPERTIES EveryoneRegisters GoneIsNoticed
