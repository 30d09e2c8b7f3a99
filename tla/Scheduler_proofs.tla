--------------------------- MODULE Scheduler_proofs ---------------------------
(***************************************************************************)
(* Theorems about Scheduler, for every set of URLs and crawlers.           *)
(*                                                                         *)
(* Whatever the crawlers at the other end do: the types, the work units    *)
(* and their sizes; that the scheduler implements CrawlAllocation; that    *)
(* each crawler given pages is sent one BEGIN_CRAWL, with a full unit      *)
(* unless the whole tree is visited, and no page is left out; that each    *)
(* that registered is queued, and unless a name registers twice once, the  *)
(* one a run fills at the top.  IInv is inductive: beside the types it     *)
(* says which of run's locals are set where, and that a crawler about to   *)
(* be given a page has room for it.                                        *)
(*                                                                         *)
(* To crawlers that keep their side (no connection drops, no name          *)
(* registers twice, no assignment is reported twice): no assertion fails   *)
(* and no assigned page is lost sight of but for the reports that clear()  *)
(* throws away, provided that page ids do not collide.                     *)
(***************************************************************************)
EXTENDS Scheduler, Lemmas

\* run's locals at each point of it.
Shape ==
  /\ pc \in {"top", "room", "select", "rank"} => crawler \in Crawler /\ queue # << >>
  /\ pc \in {"room", "select"} => cursor \in Node
  /\ pc = "begin" => turns = Len(deferred)

\* fill_crawler goes on selecting only while the crawler is not full.
RoomWhileSelecting == pc = "select" => ~Full(crawler)

IInv == TypeOK /\ Shape /\ RoomWhileSelecting /\ UnitsMatch /\ WithinCapacity

-------------------------------------------------------------------------------
\* Every URL is a node and not the root.
LEMMA UrlsAreNodes == Url \subseteq Node \ {Root}
<1> SUFFICES ASSUME NEW u \in Url PROVE u \in Node /\ u # Root
  OBVIOUS
<1>1. u \in Seq(Label) /\ u # Root
  BY UrlAssumption
<1>2. SubSeq(u, 1, Len(u)) = u
  BY <1>1
<1>3. Len(u) \in 0..Len(u)
  BY <1>1
<1>4. u \in PathTo(u)
  BY <1>2, <1>3 DEF PathTo
<1> QED
  BY <1>1, <1>4 DEF Node

\* The parent of a node other than the root is a node.
LEMMA ParentIsNode ==
  ASSUME NEW n \in Node, n # Root
  PROVE  ParentOf(n) \in Node
<1>1. PICK u \in Url : n \in PathTo(u)
  BY DEF Node
<1>2. u \in Seq(Label)
  BY UrlAssumption
<1>3. PICK k \in 0..Len(u) : n = SubSeq(u, 1, k)
  BY <1>1 DEF PathTo
<1>4. k # 0
  BY <1>2, <1>3 DEF Root
<1>5. Len(n) = k
  BY <1>2, <1>3, <1>4
<1>6. SubSeq(n, 1, k - 1) = SubSeq(u, 1, k - 1)
  BY <1>2, <1>3, <1>4
<1>7. k - 1 \in 0..Len(u)
  BY <1>2, <1>4
<1>8. SubSeq(n, 1, k - 1) \in PathTo(u)
  BY <1>6, <1>7 DEF PathTo
<1> QED
  BY <1>5, <1>8 DEF ParentOf, Node

\* Tallies wrap around within their range.
LEMMA TallyWraps == ASSUME NEW t \in Int PROVE t % TallyRange \in 0..TallyRange - 1
<1>1. TallyRange \in Nat /\ TallyRange > 0
  BY CrawlerAssumption
<1> QED
  BY <1>1

\* Units are natural numbers.
LEMMA UnitIsNat == ASSUME NEW c \in Crawler PROVE MaxUnit(c) \in Nat
<1>1. UnitRange \in Nat /\ UnitRange > 0 /\ UnitPerCore \in Nat /\ Cores[c] \in Nat
  BY CrawlerAssumption
<1>2. UnitPerCore * Cores[c] \in Int
  BY <1>1
<1> HIDE <1>2
<1>3. ASSUME NEW x \in Int PROVE x % UnitRange \in Nat
  BY <1>1
<1> QED
  BY <1>2, <1>3 DEF MaxUnit

\* A unit is a unit_t.
LEMMA UnitInRange ==
  ASSUME NEW c \in Crawler
  PROVE  MaxUnit(c) \in Nat /\ MaxUnit(c) < UnitRange /\ UnitRange \in Nat
<1>1. UnitRange \in Nat /\ UnitRange > 0 /\ UnitPerCore \in Nat /\ Cores[c] \in Nat
  BY CrawlerAssumption
<1>2. UnitPerCore * Cores[c] \in Int
  BY <1>1
<1>3. ASSUME NEW x \in Int PROVE x % UnitRange < UnitRange
  BY <1>1
<1>4. (UnitPerCore * Cores[c]) % UnitRange < UnitRange
  BY <1>2, <1>3
<1> QED
  BY <1>1, <1>4, UnitIsNat DEF MaxUnit

\* Work units are finite, and grow by at most one page at a time.
LEMMA UnitSize ==
  ASSUME NEW unit \in SUBSET Url, NEW u \in Url
  PROVE  /\ IsFiniteSet(unit) /\ Cardinality(unit) \in Nat
         /\ Cardinality(unit \cup {u}) <= Cardinality(unit) + 1
         /\ Cardinality(unit \ {u}) <= Cardinality(unit)
         /\ Cardinality(unit \ {u}) \in Nat
<1>1. IsFiniteSet(unit)
  BY UrlAssumption, FS_Subset
<1>2. Cardinality(unit) \in Nat
  BY <1>1, FS_CardinalityType
<1>3. Cardinality(unit \cup {u}) = IF u \in unit THEN Cardinality(unit) ELSE Cardinality(unit) + 1
  BY <1>1, FS_AddElement
<1>4. Cardinality(unit \ {u}) = IF u \in unit THEN Cardinality(unit) - 1 ELSE Cardinality(unit)
  BY <1>1, FS_RemoveElement
<1>5. Cardinality(unit \ {u}) \in Nat
  BY <1>1, FS_RemoveElement, FS_CardinalityType
<1> QED
  BY <1>1, <1>2, <1>3, <1>4, <1>5

-------------------------------------------------------------------------------
\* The invariant holds at the start.
LEMMA InitInv == Init => IInv
<1> SUFFICES ASSUME Init PROVE IInv
  OBVIOUS
<1> USE DEF Init
<1>1. TypeOK
  <2>1. visited \in [Node -> 0..TallyRange - 1]
    BY CrawlerAssumption
  <2>2. pages \subseteq Url /\ queue \in Seq(Crawler)
    BY UrlAssumption, CrawlerAssumption
  <2> QED
    BY <2>1, <2>2 DEF TypeOK
<1>2. Shape /\ RoomWhileSelecting
  BY DEF Shape, RoomWhileSelecting
<1>3. UnitsMatch
  BY NullAssumption DEF UnitsMatch
<1>4. WithinCapacity
  <2> SUFFICES ASSUME NEW c \in Crawler PROVE Cardinality(workUnit[c]) <= MaxUnit(c)
    BY DEF WithinCapacity
  <2>1. Cardinality(workUnit[c]) = 0
    BY FS_EmptySet
  <2> QED
    BY <2>1, UnitIsNat
<1> QED
  BY <1>1, <1>2, <1>3, <1>4 DEF IInv

\* update_node takes a page back from the crawler that holds it, and from no other.
LEMMA UpdateNodeInv ==
  ASSUME IInv, NEW id \in Id, UpdateNode(id)
  PROVE  /\ assignee' \in [Url -> Crawler \cup {NoCrawler}]
         /\ workUnit' \in [Crawler -> SUBSET Url]
         /\ visitState' \in [Node -> {"Red", "Green", "Amber"}]
         /\ visited' \in [Node -> 0..TallyRange - 1]
         /\ fault' \in {fault, "unassign_crawler", "update_node"}
         /\ UnitsMatch' /\ WithinCapacity'
<1> DEFINE n == pageTable[id]
<1>0. /\ pageTable \in [Id -> Url \cup {NoNode}]
      /\ assignee \in [Url -> Crawler \cup {NoCrawler}]
      /\ workUnit \in [Crawler -> SUBSET Url]
      /\ visitState \in [Node -> {"Red", "Green", "Amber"}]
      /\ visited \in [Node -> 0..TallyRange - 1]
      /\ UnitsMatch /\ WithinCapacity
  BY DEF IInv, TypeOK
<1>1. CASE n = NoNode \/ assignee[n] = NoCrawler
  <2>1. /\ UNCHANGED <<assignee, workUnit, visitState, visited>>
        /\ fault' \in {"unassign_crawler", "update_node"}
    BY <1>1 DEF UpdateNode, workVars
  <2>2. UnitsMatch' /\ WithinCapacity'
    BY <1>0, <2>1 DEF UnitsMatch, WithinCapacity, MaxUnit
  <2> QED
    BY <1>0, <2>1, <2>2
<1>2. CASE ~(n = NoNode \/ assignee[n] = NoCrawler)
  <2>1. n \in Url /\ assignee[n] \in Crawler
    BY <1>0, <1>2
  <2>2. /\ workUnit' = [workUnit EXCEPT ![assignee[n]] = @ \ {n}]
        /\ assignee' = [assignee EXCEPT ![n] = NoCrawler]
        /\ visitState' = CleanState(n) /\ visited' = CleanTally(n)
        /\ fault' = fault
    BY <1>2 DEF UpdateNode, Unassign
  <2> HIDE DEF n
  <2>3. /\ assignee' \in [Url -> Crawler \cup {NoCrawler}]
        /\ workUnit' \in [Crawler -> SUBSET Url]
    BY <1>0, <2>1, <2>2
  <2>4. visitState' \in [Node -> {"Red", "Green", "Amber"}]
    BY <1>0, <2>2 DEF CleanState
  <2>5. visited' \in [Node -> 0..TallyRange - 1]
    <3>1. ASSUME NEW m \in Node PROVE (visited[m] - 1) % TallyRange \in 0..TallyRange - 1
      <4>1. visited[m] - 1 \in Int
        BY <1>0, CrawlerAssumption
      <4> QED
        BY <4>1, TallyWraps
    <3> QED
      BY <1>0, <2>2, <3>1 DEF CleanTally
  <2>6. UnitsMatch'
    BY <1>0, <2>1, <2>2, NullAssumption DEF UnitsMatch
  <2>7. WithinCapacity'
    <3> SUFFICES ASSUME NEW c \in Crawler PROVE Cardinality(workUnit'[c]) <= MaxUnit(c)
      BY DEF WithinCapacity, MaxUnit
    <3>1. workUnit'[c] = workUnit[c] \/ workUnit'[c] = workUnit[c] \ {n}
      BY <1>0, <2>1, <2>2
    <3>2. workUnit[c] \in SUBSET Url
      BY <1>0
    <3>3. /\ Cardinality(workUnit[c]) \in Nat
          /\ Cardinality(workUnit[c] \ {n}) \in Nat
          /\ Cardinality(workUnit[c] \ {n}) <= Cardinality(workUnit[c])
      BY <2>1, <3>2, UnitSize
    <3>4. Cardinality(workUnit[c]) <= MaxUnit(c) /\ MaxUnit(c) \in Nat
      BY <1>0, UnitIsNat DEF WithinCapacity
    <3>5. CASE workUnit'[c] = workUnit[c]
      BY <3>4, <3>5
    <3>6. CASE workUnit'[c] = workUnit[c] \ {n}
      BY <3>3, <3>4, <3>6
    <3> QED
      BY <3>1, <3>5, <3>6
  <2> QED
    BY <2>2, <2>3, <2>4, <2>5, <2>6, <2>7
<1> QED
  BY <1>1, <1>2

\* Taking something off the first pending update leaves a list of updates.
LEMMA UpdatesType ==
  ASSUME NEW F, NEW D, NEW us \in Seq([found : SUBSET F, done : SUBSET D]), us # << >>,
         NEW x, NEW y
  PROVE  /\ [us EXCEPT ![1].found = @ \ {x}] \in Seq([found : SUBSET F, done : SUBSET D])
         /\ [us EXCEPT ![1].done = @ \ {y}] \in Seq([found : SUBSET F, done : SUBSET D])
         /\ Tail(us) \in Seq([found : SUBSET F, done : SUBSET D])
<1> DEFINE R == [found : SUBSET F, done : SUBSET D]
<1>1. 1 \in DOMAIN us /\ us[1] \in R /\ us \in [1..Len(us) -> R] /\ Len(us) \in Nat
  <2>1. us \in Seq(R)
    OBVIOUS
  <2> HIDE DEF R
  <2> QED
    BY <2>1
<1>2. [us[1] EXCEPT !.found = @ \ {x}] \in R /\ [us[1] EXCEPT !.done = @ \ {y}] \in R
  BY <1>1
<1>3. ASSUME NEW r \in R PROVE [us EXCEPT ![1] = r] \in Seq(R)
  <2>1. [us EXCEPT ![1] = r] \in [1..Len(us) -> R]
    BY <1>1
  <2> QED
    BY <1>1, <2>1
<1>4. /\ [us EXCEPT ![1].found = @ \ {x}] = [us EXCEPT ![1] = [us[1] EXCEPT !.found = @ \ {x}]]
      /\ [us EXCEPT ![1].done = @ \ {y}] = [us EXCEPT ![1] = [us[1] EXCEPT !.done = @ \ {y}]]
  BY <1>1
<1> HIDE DEF R
<1>5. Tail(us) \in Seq(R)
  BY DEF R
<1> QED
  BY <1>2, <1>3, <1>4, <1>5 DEF R

\* Reports list pages.
LEMMA ReportsType ==
  ASSUME NEW us \in Seq([found : SUBSET (Url \X BOOLEAN), done : SUBSET Url]),
         NEW k \in DOMAIN us
  PROVE  us[k].done \subseteq Url /\ us[k].found \subseteq Url \X BOOLEAN
<1> DEFINE R == [found : SUBSET (Url \X BOOLEAN), done : SUBSET Url]
<1>1. us \in Seq(R)
  OBVIOUS
<1> HIDE DEF R
<1>2. us[k] \in R
  BY <1>1
<1> QED
  BY <1>2 DEF R

\* The steps of update_schedule.
LEMMA UpdatingInv == IInv /\ Updating => IInv'
<1> SUFFICES ASSUME IInv, Updating PROVE IInv'
  OBVIOUS
<1> USE DEF treeVars, workVars, runVars, peerVars
<1>1. ASSUME NEW u \in Linked, NEW crawled \in BOOLEAN, ScheduleFromCrawl(u, crawled)
      PROVE  IInv'
  <2>1. pages' \subseteq Url
    BY <1>1, UrlAssumption DEF ScheduleFromCrawl, IInv, TypeOK
  <2>2. updates' \in Seq([found : SUBSET (Url \X BOOLEAN), done : SUBSET Url])
    BY <1>1, UpdatesType DEF ScheduleFromCrawl, IInv, TypeOK
  <2>3. TypeOK'
    BY <1>1, <2>1, <2>2 DEF ScheduleFromCrawl, IInv, TypeOK
  <2> QED
    BY <1>1, <2>3 DEF ScheduleFromCrawl, IInv, TypeOK, Shape, RoomWhileSelecting, UnitsMatch,
                      WithinCapacity, MaxUnit, Full
<1>2. ASSUME NEW u \in Linked, UpdateCrawled(u)
      PROVE  IInv'
  <2>1. PageId[u] \in Id
    BY UrlAssumption
  <2>2. updates' \in Seq([found : SUBSET (Url \X BOOLEAN), done : SUBSET Url])
    BY <1>2, UpdatesType DEF UpdateCrawled, IInv, TypeOK
  <2>3. TypeOK' /\ UnitsMatch' /\ WithinCapacity'
    BY <1>2, <2>1, <2>2, UpdateNodeInv DEF UpdateCrawled, IInv, TypeOK
  <2> QED
    BY <1>2, <2>3 DEF UpdateCrawled, IInv, TypeOK, Shape, RoomWhileSelecting
<1>3. ASSUME NEW u \in Url, UpdateScheduled(u)
      PROVE  IInv'
  <2>1. PageId[u] \in Id
    BY UrlAssumption
  <2>2. updates' \in Seq([found : SUBSET (Url \X BOOLEAN), done : SUBSET Url])
    BY <1>3, UpdatesType DEF UpdateScheduled, IInv, TypeOK
  <2>3. TypeOK' /\ UnitsMatch' /\ WithinCapacity'
    BY <1>3, <2>1, <2>2, UpdateNodeInv DEF UpdateScheduled, IInv, TypeOK
  <2> QED
    BY <1>3, <2>3 DEF UpdateScheduled, IInv, TypeOK, Shape, RoomWhileSelecting
<1>4. CASE NextUpdate
  <2>1. updates' \in Seq([found : SUBSET (Url \X BOOLEAN), done : SUBSET Url])
    BY <1>4, UpdatesType DEF NextUpdate, IInv, TypeOK
  <2>2. TypeOK'
    BY <1>4, <2>1 DEF NextUpdate, IInv, TypeOK
  <2> QED
    BY <1>4, <2>2 DEF NextUpdate, IInv, TypeOK, Shape, RoomWhileSelecting, UnitsMatch,
                      WithinCapacity, MaxUnit, Full
<1>5. CASE NoUpdates \/ ClearUpdates
  <2> DEFINE R == [found : SUBSET (Url \X BOOLEAN), done : SUBSET Url]
  <2>0. updates \in Seq(R) /\ (updates' = updates \/ updates' = << >>)
    BY <1>5 DEF NoUpdates, ClearUpdates, IInv, TypeOK
  <2> HIDE DEF R
  <2>1. updates' \in Seq(R)
    <3>1. << >> \in Seq(R)
      OBVIOUS
    <3> QED
      BY <2>0, <3>1
  <2> USE DEF R
  <2>2. dropped' \subseteq Url
    <3>1. \A k \in DOMAIN updates : updates[k].done \subseteq Url
      BY ReportsType DEF IInv, TypeOK
    <3> QED
      BY <1>5, <3>1 DEF NoUpdates, ClearUpdates, Reported, IInv, TypeOK
  <2>3. TypeOK'
    BY <1>5, <2>1, <2>2 DEF NoUpdates, ClearUpdates, IInv, TypeOK
  <2> QED
    BY <1>5, <2>3 DEF NoUpdates, ClearUpdates, IInv, TypeOK, Shape, RoomWhileSelecting,
                      UnitsMatch, WithinCapacity, MaxUnit, Full
<1> QED
  BY <1>1, <1>2, <1>3, <1>4, <1>5 DEF Updating

\* Counting a visited child keeps every tally in range.
LEMMA CountVisitedType ==
  ASSUME NEW n, visited \in [Node -> 0..TallyRange - 1]
  PROVE  CountVisited(n) \in [Node -> 0..TallyRange - 1]
<1>1. CASE n = Root \/ ParentOf(n) \notin Node
  BY <1>1 DEF CountVisited
<1>2. CASE n # Root /\ ParentOf(n) \in Node
  <2>1. visited[ParentOf(n)] + 1 \in Int
    BY <1>2, CrawlerAssumption
  <2>2. (visited[ParentOf(n)] + 1) % TallyRange \in 0..TallyRange - 1
    BY <2>1, TallyWraps
  <2> QED
    BY <1>2, <2>2 DEF CountVisited
<1> QED
  BY <1>1, <1>2

\* The steps of run up to the choice of a page.
LEMMA FillingInv ==
  IInv /\ (StartRun \/ FillCrawler \/ SkipOffline \/ CheckRoom \/ Descend \/ BackUp) => IInv'
<1> SUFFICES ASSUME IInv, StartRun \/ FillCrawler \/ SkipOffline \/ CheckRoom \/ Descend \/ BackUp
             PROVE  IInv'
  OBVIOUS
<1> USE DEF treeVars, workVars, runVars, peerVars
<1>0. UNCHANGED workVars => UnitsMatch' /\ WithinCapacity'
  BY DEF IInv, UnitsMatch, WithinCapacity, MaxUnit
<1>1. CASE StartRun
  <2>1. queue # << >> => Head(queue) \in Crawler /\ Len(queue) \in Nat
    BY DEF IInv, TypeOK
  <2>2. TypeOK'
    <3>1. CASE queue = << >>
      BY <1>1, <3>1 DEF StartRun, IInv, TypeOK
    <3>2. CASE queue # << >>
      <4>1. /\ pc' = "top" /\ crawler' \in Crawler /\ cursor' = NoNode
            /\ turn' \in Nat /\ turns' \in Nat /\ filled' \in Nat /\ deferred' = << >>
        BY <1>1, <2>1, <3>2 DEF StartRun
      <4> QED
        BY <1>1, <4>1 DEF StartRun, IInv, TypeOK
    <3> QED
      BY <3>1, <3>2
  <2> QED
    BY <1>0, <1>1, <2>1, <2>2 DEF StartRun, IInv, TypeOK, Shape, RoomWhileSelecting
<1>2. CASE FillCrawler
  <2>1. Root \in Node
    BY DEF Node
  <2>2. cursor' \in Node
    BY <1>2, <2>1 DEF FillCrawler, IInv, TypeOK
  <2>3. TypeOK'
    BY <1>2, <2>2 DEF FillCrawler, IInv, TypeOK
  <2> QED
    BY <1>0, <1>2, <2>2, <2>3 DEF FillCrawler, IInv, TypeOK, Shape, RoomWhileSelecting
<1>3. CASE SkipOffline
  <2>1. TypeOK'
    BY <1>3 DEF SkipOffline, IInv, TypeOK
  <2> QED
    BY <1>0, <1>3, <2>1 DEF SkipOffline, IInv, TypeOK, Shape, RoomWhileSelecting
<1>4. CASE CheckRoom
  <2>1. cursor \in Node
    BY <1>4 DEF CheckRoom, IInv, Shape
  <2>2. ParentOf(cursor) \in Node \cup {NoNode}
    BY <2>1, ParentIsNode DEF ParentOf
  <2>3. TypeOK'
    BY <1>4, <2>2 DEF CheckRoom, IInv, TypeOK
  <2> QED
    BY <1>0, <1>4, <2>1, <2>3 DEF CheckRoom, IInv, TypeOK, Shape, RoomWhileSelecting, Full, MaxUnit
<1>5. CASE Descend
  <2>1. cursor' \in Node
    <3>1. cursor' \in Tree
      BY <1>5 DEF Descend, Candidates, Unvisited, Children
    <3>2. pages \subseteq Url
      BY DEF IInv, TypeOK
    <3> QED
      BY <3>1, <3>2 DEF Tree, Node
  <2>2. visitState' \in [Node -> {"Red", "Green", "Amber"}]
    BY <1>5 DEF Descend, MarkAmber, IInv, TypeOK
  <2>3. TypeOK'
    BY <1>5, <2>1, <2>2 DEF Descend, IInv, TypeOK
  <2> QED
    BY <1>0, <1>5, <2>1, <2>3 DEF Descend, IInv, TypeOK, Shape, RoomWhileSelecting, Full, MaxUnit
<1>6. CASE BackUp
  <2>1. cursor \in Node
    BY <1>6 DEF BackUp, IInv, Shape
  <2>2. cursor' \in Node
    BY <1>6, <2>1, ParentIsNode DEF BackUp
  <2>3. visitState' \in [Node -> {"Red", "Green", "Amber"}]
    BY <1>6 DEF BackUp, MarkRed, MarkAmber, IInv, TypeOK
  <2>4. visited' \in [Node -> 0..TallyRange - 1]
    BY <1>6, CountVisitedType DEF BackUp, IInv, TypeOK
  <2>5. TypeOK'
    BY <1>6, <2>2, <2>3, <2>4 DEF BackUp, IInv, TypeOK
  <2> QED
    BY <1>0, <1>6, <2>2, <2>5 DEF BackUp, IInv, TypeOK, Shape, RoomWhileSelecting, Full, MaxUnit
<1> QED
  BY <1>1, <1>2, <1>3, <1>4, <1>5, <1>6

\* A page is given to a crawler that has room for it and becomes its own.
LEMMA AssignPageInv == IInv /\ AssignPage => IInv'
<1> SUFFICES ASSUME IInv, AssignPage PROVE IInv'
  OBVIOUS
<1>1. /\ cursor \in Url /\ assignee[cursor] = NoCrawler /\ crawler \in Crawler
      /\ assignee \in [Url -> Crawler \cup {NoCrawler}] /\ workUnit \in [Crawler -> SUBSET Url]
      /\ ~Full(crawler) /\ UnitsMatch /\ WithinCapacity
      /\ assignee' = [assignee EXCEPT ![cursor] = crawler]
      /\ workUnit' = [workUnit EXCEPT ![crawler] = @ \cup {cursor}]
  BY DEF AssignPage, Assign, Eligible, IInv, TypeOK, Shape, RoomWhileSelecting
<1>2. cursor \in Node /\ cursor # Root
  BY <1>1, UrlsAreNodes
<1>3. cursor' \in Node /\ pc' = "room"
  BY <1>2, ParentIsNode DEF AssignPage
<1>4. TypeOK'
  <2>1. visitState' \in [Node -> {"Red", "Green", "Amber"}]
    BY DEF AssignPage, MarkRed, MarkAmber, IInv, TypeOK
  <2>2. visited' \in [Node -> 0..TallyRange - 1]
    BY CountVisitedType DEF AssignPage, IInv, TypeOK
  <2>3. pageTable' \in [Id -> Url \cup {NoNode}]
    BY <1>1 DEF AssignPage, CacheNode, IInv, TypeOK
  <2>4. assignee' \in [Url -> Crawler \cup {NoCrawler}] /\ workUnit' \in [Crawler -> SUBSET Url]
    BY <1>1
  <2>5. unsent' \subseteq Url /\ filled' \in Nat
    BY <1>1 DEF AssignPage, IInv, TypeOK
  <2> QED
    BY <1>3, <2>1, <2>2, <2>3, <2>4, <2>5 DEF AssignPage, IInv, TypeOK
<1>5. UnitsMatch'
  BY <1>1, NullAssumption DEF UnitsMatch
<1>6. WithinCapacity'
  <2> SUFFICES ASSUME NEW c \in Crawler PROVE Cardinality(workUnit'[c]) <= MaxUnit(c)
    BY DEF WithinCapacity, MaxUnit
  <2>1. /\ Cardinality(workUnit[c]) \in Nat
        /\ Cardinality(workUnit[c] \cup {cursor}) \in Nat
        /\ Cardinality(workUnit[c] \cup {cursor}) <= Cardinality(workUnit[c]) + 1
    <3>1. workUnit[c] \in SUBSET Url /\ workUnit[c] \cup {cursor} \in SUBSET Url
      BY <1>1
    <3> QED
      BY <1>1, <3>1, UnitSize
  <2>2. Cardinality(workUnit[c]) <= MaxUnit(c) /\ MaxUnit(c) \in Nat
    BY <1>1, UnitIsNat DEF WithinCapacity
  <2>3. CASE c = crawler
    <3>1. Cardinality(workUnit[c]) # MaxUnit(c)
      BY <1>1, <2>3 DEF Full
    <3>2. workUnit'[c] = workUnit[c] \cup {cursor}
      BY <1>1, <2>3
    <3> QED
      BY <2>1, <2>2, <3>1, <3>2
  <2>4. CASE c # crawler
    <3>1. workUnit'[c] = workUnit[c]
      BY <1>1, <2>4
    <3> QED
      BY <2>2, <3>1
  <2> QED
    BY <2>3, <2>4
<1>7. Shape' /\ RoomWhileSelecting'
  BY <1>1, <1>3 DEF AssignPage, IInv, Shape, RoomWhileSelecting
<1> QED
  BY <1>4, <1>5, <1>6, <1>7 DEF IInv

\* The steps that put a crawler back and start the crawls.
LEMMA EndingInv ==
  IInv /\ (Rerank \/ EndTurns \/ BeginCrawl \/ Sleep \/ Timer) => IInv'
<1> SUFFICES ASSUME IInv, Rerank \/ EndTurns \/ BeginCrawl \/ Sleep \/ Timer PROVE IInv'
  OBVIOUS
<1> USE DEF treeVars, workVars, runVars, peerVars
<1>0. UNCHANGED workVars => UnitsMatch' /\ WithinCapacity'
  BY DEF IInv, UnitsMatch, WithinCapacity, MaxUnit
<1>1. CASE Rerank
  <2>1. crawler \in Crawler /\ queue # << >> /\ queue \in Seq(Crawler)
    BY <1>1 DEF Rerank, IInv, Shape, TypeOK
  <2>2. PICK load : queue' = Push(Pop(queue, load), load, crawler)
    BY <1>1 DEF Rerank, RerankTop
  <2>3. queue' \in Seq(Crawler) /\ queue' # << >>
    <3>1. Pop(queue, load) \in Seq(Crawler) /\ Len(Pop(queue, load)) = Len(queue) - 1
      BY <2>1, PopType
    <3> DEFINE rest == Pop(queue, load)
    <3> HIDE DEF rest
    <3>2. rest \in Seq(Crawler)
      BY <3>1 DEF rest
    <3>3. queue' \in Seq(Crawler) /\ Len(queue') = Len(rest) + 1
      BY <2>1, <2>2, <3>2, PushType DEF rest
    <3> QED
      BY <3>2, <3>3
  <2>4. crawler' \in Crawler
    BY <1>1, <2>3 DEF Rerank
  <2>5. deferred' \in Seq(Crawler)
    BY <1>1, <2>1 DEF Rerank, Defer, IInv, TypeOK
  <2>6. TypeOK'
    BY <1>1, <2>3, <2>4, <2>5 DEF Rerank, IInv, TypeOK
  <2> QED
    BY <1>0, <1>1, <2>3, <2>4, <2>6 DEF Rerank, IInv, Shape, RoomWhileSelecting
<1>2. CASE EndTurns
  <2>1. TypeOK'
    BY <1>2 DEF EndTurns, IInv, TypeOK
  <2> QED
    BY <1>0, <1>2, <2>1 DEF EndTurns, IInv, Shape, RoomWhileSelecting
<1>3. CASE BeginCrawl
  <2> DEFINE c == deferred[turn + 1]
             News == IF "recrawl" \in Peer THEN workUnit[c] ELSE workUnit[c] \cap unsent
  <2>1. turn + 1 \in 1..Len(deferred)
    BY <1>3 DEF BeginCrawl, IInv, Shape, TypeOK
  <2>2. c \in Crawler
    BY <2>1 DEF IInv, TypeOK
  <2>3. News \subseteq Url
    BY <2>2 DEF IInv, TypeOK
  <2>4. \/ /\ owed' = [owed EXCEPT ![c] = @ \cup News]
           /\ unsent' = unsent \ workUnit[c] /\ turn' = turn + 1 /\ fault' = fault
        \/ fault' = "begin_crawl" /\ UNCHANGED <<unsent, owed, turn>>
    BY <1>3 DEF BeginCrawl
  <2> HIDE DEF c, News
  <2>5. owed' \in [Crawler -> SUBSET Url]
    BY <2>2, <2>3, <2>4 DEF IInv, TypeOK
  <2>6. TypeOK'
    BY <1>3, <2>4, <2>5 DEF BeginCrawl, IInv, TypeOK
  <2> QED
    BY <1>0, <1>3, <2>6 DEF BeginCrawl, IInv, Shape, RoomWhileSelecting
<1>4. CASE Sleep
  <2>1. TypeOK'
    BY <1>4 DEF Sleep, IInv, TypeOK
  <2> QED
    BY <1>0, <1>4, <2>1 DEF Sleep, IInv, Shape, RoomWhileSelecting
<1>5. CASE Timer
  <2>1. TypeOK'
    BY <1>5 DEF Timer, IInv, TypeOK
  <2> QED
    BY <1>0, <1>5, <2>1 DEF Timer, IInv, Shape, RoomWhileSelecting
<1> QED
  BY <1>1, <1>2, <1>3, <1>4, <1>5

\* The steps of the session handlers.
LEMMA SessionInv ==
  ASSUME IInv, NEW c \in Crawler
  PROVE  /\ Register(c) \/ SetSession(c) \/ Leave(c) => IInv'
         /\ \A crawled \in SUBSET owed[c], found \in Findings : EndCrawl(c, crawled, found) => IInv'
<1> USE DEF treeVars, workVars, runVars, peerVars
<1>0. UNCHANGED workVars => UnitsMatch' /\ WithinCapacity'
  BY DEF IInv, UnitsMatch, WithinCapacity, MaxUnit
<1>1. ASSUME queue' = Push(queue, Load, c) PROVE queue' \in Seq(Crawler) /\ queue' # << >>
  <2>1. queue \in Seq(Crawler)
    BY DEF IInv, TypeOK
  <2>2. queue' \in Seq(Crawler) /\ Len(queue') = Len(queue) + 1
    BY <1>1, <2>1, PushType
  <2> QED
    BY <2>1, <2>2
<1>2. CASE Register(c)
  <2>1. TypeOK'
    BY <1>1, <1>2 DEF Register, IInv, TypeOK
  <2> QED
    BY <1>0, <1>1, <1>2, <2>1 DEF Register, IInv, Shape, RoomWhileSelecting, Full, MaxUnit
<1>3. CASE SetSession(c)
  <2>0. arriving' \in [Crawler -> Nat]
    <3>1. arriving \in [Crawler -> Nat] /\ arriving[c] > 0
      BY <1>3 DEF SetSession, IInv, TypeOK
    <3>2. arriving[c] - 1 \in Nat
      BY <3>1
    <3>3. arriving' = arriving \/ arriving' = [arriving EXCEPT ![c] = arriving[c] - 1]
      BY <1>3 DEF SetSession
    <3> QED
      BY <3>1, <3>2, <3>3
  <2>1. TypeOK'
    BY <1>3, <2>0 DEF SetSession, IInv, TypeOK
  <2> QED
    BY <1>0, <1>3, <2>1 DEF SetSession, IInv, Shape, RoomWhileSelecting, Full, MaxUnit
<1>4. CASE Leave(c)
  <2>1. TypeOK'
    BY <1>4 DEF Leave, IInv, TypeOK
  <2> QED
    BY <1>0, <1>4, <2>1 DEF Leave, IInv, Shape, RoomWhileSelecting, Full, MaxUnit
<1>5. ASSUME NEW crawled \in SUBSET owed[c], NEW found \in Findings, EndCrawl(c, crawled, found)
      PROVE  IInv'
  <2>1. found \subseteq Url \X BOOLEAN
    BY UrlAssumption DEF Findings
  <2>2. crawled \subseteq Url
    BY DEF IInv, TypeOK
  <2> DEFINE update == [found |-> found, done |-> crawled]
  <2>3. update \in [found : SUBSET (Url \X BOOLEAN), done : SUBSET Url]
    BY <2>1, <2>2
  <2>4. updates' = Append(updates, update)
    BY <1>5 DEF EndCrawl
  <2> HIDE DEF update
  <2>5. updates' \in Seq([found : SUBSET (Url \X BOOLEAN), done : SUBSET Url])
    BY <2>3, <2>4 DEF IInv, TypeOK
  <2>6. owed' \in [Crawler -> SUBSET Url]
    BY <1>5 DEF EndCrawl, IInv, TypeOK
  <2>7. TypeOK'
    BY <1>5, <2>5, <2>6 DEF EndCrawl, IInv, TypeOK
  <2> QED
    BY <1>0, <1>5, <2>7 DEF EndCrawl, IInv, Shape, RoomWhileSelecting, Full, MaxUnit
<1> QED
  BY <1>2, <1>3, <1>4, <1>5

\* Every step keeps the invariant.
LEMMA NextInv == IInv /\ [Next]_vars => IInv'
<1> SUFFICES ASSUME IInv, [Next]_vars PROVE IInv'
  OBVIOUS
<1>1. CASE Task
  BY <1>1, UpdatingInv, FillingInv, AssignPageInv, EndingInv DEF Task, Running
<1>2. CASE \E c \in Crawler : Register(c) \/ SetSession(c) \/ Leave(c)
  BY <1>2, SessionInv
<1>3. CASE \E c \in Crawler : \E crawled \in SUBSET owed[c], found \in Findings :
             EndCrawl(c, crawled, found)
  BY <1>3, SessionInv
<1>4. CASE UNCHANGED vars
  BY <1>4 DEF vars, treeVars, workVars, runVars, peerVars, IInv, TypeOK, Shape,
              RoomWhileSelecting, UnitsMatch, WithinCapacity, Full, MaxUnit
<1> QED
  BY <1>1, <1>2, <1>3, <1>4 DEF Next

\* IInv holds throughout, whatever the peers do.
THEOREM Invariance == Spec => []IInv
<1> QED
  BY InitInv, NextInv, PTL DEF Spec

\* Types: every counter, table and queue of the scheduler stays within its range.
THEOREM TypeCorrect == Spec => []TypeOK
<1>1. IInv => TypeOK
  BY DEF IInv
<1> QED
  BY <1>1, Invariance, PTL

\* PageData::crawler and Crawler::work_unit never disagree.
THEOREM UnitsAlwaysMatch == Spec => []UnitsMatch
<1>1. IInv => UnitsMatch
  BY DEF IInv
<1> QED
  BY <1>1, Invariance, PTL

\* No crawler ever holds more than its unit.
THEOREM CapacityRespected == Spec => []WithinCapacity
<1>1. IInv => WithinCapacity
  BY DEF IInv
<1> QED
  BY <1>1, Invariance, PTL

-------------------------------------------------------------------------------
(* The scheduler implements CrawlAllocation.  A page that fill_crawler assigns is a page
   given, one that update_node unassigns is a page handed back, one that schedule inserts
   is a page discovered; every other step of the scheduler stutters. *)

\* The initial states map to initial states.
LEMMA InitMaps == Init => Allocation!Init
BY UrlAssumption DEF Init, Allocation!Init

\* update_node hands a page back, or faults and leaves everything as it is.
LEMMA UpdateNodeMaps ==
  ASSUME IInv, NEW id \in Id, UpdateNode(id), UNCHANGED pages
  PROVE  (\E u \in Url : Allocation!HandBack(u)) \/ UNCHANGED <<pages, assignee>>
<1> DEFINE n == pageTable[id]
<1>1. n \in Url \cup {NoNode}
  BY DEF IInv, TypeOK
<1>2. CASE n = NoNode \/ assignee[n] = NoCrawler
  BY <1>2 DEF UpdateNode, workVars
<1>3. CASE ~(n = NoNode \/ assignee[n] = NoCrawler)
  <2>1. n \in Url /\ assignee[n] # NoCrawler /\ assignee' = [assignee EXCEPT ![n] = NoCrawler]
    BY <1>1, <1>3 DEF UpdateNode, Unassign
  <2> HIDE DEF n
  <2>2. Allocation!HandBack(n)
    BY <2>1 DEF Allocation!HandBack
  <2> QED
    BY <2>1, <2>2
<1> QED
  BY <1>2, <1>3

\* A page assigned is a page given: nobody owned it, and its crawler had room.
LEMMA AssignPageMaps ==
  ASSUME IInv, AssignPage
  PROVE  \E u \in Url, c \in Crawler : Allocation!Give(u, c)
<1>1. /\ cursor \in pages /\ cursor \in Url /\ assignee[cursor] = NoCrawler
      /\ crawler \in Crawler /\ workUnit[crawler] \in SUBSET Url
      /\ ~Full(crawler) /\ UnitsMatch /\ WithinCapacity
      /\ assignee' = [assignee EXCEPT ![cursor] = crawler] /\ pages' = pages
  BY DEF AssignPage, Assign, Eligible, IInv, TypeOK, Shape, RoomWhileSelecting
<1>2. Allocation!Holding(crawler) = workUnit[crawler]
  BY <1>1 DEF Allocation!Holding, UnitsMatch
<1>3. Cardinality(workUnit[crawler]) < MaxUnit(crawler)
  <2>1. Cardinality(workUnit[crawler]) \in Nat /\ MaxUnit(crawler) \in Nat
    BY <1>1, UnitSize, UnitIsNat
  <2> QED
    BY <1>1, <2>1 DEF Full, WithinCapacity
<1>4. Allocation!Cardinality(workUnit[crawler]) = Cardinality(workUnit[crawler])
  BY DEF Allocation!Cardinality, Cardinality
<1>5. Allocation!Give(cursor, crawler)
  BY <1>1, <1>2, <1>3, <1>4 DEF Allocation!Give
<1> QED
  BY <1>1, <1>5

\* Every step maps to a step of the abstract specification or to a stutter.
LEMMA NextMaps == IInv /\ [Next]_vars => [Allocation!Next]_<<pages, assignee>>
<1> SUFFICES ASSUME IInv, [Next]_vars PROVE [Allocation!Next]_<<pages, assignee>>
  OBVIOUS
<1> USE DEF treeVars, workVars, runVars, peerVars
<1>1. CASE Updating
  <2>1. ASSUME NEW u \in Linked, NEW crawled \in BOOLEAN, ScheduleFromCrawl(u, crawled)
        PROVE  Allocation!Next
    <3>1. u \in Url /\ Allocation!Discover(u)
      BY <2>1, UrlAssumption DEF ScheduleFromCrawl, Allocation!Discover
    <3> QED
      BY <3>1 DEF Allocation!Next
  <2>2. ASSUME NEW u \in Linked, UpdateCrawled(u)
        PROVE  [Allocation!Next]_<<pages, assignee>>
    <3>1. PageId[u] \in Id
      BY UrlAssumption
    <3>2. (\E v \in Url : Allocation!HandBack(v)) \/ UNCHANGED <<pages, assignee>>
      BY <2>2, <3>1, UpdateNodeMaps DEF UpdateCrawled
    <3> QED
      BY <3>2 DEF Allocation!Next
  <2>3. ASSUME NEW u \in Url, UpdateScheduled(u)
        PROVE  [Allocation!Next]_<<pages, assignee>>
    <3>0. PageId[u] \in Id
      BY UrlAssumption
    <3>1. (\E v \in Url : Allocation!HandBack(v)) \/ UNCHANGED <<pages, assignee>>
      BY <2>3, <3>0, UpdateNodeMaps DEF UpdateScheduled
    <3> QED
      BY <3>1 DEF Allocation!Next
  <2>4. CASE NextUpdate \/ NoUpdates \/ ClearUpdates
    BY <2>4 DEF NextUpdate, NoUpdates, ClearUpdates
  <2> QED
    BY <1>1, <2>1, <2>2, <2>3, <2>4 DEF Updating
<1>2. CASE AssignPage
  BY <1>2, AssignPageMaps DEF Allocation!Next
<1>3. CASE \/ StartRun \/ FillCrawler \/ SkipOffline \/ CheckRoom \/ Descend \/ BackUp
           \/ Rerank \/ EndTurns \/ BeginCrawl \/ Sleep \/ Timer
  BY <1>3 DEF StartRun, FillCrawler, SkipOffline, CheckRoom, Descend, BackUp, Rerank,
              EndTurns, BeginCrawl, Sleep, Timer
<1>4. CASE \E c \in Crawler : Register(c) \/ SetSession(c) \/ Leave(c)
  BY <1>4 DEF Register, SetSession, Leave
<1>5. CASE \E c \in Crawler : \E crawled \in SUBSET owed[c], found \in Findings :
             EndCrawl(c, crawled, found)
  BY <1>5 DEF EndCrawl
<1>6. CASE UNCHANGED vars
  BY <1>6 DEF vars
<1> QED
  BY <1>1, <1>2, <1>3, <1>4, <1>5, <1>6 DEF Next, Task, Running

\* The crawler a page names is its one owner: pages change hands only by being handed
\* back, stay known once scheduled, and no crawler is overloaded.
THEOREM Refinement == Spec => ImplementsAllocation
<1> QED
  BY InitMaps, NextMaps, Invariance, PTL DEF Spec, ImplementsAllocation, Allocation!Spec

-------------------------------------------------------------------------------
(* The books: what is assigned, what is in the table, what is still to be reported *)

HonestPeers == Peer = {}
IdsDistinct == \A u, v \in Url : PageId[u] = PageId[v] => u = v

\* Sessions only go up: a crawler that is given pages stays online.
Steady ==
  /\ \A c \in Crawler : session[c] # "closed"
  /\ pc \in {"room", "select"} => Online(crawler)
  /\ pc = "rank" /\ filled > 0 => Online(crawler)
  /\ \A k \in DOMAIN deferred : Online(deferred[k])

\* Nobody reports a page it was not sent.
NothingAhead == \A k \in DOMAIN updates : \A u \in Url : <<u, TRUE>> \notin updates[k].found

\* Nobody registers a second time.
FirstTime == \A c \in Crawler : arriving[c] > 0 => arriving[c] = 1 /\ session[c] = "absent"

LInv == IInv /\ TableFindsPage /\ Ledger /\ Steady /\ FirstTime /\ NothingAhead /\ NoFault

LedgerVars == <<assignee, pageTable, unsent, owed, updates, dropped>>

-------------------------------------------------------------------------------
\* The books are whole at the start.
LEMMA InitLedger == Init => LInv
<1> SUFFICES ASSUME Init PROVE LInv
  OBVIOUS
<1>1. TableFindsPage /\ Ledger /\ Steady /\ FirstTime /\ NothingAhead /\ NoFault
  BY DEF Init, TableFindsPage, Ledger, Steady, FirstTime, NothingAhead, NoFault, Online
<1> QED
  BY <1>1, InitInv DEF LInv

\* Steps that touch none of the books leave the ledger as it is.
LEMMA LedgerStutters ==
  ASSUME TableFindsPage, Ledger, NothingAhead, UNCHANGED LedgerVars
  PROVE  TableFindsPage' /\ Ledger' /\ NothingAhead'
<1> USE DEF LedgerVars
<1>1. TableFindsPage'
  BY DEF TableFindsPage
<1>2. Ledger'
  BY DEF Ledger
<1>3. NothingAhead'
  BY DEF NothingAhead
<1> QED
  BY <1>1, <1>2, <1>3

\* Steps that touch neither run nor sessions leave them steady.
LEMMA SteadyStutters ==
  ASSUME Steady, UNCHANGED <<session, pc, runVars>>
  PROVE  Steady'
BY DEF Steady, Online, runVars

\* What is taken off the first pending update is gone from there, and nothing else is.
LEMMA TakeFromFirst ==
  ASSUME NEW us \in Seq([found : SUBSET (Url \X BOOLEAN), done : SUBSET Url]), us # << >>,
         NEW vs, NEW x,
         vs = [us EXCEPT ![1].found = @ \ {x}] \/ vs = [us EXCEPT ![1].done = @ \ {x}]
  PROVE  /\ 1 \in DOMAIN us /\ DOMAIN vs = DOMAIN us
         /\ \A k \in DOMAIN us \ {1} : vs[k] = us[k]
         /\ vs = [us EXCEPT ![1].found = @ \ {x}] =>
              vs[1].found = us[1].found \ {x} /\ vs[1].done = us[1].done
         /\ vs = [us EXCEPT ![1].done = @ \ {x}] =>
              vs[1].done = us[1].done \ {x} /\ vs[1].found = us[1].found
<1> DEFINE R == [found : SUBSET (Url \X BOOLEAN), done : SUBSET Url]
<1>1. us \in Seq(R)
  OBVIOUS
<1> HIDE DEF R
<1>2. us \in [1..Len(us) -> R] /\ Len(us) \in Nat /\ Len(us) # 0
  BY <1>1
<1>3. 1 \in DOMAIN us /\ us[1] \in R
  BY <1>2
<1> QED
  BY <1>3 DEF R

\* The steps of update_schedule settle one report after the other.
LEMMA UpdatingLedger ==
  ASSUME HonestPeers, IdsDistinct, LInv, Updating
  PROVE  TableFindsPage' /\ Ledger' /\ Steady' /\ NothingAhead' /\ NoFault'
<1> USE DEF treeVars, workVars, peerVars
<1>0. /\ updates \in Seq([found : SUBSET (Url \X BOOLEAN), done : SUBSET Url])
      /\ assignee \in [Url -> Crawler \cup {NoCrawler}]
      /\ pageTable \in [Id -> Url \cup {NoNode}]
      /\ TableFindsPage /\ Ledger /\ Steady /\ NothingAhead /\ NoFault
      /\ dropped \subseteq Url
  BY DEF LInv, IInv, TypeOK
<1>a. updates # << >> => 1 \in DOMAIN updates
  BY <1>0
<1>1. ASSUME NEW u \in Linked, NEW crawled \in BOOLEAN, ScheduleFromCrawl(u, crawled)
      PROVE  TableFindsPage' /\ Ledger' /\ Steady' /\ NothingAhead' /\ NoFault'
  <2>1. updates # << >> /\ <<u, crawled>> \in updates[1].found /\ u \in Url
    BY <1>1, UrlAssumption DEF ScheduleFromCrawl
  <2>2. crawled = FALSE
    BY <1>0, <1>a, <2>1 DEF NothingAhead
  <2>3. updates' = [updates EXCEPT ![1].found = @ \ {<<u, FALSE>>}]
    BY <1>1, <2>2 DEF ScheduleFromCrawl
  <2>4. /\ DOMAIN updates' = DOMAIN updates
        /\ \A k \in DOMAIN updates : updates'[k].done = updates[k].done
        /\ \A k \in DOMAIN updates : updates'[k].found \subseteq updates[k].found
    <3> DEFINE link == <<u, FALSE>>
    <3>2. updates # << >> /\ updates' = [updates EXCEPT ![1].found = @ \ {link}]
      BY <2>1, <2>3
    <3> HIDE DEF link
    <3>1. /\ DOMAIN updates' = DOMAIN updates
          /\ \A k \in DOMAIN updates \ {1} : updates'[k] = updates[k]
          /\ updates'[1].found = updates[1].found \ {link}
          /\ updates'[1].done = updates[1].done
      BY <1>0, <3>2, TakeFromFirst
    <3> QED
      BY <3>1
  <2>5. UNCHANGED <<assignee, pageTable, unsent, owed, dropped>>
    BY <1>1 DEF ScheduleFromCrawl
  <2>6. Ledger'
    BY <1>0, <2>4, <2>5 DEF Ledger
  <2>7. NothingAhead'
    BY <1>0, <2>4 DEF NothingAhead
  <2>8. Steady'
    BY <1>0, <1>1, SteadyStutters DEF ScheduleFromCrawl
  <2> QED
    BY <1>0, <1>1, <2>5, <2>6, <2>7, <2>8 DEF ScheduleFromCrawl, TableFindsPage, NoFault
<1>2. ASSUME NEW u \in Linked, UpdateCrawled(u)
      PROVE  FALSE
  <2>1. updates # << >> /\ <<u, TRUE>> \in updates[1].found /\ u \in Url
    BY <1>2, UrlAssumption DEF UpdateCrawled
  <2> QED
    BY <1>0, <1>a, <2>1 DEF NothingAhead
<1>3. ASSUME NEW n \in Url, UpdateScheduled(n)
      PROVE  TableFindsPage' /\ Ledger' /\ Steady' /\ NothingAhead' /\ NoFault'
  <2>1. updates # << >> /\ 1 \in DOMAIN updates /\ n \in updates[1].done
    BY <1>a, <1>3 DEF UpdateScheduled
  <2>2. /\ assignee[n] # NoCrawler /\ n \notin unsent \cup dropped
        /\ \A c \in Crawler : n \notin owed[c]
    BY <1>0, <2>1 DEF Ledger
  <2>3. pageTable[PageId[n]] = n /\ n # NoNode
    BY <1>0, <2>2, UrlsAreNodes, NullAssumption DEF TableFindsPage
  <2>4. assignee' = [assignee EXCEPT ![n] = NoCrawler] /\ fault' = fault
    BY <1>3, <2>2, <2>3 DEF UpdateScheduled, UpdateNode, Unassign
  <2>5. updates' = [updates EXCEPT ![1].done = @ \ {n}]
    BY <1>3 DEF UpdateScheduled
  <2>6. /\ DOMAIN updates' = DOMAIN updates
        /\ \A k \in DOMAIN updates : updates'[k].found = updates[k].found
        /\ \A k \in DOMAIN updates \ {1} : updates'[k].done = updates[k].done
        /\ updates'[1].done = updates[1].done \ {n}
    <3>1. /\ DOMAIN updates' = DOMAIN updates
          /\ \A k \in DOMAIN updates \ {1} : updates'[k] = updates[k]
          /\ updates'[1].done = updates[1].done \ {n}
          /\ updates'[1].found = updates[1].found
      <4>1. updates # << >>
        BY <2>1
      <4> QED
        BY <1>0, <2>5, <4>1, TakeFromFirst
    <3> QED
      BY <3>1
  <2>7. UNCHANGED <<pageTable, unsent, owed, dropped>>
    BY <1>3 DEF UpdateScheduled
  <2>8. TableFindsPage'
    BY <1>0, <2>4, <2>7 DEF TableFindsPage
  <2>9. Ledger'
    <3>1. assignee'[n] = NoCrawler /\ \A u \in Url \ {n} : assignee'[u] = assignee[u]
      BY <1>0, <2>4
    <3>2. unsent \subseteq Url /\ \A c \in Crawler : owed[c] \subseteq Url
      BY DEF LInv, IInv, TypeOK
    <3>3. \A k \in DOMAIN updates : updates[k].done \subseteq Url
      BY <1>0, ReportsType
    <3>4. \A k \in DOMAIN updates' : /\ updates'[k].done \subseteq updates[k].done
                                    /\ n \notin updates'[k].done
      BY <1>0, <2>1, <2>6 DEF Ledger
    <3>5. /\ \A u \in unsent' : assignee'[u] # NoCrawler
          /\ \A u \in dropped' : /\ assignee'[u] # NoCrawler /\ u \notin unsent'
                                 /\ \A c \in Crawler : u \notin owed'[c]
      BY <1>0, <2>2, <2>7, <3>1, <3>2 DEF Ledger
    <3>6. \A c \in Crawler : \A u \in owed'[c] : assignee'[u] = c /\ u \notin unsent'
      BY <1>0, <2>2, <2>7, <3>1, <3>2 DEF Ledger
    <3>7. \A k \in DOMAIN updates' : \A u \in updates'[k].done :
            /\ assignee'[u] # NoCrawler /\ u \notin (unsent \cup dropped)'
            /\ \A c \in Crawler : u \notin owed'[c]
      BY <1>0, <2>6, <2>7, <3>1, <3>3, <3>4 DEF Ledger
    <3>8. \A j, k \in DOMAIN updates' : j # k => updates'[j].done \cap updates'[k].done = {}
      BY <1>0, <2>6, <3>4 DEF Ledger
    <3>9. ASSUME NEW u \in Url, assignee'[u] # NoCrawler
          PROVE  \/ u \in unsent' \/ u \in owed'[assignee'[u]] \/ u \in dropped'
                 \/ \E k \in DOMAIN updates' : u \in updates'[k].done
      BY <1>0, <2>6, <2>7, <3>1, <3>9 DEF Ledger
    <3> QED
      BY <3>5, <3>6, <3>7, <3>8, <3>9 DEF Ledger
  <2>10. NothingAhead'
    BY <1>0, <2>6 DEF NothingAhead
  <2>11. Steady'
    BY <1>0, <1>3, SteadyStutters DEF UpdateScheduled
  <2> QED
    BY <1>0, <2>4, <2>8, <2>9, <2>10, <2>11 DEF NoFault
<1>4. CASE NextUpdate
  <2>1. updates # << >> /\ updates[1].done = {} /\ updates' = Tail(updates)
    BY <1>4 DEF NextUpdate
  <2>2. /\ Len(updates) \in Nat \ {0} /\ Len(updates') = Len(updates) - 1
        /\ DOMAIN updates = 1..Len(updates) /\ DOMAIN updates' = 1..Len(updates) - 1
        /\ \A k \in 1..Len(updates) - 1 : updates'[k] = updates[k + 1]
    BY <1>0, <2>1
  <2>3. \A k \in DOMAIN updates' : k + 1 \in DOMAIN updates /\ updates'[k] = updates[k + 1]
    BY <2>2
  <2>4. \A k \in DOMAIN updates : k = 1 \/ (k - 1 \in DOMAIN updates' /\ updates'[k - 1] = updates[k])
    BY <2>2
  <2>5. \A j, k \in DOMAIN updates' : j # k => j + 1 # k + 1
    BY <2>2
  <2>6. UNCHANGED <<assignee, pageTable, unsent, owed, dropped>>
    BY <1>4 DEF NextUpdate
  <2> HIDE <2>2
  <2>7. Ledger'
    <3>1. \A j, k \in DOMAIN updates' : j # k => updates'[j].done \cap updates'[k].done = {}
      BY <1>0, <2>3, <2>5 DEF Ledger
    <3>2. ASSUME NEW u \in Url, NEW k \in DOMAIN updates, u \in updates[k].done
          PROVE  \E j \in DOMAIN updates' : u \in updates'[j].done
      BY <2>1, <2>4, <3>2
    <3>3. \A k \in DOMAIN updates' : \A u \in updates'[k].done :
            /\ assignee[u] # NoCrawler /\ u \notin unsent \cup dropped
            /\ \A c \in Crawler : u \notin owed[c]
      BY <1>0, <2>3 DEF Ledger
    <3> QED
      BY <1>0, <2>6, <3>1, <3>2, <3>3 DEF Ledger
  <2>8. NothingAhead'
    BY <1>0, <2>3 DEF NothingAhead
  <2>9. Steady'
    BY <1>0, <1>4 DEF NextUpdate, Steady, Online, runVars
  <2> QED
    BY <1>0, <1>4, <2>6, <2>7, <2>8, <2>9 DEF NextUpdate, TableFindsPage, NoFault
<1>5. CASE NoUpdates \/ ClearUpdates
  <2>1. UNCHANGED <<assignee, pageTable, unsent, owed, fault>>
    BY <1>5 DEF NoUpdates, ClearUpdates
  <2>2. \/ updates' = updates /\ dropped' = dropped
        \/ updates' = << >> /\ dropped' = dropped \cup Reported
    BY <1>5 DEF NoUpdates, ClearUpdates
  <2>3. Ledger'
    <3>1. CASE updates' = updates /\ dropped' = dropped
      BY <1>0, <2>1, <3>1 DEF Ledger
    <3>2. CASE updates' = << >> /\ dropped' = dropped \cup Reported
      <4>1. \A u \in dropped' : /\ assignee[u] # NoCrawler /\ u \notin unsent
                                /\ \A c \in Crawler : u \notin owed[c]
        BY <1>0, <3>2 DEF Ledger, Reported
      <4>2. \A u \in Url : assignee[u] # NoCrawler =>
              u \in unsent \/ u \in owed[assignee[u]] \/ u \in dropped'
        BY <1>0, <3>2 DEF Ledger, Reported
      <4> QED
        BY <1>0, <2>1, <3>2, <4>1, <4>2 DEF Ledger
    <3> QED
      BY <2>2, <3>1, <3>2
  <2>4. NothingAhead'
    <3>1. DOMAIN << >> = {}
      OBVIOUS
    <3>2. CASE updates' = updates
      BY <1>0, <3>2 DEF NothingAhead
    <3>3. CASE updates' = << >>
      BY <3>1, <3>3 DEF NothingAhead
    <3> QED
      BY <2>2, <3>2, <3>3
  <2>5. Steady'
    BY <1>0, <1>5 DEF NoUpdates, ClearUpdates, Steady, Online, runVars
  <2> QED
    BY <1>0, <2>1, <2>3, <2>4, <2>5 DEF TableFindsPage, NoFault
<1> QED
  BY <1>1, <1>2, <1>3, <1>4, <1>5 DEF Updating

\* The steps of run that keep no books: the walk through the tree and the queue.
LEMMA WalkingLedger ==
  ASSUME LInv,
         \/ StartRun \/ FillCrawler \/ SkipOffline \/ CheckRoom \/ Descend \/ BackUp
         \/ Rerank \/ EndTurns \/ Sleep \/ Timer
  PROVE  TableFindsPage' /\ Ledger' /\ Steady' /\ NothingAhead' /\ NoFault'
<1> USE DEF treeVars, workVars, runVars, peerVars
<1>1. UNCHANGED LedgerVars /\ UNCHANGED <<session, fault>>
  BY DEF StartRun, FillCrawler, SkipOffline, CheckRoom, Descend, BackUp, Rerank, EndTurns,
         Sleep, Timer, LedgerVars
<1>2. TableFindsPage' /\ Ledger' /\ NothingAhead' /\ NoFault'
  BY <1>1, LedgerStutters DEF LInv, NoFault
<1>3. Steady'
  <2>0. Steady /\ deferred \in Seq(Crawler) /\ crawler \in Crawler \cup {NoCrawler}
    BY DEF LInv, IInv, TypeOK
  <2>1. CASE StartRun \/ SkipOffline \/ EndTurns \/ Sleep \/ Timer
    <3>1. /\ pc' \notin {"room", "select"} /\ (pc' = "rank" => filled' = 0)
          /\ deferred' = deferred \/ deferred' = << >>
      BY <2>1 DEF StartRun, SkipOffline, EndTurns, Sleep, Timer
    <3> QED
      BY <1>1, <2>0, <3>1 DEF Steady, Online
  <2>2. CASE FillCrawler
    BY <1>1, <2>0, <2>2 DEF FillCrawler, Steady, Online
  <2>3. CASE CheckRoom \/ Descend \/ BackUp
    <3>1. pc \in {"room", "select"} /\ UNCHANGED <<crawler, deferred>>
      BY <2>3 DEF CheckRoom, Descend, BackUp
    <3> QED
      BY <1>1, <2>0, <3>1 DEF Steady, Online
  <2>4. CASE Rerank
    <3>1. crawler \in Crawler
      BY <2>4 DEF Rerank, LInv, IInv, Shape
    <3>2. pc = "rank" /\ pc' = "top" /\ deferred' = Defer
      BY <2>4 DEF Rerank
    <3>3. \A k \in DOMAIN deferred' : Online(deferred'[k])
      <4>1. CASE filled > 0
        <5>1. deferred' = Append(deferred, crawler) /\ Online(crawler)
          BY <2>0, <3>2, <4>1 DEF Defer, Steady
        <5>2. \A k \in DOMAIN deferred' :
                deferred'[k] = crawler \/ (k \in DOMAIN deferred /\ deferred'[k] = deferred[k])
          BY <2>0, <3>1, <5>1
        <5> QED
          BY <2>0, <5>1, <5>2 DEF Steady
      <4>2. CASE ~(filled > 0)
        BY <2>0, <3>2, <4>2 DEF Defer, Steady
      <4> QED
        BY <4>1, <4>2
    <3> QED
      BY <1>1, <2>0, <3>2, <3>3 DEF Steady, Online
  <2> QED
    BY <2>1, <2>2, <2>3, <2>4
<1> QED
  BY <1>2, <1>3

\* A page assigned is entered under its own id, and waits to be sent.
LEMMA AssignPageLedger ==
  ASSUME IdsDistinct, LInv, AssignPage
  PROVE  TableFindsPage' /\ Ledger' /\ Steady' /\ NothingAhead' /\ NoFault'
<1>0. /\ assignee \in [Url -> Crawler \cup {NoCrawler}]
      /\ pageTable \in [Id -> Url \cup {NoNode}]
      /\ owed \in [Crawler -> SUBSET Url] /\ unsent \subseteq Url /\ dropped \subseteq Url
      /\ updates \in Seq([found : SUBSET (Url \X BOOLEAN), done : SUBSET Url])
      /\ TableFindsPage /\ Ledger /\ Steady /\ NothingAhead /\ NoFault
  BY DEF LInv, IInv, TypeOK
<1>1. /\ cursor \in Url /\ assignee[cursor] = NoCrawler /\ crawler \in Crawler
      /\ assignee' = [assignee EXCEPT ![cursor] = crawler]
      /\ pageTable' = [pageTable EXCEPT ![PageId[cursor]] = cursor]
      /\ unsent' = unsent \cup {cursor}
      /\ UNCHANGED <<owed, updates, dropped, session, fault, crawler, deferred>>
      /\ pc = "select" /\ pc' = "room"
  BY DEF AssignPage, Assign, CacheNode, Eligible, LInv, IInv, TypeOK, Shape
<1>2. PageId[cursor] \in Id /\ crawler # NoCrawler
  BY <1>1, UrlAssumption, NullAssumption
<1>3. /\ assignee'[cursor] = crawler /\ pageTable'[PageId[cursor]] = cursor
      /\ \A u \in Url \ {cursor} : assignee'[u] = assignee[u]
      /\ \A u \in Url \ {cursor} : pageTable'[PageId[u]] = pageTable[PageId[u]]
  <2>1. \A u \in Url \ {cursor} : PageId[u] \in Id /\ PageId[u] # PageId[cursor]
    BY <1>1, UrlAssumption DEF IdsDistinct
  <2> QED
    BY <1>0, <1>1, <1>2, <2>1
<1>4. TableFindsPage'
  BY <1>0, <1>3 DEF TableFindsPage
<1>5. Ledger'
  <2>1. \A u \in unsent' : assignee'[u] # NoCrawler
    BY <1>0, <1>1, <1>2, <1>3 DEF Ledger
  <2>2. \A c \in Crawler : \A u \in owed'[c] : assignee'[u] = c /\ u \notin unsent'
    <3> SUFFICES ASSUME NEW c \in Crawler, NEW u \in owed[c]
                 PROVE  assignee'[u] = c /\ u \notin unsent'
      BY <1>1
    <3>1. u \in Url /\ assignee[u] = c /\ u \notin unsent
      BY <1>0 DEF Ledger
    <3>2. u # cursor
      BY <1>1, <3>1, NullAssumption
    <3> QED
      BY <1>1, <1>3, <3>1, <3>2
  <2>3. ASSUME NEW k \in DOMAIN updates', NEW u \in updates'[k].done
        PROVE  /\ assignee'[u] # NoCrawler /\ u \notin (unsent \cup dropped)'
               /\ \A c \in Crawler : u \notin owed'[c]
    <3>1. /\ u \in Url /\ assignee[u] # NoCrawler
          /\ u \notin unsent \cup dropped /\ \A c \in Crawler : u \notin owed[c]
      BY <1>0, <1>1, ReportsType DEF Ledger
    <3>2. u # cursor
      BY <1>1, <3>1
    <3> QED
      BY <1>1, <1>3, <3>1, <3>2
  <2>4. \A u \in Url : assignee'[u] # NoCrawler =>
          \/ u \in unsent' \/ u \in owed'[assignee'[u]] \/ u \in dropped'
          \/ \E k \in DOMAIN updates' : u \in updates'[k].done
    BY <1>0, <1>1, <1>3 DEF Ledger
  <2>6. ASSUME NEW u \in dropped'
        PROVE  /\ assignee'[u] # NoCrawler /\ u \notin unsent'
               /\ \A c \in Crawler : u \notin owed'[c]
    <3>1. /\ u \in Url /\ assignee[u] # NoCrawler /\ u \notin unsent
          /\ \A c \in Crawler : u \notin owed[c]
      BY <1>0, <1>1 DEF Ledger
    <3> QED
      BY <1>1, <1>3, <3>1
  <2>5. \A j, k \in DOMAIN updates' : j # k => updates'[j].done \cap updates'[k].done = {}
    BY <1>0, <1>1 DEF Ledger
  <2> QED
    BY <2>1, <2>2, <2>3, <2>4, <2>5, <2>6 DEF Ledger
<1> QED
  BY <1>0, <1>1, <1>4, <1>5 DEF Steady, Online, NothingAhead, NoFault

\* BEGIN_CRAWL hands what waited to be sent to its crawler, which is online.
LEMMA BeginCrawlLedger ==
  ASSUME HonestPeers, LInv, BeginCrawl
  PROVE  TableFindsPage' /\ Ledger' /\ Steady' /\ NothingAhead' /\ NoFault'
<1> USE DEF treeVars, workVars
<1>0. /\ workUnit \in [Crawler -> SUBSET Url] /\ deferred \in Seq(Crawler)
      /\ owed \in [Crawler -> SUBSET Url] /\ unsent \subseteq Url /\ dropped \subseteq Url
      /\ UnitsMatch /\ TableFindsPage /\ Ledger /\ Steady /\ NothingAhead /\ NoFault
      /\ turn \in Nat
  BY DEF LInv, IInv, TypeOK
<1> DEFINE c == deferred[turn + 1]
<1>1. turn + 1 \in DOMAIN deferred
  BY <1>0 DEF BeginCrawl, LInv, IInv, Shape
<1>2. c \in Crawler /\ Online(c)
  BY <1>0, <1>1 DEF Steady
<1>3. /\ owed' = [owed EXCEPT ![c] = @ \cup (workUnit[c] \cap unsent)]
      /\ unsent' = unsent \ workUnit[c]
      /\ UNCHANGED <<assignee, pageTable, updates, dropped, session, pc, crawler, filled, deferred, fault>>
  BY <1>2 DEF BeginCrawl, HonestPeers
<1> HIDE DEF c
<1>4. /\ owed'[c] = owed[c] \cup (workUnit[c] \cap unsent)
      /\ \A d \in Crawler \ {c} : owed'[d] = owed[d]
      /\ \A u \in Url : u \in workUnit[c] <=> assignee[u] = c
  BY <1>0, <1>2, <1>3 DEF UnitsMatch
<1>5. Ledger'
  <2>1. \A d \in Crawler : \A u \in owed'[d] : assignee'[u] = d /\ u \notin unsent'
    BY <1>0, <1>3, <1>4 DEF Ledger
  <2>2. \A k \in DOMAIN updates' : \A u \in updates'[k].done :
          /\ assignee'[u] # NoCrawler /\ u \notin (unsent \cup dropped)'
          /\ \A d \in Crawler : u \notin owed'[d]
    <3>1. \A k \in DOMAIN updates : updates[k].done \subseteq Url
      BY ReportsType DEF LInv, IInv, TypeOK
    <3> QED
      BY <1>0, <1>2, <1>3, <1>4, <3>1 DEF Ledger
  <2>3. \A u \in Url : assignee'[u] # NoCrawler =>
          \/ u \in unsent' \/ u \in owed'[assignee'[u]] \/ u \in dropped'
          \/ \E k \in DOMAIN updates' : u \in updates'[k].done
    <3> SUFFICES ASSUME NEW u \in Url, assignee[u] # NoCrawler, u \notin unsent'
                 PROVE  \/ u \in owed'[assignee[u]] \/ u \in dropped
                        \/ \E k \in DOMAIN updates : u \in updates[k].done
      BY <1>3
    <3>1. assignee[u] \in Crawler
      BY DEF LInv, IInv, TypeOK
    <3>2. CASE u \in unsent
      BY <1>3, <1>4, <3>1, <3>2
    <3>3. CASE u \notin unsent
      BY <1>0, <1>4, <3>1, <3>3 DEF Ledger
    <3> QED
      BY <3>2, <3>3
  <2>4. \A u \in unsent' : assignee'[u] # NoCrawler
    BY <1>0, <1>3 DEF Ledger
  <2>5. \A j, k \in DOMAIN updates' : j # k => updates'[j].done \cap updates'[k].done = {}
    BY <1>0, <1>3 DEF Ledger
  <2>6. ASSUME NEW u \in dropped'
        PROVE  /\ assignee'[u] # NoCrawler /\ u \notin unsent'
               /\ \A d \in Crawler : u \notin owed'[d]
    <3>1. /\ u \in Url /\ assignee[u] # NoCrawler /\ u \notin unsent
          /\ \A d \in Crawler : u \notin owed[d]
      BY <1>0, <1>3 DEF Ledger
    <3> QED
      BY <1>2, <1>3, <1>4, <3>1
  <2> QED
    BY <2>1, <2>2, <2>3, <2>4, <2>5, <2>6 DEF Ledger
<1> QED
  BY <1>0, <1>3, <1>5 DEF TableFindsPage, Steady, Online, NothingAhead, NoFault

\* A report moves pages from their crawler to the list of updates.
LEMMA EndCrawlLedger ==
  ASSUME HonestPeers, IdsDistinct, LInv, NEW c \in Crawler, NEW crawled \in SUBSET owed[c],
         NEW found \in Findings, EndCrawl(c, crawled, found)
  PROVE  TableFindsPage' /\ Ledger' /\ Steady' /\ NothingAhead' /\ NoFault'
<1> USE DEF treeVars, workVars
<1> DEFINE report == [found |-> found, done |-> crawled]
<1>0. /\ owed \in [Crawler -> SUBSET Url] /\ unsent \subseteq Url /\ dropped \subseteq Url
      /\ updates \in Seq([found : SUBSET (Url \X BOOLEAN), done : SUBSET Url])
      /\ TableFindsPage /\ Ledger /\ Steady /\ NothingAhead /\ NoFault
  BY DEF LInv, IInv, TypeOK
<1>1. /\ updates' = Append(updates, report) /\ owed' = [owed EXCEPT ![c] = @ \ crawled]
      /\ UNCHANGED <<assignee, pageTable, unsent, dropped, session, pc, crawler, filled, deferred, fault>>
  BY DEF EndCrawl, runVars
<1>2. \A u \in Url : <<u, TRUE>> \notin found
  <2>1. "ahead" \notin Peer
    BY DEF HonestPeers
  <2>2. found = {} \/ \E link \in Linked \X {FALSE} : found = {link}
    BY <2>1 DEF Findings
  <2> SUFFICES ASSUME NEW u \in Url, <<u, TRUE>> \in found PROVE FALSE
    OBVIOUS
  <2>3. PICK link \in Linked \X {FALSE} : found = {link}
    BY <2>2
  <2>4. <<u, TRUE>>[2] = link[2]
    BY <2>3
  <2> QED
    BY <2>4
<1> DEFINE last == Len(updates) + 1
<1>3. report.found = found /\ report.done = crawled
  OBVIOUS
<1> HIDE DEF report
<1>4. /\ DOMAIN updates' = DOMAIN updates \cup {last} /\ last \notin DOMAIN updates
      /\ updates'[last] = report /\ \A k \in DOMAIN updates : updates'[k] = updates[k]
  BY <1>0, <1>1
<1> HIDE DEF last
<1>5. \A u \in crawled : u \in Url /\ assignee[u] = c /\ u \notin unsent
  BY <1>0 DEF Ledger
<1>6. /\ owed'[c] = owed[c] \ crawled
      /\ \A d \in Crawler \ {c} : owed'[d] = owed[d]
      /\ \A d \in Crawler : owed'[d] \subseteq owed[d]
  BY <1>0, <1>1
<1>8. Ledger'
  <2>1. ASSUME NEW k \in DOMAIN updates', NEW u \in updates'[k].done
        PROVE  /\ assignee'[u] # NoCrawler /\ u \notin (unsent \cup dropped)'
               /\ \A d \in Crawler : u \notin owed'[d]
    <3>1. CASE k = last
      <4>1. u \in crawled
        BY <1>3, <1>4, <3>1
      <4>2. \A d \in Crawler : u \notin owed'[d]
        BY <1>0, <1>5, <1>6, <4>1 DEF Ledger
      <4>3. u \notin dropped
        BY <1>0, <4>1 DEF Ledger
      <4> QED
        BY <1>1, <1>5, <4>1, <4>2, <4>3, NullAssumption
    <3>2. CASE k \in DOMAIN updates
      <4>1. updates[k].done \subseteq Url
        BY <1>0, <3>2, ReportsType
      <4> QED
        BY <1>0, <1>1, <1>4, <1>6, <3>2, <4>1 DEF Ledger
    <3> QED
      BY <1>4, <3>1, <3>2
  <2>2. \A k \in DOMAIN updates : updates[k].done \cap crawled = {}
    BY <1>0 DEF Ledger
  <2>3. \A j, k \in DOMAIN updates' : j # k => updates'[j].done \cap updates'[k].done = {}
    BY <1>0, <1>3, <1>4, <2>2 DEF Ledger
  <2>4. ASSUME NEW u \in Url, assignee'[u] # NoCrawler
        PROVE  \/ u \in unsent' \/ u \in owed'[assignee'[u]] \/ u \in dropped'
               \/ \E k \in DOMAIN updates' : u \in updates'[k].done
    <3>1. assignee[u] \in Crawler
      BY <1>1, <2>4 DEF LInv, IInv, TypeOK
    <3>2. CASE u \in crawled
      <4>1. u \in updates'[last].done
        BY <1>3, <1>4, <3>2
      <4> QED
        BY <1>4, <4>1
    <3>3. CASE u \notin crawled
      BY <1>0, <1>1, <1>4, <1>6, <2>4, <3>1, <3>3 DEF Ledger
    <3> QED
      BY <3>2, <3>3
  <2>5. \A u \in unsent' : assignee'[u] # NoCrawler
    BY <1>0, <1>1 DEF Ledger
  <2>6. \A d \in Crawler : \A u \in owed'[d] : assignee'[u] = d /\ u \notin unsent'
    BY <1>0, <1>1, <1>6 DEF Ledger
  <2>7. \A u \in dropped' : /\ assignee'[u] # NoCrawler /\ u \notin unsent'
                            /\ \A d \in Crawler : u \notin owed'[d]
    BY <1>0, <1>1, <1>6 DEF Ledger
  <2> QED
    BY <2>1, <2>3, <2>4, <2>5, <2>6, <2>7 DEF Ledger
<1>9. NothingAhead'
  BY <1>0, <1>2, <1>3, <1>4 DEF NothingAhead
<1> QED
  BY <1>0, <1>1, <1>8, <1>9 DEF TableFindsPage, Steady, Online, NoFault

\* Registration only adds sessions.
LEMMA SessionLedger ==
  ASSUME HonestPeers, LInv, NEW c \in Crawler, Register(c) \/ SetSession(c) \/ Leave(c)
  PROVE  /\ TableFindsPage' /\ Ledger' /\ Steady' /\ NothingAhead' /\ NoFault'
         /\ FirstTime'
<1> USE DEF treeVars, workVars, runVars, peerVars
<1>0. /\ session \in [Crawler -> {"absent", "online", "closed"}]
      /\ arriving \in [Crawler -> Nat]
      /\ Steady /\ FirstTime /\ NoFault
  BY DEF LInv, IInv, TypeOK
<1>1. \/ /\ session' = session /\ arriving' = [arriving EXCEPT ![c] = @ + 1]
         /\ session[c] = "absent" /\ arriving[c] = 0
      \/ /\ session' = [session EXCEPT ![c] = "online"]
         /\ arriving' = [arriving EXCEPT ![c] = @ - 1]
         /\ session[c] = "absent" /\ arriving[c] = 1
  BY <1>0 DEF Register, SetSession, Leave, Unknown, HonestPeers, FirstTime
<1>2. UNCHANGED LedgerVars /\ UNCHANGED <<fault, pc, crawler, filled, deferred>>
  BY <1>0 DEF Register, SetSession, Leave, HonestPeers, LedgerVars, FirstTime
<1>3. TableFindsPage' /\ Ledger' /\ NothingAhead' /\ NoFault'
  BY <1>2, LedgerStutters DEF LInv, NoFault
<1>4. FirstTime'
  <2> SUFFICES ASSUME NEW d \in Crawler, arriving'[d] > 0
               PROVE  arriving'[d] = 1 /\ session'[d] = "absent"
    BY DEF FirstTime
  <2>1. CASE d # c
    BY <1>0, <1>1, <2>1 DEF FirstTime
  <2>2. CASE d = c
    BY <1>0, <1>1, <2>2
  <2> QED
    BY <2>1, <2>2
<1>5. /\ \A d \in Crawler : session'[d] # "closed"
      /\ \A d \in Crawler : Online(d) => Online(d)'
  BY <1>0, <1>1 DEF Steady, Online
<1>6. Steady'
  <2>1. /\ pc \in {"room", "select", "rank"} => crawler \in Crawler
        /\ \A k \in DOMAIN deferred : deferred[k] \in Crawler
    BY DEF LInv, IInv, TypeOK, Shape
  <2> QED
    BY <1>0, <1>2, <1>5, <2>1 DEF Steady
<1> QED
  BY <1>3, <1>4, <1>6

\* Every step keeps the books whole.
LEMMA NextLedger == HonestPeers /\ IdsDistinct /\ LInv /\ [Next]_vars => LInv'
<1> SUFFICES ASSUME HonestPeers, IdsDistinct, LInv, [Next]_vars PROVE LInv'
  OBVIOUS
<1>1. IInv'
  BY NextInv DEF LInv
<1>2. CASE Task
  <2>1. TableFindsPage' /\ Ledger' /\ Steady' /\ NothingAhead' /\ NoFault'
    BY <1>2, UpdatingLedger, WalkingLedger, AssignPageLedger, BeginCrawlLedger DEF Task, Running
  <2>2. UNCHANGED <<session, arriving>>
    BY <1>2 DEF Task, Updating, Running, ScheduleFromCrawl, UpdateCrawled, UpdateScheduled,
                NextUpdate, NoUpdates, ClearUpdates, StartRun, FillCrawler, SkipOffline,
                CheckRoom, Descend, BackUp, AssignPage, Rerank, EndTurns, BeginCrawl, Sleep, Timer
  <2>3. FirstTime'
    BY <2>2 DEF LInv, FirstTime
  <2> QED
    BY <1>1, <2>1, <2>3 DEF LInv
<1>3. CASE \E c \in Crawler : Register(c) \/ SetSession(c) \/ Leave(c)
  BY <1>1, <1>3, SessionLedger DEF LInv
<1>4. ASSUME NEW c \in Crawler, NEW crawled \in SUBSET owed[c], NEW found \in Findings,
             EndCrawl(c, crawled, found)
      PROVE  LInv'
  <2>1. UNCHANGED <<session, arriving>>
    BY <1>4 DEF EndCrawl
  <2>2. FirstTime'
    BY <2>1 DEF LInv, FirstTime
  <2> QED
    BY <1>1, <1>4, <2>2, EndCrawlLedger DEF LInv
<1>5. CASE UNCHANGED vars
  <2>1. UNCHANGED LedgerVars /\ UNCHANGED <<session, arriving, pc, runVars, fault>>
    BY <1>5 DEF LedgerVars, vars, treeVars, workVars, runVars, peerVars
  <2>2. FirstTime'
    BY <2>1 DEF LInv, FirstTime
  <2> QED
    BY <1>1, <2>1, <2>2, LedgerStutters, SteadyStutters DEF LInv, NoFault
<1> QED
  BY <1>2, <1>3, <1>4, <1>5 DEF Next

\* An entry of the table is never lost while its page is assigned, whatever the peers do.
LEMMA TableStep == IdsDistinct /\ IInv /\ TableFindsPage /\ [Next]_vars => TableFindsPage'
<1> SUFFICES ASSUME IdsDistinct, IInv, TableFindsPage, [Next]_vars PROVE TableFindsPage'
  OBVIOUS
<1> USE DEF treeVars, workVars, runVars, peerVars
<1>0. /\ assignee \in [Url -> Crawler \cup {NoCrawler}]
      /\ pageTable \in [Id -> Url \cup {NoNode}]
  BY DEF IInv, TypeOK
<1>1. ASSUME NEW id \in Id, UpdateNode(id), UNCHANGED pageTable
      PROVE  TableFindsPage'
  <2>1. UNCHANGED assignee \/ assignee' = [assignee EXCEPT ![pageTable[id]] = NoCrawler]
    BY <1>1 DEF UpdateNode, Unassign
  <2> QED
    BY <1>0, <1>1, <2>1 DEF TableFindsPage
<1>2. CASE Updating
  <2>1. \A u \in Url : PageId[u] \in Id /\ Linked \subseteq Url
    BY UrlAssumption
  <2> QED
    BY <1>1, <1>2, <2>1 DEF Updating, ScheduleFromCrawl, UpdateCrawled, UpdateScheduled,
                            NextUpdate, NoUpdates, ClearUpdates, TableFindsPage
<1>3. CASE AssignPage
  <2>1. /\ cursor \in Url /\ crawler \in Crawler /\ PageId[cursor] \in Id
        /\ assignee' = [assignee EXCEPT ![cursor] = crawler]
        /\ pageTable' = [pageTable EXCEPT ![PageId[cursor]] = cursor]
    BY <1>3, UrlAssumption DEF AssignPage, Assign, CacheNode, Eligible, IInv, TypeOK, Shape
  <2>2. ASSUME NEW u \in Url, u # cursor
        PROVE  assignee'[u] = assignee[u] /\ pageTable'[PageId[u]] = pageTable[PageId[u]]
    <3>1. PageId[u] \in Id /\ PageId[u] # PageId[cursor]
      BY <2>1, <2>2, UrlAssumption DEF IdsDistinct
    <3> QED
      BY <1>0, <2>1, <2>2, <3>1
  <2>3. pageTable'[PageId[cursor]] = cursor
    BY <1>0, <2>1
  <2> QED
    BY <2>2, <2>3 DEF TableFindsPage
<1>4. CASE \/ StartRun \/ FillCrawler \/ SkipOffline \/ CheckRoom \/ Descend \/ BackUp
           \/ Rerank \/ EndTurns \/ BeginCrawl \/ Sleep \/ Timer
  BY <1>4 DEF StartRun, FillCrawler, SkipOffline, CheckRoom, Descend, BackUp, Rerank,
              EndTurns, BeginCrawl, Sleep, Timer, TableFindsPage
<1>5. CASE \E c \in Crawler : Register(c) \/ SetSession(c) \/ Leave(c)
  BY <1>5 DEF Register, SetSession, Leave, TableFindsPage
<1>6. CASE \E c \in Crawler : \E crawled \in SUBSET owed[c], found \in Findings :
             EndCrawl(c, crawled, found)
  BY <1>6 DEF EndCrawl, TableFindsPage
<1>7. CASE UNCHANGED vars
  BY <1>7 DEF vars, TableFindsPage
<1> QED
  BY <1>2, <1>3, <1>4, <1>5, <1>6, <1>7 DEF Next, Task, Running

\* The page a crawler reports on is found again, provided that ids do not collide.
THEOREM TableAlwaysFindsPage == IdsDistinct /\ Spec => []TableFindsPage
<1> SUFFICES ASSUME IdsDistinct PROVE Spec => []TableFindsPage
  OBVIOUS
<1>1. Init => TableFindsPage
  BY DEF Init, TableFindsPage
<1>2. IInv /\ TableFindsPage /\ [Next]_vars => TableFindsPage'
  BY TableStep
<1> QED
  BY <1>1, <1>2, Invariance, PTL DEF Spec

\* The books stay whole for crawlers that keep their side.
THEOREM LedgerInvariance == HonestPeers /\ IdsDistinct /\ Spec => []LInv
<1> SUFFICES ASSUME HonestPeers, IdsDistinct PROVE Spec => []LInv
  OBVIOUS
<1>1. Init => LInv
  BY InitLedger
<1>2. LInv /\ [Next]_vars => LInv'
  BY NextLedger
<1> QED
  BY <1>1, <1>2, PTL DEF Spec

\* No assertion of the scheduler fails, and no id is unknown.
THEOREM NoFaultForHonestPeers == HonestPeers /\ IdsDistinct /\ Spec => []NoFault
<1>1. LInv => NoFault
  BY DEF LInv
<1> QED
  BY <1>1, LedgerInvariance, PTL

\* Every assigned page is waiting to be sent, or with its crawler, or in one report, or
\* was in one that clear() threw away.
THEOREM LedgerKept == HonestPeers /\ IdsDistinct /\ Spec => []Ledger
<1>1. LInv => Ledger
  BY DEF LInv
<1> QED
  BY <1>1, LedgerInvariance, PTL

-------------------------------------------------------------------------------
(* The turns of one run, and what a run relies on when it passes a red node by *)

Filling == {"top", "room", "select", "rank"}

\* A crawler from some place on in deferred_crawls has the page.
Waiting(u, done) == \E k \in DOMAIN deferred : k > done /\ u \in workUnit[deferred[k]]

\* Every page assigned in this run will be listed in a BEGIN_CRAWL still to come: its
\* crawler waits for one, or will, because it is being filled.
ToBeSent ==
  /\ pc \in {"sleep", "update", "clear", "start"} => unsent = {}
  /\ pc \in Filling =>
       \A u \in unsent : Waiting(u, 0) \/ (pc # "top" /\ filled > 0 /\ u \in workUnit[crawler])
  /\ pc = "begin" => \A u \in unsent : Waiting(u, turn)

\* A crawler that waits for its BEGIN_CRAWL is not given more: it is full, or there is
\* nothing left to give.
Exhausted == visitState[Root] = "Red"
DoneWith(c) == Full(c) \/ Exhausted
FilledOnce ==
  /\ pc \in {"room", "select"} => ~Exhausted
  /\ pc \in Filling \cup {"begin"} => \A k \in DOMAIN deferred : DoneWith(deferred[k])
  /\ pc \in {"room", "select", "rank"} /\ filled > 0 => \A k \in DOMAIN deferred : deferred[k] # crawler
  /\ pc = "rank" /\ filled > 0 => DoneWith(crawler)

TurnInv == IInv /\ ToBeSent /\ FilledOnce /\ OneBeginEach

-------------------------------------------------------------------------------
\* The root is no one's child.
LEMMA RootIsNoChild == ASSUME NEW n \in Node PROVE Root \in Node /\ Root \notin Unvisited(n)
<1>1. ParentOf(Root) = NoNode
  BY DEF ParentOf
<1>2. ParentOf(Root) # n
  BY <1>1, NullAssumption
<1>3. Root \in Node
  BY DEF Node
<1> QED
  BY <1>2, <1>3 DEF Unvisited, Children

\* Nothing is assigned at the start.
LEMMA InitTurns == Init => TurnInv
<1> SUFFICES ASSUME Init PROVE TurnInv
  OBVIOUS
<1>1. ToBeSent /\ FilledOnce /\ OneBeginEach
  BY DEF Init, ToBeSent, FilledOnce, OneBeginEach, Filling
<1> QED
  BY <1>1, InitInv DEF TurnInv

\* Steps that touch neither the run nor what it looks at.
LEMMA TurnStutters ==
  ASSUME TurnInv, UNCHANGED <<unsent, workUnit, visitState, runVars, pc>>
  PROVE  ToBeSent' /\ FilledOnce' /\ OneBeginEach'
BY DEF TurnInv, ToBeSent, Waiting, FilledOnce, DoneWith, Exhausted, Full, MaxUnit, OneBeginEach, runVars

\* update_schedule gives nothing and sends nothing.
LEMMA UpdatingTurns ==
  ASSUME TurnInv, Updating
  PROVE  ToBeSent' /\ FilledOnce' /\ OneBeginEach'
<1>1. /\ pc \in {"update", "clear"} /\ pc' \in {"update", "clear", "start"}
      /\ unsent' = unsent /\ deferred' = deferred
  BY DEF Updating, ScheduleFromCrawl, UpdateCrawled, UpdateScheduled, NextUpdate, NoUpdates,
         ClearUpdates, runVars, peerVars
<1>2. ToBeSent' /\ FilledOnce'
  BY <1>1 DEF TurnInv, ToBeSent, FilledOnce, Filling
<1>3. OneBeginEach'
  BY <1>1 DEF TurnInv, OneBeginEach
<1> QED
  BY <1>2, <1>3

\* The steps of run up to the page it finds.
LEMMA FillingTurns ==
  ASSUME TurnInv, StartRun \/ FillCrawler \/ SkipOffline \/ CheckRoom \/ Descend \/ BackUp
  PROVE  ToBeSent' /\ FilledOnce' /\ OneBeginEach'
<1>0. IInv /\ ToBeSent /\ FilledOnce /\ OneBeginEach
  BY DEF TurnInv
<1> USE DEF Filling, treeVars, workVars, peerVars
<1>1. CASE StartRun
  <2>1. pc = "start" /\ unsent' = unsent
    BY <1>1 DEF StartRun
  <2>2. \/ pc' = "sleep" /\ deferred' = deferred
        \/ pc' = "top" /\ deferred' = << >>
    BY <1>1 DEF StartRun, runVars
  <2> QED
    BY <1>0, <2>1, <2>2 DEF ToBeSent, FilledOnce, OneBeginEach
<1>2. CASE FillCrawler
  <2>1. /\ pc = "top" /\ filled' = 0 /\ deferred' = deferred /\ unsent' = unsent
        /\ workUnit' = workUnit /\ visitState' = visitState
        /\ pc' = IF Exhausted THEN "rank" ELSE "room"
    BY <1>2 DEF FillCrawler, Exhausted
  <2>2. ToBeSent'
    BY <1>0, <2>1 DEF ToBeSent, Waiting
  <2>3. FilledOnce'
    BY <1>0, <2>1 DEF FilledOnce, DoneWith, Exhausted, Full, MaxUnit
  <2> QED
    BY <1>0, <2>1, <2>2, <2>3 DEF OneBeginEach
<1>3. CASE SkipOffline
  <2>1. /\ pc = "top" /\ filled' = 0 /\ deferred' = deferred /\ unsent' = unsent
        /\ workUnit' = workUnit /\ visitState' = visitState /\ pc' = "rank"
    BY <1>3 DEF SkipOffline
  <2>2. ToBeSent'
    BY <1>0, <2>1 DEF ToBeSent, Waiting
  <2>3. FilledOnce'
    BY <1>0, <2>1 DEF FilledOnce, DoneWith, Exhausted, Full, MaxUnit
  <2> QED
    BY <1>0, <2>1, <2>2, <2>3 DEF OneBeginEach
<1>4. CASE CheckRoom
  <2>1. /\ pc = "room" /\ filled' = filled /\ deferred' = deferred /\ unsent' = unsent
        /\ workUnit' = workUnit /\ visitState' = visitState /\ crawler' = crawler
        /\ pc' = IF Full(crawler) THEN "rank" ELSE "select"
    BY <1>4 DEF CheckRoom
  <2>2. ToBeSent'
    BY <1>0, <2>1 DEF ToBeSent, Waiting
  <2>3. FilledOnce'
    BY <1>0, <2>1 DEF FilledOnce, DoneWith, Exhausted, Full, MaxUnit
  <2> QED
    BY <1>0, <2>1, <2>2, <2>3 DEF OneBeginEach
<1>5. CASE Descend \/ BackUp
  <2>1. /\ pc = "select" /\ filled' = filled /\ deferred' = deferred /\ unsent' = unsent
        /\ workUnit' = workUnit /\ crawler' = crawler
    BY <1>5 DEF Descend, BackUp
  <2>0. visitState \in [Node -> {"Red", "Green", "Amber"}] /\ cursor \in Node
    BY <1>0, <2>1 DEF IInv, TypeOK, Shape
  <2>2. Root \in Node /\ Root \notin Unvisited(cursor)
    BY <2>0, RootIsNoChild
  <2>3. MarkAmber(cursor)[Root] = visitState[Root]
    BY <2>2, <2>0 DEF MarkAmber
  <2>4. \/ pc' = "select" /\ visitState'[Root] = visitState[Root]
        \/ pc' = "rank" /\ visitState'[Root] = "Red"
    BY <1>5, <2>1, <2>2, <2>0, <2>3 DEF Descend, BackUp, MarkRed, MarkAmber
  <2>5. ToBeSent'
    BY <1>0, <2>1, <2>4 DEF ToBeSent, Waiting
  <2>6. FilledOnce'
    BY <1>0, <2>1, <2>4 DEF FilledOnce, DoneWith, Exhausted, Full, MaxUnit
  <2> QED
    BY <1>0, <2>1, <2>5, <2>6 DEF OneBeginEach
<1> QED
  BY <1>1, <1>2, <1>3, <1>4, <1>5

\* A page found is given to the crawler in hand, which no BEGIN_CRAWL waits for yet.
LEMMA AssignPageTurns ==
  ASSUME TurnInv, AssignPage
  PROVE  ToBeSent' /\ FilledOnce' /\ OneBeginEach'
<1>0. IInv /\ ToBeSent /\ FilledOnce /\ OneBeginEach
  BY DEF TurnInv
<1>1. /\ pc = "select" /\ pc' = "room" /\ filled' = filled + 1 /\ deferred' = deferred
      /\ unsent' = unsent \cup {cursor} /\ crawler' = crawler
      /\ workUnit' = [workUnit EXCEPT ![crawler] = @ \cup {cursor}]
      /\ visitState' = MarkRed(cursor) /\ cursor \in pages
  BY DEF AssignPage, Assign, Eligible
<1>2. /\ workUnit \in [Crawler -> SUBSET Url] /\ crawler \in Crawler /\ filled \in Nat
      /\ deferred \in Seq(Crawler) /\ visitState \in [Node -> {"Red", "Green", "Amber"}]
      /\ cursor \in Url
  BY <1>0, <1>1 DEF IInv, TypeOK, Shape
<1>3. /\ workUnit'[crawler] = workUnit[crawler] \cup {cursor}
      /\ \A c \in Crawler \ {crawler} : workUnit'[c] = workUnit[c]
  BY <1>1, <1>2
<1>4. \A k \in DOMAIN deferred : deferred[k] \in Crawler \ {crawler}
  <2>1. ~Full(crawler) /\ ~Exhausted
    BY <1>0, <1>1 DEF IInv, RoomWhileSelecting, FilledOnce
  <2>2. \A k \in DOMAIN deferred : Full(deferred[k])
    BY <1>0, <1>1, <2>1 DEF FilledOnce, DoneWith, Filling
  <2> QED
    BY <1>2, <2>1, <2>2
<1>5. visitState'[Root] # "Red"
  <2>1. Root \in Node /\ cursor # Root /\ Root \notin Unvisited(cursor)
    BY <1>2, UrlsAreNodes, RootIsNoChild
  <2>2. visitState'[Root] = visitState[Root]
    BY <1>1, <1>2, <2>1 DEF MarkRed, MarkAmber
  <2> QED
    BY <1>0, <1>1, <2>2 DEF FilledOnce, Exhausted
<1>6. ToBeSent'
  <2>1. ASSUME NEW u \in unsent' PROVE (Waiting(u, 0) \/ (filled > 0 /\ u \in workUnit[crawler]))'
    <3>1. CASE u = cursor
      BY <1>1, <1>2, <1>3, <3>1
    <3>2. CASE u # cursor
      <4>1. Waiting(u, 0) \/ u \in workUnit[crawler]
        BY <1>0, <1>1, <2>1, <3>2 DEF ToBeSent, Filling
      <4> QED
        BY <1>1, <1>2, <1>3, <1>4, <4>1 DEF Waiting
    <3> QED
      BY <3>1, <3>2
  <2> QED
    BY <1>1, <2>1 DEF ToBeSent, Filling
<1>7. FilledOnce'
  <2>1. \A k \in DOMAIN deferred : Full(deferred[k])
    BY <1>0, <1>1 DEF FilledOnce, DoneWith, Filling
  <2>2. \A k \in DOMAIN deferred : Full(deferred[k])'
    BY <1>1, <1>3, <1>4, <2>1 DEF Full, MaxUnit
  <2> QED
    BY <1>1, <1>4, <1>5, <2>2 DEF FilledOnce, Filling, DoneWith, Exhausted
<1> QED
  BY <1>0, <1>1, <1>6, <1>7 DEF OneBeginEach

\* The crawler in hand is put on the list once, if it was given anything.
LEMMA RerankTurns ==
  ASSUME TurnInv, Rerank
  PROVE  ToBeSent' /\ FilledOnce' /\ OneBeginEach'
<1>0. IInv /\ ToBeSent /\ FilledOnce /\ OneBeginEach
  BY DEF TurnInv
<1>1. /\ pc = "rank" /\ pc' = "top" /\ deferred' = Defer /\ unsent' = unsent
      /\ workUnit' = workUnit /\ visitState' = visitState
  BY DEF Rerank, treeVars, workVars, peerVars
<1>2. crawler \in Crawler /\ deferred \in Seq(Crawler) /\ filled \in Nat
  BY <1>0, <1>1 DEF IInv, TypeOK, Shape
<1>3. CASE filled = 0
  <2>1. deferred' = deferred
    BY <1>1, <1>3 DEF Defer
  <2> QED
    BY <1>0, <1>1, <1>3, <2>1
       DEF ToBeSent, FilledOnce, OneBeginEach, Waiting, DoneWith, Exhausted, Full, MaxUnit, Filling
<1>4. CASE filled > 0
  <2> DEFINE n == Len(deferred) + 1
  <2>1. deferred' = Append(deferred, crawler)
    BY <1>1, <1>4 DEF Defer
  <2>2. /\ n \in DOMAIN deferred' /\ n > 0 /\ deferred'[n] = crawler
        /\ \A k \in DOMAIN deferred : k \in DOMAIN deferred' /\ deferred'[k] = deferred[k]
        /\ DOMAIN deferred' = DOMAIN deferred \cup {n}
    BY <1>2, <2>1
  <2> HIDE DEF n
  <2>3. ToBeSent'
    <3>1. \A u \in unsent : Waiting(u, 0)'
      BY <1>0, <1>1, <2>2 DEF ToBeSent, Waiting, Filling
    <3> QED
      BY <1>1, <3>1 DEF ToBeSent
  <2>4. FilledOnce'
    <3>1. \A k \in DOMAIN deferred' : DoneWith(deferred'[k])
      BY <1>0, <1>1, <1>4, <2>2 DEF FilledOnce, Filling
    <3> QED
      BY <1>1, <3>1 DEF FilledOnce, DoneWith, Exhausted, Full, MaxUnit
  <2>5. OneBeginEach'
    BY <1>0, <1>1, <1>4, <2>2 DEF FilledOnce, OneBeginEach
  <2> QED
    BY <2>3, <2>4, <2>5
<1> QED
  BY <1>2, <1>3, <1>4

\* Each BEGIN_CRAWL takes all of its crawler's pages off those still to be sent.
LEMMA EndingTurns ==
  ASSUME TurnInv, EndTurns \/ BeginCrawl \/ Sleep \/ Timer
  PROVE  ToBeSent' /\ FilledOnce' /\ OneBeginEach'
<1>0. IInv /\ ToBeSent /\ FilledOnce /\ OneBeginEach
  BY DEF TurnInv
<1> USE DEF Filling, treeVars, workVars, peerVars
<1>1. CASE EndTurns
  <2>1. /\ pc = "top" /\ pc' = "begin" /\ turn' = 0 /\ unsent' = unsent /\ deferred' = deferred
        /\ workUnit' = workUnit /\ visitState' = visitState
    BY <1>1 DEF EndTurns
  <2>2. FilledOnce'
    BY <1>0, <2>1 DEF FilledOnce, DoneWith, Exhausted, Full, MaxUnit
  <2> QED
    BY <1>0, <2>1, <2>2 DEF ToBeSent, Waiting, OneBeginEach
<1>2. CASE BeginCrawl
  <2>1. /\ pc = "begin" /\ pc' = "begin" /\ deferred' = deferred /\ workUnit' = workUnit
        /\ visitState' = visitState
        /\ \/ unsent' = unsent /\ turn' = turn
           \/ unsent' = unsent \ workUnit[deferred[turn + 1]] /\ turn' = turn + 1
    BY <1>2 DEF BeginCrawl
  <2>2. turn \in Nat /\ deferred \in Seq(Crawler)
    BY <1>0 DEF IInv, TypeOK
  <2>3. \A u \in unsent' : Waiting(u, turn)'
    <3>1. CASE unsent' = unsent /\ turn' = turn
      BY <1>0, <2>1, <3>1 DEF ToBeSent, Waiting
    <3>2. CASE unsent' = unsent \ workUnit[deferred[turn + 1]] /\ turn' = turn + 1
      <4> SUFFICES ASSUME NEW u \in unsent' PROVE Waiting(u, turn)'
        OBVIOUS
      <4>1. PICK k \in DOMAIN deferred : k > turn /\ u \in workUnit[deferred[k]]
        BY <1>0, <2>1, <3>2 DEF ToBeSent, Waiting
      <4>2. k # turn + 1 /\ k \in Nat
        BY <2>2, <3>2, <4>1
      <4>3. k > turn + 1
        BY <2>2, <4>1, <4>2
      <4> QED
        BY <2>1, <3>2, <4>1, <4>3 DEF Waiting
    <3> QED
      BY <2>1, <3>1, <3>2
  <2>4. FilledOnce'
    BY <1>0, <2>1 DEF FilledOnce, DoneWith, Exhausted, Full, MaxUnit
  <2> QED
    BY <1>0, <2>1, <2>3, <2>4 DEF ToBeSent, OneBeginEach
<1>3. CASE Sleep
  <2>1. pc = "begin" /\ pc' = "sleep" /\ turn = turns /\ unsent' = unsent /\ deferred' = << >>
    BY <1>3 DEF Sleep
  <2>2. turn = Len(deferred) /\ deferred \in Seq(Crawler)
    BY <1>0, <2>1 DEF IInv, Shape, TypeOK
  <2>3. unsent = {}
    BY <1>0, <2>1, <2>2 DEF ToBeSent, Waiting
  <2> QED
    BY <2>1, <2>3 DEF ToBeSent, FilledOnce, OneBeginEach
<1>4. CASE Timer
  <2>1. pc = "sleep" /\ pc' = "update" /\ unsent' = unsent /\ deferred' = deferred
    BY <1>4 DEF Timer, runVars
  <2> QED
    BY <1>0, <2>1 DEF ToBeSent, FilledOnce, OneBeginEach
<1> QED
  BY <1>1, <1>2, <1>3, <1>4

\* Every step keeps the invariant; sessions come and go without touching the run.
LEMMA NextTurns == TurnInv /\ [Next]_vars => TurnInv'
<1> SUFFICES ASSUME TurnInv, [Next]_vars PROVE TurnInv'
  OBVIOUS
<1>1. CASE Task
  BY <1>1, UpdatingTurns, FillingTurns, AssignPageTurns, RerankTurns, EndingTurns, NextInv
     DEF Task, Running, TurnInv
<1>2. ASSUME UNCHANGED <<unsent, workUnit, visitState, runVars, pc>> PROVE TurnInv'
  BY <1>2, TurnStutters, NextInv DEF TurnInv
<1>3. CASE \E c \in Crawler : Register(c) \/ SetSession(c) \/ Leave(c)
  BY <1>2, <1>3 DEF Register, SetSession, Leave, treeVars, workVars, peerVars
<1>4. CASE \E c \in Crawler : \E crawled \in SUBSET owed[c], found \in Findings :
             EndCrawl(c, crawled, found)
  BY <1>2, <1>4 DEF EndCrawl, treeVars, workVars
<1>5. CASE UNCHANGED vars
  BY <1>2, <1>5 DEF vars, treeVars, workVars, peerVars
<1> QED
  BY <1>1, <1>3, <1>4, <1>5 DEF Next

\* When the task sleeps every page assigned to a crawler was sent to it
\* (Scheduler.cpp:59-66, 73-74).
THEOREM EverythingSent == Spec => []NothingUnsent
<1>1. TurnInv => NothingUnsent
  BY DEF TurnInv, ToBeSent, NothingUnsent
<1> QED
  BY InitTurns, NextTurns, <1>1, PTL DEF Spec

\* However often a crawler comes up at the top of the queue, a run sends it one
\* BEGIN_CRAWL at most (Scheduler.cpp:57-74).
THEOREM OneBeginForEach == Spec => []OneBeginEach
<1>1. TurnInv => OneBeginEach
  BY DEF TurnInv
<1> QED
  BY InitTurns, NextTurns, <1>1, PTL DEF Spec

\* run sends a crawler less than its unit only when it has visited the whole tree
\* (Scheduler.cpp:44-49), whatever the crawlers' units are and whatever they do.
FullOrAllVisited ==
  pc = "begin" => visitState[Root] = "Red" \/ \A k \in DOMAIN deferred : Full(deferred[k])
THEOREM SentFullUnits == Spec => []FullOrAllVisited
<1>1. TurnInv => FullOrAllVisited
  BY DEF TurnInv, FilledOnce, DoneWith, Exhausted, FullOrAllVisited
<1> QED
  BY InitTurns, NextTurns, <1>1, PTL DEF Spec

-------------------------------------------------------------------------------
(* The colours, while no links turn up and no page is on the way to another *)

NoLinks == Linked = {}
PagesAtLeaves == \A u, v \in Url : u \in PathTo(v) => u = v

\* Of every node there could be, in the tree already or not.
RedIsVisited ==
  \A n \in Node : visitState[n] = "Red" => \A u \in Url : n \in PathTo(u) => ~Eligible(u)

\* A node above a page has a child on the way to it.
LEMMA ChildToward ==
  ASSUME NEW u \in pages, u \in Url, NEW n \in PathTo(u), n # u
  PROVE  \E m \in Children(n) : m \in PathTo(u) /\ m \in Node
<1>1. u \in Seq(Label)
  BY UrlAssumption
<1>2. PICK k \in 0..Len(u) : n = SubSeq(u, 1, k)
  BY DEF PathTo
<1>3. k # Len(u)
  BY <1>1, <1>2
<1> DEFINE m == SubSeq(u, 1, k + 1)
<1>4. k + 1 \in 0..Len(u) /\ k \in Nat
  BY <1>1, <1>2, <1>3
<1>5. m \in PathTo(u)
  BY <1>4 DEF PathTo
<1>6. Len(m) = k + 1 /\ m # Root
  BY <1>1, <1>4 DEF Root
<1>7. SubSeq(m, 1, k) = SubSeq(u, 1, k)
  BY <1>1, <1>4
<1>8. ParentOf(m) = n
  BY <1>2, <1>4, <1>6, <1>7 DEF ParentOf
<1>9. m \in Tree /\ m \in Node
  BY <1>5 DEF Tree, Node
<1> QED
  BY <1>5, <1>8, <1>9 DEF Children

\* A node without candidates has nothing to crawl below it: its children are red, or
\* pages that are assigned.
LEMMA NothingBelow ==
  ASSUME PagesAtLeaves, IInv, RedIsVisited, NEW n \in Node, Candidates(n) = {},
         NEW u \in Url, n \in PathTo(u), n # u
  PROVE  ~Eligible(u)
<1> SUFFICES ASSUME Eligible(u) PROVE FALSE
  OBVIOUS
<1>1. u \in pages /\ pages \subseteq Url
  BY DEF Eligible, IInv, TypeOK
<1>2. PICK m \in Children(n) : m \in PathTo(u) /\ m \in Node
  BY <1>1, ChildToward
<1>3. CASE visitState[m] = "Red"
  BY <1>2, <1>3 DEF RedIsVisited
<1>4. CASE visitState[m] # "Red"
  <2>1. Assigned(m)
    BY <1>2, <1>4 DEF Candidates, Unvisited
  <2>2. m = u
    BY <1>1, <1>2, <2>1 DEF Assigned, PagesAtLeaves
  <2> QED
    BY <2>1, <2>2 DEF Assigned, Eligible
<1> QED
  BY <1>3, <1>4

\* Nothing is red at the start.
LEMMA InitRed == Init => RedIsVisited
BY DEF Init, RedIsVisited

\* update_node takes the colour off all nodes above the page it gives back.
LEMMA UpdateNodeRed ==
  ASSUME IInv, RedIsVisited, NEW id \in Id, UpdateNode(id), pages' = pages
  PROVE  RedIsVisited'
<1> DEFINE n == pageTable[id]
<1>1. CASE visitState' = visitState /\ assignee' = assignee
  BY <1>1 DEF RedIsVisited, Eligible
<1>2. CASE visitState' = CleanState(n) /\ assignee' = [assignee EXCEPT ![n] = NoCrawler]
  <2>1. \A m \in Node : visitState'[m] = "Red" => m \notin PathTo(n) /\ visitState[m] = "Red"
    BY <1>2 DEF CleanState
  <2>2. assignee \in [Url -> Crawler \cup {NoCrawler}]
    BY DEF IInv, TypeOK
  <2>3. \A u \in Url : u # n => assignee'[u] = assignee[u]
    BY <1>2, <2>2
  <2> SUFFICES ASSUME NEW m \in Node, visitState'[m] = "Red", NEW u \in Url, m \in PathTo(u)
               PROVE  ~Eligible(u)'
    BY DEF RedIsVisited
  <2>4. u # n /\ ~Eligible(u)
    BY <2>1 DEF RedIsVisited
  <2> QED
    BY <2>3, <2>4 DEF Eligible
<1> QED
  BY <1>1, <1>2 DEF UpdateNode, Unassign, workVars

\* A node turns red when there is nothing left at it and below it.
LEMMA MarkRedRed ==
  ASSUME PagesAtLeaves, IInv, RedIsVisited, NEW n \in Node, Candidates(n) = {},
         visitState' = MarkRed(n), pages' = pages, n \in pages => assignee'[n] # NoCrawler,
         \A u \in Url : Eligible(u)' => Eligible(u)
  PROVE  RedIsVisited'
<1>1. visitState \in [Node -> {"Red", "Green", "Amber"}]
  BY DEF IInv, TypeOK
<1>2. \A m \in Node : visitState'[m] = "Red" => m = n \/ visitState[m] = "Red"
  BY <1>1 DEF MarkRed, MarkAmber
<1> SUFFICES ASSUME NEW m \in Node, visitState'[m] = "Red", NEW u \in Url, m \in PathTo(u)
             PROVE  ~Eligible(u)'
  BY DEF RedIsVisited
<1>3. CASE m = n
  <2>1. CASE u = n
    BY <2>1 DEF Eligible
  <2>2. CASE u # n
    BY <1>3, <2>2, NothingBelow
  <2> QED
    BY <2>1, <2>2
<1>4. CASE m # n
  BY <1>2, <1>4 DEF RedIsVisited
<1> QED
  BY <1>3, <1>4

\* Every step leaves red what is visited, and turns red nothing else.
LEMMA NextRed ==
  ASSUME NoLinks, PagesAtLeaves, IInv, RedIsVisited, [Next]_vars
  PROVE  RedIsVisited'
<1> USE DEF treeVars, workVars
<1>0. /\ pc = "select" => cursor \in Node /\ crawler \in Crawler
      /\ assignee \in [Url -> Crawler \cup {NoCrawler}] /\ pages \subseteq Url
  BY DEF IInv, Shape, TypeOK
<1>1. ASSUME UNCHANGED <<pages, assignee>>,
             \A n \in Node : visitState'[n] = "Red" => visitState[n] = "Red"
      PROVE  RedIsVisited'
  BY <1>1 DEF RedIsVisited, Eligible
<1>2. CASE Updating
  <2>1. ASSUME NEW u \in Url, UpdateScheduled(u) PROVE RedIsVisited'
    <3>1. PageId[u] \in Id
      BY UrlAssumption
    <3> QED
      BY <2>1, <3>1, UpdateNodeRed DEF UpdateScheduled
  <2>2. CASE NextUpdate \/ NoUpdates \/ ClearUpdates
    BY <1>1, <2>2 DEF NextUpdate, NoUpdates, ClearUpdates
  <2> QED
    BY <1>2, <2>1, <2>2 DEF Updating, NoLinks
<1>3. CASE Descend
  <2>1. visitState' = MarkAmber(cursor)
    BY <1>3 DEF Descend
  <2>2. \A n \in Node : visitState'[n] = "Red" => visitState[n] = "Red"
    BY <2>1 DEF MarkAmber
  <2> QED
    BY <1>1, <1>3, <2>2 DEF Descend
<1>4. CASE BackUp
  <2>1. /\ pc = "select" /\ Candidates(cursor) = {} /\ visitState' = MarkRed(cursor)
        /\ pages' = pages /\ assignee' = assignee /\ ~Eligible(cursor)
    BY <1>4 DEF BackUp
  <2>2. cursor \in pages => assignee'[cursor] # NoCrawler
    BY <2>1 DEF Eligible
  <2>3. \A u \in Url : Eligible(u)' => Eligible(u)
    BY <2>1 DEF Eligible
  <2> QED
    BY <1>0, <2>1, <2>2, <2>3, MarkRedRed
<1>5. CASE AssignPage
  <2>1. /\ pc = "select" /\ Candidates(cursor) = {} /\ visitState' = MarkRed(cursor)
        /\ pages' = pages /\ assignee' = [assignee EXCEPT ![cursor] = crawler] /\ cursor \in Url
    BY <1>0, <1>5 DEF AssignPage, Assign, Eligible
  <2>2. assignee'[cursor] # NoCrawler /\ \A u \in Url : u # cursor => assignee'[u] = assignee[u]
    BY <1>0, <2>1, NullAssumption
  <2>3. \A u \in Url : Eligible(u)' => Eligible(u)
    BY <2>1, <2>2 DEF Eligible
  <2> QED
    BY <1>0, <2>1, <2>2, <2>3, MarkRedRed
<1>6. CASE StartRun \/ FillCrawler \/ SkipOffline \/ CheckRoom \/ Rerank \/ EndTurns
           \/ BeginCrawl \/ Sleep \/ Timer
  BY <1>1, <1>6 DEF StartRun, FillCrawler, SkipOffline, CheckRoom, Rerank, EndTurns, BeginCrawl, Sleep, Timer
<1>7. CASE \E c \in Crawler : Register(c) \/ SetSession(c) \/ Leave(c)
  BY <1>1, <1>7 DEF Register, SetSession, Leave
<1>8. CASE \E c \in Crawler : \E crawled \in SUBSET owed[c], found \in Findings :
             EndCrawl(c, crawled, found)
  BY <1>1, <1>8 DEF EndCrawl
<1>9. CASE UNCHANGED vars
  BY <1>1, <1>9 DEF vars
<1> QED
  BY <1>2, <1>3, <1>4, <1>5, <1>6, <1>7, <1>8, <1>9 DEF Next, Task, Running

\* Red means that the node and all below it have been visited (NodeBase.hpp:62), as long
\* as no links are found and pages are at leaves.
THEOREM RedStaysVisited == Spec /\ NoLinks /\ PagesAtLeaves => []RedMeansVisited
<1> SUFFICES ASSUME NoLinks, PagesAtLeaves PROVE Spec => []RedMeansVisited
  OBVIOUS
<1>1. IInv /\ RedIsVisited /\ [Next]_vars => (IInv /\ RedIsVisited)'
  BY NextInv, NextRed
<1>2. IInv /\ RedIsVisited => RedMeansVisited
  <2>1. IInv => Tree \subseteq Node
    BY DEF IInv, TypeOK, Tree, Node
  <2> QED
    BY <2>1 DEF RedIsVisited, RedMeansVisited
<1> QED
  BY InitInv, InitRed, <1>1, <1>2, PTL DEF Spec

-------------------------------------------------------------------------------
(* The queue of crawlers *)

\* Unless a name registers twice, the crawler in run's hands stays at the top of the queue
\* whoever registers: run pops the crawler it filled and no other.
InHand == pc \in Filling => crawler = queue[1]

Registrants == {c \in Crawler : Registrations(c) > 0}

\* The crawlers below the top.  A copy of a registered crawler may displace the one in
\* hand from the top, but what a pop then takes is a copy of a crawler that is there twice.
Behind(q) == {q[p] : p \in 2..Len(q)}
RestHasAll == pc \in Filling => Registrants = {crawler} \cup Behind(queue)

QueueInv ==
  /\ IInv
  /\ Queued(queue) = Registrants /\ RestHasAll
  /\ ~SomeoneTwice => InHand /\ Once(queue)

-------------------------------------------------------------------------------
\* The top and those behind it are all that are queued.
LEMMA TopAndBehind ==
  ASSUME NEW C, NEW q \in Seq(C), q # << >>
  PROVE  Queued(q) = {q[1]} \cup Behind(q)
<1>1. 1..Len(q) = {1} \cup 2..Len(q)
  OBVIOUS
<1> QED
  BY <1>1 DEF Queued, Behind

\* Only the crawler pushed can displace the top, and then all the others are behind it.
LEMMA PushTop ==
  ASSUME NEW C, NEW q \in Seq(C), NEW key, NEW v \in C, q # << >>
  PROVE  Push(q, key, v)[1] \in {q[1], v}
<1> DEFINE m == Len(q) + 1
           grown == Append(q, v)
           R == Reached(grown, key, m, v)
<1>1. Len(q) \in Nat \ {0} /\ Len(grown) = m /\ 1 \in 1..m /\ grown[1] = q[1] /\ m \in Nat
  OBVIOUS
<1>2. Push(q, key, v) = [r \in 1..m |-> IF r \in R THEN IF r \div 2 \in R THEN grown[r \div 2] ELSE v
                                         ELSE grown[r]]
  BY <1>1 DEF Push, SiftUp
<1>3. 1 \div 2 \notin R
  <2>1. 0 \notin PathToTop[m]
    BY <1>1, PathFacts
  <2>2. 1 \div 2 = 0
    OBVIOUS
  <2> QED
    BY <2>1, <2>2 DEF Reached
<1> HIDE DEF R, grown, m
<1> QED
  BY <1>1, <1>2, <1>3

LEMMA PushBehind ==
  ASSUME NEW C, NEW q \in Seq(C), NEW key, NEW v \in C, q # << >>
  PROVE  LET pushed == Push(q, key, v)
         IN  \/ pushed[1] = q[1] /\ Behind(pushed) = Behind(q) \cup {v}
             \/ pushed[1] = v /\ Behind(pushed) = Queued(q)
<1> DEFINE m == Len(q) + 1
           N == 1..m
           grown == Append(q, v)
           pushed == Push(q, key, v)
<1>1. \E b \in Bijection(N, N) : pushed = [r \in N |-> grown[b[r]]]
  <2>1. PushReorders(q, key, v)
    BY PushPermutes
  <2> QED
    BY <2>1 DEF PushReorders
<1> HIDE DEF N, grown, pushed
<1>2. PICK b \in Bijection(N, N) : pushed = [r \in N |-> grown[b[r]]]
  BY <1>1
<1>3. b \in [N -> N] /\ \A z \in N : \E r \in N : b[r] = z
  BY BijectionFacts
<1>4. \A r, s \in N : b[r] = b[s] => r = s
  BY BijectionFacts
<1> USE DEF N, grown, pushed
<1>5. Len(q) \in Nat \ {0} /\ Len(pushed) = m
  BY PushType
<1>6. \A r \in N : pushed[r] = grown[b[r]]
  BY <1>2
<1>7. /\ \A r \in 1..Len(q) : grown[r] = q[r]
      /\ grown[m] = v /\ grown[1] = q[1]
  BY <1>5
<1>8. /\ 1 \in N /\ m \in N /\ 2..m = N \ {1} /\ m # 1
      /\ 1..Len(q) = N \ {m} /\ 2..Len(q) = N \ {1, m}
  BY <1>5
<1>9. pushed[1] \in {q[1], v}
  BY PushTop
<1> HIDE DEF N, grown, pushed, m
<1>10. Behind(pushed) = {grown[z] : z \in N \ {b[1]}}
  <2>1. Behind(pushed) = {pushed[r] : r \in N \ {1}}
    BY <1>5, <1>8 DEF Behind
  <2>2. \A r \in N \ {1} : pushed[r] = grown[b[r]] /\ b[r] \in N \ {b[1]}
    BY <1>3, <1>4, <1>6, <1>8
  <2>3. \A z \in N \ {b[1]} : \E r \in N \ {1} : b[r] = z
    BY <1>3, <1>8
  <2> QED
    BY <2>1, <2>2, <2>3
<1>11. b[1] \in N /\ pushed[1] = grown[b[1]]
  BY <1>3, <1>6, <1>8
<1>12. ASSUME NEW z \in N, grown[b[1]] = grown[z]
       PROVE  Behind(pushed) = {grown[y] : y \in N \ {z}}
  BY <1>10, <1>11, <1>12
<1>13. CASE pushed[1] = q[1]
  <2>1. Behind(pushed) = {grown[y] : y \in N \ {1}}
    BY <1>7, <1>8, <1>11, <1>12, <1>13
  <2>2. N \ {1} = (N \ {1, m}) \cup {m}
    BY <1>8
  <2>3. {grown[y] : y \in N \ {1, m}} = Behind(q)
    <3>1. \A y \in N \ {1, m} : grown[y] = q[y]
      BY <1>7, <1>8
    <3> QED
      BY <1>8, <3>1 DEF Behind
  <2> QED
    BY <1>7, <1>13, <2>1, <2>2, <2>3 DEF pushed
<1>14. CASE pushed[1] = v
  <2>1. Behind(pushed) = {grown[y] : y \in N \ {m}}
    BY <1>7, <1>8, <1>11, <1>12, <1>14
  <2>2. {grown[y] : y \in N \ {m}} = Queued(q)
    BY <1>7, <1>8 DEF Queued
  <2> QED
    BY <1>14, <2>1, <2>2 DEF pushed
<1> QED
  BY <1>9, <1>13, <1>14

\* Registrations are counted.
LEMMA RegistrationType ==
  ASSUME TypeOK, NEW c \in Crawler
  PROVE  Registrations(c) \in Nat
BY DEF TypeOK, Registrations

\* At the start the queue is the list of those that connected.
LEMMA InitQueue == Init => QueueInv
<1> SUFFICES ASSUME Init PROVE QueueInv
  OBVIOUS
<1>1. Connected \in Seq(Crawler) /\ Once(Connected)
  BY CrawlerAssumption DEF Once
<1>2. Registered = Queued(Connected) /\ Queued(Connected) \subseteq Crawler
  BY <1>1 DEF Registered, Queued
<1>3. Queued(queue) = Registrants
  <2>1. \A c \in Crawler : Registrations(c) = IF c \in Registered THEN 1 ELSE 0
    BY DEF Init, Registrations
  <2>2. Registrants = Registered
    BY <1>2, <2>1 DEF Registrants
  <2> QED
    BY <1>2, <2>2 DEF Init
<1>4. pc \notin Filling /\ queue = Connected
  BY DEF Init, Filling
<1> QED
  BY <1>1, <1>3, <1>4, InitInv DEF QueueInv, InHand, RestHasAll

\* Steps that touch neither the queue nor who is registered.
LEMMA QueueStutters ==
  ASSUME QueueInv, UNCHANGED queue, \A c \in Crawler : Registrations(c)' = Registrations(c),
         pc' \in Filling => pc \in Filling /\ crawler' = crawler, IInv'
  PROVE  QueueInv'
<1>1. Registrants' = Registrants /\ SomeoneTwice' = SomeoneTwice
  BY DEF Registrants, SomeoneTwice
<1> QED
  BY <1>1 DEF QueueInv, InHand, RestHasAll, Behind

\* A run begins with the top crawler.
LEMMA StartQueue ==
  ASSUME QueueInv, StartRun, IInv'
  PROVE  QueueInv'
<1>1. UNCHANGED <<queue, session, arriving>>
  BY DEF StartRun
<1>2. Registrants' = Registrants /\ SomeoneTwice' = SomeoneTwice
  BY <1>1 DEF Registrants, SomeoneTwice, Registrations
<1>3. CASE queue = << >>
  <2>1. pc' = "sleep"
    BY <1>3 DEF StartRun
  <2> QED
    BY <1>1, <1>2, <2>1 DEF QueueInv, InHand, RestHasAll, Filling
<1>4. CASE queue # << >>
  <2>1. queue \in Seq(Crawler)
    BY DEF QueueInv, IInv, TypeOK
  <2>2. crawler' = queue[1]
    BY <1>4, <2>1 DEF StartRun
  <2>3. Registrants = {queue[1]} \cup Behind(queue)
    BY <1>4, <2>1, TopAndBehind DEF QueueInv
  <2> QED
    BY <1>1, <1>2, <2>2, <2>3 DEF QueueInv, InHand, RestHasAll, Behind
<1> QED
  BY <1>3, <1>4

\* The crawler in hand is put back among the others, and the next one is the top.
LEMMA RerankQueue ==
  ASSUME QueueInv, Rerank, IInv'
  PROVE  QueueInv'
<1>1. pc = "rank" /\ UNCHANGED <<session, arriving>> /\ pc' = "top" /\ crawler' = Head(queue')
  BY DEF Rerank
<1>2. /\ Queued(queue) = Registrants /\ Registrants = {crawler} \cup Behind(queue)
      /\ ~SomeoneTwice => crawler = queue[1] /\ Once(queue)
  BY <1>1 DEF QueueInv, InHand, RestHasAll, Filling
<1>3. crawler \in Crawler /\ queue \in Seq(Crawler) /\ queue # << >>
  BY <1>1 DEF QueueInv, IInv, TypeOK, Shape
<1>4. PICK load : queue' = Push(Pop(queue, load), load, crawler)
  BY DEF Rerank, RerankTop
<1> DEFINE rest == Pop(queue, load)
<1>5. /\ rest \in Seq(Crawler) /\ Queued(rest) = Behind(queue)
      /\ Once(queue) => Once(rest) /\ Queued(rest) = Queued(queue) \ {queue[1]}
  BY <1>3, PopType, PopQueues DEF Behind
<1> HIDE DEF rest
<1>6. queue' = Push(rest, load, crawler)
  BY <1>4 DEF rest
<1>7. /\ Queued(queue') = Queued(rest) \cup {crawler}
      /\ Once(rest) /\ crawler \notin Queued(rest) => Once(queue')
  BY <1>3, <1>5, <1>6, PushQueues
<1>8. queue' \in Seq(Crawler) /\ queue' # << >>
  <2>1. queue' \in Seq(Crawler) /\ Len(queue') = Len(rest) + 1
    BY <1>3, <1>5, <1>6, PushType
  <2> QED
    BY <1>5, <2>1
<1>9. Registrants' = Registrants /\ SomeoneTwice' = SomeoneTwice
  BY <1>1 DEF Registrants, SomeoneTwice, Registrations
<1>10. Queued(queue') = Registrants'
  BY <1>2, <1>5, <1>7, <1>9
<1>11. crawler' = queue'[1]
  BY <1>1, <1>8
<1>12. Registrants' = {crawler'} \cup Behind(queue')
  BY <1>8, <1>10, <1>11, TopAndBehind
<1>13. ~SomeoneTwice' => Once(queue')
  BY <1>2, <1>5, <1>7, <1>9
<1> QED
  BY <1>10, <1>11, <1>12, <1>13 DEF QueueInv, InHand, RestHasAll, Behind

\* A crawler that registers for the first time is not in the queue yet; it ranks no
\* higher than any that is, so the top crawler stays where it is.
LEMMA NewcomerBelow ==
  ASSUME IInv, NEW c \in Crawler, session[c] = "absent", queue # << >>
  PROVE  Push(queue, Load, c)[1] = queue[1]
<1>1. queue \in Seq(Crawler) /\ queue[1] \in Crawler
  BY DEF IInv, TypeOK
<1> DEFINE d == queue[1]
<1> HIDE DEF d
<1>2. d \in Crawler
  BY <1>1 DEF d
<1>3. Load[c] = UnitRange
  BY DEF Load, Online
<1>4. Cardinality(workUnit[d]) <= MaxUnit(d) /\ Cardinality(workUnit[d]) \in Nat
  <2>1. workUnit[d] \in SUBSET Url
    BY <1>2 DEF IInv, TypeOK
  <2>2. IsFiniteSet(workUnit[d])
    BY <2>1, UrlAssumption, FS_Subset
  <2> QED
    BY <1>2, <2>2, FS_CardinalityType DEF IInv, WithinCapacity
<1>5. MaxUnit(d) \in Nat /\ MaxUnit(d) < UnitRange /\ UnitRange \in Nat
  BY <1>2, UnitInRange
<1>6. Load[d] = IF Online(d) THEN Cardinality(workUnit[d]) ELSE UnitRange
  BY <1>2 DEF Load
<1>7. ~ (Load[d] > UnitRange)
  BY <1>4, <1>5, <1>6
<1> QED
  BY <1>1, <1>3, <1>7, PushKeepsTop DEF d

\* A registration adds one to the queue and loses none, also when its crawler is queued
\* already and comes to lie above the one in hand.
LEMMA RegisterQueue ==
  ASSUME QueueInv, NEW c \in Crawler, Register(c), IInv'
  PROVE  QueueInv'
<1> USE DEF runVars
<1>1. /\ session' = session /\ arriving' = [arriving EXCEPT ![c] = @ + 1]
      /\ queue' = Push(queue, Load, c) /\ pc' = pc /\ crawler' = crawler
  BY DEF Register
<1>2. /\ Queued(queue) = Registrants /\ RestHasAll /\ IInv
      /\ ~SomeoneTwice => InHand /\ Once(queue)
  BY DEF QueueInv
<1>3. /\ queue \in Seq(Crawler) /\ TypeOK /\ arriving \in [Crawler -> Nat]
      /\ pc \in Filling => queue # << >>
  BY <1>2 DEF IInv, TypeOK, Shape, Filling
<1>4. \A d \in Crawler : /\ Registrations(d) \in Nat
                         /\ Registrations(d)' = IF d = c THEN Registrations(d) + 1 ELSE Registrations(d)
  BY <1>1, <1>3, RegistrationType DEF Registrations
<1>5. Registrants' = Registrants \cup {c} /\ (SomeoneTwice => SomeoneTwice')
  BY <1>4 DEF Registrants, SomeoneTwice
<1>6. /\ Queued(queue') = Queued(queue) \cup {c}
      /\ Once(queue) /\ c \notin Queued(queue) => Once(queue')
  BY <1>1, <1>3, PushQueues
<1>7. c \in Registrants \/ session[c] = "absent"
  <2>1. c \notin Registrants => Registrations(c) = 0
    BY <1>4 DEF Registrants
  <2>2. Registrations(c) = 0 => session[c] = "absent"
    BY <1>3 DEF Registrations
  <2> QED
    BY <2>1, <2>2
<1>8. RestHasAll'
  <2> SUFFICES ASSUME pc \in Filling PROVE Registrants' = {crawler} \cup Behind(queue')
    BY <1>1 DEF RestHasAll
  <2>1. queue # << >> /\ Registrants = {crawler} \cup Behind(queue)
    BY <1>2, <1>3 DEF RestHasAll
  <2>2. \/ queue'[1] = queue[1] /\ Behind(queue') = Behind(queue) \cup {c}
        \/ queue'[1] = c /\ Behind(queue') = Queued(queue)
    BY <1>1, <1>3, <2>1, PushBehind
  <2>3. CASE Behind(queue') = Behind(queue) \cup {c}
    BY <1>5, <2>1, <2>3
  <2>4. CASE queue'[1] = c /\ queue'[1] # queue[1] /\ Behind(queue') = Queued(queue)
    <3>1. c \in Registrants
      BY <1>1, <1>2, <1>7, <2>1, <2>4, NewcomerBelow
    <3> QED
      BY <1>2, <1>5, <2>1, <2>4, <3>1
  <2>5. CASE queue'[1] = c /\ queue'[1] = queue[1] /\ Behind(queue') = Queued(queue)
    <3>1. c \in Queued(queue)
      BY <1>3, <2>1, <2>5, TopAndBehind
    <3> QED
      BY <1>2, <1>5, <2>1, <2>5, <3>1
  <2> QED
    BY <2>2, <2>3, <2>4, <2>5
<1>9. ASSUME ~SomeoneTwice' PROVE InHand' /\ Once(queue')
  <2>1. c \notin Registrants /\ ~SomeoneTwice
    <3>1. Registrations(c) + 1 <= 1 /\ Registrations(c) \in Nat
      BY <1>4, <1>9 DEF SomeoneTwice
    <3> QED
      BY <1>5, <1>9, <3>1 DEF Registrants
  <2>2. Once(queue')
    BY <1>2, <1>6, <2>1
  <2>3. queue # << >> => queue'[1] = queue[1]
    BY <1>1, <1>2, <1>7, <2>1, NewcomerBelow
  <2> QED
    BY <1>1, <1>2, <1>3, <2>1, <2>2, <2>3 DEF InHand
<1> QED
  BY <1>2, <1>5, <1>6, <1>8, <1>9 DEF QueueInv

\* Every step keeps the queue in order.
LEMMA NextQueue == QueueInv /\ [Next]_vars => QueueInv'
<1> SUFFICES ASSUME QueueInv, [Next]_vars PROVE QueueInv'
  OBVIOUS
<1> USE DEF treeVars, workVars, runVars, peerVars
<1>1. IInv'
  BY NextInv DEF QueueInv
<1>2. ASSUME UNCHANGED <<queue, session, arriving>>,
             pc' \in Filling => pc \in Filling /\ crawler' = crawler
      PROVE  QueueInv'
  <2>1. \A c \in Crawler : Registrations(c)' = Registrations(c)
    BY <1>2 DEF Registrations
  <2> QED
    BY <1>1, <1>2, <2>1, QueueStutters
<1>3. CASE Updating
  <2>1. UNCHANGED <<queue, session, arriving>> /\ pc' \notin Filling
    BY <1>3 DEF Updating, ScheduleFromCrawl, UpdateCrawled, UpdateScheduled, NextUpdate,
                NoUpdates, ClearUpdates, Filling
  <2> QED
    BY <1>2, <2>1
<1>4. CASE FillCrawler \/ SkipOffline \/ CheckRoom \/ Descend \/ BackUp \/ AssignPage
  <2>1. UNCHANGED <<queue, session, arriving, crawler>> /\ pc \in Filling
    BY <1>4 DEF FillCrawler, SkipOffline, CheckRoom, Descend, BackUp, AssignPage, Filling
  <2> QED
    BY <1>2, <2>1
<1>5. CASE EndTurns \/ BeginCrawl \/ Sleep \/ Timer
  <2>1. UNCHANGED <<queue, session, arriving>> /\ pc' \notin Filling
    BY <1>5 DEF EndTurns, BeginCrawl, Sleep, Timer, Filling
  <2> QED
    BY <1>2, <2>1
<1>6. ASSUME NEW c \in Crawler, SetSession(c) \/ Leave(c) PROVE QueueInv'
  <2>1. UNCHANGED <<queue, pc, crawler>>
    BY <1>6 DEF SetSession, Leave
  <2>2. /\ session \in [Crawler -> {"absent", "online", "closed"}]
        /\ arriving \in [Crawler -> Nat]
    BY DEF QueueInv, IInv, TypeOK
  <2>3. \/ UNCHANGED <<session, arriving>>
        \/ /\ session[c] = "absent" /\ session' = [session EXCEPT ![c] = "online"]
           /\ arriving' = [arriving EXCEPT ![c] = @ - 1]
        \/ /\ session[c] = "online" /\ session' = [session EXCEPT ![c] = "closed"]
           /\ arriving' = arriving
    BY <1>6 DEF SetSession, Leave
  <2>4. ASSUME NEW d \in Crawler PROVE Registrations(d)' = Registrations(d)
    <3>1. CASE d = c
      BY <2>2, <2>3, <3>1 DEF Registrations
    <3>2. CASE d # c
      <4>1. session'[d] = session[d] /\ arriving'[d] = arriving[d]
        BY <2>2, <2>3, <3>2
      <4> QED
        BY <4>1 DEF Registrations
    <3> QED
      BY <3>1, <3>2
  <2> QED
    BY <1>1, <2>1, <2>4, QueueStutters
<1>7. ASSUME NEW c \in Crawler, NEW crawled \in SUBSET owed[c], NEW found \in Findings,
             EndCrawl(c, crawled, found)
      PROVE  QueueInv'
  <2>1. UNCHANGED <<queue, session, arriving, pc, crawler>>
    BY <1>7 DEF EndCrawl
  <2> QED
    BY <1>2, <2>1
<1>8. CASE UNCHANGED vars
  BY <1>2, <1>8 DEF vars
<1>9. CASE Task
  BY <1>1, <1>3, <1>4, <1>5, <1>9, StartQueue, RerankQueue DEF Task, Running
<1>10. CASE \E c \in Crawler : Register(c) \/ SetSession(c) \/ Leave(c)
  BY <1>1, <1>6, <1>10, RegisterQueue
<1> QED
  BY <1>7, <1>8, <1>9, <1>10 DEF Next

\* QueueInv holds throughout, whatever the peers do.
LEMMA QueueInvariance == Spec => []QueueInv
<1> QED
  BY InitQueue, NextQueue, PTL DEF Spec

\* Every crawler that registered is queued, whoever registers while run has the top crawler
\* in its hands, and once as long as no name registers twice (Scheduler.cpp:67-68,
\* Scheduler.hpp:41, sched/Session.cpp:181-182).
THEOREM RegisteredQueuedOnce == Spec => []QueuedOnce
<1>1. QueueInv => QueuedOnce
  <2> SUFFICES ASSUME QueueInv PROVE QueuedOnce
    OBVIOUS
  <2>1. queue \in Seq(Crawler) /\ Queued(queue) = Registrants /\ TypeOK
    BY DEF QueueInv, IInv, TypeOK
  <2>2. ASSUME NEW c \in Crawler, Registrations(c) > 0 PROVE Places(c) # {}
    BY <2>1, <2>2 DEF Registrants, Queued, Places
  <2>3. ASSUME ~SomeoneTwice, NEW c \in Crawler PROVE Cardinality(Places(c)) = Registrations(c)
    <3>0. Once(queue)
      BY <2>3 DEF QueueInv
    <3>1. Registrations(c) \in {0, 1}
      BY <2>1, <2>3, RegistrationType DEF SomeoneTwice
    <3>2. CASE Registrations(c) = 0
      <4>1. Places(c) = {}
        BY <2>1, <3>2 DEF Queued, Registrants, Places
      <4> QED
        BY <3>2, <4>1, FS_EmptySet
    <3>3. CASE Registrations(c) = 1
      <4>1. PICK p \in 1..Len(queue) : queue[p] = c
        BY <2>1, <3>3 DEF Registrants, Queued
      <4>2. Places(c) = {p}
        BY <2>1, <3>0, <4>1 DEF Once, Places
      <4> QED
        BY <3>3, <4>2, FS_Singleton
    <3> QED
      BY <3>1, <3>2, <3>3
  <2> QED
    BY <2>2, <2>3 DEF QueuedOnce
<1> QED
  BY <1>1, QueueInvariance, PTL

\* As long as no name registers twice, the crawler run fills is the one at the top of the
\* queue, so that the pop after it takes out that crawler (Scheduler.cpp:57-68).
THEOREM TopInHand == Spec => [](~SomeoneTwice => InHand)
<1>1. QueueInv => (~SomeoneTwice => InHand)
  BY DEF QueueInv
<1> QED
  BY <1>1, QueueInvariance, PTL

-------------------------------------------------------------------------------
(* When a run ends *)

EveryoneConnected == Registered = Crawler
AlikeCrawlers == \A c, d \in Crawler : MaxUnit(c) = MaxUnit(d)
FewCrawlers == Cardinality(Crawler) <= 4

\* The crawlers that can be given nothing; in the course of a run they only become more.
Settled == {c \in Crawler : ~Online(c) \/ Full(c)}

\* Nobody registers any more.
NobodyReturns == "return" \notin Peer
AllHere == \A c \in Crawler : session[c] \in {"online", "closed"} /\ arriving[c] = 0

\* A turn settles the crawler in hand, and the next one is not settled unless all are, so
\* that the crawlers settled are as many as the turns that were taken.
TurnsSettle ==
  /\ pc \in Filling =>
       /\ turns = Cardinality(Crawler)
       /\ Exhausted \/ Settled = Crawler \/ Cardinality(Settled \ {crawler}) >= turn
  /\ pc = "rank" => Exhausted \/ crawler \in Settled
  /\ pc = "begin" => Exhausted \/ Settled = Crawler

BusyInv == QueueInv /\ AllHere /\ TurnsSettle

\* Sets of crawlers are finite.
LEMMA CrawlersFinite ==
  ASSUME NEW S \in SUBSET Crawler
  PROVE  /\ IsFiniteSet(S) /\ Cardinality(S) \in Nat /\ Cardinality(Crawler) \in Nat
         /\ \A T \in SUBSET S : Cardinality(T) <= Cardinality(S)
<1>1. IsFiniteSet(Crawler) /\ IsFiniteSet(S)
  BY CrawlerAssumption, FS_Subset
<1> QED
  BY <1>1, FS_CardinalityType, FS_Subset

\* Everyone is connected at the start.
LEMMA InitBusy == EveryoneConnected /\ Init => BusyInv
<1> SUFFICES ASSUME EveryoneConnected, Init PROVE BusyInv
  OBVIOUS
<1>1. AllHere
  BY DEF EveryoneConnected, Init, AllHere
<1>2. TurnsSettle
  BY DEF Init, TurnsSettle, Filling
<1> QED
  BY <1>1, <1>2, InitQueue DEF BusyInv

\* Steps within a turn: nobody who was settled is to be given anything again, and red
\* trees stay red.
LEMMA TurnGoesOn ==
  ASSUME TurnsSettle, IInv, pc \in Filling, UNCHANGED <<crawler, turn, turns>>,
         Exhausted => Exhausted', Settled \subseteq Settled',
         pc' \in Filling, pc' = "rank" => Exhausted' \/ crawler \in Settled'
  PROVE  TurnsSettle'
<1>1. Settled' \subseteq Crawler /\ Settled' \ {crawler} \subseteq Crawler
  BY DEF Settled
<1>2. Cardinality(Settled \ {crawler}) <= Cardinality(Settled' \ {crawler})
  BY <1>1, CrawlersFinite
<1>3. Cardinality(Settled \ {crawler}) \in Nat /\ Cardinality(Settled' \ {crawler}) \in Nat
  <2>1. Settled \ {crawler} \subseteq Crawler
    BY DEF Settled
  <2> QED
    BY <1>1, <2>1, CrawlersFinite
<1>4. turn \in Nat
  BY DEF IInv, TypeOK
<1>5. Exhausted' \/ Settled' = Crawler \/ Cardinality(Settled' \ {crawler}) >= turn
  <2>1. CASE Exhausted
    BY <2>1
  <2>2. CASE Settled = Crawler
    BY <1>1, <2>2
  <2>3. CASE Cardinality(Settled \ {crawler}) >= turn
    BY <1>2, <1>3, <1>4, <2>3
  <2> QED
    BY <2>1, <2>2, <2>3 DEF TurnsSettle
<1>6. pc' # "begin" /\ turns' = Cardinality(Crawler)
  BY DEF Filling, TurnsSettle
<1> QED
  BY <1>5, <1>6 DEF TurnsSettle

\* The queue holds every crawler.
LEMMA QueueHoldsAll ==
  ASSUME QueueInv, AllHere
  PROVE  /\ Queued(queue) = Crawler /\ Len(queue) = Cardinality(Crawler)
         /\ InHand /\ Once(queue)
<1>1. \A c \in Crawler : Registrations(c) = 1
  BY DEF AllHere, Registrations
<1>2. ~SomeoneTwice /\ Registrants = Crawler
  BY <1>1 DEF SomeoneTwice, Registrants
<1>3. Once(queue) /\ InHand /\ Queued(queue) = Registrants /\ queue \in Seq(Crawler)
  BY <1>2 DEF QueueInv, IInv, TypeOK
<1> QED
  BY <1>2, <1>3, OnceQueued

\* Steps within a turn.
LEMMA FillingBusy ==
  ASSUME BusyInv, FillCrawler \/ SkipOffline \/ CheckRoom \/ Descend \/ BackUp
  PROVE  TurnsSettle'
<1> USE DEF treeVars, workVars
<1>1. /\ TurnsSettle /\ IInv
      /\ visitState \in [Node -> {"Red", "Green", "Amber"}]
      /\ pc \in Filling /\ crawler \in Crawler /\ (pc = "select" => cursor \in Node)
  BY DEF BusyInv, QueueInv, IInv, TypeOK, Shape, Filling, FillCrawler, SkipOffline, CheckRoom, Descend, BackUp
<1>2. UNCHANGED <<crawler, turn, turns, session, workUnit>>
  BY DEF FillCrawler, SkipOffline, CheckRoom, Descend, BackUp
<1>3. Settled' = Settled
  BY <1>2 DEF Settled, Online, Full, MaxUnit
<1>4. Exhausted => Exhausted'
  <2>1. CASE visitState' = visitState
    BY <2>1 DEF Exhausted
  <2>2. CASE pc = "select" /\ (visitState' = MarkAmber(cursor) \/ visitState' = MarkRed(cursor))
    BY <1>1, <2>2, RootIsNoChild DEF Exhausted, MarkAmber, MarkRed
  <2> QED
    BY <2>1, <2>2 DEF FillCrawler, SkipOffline, CheckRoom, Descend, BackUp
<1>5. pc' \in Filling
  BY DEF Filling, FillCrawler, SkipOffline, CheckRoom, Descend, BackUp
<1>6. pc' = "rank" => Exhausted' \/ crawler \in Settled'
  <2>1. CASE FillCrawler
    BY <1>4, <2>1 DEF FillCrawler, Exhausted
  <2>2. CASE SkipOffline
    BY <1>1, <1>3, <2>2 DEF SkipOffline, Settled
  <2>3. CASE CheckRoom
    BY <1>1, <1>3, <2>3 DEF CheckRoom, Settled
  <2>4. CASE Descend
    BY <2>4 DEF Descend
  <2>5. CASE BackUp
    <3>1. pc = "select" /\ visitState' = MarkRed(cursor) /\ (pc' = "rank" => cursor = Root)
      BY <2>5 DEF BackUp
    <3>2. Root \in Node
      BY DEF Node
    <3>3. cursor = Root => visitState'[Root] = "Red"
      BY <3>1, <3>2 DEF MarkRed, MarkAmber
    <3> QED
      BY <3>1, <3>3 DEF Exhausted
  <2> QED
    BY <2>1, <2>2, <2>3, <2>4, <2>5
<1> QED
  BY <1>1, <1>2, <1>3, <1>4, <1>5, <1>6, TurnGoesOn

\* The crawler given a page had room, unless it went offline meanwhile.
LEMMA AssignPageBusy ==
  ASSUME BusyInv, AssignPage
  PROVE  TurnsSettle'
<1>1. /\ TurnsSettle /\ IInv /\ crawler \in Crawler /\ cursor \in Node /\ ~Full(crawler)
      /\ visitState \in [Node -> {"Red", "Green", "Amber"}]
      /\ workUnit \in [Crawler -> SUBSET Url]
  BY DEF BusyInv, QueueInv, IInv, TypeOK, Shape, RoomWhileSelecting, AssignPage
<1>2. /\ pc \in Filling /\ pc' = "room" /\ UNCHANGED <<crawler, turn, turns, session>>
      /\ workUnit' = [workUnit EXCEPT ![crawler] = @ \cup {cursor}]
      /\ visitState' = MarkRed(cursor)
  BY DEF AssignPage, Assign, Filling
<1>3. Settled \subseteq Settled'
  BY <1>1, <1>2 DEF Settled, Online, Full, MaxUnit
<1>4. Exhausted => Exhausted'
  BY <1>1, <1>2, RootIsNoChild DEF Exhausted, MarkAmber, MarkRed
<1> QED
  BY <1>1, <1>2, <1>3, <1>4, TurnGoesOn DEF Filling

\* A crawler at the top of a queue in order is settled only if all are: it has the least
\* to do, and as large a unit as any other.
LEMMA SettledTop ==
  ASSUME AlikeCrawlers, IInv, NEW q \in Seq(Crawler), Heap(q, Load), Queued(q) = Crawler,
         q[1] \in Settled
  PROVE  Settled = Crawler
<1> DEFINE t == q[1]
<1>1. t \in Crawler
  BY DEF Settled
<1> HIDE DEF t
<1>2. \A c \in Crawler : /\ Cardinality(workUnit[c]) \in Nat /\ Cardinality(workUnit[c]) <= MaxUnit(c)
                         /\ MaxUnit(c) \in Nat /\ MaxUnit(c) < UnitRange /\ UnitRange \in Nat
  <2> SUFFICES ASSUME NEW c \in Crawler
               PROVE  /\ Cardinality(workUnit[c]) \in Nat /\ Cardinality(workUnit[c]) <= MaxUnit(c)
                      /\ MaxUnit(c) \in Nat /\ MaxUnit(c) < UnitRange /\ UnitRange \in Nat
    OBVIOUS
  <2>1. workUnit[c] \in SUBSET Url
    BY DEF IInv, TypeOK
  <2>2. IsFiniteSet(workUnit[c])
    BY <2>1, UrlAssumption, FS_Subset
  <2>3. Cardinality(workUnit[c]) \in Nat
    BY <2>2, FS_CardinalityType
  <2> QED
    BY <2>3, UnitInRange DEF IInv, WithinCapacity
<1>3. \A c \in Crawler : Load[c] = IF Online(c) THEN Cardinality(workUnit[c]) ELSE UnitRange
  BY DEF Load
<1>4. Load \in [Crawler -> Nat]
  BY <1>2 DEF Load
<1>5. ASSUME NEW c \in Crawler PROVE Load[t] <= Load[c]
  <2>1. PICK p \in 1..Len(q) : q[p] = c
    BY DEF Queued
  <2> QED
    BY <1>4, <2>1, HeapTop DEF t
<1>6. ASSUME NEW c \in Crawler PROVE ~Online(c) \/ Full(c)
  <2> SUFFICES ASSUME Online(c) PROVE Full(c)
    OBVIOUS
  <2>1. Load[c] = Cardinality(workUnit[c]) /\ Load[t] <= Load[c]
    BY <1>3, <1>5
  <2>2. Online(t)
    <3>1. Load[t] < UnitRange /\ Load[t] \in Nat
      BY <1>1, <1>2, <1>4, <2>1
    <3> QED
      BY <1>1, <1>2, <1>3, <3>1
  <2>3. Load[t] = MaxUnit(t)
    BY <1>1, <1>3, <2>2 DEF t, Settled, Full
  <2>4. MaxUnit(t) = MaxUnit(c)
    BY <1>1 DEF AlikeCrawlers
  <2> QED
    BY <1>1, <1>2, <2>1, <2>3, <2>4 DEF Full
<1> QED
  BY <1>6 DEF Settled

\* The next crawler in hand is one that is not settled, if there is one.
LEMMA RerankBusy ==
  ASSUME AlikeCrawlers, FewCrawlers, BusyInv, Rerank
  PROVE  TurnsSettle'
<1>1. /\ fault = "none" /\ pc = "rank" /\ pc' = "top" /\ turn' = turn + 1 /\ turns' = turns
      /\ crawler' = Head(queue') /\ UNCHANGED <<session, workUnit, visitState>>
  BY DEF Rerank, treeVars, workVars
<1>2. /\ QueueInv /\ IInv /\ AllHere /\ TurnsSettle /\ queue \in Seq(Crawler) /\ turn \in Nat
      /\ crawler \in Crawler /\ queue # << >>
  BY <1>1 DEF BusyInv, QueueInv, IInv, TypeOK, Shape
<1>3. /\ Queued(queue) = Crawler /\ Len(queue) \in 1..4
      /\ crawler = queue[1] /\ Once(queue)
  BY <1>1, <1>2, QueueHoldsAll DEF FewCrawlers, InHand, Filling
<1>4. Load \in [Crawler -> Nat]
  <2>1. \A c \in Crawler : Cardinality(workUnit[c]) \in Nat
    <3> SUFFICES ASSUME NEW c \in Crawler PROVE Cardinality(workUnit[c]) \in Nat
      OBVIOUS
    <3>1. workUnit[c] \in SUBSET Url
      BY <1>2 DEF IInv, TypeOK
    <3> QED
      BY <3>1, UrlAssumption, FS_Subset, FS_CardinalityType
  <2> QED
    BY <2>1, CrawlerAssumption DEF Load
<1> DEFINE rest == Pop(queue, Load)
<1>5. queue' = Push(rest, Load, crawler)
  BY DEF Rerank, RerankTop
<1>6. rest \in Seq(Crawler) /\ Queued(rest) = Crawler \ {crawler} /\ Heap(rest, Load)
  BY <1>2, <1>3, <1>4, PopType, PopQueues, PopOrdersFew
<1> HIDE DEF rest
<1>7. queue' \in Seq(Crawler) /\ Queued(queue') = Crawler /\ Heap(queue', Load) /\ queue' # << >>
  <2>1. queue' \in Seq(Crawler) /\ Len(queue') = Len(rest) + 1
    BY <1>2, <1>5, <1>6, PushType
  <2>2. Queued(queue') = Crawler
    <3>1. Queued(Push(rest, Load, crawler)) = Queued(rest) \cup {crawler}
      BY <1>2, <1>6, PushQueues
    <3>2. (Crawler \ {crawler}) \cup {crawler} = Crawler
      BY <1>2
    <3> QED
      BY <1>5, <1>6, <3>1, <3>2
  <2>3. Heap(queue', Load)
    BY <1>2, <1>4, <1>5, <1>6, PushHeap
  <2> QED
    BY <1>6, <2>1, <2>2, <2>3
<1>8. crawler' \in Settled => Settled = Crawler
  <2>1. crawler' = queue'[1]
    BY <1>1, <1>7
  <2> QED
    BY <1>2, <1>7, <2>1, SettledTop
<1>9. Settled' = Settled /\ Exhausted' = Exhausted
  BY <1>1 DEF Settled, Exhausted, Online, Full, MaxUnit
<1>10. Exhausted \/ Settled = Crawler \/ Cardinality(Settled \ {crawler'}) >= turn + 1
  <2> SUFFICES ASSUME ~Exhausted, Settled # Crawler PROVE Cardinality(Settled \ {crawler'}) >= turn + 1
    OBVIOUS
  <2>1. crawler \in Settled /\ Cardinality(Settled \ {crawler}) >= turn
    BY <1>1, <1>2 DEF TurnsSettle, Filling
  <2>2. IsFiniteSet(Settled) /\ Cardinality(Settled) \in Nat
    <3>1. Settled \in SUBSET Crawler
      BY DEF Settled
    <3> QED
      BY <3>1, CrawlersFinite
  <2>3. Cardinality(Settled \ {crawler}) = Cardinality(Settled) - 1
    BY <2>1, <2>2, FS_RemoveElement
  <2>4. Cardinality(Settled \ {crawler'}) = Cardinality(Settled)
    <3>1. Settled \ {crawler'} = Settled
      BY <1>8
    <3> QED
      BY <3>1
  <2>5. Cardinality(Settled) >= turn + 1
    <3> DEFINE k == Cardinality(Settled)
    <3>1. k \in Nat /\ turn \in Nat /\ k - 1 >= turn
      BY <1>2, <2>1, <2>2, <2>3
    <3> HIDE DEF k
    <3>2. k >= turn + 1
      BY <3>1
    <3> QED
      BY <3>2 DEF k
  <2> QED
    BY <2>4, <2>5
<1>11. turns' = Cardinality(Crawler)
  BY <1>1, <1>2 DEF TurnsSettle, Filling
<1> QED
  BY <1>1, <1>9, <1>10, <1>11 DEF TurnsSettle

\* After as many turns as there are crawlers all of them are settled.
LEMMA EndTurnsBusy ==
  ASSUME BusyInv, EndTurns
  PROVE  TurnsSettle'
<1>1. /\ pc = "top" /\ turn = turns /\ pc' = "begin" /\ UNCHANGED <<session, workUnit, visitState>>
  BY DEF EndTurns, treeVars, workVars
<1>2. crawler \in Crawler /\ turns = Cardinality(Crawler)
      /\ (Exhausted \/ Settled = Crawler \/ Cardinality(Settled \ {crawler}) >= turn)
  BY <1>1 DEF BusyInv, QueueInv, IInv, Shape, TurnsSettle, Filling
<1>3. Cardinality(Settled \ {crawler}) < Cardinality(Crawler)
  <2>1. Crawler \in SUBSET Crawler /\ Settled \ {crawler} \subseteq Crawler \ {crawler}
    BY DEF Settled
  <2>2. IsFiniteSet(Crawler) /\ Cardinality(Crawler) \in Nat
    BY <2>1, CrawlersFinite
  <2>3. IsFiniteSet(Crawler \ {crawler}) /\ Cardinality(Crawler \ {crawler}) = Cardinality(Crawler) - 1
    BY <1>2, <2>2, FS_RemoveElement
  <2>4. Cardinality(Settled \ {crawler}) <= Cardinality(Crawler \ {crawler})
    BY <2>1, <2>3, FS_Subset
  <2>5. Cardinality(Settled \ {crawler}) \in Nat
    <3>1. Settled \ {crawler} \in SUBSET Crawler
      BY DEF Settled
    <3> QED
      BY <3>1, CrawlersFinite
  <2> QED
    BY <2>2, <2>3, <2>4, <2>5
<1>4. Cardinality(Settled \ {crawler}) \in Nat /\ Cardinality(Crawler) \in Nat
  <2>1. Settled \ {crawler} \in SUBSET Crawler
    BY DEF Settled
  <2> QED
    BY <2>1, CrawlersFinite
<1>5. Exhausted \/ Settled = Crawler
  BY <1>1, <1>2, <1>3, <1>4
<1>6. Settled' = Settled /\ Exhausted' = Exhausted
  BY <1>1 DEF Settled, Exhausted, Online, Full, MaxUnit
<1> QED
  BY <1>1, <1>5, <1>6 DEF TurnsSettle, Filling

\* Whoever goes offline is settled.
LEMMA PeersBusy ==
  ASSUME BusyInv, UNCHANGED <<visitState, workUnit, runVars, pc>>,
         \A c \in Crawler : ~Online(c) => ~Online(c)'
  PROVE  TurnsSettle'
<1>1. Exhausted' = Exhausted /\ TurnsSettle /\ IInv
  BY DEF BusyInv, QueueInv, Exhausted
<1>2. Settled \subseteq Settled' /\ Settled' \subseteq Crawler
  BY DEF Settled, Full, MaxUnit
<1>3. UNCHANGED <<crawler, turn, turns>>
  BY DEF runVars
<1>4. CASE pc \in Filling
  BY <1>1, <1>2, <1>3, <1>4, TurnGoesOn DEF TurnsSettle, Filling
<1>5. CASE pc \notin Filling
  <2>1. pc = "begin" => Exhausted' \/ Settled' = Crawler
    BY <1>1, <1>2 DEF TurnsSettle
  <2> QED
    BY <1>5, <2>1 DEF TurnsSettle, Filling
<1> QED
  BY <1>4, <1>5

\* Every step keeps the invariant.
LEMMA NextBusy ==
  ASSUME AlikeCrawlers, FewCrawlers, NobodyReturns, BusyInv, [Next]_vars
  PROVE  BusyInv'
<1> USE DEF treeVars, workVars, peerVars
<1>0. QueueInv' /\ AllHere /\ TurnsSettle
  BY NextQueue DEF BusyInv
<1>1. CASE Updating
  <2>1. pc' \in {"update", "clear", "start"} /\ UNCHANGED <<session, arriving>>
    BY <1>1 DEF Updating, ScheduleFromCrawl, UpdateCrawled, UpdateScheduled, NextUpdate,
                NoUpdates, ClearUpdates
  <2> QED
    BY <1>0, <2>1 DEF BusyInv, AllHere, TurnsSettle, Filling
<1>2. CASE StartRun
  <2>1. UNCHANGED <<session, arriving>>
    BY <1>2 DEF StartRun
  <2>2. Len(queue) = Cardinality(Crawler)
    BY <2>1, QueueHoldsAll DEF BusyInv
  <2>3. pc' = "sleep" \/ (pc' = "top" /\ turns' = Cardinality(Crawler) /\ turn' = 0)
    BY <1>2, <2>2 DEF StartRun
  <2>4. (Settled \ {crawler})' \in SUBSET Crawler
    BY DEF Settled
  <2>5. Cardinality((Settled \ {crawler})') \in Nat
    BY <2>4, CrawlersFinite
  <2>6. TurnsSettle'
    BY <2>3, <2>5 DEF TurnsSettle, Filling
  <2> QED
    BY <1>0, <2>1, <2>6 DEF BusyInv, AllHere
<1>3. CASE FillCrawler \/ SkipOffline \/ CheckRoom \/ Descend \/ BackUp
  <2>1. UNCHANGED <<session, arriving>>
    BY <1>3 DEF FillCrawler, SkipOffline, CheckRoom, Descend, BackUp
  <2> QED
    BY <1>0, <1>3, <2>1, FillingBusy DEF BusyInv, AllHere
<1>4. CASE AssignPage
  <2>1. UNCHANGED <<session, arriving>>
    BY <1>4 DEF AssignPage
  <2> QED
    BY <1>0, <1>4, <2>1, AssignPageBusy DEF BusyInv, AllHere
<1>5. CASE Rerank
  <2>1. UNCHANGED <<session, arriving>>
    BY <1>5 DEF Rerank
  <2> QED
    BY <1>0, <1>5, <2>1, RerankBusy DEF BusyInv, AllHere
<1>6. CASE EndTurns
  <2>1. UNCHANGED <<session, arriving>>
    BY <1>6 DEF EndTurns
  <2> QED
    BY <1>0, <1>6, <2>1, EndTurnsBusy DEF BusyInv, AllHere
<1>7. CASE BeginCrawl
  <2>1. /\ pc = "begin" /\ pc' = "begin" /\ UNCHANGED <<session, arriving, workUnit, visitState>>
    BY <1>7 DEF BeginCrawl
  <2>2. Settled' = Settled /\ Exhausted' = Exhausted
    BY <2>1 DEF Settled, Exhausted, Online, Full, MaxUnit
  <2> QED
    BY <1>0, <2>1, <2>2 DEF BusyInv, AllHere, TurnsSettle, Filling
<1>8. CASE Sleep \/ Timer
  <2>1. pc' \in {"sleep", "update"} /\ UNCHANGED <<session, arriving>>
    BY <1>8 DEF Sleep, Timer
  <2> QED
    BY <1>0, <2>1 DEF BusyInv, AllHere, TurnsSettle, Filling
<1>9. ASSUME UNCHANGED <<visitState, workUnit, runVars, pc, session, arriving>> PROVE BusyInv'
  <2>1. TurnsSettle'
    BY <1>9, PeersBusy DEF Online
  <2> QED
    BY <1>0, <1>9, <2>1 DEF BusyInv, AllHere
<1>10. ASSUME NEW c \in Crawler, Register(c) \/ SetSession(c) \/ Leave(c)
       PROVE  BusyInv'
  <2>1. CASE Register(c) \/ SetSession(c)
    BY <1>0, <2>1 DEF Register, SetSession, Unknown, AllHere, NobodyReturns
  <2>2. CASE Leave(c)
    <3>1. /\ session' = [session EXCEPT ![c] = "closed"]
          /\ session \in [Crawler -> {"absent", "online", "closed"}]
          /\ UNCHANGED <<visitState, workUnit, runVars, pc, arriving>>
      BY <2>2 DEF Leave, BusyInv, QueueInv, IInv, TypeOK
    <3>2. TurnsSettle'
      BY <3>1, PeersBusy DEF Online
    <3>3. AllHere'
      BY <1>0, <3>1 DEF AllHere
    <3> QED
      BY <1>0, <3>2, <3>3 DEF BusyInv
  <2> QED
    BY <1>10, <2>1, <2>2
<1>11. CASE \E c \in Crawler : \E crawled \in SUBSET owed[c], found \in Findings :
              EndCrawl(c, crawled, found)
  BY <1>9, <1>11 DEF EndCrawl
<1>12. CASE UNCHANGED vars
  BY <1>9, <1>12 DEF vars
<1> QED
  BY <1>1, <1>2, <1>3, <1>4, <1>5, <1>6, <1>7, <1>8, <1>10, <1>11, <1>12 DEF Next, Task, Running

\* A run of up to four crawlers with units of one size, all of them registered, ends when
\* every page is assigned or every crawler that is online is full, although the reports
\* that came since the last run changed the ranks of crawlers in the queue
\* (Scheduler.cpp:44-49, 57-68).  The crawlers may leave and report as they like.
THEOREM RunUsesAll ==
  ASSUME EveryoneConnected, NobodyReturns, AlikeCrawlers, FewCrawlers, NoLinks, PagesAtLeaves
  PROVE  Spec => []AllBusyOrDone
<1>1. Init => BusyInv /\ RedIsVisited
  BY InitBusy, InitRed
<1>2. BusyInv /\ RedIsVisited /\ [Next]_vars => (BusyInv /\ RedIsVisited)'
  BY NextBusy, NextRed DEF BusyInv, QueueInv
<1>3. BusyInv /\ RedIsVisited => AllBusyOrDone
  <2> SUFFICES ASSUME BusyInv, RedIsVisited, pc = "begin" PROVE AllBusyOrDone
    BY DEF AllBusyOrDone
  <2>1. CASE Exhausted
    <3>1. Root \in Node /\ \A u \in Url : Root \in PathTo(u)
      <4>1. \A u \in Url : Root \in PathTo(u)
        <5> SUFFICES ASSUME NEW u \in Url PROVE Root \in PathTo(u)
          OBVIOUS
        <5>1. u \in Seq(Label)
          BY UrlAssumption
        <5>2. SubSeq(u, 1, 0) = << >> /\ 0 \in 0..Len(u)
          BY <5>1
        <5> QED
          BY <5>2 DEF PathTo, Root
      <4> QED
        BY <4>1 DEF Node
    <3>2. \A u \in Url : ~Eligible(u)
      BY <2>1, <3>1 DEF RedIsVisited, Exhausted
    <3>3. pages \subseteq Url
      BY DEF BusyInv, QueueInv, IInv, TypeOK
    <3> QED
      BY <3>2, <3>3 DEF AllBusyOrDone
  <2>2. CASE Settled = Crawler
    BY <2>2 DEF AllBusyOrDone, Settled
  <2> QED
    BY <2>1, <2>2 DEF BusyInv, TurnsSettle
<1> QED
  BY <1>1, <1>2, <1>3, PTL DEF Spec

===============================================================================
