------------------------------- MODULE Scheduler -------------------------------
(***************************************************************************)
(* sched/Scheduler.cpp, with the state of sched/Node, sched/PageData and   *)
(* sched/Crawler it works on, and the two users that drive it: the         *)
(* DispatcherTask of sched/Context.cpp (update_schedule, then run, then    *)
(* sleep) and the handlers of sched/Session.cpp (register a crawler, defer *)
(* the update of an END_CRAWL message).  The handlers run on other threads *)
(* of the Dispatcher's pool, so they interleave with the steps of a run.   *)
(*                                                                         *)
(* The URL tree is modelled by paths: a node is the sequence of labels on  *)
(* the way to it, a URL is the node that carries its page.  Weights are    *)
(* abstracted: select_best_child may prefer any candidate.                 *)
(***************************************************************************)
EXTENDS CrawlerQueue

CONSTANTS
  Label,        \* the parts of a URL's path through the tree
  Url,          \* the URLs that can turn up, each a non-empty label sequence
  Seeds,        \* those in the seed file (prog/scheduler.cpp)
  Linked,       \* those a crawler may find links to
  Id, PageId,   \* URL::page_id(), a function [Url -> Id]
  Crawler,      \* crawlers by name
  Cores,        \* what each registers with
  UnitPerCore,  \* 32 in the code
  UnitRange,    \* 2^16: unit_t is a uint16_t
  TallyRange,   \* 2^64: Node::visited is a size_t
  Connected,    \* crawlers registered before the first run, in order of arrival
  Peer,         \* what the crawlers at the other end may do, see below
  MaxUpdates,   \* bound on END_CRAWL messages waiting for an update
  MaxQueued,    \* bound on the registrations, and so on the length of the queue
  NoNode, NoCrawler

\* "leave"  a crawler's connection may drop at any time
\* "return" a name may register again (a crawler restarts, or two hosts share
\*          a name)
\* "recrawl" a crawler crawls every URL of every BEGIN_CRAWL it gets, as
\*          crawl/Session.cpp:133-137 says, and not once per assignment
\* "ahead"  a crawler may crawl pages it was not asked to: the second member
\*          of EndCrawl's new_urls (Messages.hpp:57)
PeerConduct == {"leave", "return", "recrawl", "ahead"}

Root == << >>
ParentOf(n) == IF n = Root THEN NoNode ELSE SubSeq(n, 1, Len(n) - 1)
PathTo(n) == {SubSeq(n, 1, k) : k \in 0..Len(n)}
Node == {Root} \cup UNION {PathTo(u) : u \in Url}

\* Crawler::max_unit_size, truncated to unit_t.
MaxUnit(c) == (UnitPerCore * Cores[c]) % UnitRange

ASSUME UrlAssumption ==
  /\ IsFiniteSet(Url)
  /\ Url \subseteq Seq(Label) \ {Root}
  /\ Seeds \subseteq Url /\ Linked \subseteq Url
  /\ PageId \in [Url -> Id]
ASSUME CrawlerAssumption ==
  /\ IsFiniteSet(Crawler)
  /\ Cores \in [Crawler -> Nat]
  /\ UnitPerCore \in Nat /\ UnitRange \in Nat \ {0} /\ TallyRange \in Nat \ {0}
  /\ Connected \in Seq(Crawler)
  /\ \A j, k \in DOMAIN Connected : Connected[j] = Connected[k] => j = k
  /\ Peer \subseteq PeerConduct
  /\ MaxUpdates \in Nat /\ MaxQueued \in Nat
ASSUME NullAssumption == NoNode \notin Node /\ NoCrawler \notin Crawler

VARIABLES
  pages,      \* URLs whose node has a PageData; the tree is what leads to them
  assignee,   \* PageData::crawler
  visitState, \* NodeBase::visit_state
  visited,    \* Node::visited
  pageTable,  \* Scheduler::page_table
  workUnit,   \* Crawler::work_unit, a set: a sorted vector of distinct URLs
  session,    \* Crawler::session: absent, online, closed
  arriving,   \* REGISTER_CRAWLER handlers that have pushed the crawler and not set it
  queue,      \* Scheduler::crawlers
  updates,    \* DeferredUpdate::updates, from the iterator of update() on
  dropped,    \* URLs in the reports that clear() threw away (history)
  pc,         \* where the DispatcherTask is
  crawler,    \* local c of run
  cursor,     \* local n of run, fill_crawler and traverse_branch
  turn, turns,\* locals i and j of run
  filled,     \* local l of run, assigned of fill_crawler
  deferred,   \* local deferred_crawls of run
  fault,      \* the assertion that aborted the process
  unsent,     \* URLs assigned since the last BEGIN_CRAWL to their crawler
  owed        \* per crawler, URLs it was sent and is still to report

treeVars == <<pages, visitState, visited, pageTable>>
workVars == <<assignee, workUnit>>
runVars == <<crawler, cursor, turn, turns, filled, deferred>>
peerVars == <<unsent, owed>>
vars == <<treeVars, workVars, runVars, peerVars,
          session, arriving, queue, updates, dropped, pc, fault>>

-------------------------------------------------------------------------------
(* The tree: utility/Tree.ipp, utility/Node.ipp, sched/Node.hpp *)

Tree == {Root} \cup UNION {PathTo(u) : u \in pages}
Children(n) == {m \in Tree : ParentOf(m) = n}
Leaf(n) == n # Root /\ Children(n) = {}
Eligible(n) == n \in pages /\ assignee[n] = NoCrawler
Assigned(n) == n \in pages /\ assignee[n] # NoCrawler

(* The crawlers: sched/Crawler.cpp *)

Online(c) == session[c] = "online"
\* (A version of full() one URL late.)
FullLate(c) == Cardinality(workUnit[c]) > MaxUnit(c)
Full(c) == Cardinality(workUnit[c]) = MaxUnit(c)

\* RankCrawler: offline crawlers rank below every online one, and tie.
Load == [c \in Crawler |-> IF Online(c) THEN Cardinality(workUnit[c]) ELSE UnitRange]

-------------------------------------------------------------------------------
TypeOK ==
  /\ pages \subseteq Url
  /\ assignee \in [Url -> Crawler \cup {NoCrawler}]
  /\ visitState \in [Node -> {"Red", "Green", "Amber"}]
  /\ visited \in [Node -> 0..TallyRange - 1]
  /\ pageTable \in [Id -> Url \cup {NoNode}]
  /\ workUnit \in [Crawler -> SUBSET Url]
  /\ session \in [Crawler -> {"absent", "online", "closed"}]
  /\ arriving \in [Crawler -> Nat]
  /\ queue \in Seq(Crawler)
  /\ updates \in Seq([found : SUBSET (Url \X BOOLEAN), done : SUBSET Url])
  /\ dropped \subseteq Url
  /\ pc \in {"sleep", "update", "clear", "start", "top", "room", "select", "rank", "begin"}
  /\ crawler \in Crawler \cup {NoCrawler}
  /\ cursor \in Node \cup {NoNode}
  /\ turn \in Nat /\ turns \in Nat /\ filled \in Nat
  /\ deferred \in Seq(Crawler)
  /\ fault \in {"none", "set_session", "begin_crawl", "unassign_crawler", "update_node"}
  /\ unsent \subseteq Url
  /\ owed \in [Crawler -> SUBSET Url]

\* main has inserted the seeds and starts the task; the crawlers that connected in
\* the meantime were pushed while they were offline, so the queue is in their order.
Registered == {Connected[k] : k \in DOMAIN Connected}
Init ==
  /\ pages = Seeds
  /\ assignee = [u \in Url |-> NoCrawler]
  /\ visitState = [n \in Node |-> "Green"]
  /\ visited = [n \in Node |-> 0]
  /\ pageTable = [i \in Id |-> NoNode]
  /\ workUnit = [c \in Crawler |-> {}]
  /\ session = [c \in Crawler |-> IF c \in Registered THEN "online" ELSE "absent"]
  /\ arriving = [c \in Crawler |-> 0]
  /\ queue = Connected
  /\ updates = << >> /\ dropped = {}
  /\ pc = "update"
  /\ crawler = NoCrawler /\ cursor = NoNode
  /\ turn = 0 /\ turns = 0 /\ filled = 0 /\ deferred = << >>
  /\ fault = "none"
  /\ unsent = {} /\ owed = [c \in Crawler |-> {}]

-------------------------------------------------------------------------------
(* DispatcherTask: update_schedule *)

\* clean_tree_branch: n and its ancestors are to be visited again, and every
\* parent on the way is told of one visited child less.
\* (A version that stops at the node.)
CleanStateOfNode(n) ==
  [visitState EXCEPT ![n] = IF Leaf(n) THEN "Green" ELSE "Amber"]
CleanState(n) ==
  [m \in Node |-> IF m \notin PathTo(n) THEN visitState[m]
                  ELSE IF Leaf(m) THEN "Green" ELSE "Amber"]
\* (A version whose tally is signed.)
CleanTallySigned(n) ==
  [m \in Node |-> IF m \in PathTo(n) \ {n} THEN visited[m] - 1 ELSE visited[m]]
CleanTally(n) ==
  [m \in Node |-> IF m \in PathTo(n) \ {n} THEN (visited[m] - 1) % TallyRange
                  ELSE visited[m]]

\* PageData::unassign_crawler: the page and its crawler forget each other.
\* (Versions that leave the URL in the crawler's work unit, and the crawler at the page.)
UnassignUnit(n) ==
  /\ workUnit' = [workUnit EXCEPT ![assignee[n]] = @ \ {n}]
  /\ UNCHANGED assignee
UnassignPage(n) ==
  /\ assignee' = [assignee EXCEPT ![n] = NoCrawler]
  /\ UNCHANGED workUnit
Unassign(n) ==
  /\ workUnit' = [workUnit EXCEPT ![assignee[n]] = @ \ {n}]
  /\ assignee' = [assignee EXCEPT ![n] = NoCrawler]

\* update_node.  An id that was never assigned has a null page_table entry; a page
\* without a crawler fails the assertion in unassign_crawler.
UpdateNode(id) ==
  LET n == pageTable[id] IN
  IF n = NoNode \/ assignee[n] = NoCrawler
  THEN /\ fault' = IF n = NoNode THEN "update_node" ELSE "unassign_crawler"
       /\ UNCHANGED <<workVars, visitState, visited>>
  ELSE /\ Unassign(n)
       /\ visitState' = CleanState(n)
       /\ visited' = CleanTally(n)
       /\ UNCHANGED fault

\* DeferredUpdate::update takes the new URLs of a message first.  A crawled one is
\* updated once it is scheduled.
ScheduleFromCrawl(u, crawled) ==
  /\ pc = "update" /\ fault = "none" /\ updates # << >>
  /\ <<u, crawled>> \in Head(updates).found
  /\ crawled => u \notin pages
  /\ pages' = pages \cup {u}
  /\ updates' = IF crawled THEN updates
                ELSE [updates EXCEPT ![1].found = @ \ {<<u, crawled>>}]
  /\ UNCHANGED <<visitState, visited, pageTable, workVars, runVars, peerVars, session,
                 arriving, queue, dropped, pc, fault>>

UpdateCrawled(u) ==
  /\ pc = "update" /\ fault = "none" /\ updates # << >>
  /\ <<u, TRUE>> \in Head(updates).found /\ u \in pages
  /\ UpdateNode(PageId[u])
  /\ updates' = [updates EXCEPT ![1].found = @ \ {<<u, TRUE>>}]
  /\ UNCHANGED <<pages, pageTable, runVars, peerVars, session, arriving, queue,
                 dropped, pc>>

\* Then the ids of the pages it was sent; done lists the pages they stand for.
UpdateScheduled(u) ==
  /\ pc = "update" /\ fault = "none" /\ updates # << >>
  /\ Head(updates).found = {} /\ u \in Head(updates).done
  /\ UpdateNode(PageId[u])
  /\ updates' = [updates EXCEPT ![1].done = @ \ {u}]
  /\ UNCHANGED <<pages, pageTable, runVars, peerVars, session, arriving, queue,
                 dropped, pc>>

NextUpdate ==
  /\ pc = "update" /\ fault = "none" /\ updates # << >>
  /\ Head(updates).found = {} /\ Head(updates).done = {}
  /\ updates' = Tail(updates)
  /\ pc' = IF Len(updates) = 1 THEN "clear" ELSE "update"
  /\ UNCHANGED <<treeVars, workVars, runVars, peerVars, session, arriving, queue,
                 dropped, fault>>

NoUpdates ==
  /\ pc = "update" /\ fault = "none" /\ updates = << >>
  /\ pc' = "clear"
  /\ UNCHANGED <<treeVars, workVars, runVars, peerVars, session, arriving, queue,
                 updates, dropped, fault>>

\* updates.clear() empties the list, of what was pushed since the loop ended as well.
Reported == UNION {updates[k].done : k \in DOMAIN updates}
ClearUpdates ==
  /\ pc = "clear" /\ fault = "none"
  /\ updates' = << >> /\ dropped' = dropped \cup Reported
  /\ pc' = "start"
  /\ UNCHANGED <<treeVars, workVars, runVars, peerVars, session, arriving, queue, fault>>

-------------------------------------------------------------------------------
(* DispatcherTask: run *)

\* run gives up if no crawler ever registered.
StartRun ==
  /\ pc = "start" /\ fault = "none"
  /\ IF queue = << >>
     THEN pc' = "sleep" /\ UNCHANGED runVars
     ELSE /\ pc' = "top"
          /\ crawler' = Head(queue) /\ cursor' = NoNode
          /\ turn' = 0 /\ turns' = Len(queue) /\ filled' = 0
          /\ deferred' = << >>
  /\ UNCHANGED <<treeVars, workVars, peerVars, session, arriving, queue, updates, dropped,
                 fault>>

\* fill_crawler goes on from where the crawler before it stopped.  It has nothing to
\* do when the whole tree has been visited.
FillCrawler ==
  /\ pc = "top" /\ fault = "none"
  /\ turn < turns /\ Online(crawler)
  /\ pc' = IF visitState[Root] = "Red" THEN "rank" ELSE "room"
  /\ cursor' = IF cursor = NoNode THEN Root ELSE cursor
  /\ filled' = 0
  /\ UNCHANGED <<treeVars, workVars, peerVars, session, arriving, queue, updates, dropped,
                 fault, crawler, turn, turns, deferred>>

SkipOffline ==
  /\ pc = "top" /\ fault = "none"
  /\ turn < turns /\ ~Online(crawler)
  /\ pc' = "rank" /\ filled' = 0
  /\ UNCHANGED <<treeVars, workVars, peerVars, session, arriving, queue, updates, dropped,
                 fault, crawler, cursor, turn, turns, deferred>>

\* The head of fill_crawler's loop: a full crawler leaves it, from the parent.
CheckRoom ==
  /\ pc = "room" /\ fault = "none"
  /\ IF Full(crawler)
     THEN pc' = "rank" /\ cursor' = ParentOf(cursor)
     ELSE pc' = "select" /\ UNCHANGED cursor
  /\ UNCHANGED <<treeVars, workVars, peerVars, session, arriving, queue, updates, dropped,
                 fault, crawler, turn, turns, filled, deferred>>

\* select_best_child: every child not visited becomes Amber, those that carry an
\* assigned page are no candidates.
Unvisited(n) == {m \in Children(n) : visitState[m] # "Red"}
Candidates(n) == {m \in Unvisited(n) : ~Assigned(m)}
MarkAmber(n) ==
  [m \in Node |-> IF m \in Unvisited(n) THEN "Amber" ELSE visitState[m]]

\* traverse_branch goes down to the best child.
Descend ==
  /\ pc = "select" /\ fault = "none"
  /\ cursor' \in Candidates(cursor)
  /\ visitState' = MarkAmber(cursor)
  /\ UNCHANGED <<pages, visited, pageTable, workVars, peerVars, session, arriving, queue,
                 updates, dropped, pc, fault, crawler, turn, turns, filled, deferred>>

\* No child is a candidate: select_best_child marks the node and tells its parent.
MarkRed(n) == [MarkAmber(n) EXCEPT ![n] = "Red"]
CountVisited(n) ==
  IF n = Root THEN visited
  ELSE [visited EXCEPT ![ParentOf(n)] = (@ + 1) % TallyRange]

\* traverse_branch backs up from a node that has nothing to crawl, and gives up at
\* the root; fill_crawler then starts from the root the next time.
BackUp ==
  /\ pc = "select" /\ fault = "none"
  /\ Candidates(cursor) = {} /\ ~Eligible(cursor)
  /\ visitState' = MarkRed(cursor)
  /\ visited' = CountVisited(cursor)
  /\ IF cursor = Root
     THEN pc' = "rank" /\ UNCHANGED cursor
     ELSE cursor' = ParentOf(cursor) /\ UNCHANGED pc
  /\ UNCHANGED <<pages, pageTable, workVars, peerVars, session, arriving, queue, updates,
                 dropped, fault, crawler, turn, turns, filled, deferred>>

\* fill_crawler caches the node under its page's id, for update_node.
\* (A version that does not.)
CacheNothing(n) == pageTable
CacheNode(n) == [pageTable EXCEPT ![PageId[n]] = n]

\* PageData::assign_crawler: the page and its crawler know each other.
Assign(n, c) ==
  /\ assignee' = [assignee EXCEPT ![n] = c]
  /\ workUnit' = [workUnit EXCEPT ![c] = @ \cup {n}]

\* traverse_branch found a page to crawl, and fill_crawler assigns it.
AssignPage ==
  /\ pc = "select" /\ fault = "none"
  /\ Candidates(cursor) = {} /\ Eligible(cursor)
  /\ visitState' = MarkRed(cursor)
  /\ visited' = CountVisited(cursor)
  /\ pageTable' = CacheNode(cursor)
  /\ Assign(cursor, crawler)
  /\ unsent' = unsent \cup {cursor}
  /\ filled' = filled + 1
  /\ cursor' = ParentOf(cursor)
  /\ pc' = "room"
  /\ UNCHANGED <<pages, owed, session, arriving, queue, updates, dropped, fault, crawler,
                 turn, turns, deferred>>

\* Only a crawler that was given pages is sent a message, after all turns.
\* (Versions that leave out a single page, and that send in any case.)
DeferSeveral == IF filled > 1 THEN Append(deferred, crawler) ELSE deferred
DeferAny == Append(deferred, crawler)
Defer == IF filled > 0 THEN Append(deferred, crawler) ELSE deferred

\* The top of the queue is popped and the crawler pushed again.
\* (A version that relies on the queue to reorder itself.)
RerankNothing(c) == UNCHANGED queue
RerankTop(c) ==
  \E load \in {Load} : \E rest \in {Pop(queue, load)} : queue' = Push(rest, load, c)

\* run takes the top crawler off the queue and puts the one it filled back on.
Rerank ==
  /\ pc = "rank" /\ fault = "none"
  /\ deferred' = Defer
  /\ RerankTop(crawler)
  /\ crawler' = Head(queue') /\ turn' = turn + 1
  /\ pc' = "top"
  /\ UNCHANGED <<treeVars, workVars, peerVars, session, arriving, updates, dropped, fault,
                 cursor, turns, filled>>

EndTurns ==
  /\ pc = "top" /\ fault = "none" /\ turn = turns
  /\ pc' = "begin" /\ turn' = 0 /\ turns' = Len(deferred)
  /\ UNCHANGED <<treeVars, workVars, peerVars, session, arriving, queue, updates, dropped,
                 fault, crawler, cursor, filled, deferred>>

\* Crawler::begin_crawl, which asserts that the crawler is still online and sends it
\* its whole work unit.
BeginCrawl ==
  /\ pc = "begin" /\ fault = "none" /\ turn < turns
  /\ LET c == deferred[turn + 1]
         News == IF "recrawl" \in Peer THEN workUnit[c] ELSE workUnit[c] \cap unsent
     IN  IF Online(c)
         THEN /\ owed' = [owed EXCEPT ![c] = @ \cup News]
              /\ unsent' = unsent \ workUnit[c]
              /\ turn' = turn + 1
              /\ UNCHANGED fault
         ELSE fault' = "begin_crawl" /\ UNCHANGED <<peerVars, turn>>
  /\ UNCHANGED <<treeVars, workVars, session, arriving, queue, updates, dropped, pc,
                 crawler, cursor, turns, filled, deferred>>

\* The task is done and arms its timer; the locals of run are gone.
Sleep ==
  /\ pc = "begin" /\ fault = "none" /\ turn = turns
  /\ pc' = "sleep"
  /\ crawler' = NoCrawler /\ cursor' = NoNode
  /\ turn' = 0 /\ turns' = 0 /\ filled' = 0 /\ deferred' = << >>
  /\ UNCHANGED <<treeVars, workVars, peerVars, session, arriving, queue, updates, dropped,
                 fault>>

Timer ==
  /\ pc = "sleep" /\ fault = "none"
  /\ pc' = "update"
  /\ UNCHANGED <<treeVars, workVars, runVars, peerVars, session, arriving, queue, updates,
                 dropped, fault>>

-------------------------------------------------------------------------------
(* Session handlers, on other threads *)

\* The RegisterCrawler handler, first half: Context::create_crawler finds the crawler
\* of that name or makes one, Scheduler::register_crawler pushes it.
\* A crawler of a known name is pushed again, whatever became of its session and also
\* while another registration of it is under way.
\* (A version that sets the session before it pushes.)
Unknown(c) == session[c] = "absent" /\ arriving[c] = 0
RegisterOnline(c) ==
  /\ fault = "none" /\ Len(queue) < MaxQueued
  /\ Unknown(c)
  /\ session' = [session EXCEPT ![c] = "online"]
  /\ queue' = Push(queue, [Load EXCEPT ![c] = 0], c)
  /\ UNCHANGED <<treeVars, workVars, runVars, peerVars, arriving, updates, dropped, pc, fault>>
Register(c) ==
  /\ fault = "none" /\ Len(queue) < MaxQueued
  /\ Unknown(c) \/ "return" \in Peer
  /\ arriving' = [arriving EXCEPT ![c] = @ + 1]
  /\ queue' = Push(queue, Load, c)
  /\ UNCHANGED <<treeVars, workVars, runVars, peerVars, session, updates, dropped, pc, fault>>

\* ... second half: Crawler::set_session, which asserts that there is no session yet.
SetSession(c) ==
  /\ fault = "none" /\ arriving[c] > 0
  /\ IF session[c] = "absent"
     THEN /\ session' = [session EXCEPT ![c] = "online"]
          /\ arriving' = [arriving EXCEPT ![c] = @ - 1]
          /\ UNCHANGED fault
     ELSE fault' = "set_session" /\ UNCHANGED <<session, arriving>>
  /\ UNCHANGED <<treeVars, workVars, runVars, peerVars, queue, updates, dropped, pc>>

\* The connection drops: the session goes offline, its crawler keeps it.
Leave(c) ==
  /\ fault = "none" /\ "leave" \in Peer
  /\ session[c] = "online"
  /\ session' = [session EXCEPT ![c] = "closed"]
  /\ owed' = [owed EXCEPT ![c] = {}]
  /\ UNCHANGED <<treeVars, workVars, runVars, unsent, arriving, queue, updates, dropped,
                 pc, fault>>

\* The EndCrawl handler: crawler c reports pages it was sent, and at most one link.
EndCrawl(c, crawled, found) ==
  /\ fault = "none"
  /\ Online(c) /\ Len(updates) < MaxUpdates
  /\ crawled \subseteq owed[c]
  /\ crawled # {} \/ found # {}
  /\ updates' = Append(updates, [found |-> found, done |-> crawled])
  /\ owed' = [owed EXCEPT ![c] = @ \ crawled]
  /\ UNCHANGED <<treeVars, workVars, runVars, unsent, session, arriving, queue, dropped,
                 pc, fault>>

\* What a message may list as new_urls.
Findings ==
  LET Visited == IF "ahead" \in Peer THEN BOOLEAN ELSE {FALSE}
  IN  {{}} \cup {{link} : link \in Linked \X Visited}

-------------------------------------------------------------------------------
Updating ==
  \/ \E u \in Linked, crawled \in BOOLEAN : ScheduleFromCrawl(u, crawled)
  \/ \E u \in Linked : UpdateCrawled(u)
  \/ \E u \in Url : UpdateScheduled(u)
  \/ NextUpdate \/ NoUpdates \/ ClearUpdates

Running ==
  \/ StartRun \/ FillCrawler \/ SkipOffline \/ CheckRoom
  \/ Descend \/ BackUp \/ AssignPage \/ Rerank \/ EndTurns
  \/ BeginCrawl \/ Sleep \/ Timer

Task == Updating \/ Running

Next ==
  \/ Task
  \/ \E c \in Crawler : Register(c) \/ SetSession(c) \/ Leave(c)
  \/ \E c \in Crawler : \E crawled \in SUBSET owed[c], found \in Findings :
       EndCrawl(c, crawled, found)

Spec == Init /\ [][Next]_vars

\* The io_service runs every handler posted to it, so a task once started goes on and
\* the timer fires.
TaskFairness == WF_vars(Task)

\* A crawler that was sent pages reports on some of them in time.
PeerFairness == \A c \in Crawler : WF_vars(\E u \in owed[c] : EndCrawl(c, {u}, {}))

FairSpec == Spec /\ TaskFairness /\ PeerFairness

-------------------------------------------------------------------------------
(* Properties *)

\* A page and a crawler agree on who crawls what: the page names the crawler exactly
\* when the crawler's work unit lists the page.  The two are kept in different
\* objects and changed by different calls (PageData.cpp:22-38, Crawler.cpp:28-48).
UnitsMatch ==
  \A u \in Url, c \in Crawler : u \in workUnit[c] <=> assignee[u] = c

\* No crawler is given more than its unit, although full() tests for equality only
\* and is asked only between two assignments (Crawler.hpp:39-41, Scheduler.cpp:217).
WithinCapacity == \A c \in Crawler : Cardinality(workUnit[c]) <= MaxUnit(c)

\* The page a crawler reports on is found again: the entry update_node looks up for an
\* assigned page leads to that page (Scheduler.cpp:89, 222).
TableFindsPage == \A u \in Url : assignee[u] # NoCrawler => pageTable[PageId[u]] = u

\* A run sends a crawler at most one BEGIN_CRAWL, however often the crawler comes up
\* at the top of the queue (Scheduler.cpp:57-74).
OneBeginEach == \A i, j \in DOMAIN deferred : deferred[i] = deferred[j] => i = j

\* Every crawler that registered is in the queue, also when one registers while run has
\* the top crawler in its hands: run pops whatever is on top and pushes the one it filled
\* (Scheduler.cpp:67-68, Scheduler.hpp:41).  It is there once as long as no name registers
\* a second time.  A copy pushed then may rise above the crawler in hand, which is pushed
\* back without having been popped; even so nobody is lost.
Registrations(c) == arriving[c] + (IF session[c] = "absent" THEN 0 ELSE 1)
SomeoneTwice == \E c \in Crawler : Registrations(c) > 1
Places(c) == {p \in DOMAIN queue : queue[p] = c}
QueuedOnce ==
  /\ \A c \in Crawler : Registrations(c) > 0 => Places(c) # {}
  /\ ~SomeoneTwice => \A c \in Crawler : Cardinality(Places(c)) = Registrations(c)

\* With crawlers that stay connected and report each assignment once, no assertion of
\* the scheduler fails and every id it is given is in its page_table (PageData.cpp:25,
\* 34; Crawler.cpp:24, 44, 53; Scheduler.cpp:89-90).
NoFault == fault = "none"

\* "Red: this node and all children have been visited" (NodeBase.hpp:62): there is
\* nothing left to crawl at or below a red node.
RedMeansVisited ==
  \A n \in Tree : visitState[n] = "Red" => \A u \in Url : n \in PathTo(u) => ~Eligible(u)

\* When a run is over, either nothing is left to assign or every crawler it could use
\* has reached full capacity: the reason why run may stop (Scheduler.cpp:44-49).
AllBusyOrDone ==
  pc = "begin" =>
    \/ \A u \in pages : ~Eligible(u)
    \/ \A c \in Crawler : Online(c) => Full(c)

\* When the task sleeps, every page assigned to a crawler was sent to it: no page is
\* assigned without a BEGIN_CRAWL that lists it (Scheduler.cpp:59-66, 73-74).
NothingUnsent == pc = "sleep" => unsent = {}

\* Every assigned page is in one place: it waits to be sent, or is with its crawler, or
\* in one report that waits for update_schedule, or was in one that clear() threw away.
\* The tree, the message and the list of updates each hold a part of this on their own
\* (Scheduler.cpp:59-74, sched/Session.cpp:192-206, DeferredUpdate.cpp:44-61).
Ledger ==
  /\ \A u \in dropped :
       assignee[u] # NoCrawler /\ u \notin unsent /\ \A c \in Crawler : u \notin owed[c]
  /\ \A u \in unsent : assignee[u] # NoCrawler
  /\ \A c \in Crawler : \A u \in owed[c] : assignee[u] = c /\ u \notin unsent
  /\ \A k \in DOMAIN updates : \A u \in updates[k].done :
       /\ assignee[u] # NoCrawler /\ u \notin unsent \cup dropped
       /\ \A c \in Crawler : u \notin owed[c]
  /\ \A j, k \in DOMAIN updates : j # k => updates[j].done \cap updates[k].done = {}
  /\ \A u \in Url : assignee[u] # NoCrawler =>
       \/ u \in unsent \/ u \in owed[assignee[u]] \/ u \in dropped
       \/ \E k \in DOMAIN updates : u \in updates[k].done

\* A run comes to its end: fill_crawler and traverse_branch walk up and down the tree
\* without a counter that bounds them (Scheduler.cpp:119-143, 215-235).
RunEnds == pc = "top" ~> pc = "sleep"

\* A page given to a crawler that reports what it was sent becomes eligible again, unless
\* clear() throws the report away: nothing else forgets an assignment between the tree,
\* the message and the update.
WorkReleased ==
  \A u \in Url : assignee[u] # NoCrawler ~> assignee[u] = NoCrawler \/ u \in dropped

\* The scheduler implements the sharing out of pages CrawlAllocation promises: the
\* crawler a page names is its owner, the pages in the tree are the known ones.
Allocation ==
  INSTANCE CrawlAllocation WITH
    known <- pages, owner <- assignee, Capacity <- [c \in Crawler |-> MaxUnit(c)]
ImplementsAllocation == Allocation!Spec
=============================================================================
