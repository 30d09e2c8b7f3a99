# Oodles in TLA+

Oodles (`src/README`) is a distributed web crawler. A scheduler process keeps a tree of URLs and
shares out the pages in it among crawler processes that connect to it over TCP; a crawler is sent
BEGIN_CRAWL messages that list URLs and answers with END_CRAWL messages that report on them. This
directory holds TLA+ models of the parts of the program, TLC configurations that check them on
small instances, and proofs for every size that TLAPS checks. `PROJECT.json` lists the components,
runs, mutants, hazards and theorems, and the source lines each definition stands for.

## The system

| Component | State | Operations | Properties that make it correct |
|---|---|---|---|
| Scheduler (`sched/Scheduler`) | tree of nodes with visit state and tally, `page_table`, heap of crawlers | `run` (`fill_crawler`, `traverse_branch`, `select_best_child`), `update_schedule`, `schedule`, `register_crawler` | a page is given to one crawler at a time, within its capacity; a run ends, leaves no capacity idle and sends all it assigned; reports find their page |
| Pages, crawlers (`sched/PageData`, `sched/Node`, `sched/Crawler`) | who crawls what, kept on both sides; weights | assign, unassign, `add_url`, `remove_url`, `set_session`, `begin_crawl` | both sides agree; no assertion fails |
| Deferred updates (`sched/DeferredUpdate`) | list of updates, each an event | `defer`, `update` | every report is applied, and while its message is there |
| Sessions of the scheduler (`sched/Session`) | dialog context, garbage of messages | handlers of REGISTER_CRAWLER and END_CRAWL, `trash`, `receive` | a message is deleted once, after its last use |
| Events (`utility/Event`, `Subscriber`, `Publisher`) | subscribers of an event, events of a subscriber | subscribe, unsubscribe, publish | what is published reaches its subscribers; no stale address is used |
| Context, task, Dispatcher (`sched/Context`, `utility/Dispatcher`) | timer, thread pool | `DispatcherTask`: update, run, sleep | the task comes back for ever |
| Crawler program (`crawl/*`) | session, dialog context | register, begin, end, stop | the two dialogs fit together, however messages cross; one crawler's end is not the scheduler's |
| OOP protocol (`net/oop`) | queues of messages in and out, partial message, byte counts | push, pop, message to buffer, buffer to message | messages arrive once, whole, in order |
| Network core (`net/core`) | socket, guards, buffers, acceptor, resolver's iterator | start, async send and receive, callbacks, accept, resolve, connect, stop | no byte is sent twice or lost; a peer waits for no one for ever; who is gone is noticed |
| Message factory (`net/oop/Factory`, `utility/BitSet`) | registry of prototypes, set of ids in words | enroll, create | the message created is of the id asked for |
| HTTP (`net/http`) | messages out and in, descriptors of responses, where each body is | request, response, headers and bodies to and from buffers | a descriptor gets the body of its own request; each request is answered; no loop of the protocol goes on for ever |
| Linker (`utility/Linker`) | each side's copy of the link between a context and a session | link, unlink, complement, destroy | a session finds the context that started it |
| Tree (`utility/Tree`, `Node`, `IndexedSet`, `NodeIO`) | children in order, indices, the trail of a run | insert, drop a crumb, draw | a path leads to one node; the graph drawn is the walk |
| Allocator (`utility/Chunk`, `ChunkManager`, `ObjectAllocator`) | chunks, free lists in free blocks, hints, the spare | allocate, deallocate | a block has one owner and is found again; pointers into the vector stay inside |
| URLs (`url`) | the parser's position and state, an iterator's | parse, normalise, print, iterate, hash | what is written is read again; a walk meets each part once; an id stands for one page |
| HTML (`html`) | none between calls | parse | - |

What is hard in this system: the handlers of all sessions, the task and the posted calls run on a
pool of `hardware_concurrency()` threads and share the scheduler's tree, heap and list without a
lock; crawlers come and go; state is read and used later (a session that was online, a rank in a
heap, the last element of a list, an address that stands for an object). Connections bring messages
and bodies in pieces that end anywhere, and errors in callbacks that nothing around the pool's
threads catches. And several structures find things by position: a pointer kept into a vector, a
rank in a bit set, a crumb that is a depth and a place among siblings.

## Modules

| Module | What it is |
|---|---|
| `CrawlerQueue` | `std::priority_queue<Crawler*, deque, RankCrawler>` as libstdc++'s binary heap |
| `Scheduler` | the scheduler, the task that drives it, the handlers that interleave with it |
| `CrawlAllocation` | abstract: what the scheduler promises of pages and crawlers |
| `DeferredUpdate` | a report's way from its handler to the tree and to its deletion |
| `MessageChannel` | abstract: messages are handled once, in order |
| `OopChannel` | one direction of a connection: OOP protocol, endpoint, buffers |
| `Connection` | clients that resolve, connect and retry, the server that accepts, the dialog of the sessions, and how either ends |
| `HttpExchange` | both ends of an HTTP connection: message, protocol, session, endpoint |
| `BlockStore` | abstract: what an allocator promises |
| `Chunk`, `ChunkManager` | the free list of a chunk, and the chunks of one block size with their hints |
| `UrlParser`, `UrlIterators` | the parser's states, normalise and printing; `Iterator` and `TreeIterator` |
| `Registry` | the factory's registry and the bit set it is indexed by |
| `Linker` | links of contexts and sessions |
| `BreadCrumbs` | the tree as it grows, the trail of a run on it, the printer that follows the trail |
| `Weights` | how the weight of a page changes those of its ancestors |
| `Structures` | one specification that runs the queue and the six modules before this row, one at a time |
| `MC...` | small instances for TLC |
| `Scheduler_proofs`, `DeferredUpdate_proofs`, `OopChannel_proofs`, `Connection_proofs`, `HttpExchange_proofs`, `ChunkManager_proofs`, `Structures_proofs` | theorems and their proofs |
| `Lemmas` | what the proofs share: induction, recursive functions, sums over finite sets, what a push and a pop do to the crawlers' heap |

How they meet: `Scheduler` and `DeferredUpdate` share the list of updates, in `Scheduler` as what a
report does to the tree, in `DeferredUpdate` as nodes, events and messages that are freed.
`Connection` is what `Scheduler` calls `Peer`: who registers, answers and leaves; its messages
travel whole, and `OopChannel` says how. `BreadCrumbs` and `Weights` are two things `Scheduler`
leaves open, each with the walk over the tree cut down to what it needs. `MessageChannel`,
`CrawlAllocation` and `BlockStore` are what the detailed modules are shown to implement.

### Scheduler

State and code: a node of the tree is the sequence of labels that leads to it (`Tree::insert`), a
URL is the node that carries its page. `pages` are the nodes with a `PageData`, `assignee` is
`PageData::crawler`, `visitState` and `visited` are the node's, `pageTable` is
`Scheduler::page_table`, `workUnit` and `session` are the crawler's, `queue` is the heap,
`updates` the deferred reports. `pc` and the `runVars` are the locals of `run` and `fill_crawler`.
`arriving` counts the REGISTER_CRAWLER handlers that have pushed a crawler and not set its session.
Three variables have no counterpart in one object of the code: `unsent` (assigned since the last
BEGIN_CRAWL) and `owed` (what a crawler was sent and has not reported) are the messages in
flight and the crawlers' side of the work; `dropped` remembers the URLs in reports that
`updates.clear()` threw away.

Steps: `run` is cut at each turn, each look at a crawler's room, each call of `select_best_child`
and each message, because handlers of sessions run between any two of them: `Register` and
`SetSession` (the two halves of the REGISTER_CRAWLER handler, for a name that is new and for one that
is known, which is pushed before the assertion of `set_session` fails), `Leave`, `EndCrawl`.
`update_schedule` is cut at each call of `schedule` and `update_node`, at the end of its loop and at
`updates.clear()` (`ClearUpdates`), which also throws away what a handler pushed since the loop ended. A
call on a shared structure (a push on the heap, a push on the list) is one step although the code has no
lock around it.

Abstractions. `weigh_against` may prefer any candidate: every property holds for each way the
weights (`Weights`) could fall. An END_CRAWL carries pages the crawler was sent and at most one link it found;
ids are looked up through `PageId`, which need not be injective. The locals of a run that its next
use overwrites are reset when it sleeps. The constant `Peer` says what the crawlers at the other
end may do: nothing beyond reporting each assignment once, or also drop the connection, register
again, crawl a URL each time it is listed, crawl ahead.

### DeferredUpdate

`stage` is where the handler of a message is, `updates` the list with the addresses of its nodes
and the subscribers of each update, `events` the addresses a collector believes it is subscribed
to, `garbage` what it holds, `posted` the calls of `receive` the io_service is still to make.
`walk` is the iterator of `update`. An actor that has started keeps its thread (`Busy`), so with
`Threads = 1` handlers exclude each other and with more they interleave. A key is the message
itself: the reuse of a message's address is not modelled, that of a list node's is, because the
events are told apart by it. `~Event` is part of `Clear`; `unsubscribe_from` there leaves
`Subscriber::events` as it is.

### OopChannel

A byte is a message and a position in it. `buf` is the `boost::asio::streambuf` of
`Endpoint::outbound` with its two pointers; `Prepare` moves what it holds to the front, as
`streambuf::reserve` does. `flight` is the write under way: it remembers the address it was given,
and `Transmit` takes whatever is there by the time the kernel gets to it. `line` is all the kernel
took; `read` and `parsed` say how far the receiver is, so that `Endpoint::inbound` is the part
between them. A handler is one step, except that `buffer2message` has one for each turn of its
loop. `incoming` and `inbound` keep bytes, which `HandleMessages` reconstructs. After `Stop` the
receiver may still read what is on its way.

Two constants say what the sender and the network may do. `Patient`: nothing is pushed while a
message is in the buffer in part; without it the stream breaks (`oop_moved`). `WholeHeaders`: a read that
starts a message brings its header; the runs do without it. The loops leave their data in
two cases, which are a `fault`: a read that ends inside of a header (`Protocol.cpp:132`) and a last message
that ends exactly with the buffer (`Protocol.cpp:96`). `FaultsKnown` says that there are no others.
The handlers of an end run one after the other here, although the dispatcher has
`hardware_concurrency()` threads (`utility/Dispatcher.hpp:16`).

### Connection

`phase` is the client's: resolving, connecting, connected (by the kernel), open (by the callback),
left, failed. `tries` is what the `resolver::iterator` has left, `backlog` the connections the
scheduler's kernel has completed, `socket` the scheduler's endpoint of a crawler. `inbox` holds the
messages of posted `handle_messages` calls; `context` and `crawlContext` are the two `msg_context`.
The RegisterCrawler handler has three steps (`handler`), because `run` may find the crawler in the
queue, and then its session, before `msg_context` is set. `stuck` counts the handlers of a
crawler that loop over the URLs of a BEGIN_CRAWL for ever (`crawl/Session.cpp:140`): they keep a
thread, and a crawler with one cannot leave. Nothing calls `end_crawl` in the source, so it may be
called at any time for a BEGIN_CRAWL that was received. `fault` is the exception that ended the
scheduler: `Dispatcher`'s threads have no handler. `Conduct` says what may go wrong outside of the
program. A process that is told to stop while input is unread makes the kernel reset the connection,
as POSIX has it; otherwise the other end sees the end of the stream.

### HttpExchange

A message is a start line, one header or none, an empty line and a body; a line is three bytes, of
which the last two are CR and LF. `written` is `body_offset`, `buffered` and the position of the
file of each message, `obuf` the part of `Endpoint::outbound` from the consumer's pointer on,
`flight` the write under way. `doing` is the loop that is being run (`message2buffer`,
`bytes_transferred`, `buffer2message`): each of its turns is a step, and nothing else happens
meanwhile, which is sound as the ends share no memory. A call that would never return is a `fault`.
`Outstanding`, `WholeWrites` and `WholeHeaders` say what the client and the network do.

### Chunk, ChunkManager

A pointer into `vector<Chunk>` is a position, kept or moved as the code keeps or moves the pointer;
the first byte of a free block is the next index of its list, and a byte no one set, or a
user did, is `Junk`. The cases of `allocate` and `deallocate` are actions of their own: by the
hint, by the search, from a new chunk; kept, as the new spare, dropped. `BlockStore` sees the
blocks with an owner and how many the chunks count as used.

### The structures

`UrlParser`: the parser is one action for each state with the search it makes, then `normalise` with
one action for each turn of its loop. A character is a letter, a digit or a delimiter. The
property relates the parts a URL was written from to those read, with the dots of its path resolved.
`UrlIterators`: a step of either class is one operator per direction, with `index` as a number that
wraps; a client walks from one end to the other. `Registry`: a word is the set of its 1 bits; the
rank of an id is counted word by word. `Linker`: each side has a copy of the link. `BreadCrumbs`:
the steps are those of `fill_crawler` and `traverse_branch` that move the node or drop a crumb, then
those of `DotMatrix::print` that take one; `skipped` remembers that the walk went on from a node
without a crumb, as it does when a crawler fills up while pages are left. `Weights`: `weigh_tree_branch` goes up a node at
a time; `reviser` is the pointer each node hands to its parent.

## Runs

| Run | Instance | Shows |
|---|---|---|
| `scheduler_honest` | 4 pages under 3 sites, 2 crawlers with room for 1 | with honest crawlers and pages only at leaves: no assertion fails, red nodes are visited, no capacity is left idle, everything assigned is sent, in one place (`Ledger`), and released unless `clear()` threw its report away; a run ends |
| `scheduler_peers` | a front page with a page below it that turns up as a link, 2 crawlers with room for 1 and 3, of any conduct | the books agree on both sides, capacity, lookup, one BEGIN_CRAWL each, all that registered are queued and once while no name comes twice, refinement of `CrawlAllocation` |
| `scheduler_leave` | as honest, connections may drop | finding: `begin_crawl` asserts a session that may have closed |
| `deferred_update` | 3 messages, 2 sessions, 3 addresses, 1 thread | nothing is lost, dangling, or received unknown; what was subscribed to is freed |
| `deferred_leak` | 2 messages of one session, 1 thread | finding: an update at a reused address is never freed |
| `deferred_race` | 2 threads | finding: an update pushed before `clear()` is lost |
| `oop_channel` | a message that fits the buffer, one that ends with it, one that takes two, cut anywhere; the sender is patient | the stream is whole, accounting of bytes and messages, where the loops leave their data, refinement of `MessageChannel`; what is pushed is handled |
| `oop_moved` | 1 that fits, 1 that does not, pushed at any time | finding: a push moves the bytes a write points to |
| `connection` | 2 crawlers, 2 addresses, 1 thread of the scheduler, 2 of a crawler, everything that may go wrong | the dialog holds; a crawler that leaves before it was given pages harms no one; everyone registers, fails or sees the scheduler end; who is gone is noticed |
| `http` | 3 resources: absent, small, larger than the room behind its head; two requests out at a time | each descriptor gets the body of its request and is in one place on the way, each request is answered, unless a body takes of the next response (`Overread`) |
| `allocator` | 3 areas, chunks of 3 blocks | free lists, hints, the spare; the whole implements `BlockStore` |
| `structures` | see `MCStructures` | the heap keeps a least loaded crawler on top and loses none; URLs are read as written; walks meet each part; ids make their messages; sessions find their context; the graph drawn is the walk; weights add up |

Bounds. `MaxUpdates` bounds the reports that wait for an update (3 or 1), `MaxQueued` the registrations
(2, or 3: a crawler that is queued twice beside another); `UnitPerCore` stands for
32 and is small so that crawlers get full; `UnitRange` stands for 2^16 and `TallyRange` for 2^64,
small so that the tally wraps. Two crawlers are enough for every way a run can pass the tree from
one to another; with units of one size five are needed for the heap to go wrong, since the root and its two
children are reordered by each pop. Three addresses let each of three nodes be at an old or a new address.
A buffer of 5 bytes and headers of 2 (4096 and 6 in the code) let a read end in a header, in a
body or between messages, and let a large message take the buffer twice; three messages let one
be sent, one wait and one be pushed. In `http` two requests out let a read bring the end of one response
and the beginning of the next, and let a descriptor wait behind another; a body of 11 behind a
head of 8 takes the buffer of 18 bytes twice, and two heads fit it (a head that does not ends a run,
see below). Three chunks let one be full, one be the spare and one lie between them; three blocks
let a list be reordered; `ByteRange` stands for 256 and makes the count of blocks 0 before
it is clamped, as 512 blocks of 8 bytes do. In `connection` two BEGIN_CRAWL messages let one cross an
END_CRAWL; two addresses let the first be refused. Words of 4 bits and ids up to 8 fill two words and
begin a third. The parser reads every combination of parts with up to two labels, a path of up to
five items, and up to two pairs in the query.

Fairness. `TaskFairness`: the io_service runs what is posted to it, so a task goes on and its timer
fires. `PeerFairness`: a crawler that owes reports sends one in time; it is an assumption on the
peer, needed for `WorkReleased` only. In `DeferredUpdate`, handlers and the task that have started go on
(weak fairness), a posted call gets a thread although the task takes one again and again (strong
fairness: the io_service serves its queue in order). In `OopChannel` the kernel moves bytes while the
connection is open and handlers run (weak fairness), and so in `HttpExchange`. In `Connection` the kernels answer and
deliver, and each callback and posted call gets a thread (weak fairness: with one thread it is free
again after three steps); nothing makes the scheduler send a BEGIN_CRAWL, a crawler answer, or anyone
leave.

## Proofs

Every theorem is about every value of the constants that the `ASSUME`s of its module admit; where a
theorem needs more, the hypothesis is a named operator or a constant of the module, given here.

`Scheduler_proofs`, for every set of URLs, crawlers, capacities and ids, and every conduct of the peers:
- `TypeCorrect`, `UnitsAlwaysMatch`, `CapacityRespected`. The invariant `IInv`
  adds what the types do not say: where `run` is, its cursor is a node, its crawler is in the queue,
  and a crawler about to be given a page has room for it, because only `run` adds to a work unit.
- `Refinement`: every step maps to a step of `CrawlAllocation` or a stutter.
- `EverythingSent`, `OneBeginForEach`: the crawler of a page not yet sent is
  being filled or waits in `deferred_crawls`, and one that waits is full or the root is Red
  (`TurnInv`), so it is never filled twice in a run.
- `SentFullUnits`: by the same invariant, what a run sends are full units, unless it has visited
  the whole tree.
- `RegisteredQueuedOnce`, `TopInHand`: the queue holds every crawler that registered, also one whose
  session is not set yet. As long as no name registers twice it holds each once, and the crawler being filled
  is at its top until `run` pops it (`QueueInv`): a crawler that registers
  ranks above none that is queued, so a push leaves the top where it is. A known name that is pushed
  again may rise above the crawler in hand.
  They rest on what `Lemmas` has about what a push and a pop do to a heap of any
  length.
- with `HonestPeers` and `IdsDistinct`: `TableAlwaysFindsPage`,
  `NoFaultForHonestPeers`, `LedgerKept`. The invariant adds that an assigned page is unsent, owed, in one
  report that waits or was in one that `clear()` threw away, which is why `unassign_crawler` always
  finds a crawler, and that a crawler to be sent a message is online.
- with `NoLinks` and `PagesAtLeaves`: `RedStaysVisited`. The invariant is stated of every node that
  could be in the tree; a node turns Red when all children are Red or assigned pages, and
  `clean_tree_branch` takes the colour off every node above a page that is given back.

`RunUsesAll` in the same module is `AllBusyOrDone` for up to four crawlers with units of one size, all of
them registered before the first run and none again, with no links and pages at leaves: what the run checks, for any number
of pages. It is no more than that: with five crawlers, unlike units or a crawler that comes late a run may leave
room (next section). Each turn settles the crawler in hand, as offline or full, and a pop of up to four
reorders the whole queue, whatever `update_node` did to the ranks since (`PopOrdersFew`).

`OopChannel_proofs`, for any messages, sizes of bodies, header and buffer, any cut the kernel makes in
a write or a read, and a connection that may close at any time:
- with `Patient`: `StreamStaysIntact`, `FreedWhenSentAlways`. `SenderInv` says that the buffer holds
  one message at most, the first that is not freed, and of it exactly the bytes behind those that are
  out; that the write under way is of all the buffer holds and of where it is now; and that the line
  is as long as the messages freed, the part confirmed and the part the callback has still to hear of.
- `HandledInOrder`, the refinement of `MessageChannel`. `ReceiverInv`
  says that the receiver is in the message that follows those it has in full, at that message's place in
  the line, with its first bytes in `incoming`; a part of a message is left only when all that was
  read is used up.
- `FaultsAreKnown`: where the loops leave their data, and nowhere else, and that no turn of
  `buffer2message` leads there. A message starts in an empty buffer and fills it until its last
  piece (`Aligned`), so those that end with a buffer are the multiples of its capacity; where a
  whole header was read at a message's place in the line, it is that message's header.

`Patient` is where the stream breaks otherwise (`oop_moved`); nothing in the source enforces it.

`HttpExchange_proofs`, for messages, headers, buffers and bodies of any size, any number of requests out,
and writes and reads that are cut anywhere: `DescriptorsKept`. A descriptor waits in the queue, is
with the message being read, with one that was read and not handled, or was answered; it is in one of these
places only and with one message only, and none is forgotten. What a message takes from the bytes it is given
does not matter to that. That the bytes are those of the right response (`BodyIsItsOwn`) is checked,
not proved.

`DeferredUpdate_proofs`, on any number of threads: `NoDangling`, that no update refers to a message
that is gone, and `LostOnlyByClear`, that a message is lost only by a `clear()` that finds
updates its loop has not reached (`deferred_race` shows that it happens). `WalkInv` says that the
walk of `update` separates the updates that are applied from those that are not, that a message is in the
list once, and that only what was applied is published and freed.

`Connection_proofs`, for every number of crawlers, addresses and crawler's threads and every
`Conduct`: `IdleLeaveNeverHarms`, whatever the number of the scheduler's threads, because a
connection is reset only while it waits in the backlog of an acceptor that closes, or with a
BEGIN_CRAWL sent over it (`ResetsExplained`); `DialogKeptByOneThread`, because a crawler is in one of
four stages (`Before`, `Sent`, `During`, `After` its registration), and with one thread no
BEGIN_CRAWL is sent `During`.

`ChunkManager_proofs`, for every number of areas, size of block and byte: `FreeListsKept`,
`BookkeepingKept` and `ImplementsStore`. The invariant says that the first bytes of a chunk's free blocks are a list
of exactly the blocks without an owner, as a bijection from the positions of the list: that a
block is handed out once follows from it, and it is what swapping chunks must not disturb. It is
stated of any vector and set of owners (`Sound`), so that a lemma says once what taking a block,
returning one, swapping and dropping a chunk do to it. For the refinement of `BlockStore`, what the
chunks count as used is summed over them, and each step changes one term of the sum.

`Structures_proofs`, each with an invariant about the states that belong to its structure:
- `TopHasLeastLoad`, `PopTakesTheTop`: what holds of a heap whose ranks stay, and what holds whatever
  becomes of them.
- `SessionsFindTheirContext`: a session that lives owns the link that started it, although the
  context's own copy is that of the last.
- `EnrolledCreatesItsOwn`, with `~AnyOrder` (`net/oop/Messages.cpp` enrolls in ascending order): the
  place of a prototype is the number of ids below its own, and the count of bits over the words before, and in the word under the
  mask, is that number.
- `InnerWeightsAddUp`: while a walk goes up, the sums above it are short by what it still carries.
- `WalksMeetEachPart`: a stage of an iterator is a function of how many parts it has met, with
  `index` taken modulo the range of a `size_t`. A `TreeIterator` from the end of a URL without a path has
  an index that wrapped, and meets the page only (`MissesDomain`): the property says so.
- `TheWalkIsDrawn`, for every set of URLs and whatever the crawlers take: the walk is a tour of
  the tree from the root (`Tour`), each node the parent or a child of the one before, and the trail has a
  crumb of each up to the first that was skipped. The printer has for its place in the tour the node before the one whose
  crumb it has gathered, and has drawn the edges gone down before (`AtRetreat`); past the last
  crumb of that tour nothing is said of it, as there it may go astray.
- `WrittenIsRead`, with `AllReadable`, for URLs with any number of parts of any length: a URL that is printed
  and parsed again is the one it was, the dots of its path resolved, and no assertion fails. The
  invariant `ReadInv` names the URL that was written and says, for each state of the parser, where the position is in the text
  (`LoginAt`, `HostAt`, ... `EndAt`) and that the parts before it are read and the others still empty; a
  character taken or a search that finds its delimiter leads from one to the next (`RootFound`,
  `LoginFound`, `CutsBack`, `QueryFound`), and `normalise` keeps the parts it has passed resolved
  and those before it as they were (`PathFrom`). `Readable` is what the searches rely on. Each looks for its delimiter in
  the whole rest of the URL, so a part may hold neither the delimiters of its own state nor those that a search
  from an earlier part would stop at (a `/` in a query, an `@` in a password), a login has both a name
  and a password and a scheme before it, and ".." has a part before it. The run's URLs are all readable:
  `MCStructures` assumes it, so TLC evaluates it. Nothing in the source enforces it (next section).

Induction. The library's induction theorems take an operator, which no prover here can instantiate,
but that a set of numbers that is not empty has a least one can be cited, and `Lemmas` draws from it,
for sets and functions instead of operators, strong induction, the existence of functions defined by
recursion, and sums over finite sets. What is computed by recursion over data is characterised with
these: a recursive definition is unfolded at one stage, and the stages are related by
induction (`Grows` in `OopChannel_proofs`, `SumOf`, `BitsBefore`, `Stepped` for the recursions over the parts of a URL).

Only model-checked: liveness (`RunEnds`, `WorkReleased`, `SubscribedIsFreed`, `Delivered`,
`EveryRequestAnswered`, `EveryoneRegisters`, `GoneIsNoticed`), which needs fairness and ENABLED.
Also the properties of which the proofs have a part only or an instance with more assumptions:
`AllBusyOrDone`; `NothingLost`, `NoFault` and with it the order of `trash` and `receive` on one thread in
`deferred_update`; `BodyIsItsOwn`. Every other property that a passing run checks is stated by a theorem.

## What the instances leave out, and why

A passing run stays on the side of these, each of which is what the code does; change the constant and
TLC shows it.
- With five crawlers `AllBusyOrDone` fails: ranks change while crawlers are queued and the heap is not
  reordered (`sched/Scheduler.cpp:57`); with up to four each pop reorders all of it. It
  fails with two when their units differ (`Cores <- UnlikeCores`, one page and three): the small one, full,
  has the least work, comes to the top at every turn and is pushed back, while the other has room for a page
  that is not assigned. The comment at `sched/Scheduler.cpp:45` takes the top one to be "able to take on more".
- A link that turns up below a site that is all Red makes `RedMeansVisited` fail
  (`sched/Scheduler.cpp:255`): nothing takes the colour of the inner nodes back.
- Pages `x/y` and `xy` have the same id (`url/URL.cpp:229`): with them `PageId` is not injective and
  `NoFault` fails.
- `SchedThreads = 2`: a BEGIN_CRAWL may be sent between `set_session` and the assignment of
  `msg_context`, and an END_CRAWL be handled before it; `DialogHolds` fails. A client never
  connects again.
- In `OopChannel`, without `Patient` `StreamIntact` fails (the run `oop_moved`). A read that ends inside of a
  header and a message that ends exactly with the buffer are in the run; they end its behaviours
  (`fault`), and `Delivered` promises nothing after.
- In `HttpExchange`, a queued message whose head has no room in the rest of the buffer (`BufferSize = 10` with two
  requests out) leaves `message2buffer` in its loop (`http/Protocol.cpp:87`), a
  write that is taken in part leaves `bytes_transferred` in its own (`http/Protocol.cpp:60`), and a head that arrives in parts leaves a body that is cut
  (`http/Message.cpp:213`). A body that took the beginning of the next response, which came in the same read, is
  in the run (`Overread`, `http/Message.cpp:206`, 244): it is never whole again, and nothing behind it is
  answered.
- Ids enrolled in any order (`AnyOrder`): an id below others moves them in the count and not in
  the registry.
- A page on an inner node: `calculate_weight` adds the page's own weight at each visit
  (`sched/Node.hpp:35` says leaf nodes only; nothing enforces it).
- URLs: a user name without a password, a `/` in a query, a key without `=`; an anchor stays in the page
  when there is no query, although `url/URL.hpp:29` says it is discarded, and with a query it fails
  `assert(!query_string)`; a `..` at the front of a path erases before it, and a `.` at the front
  hides the item after it. A `TreeIterator` on the first part of an address takes itself to be at its end.

## Not modelled

- The HTML parser (a grammar over one document at a time), common code (texts of exceptions, a
  hash, file reading) and the test programs: no state another component depends on.
- Data races inside of a container when two threads are in one call each: what happens then is not
  a choice among outcomes but undefined. `DeferredUpdate` has the order of whole calls on two
  threads; `OopChannel` lets the handlers of an end run one after the other, although the dispatcher has
  `hardware_concurrency()` threads (`net/core/Endpoint.cpp:216`).
- The reverse lookup of a peer's name, signals but for the one that ends a crawler, options,
  logging, the fields and separators of serialised messages and of HTTP header values.
- `Node::weigh_against` and normalise, beyond that some candidate is the best: doubles.
- The destruction of a subscriber (`utility/Subscriber.cpp:17`): it walks addresses of events that
  are gone, in every order of steps. What becomes of the pages of a crawler that does not come
  back (`sched/Crawler.cpp:21`): nothing in the code unassigns them.
- `depth_first_traverse` and `breadth_first_traverse`, whose `visit` is empty, and operations
  without callers: `extend_link_to`, `Factory::lookup`, `clear_bits`.
