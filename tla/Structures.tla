------------------------------ MODULE Structures ------------------------------
(***************************************************************************)
(* The data structures, each on its own: what they hold is not shared, so  *)
(* a behaviour is one of one structure, and the variables of the others    *)
(* are idle in it.                                                         *)
(***************************************************************************)
EXTENDS Integers, Sequences

CONSTANTS
  Crawler, MaxLoad,                     \* CrawlerQueue
  Inputs,                               \* UrlParser
  Shapes, SizeRange,                    \* UrlIterators
  MaxId, WordBits, AnyOrder,            \* Registry
  Context, Session,                     \* Linker
  TrailUrls, Units,                     \* BreadCrumbs
  AgedUrls, Epoch, MaxLinks, MaxCrawls, \* Weights
  NoNode, Null, Idle

VARIABLES
  part,
  queue, load,
  input, url, i, state, attributes, query, item, last, broken,
  kind, way, shape, internal, external, index, seen,
  set, registry, enrolled,
  coupling, alive, startedBy,
  pages, children, red, assigned, pc, turn, room, at, trail, crumb, skipped, walked, drawn, fault,
  weighed, links, crawls, current, previous, reviser, node

queueVars == <<queue, load>>
parserVars == <<input, url, i, state, attributes, query, item, last, broken>>
iteratorVars == <<kind, way, shape, internal, external, index, seen>>
registryVars == <<set, registry, enrolled>>
linkerVars == <<coupling, alive, startedBy>>
trailVars == <<pages, children, red, assigned, pc, turn, room, at, trail, crumb, skipped, walked, drawn, fault>>
weightVars == <<weighed, links, crawls, current, previous, reviser, node>>

-------------------------------------------------------------------------------
Queue == INSTANCE MCCrawlerQueue
Parser == INSTANCE UrlParser WITH fault <- broken
Iterators == INSTANCE UrlIterators WITH url <- shape, Urls <- Shapes
Factory == INSTANCE Registry
Links == INSTANCE Linker WITH Contexts <- Context, Sessions <- Session
Trail == INSTANCE BreadCrumbs WITH Urls <- TrailUrls
Weight == INSTANCE Weights WITH pages <- weighed, Urls <- AgedUrls

\* What each structure assumes of its constants.
ASSUME StructuresAssumption ==
  /\ MaxLoad \in Nat
  /\ Iterators!UrlsAssumption /\ Factory!RegistryAssumption /\ Links!LinkerAssumption
  /\ Trail!BreadCrumbsAssumption /\ Weight!WeightsAssumption

-------------------------------------------------------------------------------
Init ==
  /\ part \in {"queue", "parser", "iterators", "registry", "linker", "trail", "weights"}
  /\ IF part = "queue" THEN Queue!Init ELSE queue = Idle /\ load = Idle
  /\ IF part = "parser" THEN Parser!Init
     ELSE /\ input = Idle /\ url = Idle /\ i = Idle /\ state = Idle /\ attributes = Idle
          /\ query = Idle /\ item = Idle /\ last = Idle /\ broken = Idle
  /\ IF part = "iterators" THEN Iterators!Init
     ELSE /\ kind = Idle /\ way = Idle /\ shape = Idle /\ internal = Idle /\ external = Idle
          /\ index = Idle /\ seen = Idle
  /\ IF part = "registry" THEN Factory!Init
     ELSE set = Idle /\ registry = Idle /\ enrolled = Idle
  /\ IF part = "linker" THEN Links!Init
     ELSE coupling = Idle /\ alive = Idle /\ startedBy = Idle
  /\ IF part = "trail" THEN Trail!Init
     ELSE /\ pages = Idle /\ children = Idle /\ red = Idle /\ assigned = Idle /\ pc = Idle
          /\ turn = Idle /\ room = Idle /\ at = Idle /\ trail = Idle /\ crumb = Idle
          /\ skipped = Idle /\ walked = Idle /\ drawn = Idle /\ fault = Idle
  /\ IF part = "weights" THEN Weight!Init
     ELSE /\ weighed = Idle /\ links = Idle /\ crawls = Idle /\ current = Idle
          /\ previous = Idle /\ reviser = Idle /\ node = Idle

Next ==
  \/ /\ part = "queue" /\ Queue!Next
     /\ UNCHANGED <<part, parserVars, iteratorVars, registryVars, linkerVars, trailVars, weightVars>>
  \/ /\ part = "parser" /\ Parser!Next
     /\ UNCHANGED <<part, queueVars, iteratorVars, registryVars, linkerVars, trailVars, weightVars>>
  \/ /\ part = "iterators" /\ Iterators!Next
     /\ UNCHANGED <<part, queueVars, parserVars, registryVars, linkerVars, trailVars, weightVars>>
  \/ /\ part = "registry" /\ Factory!Next
     /\ UNCHANGED <<part, queueVars, parserVars, iteratorVars, linkerVars, trailVars, weightVars>>
  \/ /\ part = "linker" /\ Links!Next
     /\ UNCHANGED <<part, queueVars, parserVars, iteratorVars, registryVars, trailVars, weightVars>>
  \/ /\ part = "trail" /\ Trail!Next
     /\ UNCHANGED <<part, queueVars, parserVars, iteratorVars, registryVars, linkerVars, weightVars>>
  \/ /\ part = "weights" /\ Weight!Next
     /\ UNCHANGED <<part, queueVars, parserVars, iteratorVars, registryVars, linkerVars, trailVars>>

Spec ==
  /\ Init
  /\ [][Next]_<<part, queueVars, parserVars, iteratorVars, registryVars, linkerVars, trailVars, weightVars>>

-------------------------------------------------------------------------------
\* The top of the crawler queue has the least load.
TopLeastLoaded == part = "queue" => Queue!TopLeastLoaded

\* A pop takes out the top crawler and no other, a push adds its crawler and loses none.
PopTakesTop == [][part = "queue" => Queue!TopOnly]_queueVars

\* What a URL is written from is what the parser finds in it.
ReadsWhatWasWritten == part = "parser" => Parser!ReadsWhatWasWritten

\* A walk with either iterator, either way, meets each part of a URL once, in order.
MeetsEachPart == part = "iterators" => Iterators!MeetsEachPart

\* An id that was enrolled makes a message of its own kind.
CreatesItsOwn == part = "registry" => Factory!CreatesItsOwn

\* Each session finds the context that started it.
SessionFindsContext == part = "linker" => Links!SessionFindsContext

\* The graph drawn from a trail of crumbs is the walk that left it.
DrawnAsWalked == part = "trail" => Trail!DrawnAsWalked

\* The weight of an inner node is the sum of its children's.
WeightsAddUp == part = "weights" => Weight!WeightsAddUp
=============================================================================
