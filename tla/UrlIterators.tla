------------------------------ MODULE UrlIterators ------------------------------
(***************************************************************************)
(* The two bidirectional iterators over the parts of a URL:                *)
(* url/Iterator.cpp in the order they are written, url/TreeIterator.cpp in *)
(* the order they lie in the scheduler's tree, the domain from its end.    *)
(* A client starts at one end and moves until it meets the other.          *)
(***************************************************************************)
EXTENDS Integers, Sequences, SequencesExt

CONSTANTS
  Urls,      \* the shapes of URLs: how many parts the domain and the path have, whether
             \* the page is there, whether the domain is an address
  SizeRange  \* 2^64: index is a size_t

\* A parsed URL has a domain.
UrlsAssumption ==
  /\ SizeRange \in Nat
  /\ Urls \subseteq [domain : 1..SizeRange - 1, path : 0..SizeRange - 1, page : BOOLEAN, ip : BOOLEAN]

VARIABLES
  kind,      \* Iterator or TreeIterator
  way,       \* forward from begin, or backward from end
  url,
  internal,  \* internal_state
  external,  \* external_state
  index,
  seen       \* what * gave the client so far

vars == <<kind, way, url, internal, external, index, seen>>

\* A part is its name, and its place in the domain or in the path.
Place(name, k) == <<name, k>>
Only(name) == Place(name, 0)
Places(name, n) == [k \in 1..n |-> Place(name, k - 1)]

\* What a step of the iterator does: the value it points to, if any, the state and the
\* index it goes on with.  A step without a value makes the caller repeat it.
Yield(v, next, k) == [value |-> <<v>>, external |-> next, index |-> k]
Recall(next, k) == [value |-> << >>, external |-> next, index |-> k]

\* The parts that are always there follow each other.
Following == [Scheme |-> "Username", Username |-> "Password", Password |-> "Domain", Port |-> "Path"]
Preceding == [Scheme |-> "none", Username |-> "Scheme", Password |-> "Username"]

PageStep(next) ==
  IF url.page THEN Yield(Only("Page"), next, index) ELSE Recall(next, index)

\* Counting up through the domain or the path, and down.
Up(name, size, next) ==
  IF index < size THEN Yield(Place(name, index), name, index + 1) ELSE Recall(next, 0)
Down(name, next, then) ==
  IF index = 0 THEN Yield(Place(name, index), next, then)
  ELSE Yield(Place(name, index), name, index - 1)

\* Iterator::move_pointer_forward
ForwardStep ==
  CASE external \in DOMAIN Following -> Yield(Only(external), Following[external], index)
    [] external = "Domain" -> Up("Domain", url.domain, "Port")
    [] external = "Path" -> Up("Path", url.path, "Page")
    [] external = "Page" -> PageStep("none")

\* Iterator::move_pointer_backward
BackwardStep ==
  CASE external \in DOMAIN Preceding -> Yield(Only(external), Preceding[external], index)
    [] external = "Domain" -> Down("Domain", "Password", 0)
    [] external = "Port" -> Yield(Only("Port"), "Domain", (url.domain - 1) % SizeRange)
    [] external = "Path" -> IF url.path = 0 THEN Recall("Port", index) ELSE Down("Path", "Port", 0)
    [] external = "Page" -> PageStep("Path")

\* TreeIterator::move_pointer_forward: an address is read from its front.
\* (A version that takes every domain from its end.)
TreeForwardStepDown ==
  CASE external = "Domain" -> Down("Domain", "Path", 0)
    [] external = "Path" -> Up("Path", url.path, "Page")
    [] external = "Page" -> PageStep("none")
TreeForwardStep ==
  CASE external = "Domain" /\ url.ip ->
         IF index = url.domain - 1 THEN Yield(Place("Domain", index), "Path", 0)
         ELSE Yield(Place("Domain", index), "Domain", index + 1)
    [] external = "Domain" /\ ~url.ip -> Down("Domain", "Path", 0)
    [] external = "Path" -> Up("Path", url.path, "Page")
    [] external = "Page" -> PageStep("none")

\* TreeIterator::move_pointer_backward
TreeBackwardStep ==
  CASE external = "Domain" ->
         IF index >= url.domain THEN Recall("none", 0)
         ELSE Yield(Place("Domain", index), "Domain",
                    IF ~url.ip THEN index + 1 ELSE IF index = 0 THEN 0 ELSE index - 1)
    [] external = "Path" ->
         IF url.path = 0 THEN Recall("Domain", index)
         ELSE Down("Path", "Domain", IF url.ip THEN url.domain - 1 ELSE 0)
    [] external = "Page" -> PageStep("Path")

-------------------------------------------------------------------------------
\* The constructor takes the first step forward from Begin, and leaves an iterator
\* constructed at End without a value.
First == IF kind = "Iterator" THEN "Scheme" ELSE "Domain"
FirstIndex ==
  IF kind = "Iterator" \/ url.ip THEN 0 ELSE url.domain - 1
Init ==
  /\ kind \in {"Iterator", "TreeIterator"} /\ way \in {"forward", "backward"}
  /\ url \in Urls
  /\ internal = IF way = "forward" THEN "Transient" ELSE "End"
  /\ external = IF way = "forward" THEN First ELSE "none"
  /\ index = IF way = "forward" THEN FirstIndex ELSE 0
  /\ seen = << >>

Moved(step) ==
  /\ external' = step.external /\ index' = step.index
  /\ seen' = seen \o step.value
  /\ UNCHANGED <<kind, way, url>>

\* operator++, one turn of its loop.  Past the page there is nothing: the iterator is
\* at its end.
Increment ==
  /\ way = "forward" /\ internal = "Transient" /\ external # "none"
  /\ Moved(IF kind = "Iterator" THEN ForwardStep ELSE TreeForwardStep)
  /\ UNCHANGED internal
Ended ==
  /\ way = "forward" /\ internal = "Transient" /\ external = "none"
  /\ internal' = "End"
  /\ UNCHANGED <<kind, way, url, external, index, seen>>

\* operator-- from the end takes up the page, and the index for the path.
FromEnd ==
  /\ way = "backward" /\ internal = "End" /\ seen = << >>
  /\ internal' = "Transient" /\ external' = "Page"
  /\ index' = (url.path - 1) % SizeRange
  /\ UNCHANGED <<kind, way, url, seen>>

\* The client goes back until it stands where begin stands.  On the first part of an
\* address a TreeIterator takes itself to be at its end again.
AtBegin == seen # << >> /\ Last(seen) = Place(First, FirstIndex)
Decrement ==
  /\ way = "backward" /\ internal = "Transient" /\ external # "none" /\ ~AtBegin
  /\ Moved(IF kind = "Iterator" THEN BackwardStep ELSE TreeBackwardStep)
  /\ internal' = IF kind = "TreeIterator" /\ external = "Domain" /\ url.ip /\ index = 0
                 THEN "End" ELSE "Transient"

Next == Increment \/ Ended \/ FromEnd \/ Decrement

Spec == Init /\ [][Next]_vars

-------------------------------------------------------------------------------
(* Properties *)

PageOnly == IF url.page THEN <<Only("Page")>> ELSE << >>
Written ==
  <<Only("Scheme"), Only("Username"), Only("Password")>> \o Places("Domain", url.domain)
  \o <<Only("Port")>> \o Places("Path", url.path) \o PageOnly
InTree ==
  (IF url.ip THEN Places("Domain", url.domain) ELSE Reverse(Places("Domain", url.domain)))
  \o Places("Path", url.path) \o PageOnly

\* TreeIterator goes back from the path to the domain with the index it left there.  When
\* there is no path that is the one it took up at the end, which has wrapped: it is beyond
\* the domain, and the walk is over (TreeIterator.cpp:120, 126, 143-145).
MissesDomain == kind = "TreeIterator" /\ way = "backward" /\ url.path = 0

\* A client that walks over a URL meets each of its parts once, in order, and none that
\* is not there, from either end, before it meets the other end: the index of one part
\* is what the part before it left, and it is a size_t that wraps below zero
\* (Iterator.cpp:61-93, 109-165; TreeIterator.cpp:43-101, 117-164).  In one case it does
\* not: a TreeIterator from the end of a URL without a path meets no part of the domain.
MeetsEachPart ==
  LET Order == IF kind = "Iterator" THEN Written ELSE InTree
      Expected == IF MissesDomain THEN PageOnly
                  ELSE IF way = "forward" THEN Order ELSE Reverse(Order)
      Stopped == IF way = "forward" THEN internal = "End"
                 ELSE AtBegin \/ (internal = "Transient" /\ external = "none")
  IN  /\ IsPrefix(seen, Expected)
      /\ Stopped => seen = Expected
=============================================================================
