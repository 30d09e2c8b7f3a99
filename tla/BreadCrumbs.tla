----------------------------- MODULE BreadCrumbs -----------------------------
(***************************************************************************)
(* The URL tree as it grows (utility/Tree, Node, IndexedSet), the trail of *)
(* crumbs one scheduling run leaves on its walk over it (traverse_branch   *)
(* and fill_crawler of sched/Scheduler.cpp), and the graph DotMatrix draws *)
(* by following the trail (utility/NodeIO.cpp).  A crumb does not name a   *)
(* node: it is a depth and a position among siblings, so the printer has   *)
(* to be where the walk was to make sense of it.  Where a crawler fills up *)
(* the walk leaves a node without a crumb, and from there on it is not.    *)
(***************************************************************************)
EXTENDS Integers, Sequences, SequencesExt, FiniteSets

CONSTANTS
  Urls,    \* the pages that may be scheduled, as paths of labels from the root
  Units,   \* how many pages each crawler of the run takes, in the order of their turns
  NoNode

BreadCrumbsAssumption ==
  /\ IsFiniteSet(Urls) /\ \A u \in Urls : u \in Seq({u[k] : k \in DOMAIN u}) \ {<< >>}
  /\ NoNode \notin UNION {Prefixes(u) : u \in Urls}
  /\ Units \in Seq(Nat)

VARIABLES
  pages,     \* the URLs that have a page
  children,  \* per node, the labels of its children as IndexedSet::locations has them
  red,       \* the nodes whose visit_state is Red
  assigned,  \* the pages that have a crawler
  pc,        \* schedule, turn, room, select; print, retreat, printed
  turn,      \* the crawler being filled
  room,      \* how many more it takes
  at,        \* n of fill_crawler and traverse_branch, then n of print
  trail,     \* BreadCrumbTrail
  crumb,     \* local i of node_from_trail
  skipped,   \* the walk has left a node without dropping its crumb
  walked,    \* the edges it went down, until then
  drawn,     \* the edges print_edge wrote
  fault

vars == <<pages, children, red, assigned, pc, turn, room, at, trail, crumb, skipped, walked, drawn, fault>>

Root == << >>
Parent(n) == IF n = Root THEN NoNode ELSE Front(n)
Nodes == UNION {{SubSeq(u, 1, k) : k \in 0..Len(u)} : u \in Urls}

Child(n, l) == Append(n, l)
Children(n) == {Child(n, l) : l \in ToSet(children[n])}

\* path_idx and child_idx; -1 both at the root.
PathIndex(n) == Len(n) - 1
ChildIndex(n) ==
  IF n = Root THEN -1
  ELSE (CHOOSE k \in DOMAIN children[Parent(n)] : children[Parent(n)][k] = Last(n)) - 1

Init ==
  /\ pages = {} /\ children = [n \in Nodes |-> << >>]
  /\ red = {} /\ assigned = {}
  /\ pc = "schedule" /\ turn = 0 /\ room = 0 /\ at = NoNode
  /\ trail = << >> /\ crumb = <<0, 0>>
  /\ skipped = FALSE /\ walked = << >> /\ drawn = << >>
  /\ fault = "none"

-------------------------------------------------------------------------------
(* The tree *)

\* IndexedSet::insert and create_child: a label that is new comes last, one that is
\* there is found.
Insert(labels, l) == IF Contains(labels, l) THEN labels ELSE Append(labels, l)

\* Scheduler::schedule: the nodes on the way to the URL, and its page.
Schedule(u) ==
  /\ pc = "schedule" /\ u \notin pages
  /\ pages' = pages \cup {u}
  /\ children' = [n \in Nodes |-> IF IsStrictPrefix(n, u) THEN Insert(children[n], u[Len(n) + 1])
                                  ELSE children[n]]
  /\ UNCHANGED <<red, assigned, pc, turn, room, at, trail, crumb, skipped, walked, drawn, fault>>

-------------------------------------------------------------------------------
(* Scheduler::run *)

Run ==
  /\ pc = "schedule" /\ pages # {}
  /\ pc' = "turn" /\ turn' = 1
  /\ UNCHANGED <<pages, children, red, assigned, room, at, trail, crumb, skipped, walked, drawn, fault>>

\* fill_crawler goes on from where it stopped, from the root if that is nowhere.
Fill ==
  /\ pc = "turn" /\ turn <= Len(Units)
  /\ at' = IF at = NoNode THEN Root ELSE at
  /\ room' = Units[turn]
  /\ IF Root \in red THEN pc' = "turn" /\ turn' = turn + 1 ELSE pc' = "room" /\ UNCHANGED turn
  /\ UNCHANGED <<pages, children, red, assigned, trail, crumb, skipped, walked, drawn, fault>>

\* A crawler that is full leaves the loop, which takes the parent on its way out: of the
\* node it leaves so, unless it is the root, there is no crumb.
CheckRoom ==
  /\ pc = "room"
  /\ IF room = 0
     THEN /\ at' = Parent(at) /\ pc' = "turn" /\ turn' = turn + 1
          /\ skipped' = (skipped \/ at # Root)
     ELSE pc' = "select" /\ UNCHANGED <<at, turn, skipped>>
  /\ UNCHANGED <<pages, children, red, assigned, room, trail, crumb, walked, drawn, fault>>

Candidates(n) == {m \in Children(n) : m \notin red \cup assigned}
Eligible(n) == n \in pages \ assigned

\* traverse_branch drops a crumb at every node it comes to, whichever way it goes on.
\* (A version that drops none on its way back.)
DropOnWayDown == IF Candidates(at) # {} THEN Append(trail, <<PathIndex(at), ChildIndex(at)>>) ELSE trail
DropCrumb == Append(trail, <<PathIndex(at), ChildIndex(at)>>)

\* select_best_child finds a child.
Descend ==
  /\ pc = "select"
  /\ \E m \in Candidates(at) :
       at' = m /\ walked' = IF skipped THEN walked ELSE Append(walked, <<at, m>>)
  /\ trail' = DropCrumb
  /\ UNCHANGED <<pages, children, red, assigned, pc, turn, room, crumb, skipped, drawn, fault>>

\* It finds none.  A page that has no crawler is assigned, and the loop takes the parent.
AssignPage ==
  /\ pc = "select" /\ Candidates(at) = {} /\ Eligible(at)
  /\ assigned' = assigned \cup {at} /\ red' = red \cup {at}
  /\ room' = room - 1
  /\ trail' = DropCrumb
  /\ at' = Parent(at) /\ pc' = "room"
  /\ UNCHANGED <<pages, children, turn, crumb, skipped, walked, drawn, fault>>

\* Any other node is left for its parent; at the root the tree is exhausted.
BackUp ==
  /\ pc = "select" /\ Candidates(at) = {} /\ ~Eligible(at)
  /\ red' = red \cup {at}
  /\ trail' = DropCrumb
  /\ IF at = Root
     THEN pc' = "turn" /\ turn' = turn + 1 /\ UNCHANGED at
     ELSE at' = Parent(at) /\ UNCHANGED <<pc, turn>>
  /\ UNCHANGED <<pages, children, assigned, room, crumb, skipped, walked, drawn, fault>>

-------------------------------------------------------------------------------
(* DotMatrix::print, once for every node drawn *)

Draw ==
  /\ pc = "turn" /\ turn > Len(Units)
  /\ pc' = "print" /\ at' = Root
  /\ UNCHANGED <<pages, children, red, assigned, turn, room, trail, crumb, skipped, walked, drawn, fault>>

\* node_from_trail gathers one crumb, and at the root the one after it.
Gathered == IF at = Root THEN 2 ELSE 1
DrawNode ==
  /\ pc = "print" /\ fault = "none"
  /\ CASE trail = << >> -> pc' = "printed" /\ UNCHANGED <<trail, crumb, fault>>
       [] trail # << >> /\ Len(trail) < Gathered ->
            fault' = "front of an empty queue" /\ UNCHANGED <<pc, trail, crumb>>
       [] Len(trail) >= Gathered ->
            /\ crumb' = trail[Gathered]
            /\ trail' = SubSeq(trail, Gathered + 1, Len(trail))
            /\ pc' = "retreat"
            /\ UNCHANGED fault
  /\ UNCHANGED <<pages, children, red, assigned, turn, room, at, skipped, walked, drawn>>

\* A crumb from higher up: the walk has gone back, and so does the printer.
Higher == trail # << >> /\ crumb[1] < PathIndex(at)
Retreat ==
  /\ pc = "retreat" /\ fault = "none" /\ Higher
  /\ crumb' = Head(trail) /\ trail' = Tail(trail)
  /\ at' = Parent(at)
  /\ UNCHANGED <<pages, children, red, assigned, pc, turn, room, skipped, walked, drawn, fault>>

\* The crumb is of a child, unless it was the last one.
Forward ==
  /\ pc = "retreat" /\ fault = "none" /\ ~Higher
  /\ CASE trail = << >> -> pc' = "printed" /\ UNCHANGED <<at, drawn, fault>>
       [] trail # << >> /\ crumb[2] + 1 \notin DOMAIN children[at] ->
            fault' = "not a child" /\ UNCHANGED <<at, pc, drawn>>
       [] trail # << >> /\ crumb[2] + 1 \in DOMAIN children[at] ->
            /\ at' = Child(at, children[at][crumb[2] + 1])
            /\ drawn' = Append(drawn, <<at, at'>>)
            /\ pc' = "print"
            /\ UNCHANGED fault
  /\ UNCHANGED <<pages, children, red, assigned, turn, room, trail, crumb, skipped, walked>>

Next ==
  \/ \E u \in Urls : Schedule(u)
  \/ Run \/ Fill \/ CheckRoom \/ Descend \/ AssignPage \/ BackUp
  \/ Draw \/ DrawNode \/ Retreat \/ Forward

Spec == Init /\ [][Next]_vars

-------------------------------------------------------------------------------
(* Properties *)

\* "The crumb point cannot exceed the number of child nodes" (utility/NodeIO.cpp:138-141):
\* the assertion there holds, and no crumb is gathered from an empty trail.
CrumbIsAChild == fault = "none"

\* Whichever crawlers fill up, the edges drawn are those the run went down, in their order,
\* as far as the walk had dropped a crumb at every node; the printer goes astray, and its
\* assertion fails, after them only.  The last of them may be missing, for a crumb with none
\* after it is not drawn, but never when the tree was walked to its end
\* (NodeIO.cpp:96-144, Scheduler.cpp:119-143, 206-231).
DrawnAsWalked ==
  LET astray == skipped /\ IsPrefix(walked, drawn) IN
  /\ CrumbIsAChild \/ astray
  /\ IsPrefix(drawn, walked) \/ astray
  /\ pc = "printed" => IsPrefix(Front(walked), drawn)
  /\ pc = "printed" /\ Root \in red /\ ~skipped => drawn = walked
=============================================================================
