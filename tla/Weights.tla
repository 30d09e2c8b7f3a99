------------------------------- MODULE Weights -------------------------------
(***************************************************************************)
(* How weights travel up the URL tree: Node::calculate_weight of           *)
(* sched/Node.cpp, called by Scheduler::weigh_tree_branch from a page to   *)
(* the root.  An inner node does not add its children up: it corrects its  *)
(* own weight by the change of the page the walk began at, to which each   *)
(* node hands its parent a pointer.                                        *)
(*                                                                         *)
(* The doubles are integers here, so epochs are multiples of what divides  *)
(* them; the minimum a node keeps stays 0 with weights that are positive.  *)
(***************************************************************************)
EXTENDS Integers, Sequences, FiniteSets, FiniteSetsExt

CONSTANTS
  Urls,       \* pages, as paths from the root
  Epoch,      \* PageData::epoch
  MaxLinks,   \* bound on PageData::links
  MaxCrawls,  \* bound on PageData::crawl_count
  NoNode

Root == << >>
Parent(n) == IF n = Root THEN NoNode ELSE SubSeq(n, 1, Len(n) - 1)
Nodes == UNION {{SubSeq(u, 1, k) : k \in 0..Len(u)} : u \in Urls}
Children(n) == {m \in Nodes : Parent(m) = n}

\* Only leaves carry a page here (Node.hpp:35).  Where a page is put on an inner node
\* calculate_weight adds its own weight to it at every visit.
WeightsAssumption ==
  /\ IsFiniteSet(Urls)
  /\ \A u \in Urls : u \in Seq({u[k] : k \in DOMAIN u}) \ {Root} /\ Children(u) = {}
  /\ Epoch \in [Urls -> Nat] /\ MaxLinks \in Nat /\ MaxCrawls \in Nat
  /\ \A u \in Urls, c \in 1..MaxCrawls + 1 : Epoch[u] % c = 0
  /\ NoNode \notin Nodes

VARIABLES
  pages,     \* the URLs that have a page
  links,     \* PageData::links
  crawls,    \* PageData::crawl_count
  current,   \* Measure::current
  previous,  \* Measure::previous, of the pages
  reviser,   \* Node::reviser, the page whose measure it points to
  node       \* where weigh_tree_branch is; NoNode when it is not running

vars == <<pages, links, crawls, current, previous, reviser, node>>

Init ==
  /\ pages = {}
  /\ links = [u \in Urls |-> 0] /\ crawls = [u \in Urls |-> 0]
  /\ current = [n \in Nodes |-> 0] /\ previous = [u \in Urls |-> 0]
  /\ reviser = [n \in Nodes |-> NoNode]
  /\ node = NoNode

\* schedule, of a URL from the seeds or one that was linked to.
Schedule(u, fromSeed) ==
  /\ node = NoNode
  /\ pages' = pages \cup {u}
  /\ fromSeed \/ links[u] < MaxLinks
  /\ links' = [links EXCEPT ![u] = IF fromSeed THEN @ ELSE @ + 1]
  /\ node' = u
  /\ UNCHANGED <<crawls, current, previous, reviser>>

\* update_node
UpdateNode(u) ==
  /\ node = NoNode /\ u \in pages /\ crawls[u] < MaxCrawls
  /\ crawls' = [crawls EXCEPT ![u] = @ + 1]
  /\ node' = u
  /\ UNCHANGED <<pages, links, current, previous, reviser>>

\* calculate_weight of a page: its age by how often it was crawled, times how often it
\* was linked to.  Without a change there is nothing for its ancestors to correct.
\* (A version that leaves the parent's pointer as it is then.)
ReviserKept(u, w) == IF w = current[u] THEN reviser[Parent(u)] ELSE u
ReviserOf(u, w) == IF w = current[u] THEN NoNode ELSE u
NewWeight(u) == (Epoch[u] \div (crawls[u] + 1)) * (links[u] + 1)
WeighPage ==
  /\ node \in pages
  /\ current' = [current EXCEPT ![node] = NewWeight(node)]
  /\ previous' = [previous EXCEPT ![node] = current[node]]
  /\ reviser' = [reviser EXCEPT ![Parent(node)] = ReviserOf(node, NewWeight(node))]
  /\ node' = Parent(node)
  /\ UNCHANGED <<pages, links, crawls>>

\* calculate_weight of a node without a page.
WeighInner ==
  /\ node \notin pages \cup {NoNode, Root}
  /\ reviser' = [reviser EXCEPT ![Parent(node)] = reviser[node]]
  /\ current' = IF reviser[node] = NoNode THEN current
                ELSE [current EXCEPT ![node] = @ + current[reviser[node]] - previous[reviser[node]]]
  /\ node' = Parent(node)
  /\ UNCHANGED <<pages, links, crawls, previous>>

\* The root has no weight.
WeighRoot ==
  /\ node = Root /\ node' = NoNode
  /\ UNCHANGED <<pages, links, crawls, current, previous, reviser>>

Next ==
  \/ \E u \in Urls : UpdateNode(u) \/ \E fromSeed \in BOOLEAN : Schedule(u, fromSeed)
  \/ WeighPage \/ WeighInner \/ WeighRoot

Spec == Init /\ [][Next]_vars

-------------------------------------------------------------------------------
(* Properties *)

\* Between two walks the weight of an inner node is the sum of the weights of its
\* children, however often pages were scheduled again, linked to and crawled: no change
\* is added twice, lost, or added on a branch it did not happen on, though every node's
\* pointer is left over from the last walk that came by (Node.cpp:75-107).
WeightsAddUp ==
  node = NoNode =>
    \A n \in Nodes \ (Urls \cup {Root}) :
      current[n] = MapThenSumSet(LAMBDA m : current[m], Children(n))
=============================================================================
