-------------------------------- MODULE Linker --------------------------------
(***************************************************************************)
(* utility/Linker: how a session finds the context of its process.  A Link *)
(* joins two Linkers, and each keeps a copy of it as its coupling.  A      *)
(* context is joined to every session that starts, a session to one        *)
(* context, so the copies of the two sides come to differ.                 *)
(***************************************************************************)
EXTENDS Naturals, FiniteSets

CONSTANTS Contexts, Sessions, Null

LinkerAssumption ==
  /\ Contexts \cap Sessions = {}
  /\ Null \notin Contexts \cup Sessions \cup [left : Contexts, right : Sessions]

VARIABLES
  coupling,  \* per Linker, the Link it owns
  alive,     \* the sessions that have not been destroyed
  startedBy  \* per session, the context whose NetContext started it

vars == <<coupling, alive, startedBy>>

Linkers == Contexts \cup Sessions

Init ==
  /\ coupling = [l \in Linkers |-> Null]
  /\ alive = {}
  /\ startedBy = [s \in Sessions |-> Null]

\* Linker::unlink, and the copy of the Link that goes with it.
\* (A version where the two sides own one Link together.)
UnlinkedBoth(couplings, l) ==
  [k \in Linkers |-> IF couplings[k] # Null /\ couplings[k] = couplings[l] THEN Null ELSE couplings[k]]
Unlinked(couplings, l) == [couplings EXCEPT ![l] = Null]

\* Link::Link: left, then right, drops the coupling it has and takes a copy of this one.
Link(left, right) ==
  LET link == [left |-> left, right |-> right]
      Linked(couplings, l) == [Unlinked(couplings, l) EXCEPT ![l] = link]
  IN  Linked(Linked(coupling, left), right)

\* Link::complement_of, for the coupling a Linker has.
ComplementOf(l) ==
  CASE coupling[l].left = l -> coupling[l].right
    [] coupling[l].left # l /\ coupling[l].right = l -> coupling[l].left
    [] OTHER -> Null

\* NetContext::start, of either program, links a session that was made for a connection.
Start(c, s) ==
  /\ startedBy[s] = Null
  /\ coupling' = Link(c, s)
  /\ alive' = alive \cup {s}
  /\ startedBy' = [startedBy EXCEPT ![s] = c]

\* ~Linker, when a connection is done with: the context keeps its copy.
Destroy(s) ==
  /\ s \in alive
  /\ coupling' = Unlinked(coupling, s)
  /\ alive' = alive \ {s}
  /\ UNCHANGED startedBy

Next == \E s \in Sessions : Destroy(s) \/ \E c \in Contexts : Start(c, s)

Spec == Init /\ [][Next]_vars

-------------------------------------------------------------------------------
(* Properties *)

\* A session that handles a message finds the context that started it, whatever other
\* sessions have been linked to that context, or destroyed, since: context() of both
\* programs takes the complement without looking whether there is one
\* (sched/Session.cpp:97-102, crawl/Session.cpp:79-84).
SessionFindsContext ==
  \A s \in alive : coupling[s] # Null /\ ComplementOf(s) = startedBy[s]
=============================================================================
