---------------------------- MODULE CrawlAllocation ----------------------------
(***************************************************************************)
(* What the scheduler promises: it shares out the pages it knows among the *)
(* crawlers.  A page is crawled by one crawler at a time, it changes hands *)
(* only by being handed back first, a known page stays known, and nobody   *)
(* is given more pages than it registered for.                             *)
(***************************************************************************)
EXTENDS Integers, FiniteSets

CONSTANTS Url, Crawler, Capacity, NoCrawler

VARIABLES known, owner

Holding(c) == {u \in Url : owner[u] = c}

Init == known \in SUBSET Url /\ owner = [u \in Url |-> NoCrawler]

Discover(u) == known' = known \cup {u} /\ UNCHANGED owner

Give(u, c) ==
  /\ u \in known /\ owner[u] = NoCrawler
  /\ Cardinality(Holding(c)) < Capacity[c]
  /\ owner' = [owner EXCEPT ![u] = c]
  /\ UNCHANGED known

HandBack(u) ==
  /\ owner[u] # NoCrawler
  /\ owner' = [owner EXCEPT ![u] = NoCrawler]
  /\ UNCHANGED known

Next ==
  \/ \E u \in Url : Discover(u) \/ HandBack(u)
  \/ \E u \in Url, c \in Crawler : Give(u, c)

Spec == Init /\ [][Next]_<<known, owner>>
=============================================================================
