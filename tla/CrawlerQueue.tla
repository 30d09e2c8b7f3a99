----------------------------- MODULE CrawlerQueue -----------------------------
(***************************************************************************)
(* The scheduler's priority queue of crawlers (sched/Scheduler.hpp:57-59): *)
(* std::priority_queue over a deque, ordered by RankCrawler.  The queue is *)
(* library code; it is modelled as the binary heap libstdc++ keeps in the  *)
(* deque, because the ranks of queued crawlers change while they are       *)
(* queued and what the queue then does depends on the heap, not on the     *)
(* ranks alone.                                                            *)
(*                                                                         *)
(* A queue q is a sequence, its top is q[1], the children of position p    *)
(* are 2p and 2p+1.  key[c] is the load of crawler c, an offline crawler   *)
(* counting more than any online one: RankCrawler(l, r) ("l ranks below    *)
(* r") is then key[l] > key[r].                                            *)
(***************************************************************************)
EXTENDS Integers, Sequences, FiniteSets

\* The positions on the way from p up to the top, p included.
PathToTop[p \in Nat] == IF p = 0 THEN {} ELSE {p} \cup PathToTop[p \div 2]

(***************************************************************************)
(* std::__push_heap: v starts at the vacant position p and rises past      *)
(* every crawler on its way that ranks below it; those it passes move one  *)
(* position down.                                                          *)
(***************************************************************************)
Reached(q, key, p, v) ==
  {r \in PathToTop[p] : \A s \in PathToTop[p] : r <= s /\ s < p => key[q[s]] > key[v]}

SiftUp(q, key, p, v) ==
  LET Risen == Reached(q, key, p, v)
  IN  [r \in 1..Len(q) |->
         IF r \in Risen THEN IF r \div 2 \in Risen THEN q[r \div 2] ELSE v
         ELSE q[r]]

\* (A version that forgets to let it rise.)
PushLast(q, key, v) == Append(q, v)
Push(q, key, v) == SiftUp(Append(q, v), key, Len(q) + 1, v)

(***************************************************************************)
(* std::__adjust_heap: the child that moves up into a vacant position p of *)
(* the first n positions, the right one unless it ranks below the left.    *)
(***************************************************************************)
Riser(q, key, n, p) ==
  IF 2 * p + 1 <= n /\ ~(key[q[2 * p + 1]] > key[q[2 * p]])
  THEN 2 * p + 1 ELSE 2 * p

\* The positions the vacancy at the top passes through on its way down.
Descent(q, key, n) ==
  {p \in 1..n : \A r \in PathToTop[p] \ {1} : r = Riser(q, key, n, r \div 2)}

(***************************************************************************)
(* std::pop_heap and pop_back: the top leaves, the vacancy sinks to a      *)
(* position without children, and the crawler that was last rises from     *)
(* there.                                                                  *)
(***************************************************************************)
\* (A version that takes the last crawler out.)
PopLast(q, key) == SubSeq(q, 1, Len(q) - 1)
Pop(q, key) ==
  LET n == Len(q) - 1
      Down == Descent(q, key, n)
      Bottom == CHOOSE p \in Down : 2 * p > n
      Sunk == [p \in 1..n |->
                 IF p \in Down /\ 2 * p <= n THEN q[Riser(q, key, n, p)] ELSE q[p]]
  IN  IF n = 0 THEN << >> ELSE SiftUp(Sunk, key, Bottom, q[n + 1])
=============================================================================
