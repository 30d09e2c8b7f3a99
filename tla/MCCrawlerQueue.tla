---------------------------- MODULE MCCrawlerQueue ----------------------------
(***************************************************************************)
(* Every queue that pushes and pops with fixed ranks can build, with       *)
(* crawlers told apart and ranks that tie.                                 *)
(***************************************************************************)
EXTENDS CrawlerQueue, Functions

CONSTANTS Crawler, MaxLoad

VARIABLES queue, load

Init == /\ queue = << >>
        /\ load \in [Crawler -> 0..MaxLoad]

PushOne == \E c \in Crawler :
             /\ c \notin Range(queue)
             /\ queue' = Push(queue, load, c)
             /\ UNCHANGED load

PopOne == /\ queue # << >>
          /\ queue' = Pop(queue, load)
          /\ UNCHANGED load

Next == PushOne \/ PopOne

Spec == Init /\ [][Next]_<<queue, load>>

\* As long as no rank changes while it is queued, the top of the queue is a
\* crawler with the least load: what Scheduler::run takes for granted
\* (Scheduler.cpp:44-49).
TopLeastLoaded ==
  \A p \in DOMAIN queue : load[queue[1]] <= load[queue[p]]

\* A pop takes out the top crawler and no other, a push adds its crawler and
\* loses none, whatever the order the heap ends up in.
TopOnly ==
  /\ Len(queue') < Len(queue) => Range(queue') = Range(Tail(queue))
  /\ Len(queue') > Len(queue) => Range(queue) \subseteq Range(queue')
=============================================================================
