------------------------------ MODULE MCScheduler ------------------------------
(***************************************************************************)
(* Small instances of Scheduler.  Nodes are numbered within their parent.  *)
(***************************************************************************)
EXTENDS Scheduler

CONSTANTS c1, c2

OneCrawler == <<c1>>
TwoCrawlers == <<c1, c2>>

MCLabel == 1..3

\* Three sites with one or two pages: no URL lies on the way to another.
LeafUrls == {<<1, 1>>, <<2, 1>>, <<2, 2>>, <<3>>}

\* A site whose front page is a page, with a page below it that a crawler may link to.
NestedUrls == {<<1>>, <<1, 1>>}
FrontPage == {<<1>>}
DeepPage == {<<1, 1>>}

Distinct == [u \in Url |-> u]
OneCore == [c \in Crawler |-> 1]
\* (In place of OneCore, AllBusyOrDone fails: Scheduler.cpp:57.)
UnlikeCores == [c \in Crawler |-> IF c = c1 THEN 1 ELSE 3]
=============================================================================
