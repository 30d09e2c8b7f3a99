--------------------------- MODULE Structures_proofs ---------------------------
(***************************************************************************)
(* Proofs about the data structures of Structures.tla, for every value of  *)
(* their constants:                                                        *)
(*                                                                         *)
(*   SessionsFindTheirContext          links of contexts and sessions,     *)
(*   TopHasLeastLoad, PopTakesTheTop   the heap of crawlers,               *)
(*   EnrolledCreatesItsOwn             the registry of the factory,        *)
(*   InnerWeightsAddUp                 the weights of a tree,              *)
(*   WalksMeetEachPart                 the iterators over a URL,           *)
(*   TheWalkIsDrawn                    the trail of a run and its drawing, *)
(*   WrittenIsRead                     a URL read from what was written.   *)
(*                                                                         *)
(* Each has an invariant of its own that speaks of the states in which     *)
(* part names its structure.                                               *)
(***************************************************************************)
EXTENDS Structures, Lemmas

allVars ==
  <<part, queueVars, parserVars, iteratorVars, registryVars, linkerVars, trailVars, weightVars>>

-------------------------------------------------------------------------------
(* Linker *)

\* A session that is alive owns the Link that joined it to the context that started it,
\* whatever that context's own copy has come to be.
LinksInv ==
  part = "linker" =>
    /\ alive \subseteq Session
    /\ startedBy \in [Session -> Context \cup {Null}]
    /\ DOMAIN coupling = Context \cup Session
    /\ \A s \in alive :
         startedBy[s] \in Context /\ coupling[s] = [left |-> startedBy[s], right |-> s]

LEMMA InitLinks == Init => LinksInv
BY DEF Init, LinksInv, Links!Init, Links!Linkers

LEMMA NextLinks == LinksInv /\ [Next]_allVars => LinksInv'
<1> SUFFICES ASSUME LinksInv, [Next]_allVars, part' = "linker" PROVE LinksInv'
  BY DEF LinksInv
<1>1. part = "linker" /\ (Links!Next \/ UNCHANGED linkerVars)
  BY DEF Next, allVars
<1>2. CASE UNCHANGED linkerVars
  BY <1>1, <1>2 DEF LinksInv, linkerVars
<1>3. ASSUME NEW s \in Session, NEW c \in Context, Links!Start(c, s) PROVE LinksInv'
  <2> DEFINE link == [left |-> c, right |-> s]
  <2>1. s \notin alive /\ c # s
    <3>1. Context \cap Session = {} /\ Null \notin Context
      BY StructuresAssumption DEF Links!LinkerAssumption
    <3>2. startedBy[s] = Null
      BY <1>3 DEF Links!Start
    <3> QED
      BY <1>1, <3>1, <3>2 DEF LinksInv
  <2>2. coupling' = [[[[coupling EXCEPT ![c] = Null] EXCEPT ![c] = link] EXCEPT ![s] = Null] EXCEPT ![s] = link]
    BY <1>3 DEF Links!Start, Links!Link, Links!Unlinked
  <2> HIDE DEF link
  <2>3. DOMAIN coupling' = Context \cup Session /\ coupling'[s] = link
    BY <1>1, <2>2 DEF LinksInv
  <2>4. \A z \in Session : z # s => coupling'[z] = coupling[z]
    BY <1>1, <2>2, StructuresAssumption DEF LinksInv, Links!LinkerAssumption
  <2>5. startedBy' = [startedBy EXCEPT ![s] = c] /\ alive' = alive \cup {s}
    BY <1>3 DEF Links!Start
  <2> QED
    BY <1>1, <2>1, <2>3, <2>4, <2>5 DEF LinksInv, link
<1>4. ASSUME NEW s \in Session, Links!Destroy(s) PROVE LinksInv'
  BY <1>1, <1>4 DEF Links!Destroy, Links!Unlinked, LinksInv
<1> QED
  BY <1>1, <1>2, <1>3, <1>4 DEF Links!Next

\* Each session finds the context that started it, through its own Link
\* (sched/Session.cpp:97-102, crawl/Session.cpp:79-84).
THEOREM SessionsFindTheirContext == Spec => []SessionFindsContext
<1>1. LinksInv => SessionFindsContext
  <2> SUFFICES ASSUME LinksInv, part = "linker", NEW s \in alive
               PROVE  coupling[s] # Null /\ Links!ComplementOf(s) = startedBy[s]
    BY DEF SessionFindsContext, Links!SessionFindsContext
  <2>1. s \in Session /\ startedBy[s] \in Context /\ coupling[s] = [left |-> startedBy[s], right |-> s]
    BY DEF LinksInv
  <2>2. coupling[s].left # s /\ coupling[s].right = s /\ coupling[s].left = startedBy[s]
    BY <2>1, StructuresAssumption DEF Links!LinkerAssumption
  <2>3. Links!ComplementOf(s) = startedBy[s]
    BY <2>2 DEF Links!ComplementOf
  <2>4. coupling[s] # Null
    BY <2>1, StructuresAssumption DEF Links!LinkerAssumption
  <2> QED
    BY <2>3, <2>4
<1> QED
  BY InitLinks, NextLinks, <1>1, PTL DEF Spec, allVars

-------------------------------------------------------------------------------
(* The crawler queue, with ranks that do not change *)

\* Where the instance and the lemmas about the queue mean the same.
LEMMA SamePush == ASSUME NEW q, NEW key, NEW v PROVE Queue!Push(q, key, v) = Push(q, key, v)
BY DEF Queue!Push, Queue!SiftUp, Queue!Reached, Queue!PathToTop, Push, SiftUp, Reached, PathToTop

LEMMA SamePop == ASSUME NEW q, NEW key PROVE Queue!Pop(q, key) = Pop(q, key)
BY DEF Queue!Pop, Queue!SiftUp, Queue!Reached, Queue!PathToTop, Queue!Descent, Queue!Riser,
       Pop, SiftUp, Reached, PathToTop, Descent, Riser
\* The queue is a heap.
HeapInv ==
  part = "queue" =>
    load \in [Crawler -> Nat] /\ queue \in Seq(Crawler) /\ Heap(queue, load)

LEMMA InitHeap == Init => HeapInv
<1> SUFFICES ASSUME Init, part = "queue" PROVE HeapInv
  BY DEF HeapInv
<1>1. queue = << >> /\ load \in [Crawler -> 0..MaxLoad]
  BY DEF Init, Queue!Init
<1>2. load \in [Crawler -> Nat]
  BY <1>1, StructuresAssumption
<1> QED
  BY <1>1, <1>2 DEF HeapInv, Heap

LEMMA NextHeap == HeapInv /\ [Next]_allVars => HeapInv'
<1> SUFFICES ASSUME HeapInv, [Next]_allVars, part' = "queue" PROVE HeapInv'
  BY DEF HeapInv
<1>1. part = "queue" /\ (Queue!Next \/ UNCHANGED queueVars)
  BY DEF Next, allVars
<1>2. load \in [Crawler -> Nat] /\ queue \in Seq(Crawler) /\ Heap(queue, load)
  BY <1>1 DEF HeapInv
<1>3. CASE UNCHANGED queueVars
  BY <1>2, <1>3 DEF HeapInv, queueVars
<1>4. CASE Queue!PushOne
  <2>1. PICK c \in Crawler : queue' = Push(queue, load, c) /\ load' = load
    BY <1>4, SamePush DEF Queue!PushOne
  <2>2. queue' \in Seq(Crawler) /\ Heap(queue', load)
    BY <1>2, <2>1, PushType, PushHeap
  <2> QED
    BY <1>2, <2>1, <2>2 DEF HeapInv
<1>5. CASE Queue!PopOne
  <2>1. queue # << >> /\ queue' = Pop(queue, load) /\ load' = load
    BY <1>5, SamePop DEF Queue!PopOne
  <2>2. queue' \in Seq(Crawler) /\ Heap(queue', load)
    BY <1>2, <2>1, PopType, PopHeap
  <2> QED
    BY <1>2, <2>1, <2>2 DEF HeapInv
<1> QED
  BY <1>1, <1>3, <1>4, <1>5 DEF Queue!Next

LEMMA HeapInvariance == Spec => []HeapInv
<1> QED
  BY InitHeap, NextHeap, PTL DEF Spec, allVars

\* However many crawlers were pushed and popped, the top has the least load, which is
\* what a run takes for granted when it stops at a full one (Scheduler.cpp:44-49).
THEOREM TopHasLeastLoad == Spec => []TopLeastLoaded
<1>1. HeapInv => TopLeastLoaded
  <2> SUFFICES ASSUME HeapInv, part = "queue", NEW p \in DOMAIN queue
               PROVE  load[queue[1]] <= load[queue[p]]
    BY DEF TopLeastLoaded, Queue!TopLeastLoaded
  <2>1. load \in [Crawler -> Nat] /\ queue \in Seq(Crawler) /\ Heap(queue, load) /\ p \in 1..Len(queue)
    BY DEF HeapInv
  <2> QED
    BY <2>1, HeapTop
<1> QED
  BY HeapInvariance, <1>1, PTL

\* A pop takes out the top crawler and no other, a push adds its crawler and loses none.
THEOREM PopTakesTheTop == Spec => PopTakesTop
<1>1. HeapInv /\ [Next]_allVars => [part = "queue" => Queue!TopOnly]_queueVars
  <2> SUFFICES ASSUME HeapInv, [Next]_allVars, part = "queue", ~ UNCHANGED queueVars
               PROVE  Queue!TopOnly
    OBVIOUS
  <2>1. Queue!PushOne \/ Queue!PopOne
    BY DEF Next, allVars, Queue!Next
  <2>2. queue \in Seq(Crawler) /\ load \in [Crawler -> Nat]
    BY DEF HeapInv
  <2>3. CASE Queue!PushOne
    <3>1. PICK c \in Crawler : queue' = Push(queue, load, c)
      BY <2>3, SamePush DEF Queue!PushOne
    <3>2. queue' \in Seq(Crawler) /\ Len(queue') = Len(queue) + 1 /\ Queued(queue') = Queued(queue) \cup {c}
      BY <2>2, <3>1, PushType, PushQueues
    <3>3. Len(queue) \in Nat
      BY <2>2
    <3>4. DOMAIN queue = 1..Len(queue) /\ DOMAIN queue' = 1..Len(queue')
      BY <2>2, <3>2
    <3>5. Queue!Range(queue) = Queued(queue)
      BY <3>4 DEF Queue!Range, Queued
    <3>6. Queue!Range(queue') = Queued(queue')
      BY <3>4 DEF Queue!Range, Queued
    <3>7. ~ (Len(queue') < Len(queue))
      BY <3>2, <3>3
    <3> QED
      BY <3>2, <3>5, <3>6, <3>7 DEF Queue!TopOnly
  <2>4. CASE Queue!PopOne
    <3>1. queue # << >> /\ queue' = Pop(queue, load)
      BY <2>4, SamePop DEF Queue!PopOne
    <3>2. queue' \in Seq(Crawler) /\ Len(queue') = Len(queue) - 1
          /\ Queued(queue') = {queue[p] : p \in 2..Len(queue)}
      BY <2>2, <3>1, PopType, PopQueues
    <3>3. Len(queue) \in Nat \ {0}
      BY <2>2, <3>1
    <3>4. Queue!Range(queue') = Queued(queue')
      BY <3>2 DEF Queue!Range, Queued
    <3>5. Queue!Range(Tail(queue)) = {queue[p] : p \in 2..Len(queue)}
      <4>1. Len(Tail(queue)) = Len(queue) - 1 /\ \A p \in 1..Len(queue) - 1 : Tail(queue)[p] = queue[p + 1]
        BY <2>2, <3>1
      <4>2. DOMAIN Tail(queue) = 1..Len(queue) - 1
        BY <2>2, <3>1
      <4>3. \A p \in 2..Len(queue) : p - 1 \in 1..Len(queue) - 1 /\ (p - 1) + 1 = p
        BY <3>3
      <4>4. \A p \in 1..Len(queue) - 1 : p + 1 \in 2..Len(queue)
        BY <3>3
      <4>5. Queue!Range(Tail(queue)) = {Tail(queue)[p] : p \in 1..Len(queue) - 1}
        BY <4>2 DEF Queue!Range
      <4>6. {Tail(queue)[p] : p \in 1..Len(queue) - 1} = {queue[p + 1] : p \in 1..Len(queue) - 1}
        BY <4>1
      <4>7. \A x \in {queue[p + 1] : p \in 1..Len(queue) - 1} : x \in {queue[p] : p \in 2..Len(queue)}
        BY <4>4
      <4>8. ASSUME NEW p \in 2..Len(queue) PROVE queue[p] \in {queue[k + 1] : k \in 1..Len(queue) - 1}
        BY <4>3
      <4> QED
        BY <4>5, <4>6, <4>7, <4>8
    <3>6. ~ (Len(queue') > Len(queue))
      BY <3>2, <3>3
    <3> QED
      BY <3>2, <3>4, <3>5, <3>6 DEF Queue!TopOnly
  <2> QED
    BY <2>1, <2>3, <2>4
<1> QED
  BY HeapInvariance, <1>1, PTL DEF Spec, PopTakesTop, allVars

-------------------------------------------------------------------------------
(* Registry *)

\* A sequence of S is one of what S is part of; a function on 1..n is one.
LEMMA SequenceFacts ==
  ASSUME NEW S, NEW T, S \subseteq T, NEW q \in Seq(S)
  PROVE  q \in Seq(T) /\ \A k \in 1..Len(q) : q[k] \in S
OBVIOUS

LEMMA FunctionIsSequence ==
  ASSUME NEW S, NEW n \in Nat, NEW f \in [1..n -> S]
  PROVE  f \in Seq(S) /\ Len(f) = n
OBVIOUS

\* The instance has a Cardinality of its own.
LEMMA SameCardinality == \A S : Factory!PopulationCount(S) = Cardinality(S)
BY DEF Factory!PopulationCount, Factory!Cardinality, Cardinality

\* A set of numbers moved by k has as many.
MovedBy(S, k) == {b + k : b \in S}
LEMMA MovedCardinality ==
  ASSUME NEW S \in SUBSET Int, IsFiniteSet(S), NEW k \in Int
  PROVE  IsFiniteSet(MovedBy(S, k)) /\ Cardinality(MovedBy(S, k)) = Cardinality(S)
<1> DEFINE T == {b + k : b \in S}
           f == [b \in S |-> b + k]
<1>1. f \in [S -> T]
  OBVIOUS
<1>2. \A x, y \in S : f[x] = f[y] => x = y
  OBVIOUS
<1>3. \A y \in T : \E x \in S : f[x] = y
  OBVIOUS
<1>4. f \in Bijection(S, T)
  BY <1>1, <1>2, <1>3 DEF Bijection, Injection, Surjection, IsInjective
<1>5. ExistsBijection(S, T)
  BY <1>4 DEF ExistsBijection
<1> QED
  BY <1>5, FS_Bijection DEF MovedBy

\* The number of the first bit of a word.
FirstOf(w) == w * WordBits

LEMMA FirstFacts ==
  /\ FirstOf(0) = 0
  /\ \A w \in Nat : FirstOf(w) \in Nat /\ FirstOf(w + 1) = FirstOf(w) + WordBits
BY StructuresAssumption DEF FirstOf, Factory!RegistryAssumption

\* A number is a bit of one word.
LEMMA WordFacts ==
  ASSUME NEW v \in Nat
  PROVE  /\ Factory!Word(v) \in Nat /\ Factory!Bit(v) \in 0..WordBits - 1
         /\ v = FirstOf(Factory!Word(v)) + Factory!Bit(v)
BY StructuresAssumption DEF FirstOf, Factory!RegistryAssumption, Factory!Word, Factory!Bit

LEMMA LaterWord ==
  ASSUME NEW w \in Nat, NEW x \in Nat, w < x
  PROVE  FirstOf(w) + WordBits <= FirstOf(x)
<1>1. WordBits \in Nat
  BY StructuresAssumption DEF Factory!RegistryAssumption
<1>2. PICK d \in Nat : x = w + 1 + d
  <2>1. x - w - 1 \in Nat /\ x = w + 1 + (x - w - 1)
    OBVIOUS
  <2> QED
    BY <2>1
<1>3. x * WordBits = w * WordBits + WordBits + d * WordBits
  BY <1>1, <1>2
<1>4. d * WordBits \in Nat /\ w * WordBits \in Nat
  BY <1>1
<1> QED
  BY <1>1, <1>3, <1>4 DEF FirstOf

LEMMA OneWord ==
  ASSUME NEW w \in Nat, NEW b \in 0..WordBits - 1, NEW x \in Nat, NEW c \in 0..WordBits - 1,
         FirstOf(w) + b = FirstOf(x) + c
  PROVE  w = x /\ b = c
<1>1. WordBits \in Nat /\ FirstOf(w) \in Nat /\ FirstOf(x) \in Nat
  BY FirstFacts, StructuresAssumption DEF Factory!RegistryAssumption
<1>2. ~ (w < x) /\ ~ (x < w)
  BY <1>1, LaterWord
<1>3. w = x
  BY <1>2
<1> QED
  BY <1>1, <1>3

\* A word of the BitSet holds the bits of the ids that were enrolled.
RegistryType ==
  /\ enrolled \subseteq 0..MaxId
  /\ DOMAIN set = 0..Factory!Word(MaxId)
  /\ \A w \in 0..Factory!Word(MaxId) :
       set[w] = {b \in 0..WordBits - 1 : FirstOf(w) + b \in enrolled}

LEMMA WordTypes ==
  ASSUME RegistryType
  PROVE  /\ IsFiniteSet(enrolled)
         /\ \A w \in 0..Factory!Word(MaxId) : IsFiniteSet(set[w]) /\ set[w] \in SUBSET Int
<1>1. MaxId \in Nat /\ WordBits \in Nat \ {0}
  BY StructuresAssumption DEF Factory!RegistryAssumption
<1>2. IsFiniteSet(0..MaxId) /\ IsFiniteSet(0..WordBits - 1)
  BY <1>1, FS_Interval
<1>3. IsFiniteSet(enrolled)
  BY <1>2, FS_Subset DEF RegistryType
<1>4. ASSUME NEW w \in 0..Factory!Word(MaxId) PROVE IsFiniteSet(set[w]) /\ set[w] \in SUBSET Int
  <2>1. set[w] \in SUBSET (0..WordBits - 1)
    BY DEF RegistryType
  <2>2. IsFiniteSet(set[w])
    BY <1>2, <2>1, FS_Subset
  <2> QED
    BY <2>1, <2>2
<1> QED
  BY <1>3, <1>4

\* How many ids below a number were enrolled.
Below(n) == Cardinality({x \in enrolled : x < n})

\* The ids below one are those of the words before its own and those of its word.
LEMMA BelowInWord ==
  ASSUME RegistryType, NEW w \in 0..Factory!Word(MaxId), NEW limit \in 0..WordBits
  PROVE  Below(FirstOf(w) + limit) = Below(FirstOf(w)) + Cardinality({b \in set[w] : b < limit})
<1> DEFINE Before == {x \in enrolled : x < FirstOf(w)}
           Bits == {b \in set[w] : b < limit}
           Moved == MovedBy(Bits, FirstOf(w))
           All == {x \in enrolled : x < FirstOf(w) + limit}
<1>1. FirstOf(w) \in Nat /\ WordBits \in Nat /\ enrolled \subseteq Nat
  BY FirstFacts, StructuresAssumption DEF Factory!RegistryAssumption, RegistryType
<1>2. IsFiniteSet(Bits) /\ Bits \in SUBSET Int
  <2>1. IsFiniteSet(set[w]) /\ set[w] \in SUBSET Int
    BY WordTypes
  <2> QED
    BY <2>1, FS_Subset
<1>3. IsFiniteSet(Moved) /\ Cardinality(Moved) = Cardinality(Bits)
  <2> HIDE DEF Bits
  <2> QED
    BY <1>1, <1>2, MovedCardinality
<1>4. IsFiniteSet(Before)
  BY WordTypes, FS_Subset
<1>5. \A x \in Moved : x \in enrolled /\ FirstOf(w) <= x /\ x < FirstOf(w) + limit
  BY <1>1 DEF RegistryType, MovedBy
<1>6. ASSUME NEW x \in All, ~ (x < FirstOf(w)) PROVE x \in Moved
  <2> DEFINE b == x - FirstOf(w)
  <2>1. b \in 0..WordBits - 1 /\ b < limit /\ FirstOf(w) + b = x /\ b + FirstOf(w) = x
    BY <1>1, <1>6
  <2>2. b \in Bits
    BY <2>1 DEF RegistryType
  <2> QED
    BY <2>1, <2>2 DEF MovedBy
<1>7. All = Before \cup Moved
  <2>1. \A x \in Before : x \in All
    BY <1>1
  <2> QED
    BY <1>5, <1>6, <2>1
<1>8. Before \cap Moved = {}
  <2>1. \A x \in Before : ~ (FirstOf(w) <= x)
    BY <1>1
  <2> QED
    BY <1>5, <2>1
<1>9. Cardinality(Before) \in Nat /\ Cardinality(Moved) \in Nat
  BY <1>3, <1>4, FS_CardinalityType
<1> HIDE DEF Before, Bits, Moved, All
<1>10. Cardinality(All) = Cardinality(Before) + Cardinality(Moved)
  BY <1>3, <1>4, <1>7, <1>8, <1>9, FS_Union, FS_EmptySet
<1> QED
  BY <1>3, <1>10 DEF Below, All, Before, Bits

\* Its recursion over the words has a solution, and goes from word to word.
Counted == [wn \in Nat \X Nat |->
  wn[2] + (IF wn[1] - 1 \in 0..Factory!Word(MaxId) THEN Cardinality(set[wn[1] - 1]) ELSE 0)]

LEMMA BitsBeforeDef ==
  ASSUME RegistryType
  PROVE  /\ Factory!BitsBefore[0] = 0
         /\ \A w \in 1..Factory!Word(MaxId) :
              Factory!BitsBefore[w] = Factory!BitsBefore[w - 1] + Cardinality(set[w - 1])
<1> DEFINE Words == 0..Factory!Word(MaxId)
           Value(f, w) == IF w = 0 THEN 0 ELSE f[w - 1] + Factory!PopulationCount(set[w - 1])
<1>1. Factory!Word(MaxId) \in Nat
  BY WordFacts, StructuresAssumption DEF Factory!RegistryAssumption
<1>2. \A w \in Words : Cardinality(set[w]) \in Nat
  BY WordTypes, FS_CardinalityType
<1>3. \A w, n \in Nat : w # 0 =>
        Counted[w, n] = n + (IF w - 1 \in Words THEN Cardinality(set[w - 1]) ELSE 0)
  BY Zenon DEF Counted
<1>4. Counted \in [Nat \X Nat -> Nat]
  <2>1. ASSUME NEW w \in Nat, NEW n \in Nat
        PROVE  n + (IF w - 1 \in Words THEN Cardinality(set[w - 1]) ELSE 0) \in Nat
    BY <1>2
  <2>2. ASSUME NEW wn \in Nat \X Nat
        PROVE  wn[2] + (IF wn[1] - 1 \in Words THEN Cardinality(set[wn[1] - 1]) ELSE 0) \in Nat
    BY <2>1
  <2> QED
    BY <2>2 DEF Counted
<1>5. \E former : /\ former \in [Nat -> Nat]
                  /\ \A w \in Nat \ {0} : former[w] = w - 1
  <2> DEFINE former == [w \in Nat |-> IF w = 0 THEN 0 ELSE w - 1]
  <2>1. former \in [Nat -> Nat] /\ \A w \in Nat \ {0} : former[w] = w - 1
    OBVIOUS
  <2> QED
    BY <2>1
<1>6. PICK former \in [Nat -> Nat] : \A w \in Nat \ {0} : former[w] = w - 1
  BY <1>5
<1>7. Recursion(Nat, 0, former, Counted)
  BY <1>4, <1>6 DEF Recursion
<1>8. PICK g : Solves(g, Nat, 0, former, Counted)
  BY <1>7, RecursionExists
<1> DEFINE f == [w \in Words |-> g[w]]
<1>9. ASSUME NEW w \in Words PROVE f[w] = Value(f, w)
  <2>1. CASE w = 0
    BY <1>8, <2>1, Zenon DEF Solves
  <2>2. CASE w # 0
    <3>1. w \in Nat \ {0} /\ w - 1 \in Words
      BY <1>1, <2>2
    <3>2. g[w] = Counted[w, g[w - 1]] /\ g[w - 1] \in Nat
      BY <1>6, <1>8, <3>1, Zenon DEF Solves
    <3>3. g[w] = g[w - 1] + Cardinality(set[w - 1])
      BY <1>3, <3>1, <3>2, Zenon
    <3>4. f[w - 1] = g[w - 1] /\ f[w] = g[w]
      BY <3>1
    <3> HIDE DEF f
    <3> QED
      BY <2>2, <3>3, <3>4, SameCardinality
  <2> QED
    BY <2>1, <2>2
<1>10. f = [w \in Words |-> Value(f, w)]
  BY <1>9
<1> HIDE DEF f
<1>11. Factory!BitsBefore = [w \in Words |-> Value(Factory!BitsBefore, w)]
  BY <1>10 DEF Factory!BitsBefore
<1>12. Factory!BitsBefore[0] = 0
  <2>1. 0 \in Words
    BY <1>1
  <2> QED
    BY <1>11, <2>1
<1>13. ASSUME NEW w \in 1..Factory!Word(MaxId)
       PROVE  Factory!BitsBefore[w] = Factory!BitsBefore[w - 1] + Cardinality(set[w - 1])
  <2>1. w \in Words /\ w # 0
    BY <1>1
  <2>2. Factory!BitsBefore[w] = Value(Factory!BitsBefore, w)
    BY <1>11, <2>1
  <2> QED
    BY <2>1, <2>2, SameCardinality
<1> QED
  BY <1>12, <1>13

\* It counts the ids enrolled that are below the word.
LEMMA BitsBeforeCounts ==
  ASSUME RegistryType
  PROVE  \A w \in 0..Factory!Word(MaxId) : Factory!BitsBefore[w] = Below(FirstOf(w))
<1> DEFINE T == {w \in Nat : w <= Factory!Word(MaxId) => Factory!BitsBefore[w] = Below(FirstOf(w))}
<1>1. Factory!Word(MaxId) \in Nat
  BY WordFacts, StructuresAssumption DEF Factory!RegistryAssumption
<1>2. ASSUME NEW w \in Nat, \A x \in 0..w - 1 : x \in T PROVE w \in T
  <2>1. CASE w = 0
    <3>1. {x \in enrolled : x < 0} = {}
      <4>1. \A x \in 0..MaxId : ~ (x < 0)
        BY StructuresAssumption DEF Factory!RegistryAssumption
      <4> QED
        BY <4>1 DEF RegistryType
    <3> QED
      BY <2>1, <3>1, BitsBeforeDef, FirstFacts, FS_EmptySet DEF Below
  <2>2. CASE w # 0 /\ w <= Factory!Word(MaxId)
    <3>1. w - 1 \in 0..w - 1 /\ w - 1 \in 0..Factory!Word(MaxId) /\ w \in 1..Factory!Word(MaxId)
      BY <1>1, <2>2
    <3>2. Factory!BitsBefore[w] = Below(FirstOf(w - 1)) + Cardinality(set[w - 1])
      BY <1>2, <2>2, <3>1, BitsBeforeDef
    <3>3. WordBits \in 0..WordBits
      BY StructuresAssumption DEF Factory!RegistryAssumption
    <3>4. Below(FirstOf(w - 1) + WordBits)
            = Below(FirstOf(w - 1)) + Cardinality({b \in set[w - 1] : b < WordBits})
      BY <3>1, <3>3, BelowInWord
    <3>5. {b \in set[w - 1] : b < WordBits} = set[w - 1]
      BY <3>1, <3>3 DEF RegistryType
    <3>6. FirstOf(w - 1) + WordBits = FirstOf(w)
      <4>1. (w - 1) + 1 = w /\ w - 1 \in Nat
        BY <3>1
      <4> QED
        BY <4>1, FirstFacts
    <3> QED
      BY <3>2, <3>4, <3>5, <3>6
  <2> QED
    BY <2>1, <2>2
<1> HIDE DEF T
<1>3. Nat \subseteq T
  BY <1>2, StrongInduction
<1> QED
  BY <1>3 DEF T

\* IndexOf counts the ids enrolled that are below an id, and knows those that are not.
Indexed ==
  RegistryType =>
    \A v \in Nat : Factory!IndexOf(v) = IF v \in enrolled THEN Below(v) ELSE -1

LEMMA IndexCounts == Indexed
<1> SUFFICES ASSUME RegistryType, NEW v \in Nat
             PROVE  Factory!IndexOf(v) = IF v \in enrolled THEN Below(v) ELSE -1
  BY DEF Indexed
<1> DEFINE w == Factory!Word(v)
           b == Factory!Bit(v)
<1>1. w \in Nat /\ b \in 0..WordBits - 1 /\ v = FirstOf(w) + b
  BY WordFacts
<1>2. MaxId \in Nat /\ WordBits \in Nat \ {0} /\ Factory!Word(MaxId) \in Nat
      /\ Factory!Bit(MaxId) \in 0..WordBits - 1
      /\ MaxId = FirstOf(Factory!Word(MaxId)) + Factory!Bit(MaxId)
  BY WordFacts, StructuresAssumption DEF Factory!RegistryAssumption
<1>3. v <= MaxId => w \in 0..Factory!Word(MaxId)
  <2>1. FirstOf(w) \in Nat /\ FirstOf(Factory!Word(MaxId)) \in Nat
    BY <1>1, <1>2, FirstFacts
  <2>2. Factory!Word(MaxId) < w => FirstOf(Factory!Word(MaxId)) + WordBits <= FirstOf(w)
    BY <1>1, <1>2, LaterWord
  <2> HIDE DEF w, b
  <2> QED
    BY <1>1, <1>2, <2>1, <2>2
<1>4. Factory!HasValue(v) <=> v \in enrolled
  BY <1>1, <1>2, <1>3 DEF Factory!HasValue, RegistryType
<1>5. ASSUME v \in enrolled
      PROVE  Factory!PopulationCountBelow(set[w], b) = Cardinality({x \in set[w] : x < b})
  <2>1. w \in 0..Factory!Word(MaxId)
    BY <1>3, <1>5, <1>2 DEF RegistryType
  <2>2. set[w] \subseteq 0..WordBits - 1 /\ IsFiniteSet(set[w])
    BY <2>1, WordTypes DEF RegistryType
  <2> HIDE DEF w, b
  <2>3. CASE b = 0
    <3>1. {x \in set[w] : x < b} = {}
      BY <2>2, <2>3
    <3> QED
      BY <2>3, <3>1, FS_EmptySet DEF Factory!PopulationCountBelow
  <2>4. CASE b # 0
    <3> DEFINE Low == {x \in set[w] : x < b}
    <3>1. IsFiniteSet(Low) /\ Low \in SUBSET Int
      BY <2>2, FS_Subset
    <3>2. \A x \in Factory!ShiftLeft(set[w], WordBits - b) : x \in MovedBy(Low, WordBits - b)
      BY <1>1, <1>2, <2>2 DEF Factory!ShiftLeft, MovedBy
    <3>3. \A x \in MovedBy(Low, WordBits - b) : x \in Factory!ShiftLeft(set[w], WordBits - b)
      BY <1>1, <1>2, <2>2 DEF Factory!ShiftLeft, MovedBy
    <3>4. Factory!ShiftLeft(set[w], WordBits - b) = MovedBy(Low, WordBits - b)
      BY <3>2, <3>3
    <3>5. WordBits - b \in Int
      BY <1>1, <1>2
    <3> HIDE DEF Low
    <3>6. Cardinality(MovedBy(Low, WordBits - b)) = Cardinality(Low)
      BY <3>1, <3>5, MovedCardinality
    <3>7. Factory!PopulationCountBelow(set[w], b) = Cardinality(Factory!ShiftLeft(set[w], WordBits - b))
      BY <2>4, SameCardinality DEF Factory!PopulationCountBelow
    <3> QED
      BY <3>4, <3>6, <3>7 DEF Low
  <2> QED
    BY <2>3, <2>4
<1>6. CASE v \in enrolled
  <2>1. w \in 0..Factory!Word(MaxId)
    BY <1>3, <1>6, <1>2 DEF RegistryType
  <2>2. Factory!BitsBefore[w] = Below(FirstOf(w))
    BY <2>1, BitsBeforeCounts
  <2>3. b \in 0..WordBits
    BY <1>1, <1>2
  <2> HIDE DEF w, b
  <2>4. Below(v) = Below(FirstOf(w)) + Cardinality({x \in set[w] : x < b})
    BY <1>1, <2>1, <2>3, BelowInWord
  <2>5. Factory!IndexOf(v) = Factory!BitsBefore[w] + Factory!PopulationCountBelow(set[w], b)
    BY <1>4, <1>6 DEF Factory!IndexOf, w, b
  <2> QED
    BY <1>5, <1>6, <2>2, <2>4, <2>5
<1>7. CASE v \notin enrolled
  BY <1>4, <1>7 DEF Factory!IndexOf
<1> QED
  BY <1>6, <1>7

\* The same after a step.
LEMMA IndexCountsNext == Indexed'
BY IndexCounts, PTL

\* While ids are enrolled in ascending order, the prototypes stand in that order.
RegistryInv ==
  part = "registry" /\ ~AnyOrder =>
    /\ RegistryType
    /\ registry \in Seq(0..MaxId) /\ Len(registry) = Cardinality(enrolled)
    /\ \A e \in enrolled : registry[Below(e) + 1] = e

LEMMA InitRegistry == Init => RegistryInv
<1> SUFFICES ASSUME Init, part = "registry" PROVE RegistryInv
  BY DEF RegistryInv
<1>1. set = [w \in 0..Factory!Word(MaxId) |-> {}] /\ registry = << >> /\ enrolled = {}
  BY DEF Init, Factory!Init
<1> QED
  BY <1>1, FS_EmptySet DEF RegistryInv, RegistryType

\* The new id's bit is the only one that changes.
LEMMA EnrollType ==
  ASSUME RegistryType, NEW id \in 0..MaxId, Factory!Enroll(id)
  PROVE  RegistryType' /\ id \notin enrolled
<1> DEFINE W == Factory!Word(id)
           B == Factory!Bit(id)
<1>1. MaxId \in Nat /\ WordBits \in Nat \ {0} /\ id \in Nat
  BY StructuresAssumption DEF Factory!RegistryAssumption
<1>2. W \in Nat /\ B \in 0..WordBits - 1 /\ id = FirstOf(W) + B
  BY <1>1, WordFacts
<1>3. W \in 0..Factory!Word(MaxId) /\ Factory!Word(MaxId) \in Nat
  <2>1. Factory!Word(MaxId) \in Nat /\ Factory!Bit(MaxId) \in 0..WordBits - 1
        /\ MaxId = FirstOf(Factory!Word(MaxId)) + Factory!Bit(MaxId)
    BY <1>1, WordFacts
  <2>2. FirstOf(W) \in Nat /\ FirstOf(Factory!Word(MaxId)) \in Nat
    BY <1>2, <2>1, FirstFacts
  <2>3. Factory!Word(MaxId) < W => FirstOf(Factory!Word(MaxId)) + WordBits <= FirstOf(W)
    BY <1>2, <2>1, LaterWord
  <2> HIDE DEF W, B
  <2> QED
    BY <1>1, <1>2, <2>1, <2>2, <2>3
<1>4. id \notin enrolled
  BY <1>1, <1>2, <1>3 DEF Factory!Enroll, Factory!HasValue, RegistryType
<1>5. set' = [set EXCEPT ![W] = @ \cup {B}] /\ enrolled' = enrolled \cup {id}
  BY DEF Factory!Enroll
<1> HIDE DEF W, B
<1>6. ASSUME NEW w \in 0..Factory!Word(MaxId)
      PROVE  set'[w] = {b \in 0..WordBits - 1 : FirstOf(w) + b \in enrolled'}
  <2>1. w \in Nat /\ w \in DOMAIN set /\ W \in DOMAIN set
    BY <1>3 DEF RegistryType
  <2>2. ASSUME NEW b \in 0..WordBits - 1 PROVE FirstOf(w) + b = id <=> w = W /\ b = B
    BY <1>2, <2>1, OneWord
  <2>3. set'[w] = IF w = W THEN set[w] \cup {B} ELSE set[w]
    BY <1>5, <2>1
  <2>4. set[w] = {b \in 0..WordBits - 1 : FirstOf(w) + b \in enrolled}
    BY DEF RegistryType
  <2>5. CASE w = W
    BY <1>2, <1>5, <2>2, <2>3, <2>4, <2>5
  <2>6. CASE w # W
    BY <1>5, <2>2, <2>3, <2>4, <2>6
  <2> QED
    BY <2>5, <2>6
<1>7. DOMAIN set' = 0..Factory!Word(MaxId)
  BY <1>5 DEF RegistryType
<1>8. enrolled' \subseteq 0..MaxId
  BY <1>5 DEF RegistryType
<1> QED
  BY <1>4, <1>6, <1>7, <1>8 DEF RegistryType

LEMMA NextRegistry == RegistryInv /\ [Next]_allVars => RegistryInv'
<1> SUFFICES ASSUME RegistryInv, [Next]_allVars, part' = "registry", ~AnyOrder PROVE RegistryInv'
  BY DEF RegistryInv
<1>1. part = "registry" /\ (Factory!Next \/ UNCHANGED registryVars)
  BY DEF Next, allVars
<1>2. CASE UNCHANGED registryVars
  BY <1>1, <1>2 DEF RegistryInv, registryVars, RegistryType, Below
<1>3. ASSUME NEW id \in 0..MaxId, Factory!Enroll(id) PROVE RegistryInv'
  <2> DEFINE n == Cardinality(enrolled)
  <2>1. RegistryType /\ registry \in Seq(0..MaxId) /\ Len(registry) = n
        /\ \A e \in enrolled : registry[Below(e) + 1] = e
    BY <1>1, <1>3 DEF RegistryInv
  <2>2. RegistryType' /\ id \notin enrolled
    BY <1>3, <2>1, EnrollType
  <2>3. \A e \in enrolled : e < id
    BY <1>3 DEF Factory!Enroll
  <2>4. enrolled' = enrolled \cup {id}
        /\ registry' = [Append(registry, Null) EXCEPT ![(Factory!IndexOf(id))' + 1] = id]
    BY <1>3 DEF Factory!Enroll
  <2>5. IsFiniteSet(enrolled) /\ n \in Nat /\ enrolled \subseteq Nat
    BY <2>1, WordTypes, FS_CardinalityType DEF RegistryType
  <2>6. Cardinality(enrolled') = n + 1
    BY <2>2, <2>4, <2>5, FS_AddElement
  <2>7. (Below(id))' = n
    <3>1. \A x \in enrolled : x \in enrolled' /\ x < id
      BY <2>3, <2>4
    <3>2. \A x \in enrolled' : x < id => x \in enrolled
      BY <2>4
    <3>3. {x \in enrolled' : x < id} = enrolled
      BY <3>1, <3>2
    <3> QED
      BY <3>3 DEF Below
  <2>8. (Factory!IndexOf(id))' = n
    BY <2>2, <2>4, <2>7, IndexCountsNext DEF Indexed
  <2>9. /\ registry' \in [1..n + 1 -> 0..MaxId]
        /\ \A k \in 1..n + 1 : registry'[k] = IF k = n + 1 THEN id ELSE registry[k]
    <3> DEFINE longer == Append(registry, Null)
    <3>1. registry \in Seq((0..MaxId) \cup {Null}) /\ \A k \in 1..Len(registry) : registry[k] \in 0..MaxId
      BY <2>1, SequenceFacts
    <3>2. longer \in Seq((0..MaxId) \cup {Null}) /\ Len(longer) = n + 1
          /\ \A k \in 1..n : longer[k] = registry[k]
      BY <2>1, <2>5, <3>1
    <3>3. DOMAIN longer = 1..n + 1
      BY <3>2
    <3> HIDE DEF longer
    <3>4. registry' = [longer EXCEPT ![n + 1] = id]
      BY <2>4, <2>8 DEF longer
    <3> HIDE DEF n
    <3>5. \A k \in 1..n + 1 : registry'[k] = IF k = n + 1 THEN id ELSE registry[k]
      BY <2>5, <3>2, <3>3, <3>4
    <3>6. \A k \in 1..n : registry[k] \in 0..MaxId
      BY <2>1, <3>1
    <3>7. \A k \in 1..n + 1 : registry'[k] \in 0..MaxId
      BY <2>5, <3>5, <3>6
    <3>8. registry' = [k \in 1..n + 1 |-> registry'[k]]
      BY <3>3, <3>4
    <3> QED
      BY <3>5, <3>7, <3>8
  <2>10. ASSUME NEW e \in enrolled PROVE (Below(e))' = Below(e) /\ Below(e) + 1 \in 1..n
    <3>1. {x \in enrolled' : x < e} = {x \in enrolled : x < e}
      BY <2>3, <2>4, <2>5
    <3>2. {x \in enrolled : x < e} \in SUBSET enrolled /\ e \notin {x \in enrolled : x < e}
      BY <2>5
    <3>3. {x \in enrolled : x < e} # enrolled
      BY <3>2
    <3>4. Below(e) \in Nat /\ Below(e) <= n /\ Below(e) # n
      BY <2>5, <3>2, <3>3, FS_Subset, FS_CardinalityType DEF Below
    <3> QED
      BY <2>5, <3>1, <3>4 DEF Below
  <2>11. registry' \in Seq(0..MaxId) /\ Len(registry') = n + 1
    <3> HIDE DEF n
    <3>1. n + 1 \in Nat /\ registry' \in [1..n + 1 -> 0..MaxId]
      BY <2>5, <2>9
    <3> QED
      BY <3>1, FunctionIsSequence
  <2>12. ASSUME NEW e \in enrolled' PROVE registry'[(Below(e))' + 1] = e
    <3>1. CASE e \in enrolled
      BY <2>1, <2>9, <2>10, <3>1
    <3>2. CASE e = id
      BY <2>1, <2>5, <2>7, <2>9, <3>2
    <3> QED
      BY <2>4, <3>1, <3>2
  <2>13. RegistryType' /\ (registry \in Seq(0..MaxId) /\ Len(registry) = Cardinality(enrolled))'
    BY <2>2, <2>6, <2>11
  <2> QED
    BY <2>12, <2>13 DEF RegistryInv
<1> QED
  BY <1>1, <1>2, <1>3 DEF Factory!Next

LEMMA RegistryInvariance == Spec => []RegistryInv
<1> QED
  BY InitRegistry, NextRegistry, PTL DEF Spec, allVars

\* An id that was enrolled makes a message of its own kind, any other makes none, when ids
\* are enrolled in ascending order (Factory.cpp:30-64, BitSet.cpp:25-130).
THEOREM EnrolledCreatesItsOwn == Spec => [](~AnyOrder => CreatesItsOwn)
<1>1. RegistryInv => (~AnyOrder => CreatesItsOwn)
  <2> SUFFICES ASSUME RegistryInv, ~AnyOrder, part = "registry", NEW id \in 0..MaxId + 1
               PROVE  Factory!Create(id) = IF id \in enrolled THEN id ELSE Null
    BY DEF CreatesItsOwn, Factory!CreatesItsOwn
  <2>1. RegistryType /\ \A e \in enrolled : registry[Below(e) + 1] = e
    BY DEF RegistryInv
  <2>2. id \in Nat
    BY StructuresAssumption DEF Factory!RegistryAssumption
  <2>3. Factory!IndexOf(id) = IF id \in enrolled THEN Below(id) ELSE -1
    BY <2>1, <2>2, IndexCounts DEF Indexed
  <2>4. Below(id) \in Nat
    <3>1. IsFiniteSet(enrolled)
      BY <2>1, WordTypes
    <3>2. IsFiniteSet({x \in enrolled : x < id})
      BY <3>1, FS_Subset
    <3> QED
      BY <3>2, FS_CardinalityType DEF Below
  <2> QED
    BY <2>1, <2>3, <2>4 DEF Factory!Create
<1> QED
  BY RegistryInvariance, <1>1, PTL

-------------------------------------------------------------------------------
(* Weights: the sum over a set *)

LEMMA SumDef == \A f, S : Weight!MapThenSumSet(LAMBDA m : f[m], S) = SumOf(f, S)
BY DEF SumOf, Weight!MapThenSumSet, Weight!MapThenFoldSet, Adds

-------------------------------------------------------------------------------
(* Weights: the tree *)

Inner == Weight!Nodes \ (AgedUrls \cup {Weight!Root})

\* A node other than the root lies below its parent.
LEMMA ParentFacts ==
  ASSUME NEW n \in Weight!Nodes, n # Weight!Root
  PROVE  /\ Weight!Parent(n) \in Weight!Nodes /\ Weight!Parent(n) # n
         /\ Weight!Parent(n) \notin AgedUrls
         /\ n \in Weight!Children(Weight!Parent(n))
         /\ \A m \in Weight!Nodes : n \in Weight!Children(m) => m = Weight!Parent(n)
<1>1. PICK u \in AgedUrls : n \in {SubSeq(u, 1, k) : k \in 0..Len(u)}
  BY DEF Weight!Nodes
<1>2. u \in Seq({u[k] : k \in DOMAIN u})
  BY StructuresAssumption DEF Weight!WeightsAssumption
<1> DEFINE S == {u[k] : k \in DOMAIN u}
<1>3. u \in Seq(S)
  BY <1>2
<1> HIDE DEF S
<1>4. PICK k \in 0..Len(u) : n = SubSeq(u, 1, k)
  BY <1>1
<1>5. k # 0
  BY <1>3, <1>4 DEF Weight!Root
<1>6. Len(n) = k /\ n \in Seq(S)
  BY <1>3, <1>4, <1>5
<1>7. SubSeq(n, 1, k - 1) = SubSeq(u, 1, k - 1)
  BY <1>3, <1>4, <1>5
<1>8. k - 1 \in 0..Len(u)
  BY <1>3, <1>5
<1>9. SubSeq(n, 1, k - 1) \in {SubSeq(u, 1, j) : j \in 0..Len(u)}
  BY <1>7, <1>8
<1>10. Weight!Parent(n) = SubSeq(n, 1, k - 1)
  BY <1>6 DEF Weight!Parent
<1>11. Weight!Parent(n) \in Weight!Nodes
  BY <1>9, <1>10 DEF Weight!Nodes
<1>12. Weight!Parent(n) # n
  <2>1. Len(SubSeq(n, 1, k - 1)) = k - 1 /\ k \in Int
    BY <1>3, <1>5, <1>6
  <2> QED
    BY <1>6, <1>10, <2>1
<1>13. n \in Weight!Children(Weight!Parent(n))
  BY DEF Weight!Children
<1>14. Weight!Parent(n) \notin AgedUrls
  BY <1>13, StructuresAssumption DEF Weight!WeightsAssumption
<1> QED
  BY <1>11, <1>12, <1>13, <1>14 DEF Weight!Children

\* Every page is a node, and the nodes are finitely many.
LEMMA PagesAreNodes == AgedUrls \subseteq Weight!Nodes \ {Weight!Root}
<1> SUFFICES ASSUME NEW u \in AgedUrls PROVE u \in Weight!Nodes /\ u # Weight!Root
  OBVIOUS
<1> DEFINE S == {u[k] : k \in DOMAIN u}
<1>1. u \in Seq(S) /\ u # Weight!Root
  BY StructuresAssumption DEF Weight!WeightsAssumption
<1> HIDE DEF S
<1>2. SubSeq(u, 1, Len(u)) = u /\ Len(u) \in 0..Len(u)
  BY <1>1, SMTT(30)
<1>3. u \in {SubSeq(u, 1, k) : k \in 0..Len(u)}
  BY <1>2, Zenon
<1> QED
  BY <1>1, <1>3 DEF Weight!Nodes

Image(f, S) == {f[x] : x \in S}

LEMMA ImageFinite ==
  ASSUME NEW S, IsFiniteSet(S), NEW T, NEW f \in [S -> T]
  PROVE  IsFiniteSet(Image(f, S))
<1> DEFINE U == Image(f, S)
<1>1. f \in [S -> U]
  BY DEF Image
<1>2. f \in Surjection(S, U)
  BY <1>1 DEF Surjection, Image
<1> QED
  BY <1>2, FS_Surjection

LEMMA SameFinite == \A S : Weight!IsFiniteSet(S) <=> IsFiniteSet(S)
BY DEF Weight!IsFiniteSet, IsFiniteSet

LEMMA NodesFinite == IsFiniteSet(Weight!Nodes)
<1> DEFINE To(u) == {SubSeq(u, 1, k) : k \in 0..Len(u)}
           All == {To(u) : u \in AgedUrls}
<1>1. ASSUME NEW u \in AgedUrls PROVE IsFiniteSet(To(u))
  <2> DEFINE f == [k \in 0..Len(u) |-> SubSeq(u, 1, k)]
             S == {u[k] : k \in DOMAIN u}
  <2>1. u \in Seq(S)
    BY StructuresAssumption DEF Weight!WeightsAssumption
  <2> HIDE DEF S
  <2>2. IsFiniteSet(0..Len(u))
    BY <2>1, FS_Interval
  <2>3. To(u) = Image(f, 0..Len(u)) /\ f \in [0..Len(u) -> To(u)]
    BY DEF Image
  <2> HIDE DEF f
  <2> QED
    BY <2>2, <2>3, ImageFinite
<1> HIDE DEF To
<1>2. IsFiniteSet(All)
  <2> DEFINE f == [u \in AgedUrls |-> To(u)]
  <2>1. All = Image(f, AgedUrls) /\ f \in [AgedUrls -> All]
    BY DEF Image
  <2>2. IsFiniteSet(AgedUrls)
    BY StructuresAssumption, SameFinite DEF Weight!WeightsAssumption
  <2> HIDE DEF f, All
  <2>3. IsFiniteSet(Image(f, AgedUrls))
    BY <2>1, <2>2, ImageFinite
  <2> QED
    BY <2>1, <2>3
<1>3. \A T \in All : IsFiniteSet(T)
  BY <1>1
<1> HIDE DEF All
<1>4. IsFiniteSet(UNION All)
  BY <1>2, <1>3, FS_UNION
<1> QED
  BY <1>4 DEF Weight!Nodes, All, To

-------------------------------------------------------------------------------
(* Weights: what a walk up the tree has yet to correct *)

WeightsType ==
  /\ weighed \subseteq AgedUrls
  /\ links \in [AgedUrls -> Nat] /\ crawls \in [AgedUrls -> Nat]
  /\ current \in [Weight!Nodes -> Int] /\ previous \in [AgedUrls -> Int]
  /\ reviser \in [Weight!Nodes -> AgedUrls \cup {NoNode}]
  /\ node \in Inner \cup weighed \cup {Weight!Root, NoNode}

\* The change the node at hand is to be corrected by: that of the page its reviser points to.
Change(n, revisers, now, before) ==
  IF revisers[n] = NoNode THEN 0 ELSE now[revisers[n]] - before[revisers[n]]
Pending(n) == Change(n, reviser, current, previous)
Total(n) == SumOf(current, Weight!Children(n))

\* Every inner node is the sum of its children but the one the walk has reached.
WeightsInv ==
  part = "weights" =>
    /\ WeightsType
    /\ \A n \in Inner : Total(n) = current[n] + (IF n = node THEN Pending(n) ELSE 0)

LEMMA NodeFacts ==
  /\ NoNode \notin Weight!Nodes /\ AgedUrls \subseteq Weight!Nodes
  /\ Weight!Root \notin AgedUrls /\ Inner \subseteq Weight!Nodes
  /\ \A n \in Weight!Nodes : IsFiniteSet(Weight!Children(n)) /\ Weight!Children(n) \subseteq Weight!Nodes
<1>1. NoNode \notin Weight!Nodes
  BY StructuresAssumption DEF Weight!WeightsAssumption
<1>2. ASSUME NEW n \in Weight!Nodes
      PROVE  IsFiniteSet(Weight!Children(n)) /\ Weight!Children(n) \subseteq Weight!Nodes
  <2>1. Weight!Children(n) \in SUBSET Weight!Nodes
    BY DEF Weight!Children
  <2> QED
    BY <2>1, NodesFinite, FS_Subset
<1> QED
  BY <1>1, <1>2, PagesAreNodes DEF Inner

LEMMA ZeroSum ==
  ASSUME NEW S, IsFiniteSet(S), NEW f, \A x \in S : f[x] = 0
  PROVE  SumOf(f, S) = 0
<1>0. \A x \in S : f[x] \in Int
  OBVIOUS
<1>1. PICK sum \in [SUBSET S -> Int] : Adds(sum, f, S) /\ SumOf(f, S) = sum[S]
  BY <1>0, SumSolves
<1> DEFINE Pick(T) == CHOOSE x \in T : TRUE
           Zero == {n \in Nat : \A T \in SUBSET S : Cardinality(T) = n => sum[T] = 0}
<1>2. \A T \in SUBSET S : sum[T] = IF T = {} THEN 0 ELSE f[Pick(T)] + sum[T \ {Pick(T)}]
  BY <1>1 DEF Adds
<1>3. \A T \in SUBSET S : T # {} => Pick(T) \in T
  OBVIOUS
<1> HIDE DEF Pick
<1>4. ASSUME NEW n \in Nat, \A k \in 0..n - 1 : k \in Zero PROVE n \in Zero
  <2>1. ASSUME NEW T \in SUBSET S, Cardinality(T) = n, T # {} PROVE sum[T] = 0
    <3>1. IsFiniteSet(T) /\ Pick(T) \in T /\ T \ {Pick(T)} \in SUBSET S
      BY <1>3, <2>1, FS_Subset
    <3>2. Cardinality(T \ {Pick(T)}) = n - 1 /\ n # 0
      BY <2>1, <3>1, FS_RemoveElement, FS_EmptySet
    <3>3. n - 1 \in Zero
      BY <1>4, <3>2
    <3>4. sum[T \ {Pick(T)}] = 0 /\ f[Pick(T)] = 0
      BY <3>1, <3>2, <3>3
    <3> QED
      BY <1>2, <2>1, <3>4
  <2> QED
    BY <1>2, <2>1
<1> HIDE DEF Zero
<1>5. Nat \subseteq Zero
  BY <1>4, StrongInduction
<1> QED
  BY <1>1, <1>5, FS_CardinalityType DEF Zero

LEMMA InitWeights == Init => WeightsInv
<1> SUFFICES ASSUME Init, part = "weights" PROVE WeightsInv
  BY DEF WeightsInv
<1>1. Weight!Init
  BY DEF Init
<1>2. WeightsType
  BY <1>1 DEF Weight!Init, WeightsType
<1>3. ASSUME NEW n \in Inner PROVE Total(n) = current[n] + (IF n = node THEN Pending(n) ELSE 0)
  <2>1. n \in Weight!Nodes /\ n # node /\ current[n] = 0
    BY <1>1, NodeFacts DEF Weight!Init
  <2>2. \A m \in Weight!Children(n) : current[m] = 0
    BY <1>1, <2>1, NodeFacts DEF Weight!Init
  <2>3. Total(n) = 0
    BY <2>1, <2>2, NodeFacts, ZeroSum DEF Total
  <2> QED
    BY <2>1, <2>3
<1> QED
  BY <1>2, <1>3 DEF WeightsInv

LEMMA NextWeights == WeightsInv /\ [Next]_allVars => WeightsInv'
<1> SUFFICES ASSUME WeightsInv, [Next]_allVars, part' = "weights" PROVE WeightsInv'
  BY DEF WeightsInv
<1>1. part = "weights" /\ (Weight!Next \/ UNCHANGED weightVars)
  BY DEF Next, allVars
<1>2. WeightsType /\ \A n \in Inner : Total(n) = current[n] + (IF n = node THEN Pending(n) ELSE 0)
  BY <1>1 DEF WeightsInv
<1>3. \A n \in Inner : n \in Weight!Nodes /\ n \notin AgedUrls /\ n # Weight!Root /\ n # NoNode
                       /\ IsFiniteSet(Weight!Children(n)) /\ Weight!Children(n) \subseteq Weight!Nodes
  BY NodeFacts DEF Inner
<1>4. CASE UNCHANGED weightVars
  BY <1>2, <1>4 DEF WeightsInv, weightVars, WeightsType, Total, Pending, Change
\* The walk begins.
<1>5. ASSUME NEW u \in AgedUrls, node = NoNode, node' = u, u \in weighed',
             UNCHANGED <<current, previous, reviser>>, weighed' \subseteq AgedUrls,
             links' \in [AgedUrls -> Nat], crawls' \in [AgedUrls -> Nat]
      PROVE  WeightsInv'
  <2>1. WeightsType'
    BY <1>2, <1>5 DEF WeightsType
  <2>2. \A n \in Inner : n # node /\ n # node'
    BY <1>3, <1>5
  <2>3. \A n \in Inner : (Total(n))' = Total(n) /\ current'[n] = current[n]
    BY <1>5 DEF Total
  <2> QED
    BY <1>2, <2>1, <2>2, <2>3 DEF WeightsInv
<1>6. ASSUME NEW u \in AgedUrls, NEW fromSeed \in BOOLEAN, Weight!Schedule(u, fromSeed)
      PROVE  WeightsInv'
  <2>1. links' \in [AgedUrls -> Nat] /\ crawls' \in [AgedUrls -> Nat]
    BY <1>2, <1>6 DEF Weight!Schedule, WeightsType
  <2> QED
    BY <1>2, <1>5, <1>6, <2>1 DEF Weight!Schedule, WeightsType
<1>7. ASSUME NEW u \in AgedUrls, Weight!UpdateNode(u) PROVE WeightsInv'
  <2>1. links' \in [AgedUrls -> Nat] /\ crawls' \in [AgedUrls -> Nat]
    BY <1>2, <1>7 DEF Weight!UpdateNode, WeightsType
  <2> QED
    BY <1>2, <1>5, <1>7, <2>1 DEF Weight!UpdateNode, WeightsType
\* The walk goes up from a node to its parent, where the node's change is to be made up for.
<1>8. ASSUME node \in Weight!Nodes \ {Weight!Root}, node' = Weight!Parent(node),
             UNCHANGED <<weighed, links, crawls>>,
             current' \in [Weight!Nodes -> Int], previous' \in [AgedUrls -> Int],
             reviser' \in [Weight!Nodes -> AgedUrls \cup {NoNode}],
             \A n \in Weight!Nodes : n # node => current'[n] = current[n],
             Change(node', reviser', current', previous') \in Int,
             current'[node] = current[node] + Change(node', reviser', current', previous'),
             node \in Inner => Total(node) = current'[node]
      PROVE  WeightsInv'
  <2> DEFINE p == Weight!Parent(node)
  <2>1. p \in Weight!Nodes /\ p # node /\ p \notin AgedUrls /\ node \in Weight!Children(p)
        /\ \A n \in Weight!Nodes : node \in Weight!Children(n) => n = p
    BY <1>8, ParentFacts
  <2> HIDE DEF p
  <2>2. node' = p /\ node' \in Inner \cup {Weight!Root}
    BY <1>8, <2>1 DEF Inner, p
  <2>3. WeightsType'
    BY <1>2, <1>8, <2>2 DEF WeightsType
  <2>4. ASSUME NEW n \in Inner
        PROVE  (Total(n))' = Total(n) + (IF n = p THEN current'[node] - current[node] ELSE 0)
               /\ Total(n) \in Int
    <3>1. IsFiniteSet(Weight!Children(n)) /\ \A m \in Weight!Children(n) : m \in Weight!Nodes
      BY <1>3
    <3>2. \A m \in Weight!Children(n) : current[m] \in Int /\ current'[m] \in Int
      BY <1>2, <1>8, <3>1 DEF WeightsType
    <3>3. \A m \in Weight!Children(n) : m # node => current'[m] = current[m]
      BY <1>8, <3>1
    <3>4. /\ SumOf(current, Weight!Children(n)) \in Int
          /\ SumOf(current', Weight!Children(n)) = SumOf(current, Weight!Children(n))
               + (IF node \in Weight!Children(n) THEN current'[node] - current[node] ELSE 0)
      BY <3>1, <3>2, <3>3, SumChanges
    <3>5. node \in Weight!Children(n) <=> n = p
      BY <1>3, <2>1
    <3>6. (Total(n))' = SumOf(current', Weight!Children(n))
      BY DEF Total
    <3> QED
      BY <3>4, <3>5, <3>6 DEF Total
  <2>5. ASSUME NEW n \in Inner
        PROVE  (Total(n))' = current'[n] + (IF n = node' THEN Change(n, reviser', current', previous') ELSE 0)
    <3>1. n \in Weight!Nodes /\ current[n] \in Int /\ current[node] \in Int /\ current'[node] \in Int
          /\ current'[n] \in Int
      BY <1>2, <1>3, <1>8 DEF WeightsType
    <3>2. CASE n = p
      <4>1. n # node /\ Total(n) = current[n] /\ current'[n] = current[n]
        BY <1>2, <1>8, <2>1, <3>1, <3>2
      <4>2. (Total(n))' = current[n] + (current'[node] - current[node])
        BY <2>4, <3>2, <4>1
      <4>3. n = node' /\ Change(n, reviser', current', previous') = Change(node', reviser', current', previous')
        BY <2>2, <3>2
      <4>4. current'[node] - current[node] = Change(node', reviser', current', previous')
        BY <1>8, <3>1
      <4> QED
        BY <4>1, <4>2, <4>3, <4>4
    <3>3. CASE n = node
      BY <1>8, <2>1, <2>2, <2>4, <3>1, <3>3
    <3>4. CASE n # p /\ n # node
      BY <1>2, <1>8, <2>2, <2>4, <3>1, <3>4
    <3> QED
      BY <3>2, <3>3, <3>4
  <2> QED
    BY <2>3, <2>5 DEF WeightsInv, Pending
<1>9. CASE Weight!WeighPage
  <2> DEFINE w == Weight!NewWeight(node)
             p == Weight!Parent(node)
  <2>1. node \in AgedUrls /\ node \in weighed /\ node \in Weight!Nodes /\ node # Weight!Root /\ node # NoNode
    BY <1>2, <1>9, NodeFacts DEF Weight!WeighPage, WeightsType
  <2>2. w \in Int
    <3>1. Epoch[node] \in Nat /\ crawls[node] \in Nat /\ links[node] \in Nat
      BY <1>2, <2>1, StructuresAssumption DEF WeightsType, Weight!WeightsAssumption
    <3>2. Epoch[node] \div (crawls[node] + 1) \in Int
      BY <3>1
    <3> QED
      BY <3>1, <3>2 DEF Weight!NewWeight
  <2>3. current' = [current EXCEPT ![node] = w] /\ previous' = [previous EXCEPT ![node] = current[node]]
        /\ reviser' = [reviser EXCEPT ![p] = IF w = current[node] THEN NoNode ELSE node]
        /\ node' = p /\ UNCHANGED <<weighed, links, crawls>>
    BY <1>9 DEF Weight!WeighPage, Weight!ReviserOf
  <2>4. p \in Weight!Nodes
    BY <2>1, ParentFacts
  <2> HIDE DEF w, p
  <2>5. current' \in [Weight!Nodes -> Int] /\ previous' \in [AgedUrls -> Int]
        /\ reviser' \in [Weight!Nodes -> AgedUrls \cup {NoNode}]
    BY <1>2, <2>1, <2>2, <2>3 DEF WeightsType
  <2>6. /\ \A n \in Weight!Nodes : n # node => current'[n] = current[n]
        /\ current'[node] = w /\ previous'[node] = current[node] /\ current[node] \in Int
        /\ reviser'[p] = IF w = current[node] THEN NoNode ELSE node
    BY <1>2, <2>1, <2>3, <2>4 DEF WeightsType
  <2>7. Change(node', reviser', current', previous') = w - current[node]
    <3>1. Change(node', reviser', current', previous') = IF reviser'[p] = NoNode THEN 0
                             ELSE current'[reviser'[p]] - previous'[reviser'[p]]
      BY <2>3 DEF Change
    <3> QED
      BY <2>1, <2>2, <2>6, <3>1
  <2>8. current'[node] = current[node] + Change(node', reviser', current', previous')
    BY <2>2, <2>6, <2>7
  <2>9. node \notin Inner
    BY <2>1 DEF Inner
  <2>10. Change(node', reviser', current', previous') \in Int
    BY <2>2, <2>6, <2>7
  <2> QED
    BY <1>8, <2>1, <2>3, <2>5, <2>6, <2>8, <2>9, <2>10 DEF p
<1>10. CASE Weight!WeighInner
  <2> DEFINE p == Weight!Parent(node)
             r == reviser[node]
  <2>1. node \in Inner /\ node \in Weight!Nodes /\ node # Weight!Root /\ node \notin AgedUrls
    BY <1>2, <1>3, <1>10 DEF Weight!WeighInner, WeightsType
  <2>2. reviser' = [reviser EXCEPT ![p] = r]
        /\ current' = (IF r = NoNode THEN current
                       ELSE [current EXCEPT ![node] = @ + current[r] - previous[r]])
        /\ node' = p /\ UNCHANGED <<weighed, links, crawls, previous>>
    BY <1>10 DEF Weight!WeighInner
  <2>3. p \in Weight!Nodes
    BY <2>1, ParentFacts
  <2>4. r \in AgedUrls \cup {NoNode}
    BY <1>2, <2>1 DEF WeightsType
  <2> HIDE DEF p, r
  <2>5. r # NoNode => current[r] \in Int /\ previous[r] \in Int /\ r # node /\ r \in Weight!Nodes
    BY <1>2, <2>1, <2>4, NodeFacts DEF WeightsType
  <2>6. current[node] \in Int /\ reviser'[p] = r
    BY <1>2, <2>1, <2>2, <2>3 DEF WeightsType
  <2>7. Pending(node) = (IF r = NoNode THEN 0 ELSE current[r] - previous[r])
    BY DEF Pending, Change, r
  <2>8. current'[node] = current[node] + Pending(node)
    BY <1>2, <2>1, <2>2, <2>5, <2>6, <2>7 DEF WeightsType
  <2>9. \A n \in Weight!Nodes : n # node => current'[n] = current[n]
    BY <1>2, <2>2 DEF WeightsType
  <2>10. Change(node', reviser', current', previous') = Pending(node)
    <3>1. Change(node', reviser', current', previous') = IF r = NoNode THEN 0 ELSE current'[r] - previous'[r]
      BY <2>2, <2>6 DEF Change
    <3> QED
      BY <2>2, <2>5, <2>7, <2>9, <3>1
  <2>11. current' \in [Weight!Nodes -> Int] /\ previous' \in [AgedUrls -> Int]
         /\ reviser' \in [Weight!Nodes -> AgedUrls \cup {NoNode}]
    <3>1. current[node] + current[r] - previous[r] \in Int \/ r = NoNode
      BY <2>5, <2>6
    <3> QED
      BY <1>2, <2>2, <2>4, <3>1 DEF WeightsType
  <2>12. Total(node) = current'[node]
    BY <1>2, <2>1, <2>8
  <2>13. Pending(node) \in Int
    BY <2>5, <2>7
  <2> QED
    BY <1>8, <2>1, <2>2, <2>8, <2>9, <2>10, <2>11, <2>12, <2>13 DEF p
<1>11. CASE Weight!WeighRoot
  <2>1. node = Weight!Root /\ node' = NoNode /\ UNCHANGED <<weighed, links, crawls, current, previous, reviser>>
    BY <1>11 DEF Weight!WeighRoot
  <2>2. WeightsType'
    BY <1>2, <2>1 DEF WeightsType
  <2>3. ASSUME NEW n \in Inner PROVE n # node /\ n # node' /\ (Total(n))' = Total(n) /\ current'[n] = current[n]
    BY <1>3, <2>1 DEF Total
  <2> QED
    BY <1>2, <2>2, <2>3 DEF WeightsInv
<1> QED
  BY <1>1, <1>4, <1>6, <1>7, <1>9, <1>10, <1>11 DEF Weight!Next

LEMMA WeightsInvariance == Spec => []WeightsInv
<1> QED
  BY InitWeights, NextWeights, PTL DEF Spec, allVars

\* Between two walks the weight of an inner node is the sum of its children's: each change
\* of a page is added once, and on its own branch (Node.cpp:75-107).
THEOREM InnerWeightsAddUp == Spec => []WeightsAddUp
<1>1. WeightsInv => WeightsAddUp
  <2> SUFFICES ASSUME WeightsInv, part = "weights", node = NoNode, NEW n \in Inner
               PROVE  current[n] = Total(n)
    BY SumDef DEF WeightsAddUp, Weight!WeightsAddUp, Inner, Total
  <2>1. WeightsType /\ Total(n) = current[n] + (IF n = node THEN Pending(n) ELSE 0)
    BY DEF WeightsInv
  <2>2. n # NoNode /\ current[n] \in Int
    BY <2>1, NodeFacts DEF WeightsType
  <2> QED
    BY <2>1, <2>2
<1> QED
  BY WeightsInvariance, <1>1, PTL
-------------------------------------------------------------------------------
(* UrlIterators: the parts of a URL, in the order either iterator goes through them *)

PartName == {"Scheme", "Username", "Password", "Domain", "Port", "Path", "Page"}
Part == PartName \X Int

D == shape.domain
P == shape.path
PageCount == IF shape.page THEN 1 ELSE 0
PartCount == (IF kind = "Iterator" THEN 4 + D + P ELSE D + P) + PageCount

WrittenAt(k) ==
  IF k = 1 THEN <<"Scheme", 0>>
  ELSE IF k = 2 THEN <<"Username", 0>>
  ELSE IF k = 3 THEN <<"Password", 0>>
  ELSE IF k <= 3 + D THEN <<"Domain", k - 4>>
  ELSE IF k = 4 + D THEN <<"Port", 0>>
  ELSE IF k <= 4 + D + P THEN <<"Path", k - 5 - D>>
  ELSE <<"Page", 0>>
InTreeAt(k) ==
  IF k <= D THEN <<"Domain", IF shape.ip THEN k - 1 ELSE D - k>>
  ELSE IF k <= D + P THEN <<"Path", k - 1 - D>>
  ELSE <<"Page", 0>>
OrderAt(k) == IF kind = "Iterator" THEN WrittenAt(k) ELSE InTreeAt(k)
ExpectedAt(k) == IF way = "forward" THEN OrderAt(k) ELSE OrderAt(PartCount + 1 - k)

ShapeType ==
  /\ kind \in {"Iterator", "TreeIterator"} /\ way \in {"forward", "backward"}
  /\ shape \in Shapes

LEMMA ShapeFacts ==
  ASSUME ShapeType
  PROVE  /\ SizeRange \in Nat /\ D \in 1..SizeRange - 1 /\ P \in 0..SizeRange - 1
         /\ shape.page \in BOOLEAN /\ shape.ip \in BOOLEAN /\ PageCount \in 0..1
         /\ PartCount \in Nat /\ D \in Nat /\ P \in Nat /\ D >= 1
<1>1. SizeRange \in Nat
      /\ shape \in [domain : 1..SizeRange - 1, path : 0..SizeRange - 1, page : BOOLEAN, ip : BOOLEAN]
  BY StructuresAssumption DEF Iterators!UrlsAssumption, ShapeType
<1>2. SizeRange \in Nat /\ D \in 1..SizeRange - 1 /\ P \in 0..SizeRange - 1
  BY <1>1 DEF D, P
<1>3. PageCount \in 0..1
  BY DEF PageCount
<1>4. PartCount \in Nat
  BY <1>2, <1>3 DEF PartCount
<1> QED
  BY <1>1, <1>2, <1>3, <1>4

\* The sequences that MeetsEachPart puts together.
LEMMA PlacesFacts ==
  ASSUME NEW name \in PartName, NEW n \in Nat
  PROVE  /\ Iterators!Places(name, n) \in Seq(Part) /\ Len(Iterators!Places(name, n)) = n
         /\ \A k \in 1..n : Iterators!Places(name, n)[k] = <<name, k - 1>>
<1>1. Iterators!Places(name, n) = [k \in 1..n |-> <<name, k - 1>>]
  BY DEF Iterators!Places, Iterators!Place
<1>2. \A k \in 1..n : <<name, k - 1>> \in Part
  BY DEF Part
<1> QED
  BY <1>1, <1>2

Joined(q, r) == q \o r
LEMMA ConcatFacts ==
  ASSUME NEW S, NEW q \in Seq(S), NEW r \in Seq(S), NEW m, NEW n, Len(q) = m, Len(r) = n
  PROVE  /\ Joined(q, r) \in Seq(S) /\ Len(Joined(q, r)) = m + n
         /\ \A k \in 1..m + n : Joined(q, r)[k] = IF k <= m THEN q[k] ELSE r[k - m]
BY DEF Joined

LEMMA ReverseFacts ==
  ASSUME NEW S, NEW q \in Seq(S)
  PROVE  /\ Iterators!Reverse(q) \in Seq(S) /\ Len(Iterators!Reverse(q)) = Len(q)
         /\ \A k \in 1..Len(q) : Iterators!Reverse(q)[k] = q[Len(q) + 1 - k]
<1>1. Iterators!Reverse(q) = [k \in 1..Len(q) |-> q[(Len(q) - k) + 1]]
  BY DEF Iterators!Reverse
<1>2. Len(q) \in Nat
  OBVIOUS
<1>3. \A k \in 1..Len(q) : (Len(q) - k) + 1 = Len(q) + 1 - k /\ (Len(q) - k) + 1 \in 1..Len(q)
  BY <1>2
<1>4. \A k \in 1..Len(q) : q[(Len(q) - k) + 1] \in S
  BY <1>3
<1> QED
  BY <1>1, <1>2, <1>3, <1>4

LEMMA PageOnlyFacts ==
  ASSUME ShapeType
  PROVE  /\ Iterators!PageOnly \in Seq(Part) /\ Len(Iterators!PageOnly) = PageCount
         /\ \A k \in 1..PageCount : Iterators!PageOnly[k] = <<"Page", 0>>
<1>1. <<"Page", 0>> \in Part
  BY DEF Part, PartName
<1> QED
  BY <1>1 DEF Iterators!PageOnly, PageCount, Iterators!Only, Iterators!Place

LEMMA WrittenFacts ==
  ASSUME ShapeType
  PROVE  /\ Iterators!Written \in Seq(Part) /\ Len(Iterators!Written) = 4 + D + P + PageCount
         /\ \A k \in 1..4 + D + P + PageCount : Iterators!Written[k] = WrittenAt(k)
<1> DEFINE a == << <<"Scheme", 0>>, <<"Username", 0>>, <<"Password", 0>> >>
           b == Joined(a, Iterators!Places("Domain", D))
           c == Joined(b, << <<"Port", 0>> >>)
           e == Joined(c, Iterators!Places("Path", P))
           f == Joined(e, Iterators!PageOnly)
<1>1. D \in Nat /\ P \in Nat /\ PageCount \in 0..1
  BY ShapeFacts
<1>2. a \in Seq(Part) /\ Len(a) = 3 /\ a[1] = <<"Scheme", 0>> /\ a[2] = <<"Username", 0>> /\ a[3] = <<"Password", 0>>
  BY DEF Part, PartName
<1>3. << <<"Port", 0>> >> \in Seq(Part) /\ Len(<< <<"Port", 0>> >>) = 1 /\ << <<"Port", 0>> >>[1] = <<"Port", 0>>
  BY DEF Part, PartName
<1> HIDE DEF a
<1>4. /\ Iterators!Places("Domain", D) \in Seq(Part) /\ Len(Iterators!Places("Domain", D)) = D
      /\ \A k \in 1..D : Iterators!Places("Domain", D)[k] = <<"Domain", k - 1>>
  BY <1>1, PlacesFacts DEF PartName
<1>5. /\ Iterators!Places("Path", P) \in Seq(Part) /\ Len(Iterators!Places("Path", P)) = P
      /\ \A k \in 1..P : Iterators!Places("Path", P)[k] = <<"Path", k - 1>>
  BY <1>1, PlacesFacts DEF PartName
<1>6. /\ b \in Seq(Part) /\ Len(b) = 3 + D
      /\ \A k \in 1..3 + D : b[k] = IF k <= 3 THEN a[k] ELSE <<"Domain", k - 4>>
  <2>1. b \in Seq(Part) /\ Len(b) = 3 + D
        /\ \A k \in 1..3 + D : b[k] = IF k <= 3 THEN a[k] ELSE Iterators!Places("Domain", D)[k - 3]
    <3> DEFINE three == Len(a)
    <3>1. three = 3
      BY <1>2
    <3>3. a \in Seq(Part) /\ Len(a) = three
      BY <1>2
    <3> HIDE DEF three, b
    <3>2. b \in Seq(Part) /\ Len(b) = three + D
          /\ \A k \in 1..three + D : b[k] = IF k <= three THEN a[k] ELSE Iterators!Places("Domain", D)[k - three]
      BY <3>3, <1>4, ConcatFacts DEF b
    <3> QED
      BY <3>1, <3>2
  <2> HIDE DEF b
  <2>2. ASSUME NEW k \in 1..3 + D, ~ (k <= 3) PROVE b[k] = <<"Domain", k - 4>>
    <3>1. k - 3 \in 1..D /\ (k - 3) - 1 = k - 4
      BY <1>1, <2>2
    <3> QED
      BY <1>4, <2>1, <2>2, <3>1
  <2> QED
    BY <2>1, <2>2
<1> HIDE DEF b
<1>7. /\ c \in Seq(Part) /\ Len(c) = 4 + D
      /\ \A k \in 1..4 + D : c[k] = IF k <= 3 + D THEN b[k] ELSE <<"Port", 0>>
  <2> DEFINE port == << <<"Port", 0>> >>
  <2>1. port \in Seq(Part) /\ Len(port) = 1 /\ port[1] = <<"Port", 0>> /\ c = Joined(b, port)
    BY <1>3
  <2> HIDE DEF port, c
  <2>2. (3 + D) + 1 = 4 + D /\ 3 + D \in Nat
    BY <1>1
  <2>3. /\ c \in Seq(Part) /\ Len(c) = 4 + D
        /\ \A k \in 1..4 + D : c[k] = IF k <= 3 + D THEN b[k] ELSE port[k - (3 + D)]
    <3> DEFINE one == Len(port)
               m == Len(b)
    <3>1. one = 1
      BY <2>1
    <3>3. port \in Seq(Part) /\ Len(port) = one /\ c = Joined(b, port)
      BY <2>1
    <3>4. m = 3 + D
      BY <1>6
    <3>5. b \in Seq(Part) /\ Len(b) = m
      BY <1>6
    <3> HIDE DEF one, m
    <3>2. c \in Seq(Part) /\ Len(c) = m + one
          /\ \A k \in 1..m + one : c[k] = IF k <= m THEN b[k] ELSE port[k - m]
      BY <3>3, <3>5, ConcatFacts
    <3> QED
      BY <2>2, <3>1, <3>2, <3>4
  <2>4. ASSUME NEW k \in 1..4 + D, ~ (k <= 3 + D) PROVE c[k] = <<"Port", 0>>
    <3>1. k - (3 + D) = 1
      BY <1>1, <2>4
    <3> QED
      BY <2>1, <2>3, <2>4, <3>1
  <2> QED
    BY <2>3, <2>4
<1> HIDE DEF c
<1>8. /\ e \in Seq(Part) /\ Len(e) = 4 + D + P
      /\ \A k \in 1..4 + D + P : e[k] = IF k <= 4 + D THEN c[k] ELSE <<"Path", k - 5 - D>>
  <2>1. /\ e \in Seq(Part) /\ Len(e) = 4 + D + P
        /\ \A k \in 1..4 + D + P : e[k] = IF k <= 4 + D THEN c[k] ELSE Iterators!Places("Path", P)[k - (4 + D)]
    BY <1>5, <1>7, ConcatFacts
  <2> HIDE DEF e
  <2>2. ASSUME NEW k \in 1..4 + D + P, ~ (k <= 4 + D) PROVE e[k] = <<"Path", k - 5 - D>>
    <3>1. k - (4 + D) \in 1..P /\ (k - (4 + D)) - 1 = k - 5 - D
      BY <1>1, <2>2
    <3> QED
      BY <1>5, <2>1, <2>2, <3>1
  <2> QED
    BY <2>1, <2>2
<1> HIDE DEF e
<1>9. /\ f \in Seq(Part) /\ Len(f) = 4 + D + P + PageCount
      /\ \A k \in 1..4 + D + P + PageCount : f[k] = IF k <= 4 + D + P THEN e[k] ELSE <<"Page", 0>>
  <2>1. /\ f \in Seq(Part) /\ Len(f) = 4 + D + P + PageCount
        /\ \A k \in 1..4 + D + P + PageCount :
             f[k] = IF k <= 4 + D + P THEN e[k] ELSE Iterators!PageOnly[k - (4 + D + P)]
    BY <1>8, PageOnlyFacts, ConcatFacts
  <2> HIDE DEF f
  <2>2. ASSUME NEW k \in 1..4 + D + P + PageCount, ~ (k <= 4 + D + P) PROVE f[k] = <<"Page", 0>>
    <3>1. k - (4 + D + P) \in 1..PageCount
      BY <1>1, <2>2
    <3> QED
      BY <2>1, <2>2, <3>1, PageOnlyFacts
  <2> QED
    BY <2>1, <2>2
<1>10. Iterators!Written = f
  BY DEF Iterators!Written, Iterators!Only, Iterators!Place, Joined, f, e, c, b, a, D, P
<1> HIDE DEF f
<1>11. ASSUME NEW k \in 1..4 + D + P + PageCount PROVE f[k] = WrittenAt(k)
  <2>1. CASE k <= 3
    <3>1. k = 1 \/ k = 2 \/ k = 3
      BY <2>1
    <3>2. f[k] = a[k]
      BY <1>1, <1>6, <1>7, <1>8, <1>9, <2>1
    <3> QED
      BY <1>2, <3>1, <3>2 DEF WrittenAt
  <2>2. CASE ~ (k <= 3) /\ k <= 3 + D
    BY <1>1, <1>6, <1>7, <1>8, <1>9, <2>2 DEF WrittenAt
  <2>3. CASE ~ (k <= 3 + D) /\ k <= 4 + D
    <3>1. k = 4 + D /\ k \in 1..4 + D /\ k \in 1..4 + D + P /\ ~ (k <= 3 + D) /\ k > 3
      BY <1>1, <2>3
    <3>2. f[k] = c[k] /\ c[k] = <<"Port", 0>>
      BY <1>1, <1>7, <1>8, <1>9, <3>1
    <3> QED
      BY <3>1, <3>2 DEF WrittenAt
  <2>4. CASE ~ (k <= 4 + D) /\ k <= 4 + D + P
    BY <1>1, <1>8, <1>9, <2>4 DEF WrittenAt
  <2>5. CASE ~ (k <= 4 + D + P)
    BY <1>1, <1>9, <2>5 DEF WrittenAt
  <2> QED
    BY <1>1, <2>1, <2>2, <2>3, <2>4, <2>5
<1> QED
  BY <1>9, <1>10, <1>11

LEMMA InTreeFacts ==
  ASSUME ShapeType
  PROVE  /\ Iterators!InTree \in Seq(Part) /\ Len(Iterators!InTree) = D + P + PageCount
         /\ \A k \in 1..D + P + PageCount : Iterators!InTree[k] = InTreeAt(k)
<1> DEFINE a == IF shape.ip THEN Iterators!Places("Domain", D) ELSE Iterators!Reverse(Iterators!Places("Domain", D))
           e == Joined(a, Iterators!Places("Path", P))
           f == Joined(e, Iterators!PageOnly)
<1>1. D \in Nat /\ P \in Nat /\ PageCount \in 0..1
  BY ShapeFacts
<1>2. /\ Iterators!Places("Domain", D) \in Seq(Part) /\ Len(Iterators!Places("Domain", D)) = D
      /\ \A k \in 1..D : Iterators!Places("Domain", D)[k] = <<"Domain", k - 1>>
  BY <1>1, PlacesFacts DEF PartName
<1>3. /\ Iterators!Places("Path", P) \in Seq(Part) /\ Len(Iterators!Places("Path", P)) = P
      /\ \A k \in 1..P : Iterators!Places("Path", P)[k] = <<"Path", k - 1>>
  BY <1>1, PlacesFacts DEF PartName
<1>4. /\ a \in Seq(Part) /\ Len(a) = D
      /\ \A k \in 1..D : a[k] = <<"Domain", IF shape.ip THEN k - 1 ELSE D - k>>
  <2>1. CASE shape.ip
    BY <1>2, <2>1
  <2>2. CASE ~shape.ip
    <3>1. /\ a \in Seq(Part) /\ Len(a) = D
          /\ \A k \in 1..D : a[k] = Iterators!Places("Domain", D)[D + 1 - k]
      BY <1>2, <2>2, ReverseFacts
    <3>2. \A k \in 1..D : D + 1 - k \in 1..D /\ (D + 1 - k) - 1 = D - k
      BY <1>1
    <3>3. ASSUME NEW k \in 1..D PROVE Iterators!Places("Domain", D)[D + 1 - k] = <<"Domain", D - k>>
      <4> DEFINE l == D + 1 - k
      <4>1. l \in 1..D /\ l - 1 = D - k
        BY <3>2
      <4> HIDE DEF l
      <4>2. Iterators!Places("Domain", D)[l] = <<"Domain", l - 1>>
        BY <1>2, <4>1
      <4> QED
        BY <4>1, <4>2 DEF l
    <3> HIDE DEF a
    <3> QED
      BY <2>2, <3>1, <3>3
  <2> QED
    BY <2>1, <2>2
<1> HIDE DEF a
<1>8. /\ e \in Seq(Part) /\ Len(e) = D + P
      /\ \A k \in 1..D + P : e[k] = IF k <= D THEN a[k] ELSE <<"Path", k - 1 - D>>
  <2>1. /\ e \in Seq(Part) /\ Len(e) = D + P
        /\ \A k \in 1..D + P : e[k] = IF k <= D THEN a[k] ELSE Iterators!Places("Path", P)[k - D]
    BY <1>3, <1>4, ConcatFacts
  <2> HIDE DEF e
  <2>2. ASSUME NEW k \in 1..D + P, ~ (k <= D) PROVE e[k] = <<"Path", k - 1 - D>>
    <3>1. k - D \in 1..P /\ (k - D) - 1 = k - 1 - D
      BY <1>1, <2>2
    <3> QED
      BY <1>3, <2>1, <2>2, <3>1
  <2> QED
    BY <2>1, <2>2
<1> HIDE DEF e
<1>9. /\ f \in Seq(Part) /\ Len(f) = D + P + PageCount
      /\ \A k \in 1..D + P + PageCount : f[k] = IF k <= D + P THEN e[k] ELSE <<"Page", 0>>
  <2>1. /\ f \in Seq(Part) /\ Len(f) = D + P + PageCount
        /\ \A k \in 1..D + P + PageCount :
             f[k] = IF k <= D + P THEN e[k] ELSE Iterators!PageOnly[k - (D + P)]
    BY <1>8, PageOnlyFacts, ConcatFacts
  <2> HIDE DEF f
  <2>2. ASSUME NEW k \in 1..D + P + PageCount, ~ (k <= D + P) PROVE f[k] = <<"Page", 0>>
    <3>1. k - (D + P) \in 1..PageCount
      BY <1>1, <2>2
    <3> QED
      BY <2>1, <2>2, <3>1, PageOnlyFacts
  <2> QED
    BY <2>1, <2>2
<1>10. Iterators!InTree = f
  BY DEF Iterators!InTree, Joined, f, e, a, D, P
<1> HIDE DEF f
<1>11. ASSUME NEW k \in 1..D + P + PageCount PROVE f[k] = InTreeAt(k)
  <2>1. CASE k <= D
    BY <1>1, <1>4, <1>8, <1>9, <2>1 DEF InTreeAt
  <2>2. CASE ~ (k <= D) /\ k <= D + P
    BY <1>1, <1>8, <1>9, <2>2 DEF InTreeAt
  <2>3. CASE ~ (k <= D + P)
    BY <1>1, <1>9, <2>3 DEF InTreeAt
  <2> QED
    BY <1>1, <2>1, <2>2, <2>3
<1> QED
  BY <1>9, <1>10, <1>11

-------------------------------------------------------------------------------
(* UrlIterators: where an iterator stands when it has gone through n parts *)

WrittenForward(x, j, n) ==
  \/ x = "Scheme" /\ j = 0 /\ n = 0
  \/ x = "Username" /\ j = 0 /\ n = 1
  \/ x = "Password" /\ j = 0 /\ n = 2
  \/ x = "Domain" /\ j \in 0..D /\ n = 3 + j
  \/ x = "Port" /\ j = 0 /\ n = 3 + D
  \/ x = "Path" /\ j \in 0..P /\ n = 4 + D + j
  \/ x = "Page" /\ j = 0 /\ n = 4 + D + P
  \/ x = "none" /\ n = PartCount
\* The index has wrapped when there is no path; nothing looks at it then.
WrittenBackward(x, j, n) ==
  \/ x = "Page" /\ j = (P - 1) % SizeRange /\ n = 0
  \/ x = "Path" /\ P = 0 /\ n = PageCount
  \/ x = "Path" /\ j \in 0..P - 1 /\ n = PageCount + P - 1 - j
  \/ x = "Port" /\ n = PageCount + P
  \/ x = "Domain" /\ j \in 0..D - 1 /\ n = PageCount + P + D - j
  \/ x = "Password" /\ n = PageCount + P + 1 + D
  \/ x = "Username" /\ n = PageCount + P + 2 + D
  \/ x = "Scheme" /\ n = PageCount + P + 3 + D
  \/ x = "none" /\ n = PartCount
TreeForward(x, j, n) ==
  \/ x = "Domain" /\ j \in 0..D - 1 /\ n = IF shape.ip THEN j ELSE D - 1 - j
  \/ x = "Path" /\ j \in 0..P /\ n = D + j
  \/ x = "Page" /\ j = 0 /\ n = D + P
  \/ x = "none" /\ n = PartCount
\* An index is not moved from the first part of an address.
TreeBackward(x, j, n) ==
  \/ x = "Page" /\ j = P - 1 /\ n = 0
  \/ x = "Path" /\ j \in 0..P - 1 /\ n = PageCount + P - 1 - j
  \/ x = "Domain" /\ ~shape.ip /\ j \in 0..D /\ n = PageCount + P + j
  \/ x = "Domain" /\ shape.ip /\ j \in 0..D - 1 /\ n = PageCount + P + D - 1 - j
  \/ x = "Domain" /\ n = PartCount
Stands(x, j, n) ==
  IF kind = "Iterator"
  THEN IF way = "forward" THEN WrittenForward(x, j, n) ELSE WrittenBackward(x, j, n)
  ELSE IF way = "forward" THEN TreeForward(x, j, n) ELSE TreeBackward(x, j, n)

\* A step that finds the next part, or finds out that it is not there.
Advances(step, n) ==
  \/ step.value = << >> /\ Stands(step.external, step.index, n)
  \/ /\ n < PartCount /\ step.value = <<ExpectedAt(n + 1)>>
     /\ Stands(step.external, step.index, n + 1)

LEMMA StepFacts ==
  ASSUME NEW v, NEW x, NEW j
  PROVE  /\ Iterators!Yield(v, x, j).value = <<v>> /\ Iterators!Yield(v, x, j).external = x
         /\ Iterators!Yield(v, x, j).index = j
BY DEF Iterators!Yield

LEMMA YieldAdvances ==
  ASSUME NEW v, NEW x, NEW j, NEW n, n < PartCount, v = ExpectedAt(n + 1), Stands(x, j, n + 1)
  PROVE  Advances(Iterators!Yield(v, x, j), n)
BY StepFacts DEF Advances

LEMMA RecallAdvances ==
  ASSUME NEW x, NEW j, NEW n, Stands(x, j, n)
  PROVE  Advances(Iterators!Recall(x, j), n)
<1>1. Iterators!Recall(x, j).value = << >> /\ Iterators!Recall(x, j).external = x
      /\ Iterators!Recall(x, j).index = j
  BY DEF Iterators!Recall
<1> QED
  BY <1>1 DEF Advances

LEMMA WrittenForwardStep ==
  ASSUME ShapeType, kind = "Iterator", way = "forward", NEW n \in Nat,
         WrittenForward(external, index, n), external # "none"
  PROVE  Advances(Iterators!ForwardStep, n)
<1>1. D \in Nat /\ P \in Nat /\ PageCount \in 0..1 /\ PartCount = 4 + D + P + PageCount /\ D >= 1
  BY ShapeFacts DEF PartCount
<1>2. /\ \A x, j, k : Stands(x, j, k) <=> WrittenForward(x, j, k)
      /\ \A k : ExpectedAt(k) = WrittenAt(k)
  BY DEF Stands, ExpectedAt, OrderAt
<1>3. CASE external = "Scheme"
  <2>1. index = 0 /\ n = 0
    BY <1>3 DEF WrittenForward
  <2>2. Iterators!ForwardStep = Iterators!Yield(<<"Scheme", 0>>, "Username", index)
    BY <1>3 DEF Iterators!ForwardStep, Iterators!Following, Iterators!Only, Iterators!Place
  <2>3. WrittenForward("Username", index, n + 1) /\ WrittenAt(n + 1) = <<"Scheme", 0>>
    BY <2>1 DEF WrittenForward, WrittenAt
  <2> QED
    BY <1>1, <1>2, <2>1, <2>2, <2>3, YieldAdvances
<1>4. CASE external = "Username"
  <2>1. index = 0 /\ n = 1
    BY <1>4 DEF WrittenForward
  <2>2. Iterators!ForwardStep = Iterators!Yield(<<"Username", 0>>, "Password", index)
    BY <1>4 DEF Iterators!ForwardStep, Iterators!Following, Iterators!Only, Iterators!Place
  <2>3. WrittenForward("Password", index, n + 1) /\ WrittenAt(n + 1) = <<"Username", 0>>
    BY <2>1 DEF WrittenForward, WrittenAt
  <2> QED
    BY <1>1, <1>2, <2>1, <2>2, <2>3, YieldAdvances
<1>5. CASE external = "Password"
  <2>1. index = 0 /\ n = 2
    BY <1>5 DEF WrittenForward
  <2>2. Iterators!ForwardStep = Iterators!Yield(<<"Password", 0>>, "Domain", index)
    BY <1>5 DEF Iterators!ForwardStep, Iterators!Following, Iterators!Only, Iterators!Place
  <2>3. WrittenForward("Domain", index, n + 1) /\ WrittenAt(n + 1) = <<"Password", 0>>
    BY <1>1, <2>1 DEF WrittenForward, WrittenAt
  <2> QED
    BY <1>1, <1>2, <2>1, <2>2, <2>3, YieldAdvances
<1>6. CASE external = "Domain"
  <2>1. index \in 0..D /\ n = 3 + index
    BY <1>6 DEF WrittenForward
  <2>2. Iterators!ForwardStep = Iterators!Up("Domain", D, "Port")
    BY <1>6 DEF Iterators!ForwardStep, Iterators!Following, D
  <2>3. CASE index < D
    <3>1. Iterators!ForwardStep = Iterators!Yield(<<"Domain", index>>, "Domain", index + 1)
      BY <2>2, <2>3 DEF Iterators!Up, Iterators!Place
    <3>2. WrittenForward("Domain", index + 1, n + 1) /\ WrittenAt(n + 1) = <<"Domain", index>>
      BY <1>1, <2>1, <2>3 DEF WrittenForward, WrittenAt
    <3>3. n < PartCount
      BY <1>1, <2>1, <2>3
    <3> QED
      BY <1>2, <3>1, <3>2, <3>3, YieldAdvances
  <2>4. CASE ~ (index < D)
    <3>1. Iterators!ForwardStep = Iterators!Recall("Port", 0)
      BY <2>2, <2>4 DEF Iterators!Up
    <3>2. WrittenForward("Port", 0, n)
      BY <1>1, <2>1, <2>4 DEF WrittenForward
    <3> QED
      BY <1>2, <3>1, <3>2, RecallAdvances
  <2> QED
    BY <2>3, <2>4
<1>7. CASE external = "Port"
  <2>1. index = 0 /\ n = 3 + D
    BY <1>7 DEF WrittenForward
  <2>2. Iterators!ForwardStep = Iterators!Yield(<<"Port", 0>>, "Path", index)
    BY <1>7 DEF Iterators!ForwardStep, Iterators!Following, Iterators!Only, Iterators!Place
  <2>3. WrittenForward("Path", index, n + 1) /\ WrittenAt(n + 1) = <<"Port", 0>> /\ n < PartCount
    BY <1>1, <2>1 DEF WrittenForward, WrittenAt
  <2> QED
    BY <1>2, <2>2, <2>3, YieldAdvances
<1>8. CASE external = "Path"
  <2>1. index \in 0..P /\ n = 4 + D + index
    BY <1>8 DEF WrittenForward
  <2>2. Iterators!ForwardStep = Iterators!Up("Path", P, "Page")
    BY <1>8 DEF Iterators!ForwardStep, Iterators!Following, P
  <2>3. CASE index < P
    <3>1. Iterators!ForwardStep = Iterators!Yield(<<"Path", index>>, "Path", index + 1)
      BY <2>2, <2>3 DEF Iterators!Up, Iterators!Place
    <3>2. WrittenForward("Path", index + 1, n + 1)
      BY <1>1, <2>1, <2>3 DEF WrittenForward
    <3>3. WrittenAt(n + 1) = <<"Path", index>>
      BY <1>1, <2>1, <2>3 DEF WrittenAt
    <3>4. n < PartCount
      BY <1>1, <2>1, <2>3
    <3> QED
      BY <1>2, <3>1, <3>2, <3>3, <3>4, YieldAdvances
  <2>4. CASE ~ (index < P)
    <3>1. Iterators!ForwardStep = Iterators!Recall("Page", 0)
      BY <2>2, <2>4 DEF Iterators!Up
    <3>2. WrittenForward("Page", 0, n)
      BY <1>1, <2>1, <2>4 DEF WrittenForward
    <3> QED
      BY <1>2, <3>1, <3>2, RecallAdvances
  <2> QED
    BY <2>3, <2>4
<1>9. CASE external = "Page"
  <2>1. n = 4 + D + P
    BY <1>9 DEF WrittenForward
  <2>2. Iterators!ForwardStep = Iterators!PageStep("none")
    BY <1>9 DEF Iterators!ForwardStep, Iterators!Following
  <2>3. CASE shape.page
    <3>1. Iterators!ForwardStep = Iterators!Yield(<<"Page", 0>>, "none", index) /\ PageCount = 1
      BY <2>2, <2>3 DEF Iterators!PageStep, Iterators!Only, Iterators!Place, PageCount
    <3>2. WrittenForward("none", index, n + 1) /\ WrittenAt(n + 1) = <<"Page", 0>> /\ n < PartCount
      BY <1>1, <2>1, <3>1 DEF WrittenForward, WrittenAt
    <3> QED
      BY <1>2, <3>1, <3>2, YieldAdvances
  <2>4. CASE ~shape.page
    <3>1. Iterators!ForwardStep = Iterators!Recall("none", index) /\ PageCount = 0
      BY <2>2, <2>4 DEF Iterators!PageStep, PageCount
    <3>2. WrittenForward("none", index, n)
      BY <1>1, <2>1, <3>1 DEF WrittenForward
    <3> QED
      BY <1>2, <3>1, <3>2, RecallAdvances
  <2> QED
    BY <2>3, <2>4
<1> QED
  BY <1>3, <1>4, <1>5, <1>6, <1>7, <1>8, <1>9 DEF WrittenForward

LEMMA WrittenBackwardStep ==
  ASSUME ShapeType, kind = "Iterator", way = "backward", NEW n \in Nat,
         WrittenBackward(external, index, n), external # "none"
  PROVE  Advances(Iterators!BackwardStep, n)
<1>1. D \in Nat /\ P \in Nat /\ PageCount \in 0..1 /\ PartCount = 4 + D + P + PageCount /\ D >= 1
      /\ SizeRange \in Nat /\ D <= SizeRange - 1 /\ P <= SizeRange - 1
  BY ShapeFacts DEF PartCount
<1>2. /\ \A x, j, k : Stands(x, j, k) <=> WrittenBackward(x, j, k)
      /\ \A k : ExpectedAt(k) = WrittenAt(PartCount + 1 - k)
  BY DEF Stands, ExpectedAt, OrderAt
<1>3. CASE external = "Scheme"
  <2>1. n = PageCount + P + 3 + D
    BY <1>3 DEF WrittenBackward
  <2>2. Iterators!BackwardStep = Iterators!Yield(<<"Scheme", 0>>, "none", index)
    BY <1>3 DEF Iterators!BackwardStep, Iterators!Preceding, Iterators!Only, Iterators!Place
  <2>3. WrittenBackward("none", index, n + 1) /\ n < PartCount
    BY <1>1, <2>1 DEF WrittenBackward
  <2>4. WrittenAt(PartCount + 1 - (n + 1)) = <<"Scheme", 0>>
    <3>1. PartCount + 1 - (n + 1) = 1
      BY <1>1, <2>1
    <3> QED
      BY <3>1 DEF WrittenAt
  <2> QED
    BY <1>2, <2>2, <2>3, <2>4, YieldAdvances
<1>4. CASE external = "Username"
  <2>1. n = PageCount + P + 2 + D
    BY <1>4 DEF WrittenBackward
  <2>2. Iterators!BackwardStep = Iterators!Yield(<<"Username", 0>>, "Scheme", index)
    BY <1>4 DEF Iterators!BackwardStep, Iterators!Preceding, Iterators!Only, Iterators!Place
  <2>3. WrittenBackward("Scheme", index, n + 1) /\ n < PartCount
    BY <1>1, <2>1 DEF WrittenBackward
  <2>4. WrittenAt(PartCount + 1 - (n + 1)) = <<"Username", 0>>
    <3>1. PartCount + 1 - (n + 1) = 2
      BY <1>1, <2>1
    <3> QED
      BY <3>1 DEF WrittenAt
  <2> QED
    BY <1>2, <2>2, <2>3, <2>4, YieldAdvances
<1>5. CASE external = "Password"
  <2>1. n = PageCount + P + 1 + D
    BY <1>5 DEF WrittenBackward
  <2>2. Iterators!BackwardStep = Iterators!Yield(<<"Password", 0>>, "Username", index)
    BY <1>5 DEF Iterators!BackwardStep, Iterators!Preceding, Iterators!Only, Iterators!Place
  <2>3. WrittenBackward("Username", index, n + 1) /\ n < PartCount
    BY <1>1, <2>1 DEF WrittenBackward
  <2>4. WrittenAt(PartCount + 1 - (n + 1)) = <<"Password", 0>>
    <3>1. PartCount + 1 - (n + 1) = 3
      BY <1>1, <2>1
    <3> QED
      BY <3>1 DEF WrittenAt
  <2> QED
    BY <1>2, <2>2, <2>3, <2>4, YieldAdvances
<1>6. CASE external = "Domain"
  <2>1. index \in 0..D - 1 /\ n = PageCount + P + D - index
    BY <1>6 DEF WrittenBackward
  <2>2. Iterators!BackwardStep = Iterators!Down("Domain", "Password", 0)
    BY <1>6 DEF Iterators!BackwardStep, Iterators!Preceding
  <2>3. n < PartCount
    BY <1>1, <2>1
  <2>4. WrittenAt(PartCount + 1 - (n + 1)) = <<"Domain", index>>
    <3>1. PartCount + 1 - (n + 1) = 4 + index
      BY <1>1, <2>1
    <3> QED
      BY <1>1, <2>1, <3>1 DEF WrittenAt
  <2>5. CASE index = 0
    <3>1. Iterators!BackwardStep = Iterators!Yield(<<"Domain", index>>, "Password", 0)
      BY <2>2, <2>5 DEF Iterators!Down, Iterators!Place
    <3>2. WrittenBackward("Password", 0, n + 1)
      BY <1>1, <2>1, <2>5 DEF WrittenBackward
    <3> QED
      BY <1>2, <2>3, <2>4, <3>1, <3>2, YieldAdvances
  <2>6. CASE index # 0
    <3>1. Iterators!BackwardStep = Iterators!Yield(<<"Domain", index>>, "Domain", index - 1)
      BY <2>2, <2>6 DEF Iterators!Down, Iterators!Place
    <3>2. WrittenBackward("Domain", index - 1, n + 1)
      BY <1>1, <2>1, <2>6 DEF WrittenBackward
    <3> QED
      BY <1>2, <2>3, <2>4, <3>1, <3>2, YieldAdvances
  <2> QED
    BY <2>5, <2>6
<1>7. CASE external = "Port"
  <2>1. n = PageCount + P
    BY <1>7 DEF WrittenBackward
  <2>2. (D - 1) % SizeRange = D - 1
    BY <1>1
  <2>3. Iterators!BackwardStep = Iterators!Yield(<<"Port", 0>>, "Domain", D - 1)
    <3>1. Iterators!BackwardStep = Iterators!Yield(<<"Port", 0>>, "Domain", (D - 1) % SizeRange)
      BY <1>7 DEF Iterators!BackwardStep, Iterators!Preceding, Iterators!Only, Iterators!Place, D
    <3> QED
      BY <2>2, <3>1
  <2>4. WrittenBackward("Domain", D - 1, n + 1) /\ n < PartCount
    BY <1>1, <2>1 DEF WrittenBackward
  <2>5. WrittenAt(PartCount + 1 - (n + 1)) = <<"Port", 0>>
    <3>1. PartCount + 1 - (n + 1) = 4 + D
      BY <1>1, <2>1
    <3> QED
      BY <1>1, <3>1 DEF WrittenAt
  <2> QED
    BY <1>2, <2>3, <2>4, <2>5, YieldAdvances
<1>8. CASE external = "Path" /\ P = 0
  <2>1. n = PageCount
    BY <1>1, <1>8 DEF WrittenBackward
  <2>2. Iterators!BackwardStep = Iterators!Recall("Port", index)
    BY <1>8 DEF Iterators!BackwardStep, Iterators!Preceding, P
  <2>3. WrittenBackward("Port", index, n)
    BY <1>1, <1>8, <2>1 DEF WrittenBackward
  <2> QED
    BY <1>2, <2>2, <2>3, RecallAdvances
<1>9. CASE external = "Path" /\ P # 0
  <2>1. index \in 0..P - 1 /\ n = PageCount + P - 1 - index
    BY <1>9 DEF WrittenBackward
  <2>2. Iterators!BackwardStep = Iterators!Down("Path", "Port", 0)
    BY <1>9 DEF Iterators!BackwardStep, Iterators!Preceding, P
  <2>3. n < PartCount
    BY <1>1, <2>1
  <2>4. WrittenAt(PartCount + 1 - (n + 1)) = <<"Path", index>>
    <3>1. PartCount + 1 - (n + 1) = 5 + D + index
      BY <1>1, <2>1
    <3> QED
      BY <1>1, <2>1, <3>1 DEF WrittenAt
  <2>5. CASE index = 0
    <3>1. Iterators!BackwardStep = Iterators!Yield(<<"Path", index>>, "Port", 0)
      BY <2>2, <2>5 DEF Iterators!Down, Iterators!Place
    <3>2. WrittenBackward("Port", 0, n + 1)
      BY <1>1, <2>1, <2>5 DEF WrittenBackward
    <3> QED
      BY <1>2, <2>3, <2>4, <3>1, <3>2, YieldAdvances
  <2>6. CASE index # 0
    <3>1. Iterators!BackwardStep = Iterators!Yield(<<"Path", index>>, "Path", index - 1)
      BY <2>2, <2>6 DEF Iterators!Down, Iterators!Place
    <3>2. WrittenBackward("Path", index - 1, n + 1)
      BY <1>1, <2>1, <2>6 DEF WrittenBackward
    <3> QED
      BY <1>2, <2>3, <2>4, <3>1, <3>2, YieldAdvances
  <2> QED
    BY <2>5, <2>6
<1>10. CASE external = "Page"
  <2>1. n = 0 /\ index = (P - 1) % SizeRange
    BY <1>10 DEF WrittenBackward
  <2>2. Iterators!BackwardStep = Iterators!PageStep("Path")
    BY <1>10 DEF Iterators!BackwardStep, Iterators!Preceding
  <2>3. P # 0 => index = P - 1
    BY <1>1, <2>1
  <2>4. WrittenBackward("Path", index, PageCount)
    <3>1. CASE P = 0
      BY <3>1 DEF WrittenBackward
    <3>2. CASE P # 0
      <4>1. index \in 0..P - 1 /\ PageCount = PageCount + P - 1 - index
        BY <1>1, <2>3, <3>2
      <4> QED
        BY <4>1 DEF WrittenBackward
    <3> QED
      BY <3>1, <3>2
  <2>5. CASE shape.page
    <3>1. Iterators!BackwardStep = Iterators!Yield(<<"Page", 0>>, "Path", index) /\ PageCount = 1
      BY <2>2, <2>5 DEF Iterators!PageStep, Iterators!Only, Iterators!Place, PageCount
    <3>2. WrittenAt(PartCount + 1 - (n + 1)) = <<"Page", 0>> /\ n < PartCount
      <4>1. PartCount + 1 - (n + 1) = 5 + D + P
        BY <1>1, <2>1, <3>1
      <4> QED
        BY <1>1, <2>1, <4>1 DEF WrittenAt
    <3>3. n + 1 = PageCount
      BY <2>1, <3>1
    <3> QED
      BY <1>2, <2>4, <3>1, <3>2, <3>3, YieldAdvances
  <2>6. CASE ~shape.page
    <3>1. Iterators!BackwardStep = Iterators!Recall("Path", index) /\ PageCount = 0
      BY <2>2, <2>6 DEF Iterators!PageStep, PageCount
    <3> QED
      BY <1>2, <2>1, <2>4, <3>1, RecallAdvances
  <2> QED
    BY <2>5, <2>6
<1> QED
  BY <1>3, <1>4, <1>5, <1>6, <1>7, <1>8, <1>9, <1>10 DEF WrittenBackward

LEMMA TreeForwardStep ==
  ASSUME ShapeType, kind = "TreeIterator", way = "forward", NEW n \in Nat,
         TreeForward(external, index, n), external # "none"
  PROVE  Advances(Iterators!TreeForwardStep, n)
<1>1. D \in Nat /\ P \in Nat /\ PageCount \in 0..1 /\ PartCount = D + P + PageCount /\ D >= 1
      /\ shape.ip \in BOOLEAN
  BY ShapeFacts DEF PartCount, ShapeType
<1>2. /\ \A x, j, k : Stands(x, j, k) <=> TreeForward(x, j, k)
      /\ \A k : ExpectedAt(k) = InTreeAt(k)
  BY DEF Stands, ExpectedAt, OrderAt, ShapeType
<1>3. CASE external = "Domain"
  <2>1. index \in 0..D - 1 /\ n = IF shape.ip THEN index ELSE D - 1 - index
    BY <1>3 DEF TreeForward
  <2>2. n < PartCount /\ InTreeAt(n + 1) = <<"Domain", index>>
    <3>1. n + 1 <= D /\ n < PartCount
      BY <1>1, <2>1
    <3>2. (IF shape.ip THEN (n + 1) - 1 ELSE D - (n + 1)) = index
      BY <1>1, <2>1
    <3> QED
      BY <3>1, <3>2 DEF InTreeAt
  <2>3. CASE shape.ip /\ index = D - 1
    <3>1. Iterators!TreeForwardStep = Iterators!Yield(<<"Domain", index>>, "Path", 0)
      BY <1>3, <2>3 DEF Iterators!TreeForwardStep, Iterators!Place, D
    <3>2. TreeForward("Path", 0, n + 1)
      BY <1>1, <2>1, <2>3 DEF TreeForward
    <3> QED
      BY <1>2, <2>2, <3>1, <3>2, YieldAdvances
  <2>4. CASE shape.ip /\ index # D - 1
    <3>1. Iterators!TreeForwardStep = Iterators!Yield(<<"Domain", index>>, "Domain", index + 1)
      BY <1>3, <2>4 DEF Iterators!TreeForwardStep, Iterators!Place, D
    <3>2. TreeForward("Domain", index + 1, n + 1)
      BY <1>1, <2>1, <2>4 DEF TreeForward
    <3> QED
      BY <1>2, <2>2, <3>1, <3>2, YieldAdvances
  <2>5. CASE ~shape.ip /\ index = 0
    <3>1. Iterators!TreeForwardStep = Iterators!Yield(<<"Domain", index>>, "Path", 0)
      BY <1>3, <2>5 DEF Iterators!TreeForwardStep, Iterators!Down, Iterators!Place
    <3>2. TreeForward("Path", 0, n + 1)
      BY <1>1, <2>1, <2>5 DEF TreeForward
    <3> QED
      BY <1>2, <2>2, <3>1, <3>2, YieldAdvances
  <2>6. CASE ~shape.ip /\ index # 0
    <3>1. Iterators!TreeForwardStep = Iterators!Yield(<<"Domain", index>>, "Domain", index - 1)
      BY <1>3, <2>6 DEF Iterators!TreeForwardStep, Iterators!Down, Iterators!Place
    <3>2. TreeForward("Domain", index - 1, n + 1)
      BY <1>1, <2>1, <2>6 DEF TreeForward
    <3> QED
      BY <1>2, <2>2, <3>1, <3>2, YieldAdvances
  <2> QED
    BY <2>3, <2>4, <2>5, <2>6
<1>4. CASE external = "Path"
  <2>1. index \in 0..P /\ n = D + index
    BY <1>4 DEF TreeForward
  <2>2. Iterators!TreeForwardStep = Iterators!Up("Path", P, "Page")
    BY <1>4 DEF Iterators!TreeForwardStep, P
  <2>3. CASE index < P
    <3>1. Iterators!TreeForwardStep = Iterators!Yield(<<"Path", index>>, "Path", index + 1)
      BY <2>2, <2>3 DEF Iterators!Up, Iterators!Place
    <3>2. TreeForward("Path", index + 1, n + 1) /\ n < PartCount
      BY <1>1, <2>1, <2>3 DEF TreeForward
    <3>3. InTreeAt(n + 1) = <<"Path", index>>
      BY <1>1, <2>1, <2>3 DEF InTreeAt
    <3> QED
      BY <1>2, <3>1, <3>2, <3>3, YieldAdvances
  <2>4. CASE ~ (index < P)
    <3>1. Iterators!TreeForwardStep = Iterators!Recall("Page", 0)
      BY <2>2, <2>4 DEF Iterators!Up
    <3>2. TreeForward("Page", 0, n)
      BY <1>1, <2>1, <2>4 DEF TreeForward
    <3> QED
      BY <1>2, <3>1, <3>2, RecallAdvances
  <2> QED
    BY <2>3, <2>4
<1>5. CASE external = "Page"
  <2>1. n = D + P
    BY <1>5 DEF TreeForward
  <2>2. Iterators!TreeForwardStep = Iterators!PageStep("none")
    BY <1>5 DEF Iterators!TreeForwardStep
  <2>3. CASE shape.page
    <3>1. Iterators!TreeForwardStep = Iterators!Yield(<<"Page", 0>>, "none", index) /\ PageCount = 1
      BY <2>2, <2>3 DEF Iterators!PageStep, Iterators!Only, Iterators!Place, PageCount
    <3>2. TreeForward("none", index, n + 1) /\ InTreeAt(n + 1) = <<"Page", 0>> /\ n < PartCount
      BY <1>1, <2>1, <3>1 DEF TreeForward, InTreeAt
    <3> QED
      BY <1>2, <3>1, <3>2, YieldAdvances
  <2>4. CASE ~shape.page
    <3>1. Iterators!TreeForwardStep = Iterators!Recall("none", index) /\ PageCount = 0
      BY <2>2, <2>4 DEF Iterators!PageStep, PageCount
    <3>2. TreeForward("none", index, n)
      BY <1>1, <2>1, <3>1 DEF TreeForward
    <3> QED
      BY <1>2, <3>1, <3>2, RecallAdvances
  <2> QED
    BY <2>3, <2>4
<1> QED
  BY <1>3, <1>4, <1>5 DEF TreeForward

LEMMA TreeBackwardStep ==
  ASSUME ShapeType, kind = "TreeIterator", way = "backward", P > 0, NEW n \in Nat,
         TreeBackward(external, index, n), n # PartCount
  PROVE  Advances(Iterators!TreeBackwardStep, n)
<1>1. D \in Nat /\ P \in Nat /\ PageCount \in 0..1 /\ PartCount = D + P + PageCount /\ D >= 1
      /\ shape.ip \in BOOLEAN
  BY ShapeFacts DEF PartCount, ShapeType
<1>2. /\ \A x, j, k : Stands(x, j, k) <=> TreeBackward(x, j, k)
      /\ \A k : ExpectedAt(k) = InTreeAt(PartCount + 1 - k)
  BY DEF Stands, ExpectedAt, OrderAt, ShapeType
<1>3. CASE external = "Domain" /\ ~shape.ip
  <2>1. index \in 0..D /\ n = PageCount + P + index
    BY <1>3 DEF TreeBackward
  <2>2. index < D /\ n < PartCount
    BY <1>1, <2>1
  <2>3. InTreeAt(PartCount + 1 - (n + 1)) = <<"Domain", index>>
    <3>1. PartCount + 1 - (n + 1) = D - index
      BY <1>1, <2>1
    <3>2. D - index <= D /\ D - (D - index) = index
      BY <1>1, <2>1
    <3> QED
      BY <1>3, <3>1, <3>2 DEF InTreeAt
  <2>4. Iterators!TreeBackwardStep = Iterators!Yield(<<"Domain", index>>, "Domain", index + 1)
    <3>1. ~ (index >= shape.domain)
      BY <1>1, <2>1, <2>2 DEF D
    <3> QED
      BY <1>3, <3>1 DEF Iterators!TreeBackwardStep, Iterators!Place
  <2>5. TreeBackward("Domain", index + 1, n + 1)
    BY <1>1, <1>3, <2>1, <2>2 DEF TreeBackward
  <2> QED
    BY <1>2, <2>2, <2>3, <2>4, <2>5, YieldAdvances
<1>4. CASE external = "Domain" /\ shape.ip
  <2>1. index \in 0..D - 1 /\ n = PageCount + P + D - 1 - index
    BY <1>4 DEF TreeBackward
  <2>2. n < PartCount
    BY <1>1, <2>1
  <2>3. InTreeAt(PartCount + 1 - (n + 1)) = <<"Domain", index>>
    <3>1. PartCount + 1 - (n + 1) = index + 1
      BY <1>1, <2>1
    <3>2. index + 1 <= D /\ (index + 1) - 1 = index
      BY <1>1, <2>1
    <3> QED
      BY <1>4, <3>1, <3>2 DEF InTreeAt
  <2>4. ~ (index >= shape.domain)
    BY <1>1, <2>1 DEF D
  <2>5. CASE index = 0
    <3>1. Iterators!TreeBackwardStep = Iterators!Yield(<<"Domain", index>>, "Domain", 0)
      BY <1>4, <2>4, <2>5 DEF Iterators!TreeBackwardStep, Iterators!Place
    <3>2. n + 1 = PartCount
      BY <1>1, <2>1, <2>5
    <3>3. TreeBackward("Domain", 0, n + 1)
      BY <3>2 DEF TreeBackward
    <3> QED
      BY <1>2, <2>2, <2>3, <3>1, <3>3, YieldAdvances
  <2>6. CASE index # 0
    <3>1. Iterators!TreeBackwardStep = Iterators!Yield(<<"Domain", index>>, "Domain", index - 1)
      BY <1>4, <2>4, <2>6 DEF Iterators!TreeBackwardStep, Iterators!Place
    <3>2. TreeBackward("Domain", index - 1, n + 1)
      BY <1>1, <1>4, <2>1, <2>6 DEF TreeBackward
    <3> QED
      BY <1>2, <2>2, <2>3, <3>1, <3>2, YieldAdvances
  <2> QED
    BY <2>5, <2>6
<1>5. CASE external = "Path"
  <2>1. index \in 0..P - 1 /\ n = PageCount + P - 1 - index
    BY <1>5 DEF TreeBackward
  <2>2. n < PartCount
    BY <1>1, <2>1
  <2>3. InTreeAt(PartCount + 1 - (n + 1)) = <<"Path", index>>
    <3>1. PartCount + 1 - (n + 1) = D + index + 1
      BY <1>1, <2>1
    <3> QED
      BY <1>1, <2>1, <3>1 DEF InTreeAt
  <2> DEFINE then == IF shape.ip THEN D - 1 ELSE 0
  <2>4. Iterators!TreeBackwardStep = Iterators!Down("Path", "Domain", then)
    BY <1>1, <1>5 DEF Iterators!TreeBackwardStep, P, D
  <2>5. CASE index = 0
    <3>1. Iterators!TreeBackwardStep = Iterators!Yield(<<"Path", index>>, "Domain", then)
      BY <2>4, <2>5 DEF Iterators!Down, Iterators!Place
    <3>2. n + 1 = PageCount + P
      BY <1>1, <2>1, <2>5
    <3>3. TreeBackward("Domain", then, n + 1)
      BY <1>1, <3>2 DEF TreeBackward
    <3> HIDE DEF then
    <3> QED
      BY <1>2, <2>2, <2>3, <3>1, <3>3, YieldAdvances
  <2>6. CASE index # 0
    <3>1. Iterators!TreeBackwardStep = Iterators!Yield(<<"Path", index>>, "Path", index - 1)
      BY <2>4, <2>6 DEF Iterators!Down, Iterators!Place
    <3>2. TreeBackward("Path", index - 1, n + 1)
      BY <1>1, <2>1, <2>6 DEF TreeBackward
    <3> QED
      BY <1>2, <2>2, <2>3, <3>1, <3>2, YieldAdvances
  <2> QED
    BY <2>5, <2>6
<1>6. CASE external = "Page"
  <2>1. n = 0 /\ index = P - 1
    BY <1>6 DEF TreeBackward
  <2>2. Iterators!TreeBackwardStep = Iterators!PageStep("Path")
    BY <1>6 DEF Iterators!TreeBackwardStep
  <2>3. TreeBackward("Path", index, PageCount)
    BY <1>1, <2>1 DEF TreeBackward
  <2>4. CASE shape.page
    <3>1. Iterators!TreeBackwardStep = Iterators!Yield(<<"Page", 0>>, "Path", index) /\ PageCount = 1
      BY <2>2, <2>4 DEF Iterators!PageStep, Iterators!Only, Iterators!Place, PageCount
    <3>2. InTreeAt(PartCount + 1 - (n + 1)) = <<"Page", 0>> /\ n < PartCount
      <4>1. PartCount + 1 - (n + 1) = D + P + 1
        BY <1>1, <2>1, <3>1
      <4> QED
        BY <1>1, <2>1, <4>1 DEF InTreeAt
    <3>3. n + 1 = PageCount
      BY <2>1, <3>1
    <3> QED
      BY <1>2, <2>3, <3>1, <3>2, <3>3, YieldAdvances
  <2>5. CASE ~shape.page
    <3>1. Iterators!TreeBackwardStep = Iterators!Recall("Path", index) /\ PageCount = 0
      BY <2>2, <2>5 DEF Iterators!PageStep, PageCount
    <3> QED
      BY <1>2, <2>1, <2>3, <3>1, RecallAdvances
  <2> QED
    BY <2>4, <2>5
<1> QED
  BY <1>1, <1>3, <1>4, <1>5, <1>6 DEF TreeBackward

-------------------------------------------------------------------------------
(* UrlIterators: the parts that a client has met *)

\* From the front an iterator is at its end only past the last part.  From the end it is
\* so before its first step, and, on the front of an address, after its last.
WalkersInv ==
  part = "iterators" /\ ~Iterators!MissesDomain =>
    /\ ShapeType
    /\ seen \in Seq(Part) /\ Len(seen) <= PartCount
    /\ \A k \in 1..Len(seen) : seen[k] = ExpectedAt(k)
    /\ internal \in {"Transient", "End"}
    /\ kind = "TreeIterator" /\ way = "backward" => P > 0
    /\ \/ way = "backward" /\ internal = "End" /\ seen = << >>
       \/ /\ Stands(external, index, Len(seen))
          /\ way = "forward" /\ internal = "End" => external = "none"
          /\ way = "backward" /\ internal = "End" => seen # << >>

\* From the end of a URL without a path a TreeIterator takes up an index beyond the domain,
\* and keeps it.
LostInv ==
  part = "iterators" /\ Iterators!MissesDomain =>
    /\ ShapeType /\ D <= SizeRange - 1
    /\ \/ internal = "End" /\ seen = << >>
       \/ /\ internal = "Transient" /\ index = SizeRange - 1
          /\ \/ external = "Page" /\ seen = << >>
             \/ external \in {"Path", "Domain"} /\ seen = Iterators!PageOnly
       \/ internal = "Transient" /\ external = "none" /\ seen = Iterators!PageOnly
IteratorsInv == WalkersInv /\ LostInv

LEMMA PartFacts ==
  ASSUME ShapeType, NEW k \in Int
  PROVE  ExpectedAt(k) \in Part
<1>1. D \in Int /\ P \in Int /\ PartCount \in Int
  BY ShapeFacts
<1>2. \A x \in PartName, y \in Int : <<x, y>> \in Part
  BY DEF Part
<1>3. ASSUME NEW m \in Int PROVE WrittenAt(m) \in Part
  <2>1. m - 4 \in Int /\ m - 5 - D \in Int /\ 0 \in Int
    BY <1>1
  <2> QED
    BY <1>2, <2>1 DEF WrittenAt, PartName
<1>4. ASSUME NEW m \in Int PROVE InTreeAt(m) \in Part
  <2>1. m - 1 \in Int /\ D - m \in Int /\ m - 1 - D \in Int /\ 0 \in Int
    BY <1>1
  <2>2. (IF shape.ip THEN m - 1 ELSE D - m) \in Int
    BY <2>1
  <2> QED
    BY <1>2, <2>1, <2>2 DEF InTreeAt, PartName
<1>5. PartCount + 1 - k \in Int
  BY <1>1
<1> QED
  BY <1>3, <1>4, <1>5 DEF ExpectedAt, OrderAt

\* The part where begin stands is the first, and no other.
LEMMA FirstOnly ==
  ASSUME ShapeType, NEW k \in 1..PartCount
  PROVE  OrderAt(k) = <<Iterators!First, Iterators!FirstIndex>> <=> k = 1
<1>1. D \in Nat /\ D >= 1 /\ P \in Nat /\ shape.ip \in BOOLEAN /\ k \in Nat /\ k >= 1
  BY ShapeFacts
<1>2. CASE kind = "Iterator"
  <2>1. Iterators!First = "Scheme" /\ Iterators!FirstIndex = 0
    BY <1>2 DEF Iterators!First, Iterators!FirstIndex
  <2>2. OrderAt(k) = WrittenAt(k)
    BY <1>2 DEF OrderAt
  <2>3. WrittenAt(k) = <<"Scheme", 0>> <=> k = 1
    BY DEF WrittenAt
  <2> QED
    BY <2>1, <2>2, <2>3
<1>3. CASE kind # "Iterator"
  <2>1. Iterators!First = "Domain" /\ Iterators!FirstIndex = IF shape.ip THEN 0 ELSE D - 1
    BY <1>3 DEF Iterators!First, Iterators!FirstIndex, D
  <2>2. OrderAt(k) = InTreeAt(k)
    BY <1>3 DEF OrderAt
  <2>3. InTreeAt(k) = <<"Domain", IF shape.ip THEN 0 ELSE D - 1>> <=> k = 1
    BY <1>1 DEF InTreeAt
  <2> QED
    BY <2>1, <2>2, <2>3
<1> QED
  BY <1>2, <1>3

LEMMA AtBeginFacts ==
  ASSUME WalkersInv, part = "iterators", ~Iterators!MissesDomain, way = "backward"
  PROVE  Iterators!AtBegin <=> Len(seen) = PartCount
<1>1. PartCount \in Nat /\ PartCount >= 1
  BY ShapeFacts DEF WalkersInv, PartCount
<1>2. Len(seen) \in Nat /\ Len(seen) <= PartCount /\ (seen # << >> <=> Len(seen) >= 1)
  BY DEF WalkersInv
<1>3. Iterators!AtBegin <=> Len(seen) >= 1 /\ seen[Len(seen)] = <<Iterators!First, Iterators!FirstIndex>>
  BY <1>2 DEF Iterators!AtBegin, Iterators!Last, Iterators!Place
<1>4. ASSUME Len(seen) >= 1
      PROVE  seen[Len(seen)] = <<Iterators!First, Iterators!FirstIndex>> <=> Len(seen) = PartCount
  <2> DEFINE n == Len(seen)
             b == PartCount + 1 - n
  <2>1. n \in 1..Len(seen) /\ b \in 1..PartCount /\ (b = 1 <=> n = PartCount)
    BY <1>1, <1>2, <1>4
  <2>2. seen[n] = OrderAt(b)
    BY <2>1 DEF WalkersInv, ExpectedAt
  <2>3. ShapeType
    BY DEF WalkersInv
  <2> HIDE DEF n, b
  <2>4. OrderAt(b) = <<Iterators!First, Iterators!FirstIndex>> <=> b = 1
    BY <2>1, <2>3, FirstOnly
  <2> QED
    BY <2>1, <2>2, <2>4 DEF n
<1> QED
  BY <1>1, <1>2, <1>3, <1>4

LEMMA SameOrder ==
  ASSUME UNCHANGED <<kind, way, shape>>
  PROVE  /\ PartCount' = PartCount /\ P' = P /\ \A k : ExpectedAt(k)' = ExpectedAt(k)
         /\ ShapeType' = ShapeType
BY DEF PartCount, P, D, PageCount, ExpectedAt, OrderAt, WrittenAt, InTreeAt, ShapeType

LEMMA SamePlace ==
  ASSUME UNCHANGED <<kind, way, shape>>, Stands(external', index', Len(seen'))
  PROVE  Stands(external, index, Len(seen))'
BY DEF Stands, WrittenForward, WrittenBackward, TreeForward, TreeBackward, PartCount, P, D, PageCount

LEMMA InitWalkers == Init => WalkersInv
<1> SUFFICES ASSUME Init, part = "iterators", ~Iterators!MissesDomain PROVE WalkersInv
  BY DEF WalkersInv
<1>1. Iterators!Init
  BY DEF Init
<1>2. ShapeType
  BY <1>1 DEF Iterators!Init, ShapeType
<1>3. D \in Nat /\ D >= 1 /\ shape.ip \in BOOLEAN /\ PartCount \in Nat
  BY <1>2, ShapeFacts
<1>4. seen = << >> /\ Len(seen) = 0 /\ seen \in Seq(Part) /\ internal \in {"Transient", "End"}
  BY <1>1 DEF Iterators!Init
<1>5. kind = "TreeIterator" /\ way = "backward" => P > 0
  BY <1>2, ShapeFacts DEF Iterators!MissesDomain, P
<1>6. CASE way = "backward"
  BY <1>1, <1>2, <1>3, <1>4, <1>5, <1>6 DEF Iterators!Init, WalkersInv
<1>7. CASE way = "forward"
  <2>1. internal = "Transient" /\ external = Iterators!First /\ index = Iterators!FirstIndex
    BY <1>1, <1>7 DEF Iterators!Init
  <2>2. Stands(external, index, 0)
    BY <1>3, <1>7, <2>1 DEF Stands, WrittenForward, TreeForward, Iterators!First, Iterators!FirstIndex, D
  <2> QED
    BY <1>2, <1>3, <1>4, <1>5, <1>7, <2>1, <2>2 DEF WalkersInv
<1> QED
  BY <1>2, <1>6, <1>7 DEF ShapeType

\* A step of either iterator meets the next part, or nothing.
LEMMA MovedKeeps ==
  ASSUME WalkersInv, part = "iterators", ~Iterators!MissesDomain, NEW step, Iterators!Moved(step), Advances(step, Len(seen))
  PROVE  /\ seen' \in Seq(Part) /\ Len(seen') <= PartCount /\ Len(seen') >= Len(seen)
         /\ \A k \in 1..Len(seen') : seen'[k] = ExpectedAt(k)
         /\ Stands(external', index', Len(seen'))
<1>1. seen \in Seq(Part) /\ Len(seen) \in Nat /\ Len(seen) <= PartCount /\ PartCount \in Nat
      /\ ShapeType /\ \A k \in 1..Len(seen) : seen[k] = ExpectedAt(k)
  BY ShapeFacts DEF WalkersInv
<1>2. seen' = seen \o step.value /\ external' = step.external /\ index' = step.index
  BY DEF Iterators!Moved
<1>3. CASE step.value = << >> /\ Stands(step.external, step.index, Len(seen))
  <2>1. seen' = seen
    BY <1>1, <1>2, <1>3
  <2> QED
    BY <1>1, <1>2, <1>3, <2>1
<1>4. CASE /\ Len(seen) < PartCount /\ step.value = <<ExpectedAt(Len(seen) + 1)>>
           /\ Stands(step.external, step.index, Len(seen) + 1)
  <2> DEFINE v == ExpectedAt(Len(seen) + 1)
  <2>1. v \in Part /\ seen' = seen \o <<v>>
    BY <1>1, <1>2, <1>4, PartFacts
  <2>2. /\ seen' \in Seq(Part) /\ Len(seen') = Len(seen) + 1 /\ seen'[Len(seen) + 1] = v
        /\ \A k \in 1..Len(seen) : seen'[k] = seen[k]
    <3> HIDE DEF v
    <3> QED
      BY <1>1, <2>1
  <2> QED
    BY <1>1, <1>2, <1>4, <2>2
<1> QED
  BY <1>3, <1>4 DEF Advances

LEMMA OneMore ==
  ASSUME NEW S, NEW q \in Seq(S), NEW x \in S
  PROVE  q \o <<x>> # << >>
<1>1. Len(q \o <<x>>) = Len(q) + 1 /\ Len(q) \in Nat
  OBVIOUS
<1> QED
  BY <1>1

LEMMA NextWalkers == WalkersInv /\ [Next]_allVars => WalkersInv'
<1> SUFFICES ASSUME WalkersInv, part' = "iterators", ~Iterators!MissesDomain',
                    part = "iterators" /\ (Iterators!Next \/ UNCHANGED iteratorVars)
             PROVE  WalkersInv'
  BY DEF WalkersInv, Next, allVars
<1>1. UNCHANGED <<kind, way, shape>> /\ ~Iterators!MissesDomain
  BY DEF Iterators!MissesDomain, iteratorVars, Iterators!Next, Iterators!Increment, Iterators!Ended,
         Iterators!FromEnd, Iterators!Decrement, Iterators!Moved
<1>2. /\ PartCount' = PartCount /\ P' = P /\ \A k : ExpectedAt(k)' = ExpectedAt(k)
      /\ ShapeType' = ShapeType
  BY <1>1, SameOrder
<1>3. Stands(external', index', Len(seen')) => Stands(external, index, Len(seen))'
  BY <1>1, SamePlace
<1>4. ShapeType /\ Len(seen) \in Nat /\ (seen = << >> <=> Len(seen) = 0)
  BY <1>1 DEF WalkersInv
<1>5. CASE UNCHANGED iteratorVars
  <2>1. UNCHANGED <<internal, external, index, seen>>
    BY <1>5 DEF iteratorVars
  <2> QED
    BY <1>1, <1>2, <1>3, <2>1 DEF WalkersInv
<1>6. CASE Iterators!Increment
  <2> DEFINE step == IF kind = "Iterator" THEN Iterators!ForwardStep ELSE Iterators!TreeForwardStep
  <2>1. way = "forward" /\ internal = "Transient" /\ external # "none" /\ Iterators!Moved(step)
        /\ internal' = internal
    BY <1>6 DEF Iterators!Increment
  <2>2. Stands(external, index, Len(seen))
    BY <1>1, <2>1 DEF WalkersInv
  <2>3. Advances(step, Len(seen))
    BY <1>4, <2>1, <2>2, WrittenForwardStep, TreeForwardStep DEF Stands, ShapeType
  <2> HIDE DEF step
  <2>4. /\ seen' \in Seq(Part) /\ Len(seen') <= PartCount
        /\ \A k \in 1..Len(seen') : seen'[k] = ExpectedAt(k)
        /\ Stands(external', index', Len(seen'))
    BY <1>1, <2>1, <2>3, MovedKeeps
  <2> QED
    BY <1>1, <1>2, <1>3, <1>4, <2>1, <2>4 DEF WalkersInv
<1>7. CASE Iterators!Ended
  <2>1. way = "forward" /\ internal = "Transient" /\ external = "none" /\ internal' = "End"
        /\ UNCHANGED <<external, index, seen>>
    BY <1>7 DEF Iterators!Ended
  <2>2. Stands(external', index', Len(seen'))
    BY <1>1, <2>1 DEF WalkersInv
  <2> QED
    BY <1>1, <1>2, <1>3, <1>4, <2>1, <2>2 DEF WalkersInv
<1>8. CASE Iterators!FromEnd
  <2>1. /\ way = "backward" /\ internal = "End" /\ seen = << >> /\ internal' = "Transient"
        /\ external' = "Page" /\ index' = (P - 1) % SizeRange /\ seen' = seen
    BY <1>8 DEF Iterators!FromEnd, P
  <2>2. kind # "Iterator" => index' = P - 1
    <3>1. kind # "Iterator" => P > 0
      BY <1>1, <1>4, <2>1 DEF WalkersInv, ShapeType
    <3>2. SizeRange \in Nat /\ P \in 0..SizeRange - 1
      BY <1>4, ShapeFacts
    <3> QED
      BY <2>1, <3>1, <3>2
  <2>3. Stands(external', index', Len(seen'))
    BY <1>4, <2>1, <2>2 DEF Stands, WrittenBackward, TreeBackward
  <2> QED
    BY <1>1, <1>2, <1>3, <1>4, <2>1, <2>3 DEF WalkersInv
<1>9. CASE Iterators!Decrement
  <2> DEFINE step == IF kind = "Iterator" THEN Iterators!BackwardStep ELSE Iterators!TreeBackwardStep
  <2>1. /\ way = "backward" /\ internal = "Transient" /\ external # "none" /\ ~Iterators!AtBegin
        /\ Iterators!Moved(step)
        /\ internal' = IF kind = "TreeIterator" /\ external = "Domain" /\ shape.ip /\ index = 0
                       THEN "End" ELSE "Transient"
    BY <1>9 DEF Iterators!Decrement
  <2>2. Stands(external, index, Len(seen)) /\ Len(seen) # PartCount
    BY <1>1, <2>1, AtBeginFacts DEF WalkersInv
  <2>3. kind # "Iterator" => P > 0 /\ kind = "TreeIterator"
    BY <1>1, <1>4, <2>1 DEF WalkersInv, ShapeType
  <2>4. Advances(step, Len(seen))
    BY <1>4, <2>1, <2>2, <2>3, WrittenBackwardStep, TreeBackwardStep DEF Stands
  <2>5. internal' = "End" => step.value # << >>
    <3>1. SUFFICES ASSUME internal' = "End" PROVE step.value # << >>
      OBVIOUS
    <3>2. kind = "TreeIterator" /\ external = "Domain" /\ shape.ip /\ index = 0
      BY <2>1, <3>1
    <3>3. step = Iterators!Yield(<<"Domain", index>>, "Domain", 0)
      BY <1>4, <3>2, ShapeFacts DEF Iterators!TreeBackwardStep, Iterators!Place, D
    <3>4. step.value = << <<"Domain", index>> >>
      BY <3>3, StepFacts
    <3> QED
      BY <3>4
  <2> HIDE DEF step
  <2>6. /\ seen' \in Seq(Part) /\ Len(seen') <= PartCount /\ Len(seen') >= Len(seen)
        /\ \A k \in 1..Len(seen') : seen'[k] = ExpectedAt(k)
        /\ Stands(external', index', Len(seen'))
    BY <1>1, <2>1, <2>4, MovedKeeps
  <2>7. internal' = "End" => seen' # << >>
    <3>1. internal' = "End" => step.value = <<ExpectedAt(Len(seen) + 1)>>
      BY <2>4, <2>5 DEF Advances
    <3>2. seen' = seen \o step.value /\ seen \in Seq(Part)
      BY <1>1, <2>1 DEF Iterators!Moved, WalkersInv
    <3>3. ExpectedAt(Len(seen) + 1) \in Part
      BY <1>4, PartFacts
    <3> QED
      BY <3>1, <3>2, <3>3, OneMore
  <2> QED
    BY <1>1, <1>2, <1>3, <1>4, <2>1, <2>6, <2>7 DEF WalkersInv
<1> QED
  BY <1>5, <1>6, <1>7, <1>8, <1>9 DEF Iterators!Next

LEMMA InitLost == Init => LostInv
<1> SUFFICES ASSUME Init, part = "iterators", Iterators!MissesDomain PROVE LostInv
  BY DEF LostInv
<1>1. ShapeType /\ internal = "End" /\ seen = << >>
  BY DEF Init, Iterators!Init, Iterators!MissesDomain, ShapeType
<1>2. D <= SizeRange - 1
  BY <1>1, ShapeFacts
<1> QED
  BY <1>1, <1>2 DEF LostInv

LEMMA NextLost == LostInv /\ [Next]_allVars => LostInv'
<1> SUFFICES ASSUME LostInv, part' = "iterators", Iterators!MissesDomain',
                    part = "iterators" /\ (Iterators!Next \/ UNCHANGED iteratorVars)
             PROVE  LostInv'
  BY DEF LostInv, Next, allVars
<1>1. UNCHANGED <<kind, way, shape>> /\ Iterators!MissesDomain
  BY DEF Iterators!MissesDomain, iteratorVars, Iterators!Next, Iterators!Increment, Iterators!Ended,
         Iterators!FromEnd, Iterators!Decrement, Iterators!Moved
<1>2. kind = "TreeIterator" /\ way = "backward" /\ shape.path = 0
  BY <1>1 DEF Iterators!MissesDomain
<1>3. /\ ShapeType /\ D <= SizeRange - 1 /\ ShapeType' /\ (D <= SizeRange - 1)'
      /\ Iterators!PageOnly' = Iterators!PageOnly /\ SizeRange \in Nat /\ SizeRange - 1 >= 1 /\ D \in Nat
  <2>1. ShapeType /\ D <= SizeRange - 1
    BY <1>1 DEF LostInv
  <2> QED
    BY <1>1, <2>1, ShapeFacts DEF ShapeType, D, Iterators!PageOnly
<1>4. CASE UNCHANGED iteratorVars
  <2>1. UNCHANGED <<internal, external, index, seen>>
    BY <1>4 DEF iteratorVars
  <2> QED
    BY <1>1, <1>3, <2>1 DEF LostInv
<1>5. CASE Iterators!Increment \/ Iterators!Ended
  BY <1>2, <1>5 DEF Iterators!Increment, Iterators!Ended
<1>6. CASE Iterators!FromEnd
  <2>1. internal' = "Transient" /\ external' = "Page" /\ seen' = << >> /\ index' = (0 - 1) % SizeRange
    BY <1>2, <1>6 DEF Iterators!FromEnd
  <2>2. (0 - 1) % SizeRange = SizeRange - 1
    BY <1>3
  <2> QED
    BY <1>1, <1>3, <2>1, <2>2 DEF LostInv
<1>7. CASE Iterators!Decrement
  <2> DEFINE step == Iterators!TreeBackwardStep
  <2>1. /\ internal = "Transient" /\ external # "none"
        /\ external' = step.external /\ index' = step.index /\ seen' = seen \o step.value
        /\ internal' = IF external = "Domain" /\ shape.ip /\ index = 0 THEN "End" ELSE "Transient"
    BY <1>2, <1>7 DEF Iterators!Decrement, Iterators!Moved
  <2>2. /\ index = SizeRange - 1
        /\ \/ external = "Page" /\ seen = << >>
           \/ external \in {"Path", "Domain"} /\ seen = Iterators!PageOnly
    BY <1>1, <2>1 DEF LostInv
  <2>3. internal' = "Transient"
    BY <1>3, <2>1, <2>2
  <2>4. CASE external = "Page"
    <3>1. step = Iterators!PageStep("Path") /\ seen = << >>
      BY <2>2, <2>4 DEF Iterators!TreeBackwardStep
    <3>2. /\ step.external = "Path" /\ step.index = index /\ step.value = Iterators!PageOnly
      BY <3>1 DEF Iterators!PageStep, Iterators!PageOnly, Iterators!Yield, Iterators!Recall
    <3>3. Iterators!PageOnly \in Seq(Part)
      BY <1>3, PageOnlyFacts
    <3>4. seen' = Iterators!PageOnly
      BY <2>1, <3>1, <3>2, <3>3
    <3> QED
      BY <1>1, <1>3, <2>1, <2>2, <2>3, <3>2, <3>4 DEF LostInv
  <2>5. CASE external \in {"Path", "Domain"}
    <3>1. step = Iterators!Recall("Domain", index) \/ step = Iterators!Recall("none", 0)
      BY <1>2, <1>3, <2>2, <2>5 DEF Iterators!TreeBackwardStep, D
    <3>2. /\ step.value = << >>
          /\ (step.external = "Domain" /\ step.index = index) \/ step.external = "none"
      BY <3>1 DEF Iterators!Recall
    <3>3. Iterators!PageOnly \in Seq(Part) /\ seen = Iterators!PageOnly
      BY <1>3, <2>2, <2>5, PageOnlyFacts
    <3>4. seen' = Iterators!PageOnly
      BY <2>1, <3>2, <3>3
    <3> QED
      BY <1>1, <1>3, <2>1, <2>2, <2>3, <3>2, <3>4 DEF LostInv
  <2> QED
    BY <2>2, <2>4, <2>5
<1> QED
  BY <1>4, <1>5, <1>6, <1>7 DEF Iterators!Next

LEMMA InitIterators == Init => IteratorsInv
BY InitWalkers, InitLost DEF IteratorsInv

LEMMA NextIterators == IteratorsInv /\ [Next]_allVars => IteratorsInv'
BY NextWalkers, NextLost DEF IteratorsInv

LEMMA IteratorsInvariance == Spec => []IteratorsInv
<1> QED
  BY InitIterators, NextIterators, PTL DEF Spec, allVars

\* The order that MeetsEachPart names, as a function of the number of the part.
LEMMA ExpectedFacts ==
  ASSUME ShapeType, NEW order, NEW expected,
         order = IF kind = "Iterator" THEN Iterators!Written ELSE Iterators!InTree,
         expected = IF way = "forward" THEN order ELSE Iterators!Reverse(order)
  PROVE  /\ expected \in Seq(Part) /\ Len(expected) = PartCount
         /\ \A k \in 1..PartCount : expected[k] = ExpectedAt(k)
<1>1. PartCount \in Nat
  BY ShapeFacts
<1>2. /\ order \in Seq(Part) /\ Len(order) = PartCount
      /\ \A k \in 1..PartCount : order[k] = OrderAt(k)
  <2>1. CASE kind = "Iterator"
    BY <2>1, WrittenFacts DEF PartCount, OrderAt
  <2>2. CASE kind # "Iterator"
    BY <2>2, InTreeFacts DEF PartCount, OrderAt
  <2> QED
    BY <2>1, <2>2
<1>3. CASE way = "forward"
  BY <1>2, <1>3 DEF ExpectedAt
<1>4. CASE way # "forward"
  <2>1. /\ expected \in Seq(Part) /\ Len(expected) = PartCount
        /\ \A k \in 1..PartCount : expected[k] = order[PartCount + 1 - k]
    BY <1>2, <1>4, ReverseFacts
  <2>2. \A k \in 1..PartCount : PartCount + 1 - k \in 1..PartCount
    BY <1>1
  <2> QED
    BY <1>2, <1>4, <2>1, <2>2 DEF ExpectedAt
<1> QED
  BY <1>3, <1>4

LEMMA SamePrefix ==
  ASSUME NEW S, NEW q \in Seq(S), NEW r \in Seq(S), Len(q) <= Len(r),
         \A k \in 1..Len(q) : q[k] = r[k]
  PROVE  Iterators!IsPrefix(q, r) /\ (Len(q) = Len(r) => q = r)
<1>1. Len(q) \in Nat /\ Len(r) \in Nat
  OBVIOUS
<1>2. q = [k \in 1..Len(q) |-> q[k]]
  OBVIOUS
<1>3. SubSeq(r, 1, Len(q)) = [k \in 1..Len(q) |-> r[k]]
  BY <1>1
<1>4. q = SubSeq(r, 1, Len(q))
  BY <1>2, <1>3
<1>5. Len(q) = Len(r) => q = r
  <2>1. r = [k \in 1..Len(r) |-> r[k]]
    OBVIOUS
  <2> QED
    BY <1>2, <2>1
<1> QED
  BY <1>4, <1>5 DEF Iterators!IsPrefix

LEMMA WalkersMeetEachPart ==
  ASSUME WalkersInv, part = "iterators", ~Iterators!MissesDomain
  PROVE  Iterators!MeetsEachPart
<1> DEFINE order == IF kind = "Iterator" THEN Iterators!Written ELSE Iterators!InTree
           expected == IF way = "forward" THEN order ELSE Iterators!Reverse(order)
           stopped == IF way = "forward" THEN internal = "End"
                      ELSE Iterators!AtBegin \/ (internal = "Transient" /\ external = "none")
<1>1. ShapeType /\ seen \in Seq(Part) /\ Len(seen) <= PartCount /\ PartCount \in Nat
      /\ \A k \in 1..Len(seen) : seen[k] = ExpectedAt(k)
  BY ShapeFacts DEF WalkersInv
<1>2. /\ expected \in Seq(Part) /\ Len(expected) = PartCount
      /\ \A k \in 1..PartCount : expected[k] = ExpectedAt(k)
  BY <1>1, ExpectedFacts
<1>3. stopped => Len(seen) = PartCount
  <2>1. CASE way = "forward"
    BY <1>1, <2>1 DEF WalkersInv, Stands, WrittenForward, TreeForward, ShapeType
  <2>2. CASE way # "forward"
    <3>1. way = "backward"
      BY <1>1, <2>2 DEF ShapeType
    <3>2. internal = "Transient" /\ external = "none" => Len(seen) = PartCount
      BY <3>1 DEF WalkersInv, Stands, WrittenBackward, TreeBackward
    <3> QED
      BY <2>2, <3>1, <3>2, AtBeginFacts
  <2> QED
    BY <2>1, <2>2
<1> HIDE DEF expected, order, stopped
<1>4. Iterators!IsPrefix(seen, expected) /\ (stopped => seen = expected)
  <2>1. \A k \in 1..Len(seen) : seen[k] = expected[k]
    BY <1>1, <1>2
  <2> QED
    BY <1>1, <1>2, <1>3, <2>1, SamePrefix
<1> QED
  BY <1>4 DEF Iterators!MeetsEachPart, expected, order, stopped

LEMMA LostMeetThePage ==
  ASSUME LostInv, part = "iterators", Iterators!MissesDomain
  PROVE  Iterators!MeetsEachPart
<1>1. /\ ShapeType /\ kind = "TreeIterator" /\ way = "backward"
      /\ seen = << >> \/ seen = Iterators!PageOnly
      /\ internal = "Transient" /\ external = "none" => seen = Iterators!PageOnly
  BY DEF LostInv, Iterators!MissesDomain
<1> DEFINE page == Iterators!PageOnly
<1>2. page \in Seq(Part) /\ << >> \in Seq(Part) /\ Len(page) \in Nat
  BY <1>1, PageOnlyFacts
<1>3. Iterators!IsPrefix(page, page) /\ Iterators!IsPrefix(<< >>, page)
  <2>1. PICK q \in Seq(Part) : q = page
    BY <1>2
  <2>2. \A k \in 1..Len(q) : q[k] = q[k]
    OBVIOUS
  <2>3. Iterators!IsPrefix(q, q)
    BY <2>2, SamePrefix
  <2>4. Len(<< >>) = 0 /\ Len(q) >= 0 /\ \A k \in 1..0 : << >>[k] = q[k]
    OBVIOUS
  <2>5. Iterators!IsPrefix(<< >>, q)
    BY <1>2, <2>4, SamePrefix
  <2> QED
    BY <2>1, <2>3, <2>5
<1>4. ~Iterators!AtBegin
  BY <1>1 DEF Iterators!AtBegin, Iterators!Last, Iterators!Place, Iterators!Only, Iterators!First,
              Iterators!PageOnly
<1> QED
  BY <1>1, <1>3, <1>4 DEF Iterators!MeetsEachPart, Iterators!MissesDomain

\* A client meets each part of a URL once, in order, from either end, and none that is not
\* there: no index wraps where it is used (Iterator.cpp:61-165, TreeIterator.cpp:43-164),
\* but that of a TreeIterator from the end of a URL without a path, which meets the page
\* only (TreeIterator.cpp:120, 126, 143-145).
THEOREM WalksMeetEachPart == Spec => []MeetsEachPart
<1>1. IteratorsInv => MeetsEachPart
  BY WalkersMeetEachPart, LostMeetThePage DEF IteratorsInv, MeetsEachPart
<1> QED
  BY IteratorsInvariance, <1>1, PTL

-------------------------------------------------------------------------------
(* Bread crumbs: the tree *)

Labels == UNION {{u[k] : k \in DOMAIN u} : u \in TrailUrls}

LEMMA NodeIsSequence ==
  ASSUME NEW m \in Trail!Nodes
  PROVE  m \in Seq(Labels) /\ m # NoNode
<1>1. PICK u \in TrailUrls : m \in {SubSeq(u, 1, k) : k \in 0..Len(u)}
  BY DEF Trail!Nodes
<1> DEFINE S == {u[k] : k \in DOMAIN u}
<1>2. u \in Seq(S)
  BY StructuresAssumption DEF Trail!BreadCrumbsAssumption
<1>3. S \subseteq Labels
  BY DEF Labels
<1> HIDE DEF S
<1>4. m \in Seq(S)
  BY <1>1, <1>2
<1>5. m \in Seq(Labels)
  BY <1>3, <1>4
<1>6. m \in UNION {Trail!Prefixes(w) : w \in TrailUrls}
  BY <1>1 DEF Trail!Prefixes
<1> QED
  BY <1>5, <1>6, StructuresAssumption DEF Trail!BreadCrumbsAssumption

LEMMA UrlIsNode ==
  ASSUME NEW u \in TrailUrls
  PROVE  u \in Trail!Nodes /\ u # Trail!Root /\ Trail!Root \in Trail!Nodes
         /\ u \in Seq(Labels) /\ \A k \in 0..Len(u) : SubSeq(u, 1, k) \in Trail!Nodes
<1> DEFINE S == {u[k] : k \in DOMAIN u}
<1>1. u \in Seq(S) /\ u # Trail!Root
  BY StructuresAssumption DEF Trail!BreadCrumbsAssumption, Trail!Root
<1> HIDE DEF S
<1>2. SubSeq(u, 1, Len(u)) = u /\ SubSeq(u, 1, 0) = << >> /\ Len(u) \in 0..Len(u) /\ 0 \in 0..Len(u)
  BY <1>1
<1>3. \A k \in 0..Len(u) : SubSeq(u, 1, k) \in Trail!Nodes
  BY DEF Trail!Nodes
<1>4. u \in Trail!Nodes /\ Trail!Root \in Trail!Nodes
  BY <1>2, <1>3 DEF Trail!Root
<1> QED
  BY <1>1, <1>3, <1>4, NodeIsSequence

\* A node other than the root is its parent's child by its last label.
LEMMA ParentIs ==
  ASSUME NEW m \in Trail!Nodes, m # Trail!Root
  PROVE  /\ Trail!Parent(m) \in Trail!Nodes /\ Len(Trail!Parent(m)) = Len(m) - 1
         /\ Append(Trail!Parent(m), Trail!Last(m)) = m
         /\ Trail!Last(m) \in Labels /\ Len(m) \in Nat
<1>1. m \in Seq(Labels) /\ m # << >>
  BY NodeIsSequence DEF Trail!Root
<1>2. Trail!Parent(m) = SubSeq(m, 1, Len(m) - 1)
  BY DEF Trail!Parent, Trail!Front
<1>3. /\ Len(SubSeq(m, 1, Len(m) - 1)) = Len(m) - 1 /\ Len(m) \in Nat \ {0}
      /\ m[Len(m)] \in Labels
  <2>1. Len(m) \in Nat \ {0} /\ DOMAIN m = 1..Len(m)
    BY <1>1
  <2>2. Len(m) \in DOMAIN m /\ Len(m) - 1 \in Nat
    BY <2>1
  <2>3. m[Len(m)] \in Labels
    BY <1>1, <2>2
  <2>4. Len(SubSeq(m, 1, Len(m) - 1)) = Len(m) - 1
    BY <1>1, <2>1
  <2> QED
    BY <2>1, <2>3, <2>4
<1>4. Append(SubSeq(m, 1, Len(m) - 1), m[Len(m)]) = m
  BY <1>1
<1>5. PICK u \in TrailUrls : m \in {SubSeq(u, 1, k) : k \in 0..Len(u)}
  BY DEF Trail!Nodes
<1>6. u \in Seq(Labels)
  BY UrlIsNode
<1>7. PICK k \in 0..Len(u) : m = SubSeq(u, 1, k)
  BY <1>5
<1>8. Len(m) = k /\ k - 1 \in 0..Len(u)
  BY <1>3, <1>6, <1>7
<1>9. SubSeq(m, 1, k - 1) = SubSeq(u, 1, k - 1)
  BY <1>3, <1>6, <1>7, <1>8
<1>10. SubSeq(m, 1, Len(m) - 1) \in Trail!Nodes
  BY <1>8, <1>9, UrlIsNode
<1> QED
  BY <1>2, <1>3, <1>4, <1>10 DEF Trail!Last

LEMMA ChildIs ==
  ASSUME NEW n \in Trail!Nodes, NEW l \in Labels
  PROVE  /\ Append(n, l) # Trail!Root /\ Trail!Parent(Append(n, l)) = n
         /\ Trail!Last(Append(n, l)) = l /\ Len(Append(n, l)) = Len(n) + 1 /\ Len(n) \in Nat
<1>1. n \in Seq(Labels)
  BY NodeIsSequence
<1> DEFINE m == Append(n, l)
<1>2. m \in Seq(Labels) /\ Len(m) = Len(n) + 1 /\ m[Len(n) + 1] = l /\ Len(n) \in Nat
  BY <1>1
<1>3. SubSeq(m, 1, Len(n)) = n
  BY <1>1
<1> HIDE DEF m
<1>4. m # << >> /\ Len(m) - 1 = Len(n)
  BY <1>2
<1>5. Trail!Parent(m) = SubSeq(m, 1, Len(m) - 1)
  BY <1>4 DEF Trail!Parent, Trail!Front, Trail!Root
<1>6. Trail!Parent(m) = n
  BY <1>3, <1>4, <1>5
<1> QED
  BY <1>2, <1>4, <1>6 DEF m, Trail!Root, Trail!Last

\* The children of a node in a tree with those labels, and what a crumb says of a node there.
Under(n, kids) == {Append(n, kids[n][k]) : k \in DOMAIN kids[n]}
Grown(n, kids) == n = Trail!Root \/ n \in Under(Trail!Parent(n), kids)
IndexIn(m, kids) ==
  IF m = Trail!Root THEN -1
  ELSE (CHOOSE k \in DOMAIN kids[Trail!Parent(m)] : kids[Trail!Parent(m)][k] = Trail!Last(m)) - 1
CrumbIn(m, kids) == <<Len(m) - 1, IndexIn(m, kids)>>

\* A node with children is a child itself, up to the root.
IsTree(kids) ==
  /\ kids \in [Trail!Nodes -> Seq(Labels)]
  /\ \A n \in Trail!Nodes : Under(n, kids) \subseteq Trail!Nodes
  /\ \A n \in Trail!Nodes : Under(n, kids) # {} => Grown(n, kids)

LEMMA SameTree ==
  /\ \A n : Trail!Children(n) = Under(n, children)
  /\ \A n : <<Trail!PathIndex(n), Trail!ChildIndex(n)>> = CrumbIn(n, children)
<1>1. ASSUME NEW n PROVE Trail!Children(n) = Under(n, children)
  BY DEF Trail!Children, Trail!Child, Trail!ToSet, Under
<1> QED
  BY <1>1 DEF Trail!PathIndex, Trail!ChildIndex, CrumbIn, IndexIn

LEMMA UnderFacts ==
  ASSUME NEW kids, IsTree(kids), NEW n \in Trail!Nodes, NEW m \in Under(n, kids)
  PROVE  /\ m \in Trail!Nodes /\ m # Trail!Root /\ Trail!Parent(m) = n
         /\ Len(m) = Len(n) + 1 /\ Len(n) \in Nat
         /\ Grown(m, kids) /\ Grown(n, kids)
<1>1. PICK k \in DOMAIN kids[n] : m = Append(n, kids[n][k])
  BY DEF Under
<1>2. kids[n] \in Seq(Labels)
  BY DEF IsTree
<1>3. kids[n][k] \in Labels
  BY <1>2
<1>4. m # Trail!Root /\ Trail!Parent(m) = n /\ Len(m) = Len(n) + 1 /\ Len(n) \in Nat
  BY <1>1, <1>3, ChildIs
<1>5. m \in Trail!Nodes /\ Grown(n, kids)
  BY DEF IsTree
<1> QED
  BY <1>4, <1>5 DEF Grown

LEMMA AboveFacts ==
  ASSUME NEW kids, IsTree(kids), NEW m \in Trail!Nodes, m # Trail!Root, Grown(m, kids)
  PROVE  /\ Trail!Parent(m) \in Trail!Nodes /\ Grown(Trail!Parent(m), kids)
         /\ Len(Trail!Parent(m)) = Len(m) - 1 /\ Len(m) \in Nat
         /\ m \in Under(Trail!Parent(m), kids)
<1>1. m \in Under(Trail!Parent(m), kids)
  BY DEF Grown
<1>2. Trail!Parent(m) \in Trail!Nodes /\ Len(Trail!Parent(m)) = Len(m) - 1 /\ Len(m) \in Nat
  BY ParentIs
<1>3. Grown(Trail!Parent(m), kids)
  BY <1>1, <1>2 DEF IsTree
<1> QED
  BY <1>1, <1>2, <1>3

\* The crumb of a child leads to it from its parent.
LEMMA IndexFacts ==
  ASSUME NEW kids, IsTree(kids), NEW n \in Trail!Nodes, NEW m \in Under(n, kids)
  PROVE  IndexIn(m, kids) + 1 \in DOMAIN kids[n] /\ Append(n, kids[n][IndexIn(m, kids) + 1]) = m
<1>1. m \in Trail!Nodes /\ m # Trail!Root /\ Trail!Parent(m) = n
  BY UnderFacts
<1>2. PICK k \in DOMAIN kids[n] : m = Append(n, kids[n][k])
  BY DEF Under
<1>3. kids[n] \in Seq(Labels)
  BY DEF IsTree
<1>4. kids[n][k] \in Labels /\ DOMAIN kids[n] = 1..Len(kids[n]) /\ Len(kids[n]) \in Nat
  BY <1>3
<1>5. Trail!Last(m) = kids[n][k]
  BY <1>2, <1>4, ChildIs
<1> DEFINE j == CHOOSE x \in DOMAIN kids[n] : kids[n][x] = Trail!Last(m)
<1>6. j \in DOMAIN kids[n] /\ kids[n][j] = Trail!Last(m)
  BY <1>5
<1>7. IndexIn(m, kids) = j - 1
  BY <1>1 DEF IndexIn
<1> HIDE DEF j
<1>8. IndexIn(m, kids) + 1 = j
  BY <1>4, <1>6, <1>7
<1>9. Append(n, Trail!Last(m)) = m
  BY <1>2, <1>5
<1> QED
  BY <1>6, <1>8, <1>9

-------------------------------------------------------------------------------
(* Bread crumbs: tours of the tree *)

Edge == Trail!Nodes \X Trail!Nodes

\* From node x to y, with j edges gone down before and l after.
Move(x, y, j, l, w, kids) ==
  \/ y \in Under(x, kids) /\ l = j + 1 /\ w[l] = <<x, y>>
  \/ x # Trail!Root /\ y = Trail!Parent(x) /\ l = j

\* A way of n nodes v from the root, w the edges it goes down, c[k] of them up to v[k].
Tour(n, v, c, w, kids) ==
  /\ n \in Nat \ {0} /\ v \in [1..n -> Trail!Nodes] /\ c \in [1..n -> Nat]
  /\ v[1] = Trail!Root /\ c[1] = 0 /\ c[n] = Len(w)
  /\ \A k \in 1..n : c[k] <= Len(w) /\ Grown(v[k], kids)
  /\ \A k \in 1..n - 1 : Move(v[k], v[k + 1], c[k], c[k + 1], w, kids)

LEMMA TourBegins ==
  ASSUME NEW kids, Trail!Root \in Trail!Nodes
  PROVE  Tour(1, [k \in 1..1 |-> Trail!Root], [k \in 1..1 |-> 0], << >>, kids)
BY DEF Tour, Grown

LEMMA TourGoesOn ==
  ASSUME NEW kids, NEW n, NEW v, NEW c, NEW w \in Seq(Edge), Tour(n, v, c, w, kids),
         NEW m \in Trail!Nodes, Grown(m, kids), NEW more \in Seq(Edge), Len(w) <= Len(more),
         \A k \in 1..Len(w) : more[k] = w[k],
         Move(v[n], m, Len(w), Len(more), more, kids)
  PROVE  \E walk, counts :
           /\ Tour(n + 1, walk, counts, more, kids)
           /\ walk[n + 1] = m /\ \A k \in 1..n : walk[k] = v[k]
<1> DEFINE walk == [k \in 1..n + 1 |-> IF k = n + 1 THEN m ELSE v[k]]
           counts == [k \in 1..n + 1 |-> IF k = n + 1 THEN Len(more) ELSE c[k]]
<1>1. /\ n \in Nat \ {0} /\ v \in [1..n -> Trail!Nodes] /\ c \in [1..n -> Nat]
      /\ v[1] = Trail!Root /\ c[1] = 0 /\ c[n] = Len(w)
      /\ \A k \in 1..n : c[k] <= Len(w) /\ Grown(v[k], kids)
      /\ \A k \in 1..n - 1 : Move(v[k], v[k + 1], c[k], c[k + 1], w, kids)
  BY DEF Tour
<1>2. Len(w) \in Nat /\ Len(more) \in Nat
  OBVIOUS
<1>3. /\ walk \in [1..n + 1 -> Trail!Nodes] /\ counts \in [1..n + 1 -> Nat]
      /\ walk[n + 1] = m /\ counts[n + 1] = Len(more)
      /\ \A k \in 1..n : walk[k] = v[k] /\ counts[k] = c[k]
  BY <1>1, <1>2
<1> HIDE DEF walk, counts
<1>4. ASSUME NEW k \in 1..n + 1 PROVE counts[k] <= Len(more) /\ Grown(walk[k], kids)
  <2>1. CASE k = n + 1
    BY <1>2, <1>3, <2>1
  <2>2. CASE k # n + 1
    <3>1. k \in 1..n /\ c[k] \in Nat
      BY <1>1, <2>2
    <3> QED
      BY <1>1, <1>2, <1>3, <3>1
  <2> QED
    BY <2>1, <2>2
<1>5. ASSUME NEW k \in 1..n PROVE Move(walk[k], walk[k + 1], counts[k], counts[k + 1], more, kids)
  <2>1. CASE k = n
    BY <1>1, <1>3, <2>1
  <2>2. CASE k # n
    <3>1. k \in 1..n - 1 /\ k \in 1..n /\ k + 1 \in 1..n
      BY <1>1, <2>2
    <3>2. Move(v[k], v[k + 1], c[k], c[k + 1], w, kids) /\ c[k] \in Nat /\ c[k + 1] \in Nat /\ c[k + 1] <= Len(w)
      BY <1>1, <3>1
    <3>3. c[k + 1] = c[k] + 1 => c[k + 1] \in 1..Len(w)
      BY <1>2, <3>2
    <3>4. Move(v[k], v[k + 1], c[k], c[k + 1], more, kids)
      BY <3>2, <3>3 DEF Move
    <3> QED
      BY <1>3, <3>1, <3>4
  <2> QED
    BY <2>1, <2>2
<1>6. Tour(n + 1, walk, counts, more, kids)
  <2>1. n + 1 \in Nat \ {0} /\ (n + 1) - 1 = n /\ 1 \in 1..n
    BY <1>1
  <2> QED
    BY <1>1, <1>3, <1>4, <1>5, <2>1 DEF Tour
<1> QED
  BY <1>3, <1>6

\* The trail t has a crumb of each of the n nodes of v but the first q, and e others behind.
Crumbs(kids) == {CrumbIn(m, kids) : m \in Trail!Nodes}
Dropped(t, v, q, n, e, kids) ==
  /\ t \in Seq(Crumbs(kids)) /\ Len(t) = (n - q) + e
  /\ \A k \in 1..n - q : t[k] = CrumbIn(v[q + k], kids)

LEMMA DropsOne ==
  ASSUME NEW kids, NEW n \in Nat \ {0}, NEW v, NEW walk, \A k \in 1..n : walk[k] = v[k],
         v[n] \in Trail!Nodes, NEW t, Dropped(t, v, 0, n - 1, 0, kids)
  PROVE  Dropped(Append(t, CrumbIn(v[n], kids)), walk, 0, n, 0, kids)
<1> DEFINE x == CrumbIn(v[n], kids)
           s == Append(t, x)
<1>1. /\ t \in Seq(Crumbs(kids)) /\ Len(t) = n - 1 /\ x \in Crumbs(kids)
      /\ \A k \in 1..n - 1 : t[k] = CrumbIn(v[k], kids)
  BY DEF Dropped, Crumbs
<1> HIDE DEF x
<1>2. /\ s \in Seq(Crumbs(kids)) /\ Len(s) = Len(t) + 1 /\ s[Len(t) + 1] = x
      /\ \A k \in 1..Len(t) : s[k] = t[k]
  BY <1>1
<1> HIDE DEF s
<1>3. Len(s) = n /\ s[n] = x /\ \A k \in 1..n - 1 : s[k] = t[k]
  BY <1>1, <1>2
<1>4. ASSUME NEW k \in 1..n PROVE s[k] = CrumbIn(walk[k], kids)
  <2>1. CASE k = n
    BY <1>3, <2>1 DEF x
  <2>2. CASE k # n
    <3>1. k \in 1..n - 1
      BY <2>2
    <3> QED
      BY <1>1, <1>3, <3>1
  <2> QED
    BY <2>1, <2>2
<1>5. Dropped(s, walk, 0, n, 0, kids)
  BY <1>2, <1>3, <1>4 DEF Dropped
<1> QED
  BY <1>5 DEF s, x

\* The first is taken.
LEMMA TakesOne ==
  ASSUME NEW kids, NEW n \in Nat, NEW q \in Nat, q < n, NEW e \in Nat, NEW v, NEW t,
         Dropped(t, v, q, n, e, kids)
  PROVE  /\ t # << >> /\ Head(t) = CrumbIn(v[q + 1], kids) /\ t[1] = Head(t)
         /\ Dropped(Tail(t), v, q + 1, n, e, kids)
<1>1. /\ t \in Seq(Crumbs(kids)) /\ Len(t) = (n - q) + e
      /\ \A k \in 1..n - q : t[k] = CrumbIn(v[q + k], kids)
  BY DEF Dropped
<1>2. t # << >> /\ n - q \in Nat \ {0}
  BY <1>1
<1>3. /\ Tail(t) \in Seq(Crumbs(kids)) /\ Len(Tail(t)) = Len(t) - 1 /\ Head(t) = t[1]
      /\ \A k \in 1..Len(t) - 1 : Tail(t)[k] = t[k + 1]
  BY <1>1, <1>2
<1>4. ASSUME NEW k \in 1..n - (q + 1) PROVE Tail(t)[k] = CrumbIn(v[(q + 1) + k], kids)
  <2>1. k \in 1..Len(t) - 1 /\ k + 1 \in 1..n - q /\ q + (k + 1) = (q + 1) + k
    BY <1>1
  <2>2. Tail(t)[k] = t[k + 1] /\ t[k + 1] = CrumbIn(v[q + (k + 1)], kids)
    BY <1>1, <1>3, <2>1
  <2> QED
    BY <2>1, <2>2
<1>5. Len(Tail(t)) = (n - (q + 1)) + e
  BY <1>1, <1>3
<1>6. t[1] = CrumbIn(v[q + 1], kids)
  BY <1>1, <1>2
<1> QED
  BY <1>2, <1>3, <1>4, <1>5, <1>6 DEF Dropped

LEMMA EdgeGoesOn ==
  ASSUME NEW w \in Seq(Edge), NEW e \in Edge
  PROVE  /\ Append(w, e) \in Seq(Edge) /\ Len(Append(w, e)) = Len(w) + 1
         /\ Append(w, e)[Len(w) + 1] = e /\ \A k \in 1..Len(w) : Append(w, e)[k] = w[k]
         /\ Len(w) \in Nat
OBVIOUS

\* One more edge of w.
LEMMA OneMoreEdge ==
  ASSUME NEW w \in Seq(Edge), NEW l \in Nat, l < Len(w)
  PROVE  SubSeq(w, 1, l + 1) = Append(SubSeq(w, 1, l), w[l + 1])
OBVIOUS

-------------------------------------------------------------------------------
(* Bread crumbs: the walk *)

\* The walk is at node here, and has dropped the trail t on its way but for that node.
OnTour(t, here, w, kids) ==
  \E n, v, c : Tour(n, v, c, w, kids) /\ v[n] = here /\ Dropped(t, v, 0, n - 1, 0, kids)

\* It has dropped a crumb for every node of a tour that ends at node end, and e more since.
Ended(t, w, end, e, kids) ==
  \E n, v, c : Tour(n, v, c, w, kids) /\ n >= 2 /\ v[n] = end /\ Dropped(t, v, 0, n, e, kids)

LEMMA WalkBegins ==
  ASSUME NEW kids, Trail!Root \in Trail!Nodes
  PROVE  OnTour(<< >>, Trail!Root, << >>, kids)
<1> DEFINE v == [k \in 1..1 |-> Trail!Root]
           c == [k \in 1..1 |-> 0]
<1>1. Tour(1, v, c, << >>, kids)
  BY TourBegins
<1>2. v[1] = Trail!Root /\ Dropped(<< >>, v, 0, 1 - 1, 0, kids)
  BY DEF Dropped
<1> HIDE DEF v, c
<1> QED
  BY <1>1, <1>2 DEF OnTour

LEMMA HereFacts ==
  ASSUME NEW kids, NEW t, NEW here, NEW w \in Seq(Edge), OnTour(t, here, w, kids)
  PROVE  /\ here \in Trail!Nodes /\ Grown(here, kids) /\ t \in Seq(Crumbs(kids))
         /\ t = << >> => here = Trail!Root /\ w = << >>
<1>1. PICK n, v, c : Tour(n, v, c, w, kids) /\ v[n] = here /\ Dropped(t, v, 0, n - 1, 0, kids)
  BY DEF OnTour
<1>2. n \in Nat \ {0} /\ v[n] \in Trail!Nodes /\ Grown(v[n], kids) /\ c[1] = 0 /\ c[n] = Len(w) /\ v[1] = Trail!Root
  BY <1>1 DEF Tour
<1>3. t \in Seq(Crumbs(kids)) /\ Len(t) = n - 1
  BY <1>1, <1>2 DEF Dropped
<1>4. CASE t = << >>
  <2>1. n = 1
    BY <1>2, <1>3, <1>4
  <2>2. Len(w) = 0
    BY <1>2, <2>1
  <2>3. w = << >>
    BY <2>2
  <2> QED
    BY <1>1, <1>2, <1>3, <2>1, <2>3
<1> QED
  BY <1>1, <1>2, <1>3, <1>4

LEMMA WalkGoesDown ==
  ASSUME NEW kids, IsTree(kids), NEW t, NEW here, NEW w \in Seq(Edge), OnTour(t, here, w, kids),
         NEW m \in Under(here, kids)
  PROVE  /\ Append(w, <<here, m>>) \in Seq(Edge)
         /\ OnTour(Append(t, CrumbIn(here, kids)), m, Append(w, <<here, m>>), kids)
<1>1. here \in Trail!Nodes
  BY HereFacts
<1>2. m \in Trail!Nodes /\ Grown(m, kids)
  BY <1>1, UnderFacts
<1> DEFINE e == <<here, m>>
           more == Append(w, e)
<1>3. e \in Edge
  BY <1>1, <1>2 DEF Edge
<1> HIDE DEF e
<1>4. /\ more \in Seq(Edge) /\ Len(more) = Len(w) + 1 /\ Len(w) \in Nat
      /\ more[Len(w) + 1] = e /\ \A k \in 1..Len(w) : more[k] = w[k]
  BY <1>3, EdgeGoesOn
<1> HIDE DEF more
<1>5. PICK n, v, c : Tour(n, v, c, w, kids) /\ v[n] = here /\ Dropped(t, v, 0, n - 1, 0, kids)
  BY DEF OnTour
<1>6. Len(w) <= Len(more) /\ Move(v[n], m, Len(w), Len(more), more, kids)
  BY <1>4, <1>5 DEF Move, e
<1>7. PICK walk, counts :
        /\ Tour(n + 1, walk, counts, more, kids)
        /\ walk[n + 1] = m /\ \A k \in 1..n : walk[k] = v[k]
  BY <1>2, <1>4, <1>5, <1>6, TourGoesOn
<1>8. n \in Nat \ {0}
  BY <1>5 DEF Tour
<1>9. Dropped(Append(t, CrumbIn(v[n], kids)), walk, 0, n, 0, kids)
  BY <1>1, <1>5, <1>7, <1>8, DropsOne
<1>10. (n + 1) - 1 = n
  BY <1>8
<1>11. OnTour(Append(t, CrumbIn(here, kids)), m, more, kids)
  BY <1>5, <1>7, <1>9, <1>10 DEF OnTour
<1> QED
  BY <1>4, <1>11 DEF more, e

LEMMA WalkGoesUp ==
  ASSUME NEW kids, IsTree(kids), NEW t, NEW here, NEW w \in Seq(Edge), OnTour(t, here, w, kids),
         here # Trail!Root
  PROVE  OnTour(Append(t, CrumbIn(here, kids)), Trail!Parent(here), w, kids)
<1>1. here \in Trail!Nodes /\ Grown(here, kids)
  BY HereFacts
<1> DEFINE m == Trail!Parent(here)
<1>2. m \in Trail!Nodes /\ Grown(m, kids)
  BY <1>1, AboveFacts
<1>3. PICK n, v, c : Tour(n, v, c, w, kids) /\ v[n] = here /\ Dropped(t, v, 0, n - 1, 0, kids)
  BY DEF OnTour
<1>4. Move(v[n], m, Len(w), Len(w), w, kids)
  BY <1>3 DEF Move
<1> HIDE DEF m
<1>5. Len(w) <= Len(w)
  OBVIOUS
<1>6. PICK walk, counts :
        /\ Tour(n + 1, walk, counts, w, kids)
        /\ walk[n + 1] = m /\ \A k \in 1..n : walk[k] = v[k]
  BY <1>2, <1>3, <1>4, <1>5, TourGoesOn
<1>7. n \in Nat \ {0}
  BY <1>3 DEF Tour
<1>8. Dropped(Append(t, CrumbIn(v[n], kids)), walk, 0, n, 0, kids)
  BY <1>1, <1>3, <1>6, <1>7, DropsOne
<1>9. (n + 1) - 1 = n
  BY <1>7
<1>10. OnTour(Append(t, CrumbIn(here, kids)), m, w, kids)
  BY <1>3, <1>6, <1>8, <1>9 DEF OnTour
<1> QED
  BY <1>10 DEF m

LEMMA WalkStops ==
  ASSUME NEW kids, NEW t, t # << >>, NEW here, NEW w, OnTour(t, here, w, kids)
  PROVE  Ended(Append(t, CrumbIn(here, kids)), w, here, 0, kids)
<1>1. PICK n, v, c : Tour(n, v, c, w, kids) /\ v[n] = here /\ Dropped(t, v, 0, n - 1, 0, kids)
  BY DEF OnTour
<1>2. n \in Nat \ {0} /\ v[n] \in Trail!Nodes
  BY <1>1 DEF Tour
<1>3. Dropped(Append(t, CrumbIn(v[n], kids)), v, 0, n, 0, kids)
  BY <1>1, <1>2, DropsOne
<1>4. n # 1
  <2>1. t \in Seq(Crumbs(kids)) /\ Len(t) = n - 1
    BY <1>1, <1>2 DEF Dropped
  <2> QED
    BY <2>1
<1>5. n >= 2
  BY <1>2, <1>4
<1> QED
  BY <1>1, <1>3, <1>5 DEF Ended

\* Once a node was skipped, what the walk drops is behind the tour.
LEMMA SkippedGoesOn ==
  ASSUME NEW kids, NEW t, NEW w, NEW end, NEW e \in Nat, Ended(t, w, end, e, kids),
         NEW here \in Trail!Nodes
  PROVE  Ended(Append(t, CrumbIn(here, kids)), w, end, e + 1, kids)
<1> DEFINE x == CrumbIn(here, kids)
           s == Append(t, x)
<1>1. PICK n, v, c : Tour(n, v, c, w, kids) /\ n >= 2 /\ v[n] = end /\ Dropped(t, v, 0, n, e, kids)
  BY DEF Ended
<1>2. n \in Nat
  BY <1>1 DEF Tour
<1>3. /\ t \in Seq(Crumbs(kids)) /\ Len(t) = n + e /\ x \in Crumbs(kids)
      /\ \A k \in 1..n : t[k] = CrumbIn(v[k], kids)
  BY <1>1, <1>2 DEF Dropped, Crumbs
<1> HIDE DEF x
<1>4. /\ s \in Seq(Crumbs(kids)) /\ Len(s) = Len(t) + 1
      /\ \A k \in 1..Len(t) : s[k] = t[k]
  BY <1>3
<1> HIDE DEF s
<1>5. Len(s) = (n - 0) + (e + 1) /\ \A k \in 1..n - 0 : s[k] = CrumbIn(v[0 + k], kids)
  BY <1>2, <1>3, <1>4
<1>6. Dropped(s, v, 0, n, e + 1, kids)
  BY <1>4, <1>5 DEF Dropped
<1> QED
  BY <1>1, <1>6 DEF Ended, s, x

-------------------------------------------------------------------------------
(* Bread crumbs: the drawing *)

\* The printer is at node p of the way, and has drawn d, the edges gone down up to there; the
\* trail t has the crumbs from there on, at the root its own as well.
AtPrint(t, here, w, d, end, e, kids) ==
  \E n, v, c : \E p \in 1..n - 1 :
    /\ Tour(n, v, c, w, kids) /\ v[n] = end
    /\ v[p] = here /\ d = SubSeq(w, 1, c[p]) /\ (here = Trail!Root => p = 1)
    /\ Dropped(t, v, IF here = Trail!Root THEN 0 ELSE p, n, e, kids)

\* It has gathered the crumb of node p, and is at the one before.
AtRetreat(t, x, here, w, d, end, e, kids) ==
  \E n, v, c : \E p \in 2..n :
    /\ Tour(n, v, c, w, kids) /\ v[n] = end
    /\ v[p - 1] = here /\ d = SubSeq(w, 1, c[p - 1]) /\ x = CrumbIn(v[p], kids)
    /\ Dropped(t, v, p, n, e, kids)

LEMMA DrawingBegins ==
  ASSUME NEW kids, NEW t, NEW w \in Seq(Edge), NEW end, NEW e \in Nat, Ended(t, w, end, e, kids)
  PROVE  AtPrint(t, Trail!Root, w, << >>, end, e, kids)
<1>1. PICK n, v, c : Tour(n, v, c, w, kids) /\ n >= 2 /\ v[n] = end /\ Dropped(t, v, 0, n, e, kids)
  BY DEF Ended
<1>2. n \in Nat /\ v[1] = Trail!Root /\ c[1] = 0
  BY <1>1 DEF Tour
<1>3. SubSeq(w, 1, 0) = << >>
  OBVIOUS
<1>4. 1 \in 1..n - 1
  BY <1>1, <1>2
<1> QED
  BY <1>1, <1>2, <1>3, <1>4 DEF AtPrint

LEMMA WithoutFirst ==
  ASSUME NEW S, NEW t \in Seq(S), t # << >>
  PROVE  /\ SubSeq(t, 2, Len(t)) = Tail(t) /\ Tail(t) \in Seq(S)
         /\ Len(t) \in Nat \ {0} /\ Len(Tail(t)) = Len(t) - 1
         /\ SubSeq(Tail(t), 2, Len(Tail(t))) = SubSeq(t, 3, Len(t))
         /\ Len(t) >= 2 => Tail(t) # << >> /\ Head(Tail(t)) = t[2]
OBVIOUS

LEMMA NodeDrawn ==
  ASSUME NEW kids, NEW t, NEW here, NEW w, NEW d, NEW end, NEW e \in Nat,
         AtPrint(t, here, w, d, end, e, kids)
  PROVE  /\ t \in Seq(Crumbs(kids)) /\ t # << >>
         /\ here = Trail!Root => Len(t) >= 2 /\ AtRetreat(SubSeq(t, 3, Len(t)), t[2], here, w, d, end, e, kids)
         /\ here # Trail!Root => Len(t) >= 1 /\ AtRetreat(SubSeq(t, 2, Len(t)), t[1], here, w, d, end, e, kids)
<1> DEFINE q(p) == IF here = Trail!Root THEN 0 ELSE p
<1>1. PICK n, v, c : \E p \in 1..n - 1 :
        /\ Tour(n, v, c, w, kids) /\ v[n] = end
        /\ v[p] = here /\ d = SubSeq(w, 1, c[p]) /\ (here = Trail!Root => p = 1)
        /\ Dropped(t, v, q(p), n, e, kids)
  BY DEF AtPrint
<1>2. PICK p \in 1..n - 1 :
        /\ Tour(n, v, c, w, kids) /\ v[n] = end
        /\ v[p] = here /\ d = SubSeq(w, 1, c[p]) /\ (here = Trail!Root => p = 1)
        /\ Dropped(t, v, q(p), n, e, kids)
  BY <1>1
<1>3. n \in Nat
  BY <1>2 DEF Tour
<1>4. p + 1 \in 2..n /\ (p + 1) - 1 = p /\ p \in Nat /\ p < n
  BY <1>2, <1>3
<1> DEFINE r == IF here = Trail!Root THEN 0 ELSE p
<1>5. r \in Nat /\ r < n
  BY <1>3, <1>4
<1>6. /\ t # << >> /\ Head(t) = CrumbIn(v[r + 1], kids) /\ t[1] = Head(t)
      /\ Dropped(Tail(t), v, r + 1, n, e, kids)
  <2>1. Dropped(t, v, r, n, e, kids)
    BY <1>2
  <2> HIDE DEF r
  <2> QED
    BY <1>3, <1>5, <2>1, TakesOne
<1>7. t \in Seq(Crumbs(kids))
  BY <1>2 DEF Dropped
<1>8. ASSUME here # Trail!Root
      PROVE  Len(t) >= 1 /\ AtRetreat(SubSeq(t, 2, Len(t)), t[1], here, w, d, end, e, kids)
  <2>1. r = p
    BY <1>8
  <2>2. SubSeq(t, 2, Len(t)) = Tail(t) /\ Len(t) >= 1
    BY <1>6, <1>7, WithoutFirst
  <2>3. AtRetreat(Tail(t), t[1], here, w, d, end, e, kids)
    <3>1. Dropped(Tail(t), v, p + 1, n, e, kids) /\ t[1] = CrumbIn(v[p + 1], kids)
      BY <1>6, <2>1
    <3>2. v[(p + 1) - 1] = here /\ d = SubSeq(w, 1, c[(p + 1) - 1])
      BY <1>2, <1>4
    <3> QED
      BY <1>2, <1>4, <3>1, <3>2 DEF AtRetreat
  <2> QED
    BY <2>2, <2>3
<1>9. ASSUME here = Trail!Root
      PROVE  Len(t) >= 2 /\ AtRetreat(SubSeq(t, 3, Len(t)), t[2], here, w, d, end, e, kids)
  <2>1. r + 1 = 1 /\ p = 1 /\ 1 < n
    BY <1>2, <1>4, <1>9
  <2> DEFINE s == Tail(t)
  <2>2. Dropped(s, v, 1, n, e, kids)
    BY <1>6, <2>1
  <2>3. /\ s \in Seq(Crumbs(kids)) /\ Len(t) \in Nat \ {0} /\ Len(s) = Len(t) - 1
        /\ SubSeq(s, 2, Len(s)) = SubSeq(t, 3, Len(t))
        /\ Len(t) >= 2 => Head(s) = t[2]
    BY <1>6, <1>7, WithoutFirst
  <2> HIDE DEF s
  <2>4. s # << >> /\ Head(s) = CrumbIn(v[1 + 1], kids) /\ Dropped(Tail(s), v, 1 + 1, n, e, kids)
    <3>1. 1 \in Nat /\ 1 < n
      BY <2>1
    <3> QED
      BY <1>3, <2>2, <3>1, TakesOne, SMTT(30)
  <2>5. Len(s) # 0
    BY <2>3, <2>4
  <2>6. Len(t) >= 2
    <3> DEFINE l == Len(t)
               j == Len(s)
    <3>1. l \in Nat \ {0} /\ j = l - 1 /\ j # 0
      BY <2>3, <2>5
    <3> HIDE DEF l, j
    <3>2. l >= 2
      BY <3>1
    <3> QED
      BY <3>2 DEF l
  <2>7. SubSeq(s, 2, Len(s)) = Tail(s)
    BY <2>3, <2>4, WithoutFirst
  <2>8. AtRetreat(Tail(s), Head(s), here, w, d, end, e, kids)
    <3>1. 2 \in 2..n /\ 1 + 1 = 2 /\ 2 - 1 = 1
      BY <1>3, <2>1
    <3>2. v[2 - 1] = here /\ d = SubSeq(w, 1, c[2 - 1])
      BY <1>2, <2>1, <3>1
    <3> QED
      BY <1>2, <2>4, <3>1, <3>2 DEF AtRetreat
  <2> QED
    BY <2>3, <2>6, <2>7, <2>8
<1> QED
  BY <1>6, <1>7, <1>8, <1>9

\* From node here to y, of which x is the crumb: what the crumb tells of the way there.
Went(x, here, y, j, l, w, kids) ==
  \/ /\ x[1] < Len(here) - 1 /\ here # Trail!Root
     /\ y = Trail!Parent(here) /\ l = j
  \/ /\ ~(x[1] < Len(here) - 1) /\ y \in Under(here, kids) /\ y # Trail!Root
     /\ l = j + 1 /\ w[l] = <<here, y>>

LEMMA GatheredFacts ==
  ASSUME NEW kids, IsTree(kids), NEW x, NEW here, NEW w \in Seq(Edge),
         NEW n, NEW v, NEW c, NEW p \in 2..n,
         Tour(n, v, c, w, kids), v[p - 1] = here, x = CrumbIn(v[p], kids)
  PROVE  /\ here \in Trail!Nodes /\ v[p] \in Trail!Nodes /\ n \in Nat /\ p \in Nat
         /\ c[p - 1] \in 0..Len(w) /\ c[p] \in 0..Len(w)
         /\ Went(x, here, v[p], c[p - 1], c[p], w, kids)
<1>1. /\ n \in Nat \ {0} /\ v \in [1..n -> Trail!Nodes] /\ c \in [1..n -> Nat]
      /\ \A k \in 1..n : c[k] <= Len(w) /\ Grown(v[k], kids)
      /\ \A k \in 1..n - 1 : Move(v[k], v[k + 1], c[k], c[k + 1], w, kids)
  BY DEF Tour
<1>2. p - 1 \in 1..n - 1 /\ p - 1 \in 1..n /\ p \in 1..n /\ (p - 1) + 1 = p
  BY <1>1
<1>3. Move(here, v[p], c[p - 1], c[p], w, kids)
  BY <1>1, <1>2
<1>4. /\ here \in Trail!Nodes /\ v[p] \in Trail!Nodes /\ Grown(here, kids)
      /\ c[p - 1] \in Nat /\ c[p] \in Nat /\ c[p - 1] <= Len(w) /\ c[p] <= Len(w)
  BY <1>1, <1>2
<1>5. c[p - 1] \in 0..Len(w) /\ c[p] \in 0..Len(w) /\ n \in Nat /\ p \in Nat
  <2>1. Len(w) \in Nat
    OBVIOUS
  <2> QED
    BY <1>1, <1>4, <2>1
<1>6. x[1] = Len(v[p]) - 1
  BY DEF CrumbIn
<1>7. CASE v[p] \in Under(here, kids) /\ c[p] = c[p - 1] + 1 /\ w[c[p]] = <<here, v[p]>>
  <2>1. Len(v[p]) = Len(here) + 1 /\ Len(here) \in Nat /\ v[p] # Trail!Root
    BY <1>4, <1>7, UnderFacts
  <2>2. ~(x[1] < Len(here) - 1)
    BY <1>6, <2>1
  <2> QED
    BY <1>4, <1>5, <1>7, <2>1, <2>2 DEF Went
<1>8. CASE here # Trail!Root /\ v[p] = Trail!Parent(here) /\ c[p] = c[p - 1]
  <2>1. Len(v[p]) = Len(here) - 1 /\ Len(here) \in Nat
    BY <1>4, <1>8, AboveFacts
  <2>2. x[1] < Len(here) - 1
    BY <1>6, <2>1
  <2> QED
    BY <1>4, <1>5, <1>8, <2>2 DEF Went
<1> QED
  BY <1>3, <1>7, <1>8 DEF Move

\* A trail that is not empty has a crumb of the tour left, or one behind it.
LEMMA LeftOver ==
  ASSUME NEW kids, NEW n \in Nat, NEW p \in 2..n, NEW v, NEW e \in Nat, NEW t,
         Dropped(t, v, p, n, e, kids), t # << >>
  PROVE  p < n \/ (p = n /\ e # 0)
<1>1. t \in Seq(Crumbs(kids)) /\ Len(t) = (n - p) + e
  BY DEF Dropped
<1>2. Len(t) # 0
  BY <1>1
<1> DEFINE l == Len(t)
<1>3. l = (n - p) + e /\ l # 0
  BY <1>1, <1>2
<1> HIDE DEF l
<1> QED
  BY <1>3

\* A crumb from higher up is of the parent, and the printer goes there; past the tour the
\* crumb is one of those behind.
LEMMA PrinterRetreats ==
  ASSUME NEW kids, IsTree(kids), NEW t, NEW x, NEW here, NEW w \in Seq(Edge), NEW d,
         NEW end, NEW e \in Nat,
         AtRetreat(t, x, here, w, d, end, e, kids), t # << >>, x[1] < Len(here) - 1
  PROVE  \/ AtRetreat(Tail(t), Head(t), Trail!Parent(here), w, d, end, e, kids)
         \/ e # 0 /\ d = w
<1>1. PICK n, v, c : \E p \in 2..n :
        /\ Tour(n, v, c, w, kids) /\ v[n] = end
        /\ v[p - 1] = here /\ d = SubSeq(w, 1, c[p - 1]) /\ x = CrumbIn(v[p], kids)
        /\ Dropped(t, v, p, n, e, kids)
  BY DEF AtRetreat
<1>2. PICK p \in 2..n :
        /\ Tour(n, v, c, w, kids) /\ v[n] = end
        /\ v[p - 1] = here /\ d = SubSeq(w, 1, c[p - 1]) /\ x = CrumbIn(v[p], kids)
        /\ Dropped(t, v, p, n, e, kids)
  BY <1>1
<1>3. v[p] = Trail!Parent(here) /\ c[p] = c[p - 1] /\ n \in Nat /\ p \in Nat
  <2>1. n \in Nat /\ p \in Nat /\ Went(x, here, v[p], c[p - 1], c[p], w, kids)
    BY <1>2, GatheredFacts
  <2> QED
    BY <2>1 DEF Went
<1>4. p < n \/ (p = n /\ e # 0)
  BY <1>2, <1>3, LeftOver
<1>5. CASE p < n
  <2>1. Head(t) = CrumbIn(v[p + 1], kids) /\ Dropped(Tail(t), v, p + 1, n, e, kids)
    BY <1>2, <1>3, <1>5, TakesOne
  <2>2. p + 1 \in 2..n /\ (p + 1) - 1 = p
    BY <1>2, <1>3, <1>5
  <2>3. v[(p + 1) - 1] = Trail!Parent(here) /\ d = SubSeq(w, 1, c[(p + 1) - 1])
    BY <1>2, <1>3, <2>2
  <2> QED
    BY <1>2, <2>1, <2>2, <2>3 DEF AtRetreat
<1>6. CASE p = n /\ e # 0
  <2>1. c[p - 1] = Len(w)
    BY <1>2, <1>3, <1>6 DEF Tour
  <2>2. SubSeq(w, 1, Len(w)) = w
    OBVIOUS
  <2> QED
    BY <1>2, <1>6, <2>1, <2>2
<1> QED
  BY <1>4, <1>5, <1>6

\* The crumb in hand is of a child of this page.
OfChild(x, here) == ~(x[1] < Len(here) - 1)
\* The child whose edge it names.
Named(x, here, kids) == Append(here, kids[here][x[2] + 1])
\* There, or at the end with every edge drawn.
Onward(t, m, here, w, d, end, e, kids) ==
  \/ AtPrint(t, m, w, Append(d, <<here, m>>), end, e, kids)
  \/ e # 0 /\ Append(d, <<here, m>>) = w

\* Any other is of a child, and the edge to it is drawn; it may be the last of the tour.
LEMMA PrinterGoesOn ==
  ASSUME NEW kids, IsTree(kids), NEW t, NEW x, NEW here, NEW w \in Seq(Edge), NEW d,
         NEW end, NEW e \in Nat,
         AtRetreat(t, x, here, w, d, end, e, kids), t # << >>, OfChild(x, here), NEW m,
         m = Named(x, here, kids)
  PROVE  /\ x[2] + 1 \in DOMAIN kids[here] /\ here \in Trail!Nodes /\ m \in Trail!Nodes
         /\ Onward(t, m, here, w, d, end, e, kids)
<1>1. PICK n, v, c : \E p \in 2..n :
        /\ Tour(n, v, c, w, kids) /\ v[n] = end
        /\ v[p - 1] = here /\ d = SubSeq(w, 1, c[p - 1]) /\ x = CrumbIn(v[p], kids)
        /\ Dropped(t, v, p, n, e, kids)
  BY DEF AtRetreat
<1>2. PICK p \in 2..n :
        /\ Tour(n, v, c, w, kids) /\ v[n] = end
        /\ v[p - 1] = here /\ d = SubSeq(w, 1, c[p - 1]) /\ x = CrumbIn(v[p], kids)
        /\ Dropped(t, v, p, n, e, kids)
  BY <1>1
<1>3. /\ here \in Trail!Nodes /\ v[p] \in Trail!Nodes /\ n \in Nat /\ p \in Nat
      /\ c[p - 1] \in 0..Len(w) /\ c[p] \in 0..Len(w)
      /\ v[p] \in Under(here, kids) /\ v[p] # Trail!Root
      /\ c[p] = c[p - 1] + 1 /\ w[c[p]] = <<here, v[p]>>
  <2>1. /\ here \in Trail!Nodes /\ v[p] \in Trail!Nodes /\ n \in Nat /\ p \in Nat
        /\ c[p - 1] \in 0..Len(w) /\ c[p] \in 0..Len(w)
        /\ Went(x, here, v[p], c[p - 1], c[p], w, kids)
    BY <1>2, GatheredFacts
  <2> QED
    BY <2>1 DEF Went, OfChild
<1>4. x[2] = IndexIn(v[p], kids)
  BY <1>2 DEF CrumbIn
<1>5. x[2] + 1 \in DOMAIN kids[here] /\ m = v[p]
  BY <1>3, <1>4, IndexFacts DEF Named
<1>6. p < n \/ (p = n /\ e # 0)
  BY <1>2, <1>3, LeftOver
<1>7. Append(d, <<here, m>>) = SubSeq(w, 1, c[p])
  <2> DEFINE l == c[p - 1]
  <2>1. l \in 0..Len(w) /\ l + 1 \in 0..Len(w) /\ c[p] = l + 1 /\ w[l + 1] = <<here, m>> /\ d = SubSeq(w, 1, l)
    BY <1>2, <1>3, <1>5
  <2> HIDE DEF l
  <2>2. l \in Nat /\ l < Len(w)
    <3>1. Len(w) \in Nat
      OBVIOUS
    <3> QED
      BY <2>1, <3>1
  <2>3. SubSeq(w, 1, l + 1) = Append(SubSeq(w, 1, l), w[l + 1])
    BY <2>2, OneMoreEdge, SMTT(30)
  <2> QED
    BY <2>1, <2>3
<1>8. CASE p < n
  <2>1. m # Trail!Root /\ v[p] = m /\ p \in 1..n - 1
    <3>1. m # Trail!Root /\ v[p] = m
      BY <1>3, <1>5
    <3>2. p \in 1..n - 1
      BY <1>3, <1>8
    <3> QED
      BY <3>1, <3>2
  <2>2. Dropped(t, v, IF m = Trail!Root THEN 0 ELSE p, n, e, kids)
    BY <1>2, <2>1
  <2>3. AtPrint(t, m, w, Append(d, <<here, m>>), end, e, kids)
    BY <1>2, <1>7, <2>1, <2>2, Zenon DEF AtPrint
  <2> QED
    BY <1>3, <1>5, <2>3 DEF Onward
<1>9. CASE p = n /\ e # 0
  <2>1. c[p] = Len(w)
    BY <1>2, <1>9 DEF Tour
  <2>2. SubSeq(w, 1, Len(w)) = w
    OBVIOUS
  <2> QED
    BY <1>3, <1>5, <1>7, <1>9, <2>1, <2>2 DEF Onward
<1> QED
  BY <1>6, <1>8, <1>9

\* With the last crumb gathered all the edges are drawn, or all but the last one: never so
\* when the tour ends at the root.
LEMMA DrawingEnds ==
  ASSUME NEW kids, IsTree(kids), NEW x, NEW here, NEW w \in Seq(Edge), NEW d,
         NEW end, NEW e \in Nat,
         AtRetreat(<< >>, x, here, w, d, end, e, kids)
  PROVE  d = w \/ (end # Trail!Root /\ d = Trail!Front(w))
<1>1. PICK n, v, c : \E p \in 2..n :
        /\ Tour(n, v, c, w, kids) /\ v[n] = end
        /\ v[p - 1] = here /\ d = SubSeq(w, 1, c[p - 1]) /\ x = CrumbIn(v[p], kids)
        /\ Dropped(<< >>, v, p, n, e, kids)
  BY DEF AtRetreat
<1>2. PICK p \in 2..n :
        /\ Tour(n, v, c, w, kids) /\ v[n] = end
        /\ v[p - 1] = here /\ d = SubSeq(w, 1, c[p - 1]) /\ x = CrumbIn(v[p], kids)
        /\ Dropped(<< >>, v, p, n, e, kids)
  BY <1>1
<1>3. /\ n \in Nat /\ p \in Nat /\ c[p - 1] \in 0..Len(w)
      /\ c[p] = c[p - 1] \/ (v[p] # Trail!Root /\ c[p] = c[p - 1] + 1)
  <2>1. n \in Nat /\ p \in Nat /\ c[p - 1] \in 0..Len(w) /\ Went(x, here, v[p], c[p - 1], c[p], w, kids)
    BY <1>2, GatheredFacts
  <2> QED
    BY <2>1 DEF Went
<1>4. 0 = (n - p) + e
  <2>1. Len(<< >>) = (n - p) + e
    BY <1>2 DEF Dropped
  <2> QED
    BY <2>1
<1>5. p = n
  BY <1>2, <1>3, <1>4
<1>6. c[p] = Len(w) /\ v[p] = end
  BY <1>2, <1>5 DEF Tour
<1>7. SubSeq(w, 1, Len(w)) = w /\ Len(w) \in Nat
  OBVIOUS
<1>8. CASE c[p] = c[p - 1]
  BY <1>2, <1>6, <1>7, <1>8
<1>9. CASE v[p] # Trail!Root /\ c[p] = c[p - 1] + 1
  <2>1. c[p - 1] = Len(w) - 1
    BY <1>3, <1>6, <1>7, <1>9
  <2> QED
    BY <1>2, <1>6, <1>9, <2>1 DEF Trail!Front
<1> QED
  BY <1>3, <1>8, <1>9

\* On the way they are the first of those gone down.
LEMMA DrawnSoFar ==
  ASSUME NEW kids, IsTree(kids), NEW t, NEW x, NEW here, NEW w \in Seq(Edge), NEW d,
         NEW end, NEW e \in Nat,
         AtPrint(t, here, w, d, end, e, kids) \/ AtRetreat(t, x, here, w, d, end, e, kids)
  PROVE  Trail!IsPrefix(d, w) /\ here \in Trail!Nodes
<1>1. PICK l \in 0..Len(w) : d = SubSeq(w, 1, l) /\ here \in Trail!Nodes
  <2>1. CASE AtPrint(t, here, w, d, end, e, kids)
    <3>1. PICK n, v, c : \E p \in 1..n - 1 :
            /\ Tour(n, v, c, w, kids) /\ v[n] = end
            /\ v[p] = here /\ d = SubSeq(w, 1, c[p]) /\ (here = Trail!Root => p = 1)
            /\ Dropped(t, v, IF here = Trail!Root THEN 0 ELSE p, n, e, kids)
      BY <2>1 DEF AtPrint
    <3>2. PICK p \in 1..n - 1 : Tour(n, v, c, w, kids) /\ v[p] = here /\ d = SubSeq(w, 1, c[p])
      BY <3>1
    <3>3. n \in Nat /\ v \in [1..n -> Trail!Nodes] /\ c \in [1..n -> Nat] /\ \A k \in 1..n : c[k] <= Len(w)
      BY <3>2 DEF Tour
    <3>4. p \in 1..n
      BY <3>2, <3>3
    <3>5. v[p] \in Trail!Nodes /\ c[p] \in Nat /\ c[p] <= Len(w)
      BY <3>3, <3>4
    <3>6. c[p] \in 0..Len(w)
      <4>1. Len(w) \in Nat
        OBVIOUS
      <4> QED
        BY <3>5, <4>1
    <3> QED
      BY <3>2, <3>5, <3>6
  <2>2. CASE AtRetreat(t, x, here, w, d, end, e, kids)
    <3>1. PICK n, v, c : \E p \in 2..n :
            /\ Tour(n, v, c, w, kids) /\ v[n] = end
            /\ v[p - 1] = here /\ d = SubSeq(w, 1, c[p - 1]) /\ x = CrumbIn(v[p], kids)
            /\ Dropped(t, v, p, n, e, kids)
      BY <2>2 DEF AtRetreat
    <3>2. PICK p \in 2..n :
            /\ Tour(n, v, c, w, kids)
            /\ v[p - 1] = here /\ d = SubSeq(w, 1, c[p - 1]) /\ x = CrumbIn(v[p], kids)
      BY <3>1
    <3> QED
      BY <3>2, GatheredFacts
  <2> QED
    BY <2>1, <2>2
<1>2. Len(SubSeq(w, 1, l)) = l /\ SubSeq(SubSeq(w, 1, l), 1, l) = SubSeq(w, 1, l) /\ l <= Len(w)
  OBVIOUS
<1> QED
  BY <1>1, <1>2 DEF Trail!IsPrefix

\* A URL that is scheduled has its nodes on the tree.
LEMMA TreeGrows ==
  ASSUME NEW kids, IsTree(kids), NEW u \in TrailUrls, NEW more,
         more = [n \in Trail!Nodes |-> IF Trail!IsStrictPrefix(n, u) THEN Trail!Insert(kids[n], u[Len(n) + 1])
                                       ELSE kids[n]]
  PROVE  IsTree(more) /\ Under(Trail!Root, more) # {}
<1>1. /\ u \in Trail!Nodes /\ u # Trail!Root /\ u \in Seq(Labels) /\ Trail!Root \in Trail!Nodes
      /\ \A k \in 0..Len(u) : SubSeq(u, 1, k) \in Trail!Nodes
  BY UrlIsNode
<1>2. ASSUME NEW n \in Trail!Nodes, Trail!IsStrictPrefix(n, u)
      PROVE  /\ Len(n) \in Nat /\ Len(n) < Len(u) /\ n = SubSeq(u, 1, Len(n))
             /\ u[Len(n) + 1] \in Labels
             /\ Append(n, u[Len(n) + 1]) = SubSeq(u, 1, Len(n) + 1)
  <2>1. n \in Seq(Labels)
    BY NodeIsSequence
  <2> DEFINE l == Len(n)
  <2>2. l \in Nat /\ SubSeq(n, 1, l) = n
    BY <2>1
  <2>3. l <= Len(u) /\ n = SubSeq(u, 1, l) /\ n # u
    BY <1>2, <2>2 DEF Trail!IsStrictPrefix, Trail!IsPrefix
  <2> HIDE DEF l
  <2>4. SubSeq(u, 1, Len(u)) = u /\ Len(u) \in Nat
    BY <1>1
  <2>5. l < Len(u)
    <3>1. l # Len(u)
      BY <2>3, <2>4, SMTT(30)
    <3>2. l \in Nat /\ Len(u) \in Nat /\ l <= Len(u)
      BY <2>2, <2>3, <2>4, Zenon
    <3> QED
      BY <3>1, <3>2
  <2>6. u[l + 1] \in Labels /\ Append(SubSeq(u, 1, l), u[l + 1]) = SubSeq(u, 1, l + 1)
    BY <1>1, <2>2, <2>5
  <2> QED
    BY <2>2, <2>3, <2>5, <2>6 DEF l
<1>3. ASSUME NEW n \in Trail!Nodes, NEW m, Trail!Parent(m) = n, m \in Trail!Nodes, m # Trail!Root,
             Trail!IsStrictPrefix(m, u)
      PROVE  Trail!IsStrictPrefix(n, u) /\ Append(n, u[Len(n) + 1]) = m
  <2>1. /\ Len(n) = Len(m) - 1 /\ Append(n, Trail!Last(m)) = m /\ Len(m) \in Nat
        /\ Trail!Parent(m) = SubSeq(m, 1, Len(m) - 1)
    BY <1>3, ParentIs DEF Trail!Parent, Trail!Front
  <2>2. Len(m) < Len(u) /\ m = SubSeq(u, 1, Len(m))
    BY <1>2, <1>3
  <2> DEFINE l == Len(n)
  <2>3. n \in Seq(Labels) /\ l \in Nat
    BY NodeIsSequence
  <2> HIDE DEF l
  <2>4. Len(m) = l + 1 /\ l + 1 < Len(u) /\ m = SubSeq(u, 1, l + 1) /\ n = SubSeq(m, 1, l) /\ l = Len(n)
    BY <1>3, <2>1, <2>2, <2>3 DEF l
  <2>5. Len(u) \in Nat
    BY <1>1
  <2>6. SubSeq(SubSeq(u, 1, l + 1), 1, l) = SubSeq(u, 1, l)
    BY <1>1, <2>3, <2>4, <2>5
  <2>7. n = SubSeq(u, 1, l)
    BY <2>4, <2>6
  <2>8. SubSeq(n, 1, l) = n /\ n # u
    BY <2>3, <2>4, <2>5
  <2>9. Trail!IsStrictPrefix(n, u)
    <3>1. l <= Len(u) /\ SubSeq(n, 1, l) = SubSeq(u, 1, l)
      BY <2>3, <2>4, <2>5, <2>7, <2>8
    <3> QED
      BY <2>4, <2>8, <3>1 DEF Trail!IsStrictPrefix, Trail!IsPrefix
  <2>10. Append(n, u[Len(n) + 1]) = SubSeq(u, 1, Len(n) + 1)
    BY <1>2, <2>9
  <2> QED
    BY <2>4, <2>9, <2>10
<1>4. ASSUME NEW n \in Trail!Nodes
      PROVE  /\ more[n] \in Seq(Labels) /\ Under(n, kids) \subseteq Under(n, more)
             /\ Under(n, more) \subseteq Trail!Nodes
             /\ IF Trail!IsStrictPrefix(n, u) THEN Append(n, u[Len(n) + 1]) \in Under(n, more)
                ELSE Under(n, more) = Under(n, kids)
  <2>1. kids[n] \in Seq(Labels) /\ Under(n, kids) \subseteq Trail!Nodes
    BY DEF IsTree
  <2>2. CASE ~Trail!IsStrictPrefix(n, u)
    <3>1. more[n] = kids[n]
      BY <2>2
    <3> QED
      BY <2>1, <2>2, <3>1 DEF Under
  <2>3. CASE Trail!IsStrictPrefix(n, u)
    <3> DEFINE l == u[Len(n) + 1]
               s == kids[n]
    <3>1. more[n] = Trail!Insert(s, l) /\ l \in Labels /\ s \in Seq(Labels)
      BY <1>2, <2>1, <2>3
    <3>2. Append(n, l) \in Trail!Nodes
      <4>1. Len(n) + 1 \in 0..Len(u)
        <5>1. Len(n) \in Nat /\ Len(n) < Len(u) /\ Len(u) \in Nat
          BY <1>1, <1>2, <2>3
        <5> QED
          BY <5>1
      <4>2. Append(n, l) = SubSeq(u, 1, Len(n) + 1)
        BY <1>2, <2>3
      <4> QED
        BY <1>1, <4>1, <4>2
    <3>3. \A x : x \in Under(n, kids) <=> \E k \in DOMAIN s : x = Append(n, s[k])
      BY DEF Under
    <3>4. \A x : x \in Under(n, more) <=> \E k \in DOMAIN more[n] : x = Append(n, more[n][k])
      BY DEF Under
    <3> HIDE DEF l, s
    <3>5. CASE Trail!Contains(s, l)
      <4>1. more[n] = s
        BY <3>1, <3>5 DEF Trail!Insert
      <4>2. PICK k \in 1..Len(s) : s[k] = l
        BY <3>5 DEF Trail!Contains
      <4>3. k \in DOMAIN s
        BY <3>1
      <4>4. Append(n, l) \in Under(n, more)
        BY <3>4, <4>1, <4>2, <4>3
      <4>5. Under(n, more) = Under(n, kids)
        BY <4>1 DEF Under, s
      <4> QED
        BY <2>1, <2>3, <3>1, <4>1, <4>4, <4>5 DEF l
    <3>6. CASE ~Trail!Contains(s, l)
      <4> DEFINE r == Append(s, l)
      <4>1. more[n] = r
        BY <3>1, <3>6 DEF Trail!Insert
      <4>2. /\ r \in Seq(Labels) /\ Len(s) \in Nat /\ DOMAIN s = 1..Len(s) /\ DOMAIN r = 1..Len(s) + 1
            /\ r[Len(s) + 1] = l /\ \A k \in 1..Len(s) : r[k] = s[k]
        BY <3>1
      <4> HIDE DEF r
      <4>3. DOMAIN s \subseteq DOMAIN r /\ Len(s) + 1 \in DOMAIN r
            /\ \A k \in DOMAIN r : k = Len(s) + 1 \/ k \in DOMAIN s
        BY <4>2
      <4>4. \A k \in DOMAIN s : r[k] = s[k]
        BY <4>2
      <4>5. Append(n, l) \in Under(n, more)
        BY <3>4, <4>1, <4>2, <4>3
      <4>6. Under(n, kids) \subseteq Under(n, more)
        BY <3>3, <3>4, <4>1, <4>3, <4>4
      <4>7. \A x \in Under(n, more) : x = Append(n, l) \/ x \in Under(n, kids)
        BY <3>3, <3>4, <4>1, <4>2, <4>3, <4>4, SMTT(30)
      <4> QED
        BY <2>1, <2>3, <3>2, <4>1, <4>2, <4>5, <4>6, <4>7 DEF l
    <3> QED
      BY <3>5, <3>6
  <2> QED
    BY <2>2, <2>3
<1>5. ASSUME NEW n \in Trail!Nodes, Under(n, more) # {} PROVE Grown(n, more)
  <2>1. CASE n = Trail!Root
    BY <2>1 DEF Grown
  <2>2. CASE n # Trail!Root /\ Trail!IsStrictPrefix(n, u)
    <3>1. Trail!Parent(n) \in Trail!Nodes
      BY <2>2, ParentIs
    <3>2. Trail!IsStrictPrefix(Trail!Parent(n), u) /\ Append(Trail!Parent(n), u[Len(Trail!Parent(n)) + 1]) = n
      BY <1>3, <2>2, <3>1
    <3>3. n \in Under(Trail!Parent(n), more)
      BY <1>4, <3>1, <3>2
    <3> QED
      BY <3>3 DEF Grown
  <2>3. CASE n # Trail!Root /\ ~Trail!IsStrictPrefix(n, u)
    <3>1. Trail!Parent(n) \in Trail!Nodes
      BY <2>3, ParentIs
    <3>2. Grown(n, kids)
      BY <1>4, <1>5, <2>3 DEF IsTree
    <3>3. n \in Under(Trail!Parent(n), more)
      BY <1>4, <2>3, <3>1, <3>2 DEF Grown
    <3> QED
      BY <3>3 DEF Grown
  <2> QED
    BY <2>1, <2>2, <2>3
<1>6. more \in [Trail!Nodes -> Seq(Labels)]
  <2>1. more = [n \in Trail!Nodes |-> more[n]]
    OBVIOUS
  <2> QED
    BY <1>4, <2>1
<1>7. Trail!IsStrictPrefix(Trail!Root, u)
  <2>1. SubSeq(u, 1, 0) = << >> /\ SubSeq(<< >>, 1, 0) = << >> /\ Len(<< >>) = 0 /\ 0 <= Len(u)
    BY <1>1
  <2> QED
    BY <1>1, <2>1 DEF Trail!IsStrictPrefix, Trail!IsPrefix, Trail!Root
<1>8. Append(Trail!Root, u[Len(Trail!Root) + 1]) \in Under(Trail!Root, more)
  BY <1>1, <1>4, <1>7
<1>9. \A n \in Trail!Nodes : Under(n, more) \subseteq Trail!Nodes
  BY <1>4
<1>10. \A n \in Trail!Nodes : Under(n, more) # {} => Grown(n, more)
  BY <1>5
<1>11. IsTree(more)
  BY <1>6, <1>9, <1>10 DEF IsTree
<1> QED
  BY <1>8, <1>11

-------------------------------------------------------------------------------
(* Bread crumbs: the invariant *)

\* Where the walk is, or goes on at the next turn.
Here == IF at = NoNode THEN Trail!Root ELSE at

TrailType ==
  /\ pages \subseteq TrailUrls
  /\ IsTree(children) /\ (pages # {} => Under(Trail!Root, children) # {})
  /\ walked \in Seq(Edge) /\ drawn \in Seq(Edge) /\ trail \in Seq(Crumbs(children))
  /\ skipped \in BOOLEAN
  /\ pc \in {"schedule", "turn", "room", "select", "print", "retreat", "printed"}

\* Nothing is walked before the first crumb.
Fresh == trail = << >> => red = {} /\ assigned = {} /\ walked = << >> /\ skipped = FALSE

\* Behind a tour there are crumbs only once a node was skipped; with the tree walked to its
\* end it is back at the root.
Fits(end, e) ==
  /\ e \in Nat
  /\ skipped = FALSE => e = 0
  /\ skipped = FALSE /\ Trail!Root \in red => end = Trail!Root
Toured == \E end, e : Fits(end, e) /\ Ended(trail, walked, end, e, children)

\* The walk is on its tour until it skips a node, and between two pages it has dropped a
\* crumb at every node of one.
Walking ==
  /\ drawn = << >> /\ Fresh
  /\ Here \in Trail!Nodes /\ Grown(Here, children)
  /\ skipped = FALSE /\ Trail!Root \notin red => OnTour(trail, Here, walked, children)
  /\ trail # << >> /\ (pc # "select" \/ skipped = TRUE) => Toured

\* The edges of the tour are drawn, and the printer follows crumbs of somewhere else.
Astray == skipped = TRUE /\ Trail!IsPrefix(walked, drawn)

TrailState ==
  /\ pc = "schedule" => trail = << >> /\ at = NoNode /\ drawn = << >> /\ Fresh
  /\ pc # "schedule" => pages # {}
  /\ pc \in {"turn", "room", "select"} => Walking
  /\ pc \in {"room", "select"} => Trail!Root \notin red /\ at # NoNode
  /\ pc = "print" =>
       /\ at \in Trail!Nodes
       /\ \/ \E end, e : Fits(end, e) /\ AtPrint(trail, at, walked, drawn, end, e, children)
          \/ trail = << >> /\ drawn = walked
          \/ Astray
  /\ pc = "retreat" =>
       /\ at \in Trail!Nodes /\ crumb \in Crumbs(children)
       /\ \/ \E end, e : Fits(end, e) /\ AtRetreat(trail, crumb, at, walked, drawn, end, e, children)
          \/ Astray
  /\ pc = "printed" =>
       \/ drawn = walked
       \/ drawn = Trail!Front(walked) /\ (skipped = TRUE \/ Trail!Root \notin red)
       \/ Astray
  /\ fault = "none" \/ (Astray /\ pc \in {"print", "retreat"})

TrailInv == part = "trail" => TrailType /\ TrailState

LEMMA NotEmptied == ASSUME NEW S, NEW s \in Seq(S), NEW x \in S PROVE Append(s, x) # << >> /\ Append(s, x) \in Seq(S)
<1>1. Len(Append(s, x)) = Len(s) + 1 /\ Len(s) \in Nat /\ Append(s, x) \in Seq(S)
  OBVIOUS
<1>2. Len(<< >>) = 0
  OBVIOUS
<1> QED
  BY <1>1, <1>2

LEMMA NoCrumbs == ASSUME NEW S PROVE << >> \in Seq(S)
OBVIOUS

LEMMA InitTrail == Init => TrailInv
<1> SUFFICES ASSUME Init, part = "trail" PROVE TrailType /\ TrailState
  BY DEF TrailInv
<1>1. Trail!Init
  BY DEF Init
<1>2. children = [n \in Trail!Nodes |-> << >>]
  BY <1>1 DEF Trail!Init
<1>3. IsTree(children)
  <2>1. children \in [Trail!Nodes -> Seq(Labels)]
    BY <1>2
  <2>2. \A n \in Trail!Nodes : Under(n, children) = {}
    BY <1>2 DEF Under
  <2> QED
    BY <2>1, <2>2 DEF IsTree
<1>4. << >> \in Seq(Edge) /\ << >> \in Seq(Crumbs(children))
  BY NoCrumbs
<1> QED
  BY <1>1, <1>3, <1>4 DEF Trail!Init, TrailType, TrailState, Fresh

\* What a step of the walk leaves alone.
LEMMA WalkStep ==
  ASSUME TrailType, pages # {}, UNCHANGED <<pages, children>>, fault' = "none",
         walked' \in Seq(Edge), trail' \in Seq(Crumbs(children)), skipped' \in BOOLEAN,
         pc' \in {"turn", "room", "select"}, Walking',
         pc' # "turn" => Trail!Root \notin red' /\ at' # NoNode
  PROVE  TrailType' /\ TrailState'
<1>1. drawn' = << >> /\ << >> \in Seq(Edge)
  BY NoCrumbs DEF Walking
<1>2. TrailType'
  BY <1>1 DEF TrailType
<1>3. TrailState'
  BY DEF TrailState
<1> QED
  BY <1>2, <1>3

\* And one of the printer.
LEMMA PrintStep ==
  ASSUME TrailType, pages # {}, UNCHANGED <<pages, children, walked, skipped>>,
         trail' \in Seq(Crumbs(children)), drawn' \in Seq(Edge),
         pc' \in {"print", "retreat", "printed"},
         fault' = "none" \/ (Astray' /\ pc' \in {"print", "retreat"}),
         pc' \in {"print", "retreat"} => at' \in Trail!Nodes,
         pc' = "retreat" => crumb' \in Crumbs(children'),
         \/ Astray'
         \/ /\ pc' = "print"
            /\ \E end, e : Fits(end, e)' /\ AtPrint(trail', at', walked', drawn', end, e, children')
         \/ pc' = "print" /\ trail' = << >> /\ drawn' = walked'
         \/ /\ pc' = "retreat"
            /\ \E end, e : Fits(end, e)' /\ AtRetreat(trail', crumb', at', walked', drawn', end, e, children')
         \/ pc' = "printed" /\ drawn' = walked'
         \/ pc' = "printed" /\ drawn' = Trail!Front(walked') /\ (skipped' = TRUE \/ Trail!Root \notin red')
  PROVE  TrailType' /\ TrailState'
<1>1. TrailType'
  BY DEF TrailType
<1>2. TrailState'
  BY Zenon DEF TrailState
<1> QED
  BY <1>1, <1>2

\* What the walk has where it drops a crumb.
LEMMA WalkFacts ==
  ASSUME TrailType, TrailState, pc = "select"
  PROVE  /\ pages # {} /\ drawn = << >> /\ Fresh /\ fault = "none" /\ at = Here
         /\ at \in Trail!Nodes /\ Grown(at, children) /\ Trail!Root \notin red
         /\ skipped = FALSE => OnTour(trail, at, walked, children)
         /\ skipped = TRUE => Toured
         /\ Trail!DropCrumb = Append(trail, CrumbIn(at, children))
         /\ Append(trail, CrumbIn(at, children)) # << >>
         /\ Append(trail, CrumbIn(at, children)) \in Seq(Crumbs(children))
<1>1. pages # {} /\ Walking /\ Trail!Root \notin red /\ at # NoNode
  BY DEF TrailState
<1>2. at = Here /\ fault = "none"
  BY <1>1 DEF Here, TrailState
<1>3. at \in Trail!Nodes /\ Grown(at, children) /\ drawn = << >> /\ Fresh
  BY <1>1, <1>2 DEF Walking
<1>4. skipped = FALSE => OnTour(trail, at, walked, children)
  BY <1>1, <1>2 DEF Walking
<1>5. skipped = TRUE => Toured
  BY <1>1 DEF Walking, Fresh
<1>6. CrumbIn(at, children) \in Crumbs(children) /\ trail \in Seq(Crumbs(children))
  BY <1>3 DEF Crumbs, TrailType
<1>7. /\ Append(trail, CrumbIn(at, children)) # << >>
      /\ Append(trail, CrumbIn(at, children)) \in Seq(Crumbs(children))
  BY <1>6, NotEmptied
<1> QED
  BY <1>1, <1>2, <1>3, <1>4, <1>5, <1>7, SameTree DEF Trail!DropCrumb

\* A crumb more behind a tour is one.
LEMMA TouredGoesOn ==
  ASSUME Toured, skipped = TRUE, skipped' = TRUE, UNCHANGED <<walked, children>>,
         NEW here \in Trail!Nodes, trail' = Append(trail, CrumbIn(here, children))
  PROVE  Toured'
<1>1. PICK end, e : Fits(end, e) /\ Ended(trail, walked, end, e, children)
  BY DEF Toured
<1>2. e \in Nat /\ e + 1 \in Nat
  BY <1>1 DEF Fits
<1>3. Ended(trail', walked', end, e + 1, children')
  BY <1>1, <1>2, SkippedGoesOn
<1>4. Fits(end, e + 1)'
  BY <1>2 DEF Fits
<1> QED
  BY <1>3, <1>4 DEF Toured

\* Prefixes of the edges gone down
LEMMA SelfPrefix ==
  ASSUME NEW w \in Seq(Edge)
  PROVE  Trail!IsPrefix(w, w) /\ Trail!IsPrefix(<< >>, w)
<1>1. Len(w) <= Len(w) /\ Len(<< >>) <= Len(w) /\ SubSeq(<< >>, 1, Len(<< >>)) = SubSeq(w, 1, Len(<< >>))
  OBVIOUS
<1> QED
  BY <1>1 DEF Trail!IsPrefix

LEMMA StillPrefix ==
  ASSUME NEW w \in Seq(Edge), NEW d \in Seq(Edge), NEW x \in Edge, Trail!IsPrefix(w, d)
  PROVE  Trail!IsPrefix(w, Append(d, x))
<1> DEFINE more == Append(d, x)
<1>1. Len(w) <= Len(d) /\ SubSeq(w, 1, Len(w)) = SubSeq(d, 1, Len(w))
  BY DEF Trail!IsPrefix
<1>2. Len(more) = Len(d) + 1 /\ Len(w) \in Nat /\ Len(d) \in Nat
  OBVIOUS
<1>3. \A l \in 0..Len(d) : SubSeq(more, 1, l) = SubSeq(d, 1, l)
  OBVIOUS
<1> HIDE DEF more
<1>4. Len(w) \in 0..Len(d) /\ Len(w) <= Len(more)
  BY <1>1, <1>2
<1>5. SubSeq(w, 1, Len(w)) = SubSeq(more, 1, Len(w))
  BY <1>1, <1>3, <1>4
<1> QED
  BY <1>4, <1>5 DEF Trail!IsPrefix, more

LEMMA FrontPrefix ==
  ASSUME NEW w \in Seq(Edge), NEW d \in Seq(Edge)
  PROVE  /\ Trail!IsPrefix(Trail!Front(w), w) /\ Trail!IsPrefix(Trail!Front(w), Trail!Front(w))
         /\ Trail!IsPrefix(w, d) => Trail!IsPrefix(Trail!Front(w), d)
<1> DEFINE f == SubSeq(w, 1, Len(w) - 1)
<1>1. Trail!Front(w) = f /\ f \in Seq(Edge)
  BY DEF Trail!Front
<1>2. Len(f) \in Nat /\ Len(f) <= Len(w) /\ SubSeq(f, 1, Len(f)) = SubSeq(w, 1, Len(f))
  OBVIOUS
<1>3. ASSUME Len(w) <= Len(d), SubSeq(w, 1, Len(w)) = SubSeq(d, 1, Len(w))
      PROVE  Len(f) <= Len(d) /\ SubSeq(f, 1, Len(f)) = SubSeq(d, 1, Len(f))
  <2>1. Len(w) \in Nat /\ Len(d) \in Nat
    OBVIOUS
  <2> DEFINE l == Len(f)
  <2>2. l \in Nat /\ l <= Len(w) /\ SubSeq(f, 1, l) = SubSeq(w, 1, l)
    BY <1>2
  <2> HIDE DEF l, f
  <2>3. \A s \in Seq(Edge), j \in Nat : l <= j /\ j <= Len(s) => SubSeq(SubSeq(s, 1, j), 1, l) = SubSeq(s, 1, l)
    BY <2>2
  <2>4. SubSeq(w, 1, l) = SubSeq(d, 1, l)
    BY <1>3, <2>1, <2>2, <2>3
  <2> QED
    BY <1>3, <2>1, <2>2, <2>4 DEF l
<1>4. Len(f) <= Len(f)
  BY <1>2
<1> HIDE DEF f
<1> QED
  BY <1>1, <1>2, <1>3, <1>4 DEF Trail!IsPrefix

\* The walk goes down, assigns a page, or backs up.
LEMMA SelectTrail ==
  ASSUME TrailType, TrailState, Trail!Descend \/ Trail!AssignPage \/ Trail!BackUp
  PROVE  TrailType' /\ TrailState'
<1>1. pc = "select" /\ trail' = Trail!DropCrumb /\ UNCHANGED <<pages, children, skipped, drawn, fault>>
  BY DEF Trail!Descend, Trail!AssignPage, Trail!BackUp
<1>2. /\ pages # {} /\ drawn = << >> /\ Fresh /\ fault = "none"
      /\ at \in Trail!Nodes /\ Grown(at, children) /\ Trail!Root \notin red
      /\ skipped = FALSE => OnTour(trail, at, walked, children)
      /\ skipped = TRUE => Toured
      /\ trail' = Append(trail, CrumbIn(at, children))
      /\ trail' # << >> /\ trail' \in Seq(Crumbs(children))
  BY <1>1, WalkFacts
<1>3. /\ pages \subseteq TrailUrls /\ IsTree(children) /\ Under(Trail!Root, children) # {}
      /\ walked \in Seq(Edge) /\ skipped \in BOOLEAN
  BY <1>2 DEF TrailType
<1>4. \A m \in Trail!Nodes : m # NoNode
  BY NodeIsSequence
<1>5. Fresh'
  BY <1>2 DEF Fresh
<1>6. CASE Trail!Descend
  <2>1. PICK m \in Trail!Candidates(at) : at' = m /\ walked' = IF skipped THEN walked ELSE Append(walked, <<at, m>>)
    BY <1>6 DEF Trail!Descend
  <2>2. UNCHANGED <<red, pc>>
    BY <1>6 DEF Trail!Descend
  <2>3. m \in Under(at, children)
    BY <2>1, SameTree DEF Trail!Candidates
  <2>4. m \in Trail!Nodes /\ Grown(m, children)
    BY <1>2, <1>3, <2>3, UnderFacts
  <2>5. Here' = m
    BY <1>4, <2>1, <2>4 DEF Here
  <2>6. CASE skipped = TRUE
    <3>1. walked' = walked
      BY <2>1, <2>6
    <3>2. Toured'
      BY <1>1, <1>2, <2>6, <3>1, TouredGoesOn
    <3>3. Walking'
      BY <1>1, <1>2, <1>5, <2>4, <2>5, <2>6, <3>2 DEF Walking
    <3> QED
      BY <1>1, <1>2, <1>3, <1>4, <2>1, <2>2, <2>4, <3>1, <3>3, WalkStep
  <2>7. CASE skipped = FALSE
    <3>1. walked' = Append(walked, <<at, m>>)
      BY <2>1, <2>7
    <3>2. walked' \in Seq(Edge) /\ OnTour(trail', m, walked', children)
      BY <1>2, <1>3, <2>3, <2>7, <3>1, WalkGoesDown
    <3>3. Walking'
      BY <1>1, <1>2, <1>5, <2>2, <2>4, <2>5, <2>7, <3>2 DEF Walking
    <3> QED
      BY <1>1, <1>2, <1>3, <1>4, <2>1, <2>2, <2>4, <3>2, <3>3, WalkStep
  <2> QED
    BY <1>3, <2>6, <2>7
\* A node other than the root is left for its parent.
<1>7. ASSUME at # Trail!Root, at' = Trail!Parent(at), red' = red \cup {at}, walked' = walked,
             pc' \in {"room", "select"}
      PROVE  TrailType' /\ TrailState'
  <2>1. at' \in Trail!Nodes /\ Grown(at', children)
    BY <1>2, <1>3, <1>7, AboveFacts
  <2>2. Here' = at' /\ at' # NoNode
    BY <1>4, <2>1 DEF Here
  <2>3. Trail!Root \notin red'
    BY <1>2, <1>7
  <2>4. CASE skipped = TRUE
    <3>1. Toured'
      BY <1>1, <1>2, <1>7, <2>4, TouredGoesOn
    <3>2. Walking'
      BY <1>1, <1>2, <1>5, <2>1, <2>2, <2>4, <3>1 DEF Walking
    <3> QED
      BY <1>1, <1>2, <1>3, <1>7, <2>2, <2>3, <3>2, WalkStep
  <2>5. CASE skipped = FALSE
    <3>1. OnTour(trail, at, walked, children)
      BY <1>2, <2>5
    <3>2. OnTour(trail', at', walked', children')
      BY <1>1, <1>2, <1>3, <1>7, <3>1, WalkGoesUp
    <3>3. trail # << >>
      BY <1>3, <1>7, <3>1, HereFacts
    <3>4. PICK end : end = at
      OBVIOUS
    <3>5. Ended(trail', walked', end, 0, children')
      BY <1>1, <1>2, <1>7, <3>1, <3>3, <3>4, WalkStops
    <3>6. Fits(end, 0)'
      BY <2>3 DEF Fits
    <3>7. Toured'
      BY <3>5, <3>6 DEF Toured
    <3>8. Walking'
      BY <1>1, <1>2, <1>5, <2>1, <2>2, <3>2, <3>7 DEF Walking
    <3> QED
      BY <1>1, <1>2, <1>3, <1>7, <2>2, <2>3, <3>8, WalkStep
  <2> QED
    BY <1>3, <2>4, <2>5
<1>8. CASE Trail!AssignPage
  <2>1. /\ at \in pages /\ at' = Trail!Parent(at) /\ red' = red \cup {at} /\ walked' = walked /\ pc' = "room"
    BY <1>8 DEF Trail!AssignPage, Trail!Eligible
  <2>2. at # Trail!Root
    BY <1>3, <2>1, UrlIsNode
  <2> QED
    BY <1>7, <2>1, <2>2
<1>9. CASE Trail!BackUp
  <2>1. /\ Trail!Candidates(at) = {} /\ red' = red \cup {at} /\ walked' = walked /\ assigned' = assigned
        /\ IF at = Trail!Root THEN pc' = "turn" /\ at' = at ELSE at' = Trail!Parent(at) /\ pc' = pc
    BY <1>9 DEF Trail!BackUp
  <2>2. CASE at # Trail!Root
    BY <1>1, <1>7, <2>1, <2>2
  <2>3. CASE at = Trail!Root
    <3>1. pc' = "turn" /\ at' = Trail!Root /\ Trail!Root \in red' /\ Here' = Trail!Root
      BY <1>2, <1>4, <2>1, <2>3 DEF Here
    <3>2. Toured'
      <4>1. CASE skipped = TRUE
        BY <1>1, <1>2, <2>1, <4>1, TouredGoesOn
      <4>2. CASE skipped = FALSE
        <5>1. trail # << >>
          <6>1. Under(at, children) # {}
            BY <1>3, <2>3
          <6>2. Under(at, children) \subseteq red \cup assigned
            BY <2>1, SameTree DEF Trail!Candidates
          <6> QED
            BY <1>2, <6>1, <6>2 DEF Fresh
        <5>2. Ended(trail', walked', Trail!Root, 0, children')
          BY <1>1, <1>2, <2>1, <2>3, <4>2, <5>1, WalkStops
        <5>3. Fits(Trail!Root, 0)'
          BY DEF Fits
        <5> QED
          BY <5>2, <5>3 DEF Toured
      <4> QED
        BY <1>3, <4>1, <4>2
    <3>3. Walking'
      BY <1>1, <1>2, <1>5, <2>3, <3>1, <3>2 DEF Walking
    <3> QED
      BY <1>1, <1>2, <1>3, <2>1, <3>1, <3>3, WalkStep
  <2> QED
    BY <2>2, <2>3
<1> QED
  BY <1>6, <1>8, <1>9

\* A crawler's turn begins, and ends when it is full.
LEMMA TurnTrail ==
  ASSUME TrailType, TrailState, Trail!Run \/ Trail!Fill \/ Trail!CheckRoom
  PROVE  TrailType' /\ TrailState'
<1>1. /\ UNCHANGED <<pages, children, red, assigned, trail, crumb, walked, drawn, fault>>
      /\ pages # {} /\ fault = "none"
  BY DEF Trail!Run, Trail!Fill, Trail!CheckRoom, TrailState
<1>2. /\ pages \subseteq TrailUrls /\ IsTree(children) /\ Trail!Root \in Trail!Nodes
      /\ walked \in Seq(Edge) /\ trail \in Seq(Crumbs(children)) /\ skipped \in BOOLEAN
  BY <1>1, UrlIsNode DEF TrailType
<1>3. \A m \in Trail!Nodes : m # NoNode
  BY NodeIsSequence
<1>4. CASE Trail!Run
  <2>1. pc = "schedule" /\ pc' = "turn" /\ UNCHANGED <<at, skipped>>
    BY <1>4 DEF Trail!Run
  <2>2. trail = << >> /\ at = NoNode /\ drawn = << >> /\ Fresh
    BY <2>1 DEF TrailState
  <2>3. Here' = Trail!Root /\ Fresh' /\ Grown(Trail!Root, children)
    BY <1>1, <2>1, <2>2 DEF Here, Fresh, Grown
  <2>4. OnTour(<< >>, Trail!Root, << >>, children)
    BY <1>2, WalkBegins
  <2>5. Walking'
    BY <1>1, <1>2, <2>1, <2>2, <2>3, <2>4 DEF Walking, Fresh
  <2> QED
    BY <1>1, <1>2, <2>1, <2>5, WalkStep
<1>5. CASE Trail!Fill
  <2>1. /\ pc = "turn" /\ at' = Here /\ UNCHANGED skipped
        /\ IF Trail!Root \in red THEN pc' = "turn" ELSE pc' = "room"
    BY <1>5 DEF Trail!Fill, Here
  <2>2. Walking
    BY <2>1 DEF TrailState
  <2>3. Here' = Here /\ Here \in Trail!Nodes
    BY <1>3, <2>1, <2>2 DEF Here, Walking
  <2>4. Walking'
    <3>1. Toured' = Toured
      BY <1>1, <2>1 DEF Toured, Fits
    <3> QED
      BY <1>1, <2>1, <2>2, <2>3, <3>1 DEF Walking, Fresh
  <2> QED
    BY <1>1, <1>2, <1>3, <2>1, <2>3, <2>4, WalkStep
<1>6. CASE Trail!CheckRoom
  <2>1. /\ pc = "room"
        /\ IF room = 0 THEN at' = Trail!Parent(at) /\ pc' = "turn" /\ skipped' = (skipped \/ at # Trail!Root)
           ELSE pc' = "select" /\ at' = at /\ skipped' = skipped
    BY <1>6 DEF Trail!CheckRoom
  <2>2. Walking /\ Trail!Root \notin red /\ at # NoNode
    BY <2>1 DEF TrailState
  <2>3. at = Here /\ at \in Trail!Nodes /\ Grown(at, children)
    BY <2>2 DEF Here, Walking
  <2>4. CASE room # 0 \/ at = Trail!Root
    <3>1. skipped' = skipped /\ Here' = at /\ (pc' = "select" => at' = at) /\ pc' \in {"select", "turn"}
      <4>1. CASE room # 0
        BY <1>2, <2>1, <2>2, <4>1 DEF Here
      <4>2. CASE room = 0 /\ at = Trail!Root
        BY <1>2, <2>1, <2>2, <4>2 DEF Here, Trail!Parent
      <4> QED
        BY <2>4, <4>1, <4>2
    <3>2. Toured' = Toured
      BY <1>1, <3>1 DEF Toured, Fits
    <3>3. Walking'
      BY <1>1, <2>1, <2>2, <2>3, <3>1, <3>2 DEF Walking, Fresh
    <3> QED
      BY <1>1, <1>2, <2>1, <2>2, <3>1, <3>3, WalkStep
  <2>5. CASE room = 0 /\ at # Trail!Root
    <3>1. skipped' = TRUE /\ at' = Trail!Parent(at) /\ pc' = "turn"
      BY <2>1, <2>5
    <3>2. at' \in Trail!Nodes /\ Grown(at', children)
      BY <1>2, <2>3, <2>5, <3>1, AboveFacts
    <3>3. Here' = at'
      BY <1>3, <3>2 DEF Here
    <3>4. trail # << >>
      <4>1. CASE skipped = TRUE
        BY <2>2, <4>1 DEF Walking, Fresh
      <4>2. CASE skipped = FALSE
        <5>1. OnTour(trail, at, walked, children)
          BY <2>2, <2>3, <4>2 DEF Walking
        <5> QED
          BY <1>2, <2>5, <5>1, HereFacts
      <4> QED
        BY <1>2, <4>1, <4>2
    <3>5. Toured'
      <4>1. Toured
        BY <2>1, <2>2, <3>4 DEF Walking
      <4>2. PICK end, e : Fits(end, e) /\ Ended(trail, walked, end, e, children)
        BY <4>1 DEF Toured
      <4>3. Fits(end, e)'
        BY <3>1, <4>2 DEF Fits
      <4>4. Ended(trail', walked', end, e, children')
        BY <1>1, <4>2
      <4> QED
        BY <4>3, <4>4 DEF Toured
    <3>6. Walking'
      BY <1>1, <2>2, <3>1, <3>2, <3>3, <3>4, <3>5 DEF Walking, Fresh
    <3> QED
      BY <1>1, <1>2, <3>1, <3>6, WalkStep
  <2> QED
    BY <2>4, <2>5
<1> QED
  BY <1>4, <1>5, <1>6

\* The printer gathers the crumbs of a node.
LEMMA DrawNodeTrail ==
  ASSUME TrailType, TrailState, Trail!DrawNode
  PROVE  TrailType' /\ TrailState'
<1> DEFINE g == Trail!Gathered
<1>1. /\ pc = "print" /\ fault = "none"
      /\ UNCHANGED <<pages, children, red, assigned, turn, room, at, skipped, walked, drawn>>
  BY Zenon DEF Trail!DrawNode
<1>2. /\ pages # {} /\ at \in Trail!Nodes
      /\ \/ \E end, e : Fits(end, e) /\ AtPrint(trail, at, walked, drawn, end, e, children)
         \/ trail = << >> /\ drawn = walked
         \/ Astray
  BY <1>1 DEF TrailState
<1>3. trail \in Seq(Crumbs(children)) /\ drawn \in Seq(Edge) /\ g \in {1, 2} /\ Len(trail) \in Nat
  BY DEF TrailType, Trail!Gathered
<1>4. Astray' = Astray
  BY <1>1 DEF Astray
<1>5. CASE trail = << >>
  <2>1. ~(Len(trail) >= g)
    BY <1>3, <1>5
  <2>2. pc' = "printed" /\ fault' = fault /\ trail' = trail
    BY <1>5, <2>1 DEF Trail!DrawNode
  <2>3. drawn = walked \/ Astray
    BY <1>2, <1>5, NodeDrawn DEF Fits
  <2> QED
    BY <1>1, <1>2, <1>3, <1>4, <2>2, <2>3, PrintStep
<1>6. CASE trail # << >> /\ Len(trail) < g
  <2>1. ~(Len(trail) >= g) /\ trail # << >>
    BY <1>3, <1>6
  <2>2. pc' = pc /\ trail' = trail
    BY <1>6, <2>1 DEF Trail!DrawNode
  <2>3. Astray
    <3>1. ASSUME NEW end, NEW e, Fits(end, e), AtPrint(trail, at, walked, drawn, end, e, children)
          PROVE  FALSE
      <4>1. (at = Trail!Root => Len(trail) >= 2) /\ (at # Trail!Root => Len(trail) >= 1)
        BY <3>1, NodeDrawn DEF Fits
      <4>2. Len(trail) >= g
        BY <4>1 DEF Trail!Gathered
      <4> QED
        BY <2>1, <4>2
    <3> QED
      BY <1>2, <1>6, <3>1
  <2>4. fault' = "none" \/ Astray'
    BY <1>4, <2>3
  <2> QED
    BY <1>1, <1>2, <1>3, <1>4, <2>2, <2>3, PrintStep
<1>7. CASE trail # << >> /\ ~(Len(trail) < g)
  <2>1. Len(trail) >= g
    BY <1>3, <1>7
  <2>2. /\ crumb' = trail[g] /\ trail' = SubSeq(trail, g + 1, Len(trail)) /\ pc' = "retreat"
        /\ fault' = fault
    BY <1>7, <2>1, Zenon DEF Trail!DrawNode
  <2>3. crumb' \in Crumbs(children) /\ trail' \in Seq(Crumbs(children))
    <3> DEFINE S == Crumbs(children)
    <3> HIDE DEF S, g
    <3>1. trail \in Seq(S)
      BY <1>3 DEF S
    <3>2. trail[g] \in S /\ SubSeq(trail, g + 1, Len(trail)) \in Seq(S)
      BY <1>3, <2>1, <3>1
    <3> QED
      BY <2>2, <3>2 DEF S
  <2>4. ASSUME NEW end, NEW e, Fits(end, e), AtPrint(trail, at, walked, drawn, end, e, children)
        PROVE  Fits(end, e)' /\ AtRetreat(trail', crumb', at', walked', drawn', end, e, children')
    <3>1. Fits(end, e)'
      BY <1>1, <2>4 DEF Fits
    <3>2. CASE at = Trail!Root
      <4>1. g = 2 /\ g + 1 = 3
        BY <3>2 DEF Trail!Gathered
      <4> HIDE DEF g
      <4>2. AtRetreat(SubSeq(trail, 3, Len(trail)), trail[2], at, walked, drawn, end, e, children)
        BY <2>4, <3>2, NodeDrawn DEF Fits
      <4> QED
        BY <1>1, <2>2, <3>1, <4>1, <4>2
    <3>3. CASE at # Trail!Root
      <4>1. g = 1 /\ g + 1 = 2
        BY <3>3 DEF Trail!Gathered
      <4> HIDE DEF g
      <4>2. AtRetreat(SubSeq(trail, 2, Len(trail)), trail[1], at, walked, drawn, end, e, children)
        BY <2>4, <3>3, NodeDrawn DEF Fits
      <4> QED
        BY <1>1, <2>2, <3>1, <4>1, <4>2
    <3> QED
      BY <3>2, <3>3
  <2> HIDE DEF g
  <2>5. Astray' \/ \E end, e : Fits(end, e)' /\ AtRetreat(trail', crumb', at', walked', drawn', end, e, children')
    BY <1>2, <1>4, <1>7, <2>4
  <2> QED
    BY <1>1, <1>2, <1>3, <2>2, <2>3, <2>5, PrintStep
<1> QED
  BY <1>5, <1>6, <1>7

\* It goes back as long as the crumbs are from higher up.
LEMMA RetreatTrail ==
  ASSUME TrailType, TrailState, Trail!Retreat
  PROVE  TrailType' /\ TrailState'
<1>1. /\ pc = "retreat" /\ fault = "none" /\ trail # << >> /\ crumb[1] < Len(at) - 1
      /\ crumb' = Head(trail) /\ trail' = Tail(trail) /\ at' = Trail!Parent(at)
      /\ UNCHANGED <<pages, children, red, pc, skipped, walked, drawn, fault>>
  BY DEF Trail!Retreat, Trail!Higher, Trail!PathIndex
<1>2. /\ pages # {} /\ at \in Trail!Nodes /\ crumb \in Crumbs(children)
      /\ \/ \E end, e : Fits(end, e) /\ AtRetreat(trail, crumb, at, walked, drawn, end, e, children)
         \/ Astray
  BY <1>1 DEF TrailState
<1>3. /\ trail \in Seq(Crumbs(children)) /\ drawn \in Seq(Edge) /\ walked \in Seq(Edge) /\ IsTree(children)
      /\ skipped \in BOOLEAN
  BY DEF TrailType
<1>4. Astray' = Astray
  BY <1>1 DEF Astray
<1>5. at # Trail!Root
  <2>1. PICK m \in Trail!Nodes : crumb = CrumbIn(m, children)
    BY <1>2 DEF Crumbs
  <2>2. crumb[1] = Len(m) - 1 /\ Len(m) \in Nat
    BY <2>1, NodeIsSequence DEF CrumbIn
  <2>3. Len(Trail!Root) = 0
    BY DEF Trail!Root
  <2> QED
    BY <1>1, <2>2, <2>3
<1>6. at' \in Trail!Nodes
  BY <1>1, <1>2, <1>5, ParentIs
<1>7. crumb' \in Crumbs(children) /\ trail' \in Seq(Crumbs(children))
  <2> DEFINE S == Crumbs(children)
  <2> HIDE DEF S
  <2>1. trail \in Seq(S)
    BY <1>3 DEF S
  <2>2. Head(trail) \in S /\ Tail(trail) \in Seq(S)
    BY <1>1, <2>1
  <2> QED
    BY <1>1, <2>2 DEF S
<1>8. Astray' \/ \E end, e : Fits(end, e)' /\ AtRetreat(trail', crumb', at', walked', drawn', end, e, children')
  <2>1. ASSUME NEW end, NEW e, Fits(end, e), AtRetreat(trail, crumb, at, walked, drawn, end, e, children)
        PROVE  Astray' \/ (Fits(end, e)' /\ AtRetreat(trail', crumb', at', walked', drawn', end, e, children'))
    <3>1. Fits(end, e)' /\ e \in Nat
      BY <1>1, <2>1 DEF Fits
    <3>2. \/ AtRetreat(Tail(trail), Head(trail), Trail!Parent(at), walked, drawn, end, e, children)
          \/ e # 0 /\ drawn = walked
      BY <1>1, <1>3, <2>1, <3>1, PrinterRetreats
    <3>3. e # 0 => skipped = TRUE
      BY <1>3, <2>1 DEF Fits
    <3>4. Trail!IsPrefix(walked, walked)
      BY <1>3, SelfPrefix
    <3> QED
      BY <1>1, <1>4, <3>1, <3>2, <3>3, <3>4 DEF Astray
  <2> QED
    BY <1>2, <1>4, <2>1
<1> QED
  BY <1>1, <1>2, <1>3, <1>6, <1>7, <1>8, PrintStep

\* And on to a child, whose edge it draws, or to the end.
LEMMA ForwardTrail ==
  ASSUME TrailType, TrailState, Trail!Forward
  PROVE  TrailType' /\ TrailState'
<1>1. /\ pc = "retreat" /\ fault = "none" /\ ~(trail # << >> /\ crumb[1] < Len(at) - 1)
      /\ UNCHANGED <<pages, children, red, skipped, trail, crumb, walked>>
  BY Zenon DEF Trail!Forward, Trail!Higher, Trail!PathIndex
<1>2. /\ pages # {} /\ at \in Trail!Nodes /\ crumb \in Crumbs(children)
      /\ \/ \E end, e : Fits(end, e) /\ AtRetreat(trail, crumb, at, walked, drawn, end, e, children)
         \/ Astray
  BY <1>1 DEF TrailState
<1>3. /\ trail \in Seq(Crumbs(children)) /\ drawn \in Seq(Edge) /\ walked \in Seq(Edge) /\ IsTree(children)
      /\ skipped \in BOOLEAN
  BY DEF TrailType
<1>4. CASE trail = << >>
  <2>1. pc' = "printed" /\ drawn' = drawn /\ fault' = fault /\ at' = at
    BY <1>4 DEF Trail!Forward
  <2>2. Astray' = Astray
    BY <1>1, <2>1 DEF Astray
  <2>3. ASSUME NEW end, NEW e, Fits(end, e), AtRetreat(trail, crumb, at, walked, drawn, end, e, children)
        PROVE  drawn = walked \/ (drawn = Trail!Front(walked) /\ (skipped = TRUE \/ Trail!Root \notin red))
    <3>1. drawn = walked \/ (end # Trail!Root /\ drawn = Trail!Front(walked))
      BY <1>3, <1>4, <2>3, DrawingEnds DEF Fits
    <3> QED
      BY <1>3, <2>3, <3>1 DEF Fits
  <2>4. \/ Astray' \/ drawn' = walked'
        \/ drawn' = Trail!Front(walked') /\ (skipped' = TRUE \/ Trail!Root \notin red')
    BY <1>1, <1>2, <2>1, <2>2, <2>3
  <2> QED
    BY <1>1, <1>2, <1>3, <2>1, <2>4, PrintStep
<1>5. CASE trail # << >> /\ crumb[2] + 1 \notin DOMAIN children[at]
  <2>1. UNCHANGED <<at, pc, drawn>>
    BY <1>5 DEF Trail!Forward
  <2>2. Astray' = Astray
    BY <1>1, <2>1 DEF Astray
  <2>3. ASSUME NEW end, NEW e, Fits(end, e), AtRetreat(trail, crumb, at, walked, drawn, end, e, children)
        PROVE  FALSE
    <3>1. PICK m : m = Named(crumb, at, children)
      OBVIOUS
    <3>2. IsTree(children) /\ walked \in Seq(Edge) /\ e \in Nat
      BY <1>3, <2>3 DEF Fits
    <3>3. trail # << >> /\ OfChild(crumb, at)
      BY <1>1, <1>5 DEF OfChild
    <3>4. crumb[2] + 1 \in DOMAIN children[at]
      BY <2>3, <3>1, <3>2, <3>3, PrinterGoesOn
    <3> QED
      BY <1>5, <3>4
  <2>4. Astray'
    BY <1>2, <2>2, <2>3
  <2> QED
    BY <1>1, <1>2, <1>3, <2>1, <2>4, PrintStep
<1>6. CASE trail # << >> /\ crumb[2] + 1 \in DOMAIN children[at]
  <2> DEFINE m == Append(at, children[at][crumb[2] + 1])
  <2>1. at' = m /\ drawn' = Append(drawn, <<at, m>>) /\ pc' = "print" /\ fault' = fault
    BY <1>6 DEF Trail!Forward, Trail!Child
  <2>2. m \in Trail!Nodes
    BY <1>2, <1>3, <1>6 DEF IsTree, Under
  <2>3. ASSUME NEW end, NEW e, Fits(end, e), AtRetreat(trail, crumb, at, walked, drawn, end, e, children)
        PROVE  \/ AtPrint(trail, m, walked, Append(drawn, <<at, m>>), end, e, children)
               \/ e # 0 /\ Append(drawn, <<at, m>>) = walked
    <3>1. IsTree(children) /\ walked \in Seq(Edge) /\ e \in Nat
      BY <1>3, <2>3 DEF Fits
    <3>2. trail # << >> /\ OfChild(crumb, at)
      BY <1>1, <1>6 DEF OfChild
    <3>3. PICK x : x = Named(crumb, at, children)
      OBVIOUS
    <3>4. Onward(trail, x, at, walked, drawn, end, e, children)
      BY <2>3, <3>1, <3>2, <3>3, PrinterGoesOn
    <3>5. x = m
      BY <3>3 DEF Named
    <3> HIDE DEF m
    <3> QED
      BY <3>4, <3>5 DEF Onward
  <2> HIDE DEF m
  <2>4. drawn' \in Seq(Edge)
    <3>1. <<at, m>> \in Edge
      BY <1>2, <2>2 DEF Edge
    <3> QED
      BY <1>3, <2>1, <3>1, EdgeGoesOn
  <2>5. ASSUME Astray PROVE Astray'
    <3>1. Trail!IsPrefix(walked, Append(drawn, <<at, m>>))
      <4>1. <<at, m>> \in Edge
        BY <1>2, <2>2 DEF Edge
      <4> QED
        BY <1>3, <2>5, <4>1, StillPrefix DEF Astray
    <3> QED
      BY <1>1, <2>1, <2>5, <3>1 DEF Astray
  <2>6. ASSUME NEW end, NEW e, Fits(end, e), AtRetreat(trail, crumb, at, walked, drawn, end, e, children)
        PROVE  Astray' \/ (Fits(end, e)' /\ AtPrint(trail', at', walked', drawn', end, e, children'))
    <3>1. Fits(end, e)'
      BY <1>1, <2>6 DEF Fits
    <3>2. CASE AtPrint(trail, m, walked, Append(drawn, <<at, m>>), end, e, children)
      BY <1>1, <2>1, <3>1, <3>2
    <3>3. CASE e # 0 /\ Append(drawn, <<at, m>>) = walked
      <4>1. skipped = TRUE
        BY <1>3, <2>6, <3>3 DEF Fits
      <4>2. Trail!IsPrefix(walked, walked)
        BY <1>3, SelfPrefix
      <4> QED
        BY <1>1, <2>1, <3>3, <4>1, <4>2 DEF Astray
    <3> QED
      BY <2>3, <2>6, <3>2, <3>3
  <2>7. Astray' \/ \E end, e : Fits(end, e)' /\ AtPrint(trail', at', walked', drawn', end, e, children')
    BY <1>2, <2>5, <2>6
  <2> QED
    BY <1>1, <1>2, <1>3, <2>1, <2>2, <2>4, <2>7, PrintStep
<1> QED
  BY <1>4, <1>5, <1>6

LEMMA NextTrail == TrailInv /\ [Next]_allVars => TrailInv'
<1> SUFFICES ASSUME TrailInv, [Next]_allVars, part' = "trail" PROVE TrailType' /\ TrailState'
  BY DEF TrailInv
<1>1. part = "trail" /\ (Trail!Next \/ UNCHANGED trailVars)
  BY DEF Next, allVars
<1>2. TrailType /\ TrailState
  BY <1>1 DEF TrailInv
<1>3. CASE UNCHANGED trailVars
  <2>1. Fresh' = Fresh /\ Here' = Here /\ Astray' = Astray /\ \A end, e : Fits(end, e)' = Fits(end, e)
    BY <1>3 DEF trailVars, Fresh, Here, Astray, Fits
  <2>2. Toured' = Toured
    BY <1>3 DEF trailVars, Toured, Fits
  <2>3. Walking' = Walking
    BY <1>3, <2>1, <2>2 DEF trailVars, Walking
  <2>4. TrailType'
    BY <1>2, <1>3 DEF trailVars, TrailType
  <2>5. TrailState'
    BY <1>2, <1>3, <2>1, <2>3 DEF trailVars, TrailState
  <2> QED
    BY <2>4, <2>5
<1>4. ASSUME NEW u \in TrailUrls, Trail!Schedule(u) PROVE TrailType' /\ TrailState'
  <2>1. /\ pc = "schedule" /\ pages' = pages \cup {u}
        /\ UNCHANGED <<red, assigned, pc, at, trail, skipped, walked, drawn, fault>>
    BY <1>4 DEF Trail!Schedule
  <2>2. children' = [n \in Trail!Nodes |-> IF Trail!IsStrictPrefix(n, u) THEN Trail!Insert(children[n], u[Len(n) + 1])
                                           ELSE children[n]]
    BY <1>4 DEF Trail!Schedule
  <2>3. IsTree(children') /\ Under(Trail!Root, children') # {}
    BY <1>2, <2>2, TreeGrows DEF TrailType
  <2>4. trail = << >> /\ trail' \in Seq(Crumbs(children'))
    BY <1>2, <2>1, NoCrumbs DEF TrailState
  <2>5. TrailType'
    BY <1>2, <2>1, <2>3, <2>4 DEF TrailType
  <2>6. TrailState'
    BY <1>2, <2>1 DEF TrailState, Fresh
  <2> QED
    BY <2>5, <2>6
<1>5. CASE Trail!Draw
  <2>1. /\ pc = "turn" /\ pc' = "print" /\ at' = Trail!Root
        /\ UNCHANGED <<pages, children, red, trail, skipped, walked, drawn, fault>>
    BY <1>5 DEF Trail!Draw
  <2>2. Walking /\ pages # {} /\ fault = "none"
    BY <1>2, <2>1 DEF TrailState
  <2>3. Trail!Root \in Trail!Nodes
    BY <1>2, <2>2, UrlIsNode DEF TrailType
  <2>4. drawn = << >> /\ Fresh
    BY <2>2 DEF Walking
  <2>5. \/ trail = << >> /\ drawn = walked
        \/ \E end, e : Fits(end, e) /\ AtPrint(trail, Trail!Root, walked, drawn, end, e, children)
    <3>1. CASE trail = << >>
      BY <2>4, <3>1 DEF Fresh
    <3>2. CASE trail # << >>
      <4>1. PICK end, e : Fits(end, e) /\ Ended(trail, walked, end, e, children)
        BY <2>1, <2>2, <3>2 DEF Walking, Toured
      <4>2. AtPrint(trail, Trail!Root, walked, << >>, end, e, children)
        BY <1>2, <4>1, DrawingBegins DEF TrailType, Fits
      <4> QED
        BY <2>4, <4>1, <4>2
    <3> QED
      BY <3>1, <3>2
  <2>6. \A end, e : Fits(end, e)' = Fits(end, e)
    BY <2>1 DEF Fits
  <2>7. \/ trail' = << >> /\ drawn' = walked'
        \/ \E end, e : Fits(end, e)' /\ AtPrint(trail', at', walked', drawn', end, e, children')
    BY <2>1, <2>5, <2>6
  <2>8. trail' \in Seq(Crumbs(children)) /\ drawn' \in Seq(Edge) /\ fault' = "none"
    BY <1>2, <2>1, <2>2 DEF TrailType
  <2> QED
    BY <1>2, <2>1, <2>2, <2>3, <2>7, <2>8, PrintStep
<1> QED
  BY <1>1, <1>2, <1>3, <1>4, <1>5, TurnTrail, SelectTrail, DrawNodeTrail, RetreatTrail, ForwardTrail DEF Trail!Next

\* Whatever the crawlers take, the edges drawn are those the walk went down, in their order, as
\* far as it had dropped a crumb at every node; the printer goes astray, and its assertion
\* fails, past them only (utility/NodeIO.cpp:96-144, sched/Scheduler.cpp:119-143, 206-231).
THEOREM TheWalkIsDrawn == Spec => []DrawnAsWalked
<1>1. TrailInv => DrawnAsWalked
  <2> SUFFICES ASSUME TrailInv, part = "trail" PROVE Trail!DrawnAsWalked
    BY DEF DrawnAsWalked
  <2>1. TrailType /\ TrailState
    BY DEF TrailInv
  <2>2. IsTree(children) /\ walked \in Seq(Edge) /\ drawn \in Seq(Edge) /\ skipped \in BOOLEAN
    BY <2>1 DEF TrailType
  <2>3. /\ Trail!IsPrefix(walked, walked) /\ Trail!IsPrefix(<< >>, walked)
        /\ Trail!IsPrefix(Trail!Front(walked), walked)
        /\ Trail!IsPrefix(walked, drawn) => Trail!IsPrefix(Trail!Front(walked), drawn)
    BY <2>2, SelfPrefix, FrontPrefix
  <2>4. fault = "none" \/ Astray
    BY <2>1 DEF TrailState
  <2>5. Trail!IsPrefix(drawn, walked) \/ Astray
    <3>1. CASE pc \in {"schedule", "turn", "room", "select"}
      <4>1. drawn = << >>
        BY <2>1, <3>1 DEF TrailState, Walking
      <4> QED
        BY <2>3, <4>1
    <3>2. CASE pc = "print"
      <4>1. \/ \E end, e : Fits(end, e) /\ AtPrint(trail, at, walked, drawn, end, e, children)
            \/ drawn = walked \/ Astray
        BY <2>1, <3>2 DEF TrailState
      <4> QED
        BY <2>2, <2>3, <4>1, DrawnSoFar DEF Fits
    <3>3. CASE pc = "retreat"
      <4>1. \/ \E end, e : Fits(end, e) /\ AtRetreat(trail, crumb, at, walked, drawn, end, e, children)
            \/ Astray
        BY <2>1, <3>3 DEF TrailState
      <4> QED
        BY <2>2, <4>1, DrawnSoFar DEF Fits
    <3>4. CASE pc = "printed"
      <4>1. drawn = walked \/ drawn = Trail!Front(walked) \/ Astray
        BY <2>1, <3>4 DEF TrailState
      <4> QED
        BY <2>3, <4>1
    <3> QED
      BY <2>1, <3>1, <3>2, <3>3, <3>4 DEF TrailType
  <2>6. ASSUME pc = "printed"
        PROVE  /\ Trail!IsPrefix(Trail!Front(walked), drawn)
               /\ Trail!Root \in red /\ skipped = FALSE => drawn = walked
    <3>1. \/ drawn = walked
          \/ drawn = Trail!Front(walked) /\ (skipped = TRUE \/ Trail!Root \notin red)
          \/ Astray
      BY <2>1, <2>6 DEF TrailState
    <3>2. Trail!IsPrefix(Trail!Front(walked), Trail!Front(walked))
      BY <2>2, FrontPrefix
    <3> QED
      BY <2>3, <3>1, <3>2 DEF Astray
  <2>7. Astray => skipped /\ Trail!IsPrefix(walked, drawn)
    BY DEF Astray
  <2>8. ~skipped => skipped = FALSE
    BY <2>2
  <2> QED
    BY <2>4, <2>5, <2>6, <2>7, <2>8, Zenon DEF Trail!DrawnAsWalked, Trail!CrumbIsAChild
<1> QED
  BY InitTrail, NextTrail, <1>1, PTL DEF Spec, allVars

-------------------------------------------------------------------------------
(* URLs: text and where it stands *)

\* The characters of w from a position on are those of s.
StandsAt(w, p, s) ==
  /\ p + Len(s) <= Len(w) + 1
  /\ \A k \in 1..Len(s) : w[p + k - 1] = s[k]

LEMMA CatType == ASSUME NEW x \in Parser!Text, NEW y \in Parser!Text PROVE x \o y \in Parser!Text /\ Len(x \o y) = Len(x) + Len(y)
BY DEF Parser!Text

LEMMA StandsCat ==
  ASSUME NEW w \in Parser!Text, NEW p \in Nat \ {0}, NEW x \in Parser!Text, NEW y \in Parser!Text, StandsAt(w, p, x \o y)
  PROVE  StandsAt(w, p, x) /\ StandsAt(w, p + Len(x), y)
<1>1. Len(x) \in Nat /\ Len(y) \in Nat /\ Len(x \o y) = Len(x) + Len(y) /\ Len(w) \in Nat
  BY DEF Parser!Text
<1>2. ASSUME NEW k \in 1..Len(x) PROVE w[p + k - 1] = x[k]
  <2>1. (x \o y)[k] = x[k]
    BY DEF Parser!Text
  <2>2. k \in 1..Len(x \o y)
    BY <1>1
  <2> QED
    BY <2>1, <2>2 DEF StandsAt
<1>3. ASSUME NEW k \in 1..Len(y) PROVE w[p + Len(x) + k - 1] = y[k]
  <2>1. (x \o y)[Len(x) + k] = y[k]
    BY DEF Parser!Text
  <2>2. Len(x) + k \in 1..Len(x \o y)
    BY <1>1
  <2>3. w[p + (Len(x) + k) - 1] = (x \o y)[Len(x) + k]
    BY <2>2 DEF StandsAt
  <2>4. p + (Len(x) + k) - 1 = p + Len(x) + k - 1
    BY <1>1
  <2> QED
    BY <2>1, <2>3, <2>4
<1>4. p + Len(x \o y) <= Len(w) + 1
  BY DEF StandsAt
<1>5. p + Len(x) <= Len(w) + 1 /\ p + Len(x) + Len(y) <= Len(w) + 1
  BY <1>1, <1>4
<1> QED
  BY <1>2, <1>3, <1>5 DEF StandsAt

\* Searches
LEMMA FirstIs ==
  ASSUME url \in Parser!Text, NEW chars, NEW p \in Nat \ {0}, NEW q \in p..Len(url) + 1,
         \A k \in p..q - 1 : url[k] \notin chars, q <= Len(url) => url[q] \in chars
  PROVE  Parser!FirstOf(chars, p) = q
<1>1. Len(url) \in Nat
  BY DEF Parser!Text
<1> DEFINE S == {k \in p..Len(url) : url[k] \in chars} \cup {Len(url) + 1}
<1>2. q \in S
  BY <1>1
<1>3. ASSUME NEW k \in S PROVE q <= k
  <2>1. CASE k = Len(url) + 1
    BY <1>1, <2>1
  <2>2. CASE k # Len(url) + 1
    <3>1. k \in p..Len(url) /\ url[k] \in chars
      BY <2>2
    <3>2. ~ (k \in p..q - 1)
      BY <3>1
    <3> QED
      BY <1>1, <3>1, <3>2
  <2> QED
    BY <2>1, <2>2
<1>4. \A k \in S : k \in Nat
  BY <1>1
<1>5. Parser!Min(S) = q
  <2>1. \A k \in S : k <= q /\ q <= k => k = q
    BY <1>4
  <2> HIDE DEF S
  <2> QED
    BY <1>2, <1>3, <2>1 DEF Parser!Min
<1> QED
  BY <1>5 DEF Parser!FirstOf

\* A search finds the first one.
LEMMA FirstFound ==
  ASSUME url \in Parser!Text, NEW chars, NEW p \in 1..Len(url) + 1
  PROVE  /\ Parser!FirstOf(chars, p) \in p..Len(url) + 1
         /\ \A k \in p..Parser!FirstOf(chars, p) - 1 : url[k] \notin chars
         /\ Parser!FirstOf(chars, p) <= Len(url) => url[Parser!FirstOf(chars, p)] \in chars
<1>1. Len(url) \in Nat /\ p \in Nat \ {0}
  BY DEF Parser!Text
<1> DEFINE S == {k \in p..Len(url) : url[k] \in chars} \cup {Len(url) + 1}
<1>2. S \in SUBSET Nat /\ S # {}
  BY <1>1
<1>3. PICK q \in S : \A k \in S : q <= k
  <2> HIDE DEF S
  <2> QED
    BY <1>2, LeastNumber
<1>4. q \in p..Len(url) + 1
  BY <1>1
<1>5. ASSUME NEW k \in p..q - 1 PROVE url[k] \notin chars
  <2>1. k \in p..Len(url) /\ ~ (q <= k)
    BY <1>1, <1>4
  <2>2. k \notin S
    BY <1>3, <2>1
  <2> QED
    BY <2>1, <2>2
<1>6. q <= Len(url) => url[q] \in chars
  BY <1>1
<1>7. Parser!FirstOf(chars, p) = q
  BY <1>1, <1>4, <1>5, <1>6, FirstIs
<1> QED
  BY <1>4, <1>5, <1>6, <1>7

LEMMA LastIs ==
  ASSUME url \in Parser!Text, NEW chars, NEW p \in Nat, NEW q \in Nat, q <= p, q <= Len(url),
         \A k \in 1..Len(url) : q < k /\ k <= p => url[k] \notin chars, q # 0 => url[q] \in chars
  PROVE  Parser!LastOf(chars, p) = q
<1>1. Len(url) \in Nat
  BY DEF Parser!Text
<1> DEFINE S == {k \in 1..Len(url) : k <= p /\ url[k] \in chars} \cup {0}
<1>2. q \in S
  BY <1>1
<1>3. ASSUME NEW k \in S PROVE k <= q
  <2>1. CASE k = 0
    BY <1>1, <2>1
  <2>2. CASE k # 0
    <3>1. k \in 1..Len(url) /\ k <= p /\ url[k] \in chars
      BY <2>2
    <3>2. ~ (q < k)
      BY <3>1
    <3> QED
      BY <1>1, <3>1, <3>2
  <2> QED
    BY <2>1, <2>2
<1>4. \A k \in S : k \in Nat
  BY <1>1
<1>5. Parser!Max(S) = q
  <2>1. \A k \in S : k <= q /\ q <= k => k = q
    BY <1>4
  <2> HIDE DEF S
  <2> QED
    BY <1>2, <1>3, <1>4, <2>1 DEF Parser!Max
<1> QED
  BY <1>5 DEF Parser!LastOf

-------------------------------------------------------------------------------
(* Parts with a delimiter between them *)

-------------------------------------------------------------------------------
(* URLs: parts with a delimiter between them, as they are written *)

Glued(q, n, s, d) == q \o (IF n = 1 THEN Parser!Empty ELSE d) \o s

LEMMA GluedType ==
  ASSUME NEW q \in Parser!Text, NEW n, NEW s \in Parser!Text, NEW d \in Parser!Text
  PROVE  Glued(q, n, s, d) \in Parser!Text
<1> DEFINE e == IF n = 1 THEN Parser!Empty ELSE d
<1>1. e \in Parser!Text
  <2>1. Parser!Empty \in Parser!Text
    BY DEF Parser!Empty, Parser!Text
  <2> QED
    BY <2>1
<1> HIDE DEF e
<1>2. (q \o e) \o s \in Parser!Text
  BY <1>1 DEF Parser!Text
<1> QED
  BY <1>2 DEF Glued, e

GluesUp(f, parts, d) ==
  /\ f \in [0..Len(parts) -> Parser!Text]
  /\ f[0] = Parser!Empty
  /\ \A k \in 1..Len(parts) : f[k] = Glued(f[k - 1], k, parts[k], d)

LEMMA BetweenDef ==
  ASSUME NEW parts \in Seq(Parser!Text), NEW d \in Parser!Text
  PROVE  \E f : GluesUp(f, parts, d) /\ Parser!Between(parts, d) = f[Len(parts)]
<1> DEFINE n == Len(parts)
           step == [ks \in Nat \X Parser!Text |-> IF ks[1] \in 1..n THEN Glued(ks[2], ks[1], parts[ks[1]], d) ELSE Parser!Empty]
           Value(f, k) == IF k = 0 THEN Parser!Empty ELSE f[k - 1] \o (IF k = 1 THEN Parser!Empty ELSE d) \o parts[k]
           Solved(f) == f = [k \in 0..n |-> Value(f, k)]
<1>1. n \in Nat /\ Parser!Empty \in Parser!Text /\ \A k \in 1..n : parts[k] \in Parser!Text
  BY DEF Parser!Text, Parser!Empty
<1>2. IsStep(step, Parser!Text)
  <2>1. ASSUME NEW k \in Nat, NEW s \in Parser!Text PROVE (IF k \in 1..n THEN Glued(s, k, parts[k], d) ELSE Parser!Empty) \in Parser!Text
    BY <1>1, GluedType
  <2> HIDE DEF n
  <2> QED
    BY <2>1 DEF IsStep
<1>3. \A k \in 1..n, s \in Parser!Text : step[k, s] = Glued(s, k, parts[k], d)
  <2> SUFFICES ASSUME NEW k \in 1..n, NEW s \in Parser!Text PROVE step[k, s] = Glued(s, k, parts[k], d)
    BY Zenon
  <2>1. <<k, s>> \in Nat \X Parser!Text /\ <<k, s>>[1] = k /\ <<k, s>>[2] = s
    BY <1>1
  <2>2. step[<<k, s>>] = Glued(s, k, parts[k], d)
    BY <2>1
  <2> QED
    BY <2>2, Zenon
<1> HIDE DEF step, n
<1>13. \E f : Stepped(f, n, Parser!Text, Parser!Empty, step)
  <2>1. n \in Nat
    BY <1>1
  <2>2. Parser!Empty \in Parser!Text
    BY <1>1
  <2> QED
    BY <1>2, <2>1, <2>2, StepsExist
<1>4. PICK f \in [0..n -> Parser!Text] : f[0] = Parser!Empty /\ \A k \in 1..n : f[k] = step[k, f[k - 1]]
  BY <1>13, Zenon DEF Stepped
<1>5. ASSUME NEW k \in 1..n PROVE f[k] = Glued(f[k - 1], k, parts[k], d)
  <2>1. k - 1 \in 0..n
    BY <1>1
  <2>2. f[k - 1] \in Parser!Text
    BY <1>4, <2>1, Zenon
  <2> QED
    BY <1>3, <1>4, <2>2, Zenon
<1>6. Solved(f)
  <2>1. ASSUME NEW k \in 0..n PROVE f[k] = Value(f, k)
    <3>1. CASE k = 0
      BY <1>4, <3>1, Zenon
    <3>2. CASE k # 0
      <4>1. k \in 1..n
        BY <1>1, <3>2
      <4> QED
        BY <1>5, <3>2, <4>1 DEF Glued
    <3> QED
      BY <3>1, <3>2
  <2> QED
    BY <1>4, <2>1, Zenon
<1> HIDE DEF Solved
<1>7. Solved(CHOOSE g : Solved(g))
  BY <1>6
<1> DEFINE g == CHOOSE g : Solved(g)
<1>8. Parser!Between(parts, d) = g[n]
  BY DEF Parser!Between, Solved, n
<1> HIDE DEF g
<1>9. Solved(g)
  BY <1>7 DEF g
<1>10. g[0] = Parser!Empty /\ \A k \in 1..n : g[k] = Glued(g[k - 1], k, parts[k], d)
  <2>1. g = [k \in 0..n |-> Value(g, k)]
    BY <1>9 DEF Solved
  <2>2. 0 \in 0..n /\ \A k \in 1..n : k \in 0..n /\ k # 0
    BY <1>1
  <2> QED
    BY <2>1, <2>2 DEF Glued
<1>11. \A k \in 0..n : g[k] = f[k]
  <2>1. n \in Nat
    BY <1>1
  <2>2. Alike(g, f, n)
    BY <1>4, <1>5, <1>10, Zenon DEF Alike
  <2> QED
    BY <2>1, <2>2, StepsAgree
<1>12. GluesUp(f, parts, d) /\ n \in 0..n
  <2>1. n \in 0..n
    BY <1>1
  <2> QED
    BY <2>1, <1>4, <1>5, Zenon DEF GluesUp, n
<1> QED
  BY <1>8, <1>11, <1>12 DEF n

Begins(q, r) == Len(q) <= Len(r) /\ \A k \in 1..Len(q) : r[k] = q[k]

LEMMA GluesAgree ==
  ASSUME NEW parts \in Seq(Parser!Text), NEW more \in Seq(Parser!Text), NEW d, Begins(parts, more),
         NEW f, NEW g, GluesUp(f, parts, d), GluesUp(g, more, d)
  PROVE  \A k \in 0..Len(parts) : f[k] = g[k]
<1>1. Len(parts) \in Nat /\ Len(more) \in Nat
  OBVIOUS
<1>2. \A k \in 1..Len(parts) : k \in 1..Len(more)
  BY <1>1 DEF Begins
<1>3. Alike(f, g, Len(parts))
  BY <1>2 DEF GluesUp, Alike, Begins
<1> QED
  BY <1>1, <1>3, StepsAgree

\* What a sequence of parts is written as, one part more at a time.
LEMMA BetweenFacts ==
  ASSUME NEW parts \in Seq(Parser!Text), NEW d \in Parser!Text
  PROVE  /\ Parser!Between(parts, d) \in Parser!Text
         /\ Len(parts) = 0 => Parser!Between(parts, d) = Parser!Empty
         /\ \A n \in 1..Len(parts) :
              Parser!Between(SubSeq(parts, 1, n), d) = Glued(Parser!Between(SubSeq(parts, 1, n - 1), d), n, parts[n], d)
<1>1. PICK f : GluesUp(f, parts, d) /\ Parser!Between(parts, d) = f[Len(parts)]
  BY BetweenDef
<1>2. Len(parts) \in Nat
  OBVIOUS
<1>3. ASSUME NEW n \in 0..Len(parts) PROVE Parser!Between(SubSeq(parts, 1, n), d) = f[n]
  <2> DEFINE few == SubSeq(parts, 1, n)
  <2>1. few \in Seq(Parser!Text) /\ Len(few) = n /\ \A k \in 1..n : parts[k] = few[k]
    BY <1>2
  <2> HIDE DEF few
  <2>2. PICK g : GluesUp(g, few, d) /\ Parser!Between(few, d) = g[Len(few)]
    BY <2>1, BetweenDef
  <2>3. \A k \in 0..Len(few) : g[k] = f[k]
    <3>1. Begins(few, parts)
      BY <1>2, <2>1 DEF Begins
    <3> QED
      BY <1>1, <2>1, <2>2, <3>1, GluesAgree
  <2>4. n \in 0..n
    OBVIOUS
  <2> QED
    BY <2>1, <2>2, <2>3, <2>4 DEF few
<1>4. ASSUME NEW n \in 1..Len(parts)
      PROVE  Parser!Between(SubSeq(parts, 1, n), d) = Glued(Parser!Between(SubSeq(parts, 1, n - 1), d), n, parts[n], d)
  <2>1. n \in 0..Len(parts) /\ n - 1 \in 0..Len(parts)
    BY <1>2
  <2> QED
    BY <1>1, <1>3, <2>1 DEF GluesUp
<1>5. Len(parts) \in 0..Len(parts)
  BY <1>2
<1> QED
  BY <1>1, <1>4, <1>5 DEF GluesUp

-------------------------------------------------------------------------------
(* Where the parts stand, and how they are cut out again *)

LEMMA OneElement == ASSUME NEW S, NEW e \in S PROVE <<e>> \in Seq(S) /\ Len(<<e>>) = 1 /\ <<e>>[1] = e
OBVIOUS

LEMMA OneChar == ASSUME NEW d \in Parser!Character PROVE <<d>> \in Parser!Text /\ Len(<<d>>) = 1 /\ <<d>>[1] = d
BY OneElement DEF Parser!Text

GluedAt(w, p, q, n, s, d) ==
  /\ StandsAt(w, p, q)
  /\ n = 1 => StandsAt(w, p, s) /\ Len(Glued(q, n, s, <<d>>)) = Len(s)
  /\ n # 1 => /\ w[p + Len(q)] = d
              /\ StandsAt(w, p + Len(q) + 1, s)
              /\ Len(Glued(q, n, s, <<d>>)) = Len(q) + 1 + Len(s)

LEMMA GluedStands ==
  ASSUME NEW w \in Parser!Text, NEW p \in Nat \ {0}, NEW q \in Parser!Text, NEW n \in Nat, NEW s \in Parser!Text, NEW d \in Parser!Character,
         n = 1 => q = Parser!Empty, StandsAt(w, p, Glued(q, n, s, <<d>>))
  PROVE  GluedAt(w, p, q, n, s, d)
<1>1. Len(q) \in Nat /\ Len(s) \in Nat /\ Len(w) \in Nat
  BY DEF Parser!Text
<1>2. CASE n = 1
  <2>1. Glued(q, n, s, <<d>>) = s
    BY <1>2 DEF Glued, Parser!Empty, Parser!Text
  <2>2. StandsAt(w, p, Parser!Empty)
    BY <1>1, <2>1 DEF StandsAt, Parser!Empty
  <2> QED
    BY <1>2, <2>1, <2>2 DEF GluedAt
<1>3. CASE n # 1
  <2>1. <<d>> \in Parser!Text /\ Len(<<d>>) = 1 /\ <<d>>[1] = d
    BY OneChar
  <2>2. q \o <<d>> \in Parser!Text /\ Len(q \o <<d>>) = Len(q) + 1
    BY <2>1, CatType
  <2>3. Glued(q, n, s, <<d>>) = (q \o <<d>>) \o s
    BY <1>3 DEF Glued
  <2>4. StandsAt(w, p, q \o <<d>>) /\ StandsAt(w, p + Len(q \o <<d>>), s)
    <3>1. StandsAt(w, p, (q \o <<d>>) \o s)
      BY <2>3
    <3>2. q \o <<d>> \in Parser!Text
      BY <2>2
    <3> QED
      BY <3>1, <3>2, StandsCat
  <2>5. StandsAt(w, p, q) /\ StandsAt(w, p + Len(q), <<d>>)
    BY <2>1, <2>4, StandsCat
  <2>6. w[p + Len(q)] = d
    <3>3. 1 \in 1..Len(<<d>>) /\ <<d>>[1] = d
      BY <2>1
    <3>1. w[p + Len(q) + 1 - 1] = d
      BY <3>3, <2>5 DEF StandsAt
    <3>2. p + Len(q) + 1 - 1 = p + Len(q)
      BY <1>1
    <3> QED
      BY <3>1, <3>2
  <2>7. p + Len(q \o <<d>>) = p + Len(q) + 1
    BY <1>1, <2>2
  <2>8. Len((q \o <<d>>) \o s) = Len(q) + 1 + Len(s)
    BY <2>2, CatType
  <2> QED
    BY <1>3, <2>3, <2>4, <2>5, <2>6, <2>7, <2>8 DEF GluedAt
<1> QED
  BY <1>2, <1>3

\* c holds where each of the parts ends.
Placed(c, parts, p, d) ==
  /\ c \in [0..Len(parts) -> Nat]
  /\ c[0] = p - 1
  /\ \A k \in 1..Len(parts) :
       /\ c[k] = c[k - 1] + 1 + Len(parts[k])
       /\ \A x \in 1..Len(parts[k]) : url[c[k - 1] + x] = parts[k][x]
  /\ \A k \in 1..Len(parts) - 1 : url[c[k]] = d
  /\ c[Len(parts)] <= Len(url) + 1

LEMMA PartsPlaced ==
  ASSUME url \in Parser!Text, NEW parts \in Seq(Parser!Text), NEW d \in Parser!Character, NEW p \in Nat \ {0}, Len(parts) # 0,
         StandsAt(url, p, Parser!Between(parts, <<d>>))
  PROVE  \E c : Placed(c, parts, p, d) /\ c[Len(parts)] = p + Len(Parser!Between(parts, <<d>>))
<1> DEFINE n == Len(parts)
           B(k) == Parser!Between(SubSeq(parts, 1, k), <<d>>)
<1>1. n \in Nat \ {0} /\ <<d>> \in Parser!Text /\ Len(url) \in Nat
  <2>1. <<d>> \in Parser!Text
    BY OneChar
  <2>2. Len(url) \in Nat
    BY DEF Parser!Text
  <2> QED
    BY <2>1, <2>2
<1>2. SubSeq(parts, 1, n) = parts
  OBVIOUS
<1>3. ASSUME NEW k \in 0..n PROVE SubSeq(parts, 1, k) \in Seq(Parser!Text) /\ Len(SubSeq(parts, 1, k)) = k
  BY <1>1
<1>4. ASSUME NEW k \in 0..n PROVE B(k) \in Parser!Text /\ Len(B(k)) \in Nat /\ (k = 0 => B(k) = Parser!Empty)
  <2>1. B(k) \in Parser!Text /\ (k = 0 => B(k) = Parser!Empty)
    BY <1>1, <1>3, BetweenFacts
  <2> QED
    BY <2>1 DEF Parser!Text
<1>5. ASSUME NEW k \in 1..n
      PROVE  /\ B(k) = Glued(B(k - 1), k, parts[k], <<d>>) /\ k - 1 \in 0..n
             /\ (k = 1 => B(k - 1) = Parser!Empty) /\ parts[k] \in Parser!Text /\ Len(parts[k]) \in Nat
  <2>1. B(k) = Glued(B(k - 1), k, parts[k], <<d>>)
    BY <1>1, BetweenFacts
  <2>2. parts[k] \in Parser!Text
    OBVIOUS
  <2>3. k - 1 \in 0..n
    BY <1>1
  <2>4. Len(parts[k]) \in Nat
    BY <2>2 DEF Parser!Text
  <2> HIDE DEF B
  <2> QED
    BY <1>4, <2>1, <2>2, <2>3, <2>4
<1> HIDE DEF B
<1>6. \A j \in 0..n : StandsAt(url, p, B(n - j))
  <2> DEFINE S == {j \in 0..n : StandsAt(url, p, B(n - j))}
  <2>1. 0 \in S
    <3>1. n - 0 = n /\ 0 \in 0..n
      BY <1>1
    <3>2. StandsAt(url, p, B(n))
      BY <1>2 DEF B
    <3> QED
      BY <3>1, <3>2
  <2>2. ASSUME NEW j \in 0..n - 1, j \in S PROVE j + 1 \in S
    <3>1. n - j \in 1..n /\ n - (j + 1) = (n - j) - 1 /\ n - j \in Nat /\ j + 1 \in 0..n
      BY <1>1
    <3>2. B((n - j) - 1) \in Parser!Text
      BY <1>4, <1>5, <3>1
    <3>3. StandsAt(url, p, B(n - j))
      BY <2>2
    <3>4. StandsAt(url, p, B((n - j) - 1))
      <4> DEFINE k == n - j
                 q == B(k - 1)
                 t == parts[k]
      <4>1. k \in 1..n /\ k \in Nat /\ q \in Parser!Text
        BY <3>1, <3>2
      <4>2. (k = 1 => q = Parser!Empty) /\ t \in Parser!Text /\ StandsAt(url, p, Glued(q, k, t, <<d>>))
        BY <1>5, <3>3, <4>1
      <4> HIDE DEF k, q, t
      <4>3. StandsAt(url, p, q)
        BY <4>1, <4>2, GluedStands DEF GluedAt
      <4> QED
        BY <4>3 DEF q, k
    <3> QED
      BY <3>1, <3>4
  <2> HIDE DEF S, n
  <2>3. n \in Nat
    BY <1>1
  <2>4. \A j \in 0..n : j \in S
    BY <2>1, <2>2, <2>3, Ascend
  <2> QED
    BY <2>4 DEF S
<1>7. ASSUME NEW k \in 1..n PROVE StandsAt(url, p, B(k))
  <2>1. n - k \in 0..n /\ n - (n - k) = k
    BY <1>1
  <2> QED
    BY <1>6, <2>1
<1> DEFINE c == [k \in 0..n |-> IF k = 0 THEN p - 1 ELSE p + Len(B(k))]
<1>8. ASSUME NEW k \in 0..n PROVE c[k] = (IF k = 0 THEN p - 1 ELSE p + Len(B(k))) /\ c[k] \in Nat
  BY <1>4
<1>9. c \in [0..n -> Nat]
  BY <1>8
<1> HIDE DEF c
<1>10. ASSUME NEW k \in 1..n
       PROVE  /\ c[k] = c[k - 1] + 1 + Len(parts[k])
              /\ k # 1 => url[c[k - 1]] = d
              /\ StandsAt(url, c[k - 1] + 1, parts[k])
  <2>1. k - 1 \in 0..n /\ k \in Nat /\ k \in 0..n /\ k # 0
    BY <1>1
  <2>2. B(k - 1) \in Parser!Text /\ Len(B(k - 1)) \in Nat
    BY <1>4, <2>1
  <2>3. StandsAt(url, p, Glued(B(k - 1), k, parts[k], <<d>>))
    BY <1>5, <1>7
  <2>4. /\ k = 1 => StandsAt(url, p, parts[k]) /\ Len(B(k)) = Len(parts[k])
        /\ k # 1 => /\ url[p + Len(B(k - 1))] = d
                    /\ StandsAt(url, p + Len(B(k - 1)) + 1, parts[k])
                    /\ Len(B(k)) = Len(B(k - 1)) + 1 + Len(parts[k])
    <3> DEFINE q == B(k - 1)
               t == parts[k]
               g == B(k)
    <3>1. q \in Parser!Text /\ (k = 1 => q = Parser!Empty) /\ t \in Parser!Text /\ g = Glued(q, k, t, <<d>>)
      BY <1>5, <2>2
    <3>2. StandsAt(url, p, Glued(q, k, t, <<d>>))
      BY <2>3
    <3> HIDE DEF q, t, g
    <3>3. /\ k = 1 => StandsAt(url, p, t) /\ Len(g) = Len(t)
          /\ k # 1 => /\ url[p + Len(q)] = d
                      /\ StandsAt(url, p + Len(q) + 1, t)
                      /\ Len(g) = Len(q) + 1 + Len(t)
      <4>1. GluedAt(url, p, q, k, t, d)
        BY <2>1, <3>1, <3>2, GluedStands
      <4> QED
        BY <3>1, <4>1 DEF GluedAt
    <3> QED
      BY <3>3 DEF q, t, g
  <2>5. c[k] = p + Len(B(k)) /\ c[k - 1] = IF k = 1 THEN p - 1 ELSE p + Len(B(k - 1))
    <3>1. k - 1 = 0 <=> k = 1
      BY <2>1
    <3> QED
      BY <1>8, <2>1, <3>1
  <2>6. Len(parts[k]) \in Nat
    BY <1>5
  <2>7. CASE k = 1
    <3>1. (p - 1) + 1 = p /\ p + Len(parts[k]) = (p - 1) + 1 + Len(parts[k])
      BY <2>6
    <3> QED
      BY <2>4, <2>5, <2>7, <3>1
  <2>8. CASE k # 1
    <3>2. \A y, z \in Nat : p + (y + 1 + z) = p + y + 1 + z
      OBVIOUS
    <3>1. c[k - 1] = p + Len(B(k - 1)) /\ c[k] = p + Len(B(k - 1)) + 1 + Len(parts[k])
      BY <2>2, <2>4, <2>5, <2>6, <2>8, <3>2
    <3> QED
      BY <2>4, <2>8, <3>1
  <2> QED
    BY <2>7, <2>8
<1>11. ASSUME NEW k \in 1..n, NEW x \in 1..Len(parts[k]) PROVE url[c[k - 1] + x] = parts[k][x]
  <2>1. url[c[k - 1] + 1 + x - 1] = parts[k][x]
    BY <1>10 DEF StandsAt
  <2>2. c[k - 1] \in Nat /\ x \in Nat
    BY <1>5, <1>8
  <2>3. c[k - 1] + 1 + x - 1 = c[k - 1] + x
    BY <2>2
  <2> QED
    BY <2>1, <2>3
<1>12. ASSUME NEW k \in 1..n - 1 PROVE url[c[k]] = d
  <2>1. k + 1 \in 1..n /\ k + 1 # 1 /\ (k + 1) - 1 = k
    BY <1>1
  <2> QED
    BY <1>10, <2>1
<1>13. c[n] = p + Len(Parser!Between(parts, <<d>>)) /\ c[n] <= Len(url) + 1
  <2>1. n \in 0..n /\ n # 0
    BY <1>1
  <2>2. c[n] = p + Len(B(n)) /\ B(n) = Parser!Between(parts, <<d>>)
    BY <1>2, <1>8, <2>1 DEF B
  <2> QED
    BY <2>2 DEF StandsAt
<1>14. c[0] = p - 1
  <2>1. 0 \in 0..n
    BY <1>1
  <2> QED
    BY <1>8, <2>1
<1>15. Placed(c, parts, p, d)
  BY <1>9, <1>10, <1>11, <1>12, <1>13, <1>14 DEF Placed
<1> QED
  BY <1>13, <1>15

\* A text is its characters, one after the other.
LEMMA ItsCharacters == \A t \in Parser!Text : t = [k \in 1..Len(t) |-> t[k]]
BY DEF Parser!Text

\* The instance has a Cardinality of its own.
LEMMA ParserCardinality == \A S : Parser!Cardinality(S) = Cardinality(S)
BY DEF Parser!Cardinality, Cardinality

-------------------------------------------------------------------------------
(* URLs: a text cut at its delimiters *)

Cuts(p, to, d) == {k \in p..to - 1 : url[k] = d}
Fence(p, e, to) == (<<p - 1>> \o e) \o <<to>>

\* e holds the cuts up to each position.
CutsUp(e, p, to, d) ==
  /\ e \in [p - 1..to - 1 -> Seq(Nat)]
  /\ e[p - 1] = Parser!Empty
  /\ \A k \in p..to - 1 : e[k] = IF url[k] = d THEN Append(e[k - 1], k) ELSE e[k - 1]

CutBy(e, p, to, d) ==
  /\ CutsUp(e, p, to, d)
  /\ Parser!CutAt(p, to, d) = [x \in 1..Cardinality(Cuts(p, to, d)) + 1 |->
                          Parser!Chars(Fence(p, e[to - 1], to)[x] + 1, Fence(p, e[to - 1], to)[x + 1])]

LEMMA CutDef ==
  ASSUME NEW p \in Nat \ {0}, NEW to \in Nat, p <= to, NEW d
  PROVE  \E e : CutBy(e, p, to, d)
<1> DEFINE Places == p - 1..to - 1
           n == to - p
           X == Seq(Nat)
           step == [ks \in Nat \X X |-> IF url[p - 1 + ks[1]] = d THEN Append(ks[2], p - 1 + ks[1]) ELSE ks[2]]
           Value(f, k) == IF k < p THEN Parser!Empty ELSE IF k \in Cuts(p, to, d) THEN Append(f[k - 1], k) ELSE f[k - 1]
           Solved(f) == f = [k \in Places |-> Value(f, k)]
<1>1. n \in Nat /\ Parser!Empty \in X
  BY DEF Parser!Empty
<1>2. IsStep(step, X)
  <2>1. ASSUME NEW k \in Nat, NEW s \in X PROVE (IF url[p - 1 + k] = d THEN Append(s, p - 1 + k) ELSE s) \in X
    <3>1. p - 1 + k \in Nat
      OBVIOUS
    <3> QED
      BY <3>1
  <2> HIDE DEF X
  <2> QED
    BY <2>1 DEF IsStep
<1>3. \A k \in Nat, s \in X : step[k, s] = IF url[p - 1 + k] = d THEN Append(s, p - 1 + k) ELSE s
  <2> SUFFICES ASSUME NEW k \in Nat, NEW s \in X
               PROVE  step[k, s] = IF url[p - 1 + k] = d THEN Append(s, p - 1 + k) ELSE s
    BY Zenon
  <2> HIDE DEF X
  <2>1. <<k, s>> \in Nat \X X /\ <<k, s>>[1] = k /\ <<k, s>>[2] = s
    OBVIOUS
  <2>2. step[<<k, s>>] = IF url[p - 1 + k] = d THEN Append(s, p - 1 + k) ELSE s
    BY <2>1
  <2> QED
    BY <2>2, Zenon
<1> HIDE DEF step, X
<1>4. \E f : Stepped(f, n, X, Parser!Empty, step)
  <2> HIDE DEF n
  <2> QED
    BY <1>1, <1>2, StepsExist
<1>5. PICK f : Stepped(f, n, X, Parser!Empty, step)
  BY <1>4
<1> DEFINE g == [k \in Places |-> f[k - (p - 1)]]
<1>6. ASSUME NEW k \in Places PROVE k - (p - 1) \in 0..n /\ g[k] = f[k - (p - 1)] /\ g[k] \in X
  <2>1. k - (p - 1) \in 0..n
    OBVIOUS
  <2> HIDE DEF n
  <2> QED
    BY <1>5, <2>1, Zenon DEF Stepped
<1> HIDE DEF g
<1>7. ASSUME NEW k \in Places PROVE g[k] = Value(g, k)
  <2>1. CASE k < p
    <3>1. k - (p - 1) = 0
      BY <2>1
    <3> QED
      BY <1>5, <1>6, <2>1, <3>1, Zenon DEF Stepped
  <2>2. CASE ~ (k < p)
    <3>1. k - 1 \in Places /\ k - (p - 1) \in 1..n /\ (k - 1) - (p - 1) = (k - (p - 1)) - 1
          /\ p - 1 + (k - (p - 1)) = k /\ k \in p..to - 1 /\ k - (p - 1) \in Nat
      BY <2>2
    <3> DEFINE q == k - (p - 1)
    <3>2. g[k - 1] = f[q - 1] /\ f[q - 1] \in X /\ g[k] = f[q]
      BY <1>6, <3>1
    <3>3. q \in 1..n /\ q \in Nat /\ p - 1 + q = k
      BY <3>1
    <3> HIDE DEF q
    <3>4. f[q] = step[q, f[q - 1]]
      BY <1>5, <3>3, Zenon DEF Stepped
    <3>5. f[q] = IF url[k] = d THEN Append(f[q - 1], k) ELSE f[q - 1]
      BY <1>3, <3>2, <3>3, <3>4, Zenon
    <3>6. k \in Cuts(p, to, d) <=> url[k] = d
      BY <3>1 DEF Cuts
    <3> QED
      BY <2>2, <3>2, <3>5, <3>6
  <2> QED
    BY <2>1, <2>2
<1>8. Solved(g)
  <2>1. g = [k \in Places |-> g[k]]
    BY <1>6 DEF g
  <2> QED
    BY <1>7, <2>1
<1> HIDE DEF Solved
<1> DEFINE e == CHOOSE h : Solved(h)
<1>9. Solved(e)
  BY <1>8
<1>10. Parser!CutAt(p, to, d) = [x \in 1..Cardinality(Cuts(p, to, d)) + 1 |->
                            Parser!Chars(Fence(p, e[to - 1], to)[x] + 1, Fence(p, e[to - 1], to)[x + 1])]
  <2>1. Parser!CutAt(p, to, d) = [x \in 1..Parser!Cardinality(Cuts(p, to, d)) + 1 |->
                            Parser!Chars(Fence(p, e[to - 1], to)[x] + 1, Fence(p, e[to - 1], to)[x + 1])]
    BY DEF Parser!CutAt, Solved, Fence, Cuts
  <2> QED
    BY <2>1, ParserCardinality
<1> HIDE DEF e
<1>11. \A k \in Places : e[k] = Value(e, k)
  BY <1>9 DEF Solved
<1>12. e[p - 1] = Parser!Empty
  <2>1. p - 1 \in Places /\ p - 1 < p
    OBVIOUS
  <2> QED
    BY <1>11, <2>1
<1>13. \A k \in p..to - 1 : e[k] = IF url[k] = d THEN Append(e[k - 1], k) ELSE e[k - 1]
  <2> SUFFICES ASSUME NEW k \in p..to - 1
               PROVE  e[k] = IF url[k] = d THEN Append(e[k - 1], k) ELSE e[k - 1]
    OBVIOUS
  <2>1. k \in Places /\ ~ (k < p)
    OBVIOUS
  <2>2. k \in Cuts(p, to, d) <=> url[k] = d
    BY DEF Cuts
  <2> QED
    BY <1>11, <2>1, <2>2
<1>14. \A k \in Places : e[k] \in X
  <2> DEFINE S == {j \in 0..n : e[p - 1 + j] \in X}
  <2>1. 0 \in S
    BY <1>1, <1>12
  <2>2. ASSUME NEW j \in 0..n - 1, j \in S PROVE j + 1 \in S
    <3>1. p - 1 + (j + 1) \in p..to - 1 /\ (p - 1 + (j + 1)) - 1 = p - 1 + j /\ j + 1 \in 0..n
          /\ p - 1 + (j + 1) \in Nat
      BY <1>1
    <3>2. e[p - 1 + j] \in X
      BY <2>2
    <3>3. Append(e[p - 1 + j], p - 1 + (j + 1)) \in X
      BY <3>1, <3>2 DEF X
    <3>4. e[p - 1 + (j + 1)] \in X
      BY <1>13, <3>1, <3>2, <3>3
    <3> QED
      BY <3>1, <3>4
  <2> HIDE DEF S, n
  <2>3. \A j \in 0..n : j \in S
    BY <1>1, <2>1, <2>2, Ascend
  <2>4. ASSUME NEW k \in Places PROVE e[k] \in X
    <3>1. k - (p - 1) \in 0..n /\ p - 1 + (k - (p - 1)) = k
      BY DEF n
    <3> QED
      BY <2>3, <3>1 DEF S
  <2> QED
    BY <2>4
<1>15. e = [k \in Places |-> e[k]]
  BY <1>9 DEF Solved
<1>16. CutsUp(e, p, to, d)
  <2>1. e \in [Places -> X]
    BY <1>14, <1>15
  <2> QED
    BY <1>12, <1>13, <2>1 DEF CutsUp, X
<1> QED
  BY <1>10, <1>16 DEF CutBy

\* The ends of the parts lie apart.
LEMMA PlacedApart ==
  ASSUME NEW parts \in Seq(Parser!Text), NEW p \in Nat \ {0}, NEW d, NEW c, Placed(c, parts, p, d)
  PROVE  \A k \in 0..Len(parts) : c[k] + (Len(parts) - k) <= c[Len(parts)]
<1> DEFINE n == Len(parts)
           S == {j \in 0..n : c[n - j] + j <= c[n]}
<1>1. n \in Nat /\ \A k \in 1..n : Len(parts[k]) \in Nat
  BY DEF Parser!Text
<1>2. \A k \in 0..n : c[k] \in Nat
  BY DEF Placed
<1>3. 0 \in S
  <2>1. n \in 0..n /\ n - 0 = n
    BY <1>1
  <2>2. c[n] \in Nat
    BY <1>2, <2>1
  <2> QED
    BY <1>1, <2>1, <2>2
<1>4. ASSUME NEW j \in 0..n - 1, j \in S PROVE j + 1 \in S
  <2>1. n - j \in 1..n /\ n - (j + 1) = (n - j) - 1 /\ n - j \in 0..n /\ (n - j) - 1 \in 0..n /\ n \in 0..n
        /\ j + 1 \in 0..n
    BY <1>1
  <2>2. c[n - j] = c[(n - j) - 1] + 1 + Len(parts[n - j])
    BY <2>1 DEF Placed
  <2>3. c[n - j] \in Nat /\ c[(n - j) - 1] \in Nat /\ c[n] \in Nat /\ Len(parts[n - j]) \in Nat
    BY <1>1, <1>2, <2>1
  <2>4. c[n - j] + j <= c[n]
    BY <1>4
  <2>5. c[(n - j) - 1] + (j + 1) <= c[n]
    BY <2>2, <2>3, <2>4, SMTT(30)
  <2> QED
    BY <2>1, <2>5
<1> HIDE DEF S
<1>5. \A j \in 0..n : j \in S
  <2> HIDE DEF n
  <2> QED
    BY <1>1, <1>3, <1>4, Ascend
<1>6. ASSUME NEW k \in 0..n PROVE c[k] + (n - k) <= c[n]
  <2>1. n - k \in 0..n /\ n - (n - k) = k
    BY <1>1
  <2> QED
    BY <1>5, <2>1 DEF S
<1> QED
  BY <1>6

\* What was written with delimiters between its parts is cut back into them.
LEMMA CutsBack ==
  ASSUME url \in Parser!Text, NEW parts \in Seq(Parser!Text), NEW d \in Parser!Character, NEW p \in Nat \ {0}, Len(parts) # 0,
         StandsAt(url, p, Parser!Between(parts, <<d>>)), \A k \in 1..Len(parts) : Parser!Free(parts[k], {d})
  PROVE  Parser!CutAt(p, p + Len(Parser!Between(parts, <<d>>)), d) = parts
<1> DEFINE n == Len(parts)
           to == p + Len(Parser!Between(parts, <<d>>))
<1>1. PICK c : Placed(c, parts, p, d) /\ c[n] = to
  BY PartsPlaced
<1>2. n \in Nat \ {0} /\ \A k \in 1..n : Len(parts[k]) \in Nat
  BY DEF Parser!Text
<1>3. \A k \in 0..n : c[k] \in Nat
  BY <1>1 DEF Placed
<1>4. c[0] = p - 1 /\ c[n] = to /\ to \in Nat
  <2>1. n \in 0..n
    BY <1>2
  <2> QED
    BY <1>1, <1>3, <2>1 DEF Placed
<1>5. \A k \in 0..n : c[k] + (n - k) <= to
  BY <1>1, PlacedApart
<1>6. p <= to
  <2>1. 0 \in 0..n /\ n - 0 = n
    BY <1>2
  <2>2. c[0] + (n - 0) <= to
    BY <1>5, <2>1
  <2> HIDE DEF to, n
  <2> QED
    BY <1>2, <1>4, <2>1, <2>2
<1> HIDE DEF to, n
<1>21. PICK e : CutBy(e, p, to, d)
  BY <1>4, <1>6, CutDef
<1>7. /\ CutsUp(e, p, to, d)
      /\ Parser!CutAt(p, to, d) = [x \in 1..Cardinality(Cuts(p, to, d)) + 1 |->
                              Parser!Chars(Fence(p, e[to - 1], to)[x] + 1, Fence(p, e[to - 1], to)[x + 1])]
  BY <1>21 DEF CutBy
<1>8. ASSUME NEW k \in 1..n
      PROVE  /\ k \in 0..n /\ k - 1 \in 0..n /\ Len(parts[k]) \in Nat
             /\ c[k] = c[k - 1] + 1 + Len(parts[k])
             /\ \A x \in 1..Len(parts[k]) : url[c[k - 1] + x] = parts[k][x] /\ parts[k][x] # d
  <2>1. k \in 0..n /\ k - 1 \in 0..n /\ Len(parts[k]) \in Nat
    BY <1>2
  <2>2. Parser!Free(parts[k], {d})
    BY DEF n
  <2> QED
    BY <1>1, <2>1, <2>2 DEF Placed, Parser!Free, n
<1> DEFINE Ends(m) == [x \in 1..m |-> c[x]]
           Before(j) == {k \in p..j : url[k] = d}
           At(j, m) == /\ c[m] <= j /\ j < c[m + 1] /\ e[j] = Ends(m)
                       /\ IsFiniteSet(Before(j)) /\ Cardinality(Before(j)) = m
           S == {y \in 0..to - p : \E m \in 0..n - 1 : At(p - 1 + y, m)}
<1>9. 0 \in S
  <2>1. 0 \in 0..n - 1 /\ 1 \in 1..n /\ 1 - 1 = 0 /\ 0 + 1 = 1 /\ p - 1 + 0 = p - 1 /\ 0 \in 0..to - p
    BY <1>2, <1>4, <1>6
  <2>2. c[1] = c[0] + 1 + Len(parts[1]) /\ Len(parts[1]) \in Nat
    BY <1>8, <2>1
  <2>3. c[0] <= p - 1 /\ p - 1 < c[1]
    <3> HIDE DEF to
    <3> QED
      BY <1>4, <2>2
  <2>4. e[p - 1] = Ends(0)
    <3>1. Ends(0) = Parser!Empty
      BY DEF Parser!Empty
    <3> QED
      BY <1>7, <3>1 DEF CutsUp
  <2>5. Before(p - 1) = {}
    <3>1. p..p - 1 = {}
      OBVIOUS
    <3> QED
      BY <3>1
  <2>6. At(p - 1, 0)
    <3> HIDE DEF Before, Ends
    <3> QED
      BY <2>1, <2>3, <2>4, <2>5, FS_EmptySet
  <2> HIDE DEF At
  <2> QED
    BY <2>1, <2>6
<1>10. ASSUME NEW y \in 0..(to - p) - 1, y \in S PROVE y + 1 \in S
  <2> DEFINE j == p - 1 + y
  <2>1. PICK m \in 0..n - 1 : At(j, m)
    BY <1>10
  <2>2. /\ y + 1 \in 0..to - p /\ p - 1 + (y + 1) = j + 1 /\ j + 1 \in p..to - 1 /\ (j + 1) - 1 = j /\ j \in Nat
        /\ m + 1 \in 1..n /\ (m + 1) - 1 = m /\ m \in Nat /\ m \in 0..n /\ m + 1 \in 0..n
    BY <1>2, <1>4, <1>6
  <2> HIDE DEF j
  <2>3. /\ c[m] <= j /\ j < c[m + 1] /\ e[j] = Ends(m)
        /\ IsFiniteSet(Before(j)) /\ Cardinality(Before(j)) = m
    BY <2>1
  <2>4. c[m] \in Nat /\ c[m + 1] \in Nat /\ c[m + 1] = c[m] + 1 + Len(parts[m + 1]) /\ Len(parts[m + 1]) \in Nat
    BY <1>3, <1>8, <2>2
  <2>5. e[j + 1] = IF url[j + 1] = d THEN Append(e[j], j + 1) ELSE e[j]
    BY <1>7, <2>2 DEF CutsUp
  <2>6. CASE j + 1 < c[m + 1]
    <3> DEFINE x == (j + 1) - c[m]
    <3>1. x \in 1..Len(parts[m + 1]) /\ c[m] + x = j + 1
      <4>1. \A u, v, w \in Nat : u <= v /\ v + 1 < u + 1 + w => (v + 1) - u \in 1..w /\ u + ((v + 1) - u) = v + 1
        OBVIOUS
      <4>2. j \in Nat /\ c[m] \in Nat /\ Len(parts[m + 1]) \in Nat /\ c[m] <= j
        BY <2>2, <2>3, <2>4
      <4>3. j + 1 < c[m] + 1 + Len(parts[m + 1])
        BY <2>4, <2>6
      <4> QED
        BY <4>1, <4>2, <4>3
    <3> HIDE DEF x
    <3>2. url[c[m] + x] # d
      <4>1. url[c[(m + 1) - 1] + x] = parts[m + 1][x] /\ parts[m + 1][x] # d
        BY <1>8, <2>2, <3>1
      <4> QED
        BY <2>2, <4>1
    <3>3. url[j + 1] # d
      BY <3>1, <3>2
    <3>4. Before(j + 1) = Before(j)
      <4>1. \A k : k \in p..j + 1 <=> k \in p..j \/ k = j + 1
        BY <2>2
      <4>2. \A k : k \in Before(j + 1) <=> k \in Before(j)
        BY <3>3, <4>1
      <4> HIDE DEF Before
      <4> QED
        BY <4>2
    <3>5. c[m] <= j + 1
      BY <2>2, <2>3, <2>4
    <3>6. At(j + 1, m)
      <4> HIDE DEF Before, Ends
      <4> QED
        BY <2>3, <2>5, <2>6, <3>3, <3>4, <3>5
    <3> HIDE DEF At
    <3> QED
      BY <2>2, <3>6
  <2>7. CASE ~ (j + 1 < c[m + 1])
    <3>1. j + 1 = c[m + 1]
      BY <2>2, <2>3, <2>4, <2>7
    <3>2. m + 1 # n
      BY <1>4, <2>2, <3>1
    <3>3. m + 1 \in 1..n - 1 /\ m + 1 \in 0..n - 1 /\ (m + 1) + 1 \in 1..n /\ ((m + 1) + 1) - 1 = m + 1
      BY <1>2, <2>2, <3>2
    <3>4. url[j + 1] = d
      <4>1. url[c[m + 1]] = d
        BY <1>1, <3>3 DEF Placed, n
      <4> QED
        BY <3>1, <4>1
    <3>5. e[j + 1] = Ends(m + 1)
      <4>1. e[j + 1] = Append(Ends(m), c[m + 1])
        BY <2>3, <2>5, <3>1, <3>4
      <4>2. \A x \in 1..m : c[x] \in Nat
        <5>1. \A x \in 1..m : x \in 0..n
          BY <1>2, <2>2
        <5> QED
          BY <1>3, <5>1
      <4>3. Append(Ends(m), c[m + 1]) = Ends(m + 1)
        <5>1. Ends(m) \in Seq(Nat) /\ Len(Ends(m)) = m
          BY <2>2, <4>2
        <5>2. Append(Ends(m), c[m + 1]) = [x \in 1..m + 1 |-> IF x = m + 1 THEN c[m + 1] ELSE Ends(m)[x]]
          <6> HIDE DEF Ends
          <6> QED
            BY <5>1, <2>4, <2>2, SMTT(30)
        <5>3. \A x \in 1..m + 1 : (IF x = m + 1 THEN c[m + 1] ELSE Ends(m)[x]) = c[x]
          BY <2>2
        <5> QED
          BY <5>2, <5>3
      <4> QED
        BY <4>1, <4>3
    <3>6. Before(j + 1) = Before(j) \cup {j + 1} /\ j + 1 \notin Before(j)
      <4>1. \A k : k \in p..j + 1 <=> k \in p..j \/ k = j + 1
        BY <2>2
      <4>2. \A k : k \in Before(j + 1) <=> k \in Before(j) \/ k = j + 1
        BY <3>4, <4>1
      <4>3. j + 1 \notin Before(j)
        <5>1. j + 1 \notin p..j
          BY <2>2
        <5> QED
          BY <5>1
      <4> HIDE DEF Before
      <4> QED
        BY <4>2, <4>3
    <3>7. IsFiniteSet(Before(j + 1)) /\ Cardinality(Before(j + 1)) = m + 1
      <4> DEFINE B == Before(j)
                 x == j + 1
      <4>1. IsFiniteSet(B) /\ Cardinality(B) = m /\ x \notin B
        BY <2>3, <3>6
      <4> HIDE DEF B, x
      <4>2. IsFiniteSet(B \cup {x}) /\ Cardinality(B \cup {x}) = m + 1
        BY <4>1, FS_AddElement
      <4>3. Before(j + 1) = B \cup {x}
        BY <3>6 DEF B, x
      <4> QED
        BY <4>2, <4>3
    <3>8. c[m + 1] <= j + 1 /\ j + 1 < c[(m + 1) + 1]
      <4>1. c[(m + 1) + 1] = c[m + 1] + 1 + Len(parts[(m + 1) + 1]) /\ Len(parts[(m + 1) + 1]) \in Nat
        BY <1>8, <3>3
      <4>2. \A x, l \in Nat : x <= x /\ x < x + 1 + l
        OBVIOUS
      <4> QED
        BY <2>4, <3>1, <4>1, <4>2
    <3>9. At(j + 1, m + 1)
      <4> HIDE DEF Before, Ends
      <4> QED
        BY <3>5, <3>7, <3>8
    <3> HIDE DEF At
    <3> QED
      BY <2>2, <3>3, <3>9
  <2> QED
    BY <2>6, <2>7
<1> HIDE DEF S
<1>11. to - p \in Nat
  BY <1>4, <1>6
<1>12. \A y \in 0..to - p : y \in S
  <2> DEFINE z == to - p
  <2>1. z \in Nat /\ 0 \in S /\ \A y \in 0..z - 1 : y \in S => y + 1 \in S
    BY <1>9, <1>10, <1>11
  <2> HIDE DEF z
  <2>2. \A y \in 0..z : y \in S
    BY <2>1, Ascend
  <2> QED
    BY <2>2 DEF z
<1>13. \E m \in 0..n - 1 : At(to - 1, m)
  <2>1. to - p \in 0..to - p /\ p - 1 + (to - p) = to - 1
    BY <1>4, <1>11
  <2> HIDE DEF At
  <2>2. \E m \in 0..n - 1 : At(p - 1 + (to - p), m)
    BY <1>12, <2>1 DEF S
  <2> QED
    BY <2>1, <2>2
<1>14. PICK m \in 0..n - 1 : At(to - 1, m)
  BY <1>13
<1>15. m = n - 1
  <2>1. m + 1 \in 0..n /\ n - (m + 1) \in Nat
    BY <1>2
  <2>2. c[m + 1] + (n - (m + 1)) <= to /\ c[m + 1] \in Nat /\ to - 1 < c[m + 1]
    BY <1>3, <1>5, <1>14, <2>1
  <2>3. n - (m + 1) = 0
    BY <1>4, <2>1, <2>2
  <2> QED
    BY <1>2, <2>3
<1>16. e[to - 1] = Ends(n - 1) /\ Cardinality(Cuts(p, to, d)) + 1 = n
  <2>1. Before(to - 1) = Cuts(p, to, d)
    BY DEF Cuts
  <2> HIDE DEF Before, Ends
  <2>2. e[to - 1] = Ends(m) /\ Cardinality(Cuts(p, to, d)) = m
    BY <1>14, <2>1
  <2> QED
    BY <1>2, <1>15, <2>2
<1> HIDE DEF At, Before
<1>17. ASSUME NEW x \in 0..n PROVE Fence(p, Ends(n - 1), to)[x + 1] = c[x]
  <2>1. \A y \in 1..n - 1 : c[y] \in Nat
    <3>1. \A y \in 1..n - 1 : y \in 0..n
      BY <1>2
    <3> QED
      BY <1>3, <3>1
  <2>2. Ends(n - 1) \in Seq(Nat) /\ Len(Ends(n - 1)) = n - 1 /\ \A y \in 1..n - 1 : Ends(n - 1)[y] = c[y]
    BY <1>2, <2>1
  <2> HIDE DEF Ends
  <2>3. <<p - 1>> \in Seq(Nat) /\ Len(<<p - 1>>) = 1 /\ <<p - 1>>[1] = p - 1
    OBVIOUS
  <2>4. <<to>> \in Seq(Nat) /\ Len(<<to>>) = 1 /\ <<to>>[1] = to
    BY <1>4
  <2> DEFINE front == <<p - 1>> \o Ends(n - 1)
  <2>5. /\ front \in Seq(Nat) /\ Len(front) = n /\ front[1] = p - 1
        /\ \A y \in 2..n : front[y] = Ends(n - 1)[y - 1]
    BY <1>2, <2>2, <2>3
  <2> HIDE DEF front
  <2>6. /\ \A y \in 1..n : (front \o <<to>>)[y] = front[y]
        /\ (front \o <<to>>)[n + 1] = to
    BY <1>2, <2>4, <2>5
  <2>7. Fence(p, Ends(n - 1), to) = front \o <<to>>
    BY DEF Fence, front
  <2>8. CASE x = 0
    <3>1. x + 1 = 1 /\ 1 \in 1..n
      BY <1>2, <2>8
    <3> QED
      BY <1>4, <2>5, <2>6, <2>7, <2>8, <3>1
  <2>9. CASE x = n
    BY <1>4, <2>6, <2>7, <2>9
  <2>10. CASE x # 0 /\ x # n
    <3>1. x + 1 \in 2..n /\ x + 1 \in 1..n /\ (x + 1) - 1 = x /\ x \in 1..n - 1
      BY <1>2, <2>10
    <3> QED
      BY <2>2, <2>5, <2>6, <2>7, <3>1
  <2> QED
    BY <2>8, <2>9, <2>10
<1> HIDE DEF Ends
<1>18. ASSUME NEW x \in 1..n
       PROVE  Parser!Chars(Fence(p, e[to - 1], to)[x] + 1, Fence(p, e[to - 1], to)[x + 1]) = parts[x]
  <2>1. x - 1 \in 0..n /\ (x - 1) + 1 = x /\ x \in 0..n
    BY <1>2
  <2>2. Fence(p, e[to - 1], to)[x] = c[x - 1] /\ Fence(p, e[to - 1], to)[x + 1] = c[x]
    BY <1>16, <1>17, <2>1
  <2>3. c[x] - (c[x - 1] + 1) = Len(parts[x]) /\ c[x - 1] \in Nat
    <3>1. \A u, v \in Nat : (u + 1 + v) - (u + 1) = v
      OBVIOUS
    <3>2. c[x] = c[x - 1] + 1 + Len(parts[x]) /\ c[x - 1] \in Nat /\ Len(parts[x]) \in Nat
      BY <1>3, <1>8, <2>1
    <3> QED
      BY <3>1, <3>2
  <2>4. ASSUME NEW k \in 1..Len(parts[x]) PROVE url[c[x - 1] + 1 + k - 1] = parts[x][k]
    <3>1. c[x - 1] + 1 + k - 1 = c[x - 1] + k
      BY <2>3
    <3> QED
      BY <1>8, <3>1
  <2>5. Parser!Chars(c[x - 1] + 1, c[x]) = [k \in 1..Len(parts[x]) |-> parts[x][k]]
    BY <2>3, <2>4 DEF Parser!Chars
  <2>6. parts[x] \in Parser!Text
    BY DEF n
  <2>7. parts[x] = [k \in 1..Len(parts[x]) |-> parts[x][k]]
    BY <2>6, ItsCharacters
  <2> QED
    BY <2>2, <2>5, <2>7
<1>19. Parser!CutAt(p, to, d) = [x \in 1..n |-> parts[x]]
  BY <1>7, <1>16, <1>18
<1>20. parts = [x \in 1..n |-> parts[x]]
  BY DEF n
<1> QED
  BY <1>19, <1>20 DEF to

-------------------------------------------------------------------------------
(* The URL as it is written *)

-------------------------------------------------------------------------------
(* URLs: where each part of a URL stands *)

SchemeText(a) == IF a.scheme = Parser!Empty THEN Parser!Empty ELSE a.scheme \o <<":", "/", "/">>
LoginText(a) ==
  IF a.username = Parser!Empty THEN Parser!Empty
  ELSE a.username \o (IF a.password = Parser!Empty THEN Parser!Empty ELSE <<":">> \o a.password) \o <<"@">>
Host(a) == Parser!Between(a.domain, <<".">>)
PortText(a) == IF a.port = Parser!Empty THEN Parser!Empty ELSE <<":">> \o a.port
Directory(a) == Parser!AfterEach(a.path, <<"/">>)
Pairs(u) == [k \in DOMAIN u.query |-> u.query[k][1] \o <<"=">> \o u.query[k][2]]
QueryText(u) == IF u.query = Parser!Empty THEN Parser!Empty ELSE <<"?">> \o Parser!Between(Pairs(u), <<"&">>)

\* Where the parts begin: the host after the login, the root's slash after the port.
LoginAt(a) == 1 + Len(SchemeText(a))
HostAt(a) == LoginAt(a) + Len(LoginText(a))
PortAt(a) == HostAt(a) + Len(Host(a))
RootAt(a) == PortAt(a) + Len(PortText(a))
PageAt(a) == RootAt(a) + 1 + Len(Directory(a))
EndAt(a) == PageAt(a) + Len(a.page)

LEMMA EmptyText == Parser!Empty \in Parser!Text /\ Len(Parser!Empty) = 0
BY DEF Parser!Empty, Parser!Text

LEMMA TextTypes ==
  ASSUME NEW u \in Parser!UrlType
  PROVE  /\ SchemeText(u.attributes) \in Parser!Text /\ LoginText(u.attributes) \in Parser!Text /\ Host(u.attributes) \in Parser!Text
         /\ PortText(u.attributes) \in Parser!Text /\ Directory(u.attributes) \in Parser!Text /\ u.attributes.page \in Parser!Text
         /\ Pairs(u) \in Seq(Parser!Text) /\ Len(Pairs(u)) = Len(u.query)
         /\ QueryText(u) \in Parser!Text
<1> DEFINE a == u.attributes
<1>1. a \in Parser!AttributesType /\ u.query \in Seq(Parser!Text \X Parser!Text)
  BY DEF Parser!UrlType
<1>2. /\ a.scheme \in Parser!Text /\ a.username \in Parser!Text /\ a.password \in Parser!Text /\ a.domain \in Seq(Parser!Text)
      /\ a.port \in Parser!Text /\ a.path \in Seq(Parser!Text) /\ a.page \in Parser!Text
  BY <1>1 DEF Parser!AttributesType
<1> HIDE DEF a
<1>3. \A d \in Parser!Delimiter : <<d>> \in Parser!Text
  BY OneChar, Zenon DEF Parser!Character
<1>4. <<":">> \in Parser!Text /\ <<"@">> \in Parser!Text /\ <<".">> \in Parser!Text /\ <<"/">> \in Parser!Text /\ <<"?">> \in Parser!Text
      /\ <<"=">> \in Parser!Text /\ <<"&">> \in Parser!Text
  BY <1>3 DEF Parser!Delimiter
<1>5. <<":", "/", "/">> \in Parser!Text
  <2>1. ":" \in Parser!Character /\ "/" \in Parser!Character
    BY DEF Parser!Character, Parser!Delimiter
  <2>2. \A x, y, z \in Parser!Character : <<x, y, z>> \in Seq(Parser!Character)
    OBVIOUS
  <2> QED
    BY <2>1, <2>2 DEF Parser!Text
<1>6. \A x, y \in Parser!Text : x \o y \in Parser!Text
  BY CatType
<1>7. SchemeText(a) \in Parser!Text
  BY <1>2, <1>5, <1>6, EmptyText DEF SchemeText
<1>8. LoginText(a) \in Parser!Text
  <2> DEFINE e == IF a.password = Parser!Empty THEN Parser!Empty ELSE <<":">> \o a.password
  <2>1. e \in Parser!Text
    BY <1>2, <1>4, <1>6, EmptyText
  <2> HIDE DEF e
  <2>2. (a.username \o e) \o <<"@">> \in Parser!Text
    BY <1>2, <1>4, <1>6, <2>1
  <2> QED
    BY <2>2, EmptyText DEF LoginText, e
<1>9. Host(a) \in Parser!Text
  BY <1>2, <1>4, BetweenFacts DEF Host
<1>10. PortText(a) \in Parser!Text
  BY <1>2, <1>4, <1>6, EmptyText DEF PortText
<1>11. Directory(a) \in Parser!Text
  <2>1. Parser!Between(a.path, <<"/">>) \in Parser!Text
    BY <1>2, <1>4, BetweenFacts
  <2> QED
    BY <1>4, <1>6, <2>1, EmptyText DEF Directory, Parser!AfterEach
<1>12. Pairs(u) \in Seq(Parser!Text) /\ Len(Pairs(u)) = Len(u.query)
  <2>1. DOMAIN u.query = 1..Len(u.query) /\ Len(u.query) \in Nat
    BY <1>1
  <2>2. ASSUME NEW k \in 1..Len(u.query) PROVE u.query[k][1] \o <<"=">> \o u.query[k][2] \in Parser!Text
    <3>1. u.query[k] \in Parser!Text \X Parser!Text
      BY <1>1
    <3>2. u.query[k][1] \in Parser!Text /\ u.query[k][2] \in Parser!Text
      BY <3>1
    <3> QED
      BY <1>4, <1>6, <3>2
  <2>3. Pairs(u) = [k \in 1..Len(u.query) |-> u.query[k][1] \o <<"=">> \o u.query[k][2]]
    BY <2>1 DEF Pairs
  <2>4. Pairs(u) \in [1..Len(u.query) -> Parser!Text]
    BY <2>2, <2>3
  <2> QED
    BY <2>1, <2>4
<1>13. QueryText(u) \in Parser!Text
  <2>1. Parser!Between(Pairs(u), <<"&">>) \in Parser!Text
    BY <1>4, <1>12, BetweenFacts
  <2> QED
    BY <1>4, <1>6, <2>1, EmptyText DEF QueryText
<1> QED
  BY <1>2, <1>7, <1>8, <1>9, <1>10, <1>11, <1>12, <1>13 DEF a

LEMMA PositionTypes ==
  ASSUME NEW u \in Parser!UrlType
  PROVE  /\ LoginAt(u.attributes) \in Nat \ {0} /\ HostAt(u.attributes) \in Nat \ {0}
         /\ PortAt(u.attributes) \in Nat \ {0} /\ RootAt(u.attributes) \in Nat \ {0}
         /\ PageAt(u.attributes) \in Nat \ {0} /\ EndAt(u.attributes) \in Nat \ {0}
         /\ LoginAt(u.attributes) <= HostAt(u.attributes) /\ HostAt(u.attributes) <= PortAt(u.attributes)
         /\ PortAt(u.attributes) <= RootAt(u.attributes) /\ RootAt(u.attributes) < PageAt(u.attributes)
         /\ PageAt(u.attributes) <= EndAt(u.attributes)
<1> DEFINE a == u.attributes
<1>1. \A x \in Parser!Text : Len(x) \in Nat
  BY DEF Parser!Text
<1>2. /\ Len(SchemeText(a)) \in Nat /\ Len(LoginText(a)) \in Nat /\ Len(Host(a)) \in Nat
      /\ Len(PortText(a)) \in Nat /\ Len(Directory(a)) \in Nat /\ Len(a.page) \in Nat
  BY <1>1, TextTypes
<1> HIDE DEF a
<1>3. LoginAt(a) \in Nat \ {0} /\ HostAt(a) \in Nat \ {0} /\ LoginAt(a) <= HostAt(a)
  BY <1>2 DEF LoginAt, HostAt
<1>4. PortAt(a) \in Nat \ {0} /\ HostAt(a) <= PortAt(a)
  BY <1>2, <1>3 DEF PortAt
<1>5. RootAt(a) \in Nat \ {0} /\ PortAt(a) <= RootAt(a)
  BY <1>2, <1>4 DEF RootAt
<1>6. PageAt(a) \in Nat \ {0} /\ RootAt(a) < PageAt(a)
  BY <1>2, <1>5 DEF PageAt
<1>7. EndAt(a) \in Nat \ {0} /\ PageAt(a) <= EndAt(a)
  BY <1>2, <1>6 DEF EndAt
<1> QED
  BY <1>3, <1>4, <1>5, <1>6, <1>7 DEF a

\* What a URL consists of stands in it one after the other.
LaidOut(u) ==
  /\ StandsAt(url, 1, SchemeText(u.attributes))
  /\ StandsAt(url, LoginAt(u.attributes), LoginText(u.attributes))
  /\ StandsAt(url, HostAt(u.attributes), Host(u.attributes))
  /\ StandsAt(url, PortAt(u.attributes), PortText(u.attributes))
  /\ url[RootAt(u.attributes)] = "/"
  /\ StandsAt(url, RootAt(u.attributes) + 1, Directory(u.attributes))
  /\ StandsAt(url, PageAt(u.attributes), u.attributes.page)
  /\ StandsAt(url, EndAt(u.attributes), QueryText(u))
  /\ Len(url) = EndAt(u.attributes) - 1 + Len(QueryText(u))

LEMMA WrittenLaidOut ==
  ASSUME NEW u \in Parser!UrlType, url = Parser!Written(u)
  PROVE  url \in Parser!Text /\ LaidOut(u)
<1> DEFINE a == u.attributes
           t1 == SchemeText(a)
           t2 == t1 \o LoginText(a)
           t3 == t2 \o Host(a)
           t4 == t3 \o PortText(a)
           t5 == t4 \o <<"/">>
           t6 == t5 \o Directory(a)
           t7 == t6 \o a.page
           t8 == t7 \o QueryText(u)
<1>1. /\ SchemeText(a) \in Parser!Text /\ LoginText(a) \in Parser!Text /\ Host(a) \in Parser!Text
      /\ PortText(a) \in Parser!Text /\ Directory(a) \in Parser!Text /\ a.page \in Parser!Text /\ QueryText(u) \in Parser!Text
  BY TextTypes
<1>2. <<"/">> \in Parser!Text /\ Len(<<"/">>) = 1 /\ <<"/">>[1] = "/"
  <2>1. "/" \in Parser!Character
    BY DEF Parser!Character, Parser!Delimiter
  <2> QED
    BY <2>1, OneChar
<1>3. Parser!Printed(a) = t7
  BY DEF Parser!Printed, SchemeText, LoginText, Host, PortText, Directory
<1>4. Parser!Written(u) = t8 \o Parser!Empty
  <2>1. u.anchor = Parser!Empty
    BY DEF Parser!UrlType
  <2> HIDE DEF t7
  <2> QED
    BY <1>3, <2>1 DEF Parser!Written, QueryText, Pairs
<1> HIDE DEF a
<1>17. /\ Len(SchemeText(a)) \in Nat /\ Len(LoginText(a)) \in Nat /\ Len(Host(a)) \in Nat
       /\ Len(PortText(a)) \in Nat /\ Len(Directory(a)) \in Nat /\ Len(a.page) \in Nat
       /\ Len(QueryText(u)) \in Nat
  BY <1>1 DEF Parser!Text
<1>18. /\ LoginAt(a) \in Nat \ {0} /\ HostAt(a) \in Nat \ {0} /\ PortAt(a) \in Nat \ {0}
       /\ RootAt(a) \in Nat \ {0} /\ PageAt(a) \in Nat \ {0} /\ EndAt(a) \in Nat \ {0}
  BY PositionTypes DEF a
<1>5. t1 \in Parser!Text /\ Len(t1) = LoginAt(a) - 1
  BY <1>1, <1>17 DEF LoginAt
<1> HIDE DEF t1
<1>6. t2 \in Parser!Text /\ Len(t2) = HostAt(a) - 1
  <2>1. t2 \in Parser!Text /\ Len(t2) = Len(t1) + Len(LoginText(a))
    BY <1>1, <1>5, CatType
  <2> HIDE DEF t2
  <2> QED
    BY <1>17, <1>18, <1>5, <2>1, SMTT(30) DEF HostAt
<1> HIDE DEF t2
<1>7. t3 \in Parser!Text /\ Len(t3) = PortAt(a) - 1
  <2>1. t3 \in Parser!Text /\ Len(t3) = Len(t2) + Len(Host(a))
    BY <1>1, <1>6, CatType
  <2> HIDE DEF t3
  <2> QED
    BY <1>17, <1>18, <1>6, <2>1, SMTT(30) DEF PortAt
<1> HIDE DEF t3
<1>8. t4 \in Parser!Text /\ Len(t4) = RootAt(a) - 1
  <2>1. t4 \in Parser!Text /\ Len(t4) = Len(t3) + Len(PortText(a))
    BY <1>1, <1>7, CatType
  <2> HIDE DEF t4
  <2> QED
    BY <1>17, <1>18, <1>7, <2>1, SMTT(30) DEF RootAt
<1> HIDE DEF t4
<1>9. t5 \in Parser!Text /\ Len(t5) = RootAt(a)
  <2>1. t5 \in Parser!Text /\ Len(t5) = Len(t4) + Len(<<"/">>)
    BY <1>2, <1>8, CatType
  <2> HIDE DEF t5
  <2> QED
    BY <1>2, <1>8, <1>18, <2>1
<1> HIDE DEF t5
<1>10. t6 \in Parser!Text /\ Len(t6) = PageAt(a) - 1
  BY <1>1, <1>9, CatType DEF PageAt
<1> HIDE DEF t6
<1>11. t7 \in Parser!Text /\ Len(t7) = EndAt(a) - 1
  <2>1. t7 \in Parser!Text /\ Len(t7) = Len(t6) + Len(a.page)
    BY <1>1, <1>10, CatType
  <2> HIDE DEF t7
  <2>2. EndAt(a) = PageAt(a) + Len(a.page)
    BY DEF EndAt
  <2>3. Len(t6) + Len(a.page) = EndAt(a) - 1
    <3> DEFINE l == Len(a.page)
               x == PageAt(a)
    <3>1. Len(t6) = x - 1 /\ x \in Nat /\ l \in Nat /\ EndAt(a) = x + l
      BY <1>17, <1>18, <1>10, <2>2
    <3> HIDE DEF l, x
    <3>2. Len(t6) + l = EndAt(a) - 1
      BY <3>1
    <3> QED
      BY <3>2 DEF l
  <2> QED
    BY <2>1, <2>3
<1> HIDE DEF t7
<1>12. t8 \in Parser!Text /\ Len(t8) = EndAt(a) - 1 + Len(QueryText(u))
  BY <1>1, <1>11, CatType
<1> HIDE DEF t8
<1>13. t8 \o Parser!Empty = t8
  BY <1>12 DEF Parser!Text, Parser!Empty
<1>14. url = t8
  BY <1>4, <1>13
<1>15. StandsAt(url, 1, t8)
  BY <1>12, <1>14 DEF StandsAt, Parser!Text
<1>20. StandsAt(url, 1, t7) /\ StandsAt(url, EndAt(a), QueryText(u))
  <2>1. StandsAt(url, 1, t7 \o QueryText(u))
    BY <1>15 DEF t8
  <2>2. t7 \in Parser!Text /\ QueryText(u) \in Parser!Text /\ url \in Parser!Text /\ 1 \in Nat \ {0}
    BY <1>1, <1>11, <1>12, <1>14
  <2>3. StandsAt(url, 1, t7) /\ StandsAt(url, 1 + Len(t7), QueryText(u))
    BY <2>1, <2>2, StandsCat
  <2>4. 1 + Len(t7) = EndAt(a)
    BY <1>18, <1>11
  <2> QED
    BY <2>3, <2>4
<1>21. StandsAt(url, 1, t6) /\ StandsAt(url, PageAt(a), a.page)
  <2>1. StandsAt(url, 1, t6 \o a.page)
    BY <1>20 DEF t7
  <2>2. t6 \in Parser!Text /\ a.page \in Parser!Text /\ url \in Parser!Text /\ 1 \in Nat \ {0}
    BY <1>1, <1>10, <1>12, <1>14
  <2>3. StandsAt(url, 1, t6) /\ StandsAt(url, 1 + Len(t6), a.page)
    BY <2>1, <2>2, StandsCat
  <2>4. 1 + Len(t6) = PageAt(a)
    BY <1>18, <1>10
  <2> QED
    BY <2>3, <2>4
<1>22. StandsAt(url, 1, t5) /\ StandsAt(url, RootAt(a) + 1, Directory(a))
  <2>1. StandsAt(url, 1, t5 \o Directory(a))
    BY <1>21 DEF t6
  <2>2. t5 \in Parser!Text /\ Directory(a) \in Parser!Text /\ url \in Parser!Text /\ 1 \in Nat \ {0}
    BY <1>1, <1>9, <1>12, <1>14
  <2>3. StandsAt(url, 1, t5) /\ StandsAt(url, 1 + Len(t5), Directory(a))
    BY <2>1, <2>2, StandsCat
  <2>4. 1 + Len(t5) = RootAt(a) + 1
    BY <1>18, <1>9
  <2> QED
    BY <2>3, <2>4
<1>23. StandsAt(url, 1, t4) /\ StandsAt(url, RootAt(a), <<"/">>)
  <2>1. StandsAt(url, 1, t4 \o <<"/">>)
    BY <1>22 DEF t5
  <2>2. t4 \in Parser!Text /\ <<"/">> \in Parser!Text /\ url \in Parser!Text /\ 1 \in Nat \ {0}
    BY <1>2, <1>8, <1>12, <1>14
  <2>3. StandsAt(url, 1, t4) /\ StandsAt(url, 1 + Len(t4), <<"/">>)
    BY <2>1, <2>2, StandsCat
  <2>4. 1 + Len(t4) = RootAt(a)
    BY <1>18, <1>8
  <2> QED
    BY <2>3, <2>4
<1>24. StandsAt(url, 1, t3) /\ StandsAt(url, PortAt(a), PortText(a))
  <2>1. StandsAt(url, 1, t3 \o PortText(a))
    BY <1>23 DEF t4
  <2>2. t3 \in Parser!Text /\ PortText(a) \in Parser!Text /\ url \in Parser!Text /\ 1 \in Nat \ {0}
    BY <1>1, <1>7, <1>12, <1>14
  <2>3. StandsAt(url, 1, t3) /\ StandsAt(url, 1 + Len(t3), PortText(a))
    BY <2>1, <2>2, StandsCat
  <2>4. 1 + Len(t3) = PortAt(a)
    BY <1>18, <1>7
  <2> QED
    BY <2>3, <2>4
<1>25. StandsAt(url, 1, t2) /\ StandsAt(url, HostAt(a), Host(a))
  <2>1. StandsAt(url, 1, t2 \o Host(a))
    BY <1>24 DEF t3
  <2>2. t2 \in Parser!Text /\ Host(a) \in Parser!Text /\ url \in Parser!Text /\ 1 \in Nat \ {0}
    BY <1>1, <1>6, <1>12, <1>14
  <2>3. StandsAt(url, 1, t2) /\ StandsAt(url, 1 + Len(t2), Host(a))
    BY <2>1, <2>2, StandsCat
  <2>4. 1 + Len(t2) = HostAt(a)
    BY <1>18, <1>6
  <2> QED
    BY <2>3, <2>4
<1>26. StandsAt(url, 1, t1) /\ StandsAt(url, LoginAt(a), LoginText(a))
  <2>1. StandsAt(url, 1, t1 \o LoginText(a))
    BY <1>25 DEF t2
  <2>2. t1 \in Parser!Text /\ LoginText(a) \in Parser!Text /\ url \in Parser!Text /\ 1 \in Nat \ {0}
    BY <1>1, <1>5, <1>12, <1>14
  <2>3. StandsAt(url, 1, t1) /\ StandsAt(url, 1 + Len(t1), LoginText(a))
    BY <2>1, <2>2, StandsCat
  <2>4. 1 + Len(t1) = LoginAt(a)
    BY <1>18, <1>5
  <2> QED
    BY <2>3, <2>4
<1>27. url[RootAt(a)] = "/"
  <2>1. 1 \in 1..Len(<<"/">>) /\ <<"/">>[1] = "/"
    BY <1>2
  <2>2. url[RootAt(a) + 1 - 1] = "/"
    BY <1>23, <2>1 DEF StandsAt
  <2>3. RootAt(a) + 1 - 1 = RootAt(a)
    BY <1>18
  <2> QED
    BY <2>2, <2>3
<1>28. Len(url) = EndAt(a) - 1 + Len(QueryText(u)) /\ url \in Parser!Text /\ StandsAt(url, 1, SchemeText(a))
  BY <1>12, <1>14, <1>26 DEF t1
<1>29. LaidOut(u)
  BY <1>20, <1>21, <1>22, <1>24, <1>25, <1>26, <1>27, <1>28 DEF LaidOut, a
<1> QED
  BY <1>28, <1>29

-------------------------------------------------------------------------------
(* URLs that can be read again *)

LEMMA FreeCat ==
  ASSUME NEW x \in Parser!Text, NEW y \in Parser!Text, NEW chars, Parser!Free(x, chars), Parser!Free(y, chars)
  PROVE  Parser!Free(x \o y, chars)
<1>1. ASSUME NEW k \in 1..Len(x \o y) PROVE (x \o y)[k] \notin chars
  <2>1. Len(x) \in Nat /\ Len(y) \in Nat /\ Len(x \o y) = Len(x) + Len(y)
    BY CatType DEF Parser!Text
  <2>2. CASE k \in 1..Len(x)
    <3>1. (x \o y)[k] = x[k]
      BY <2>2 DEF Parser!Text
    <3> QED
      BY <2>2, <3>1 DEF Parser!Free
  <2>3. CASE ~ (k \in 1..Len(x))
    <3>1. k - Len(x) \in 1..Len(y)
      BY <2>1, <2>3
    <3>2. (x \o y)[k] = y[k - Len(x)]
      BY <2>1, <2>3, <3>1 DEF Parser!Text
    <3> QED
      BY <3>1, <3>2 DEF Parser!Free
  <2> QED
    BY <2>2, <2>3
<1> QED
  BY <1>1 DEF Parser!Free

LEMMA FreeChar ==
  ASSUME NEW d \in Parser!Character, NEW chars, d \notin chars
  PROVE  Parser!Free(<<d>>, chars)
BY OneChar DEF Parser!Free

LEMMA FreeEmpty == \A chars : Parser!Free(Parser!Empty, chars)
BY DEF Parser!Free, Parser!Empty

LEMMA FreeBetween ==
  ASSUME NEW parts \in Seq(Parser!Text), NEW d \in Parser!Character, NEW chars, d \notin chars,
         \A k \in 1..Len(parts) : Parser!Free(parts[k], chars)
  PROVE  Parser!Free(Parser!Between(parts, <<d>>), chars)
<1>1. <<d>> \in Parser!Text /\ Parser!Free(<<d>>, chars)
  BY OneChar, FreeChar
<1>2. PICK f : GluesUp(f, parts, <<d>>) /\ Parser!Between(parts, <<d>>) = f[Len(parts)]
  BY <1>1, BetweenDef
<1> DEFINE n == Len(parts)
           S == {k \in 0..n : Parser!Free(f[k], chars)}
<1>3. n \in Nat
  OBVIOUS
<1>4. 0 \in S
  BY <1>2, <1>3, FreeEmpty DEF GluesUp
<1>5. ASSUME NEW k \in 0..n - 1, k \in S PROVE k + 1 \in S
  <2>1. k + 1 \in 1..n /\ (k + 1) - 1 = k /\ k + 1 \in 0..n /\ k \in 0..n
    BY <1>3
  <2>2. f[k + 1] = Glued(f[k], k + 1, parts[k + 1], <<d>>) /\ f[k] \in Parser!Text /\ parts[k + 1] \in Parser!Text
    BY <1>2, <2>1 DEF GluesUp
  <2>3. Parser!Free(f[k], chars) /\ Parser!Free(parts[k + 1], chars)
    BY <1>5, <2>1
  <2> DEFINE e == IF k + 1 = 1 THEN Parser!Empty ELSE <<d>>
  <2>4. e \in Parser!Text /\ Parser!Free(e, chars)
    BY <1>1, EmptyText, FreeEmpty
  <2> HIDE DEF e
  <2>5. f[k] \o e \in Parser!Text /\ Parser!Free(f[k] \o e, chars)
    BY <2>2, <2>3, <2>4, CatType, FreeCat
  <2>6. Parser!Free((f[k] \o e) \o parts[k + 1], chars)
    BY <2>2, <2>3, <2>5, FreeCat
  <2>7. f[k + 1] = (f[k] \o e) \o parts[k + 1]
    BY <2>2 DEF Glued, e
  <2> QED
    BY <2>1, <2>6, <2>7
<1> HIDE DEF S, n
<1>6. \A k \in 0..n : k \in S
  BY <1>3, <1>4, <1>5, Ascend
<1>7. n \in 0..n
  BY <1>3
<1> QED
  BY <1>2, <1>6, <1>7 DEF S, n

\* What stands somewhere is free there.
LEMMA FreeThere ==
  ASSUME NEW w \in Parser!Text, NEW p \in Nat \ {0}, NEW x \in Parser!Text, StandsAt(w, p, x), NEW chars, Parser!Free(x, chars)
  PROVE  \A k \in p..p + Len(x) - 1 : w[k] \notin chars
<1> SUFFICES ASSUME NEW k \in p..p + Len(x) - 1 PROVE w[k] \notin chars
  OBVIOUS
<1>1. Len(x) \in Nat
  BY DEF Parser!Text
<1>2. k - p + 1 \in 1..Len(x) /\ p + (k - p + 1) - 1 = k
  BY <1>1
<1>3. w[p + (k - p + 1) - 1] = x[k - p + 1]
  BY <1>2 DEF StandsAt
<1> QED
  BY <1>2, <1>3 DEF Parser!Free

-------------------------------------------------------------------------------
(* What stands in each part of the URL *)

IsRead(u) == Parser!Readable(u) /\ url = Parser!Written(u)

LEMMA ReadFacts ==
  ASSUME NEW u, IsRead(u)
  PROVE  /\ u \in Parser!UrlType /\ url \in Parser!Text /\ LaidOut(u) /\ Len(url) \in Nat
         /\ u.attributes \in Parser!AttributesType
         /\ u.attributes.scheme \in Parser!Text /\ u.attributes.username \in Parser!Text /\ u.attributes.password \in Parser!Text
         /\ u.attributes.domain \in Seq(Parser!Text) /\ u.attributes.port \in Parser!Text /\ u.attributes.path \in Seq(Parser!Text)
         /\ u.attributes.page \in Parser!Text /\ u.query \in Seq(Parser!Text \X Parser!Text)
<1>1. u \in Parser!UrlType /\ url = Parser!Written(u)
  BY DEF IsRead, Parser!Readable
<1>2. url \in Parser!Text /\ LaidOut(u)
  BY <1>1, WrittenLaidOut
<1>3. Len(url) \in Nat
  BY <1>2 DEF Parser!Text
<1>4. u.attributes \in Parser!AttributesType /\ u.query \in Seq(Parser!Text \X Parser!Text)
  BY <1>1 DEF Parser!UrlType
<1> QED
  BY <1>1, <1>2, <1>3, <1>4 DEF Parser!AttributesType

LEMMA LenFacts ==
  ASSUME NEW w \in Parser!Text PROVE Len(w) \in Nat /\ (w = Parser!Empty <=> Len(w) = 0)
BY DEF Parser!Text, Parser!Empty

LEMMA SchemeFacts ==
  ASSUME NEW u, IsRead(u), u.attributes.scheme # Parser!Empty
  PROVE  /\ Len(u.attributes.scheme) \in Nat \ {0}
         /\ LoginAt(u.attributes) = Len(u.attributes.scheme) + 4
         /\ StandsAt(url, 1, u.attributes.scheme)
         /\ url[Len(u.attributes.scheme) + 1] = ":"
         /\ url[Len(u.attributes.scheme) + 2] = "/" /\ url[Len(u.attributes.scheme) + 3] = "/"
<1> DEFINE s == u.attributes.scheme
           m == <<":", "/", "/">>
<1>1. url \in Parser!Text /\ s \in Parser!Text /\ StandsAt(url, 1, SchemeText(u.attributes))
  BY ReadFacts DEF LaidOut
<1>2. Len(s) \in Nat \ {0}
  BY <1>1, LenFacts
<1>3. SchemeText(u.attributes) = s \o m
  BY DEF SchemeText
<1>4. m \in Parser!Text /\ Len(m) = 3 /\ m[1] = ":" /\ m[2] = "/" /\ m[3] = "/"
  <2>1. ":" \in Parser!Character /\ "/" \in Parser!Character
    BY DEF Parser!Character, Parser!Delimiter
  <2>2. \A x, y, z \in Parser!Character : <<x, y, z>> \in Seq(Parser!Character)
    OBVIOUS
  <2> QED
    BY <2>1, <2>2 DEF Parser!Text
<1> HIDE DEF s, m
<1>5. StandsAt(url, 1, s) /\ StandsAt(url, 1 + Len(s), m)
  <2>1. 1 \in Nat \ {0} /\ StandsAt(url, 1, s \o m)
    BY <1>1, <1>3
  <2> QED
    BY <1>1, <1>4, <2>1, StandsCat
<1>6. url[Len(s) + 1] = ":" /\ url[Len(s) + 2] = "/" /\ url[Len(s) + 3] = "/"
  <2>1. 1 \in 1..Len(m) /\ 2 \in 1..Len(m) /\ 3 \in 1..Len(m)
    BY <1>4
  <2>2. url[1 + Len(s) + 1 - 1] = ":" /\ url[1 + Len(s) + 2 - 1] = "/" /\ url[1 + Len(s) + 3 - 1] = "/"
    BY <1>4, <1>5, <2>1 DEF StandsAt
  <2>3. 1 + Len(s) + 1 - 1 = Len(s) + 1 /\ 1 + Len(s) + 2 - 1 = Len(s) + 2 /\ 1 + Len(s) + 3 - 1 = Len(s) + 3
    BY <1>2
  <2> QED
    BY <2>2, <2>3
<1>7. LoginAt(u.attributes) = Len(s) + 4
  <2>1. Len(s \o m) = Len(s) + 3
    BY <1>1, <1>4, CatType
  <2> QED
    BY <1>2, <1>3, <2>1 DEF LoginAt
<1> QED
  BY <1>2, <1>5, <1>6, <1>7 DEF s

LEMMA LoginFacts ==
  ASSUME NEW u, IsRead(u), u.attributes.username # Parser!Empty
  PROVE  /\ Len(u.attributes.username) \in Nat \ {0} /\ Len(u.attributes.password) \in Nat \ {0}
         /\ HostAt(u.attributes) = LoginAt(u.attributes) + Len(u.attributes.username) + Len(u.attributes.password) + 2
         /\ StandsAt(url, LoginAt(u.attributes), u.attributes.username)
         /\ url[LoginAt(u.attributes) + Len(u.attributes.username)] = ":"
         /\ StandsAt(url, LoginAt(u.attributes) + Len(u.attributes.username) + 1, u.attributes.password)
         /\ url[HostAt(u.attributes) - 1] = "@"
<1> DEFINE a == u.attributes
           s == a.username
           t == a.password
           p == LoginAt(a)
<1>1. url \in Parser!Text /\ s \in Parser!Text /\ t \in Parser!Text /\ StandsAt(url, p, LoginText(a))
  BY ReadFacts DEF LaidOut
<1>2. s # Parser!Empty /\ t # Parser!Empty
  BY DEF IsRead, Parser!Readable, Parser!LoginReadable
<1>3. Len(s) \in Nat \ {0} /\ Len(t) \in Nat \ {0}
  BY <1>1, <1>2, LenFacts
<1>4. LoginText(a) = (s \o (<<":">> \o t)) \o <<"@">>
  BY <1>2 DEF LoginText
<1>5. p \in Nat \ {0}
  BY ReadFacts, PositionTypes
<1>6. /\ <<":">> \in Parser!Text /\ Len(<<":">>) = 1 /\ <<":">>[1] = ":"
      /\ <<"@">> \in Parser!Text /\ Len(<<"@">>) = 1 /\ <<"@">>[1] = "@"
  <2>1. ":" \in Parser!Character /\ "@" \in Parser!Character
    BY DEF Parser!Character, Parser!Delimiter
  <2> QED
    BY <2>1, OneChar
<1>7. HostAt(a) = p + Len(LoginText(a))
  BY DEF HostAt
<1> HIDE DEF a, s, t, p
<1>8. <<":">> \o t \in Parser!Text /\ Len(<<":">> \o t) = 1 + Len(t)
  BY <1>1, <1>6, CatType
<1>9. s \o (<<":">> \o t) \in Parser!Text /\ Len(s \o (<<":">> \o t)) = Len(s) + 1 + Len(t)
  <2>1. s \o (<<":">> \o t) \in Parser!Text /\ Len(s \o (<<":">> \o t)) = Len(s) + Len(<<":">> \o t)
    BY <1>1, <1>8, CatType
  <2> QED
    BY <1>3, <1>8, <2>1
<1>10. Len(LoginText(a)) = Len(s) + Len(t) + 2
  <2>1. Len(LoginText(a)) = Len(s \o (<<":">> \o t)) + 1
    BY <1>4, <1>6, <1>9, CatType
  <2> QED
    BY <1>3, <1>9, <2>1
<1>11. StandsAt(url, p, s \o (<<":">> \o t)) /\ StandsAt(url, p + Len(s \o (<<":">> \o t)), <<"@">>)
  <2>1. StandsAt(url, p, (s \o (<<":">> \o t)) \o <<"@">>)
    BY <1>1, <1>4
  <2> QED
    BY <1>1, <1>5, <1>6, <1>9, <2>1, StandsCat
<1>12. StandsAt(url, p, s) /\ StandsAt(url, p + Len(s), <<":">> \o t)
  BY <1>1, <1>5, <1>8, <1>11, StandsCat
<1>13. StandsAt(url, p + Len(s), <<":">>) /\ StandsAt(url, p + Len(s) + Len(<<":">>), t)
  <2>1. p + Len(s) \in Nat \ {0}
    BY <1>3, <1>5
  <2> QED
    BY <1>1, <1>6, <1>12, <2>1, StandsCat
<1>14. url[p + Len(s)] = ":"
  <2>1. 1 \in 1..Len(<<":">>) /\ <<":">>[1] = ":"
    BY <1>6
  <2>2. url[p + Len(s) + 1 - 1] = ":"
    BY <1>13, <2>1 DEF StandsAt
  <2>3. p + Len(s) + 1 - 1 = p + Len(s)
    BY <1>3, <1>5
  <2> QED
    BY <2>2, <2>3
<1>15. url[HostAt(a) - 1] = "@"
  <2> DEFINE z == p + Len(s \o (<<":">> \o t))
  <2>1. 1 \in 1..Len(<<"@">>) /\ <<"@">>[1] = "@"
    BY <1>6
  <2>2. url[z + 1 - 1] = "@"
    BY <1>11, <2>1 DEF StandsAt
  <2>3. z + 1 - 1 = HostAt(a) - 1
    BY <1>3, <1>5, <1>7, <1>9, <1>10
  <2> QED
    BY <2>2, <2>3
<1>16. HostAt(a) = p + Len(s) + Len(t) + 2 /\ p + Len(s) + Len(<<":">>) = p + Len(s) + 1
  BY <1>3, <1>5, <1>6, <1>7, <1>10
<1>17. StandsAt(url, p + Len(s) + 1, t)
  BY <1>13, <1>16
<1> QED
  BY <1>3, <1>12, <1>14, <1>15, <1>16, <1>17 DEF a, s, t, p

LEMMA NamedChars ==
  /\ {":", "/", "@", ".", "?", "=", "&", "#"} \subseteq Parser!Character
  /\ \A d \in Parser!Delimiter : d \in Parser!Character /\ <<d>> \in Parser!Text /\ Len(<<d>>) = 1 /\ <<d>>[1] = d
<1>1. \A d \in Parser!Delimiter : d \in Parser!Character
  BY DEF Parser!Character
<1> QED
  BY <1>1, OneChar DEF Parser!Delimiter

LEMMA HostFacts ==
  ASSUME NEW u, IsRead(u)
  PROVE  /\ HostAt(u.attributes) < PortAt(u.attributes)
         /\ \A k \in HostAt(u.attributes)..PortAt(u.attributes) - 1 : url[k] \notin {":", "/", "@"}
         /\ Parser!CutAt(HostAt(u.attributes), PortAt(u.attributes), ".") = u.attributes.domain
         /\ u.attributes.scheme = Parser!Empty =>
              \E e \in HostAt(u.attributes)..PortAt(u.attributes) - 1 : url[e] = "."
<1> DEFINE a == u.attributes
           p == HostAt(a)
           q == PortAt(a)
           d == a.domain
<1>1. url \in Parser!Text /\ d \in Seq(Parser!Text) /\ StandsAt(url, p, Host(a)) /\ Len(url) \in Nat
  BY ReadFacts DEF LaidOut
<1>2. /\ Len(d) # 0 /\ (a.scheme = Parser!Empty => Len(d) > 1)
      /\ \A k \in 1..Len(d) : d[k] # Parser!Empty /\ Parser!Free(d[k], {".", ":", "/", "@"})
  BY DEF IsRead, Parser!Readable, Parser!HostReadable
<1>3. p \in Nat \ {0} /\ q \in Nat \ {0}
  BY ReadFacts, PositionTypes
<1>4. q = p + Len(Host(a)) /\ Host(a) = Parser!Between(d, <<".">>) /\ Host(a) \in Parser!Text
  BY ReadFacts, TextTypes DEF PortAt, Host
<1> HIDE DEF a, p, q, d
<1>5. "." \in Parser!Character
  BY NamedChars
<1>6. \A k \in p..q - 1 : url[k] \notin {":", "/", "@"}
  <2>1. \A k \in 1..Len(d) : Parser!Free(d[k], {":", "/", "@"})
    BY <1>2 DEF Parser!Free
  <2>2. Parser!Free(Host(a), {":", "/", "@"})
    <3> DEFINE chars == {":", "/", "@"}
    <3>1. "." \notin chars /\ \A k \in 1..Len(d) : Parser!Free(d[k], chars)
      BY <2>1
    <3> HIDE DEF chars
    <3>2. Parser!Free(Parser!Between(d, <<".">>), chars)
      BY <1>1, <1>5, <3>1, FreeBetween
    <3> QED
      BY <1>4, <3>2 DEF chars
  <2> QED
    BY <1>1, <1>3, <1>4, <2>2, FreeThere
<1>7. Parser!CutAt(p, q, ".") = d
  <2>1. \A k \in 1..Len(d) : Parser!Free(d[k], {"."})
    BY <1>2 DEF Parser!Free
  <2>2. StandsAt(url, p, Parser!Between(d, <<".">>))
    BY <1>1, <1>4
  <2> QED
    BY <1>1, <1>2, <1>3, <1>4, <1>5, <2>1, <2>2, CutsBack
<1>8. PICK c : Placed(c, d, p, ".") /\ c[Len(d)] = q
  <2>2. StandsAt(url, p, Parser!Between(d, <<".">>))
    BY <1>1, <1>4
  <2>3. \E c : Placed(c, d, p, ".") /\ c[Len(d)] = p + Len(Parser!Between(d, <<".">>))
    BY <1>1, <1>2, <1>3, <1>5, <2>2, PartsPlaced
  <2> QED
    BY <1>4, <2>3
<1>9. Len(d) \in Nat /\ 1 \in 1..Len(d) /\ 1 \in 0..Len(d) /\ Len(d) \in 1..Len(d)
  BY <1>1, <1>2
<1>10. c[1] = p + Len(d[1]) /\ Len(d[1]) \in Nat \ {0} /\ c[1] + (Len(d) - 1) <= q
  <2>1. c[1] = c[1 - 1] + 1 + Len(d[1]) /\ c[0] = p - 1
    BY <1>8, <1>9 DEF Placed
  <2>2. d[1] \in Parser!Text /\ d[1] # Parser!Empty
    BY <1>1, <1>2, <1>9
  <2>3. Len(d[1]) \in Nat \ {0}
    BY <2>2, LenFacts
  <2>4. c[1] + (Len(d) - 1) <= q
    BY <1>1, <1>3, <1>8, <1>9, PlacedApart
  <2> QED
    BY <1>3, <2>1, <2>3, <2>4
<1>11. p < q
  BY <1>3, <1>9, <1>10
<1>12. ASSUME a.scheme = Parser!Empty PROVE \E e \in p..q - 1 : url[e] = "."
  <2>1. 1 \in 1..Len(d) - 1
    BY <1>2, <1>9, <1>12
  <2>2. url[c[1]] = "."
    BY <1>8, <2>1 DEF Placed
  <2>3. c[1] \in p..q - 1
    BY <1>3, <1>9, <1>10, <2>1
  <2> QED
    BY <2>2, <2>3
<1> QED
  BY <1>6, <1>7, <1>11, <1>12 DEF a, p, q, d

LEMMA PortFacts ==
  ASSUME NEW u, IsRead(u)
  PROVE  /\ u.attributes.port = Parser!Empty => RootAt(u.attributes) = PortAt(u.attributes)
         /\ u.attributes.port # Parser!Empty =>
              /\ url[PortAt(u.attributes)] = ":"
              /\ StandsAt(url, PortAt(u.attributes) + 1, u.attributes.port)
              /\ RootAt(u.attributes) = PortAt(u.attributes) + 1 + Len(u.attributes.port)
         /\ \A k \in PortAt(u.attributes) + 1..RootAt(u.attributes) - 1 : url[k] \notin {":", "/", "@"}
         /\ url[RootAt(u.attributes)] = "/" /\ RootAt(u.attributes) <= Len(url)
<1> DEFINE a == u.attributes
           p == PortAt(a)
           s == a.port
<1>1. url \in Parser!Text /\ s \in Parser!Text /\ StandsAt(url, p, PortText(a)) /\ Len(url) \in Nat
      /\ url[RootAt(a)] = "/" /\ StandsAt(url, RootAt(a) + 1, Directory(a))
  BY ReadFacts DEF LaidOut
<1>2. Parser!Free(s, {":", "/", "@"})
  BY DEF IsRead, Parser!Readable, Parser!HostReadable
<1>3. p \in Nat \ {0} /\ RootAt(a) \in Nat \ {0} /\ Len(s) \in Nat /\ (s = Parser!Empty <=> Len(s) = 0)
  BY <1>1, ReadFacts, PositionTypes, LenFacts
<1>4. RootAt(a) = p + Len(PortText(a)) /\ PortText(a) = IF s = Parser!Empty THEN Parser!Empty ELSE <<":">> \o s
  BY DEF RootAt, PortText
<1>5. Directory(a) \in Parser!Text
  BY ReadFacts, TextTypes
<1> HIDE DEF a, p, s
<1>6. RootAt(a) <= Len(url)
  <2>1. Len(Directory(a)) \in Nat
    BY <1>5, LenFacts
  <2>2. RootAt(a) + 1 + Len(Directory(a)) <= Len(url) + 1
    BY <1>1 DEF StandsAt
  <2> QED
    BY <1>1, <1>3, <2>1, <2>2
<1>7. ":" \in Parser!Character /\ <<":">> \in Parser!Text /\ Len(<<":">>) = 1 /\ <<":">>[1] = ":"
  BY NamedChars DEF Parser!Delimiter
<1>8. CASE s = Parser!Empty
  <2>1. RootAt(a) = p
    BY <1>3, <1>4, <1>8, EmptyText
  <2>2. \A k \in p + 1..RootAt(a) - 1 : FALSE
    BY <1>3, <2>1
  <2> QED
    BY <1>1, <1>6, <1>8, <2>1, <2>2 DEF a, p, s
<1>9. CASE s # Parser!Empty
  <2>1. StandsAt(url, p, <<":">>) /\ StandsAt(url, p + Len(<<":">>), s)
    <3>1. StandsAt(url, p, <<":">> \o s)
      BY <1>1, <1>4, <1>9
    <3> QED
      BY <1>1, <1>3, <1>7, <3>1, StandsCat
  <2>2. url[p] = ":"
    <3>1. 1 \in 1..Len(<<":">>) /\ <<":">>[1] = ":"
      BY <1>7
    <3>2. url[p + 1 - 1] = ":"
      BY <2>1, <3>1 DEF StandsAt
    <3>3. p + 1 - 1 = p
      BY <1>3
    <3> QED
      BY <3>2, <3>3
  <2>3. StandsAt(url, p + 1, s)
    BY <1>7, <2>1
  <2>4. RootAt(a) = p + 1 + Len(s)
    <3>1. Len(<<":">> \o s) = 1 + Len(s)
      BY <1>1, <1>7, CatType
    <3> QED
      BY <1>3, <1>4, <1>9, <3>1
  <2>5. \A k \in p + 1..RootAt(a) - 1 : url[k] \notin {":", "/", "@"}
    <3>1. p + 1 \in Nat \ {0}
      BY <1>3
    <3> DEFINE z == p + 1
    <3>2. \A k \in z..z + Len(s) - 1 : url[k] \notin {":", "/", "@"}
      <4>1. z \in Nat \ {0} /\ StandsAt(url, z, s)
        BY <2>3, <3>1
      <4> HIDE DEF z
      <4> QED
        BY <1>1, <1>2, <4>1, FreeThere
    <3>3. RootAt(a) - 1 = z + Len(s) - 1
      BY <1>3, <2>4
    <3> HIDE DEF z
    <3>4. \A k \in z..RootAt(a) - 1 : url[k] \notin {":", "/", "@"}
      BY <3>2, <3>3
    <3> QED
      BY <3>4 DEF z
  <2> QED
    BY <1>1, <1>6, <1>9, <2>2, <2>3, <2>4, <2>5 DEF a, p, s
<1> QED
  BY <1>8, <1>9

LEMMA DirectoryFacts ==
  ASSUME NEW u, IsRead(u)
  PROVE  /\ url[PageAt(u.attributes) - 1] = "/" /\ PageAt(u.attributes) <= Len(url) + 1
         /\ u.attributes.path = Parser!Empty => PageAt(u.attributes) = RootAt(u.attributes) + 1
         /\ u.attributes.path # Parser!Empty =>
              /\ RootAt(u.attributes) + 1 < PageAt(u.attributes)
              /\ Parser!CutAt(RootAt(u.attributes) + 1, PageAt(u.attributes) - 1, "/") = u.attributes.path
<1> DEFINE a == u.attributes
           p == RootAt(a) + 1
           h == a.path
           b == Parser!Between(h, <<"/">>)
<1>1. url \in Parser!Text /\ h \in Seq(Parser!Text) /\ StandsAt(url, p, Directory(a)) /\ Len(url) \in Nat /\ url[RootAt(a)] = "/"
  BY ReadFacts DEF LaidOut
<1>2. \A k \in 1..Len(h) : Parser!Free(h[k], {"/"})
  BY DEF IsRead, Parser!Readable, Parser!PathReadable
<1>3. RootAt(a) \in Nat \ {0} /\ p \in Nat \ {0} /\ Len(h) \in Nat /\ (h = Parser!Empty <=> Len(h) = 0)
  <2>1. RootAt(a) \in Nat \ {0}
    BY ReadFacts, PositionTypes
  <2>2. h = Parser!Empty <=> Len(h) = 0
    BY <1>1 DEF Parser!Empty
  <2> QED
    BY <1>1, <2>1, <2>2
<1>4. PageAt(a) = p + Len(Directory(a)) /\ Directory(a) = IF h = Parser!Empty THEN Parser!Empty ELSE b \o <<"/">>
  BY DEF PageAt, Directory, Parser!AfterEach
<1>5. Directory(a) \in Parser!Text
  BY ReadFacts, TextTypes
<1>6. RootAt(a) = p - 1 /\ p = RootAt(a) + 1
  BY <1>3
<1>7. "/" \in Parser!Character /\ <<"/">> \in Parser!Text /\ Len(<<"/">>) = 1 /\ <<"/">>[1] = "/"
  BY NamedChars DEF Parser!Delimiter
<1>8. b \in Parser!Text
  BY <1>1, <1>7, BetweenFacts
<1>9. p + Len(Directory(a)) <= Len(url) + 1
  BY <1>1 DEF StandsAt
<1> HIDE DEF a, p, h
<1>10. CASE h = Parser!Empty
  <2>1. PageAt(a) = p
    BY <1>3, <1>4, <1>10, EmptyText
  <2> QED
    BY <1>1, <1>3, <1>4, <1>6, <1>9, <1>10, <2>1 DEF a, h
<1>11. CASE h # Parser!Empty
  <2> HIDE DEF b
  <2>1. StandsAt(url, p, b) /\ StandsAt(url, p + Len(b), <<"/">>)
    <3>1. StandsAt(url, p, b \o <<"/">>)
      BY <1>1, <1>4, <1>11
    <3> QED
      BY <1>1, <1>3, <1>7, <1>8, <3>1, StandsCat
  <2>2. Len(b) \in Nat /\ PageAt(a) = p + Len(b) + 1
    <3>1. Len(b \o <<"/">>) = Len(b) + 1 /\ Len(b) \in Nat
      BY <1>7, <1>8, CatType, LenFacts
    <3> QED
      BY <1>3, <1>4, <1>11, <3>1
  <2>3. url[PageAt(a) - 1] = "/"
    <3>1. 1 \in 1..Len(<<"/">>) /\ <<"/">>[1] = "/"
      BY <1>7
    <3>2. url[p + Len(b) + 1 - 1] = "/"
      BY <2>1, <3>1 DEF StandsAt
    <3>3. p + Len(b) + 1 - 1 = PageAt(a) - 1
      BY <1>3, <2>2
    <3> QED
      BY <3>2, <3>3
  <2>4. Parser!CutAt(p, PageAt(a) - 1, "/") = h
    <3>1. StandsAt(url, p, Parser!Between(h, <<"/">>)) /\ Len(h) # 0
      BY <1>3, <1>11, <2>1 DEF b
    <3>2. Parser!CutAt(p, p + Len(Parser!Between(h, <<"/">>)), "/") = h
      BY <1>1, <1>2, <1>3, <1>7, <3>1, CutsBack
    <3>3. PageAt(a) - 1 = p + Len(b)
      BY <1>3, <2>2
    <3> QED
      BY <3>2, <3>3 DEF b
  <2>5. PageAt(a) <= Len(url) + 1
    BY <1>4, <1>9
  <2>6. p < PageAt(a)
    BY <1>3, <2>2
  <2> QED
    BY <1>6, <1>11, <2>3, <2>4, <2>5, <2>6 DEF a, h
<1> QED
  BY <1>10, <1>11

LEMMA PageFacts ==
  ASSUME NEW u, IsRead(u)
  PROVE  /\ StandsAt(url, PageAt(u.attributes), u.attributes.page)
         /\ \A k \in PageAt(u.attributes)..EndAt(u.attributes) - 1 : url[k] \notin {"/", "?"}
         /\ \A k \in EndAt(u.attributes)..Len(url) : url[k] \notin {"/", "#"}
         /\ u.query = Parser!Empty => Len(url) = EndAt(u.attributes) - 1
         /\ u.query # Parser!Empty =>
              /\ url[EndAt(u.attributes)] = "?"
              /\ StandsAt(url, EndAt(u.attributes) + 1, Parser!Between(Pairs(u), <<"&">>))
              /\ Len(url) = EndAt(u.attributes) + Len(Parser!Between(Pairs(u), <<"&">>))
<1> DEFINE a == u.attributes
           p == PageAt(a)
           q == EndAt(a)
           b == Parser!Between(Pairs(u), <<"&">>)
<1>1. /\ url \in Parser!Text /\ a.page \in Parser!Text /\ StandsAt(url, p, a.page) /\ Len(url) \in Nat
      /\ StandsAt(url, q, QueryText(u)) /\ Len(url) = q - 1 + Len(QueryText(u))
      /\ u.query \in Seq(Parser!Text \X Parser!Text)
  BY ReadFacts DEF LaidOut
<1>2. Parser!Free(a.page, {"/", "?"}) /\ Parser!QueryReadable(u)
  BY DEF IsRead, Parser!Readable, Parser!PathReadable
<1>3. p \in Nat \ {0} /\ q \in Nat \ {0} /\ q = p + Len(a.page)
  BY ReadFacts, PositionTypes DEF EndAt
<1>4. QueryText(u) \in Parser!Text /\ Pairs(u) \in Seq(Parser!Text) /\ Len(Pairs(u)) = Len(u.query)
  BY ReadFacts, TextTypes
<1>5. /\ <<"?">> \in Parser!Text /\ Len(<<"?">>) = 1 /\ <<"?">>[1] = "?" /\ "?" \in Parser!Character
      /\ <<"&">> \in Parser!Text /\ "&" \in Parser!Character /\ <<"=">> \in Parser!Text /\ "=" \in Parser!Character
  BY NamedChars DEF Parser!Delimiter
<1>6. b \in Parser!Text
  BY <1>4, <1>5, BetweenFacts
<1>7. \A k \in p..q - 1 : url[k] \notin {"/", "?"}
  <2> DEFINE g == a.page
  <2>1. g \in Parser!Text /\ StandsAt(url, p, g) /\ Parser!Free(g, {"/", "?"}) /\ q = p + Len(g)
    BY <1>1, <1>2, <1>3
  <2> HIDE DEF p, q, a, g
  <2>2. \A k \in p..p + Len(g) - 1 : url[k] \notin {"/", "?"}
    BY <1>1, <1>3, <2>1, FreeThere
  <2>3. q - 1 = p + Len(g) - 1
    <3>1. Len(g) \in Nat
      BY <2>1, LenFacts
    <3> QED
      BY <1>3, <2>1, <3>1
  <2> QED
    BY <2>2, <2>3
<1>8. ASSUME NEW k \in 1..Len(Pairs(u)) PROVE Parser!Free(Pairs(u)[k], {"/", "#"})
  <2> DEFINE x == u.query[k][1]
             y == u.query[k][2]
  <2>1. k \in 1..Len(u.query) /\ k \in DOMAIN u.query
    BY <1>1, <1>4
  <2>2. x \in Parser!Text /\ y \in Parser!Text
    <3>1. u.query[k] \in Parser!Text \X Parser!Text
      BY <1>1, <2>1
    <3> QED
      BY <3>1
  <2>3. Parser!Free(x, {"/", "#"}) /\ Parser!Free(y, {"/", "#"})
    BY <1>2, <2>1, SMTT(30) DEF Parser!QueryReadable, Parser!Free
  <2>4. Pairs(u)[k] = (x \o <<"=">>) \o y
    BY <2>1 DEF Pairs
  <2> DEFINE chars == {"/", "#"}
  <2>5. "=" \notin chars /\ Parser!Free(x, chars) /\ Parser!Free(y, chars)
    BY <2>3
  <2> HIDE DEF x, y, chars
  <2>6. Parser!Free(<<"=">>, chars)
    BY <1>5, <2>5, FreeChar
  <2>7. x \o <<"=">> \in Parser!Text /\ Parser!Free(x \o <<"=">>, chars)
    BY <1>5, <2>2, <2>5, <2>6, CatType, FreeCat
  <2>8. Parser!Free((x \o <<"=">>) \o y, chars)
    BY <2>2, <2>5, <2>7, FreeCat
  <2> QED
    BY <2>4, <2>8 DEF chars
<1>9. Parser!Free(QueryText(u), {"/", "#"})
  <2> DEFINE chars == {"/", "#"}
  <2>1. "?" \notin chars /\ "&" \notin chars /\ \A k \in 1..Len(Pairs(u)) : Parser!Free(Pairs(u)[k], chars)
    BY <1>8
  <2> HIDE DEF chars
  <2>2. Parser!Free(b, chars)
    BY <1>4, <1>5, <2>1, FreeBetween
  <2>3. Parser!Free(<<"?">>, chars)
    BY <1>5, <2>1, FreeChar
  <2>4. Parser!Free(<<"?">> \o b, chars)
    BY <1>5, <1>6, <2>2, <2>3, FreeCat
  <2> QED
    BY <2>4, FreeEmpty DEF QueryText, chars
<1> HIDE DEF a, p, q, b
<1>10. \A k \in q..Len(url) : url[k] \notin {"/", "#"}
  <2>1. Len(QueryText(u)) \in Nat
    BY <1>4, LenFacts
  <2>2. \A k \in q..q + Len(QueryText(u)) - 1 : url[k] \notin {"/", "#"}
    BY <1>1, <1>3, <1>4, <1>9, FreeThere
  <2>3. q + Len(QueryText(u)) - 1 = Len(url)
    BY <1>1, <1>3, <2>1
  <2> QED
    BY <2>2, <2>3
<1>11. CASE u.query = Parser!Empty
  <2>1. Len(url) = q - 1
    BY <1>1, <1>3, <1>11, EmptyText DEF QueryText
  <2> QED
    BY <1>1, <1>7, <1>10, <1>11, <2>1 DEF a, p, q
<1>12. CASE u.query # Parser!Empty
  <2>1. QueryText(u) = <<"?">> \o b
    BY <1>12 DEF QueryText, b
  <2>2. StandsAt(url, q, <<"?">>) /\ StandsAt(url, q + Len(<<"?">>), b)
    <3>1. StandsAt(url, q, <<"?">> \o b)
      BY <1>1, <2>1
    <3> QED
      BY <1>1, <1>3, <1>5, <1>6, <3>1, StandsCat
  <2>3. url[q] = "?"
    <3>1. 1 \in 1..Len(<<"?">>) /\ <<"?">>[1] = "?"
      BY <1>5
    <3>2. url[q + 1 - 1] = "?"
      BY <2>2, <3>1 DEF StandsAt
    <3>3. q + 1 - 1 = q
      BY <1>3
    <3> QED
      BY <3>2, <3>3
  <2>4. StandsAt(url, q + 1, b)
    BY <1>5, <2>2
  <2>5. Len(url) = q + Len(b)
    <3>1. Len(<<"?">> \o b) = 1 + Len(b) /\ Len(b) \in Nat
      BY <1>5, <1>6, CatType, LenFacts
    <3>2. \A x, y \in Nat : y = x - 1 + (1 + Len(b)) => y = x + Len(b)
      BY <3>1
    <3>3. Len(url) = q - 1 + (1 + Len(b))
      BY <1>1, <2>1, <3>1
    <3> QED
      BY <1>1, <1>3, <3>2, <3>3
  <2> QED
    BY <1>1, <1>7, <1>10, <1>12, <2>3, <2>4, <2>5 DEF a, p, q, b
<1> QED
  BY <1>11, <1>12

-------------------------------------------------------------------------------
(* What the searches of the parser find *)

-------------------------------------------------------------------------------
(* URLs: what the searches of the parser find *)

LEMMA LastFound ==
  ASSUME url \in Parser!Text, NEW chars, NEW p \in Nat
  PROVE  /\ Parser!LastOf(chars, p) \in 0..Len(url)
         /\ Parser!LastOf(chars, p) # 0 => Parser!LastOf(chars, p) <= p /\ url[Parser!LastOf(chars, p)] \in chars
<1> DEFINE n == Len(url)
           S == {k \in 1..n : k <= p /\ url[k] \in chars} \cup {0}
           T == {k \in 0..n : n - k \in S}
<1>1. n \in Nat
  BY DEF Parser!Text
<1>2. n \in T /\ T \in SUBSET Nat
  <2>1. n - n = 0 /\ n \in 0..n
    BY <1>1
  <2> HIDE DEF n
  <2> QED
    BY <2>1
<1>3. PICK k \in T : \A m \in T : k <= m
  <2> HIDE DEF T
  <2> QED
    BY <1>2, LeastNumber
<1>4. n - k \in S /\ n - k \in 0..n
  BY <1>1
<1>5. ASSUME NEW m \in S PROVE m <= n - k
  <2>1. m \in 0..n
    BY <1>1
  <2>2. n - m \in 0..n /\ n - (n - m) = m
    BY <1>1, <2>1
  <2>3. n - m \in T
    <3> HIDE DEF n, S
    <3> QED
      BY <2>2
  <2> HIDE DEF T
  <2>4. k <= n - m
    BY <1>3, <2>3
  <2>5. k \in 0..n
    BY DEF T
  <2> QED
    BY <1>1, <2>1, <2>4, <2>5
<1> DEFINE q == n - k
<1>6. \A m \in S : q >= m
  <2>1. \A m \in S : m \in Nat
    BY <1>1
  <2> HIDE DEF S, n
  <2> QED
    BY <1>1, <1>4, <1>5, <2>1
<1>7. q \in S
  BY <1>4
<1> HIDE DEF q
<1>8. Parser!Max(S) \in S
  <2> HIDE DEF S
  <2> QED
    BY <1>6, <1>7 DEF Parser!Max
<1>9. Parser!LastOf(chars, p) = Parser!Max(S)
  BY DEF Parser!LastOf
<1> QED
  BY <1>1, <1>8, <1>9

LEMMA Places ==
  ASSUME NEW u, IsRead(u)
  PROVE  /\ LoginAt(u.attributes) \in Nat \ {0} /\ HostAt(u.attributes) \in Nat \ {0}
         /\ PortAt(u.attributes) \in Nat \ {0} /\ RootAt(u.attributes) \in Nat \ {0}
         /\ PageAt(u.attributes) \in Nat \ {0} /\ EndAt(u.attributes) \in Nat \ {0}
         /\ LoginAt(u.attributes) <= HostAt(u.attributes) /\ HostAt(u.attributes) < PortAt(u.attributes)
         /\ PortAt(u.attributes) <= RootAt(u.attributes) /\ RootAt(u.attributes) < PageAt(u.attributes)
         /\ PageAt(u.attributes) <= EndAt(u.attributes)
         /\ RootAt(u.attributes) <= Len(url) /\ EndAt(u.attributes) <= Len(url) + 1
         /\ Len(url) \in Nat
<1>1. u \in Parser!UrlType /\ Len(url) \in Nat /\ Len(url) = EndAt(u.attributes) - 1 + Len(QueryText(u))
      /\ QueryText(u) \in Parser!Text
  BY ReadFacts, TextTypes DEF LaidOut
<1>2. Len(QueryText(u)) \in Nat
  BY <1>1, LenFacts
<1>3. EndAt(u.attributes) \in Nat \ {0}
  BY <1>1, PositionTypes
<1>4. EndAt(u.attributes) <= Len(url) + 1
  BY <1>1, <1>2, <1>3
<1> QED
  BY <1>1, <1>4, PositionTypes, HostFacts, PortFacts

LEMMA LoginFree ==
  ASSUME NEW u, IsRead(u)
  PROVE  /\ \A k \in LoginAt(u.attributes)..HostAt(u.attributes) - 1 : url[k] # "/"
         /\ u.attributes.username = Parser!Empty => HostAt(u.attributes) = LoginAt(u.attributes)
<1> DEFINE a == u.attributes
           s == a.username
           t == a.password
           p == LoginAt(a)
           q == HostAt(a)
<1>1. p \in Nat \ {0} /\ q \in Nat \ {0}
  BY Places
<1>2. CASE s = Parser!Empty
  <2>1. HostAt(a) = LoginAt(a)
    <3>1. LoginText(a) = Parser!Empty
      BY <1>2 DEF LoginText
    <3>2. HostAt(a) = LoginAt(a) + Len(LoginText(a))
      BY DEF HostAt
    <3> HIDE DEF a
    <3> QED
      BY <1>1, <3>1, <3>2, EmptyText
  <2>2. \A k \in p..q - 1 : FALSE
    BY <1>1, <2>1
  <2> QED
    BY <2>1, <2>2
<1>3. CASE s # Parser!Empty
  <2>1. /\ Len(s) \in Nat \ {0} /\ Len(t) \in Nat \ {0} /\ q = p + Len(s) + Len(t) + 2
        /\ StandsAt(url, p, s) /\ url[p + Len(s)] = ":"
        /\ StandsAt(url, p + Len(s) + 1, t) /\ url[q - 1] = "@"
    BY <1>3, LoginFacts
  <2>2. Parser!Free(s, {":", "/"}) /\ Parser!Free(t, {"@", "/"}) /\ s \in Parser!Text /\ t \in Parser!Text /\ url \in Parser!Text
    BY ReadFacts DEF IsRead, Parser!Readable, Parser!LoginReadable
  <2>3. \A k \in p..p + Len(s) - 1 : url[k] \notin {":", "/"}
    <3> HIDE DEF s, p
    <3> QED
      BY <1>1, <2>1, <2>2, FreeThere
  <2> DEFINE z == p + Len(s) + 1
  <2>4. \A k \in z..z + Len(t) - 1 : url[k] \notin {"@", "/"}
    <3>1. z \in Nat \ {0} /\ StandsAt(url, z, t)
      BY <1>1, <2>1
    <3> HIDE DEF s, p, t, z
    <3> QED
      BY <2>2, <3>1, FreeThere
  <2>5. z = p + Len(s) + 1 /\ z + Len(t) = q - 1
    <3> HIDE DEF s, p, t
    <3> QED
      BY <1>1, <2>1
  <2> HIDE DEF s, t, p, q, z
  <2>6. ASSUME NEW k \in p..q - 1 PROVE url[k] # "/"
    <3>1. k \in p..p + Len(s) - 1 \/ k = p + Len(s) \/ k \in z..z + Len(t) - 1 \/ k = q - 1
      BY <1>1, <2>1, <2>5
    <3> QED
      BY <2>1, <2>3, <2>4, <3>1
  <2> QED
    BY <1>3, <2>6 DEF s, p, q
<1> QED
  BY <1>2, <1>3

\* The slash that the parser looks for from the login or the host on is the root's.
LEMMA RootFound ==
  ASSUME NEW u, IsRead(u)
  PROVE  /\ Parser!FirstOf({"/"}, LoginAt(u.attributes)) = RootAt(u.attributes)
         /\ Parser!FirstOf({"/"}, HostAt(u.attributes)) = RootAt(u.attributes)
<1> DEFINE l == LoginAt(u.attributes)
           h == HostAt(u.attributes)
           p == PortAt(u.attributes)
           r == RootAt(u.attributes)
<1>1. /\ l \in Nat \ {0} /\ h \in Nat \ {0} /\ p \in Nat \ {0} /\ r \in Nat \ {0} /\ Len(url) \in Nat
      /\ l <= h /\ h < p /\ p <= r /\ r <= Len(url)
  BY Places
<1>2. /\ \A k \in l..h - 1 : url[k] # "/"
      /\ \A k \in h..p - 1 : url[k] # "/"
      /\ \A k \in p + 1..r - 1 : url[k] # "/"
      /\ url[r] = "/" /\ (p # r => url[p] # "/")
  <2>1. p # r => url[p] = ":"
    BY PortFacts
  <2>2. \A k \in h..p - 1 : url[k] # "/"
    BY HostFacts
  <2>3. url[r] = "/" /\ \A k \in p + 1..r - 1 : url[k] # "/"
    BY PortFacts
  <2>4. \A k \in l..h - 1 : url[k] # "/"
    BY LoginFree
  <2> QED
    BY <2>1, <2>2, <2>3, <2>4
<1>3. url \in Parser!Text
  BY ReadFacts
<1> HIDE DEF l, h, p, r
<1>4. ASSUME NEW k \in l..r - 1 PROVE url[k] \notin {"/"}
  <2>1. k \in l..h - 1 \/ k \in h..p - 1 \/ k \in p + 1..r - 1 \/ (k = p /\ p # r)
    BY <1>1
  <2> QED
    BY <1>2, <2>1
<1>5. Parser!FirstOf({"/"}, l) = r
  <2>1. r \in l..Len(url) + 1 /\ url[r] \in {"/"}
    BY <1>1, <1>2
  <2> QED
    BY <1>1, <1>3, <1>4, <2>1, FirstIs
<1>6. Parser!FirstOf({"/"}, h) = r
  <2>1. r \in h..Len(url) + 1 /\ url[r] \in {"/"} /\ \A k \in h..r - 1 : url[k] \notin {"/"}
    BY <1>1, <1>2, <1>4
  <2> QED
    BY <1>1, <1>3, <2>1, FirstIs
<1> QED
  BY <1>5, <1>6 DEF l, h, r

\* An @ before it means that there is a login.
LEMMA LoginFound ==
  ASSUME NEW u, IsRead(u), u.attributes.scheme # Parser!Empty
  PROVE  Parser!LastOf({"@"}, Parser!FirstOf({"/"}, LoginAt(u.attributes))) # 0 <=> u.attributes.username # Parser!Empty
<1> DEFINE a == u.attributes
           l == LoginAt(a)
           h == HostAt(a)
           p == PortAt(a)
           r == RootAt(a)
           n == Len(a.scheme)
<1>1. /\ l \in Nat \ {0} /\ h \in Nat \ {0} /\ p \in Nat \ {0} /\ r \in Nat \ {0} /\ Len(url) \in Nat
      /\ l <= h /\ h < p /\ p <= r /\ r <= Len(url)
  BY Places
<1>2. url \in Parser!Text /\ Parser!FirstOf({"/"}, l) = r
  BY ReadFacts, RootFound
<1>3. /\ \A k \in h..p - 1 : url[k] # "@"
      /\ \A k \in p + 1..r - 1 : url[k] # "@"
      /\ url[r] = "/" /\ (p # r => url[p] = ":")
  <2>1. p # r => url[p] = ":"
    BY PortFacts
  <2>2. \A k \in h..p - 1 : url[k] # "@"
    BY HostFacts
  <2>3. url[r] = "/" /\ \A k \in p + 1..r - 1 : url[k] # "@"
    BY PortFacts
  <2> QED
    BY <2>1, <2>2, <2>3
<1>4. n \in Nat \ {0} /\ l = n + 4 /\ url[n + 1] = ":" /\ url[n + 2] = "/" /\ url[n + 3] = "/"
  BY SchemeFacts
<1>5. \A k \in 1..n : url[k] # "@"
  <2> DEFINE s == a.scheme
  <2>1. StandsAt(url, 1, s) /\ s \in Parser!Text /\ Parser!Free(s, {":", ".", "@"})
    BY ReadFacts, SchemeFacts DEF IsRead, Parser!Readable, Parser!SchemeReadable
  <2>2. \A k \in 1..1 + Len(s) - 1 : url[k] \notin {":", ".", "@"}
    <3> HIDE DEF s
    <3> QED
      BY <1>2, <2>1, FreeThere
  <2>3. 1 + Len(s) - 1 = n
    BY <1>4
  <2> HIDE DEF s
  <2> QED
    BY <2>2, <2>3
<1> HIDE DEF l, h, p, r, n
<1>6. ASSUME NEW k \in h..r PROVE url[k] \notin {"@"}
  <2>1. k \in h..p - 1 \/ k \in p + 1..r - 1 \/ k = r \/ (k = p /\ p # r)
    BY <1>1
  <2> QED
    BY <1>3, <2>1
<1>7. CASE a.username = Parser!Empty
  <2>1. h = l
    BY <1>7, LoginFree DEF h, l
  <2>2. ASSUME NEW k \in 1..Len(url), k <= r PROVE url[k] \notin {"@"}
    <3>1. k \in 1..n \/ k = n + 1 \/ k = n + 2 \/ k = n + 3 \/ k \in h..r
      BY <1>1, <1>4, <2>1, <2>2
    <3> QED
      BY <1>4, <1>5, <1>6, <3>1
  <2>3. Parser!LastOf({"@"}, r) = 0
    <3>1. 0 \in Nat /\ 0 <= r /\ 0 <= Len(url) /\ \A k \in 1..Len(url) : 0 < k /\ k <= r => url[k] \notin {"@"}
      BY <1>1, <2>2
    <3> QED
      BY <1>1, <1>2, <3>1, LastIs
  <2> QED
    BY <1>2, <1>7, <2>3 DEF l
<1>8. CASE a.username # Parser!Empty
  <2>1. url[h - 1] = "@" /\ h - 1 \in Nat \ {0} /\ h - 1 <= r
    <3>1. url[h - 1] = "@"
      BY <1>8, LoginFacts DEF h
    <3>2. h = l + Len(a.username) + Len(a.password) + 2 /\ Len(a.username) \in Nat /\ Len(a.password) \in Nat
      BY <1>8, LoginFacts DEF h, l
    <3>4. l \in Nat \ {0}
      BY <1>1
    <3>5. h - 1 \in Nat \ {0}
      <4> DEFINE y == Len(a.username)
                 z == Len(a.password)
      <4>1. h = l + y + z + 2 /\ y \in Nat /\ z \in Nat
        BY <3>2
      <4> HIDE DEF y, z
      <4> QED
        BY <3>4, <4>1
    <3>6. \A x, y, z \in Nat : x < y /\ y <= z => x - 1 <= z
      OBVIOUS
    <3>7. h - 1 <= r
      BY <1>1, <3>6
    <3> QED
      BY <3>1, <3>5, <3>7
  <2>2. Parser!LastOf({"@"}, r) = h - 1
    <3> DEFINE q == h - 1
    <3>1. q \in Nat /\ q <= r /\ q <= Len(url) /\ url[q] \in {"@"}
      BY <1>1, <2>1
    <3>2. \A k \in 1..Len(url) : q < k /\ k <= r => url[k] \notin {"@"}
      BY <1>1, <1>6
    <3> HIDE DEF q
    <3>3. Parser!LastOf({"@"}, r) = q
      BY <1>1, <1>2, <3>1, <3>2, LastIs
    <3> QED
      BY <3>3 DEF q
  <2> QED
    BY <1>2, <1>8, <2>1, <2>2 DEF l
<1> QED
  BY <1>7, <1>8 DEF a

\* A colon before the slash ends the host, otherwise the slash does.
LEMMA PortFound ==
  ASSUME NEW u, IsRead(u)
  PROVE  (IF Parser!LastOf({":"}, RootAt(u.attributes)) > HostAt(u.attributes)
          THEN Parser!LastOf({":"}, RootAt(u.attributes)) ELSE RootAt(u.attributes)) = PortAt(u.attributes)
<1> DEFINE a == u.attributes
           h == HostAt(a)
           p == PortAt(a)
           r == RootAt(a)
<1>1. /\ h \in Nat \ {0} /\ p \in Nat \ {0} /\ r \in Nat \ {0} /\ Len(url) \in Nat
      /\ h < p /\ p <= r /\ r <= Len(url)
  BY Places
<1>2. url \in Parser!Text
  BY ReadFacts
<1>3. /\ \A k \in h..p - 1 : url[k] # ":"
      /\ \A k \in p + 1..r - 1 : url[k] # ":"
      /\ url[r] = "/"
  <2>1. \A k \in h..p - 1 : url[k] # ":"
    BY HostFacts
  <2>2. url[r] = "/" /\ \A k \in p + 1..r - 1 : url[k] # ":"
    BY PortFacts
  <2> QED
    BY <2>1, <2>2
<1>4. (a.port = Parser!Empty /\ p = r) \/ (url[p] = ":" /\ p # r)
  <2>1. a.port = Parser!Empty => p = r
    BY PortFacts
  <2>2. a.port # Parser!Empty => url[p] = ":"
    BY PortFacts
  <2> HIDE DEF p, r
  <2> QED
    BY <1>3, <2>1, <2>2
<1> HIDE DEF h, p, r
<1>5. CASE p = r
  <2> DEFINE q == Parser!LastOf({":"}, r)
  <2>1. q \in 0..Len(url) /\ (q # 0 => q <= r /\ url[q] \in {":"})
    BY <1>1, <1>2, LastFound
  <2> HIDE DEF q
  <2>2. ~ (q > h)
    <3> SUFFICES ASSUME q > h PROVE FALSE
      OBVIOUS
    <3>1. q <= r /\ url[q] = ":"
      BY <1>1, <2>1
    <3>2. q \in h..p - 1 \/ q = r
      BY <1>1, <1>5, <2>1, <3>1
    <3> QED
      BY <1>3, <3>1, <3>2
  <2> QED
    BY <1>5, <2>2 DEF q, h, p, r
<1>6. CASE p # r
  <2>1. Parser!LastOf({":"}, r) = p
    <3>1. p \in Nat /\ p <= r /\ p <= Len(url) /\ url[p] \in {":"}
      BY <1>1, <1>4, <1>6
    <3>2. ASSUME NEW k \in 1..Len(url), p < k, k <= r PROVE url[k] \notin {":"}
      <4>1. k \in p + 1..r - 1 \/ k = r
        BY <1>1, <3>2
      <4> QED
        BY <1>3, <4>1
    <3> QED
      BY <1>1, <1>2, <3>1, <3>2, LastIs
  <2> QED
    BY <1>1, <2>1 DEF h, p, r
<1> QED
  BY <1>5, <1>6

\* The last slash is the one before the page.
LEMMA PageFound ==
  ASSUME NEW u, IsRead(u)
  PROVE  Parser!LastOf({"/"}, Len(url)) = PageAt(u.attributes) - 1
<1> DEFINE g == PageAt(u.attributes)
           e == EndAt(u.attributes)
           q == g - 1
<1>1. g \in Nat \ {0} /\ e \in Nat \ {0} /\ g <= e /\ e <= Len(url) + 1 /\ Len(url) \in Nat
  BY Places
<1>2. url \in Parser!Text /\ url[q] = "/"
  BY ReadFacts, DirectoryFacts
<1>3. (\A k \in g..e - 1 : url[k] # "/") /\ (\A k \in e..Len(url) : url[k] # "/")
  BY PageFacts
<1> HIDE DEF g, e
<1>4. q \in Nat /\ q <= Len(url) /\ url[q] \in {"/"} /\ q + 1 = g
  BY <1>1, <1>2
<1> HIDE DEF q
<1>5. ASSUME NEW k \in 1..Len(url), q < k PROVE url[k] \notin {"/"}
  <2>1. k \in g..e - 1 \/ k \in e..Len(url)
    BY <1>1, <1>4, <1>5
  <2> QED
    BY <1>3, <2>1
<1>6. Parser!LastOf({"/"}, Len(url)) = q
  BY <1>1, <1>2, <1>4, <1>5, LastIs
<1> QED
  BY <1>6 DEF q, g

\* Without a scheme the dot of the host comes first.
LEMMA StartFound ==
  ASSUME NEW u, IsRead(u)
  PROVE  Parser!FirstOf({":", "/"}, 1) > Parser!FirstOf({"."}, 1) <=> u.attributes.scheme = Parser!Empty
<1> DEFINE a == u.attributes
           x == Parser!FirstOf({":", "/"}, 1)
           y == Parser!FirstOf({"."}, 1)
<1>1. url \in Parser!Text /\ Len(url) \in Nat /\ 1 \in 1..Len(url) + 1
  BY ReadFacts
<1>2. /\ x \in 1..Len(url) + 1
      /\ \A k \in 1..x - 1 : url[k] \notin {":", "/"}
      /\ x <= Len(url) => url[x] \in {":", "/"}
  BY <1>1, FirstFound
<1>3. /\ y \in 1..Len(url) + 1
      /\ \A k \in 1..y - 1 : url[k] \notin {"."}
      /\ y <= Len(url) => url[y] \in {"."}
  BY <1>1, FirstFound
<1>4. CASE a.scheme = Parser!Empty
  <2>1. HostAt(a) = 1
    <3>1. a.username = Parser!Empty
      BY <1>4 DEF IsRead, Parser!Readable, Parser!LoginReadable
    <3>2. LoginAt(a) = 1
      BY <1>4, EmptyText DEF LoginAt, SchemeText
    <3> QED
      BY <3>1, <3>2, LoginFree
  <2>2. \A k \in 1..PortAt(a) - 1 : url[k] \notin {":", "/"}
    BY <2>1, HostFacts
  <2>3. PICK e \in 1..PortAt(a) - 1 : url[e] = "."
    BY <1>4, <2>1, HostFacts
  <2>4. PortAt(a) \in Nat /\ PortAt(a) <= Len(url)
    BY Places
  <2> HIDE DEF x, y, a
  <2>5. y <= e
    BY <1>3, <2>3, <2>4
  <2>6. ~ (x \in 1..PortAt(a) - 1)
    BY <1>1, <1>2, <2>2, <2>4
  <2>7. x > y
    BY <1>1, <1>2, <1>3, <2>3, <2>4, <2>5, <2>6
  <2> QED
    BY <1>4, <2>7 DEF x, y, a
<1>5. CASE a.scheme # Parser!Empty
  <2> DEFINE s == a.scheme
             n == Len(s)
  <2>1. n \in Nat \ {0} /\ url[n + 1] = ":" /\ StandsAt(url, 1, s) /\ LoginAt(a) = n + 4
    BY <1>5, SchemeFacts
  <2>2. s \in Parser!Text /\ Parser!Free(s, {":", ".", "@"})
    BY ReadFacts DEF IsRead, Parser!Readable, Parser!SchemeReadable
  <2>3. \A k \in 1..n : url[k] \notin {":", ".", "@"}
    <3>1. \A k \in 1..1 + Len(s) - 1 : url[k] \notin {":", ".", "@"}
      <4> HIDE DEF s
      <4> QED
        BY <1>1, <2>1, <2>2, FreeThere
    <3>2. 1 + Len(s) - 1 = n
      BY <2>1
    <3> HIDE DEF s
    <3> QED
      BY <3>1, <3>2
  <2>4. n + 1 <= Len(url)
    <3>1. LoginAt(a) <= Len(url)
      BY Places
    <3> HIDE DEF n, a
    <3> QED
      BY <1>1, <2>1, <3>1
  <2> HIDE DEF x, y, n
  <2>5. x <= n + 1
    <3> SUFFICES ASSUME ~ (x <= n + 1) PROVE FALSE
      OBVIOUS
    <3>1. n + 1 \in 1..x - 1
      BY <1>2, <2>1
    <3> QED
      BY <1>2, <2>1, <3>1
  <2>6. y > n + 1
    <3> SUFFICES ASSUME ~ (y > n + 1) PROVE FALSE
      OBVIOUS
    <3>1. y \in 1..n \/ y = n + 1
      BY <1>3, <2>1
    <3>2. url[y] = "."
      BY <1>1, <1>3, <2>1, <2>4
    <3> QED
      BY <2>1, <2>3, <3>1, <3>2
  <2>7. ~ (x > y)
    BY <1>2, <1>3, <2>1, <2>5, <2>6
  <2> QED
    BY <1>5, <2>7 DEF x, y
<1> QED
  BY <1>4, <1>5

-------------------------------------------------------------------------------
(* The query *)

-------------------------------------------------------------------------------
(* URLs: the query and its pairs *)

LEMMA CharsAre ==
  ASSUME NEW s \in Parser!Text, NEW p \in Nat \ {0}, StandsAt(url, p, s)
  PROVE  Parser!Chars(p, p + Len(s)) = s
<1>1. Len(s) \in Nat
  BY LenFacts
<1>2. (p + Len(s)) - p = Len(s)
  BY <1>1
<1>3. Parser!Chars(p, p + Len(s)) = [k \in 1..Len(s) |-> s[k]]
  BY <1>2 DEF Parser!Chars, StandsAt
<1>4. s = [k \in 1..Len(s) |-> s[k]]
  BY DEF Parser!Text
<1> QED
  BY <1>3, <1>4

\* c holds where each pair of the query ends.
QueryPlaced(c, u) ==
  /\ Placed(c, Pairs(u), EndAt(u.attributes) + 1, "&")
  /\ c[Len(u.query)] = Len(url) + 1

LEMMA PairsPlaced ==
  ASSUME NEW u, IsRead(u), u.query # Parser!Empty
  PROVE  \E c : QueryPlaced(c, u)
<1> DEFINE p == EndAt(u.attributes) + 1
<1>1. u \in Parser!UrlType /\ url \in Parser!Text /\ u.query \in Seq(Parser!Text \X Parser!Text)
  BY ReadFacts
<1>2. Pairs(u) \in Seq(Parser!Text) /\ Len(Pairs(u)) = Len(u.query)
  BY <1>1, TextTypes
<1>3. EndAt(u.attributes) \in Nat \ {0}
  BY Places
<1>4. StandsAt(url, p, Parser!Between(Pairs(u), <<"&">>)) /\ Len(url) = EndAt(u.attributes) + Len(Parser!Between(Pairs(u), <<"&">>))
  BY PageFacts
<1>5. "&" \in Parser!Character /\ <<"&">> \in Parser!Text
  BY NamedChars DEF Parser!Delimiter
<1>6. Len(Pairs(u)) # 0
  BY <1>1, <1>2 DEF Parser!Empty
<1>7. p \in Nat \ {0}
  BY <1>3
<1>8. Parser!Between(Pairs(u), <<"&">>) \in Parser!Text
  BY <1>2, <1>5, BetweenFacts
<1>9. Len(Parser!Between(Pairs(u), <<"&">>)) \in Nat
  BY <1>8, LenFacts
<1> DEFINE b == Len(Parser!Between(Pairs(u), <<"&">>))
<1>10. p + b = Len(url) + 1
  <2>1. b \in Nat /\ EndAt(u.attributes) \in Nat /\ Len(url) = EndAt(u.attributes) + b
    BY <1>3, <1>4, <1>9
  <2> HIDE DEF b
  <2> QED
    BY <2>1
<1> HIDE DEF p
<1>11. PICK c : Placed(c, Pairs(u), p, "&") /\ c[Len(Pairs(u))] = p + b
  BY <1>1, <1>2, <1>4, <1>5, <1>6, <1>7, PartsPlaced
<1>12. QueryPlaced(c, u)
  BY <1>2, <1>10, <1>11 DEF QueryPlaced, p
<1> QED
  BY <1>12

\* Where a pair, its equals sign and its value stand.
PairPlaced(c, k, key, value) ==
  /\ c[k - 1] \in Nat /\ c[k] \in Nat
  /\ StandsAt(url, c[k - 1] + 1, key)
  /\ url[c[k - 1] + 1 + Len(key)] = "="
  /\ StandsAt(url, c[k - 1] + 1 + Len(key) + 1, value)
  /\ c[k] = c[k - 1] + 1 + Len(key) + 1 + Len(value)
  /\ c[k] <= Len(url) + 1

LEMMA PairStands ==
  ASSUME NEW u, IsRead(u), NEW c, QueryPlaced(c, u), NEW k \in 1..Len(u.query)
  PROVE  PairPlaced(c, k, u.query[k][1], u.query[k][2])
<1> DEFINE key == u.query[k][1]
           value == u.query[k][2]
           p == EndAt(u.attributes) + 1
           s == c[k - 1] + 1
           eq == <<"=">>
           n == Len(u.query)
<1>1. u \in Parser!UrlType /\ url \in Parser!Text /\ u.query \in Seq(Parser!Text \X Parser!Text) /\ Len(url) \in Nat
  BY ReadFacts
<1>2. n \in Nat /\ u.query[k] \in Parser!Text \X Parser!Text /\ DOMAIN u.query = 1..n
  BY <1>1
<1>3. key \in Parser!Text /\ value \in Parser!Text
  BY <1>2
<1>4. Pairs(u) \in Seq(Parser!Text) /\ Len(Pairs(u)) = n
  BY <1>1, TextTypes, SMTT(30)
<1>5. Pairs(u)[k] = (key \o eq) \o value
  BY <1>2 DEF Pairs
<1>6. eq \in Parser!Text /\ Len(eq) = 1 /\ eq[1] = "="
  BY NamedChars DEF Parser!Delimiter
<1>7. p \in Nat \ {0}
  BY Places
<1>8. Placed(c, Pairs(u), p, "&")
  BY DEF QueryPlaced
<1> HIDE DEF p, eq, n, key, value
<1>9. /\ c \in [0..n -> Nat]
      /\ c[k] = c[k - 1] + 1 + Len(Pairs(u)[k])
      /\ \A x \in 1..Len(Pairs(u)[k]) : url[c[k - 1] + x] = Pairs(u)[k][x]
      /\ c[n] <= Len(url) + 1
  BY <1>4, <1>8 DEF Placed, n
<1>10. c[k] + (n - k) <= c[n]
  <2>1. k \in 0..n
    BY <1>2 DEF n
  <2> QED
    BY <1>4, <1>7, <1>8, <2>1, PlacedApart
<1>11. key \o eq \in Parser!Text /\ Len(key \o eq) = Len(key) + 1 /\ Len(key) \in Nat /\ Len(value) \in Nat
  BY <1>3, <1>6, CatType, LenFacts
<1>12. Pairs(u)[k] \in Parser!Text /\ Len(Pairs(u)[k]) = Len(key) + 1 + Len(value)
  BY <1>3, <1>5, <1>11, CatType
<1>13. c[k - 1] \in Nat /\ c[k] \in Nat /\ c[n] \in Nat
  BY <1>2, <1>9, SMTT(30) DEF n
<1>14. c[k] = c[k - 1] + 1 + Len(key) + 1 + Len(value)
  <2>1. \A x, y, z \in Nat : x + 1 + (y + 1 + z) = x + 1 + y + 1 + z
    OBVIOUS
  <2> QED
    BY <1>9, <1>11, <1>12, <1>13, <2>1
<1>15. c[k] <= Len(url) + 1
  <2>1. k \in Nat /\ k <= n /\ n \in Nat
    BY <1>2 DEF n
  <2> QED
    BY <1>1, <1>9, <1>10, <1>13, <2>1
<1>16. StandsAt(url, s, (key \o eq) \o value)
  <2>1. s + Len(Pairs(u)[k]) <= Len(url) + 1
    BY <1>9, <1>15
  <2>2. ASSUME NEW x \in 1..Len(Pairs(u)[k]) PROVE url[s + x - 1] = Pairs(u)[k][x]
    <3>1. s + x - 1 = c[k - 1] + x
      BY <1>12, <1>13
    <3> QED
      BY <1>9, <3>1
  <2> QED
    BY <1>5, <2>1, <2>2 DEF StandsAt
<1>17. s \in Nat \ {0}
  BY <1>13
<1> HIDE DEF s
<1>18. StandsAt(url, s, key \o eq) /\ StandsAt(url, s + Len(key \o eq), value)
  BY <1>1, <1>3, <1>11, <1>16, <1>17, StandsCat
<1>19. StandsAt(url, s, key) /\ StandsAt(url, s + Len(key), eq)
  BY <1>1, <1>3, <1>6, <1>17, <1>18, StandsCat
<1>20. url[s + Len(key)] = "="
  <2>1. url[s + Len(key) + 1 - 1] = eq[1]
    BY <1>6, <1>19 DEF StandsAt
  <2>2. s + Len(key) + 1 - 1 = s + Len(key)
    BY <1>11, <1>17
  <2> QED
    BY <1>6, <2>1, <2>2
<1>21. s + Len(key \o eq) = s + Len(key) + 1
  BY <1>11, <1>17
<1> QED
  BY <1>13, <1>14, <1>15, <1>18, <1>19, <1>20, <1>21 DEF PairPlaced, s, key, value
LEMMA MinOf ==
  ASSUME NEW S \in SUBSET Nat, NEW q \in S, \A x \in S : q <= x
  PROVE  Parser!Min(S) = q
<1>1. ASSUME NEW x \in S, \A y \in S : x <= y PROVE x = q
  BY <1>1
<1> QED
  BY <1>1 DEF Parser!Min

\* What one turn of the loop finds, and where it goes on.
TurnFound(k, max, key, value, end) ==
  /\ k \in 1..max - 1
  /\ Parser!PairAt(k, max) = <<key, value>>
  /\ Parser!AfterPair(k, max) = end

LEMMA PairFound ==
  ASSUME NEW u, IsRead(u), NEW c, QueryPlaced(c, u), NEW k \in 1..Len(u.query)
  PROVE  TurnFound(c[k - 1] + 1, Len(url) + 1, u.query[k][1], u.query[k][2],
                   IF k = Len(u.query) THEN Len(url) + 3 ELSE c[k] + 1)
<1> DEFINE key == u.query[k][1]
           value == u.query[k][2]
           s == c[k - 1] + 1
           n == Len(u.query)
           l == Len(url)
           x == Len(key)
           y == Len(value)
<1>1. url \in Parser!Text /\ u.query \in Seq(Parser!Text \X Parser!Text) /\ l \in Nat
  BY ReadFacts
<1>2. n \in Nat /\ u.query[k] \in Parser!Text \X Parser!Text /\ k \in 1..n
  BY <1>1
<1>3. key \in Parser!Text /\ value \in Parser!Text
  BY <1>2
<1>4. x \in Nat /\ y \in Nat
  BY <1>3, LenFacts
<1>5. Parser!Free(key, {"=", "/", "#"}) /\ Parser!Free(value, {"&", "/", "#"})
  BY DEF IsRead, Parser!Readable, Parser!QueryReadable
<1>6. PairPlaced(c, k, key, value)
  BY PairStands
<1>7. Placed(c, Pairs(u), EndAt(u.attributes) + 1, "&") /\ c[n] = l + 1 /\ Len(Pairs(u)) = n
  <2>1. Len(Pairs(u)) = n
    BY ReadFacts, TextTypes
  <2> QED
    BY <2>1 DEF QueryPlaced
<1>8. k # n => url[c[k]] = "&" /\ c[k] + 1 <= l + 1
  <2>1. EndAt(u.attributes) + 1 \in Nat \ {0} /\ Pairs(u) \in Seq(Parser!Text)
    BY Places, ReadFacts, TextTypes
  <2>2. k \in 0..n
    BY <1>2
  <2>3. c[k] + (n - k) <= c[n]
    BY <1>7, <2>1, <2>2, PlacedApart
  <2>4. c[k] \in Nat
    BY <1>6 DEF PairPlaced
  <2>5. k # n => k \in 1..n - 1
    BY <1>2
  <2>6. k # n => url[c[k]] = "&"
    BY <1>7, <2>5 DEF Placed
  <2>7. c[k] + (n - k) <= l + 1 /\ n \in Nat /\ k \in 1..n /\ l \in Nat
    BY <1>1, <1>2, <1>7, <2>3
  <2>8. k # n => c[k] + 1 <= l + 1
    <3> HIDE DEF n, l
    <3> QED
      BY <2>4, <2>7
  <2> QED
    BY <2>6, <2>8
<1>9. /\ s \in Nat \ {0} /\ c[k] \in Nat
      /\ StandsAt(url, s, key)
      /\ url[s + x] = "="
      /\ StandsAt(url, s + x + 1, value)
      /\ c[k] = s + x + 1 + y /\ c[k] <= l + 1
  BY <1>6, SMTT(30) DEF PairPlaced
<1>10. \A z \in s..s + x - 1 : url[z] \notin {"=", "/", "#"}
  <2>1. s \in Nat \ {0}
    BY <1>9
  <2> HIDE DEF s, key
  <2> QED
    BY <1>1, <1>3, <1>5, <1>9, <2>1, FreeThere
<1>11. \A z \in s + x + 1..s + x + 1 + y - 1 : url[z] \notin {"&", "/", "#"}
  <2>1. s + x + 1 \in Nat \ {0}
    BY <1>4, <1>9, SMTT(30)
  <2> DEFINE t == s + x + 1
  <2>2. t \in Nat \ {0} /\ StandsAt(url, t, value)
    BY <1>9, <2>1
  <2> HIDE DEF s, t, value
  <2>3. \A z \in t..t + Len(value) - 1 : url[z] \notin {"&", "/", "#"}
    BY <1>1, <1>3, <1>5, <2>2, FreeThere
  <2> QED
    BY <2>3 DEF t
<1>12. Parser!Chars(s, s + x) = key /\ Parser!Chars(s + x + 1, c[k]) = value
  <2>1. Parser!Chars(s, s + x) = key
    BY <1>3, <1>9, CharsAre
  <2>2. s + x + 1 \in Nat \ {0}
    <3>1. s \in Nat \ {0} /\ x \in Nat
      BY <1>4, <1>9
    <3> HIDE DEF s, x
    <3> QED
      BY <3>1
  <2> DEFINE t == s + x + 1
  <2>3. t \in Nat \ {0} /\ StandsAt(url, t, value)
    BY <1>9, <2>2
  <2> HIDE DEF t, value
  <2>4. Parser!Chars(t, t + Len(value)) = value
    BY <1>3, <2>3, CharsAre
  <2> QED
    BY <1>9, <2>1, <2>4 DEF t
<1> HIDE DEF s, n, l, x, y, key, value
<1>13. Parser!EqualsAt(s) = s + x
  <2> DEFINE e == s + x
  <2>1. e \in s..Len(url) + 1
    BY <1>1, <1>4, <1>9 DEF l
  <2>2. url[e] \in {"="}
    BY <1>9
  <2>3. \A z \in s..e - 1 : url[z] \notin {"="}
    <3> SUFFICES ASSUME NEW z \in s..e - 1 PROVE url[z] # "="
      OBVIOUS
    <3> QED
      BY <1>4, <1>9, <1>10
  <2> HIDE DEF e
  <2>4. Parser!FirstOf({"="}, s) = e
    BY <1>1, <1>9, <2>1, <2>2, <2>3, FirstIs
  <2> QED
    BY <2>4 DEF Parser!EqualsAt, e
<1>14. Parser!FirstOf({"&"}, s + x) = c[k]
  <2> DEFINE e == s + x
  <2>1. e \in Nat \ {0} /\ c[k] \in e..Len(url) + 1
    BY <1>1, <1>4, <1>9 DEF l
  <2>2. \A z \in e..c[k] - 1 : url[z] \notin {"&"}
    <3> SUFFICES ASSUME NEW z \in e..c[k] - 1 PROVE url[z] # "&"
      OBVIOUS
    <3>1. z = s + x \/ z \in s + x + 1..s + x + 1 + y - 1
      BY <1>4, <1>9
    <3> QED
      BY <1>9, <1>11, <3>1
  <2>3. c[k] <= Len(url) => url[c[k]] \in {"&"}
    <3>1. c[k] <= Len(url) => k # n
      BY <1>1, <1>7, <1>9 DEF l
    <3> QED
      BY <1>8, <3>1
  <2> HIDE DEF e
  <2>4. Parser!FirstOf({"&"}, e) = c[k]
    BY <1>1, <2>1, <2>2, <2>3, FirstIs
  <2> QED
    BY <2>4 DEF e
<1>15. Parser!PairEnd(s, l + 1) = IF k = n THEN l + 2 ELSE c[k]
  <2>1. Parser!PairEnd(s, l + 1) = IF c[k] > Len(url) THEN l + 1 + 1 ELSE c[k]
    BY <1>13, <1>14 DEF Parser!PairEnd
  <2>2. c[k] > Len(url) <=> k = n
    BY <1>1, <1>7, <1>8, <1>9 DEF l
  <2>3. l + 1 + 1 = l + 2
    BY <1>1
  <2> QED
    BY <2>1, <2>2, <2>3
<1>16. Parser!Min({Parser!PairEnd(s, l + 1), l + 1}) = c[k]
  <2> DEFINE S == {Parser!PairEnd(s, l + 1), l + 1}
  <2>1. S \in SUBSET Nat /\ c[k] \in S /\ \A z \in S : c[k] <= z
    BY <1>1, <1>7, <1>8, <1>9, <1>15
  <2> HIDE DEF S
  <2>2. Parser!Min(S) = c[k]
    BY <2>1, MinOf
  <2> QED
    BY <2>2 DEF S
<1>17. s \in 1..l + 1 - 1 /\ s < l + 1 /\ s + x <= l
  BY <1>1, <1>4, <1>9
<1>18. Parser!PairAt(s, l + 1) = <<key, value>>
  <2>1. ~ (s + x > Len(url)) /\ Len(url) + 1 = l + 1
    BY <1>1, <1>4, <1>9, <1>17 DEF l
  <2> QED
    BY <1>12, <1>13, <1>16, <2>1 DEF Parser!PairAt
<1>19. Parser!AfterPair(s, l + 1) = IF k = n THEN l + 3 ELSE c[k] + 1
  <2>1. Parser!AfterPair(s, l + 1) = Parser!PairEnd(s, l + 1) + 1
    BY <1>17 DEF Parser!AfterPair
  <2>2. l + 2 + 1 = l + 3
    BY <1>1
  <2> QED
    BY <1>15, <2>1, <2>2
<1> QED
  BY <1>17, <1>18, <1>19 DEF TurnFound, s, l, n, key, value

\* Where the loop of the query is after each turn.
Loops(f, from, max) ==
  /\ f \in [0..Len(url) -> Nat]
  /\ f[0] = from
  /\ \A n \in 1..Len(url) : f[n] = Parser!AfterPair(f[n - 1], max)

LoopsFrom(f, from, max) ==
  /\ Loops(f, from, max)
  /\ Parser!PairsFrom(from, max) =
       [pairs |-> {Parser!PairAt(k, max) : k \in {f[n] : n \in 0..Len(url)} \cap 1..max - 1},
        index |-> f[Len(url)]]

LEMMA AfterPairType ==
  ASSUME url \in Parser!Text, NEW k \in 1..Len(url) + 3
  PROVE  Parser!AfterPair(k, Len(url) + 1) \in 1..Len(url) + 3
<1>1. Len(url) \in Nat
  BY LenFacts
<1>2. CASE ~ (k < Len(url) + 1)
  BY <1>2 DEF Parser!AfterPair
<1>3. CASE k < Len(url) + 1
  <2>1. k \in 1..Len(url) + 1
    BY <1>1, <1>3
  <2>2. Parser!EqualsAt(k) \in k..Len(url) + 1
    BY <2>1, FirstFound DEF Parser!EqualsAt
  <2>3. Parser!EqualsAt(k) \in 1..Len(url) + 1
    BY <1>1, <2>1, <2>2
  <2>4. Parser!FirstOf({"&"}, Parser!EqualsAt(k)) \in Parser!EqualsAt(k)..Len(url) + 1
    BY <2>3, FirstFound
  <2>5. Parser!FirstOf({"&"}, Parser!EqualsAt(k)) \in 1..Len(url) + 1
    BY <1>1, <2>3, <2>4
  <2>6. Parser!PairEnd(k, Len(url) + 1) \in 1..Len(url) + 2
    <3> DEFINE x == Parser!FirstOf({"&"}, Parser!EqualsAt(k))
    <3>1. Parser!PairEnd(k, Len(url) + 1) = IF x > Len(url) THEN Len(url) + 1 + 1 ELSE x
      BY DEF Parser!PairEnd
    <3>2. x \in 1..Len(url) + 1
      BY <2>5
    <3> HIDE DEF x
    <3> QED
      BY <1>1, <3>1, <3>2
  <2> QED
    BY <1>1, <1>3, <2>6 DEF Parser!AfterPair
<1> QED
  BY <1>2, <1>3

LEMMA LoopDef ==
  ASSUME url \in Parser!Text, NEW from \in 1..Len(url) + 1
  PROVE  \E f : LoopsFrom(f, from, Len(url) + 1)
<1> DEFINE n == Len(url)
           max == Len(url) + 1
           X == 1..Len(url) + 3
           step == [ks \in Nat \X X |-> Parser!AfterPair(ks[2], max)]
           Value(f, k) == IF k = 0 THEN from ELSE Parser!AfterPair(f[k - 1], max)
           Solved(f) == f = [k \in 0..n |-> Value(f, k)]
<1>1. n \in Nat /\ from \in X /\ X \subseteq Nat
  <2>1. n \in Nat
    BY LenFacts
  <2> QED
    BY <2>1
<1>2. \A k \in X : Parser!AfterPair(k, max) \in X
  BY AfterPairType
<1> HIDE DEF X, max
<1>3. IsStep(step, X)
  BY <1>2 DEF IsStep
<1>4. \A k \in Nat, x \in X : step[k, x] = Parser!AfterPair(x, max)
  <2> SUFFICES ASSUME NEW k \in Nat, NEW x \in X PROVE step[k, x] = Parser!AfterPair(x, max)
    BY Zenon
  <2>1. <<k, x>> \in Nat \X X /\ <<k, x>>[2] = x
    OBVIOUS
  <2>2. step[<<k, x>>] = Parser!AfterPair(x, max)
    BY <2>1
  <2> QED
    BY <2>2, Zenon
<1> HIDE DEF step, n
<1>5. PICK f : Stepped(f, n, X, from, step)
  BY <1>1, <1>3, StepsExist
<1>6. f \in [0..n -> X] /\ f[0] = from /\ \A k \in 1..n : f[k] = Parser!AfterPair(f[k - 1], max)
  <2>1. f \in [0..n -> X] /\ f[0] = from
    BY <1>5, Zenon DEF Stepped
  <2>2. ASSUME NEW k \in 1..n PROVE f[k] = Parser!AfterPair(f[k - 1], max)
    <3>1. k \in Nat /\ k - 1 \in 0..n
      BY <1>1
    <3>2. f[k - 1] \in X
      BY <2>1, <3>1
    <3>3. f[k] = step[k, f[k - 1]]
      BY <1>5, Zenon DEF Stepped
    <3> QED
      BY <1>4, <3>1, <3>2, <3>3, Zenon
  <2> QED
    BY <2>1, <2>2
<1>7. Solved(f)
  <2>1. ASSUME NEW k \in 0..n PROVE f[k] = Value(f, k)
    <3>1. k # 0 => k \in 1..n
      BY <1>1
    <3> QED
      BY <1>6, <3>1
  <2> QED
    BY <1>6, <2>1
<1> HIDE DEF Solved
<1> DEFINE g == CHOOSE g : Solved(g)
<1>8. Solved(g)
  BY <1>7
<1>9. Parser!PairsFrom(from, max) =
       [pairs |-> {Parser!PairAt(k, max) : k \in {g[m] : m \in 0..n} \cap 1..max - 1},
        index |-> g[n]]
  BY DEF Parser!PairsFrom, Solved, n
<1> HIDE DEF g
<1>10. g = [k \in 0..n |-> Value(g, k)]
  BY <1>8 DEF Solved
<1>11. g[0] = from /\ \A k \in 1..n : g[k] = Parser!AfterPair(g[k - 1], max)
  <2>1. 0 \in 0..n /\ \A k \in 1..n : k \in 0..n /\ k # 0
    BY <1>1
  <2> QED
    BY <1>10, <2>1
<1>12. \A k \in 0..n : g[k] = f[k]
  <2>1. Alike(g, f, n)
    BY <1>6, <1>11 DEF Alike
  <2> QED
    BY <1>1, <2>1, StepsAgree
<1>13. g \in [0..n -> Nat]
  <2>1. \A k \in 0..n : g[k] \in Nat
    BY <1>1, <1>6, <1>12
  <2> QED
    BY <1>10, <2>1
<1>14. LoopsFrom(g, from, max)
  BY <1>9, <1>11, <1>13 DEF LoopsFrom, Loops, n
<1> QED
  BY <1>14 DEF max

\* The loop reads the pairs of the query and goes past the end.
LEMMA QueryFound ==
  ASSUME NEW u, IsRead(u), u.query # Parser!Empty
  PROVE  /\ Parser!FirstOf({"#"}, EndAt(u.attributes) + 1) = Len(url) + 1
         /\ Parser!PairsFrom(EndAt(u.attributes) + 1, Len(url) + 1) =
              [pairs |-> {u.query[k] : k \in DOMAIN u.query}, index |-> Len(url) + 3]
<1> DEFINE p == EndAt(u.attributes) + 1
           n == Len(u.query)
           l == Len(url)
<1>1. url \in Parser!Text /\ u.query \in Seq(Parser!Text \X Parser!Text) /\ l \in Nat
  BY ReadFacts
<1>2. n \in Nat \ {0} /\ DOMAIN u.query = 1..n
  BY <1>1 DEF Parser!Empty
<1>3. PICK c : QueryPlaced(c, u)
  BY PairsPlaced
<1>4. Placed(c, Pairs(u), p, "&") /\ c[n] = l + 1 /\ Len(Pairs(u)) = n /\ Pairs(u) \in Seq(Parser!Text)
  <2>1. Len(Pairs(u)) = n /\ Pairs(u) \in Seq(Parser!Text)
    BY ReadFacts, TextTypes
  <2> QED
    BY <1>3, <2>1 DEF QueryPlaced
<1>5. p \in Nat \ {0, 1}
  BY Places
<1>6. c \in [0..n -> Nat] /\ c[0] + 1 = p
  <2>1. p - 1 + 1 = p
    BY <1>5
  <2> HIDE DEF p
  <2> QED
    BY <1>4, <2>1 DEF Placed
<1>7. p + n <= l + 2
  <2>1. p \in Nat \ {0} /\ 0 \in 0..n
    BY <1>2, <1>5
  <2> HIDE DEF p
  <2>2. c[0] + (n - 0) <= c[n]
    BY <1>4, <2>1, PlacedApart
  <2>3. c[0] \in Nat
    BY <1>6, <2>1
  <2> HIDE DEF n, l
  <2> QED
    BY <1>1, <1>2, <1>4, <1>6, <2>2, <2>3
<1>8. \A k \in 1..n : TurnFound(c[k - 1] + 1, l + 1, u.query[k][1], u.query[k][2], IF k = n THEN l + 3 ELSE c[k] + 1)
  BY <1>3, PairFound
<1>9. \A k \in p - 1..l : url[k] \notin {"/", "#"}
  <2>1. p - 1 = EndAt(u.attributes)
    BY <1>5, Places
  <2> QED
    BY <2>1, PageFacts
<1> HIDE DEF p, n, l
<1>10. Parser!FirstOf({"#"}, p) = l + 1
  <2>1. l + 1 \in p..Len(url) + 1 /\ ~ (l + 1 <= Len(url)) /\ p \in Nat \ {0}
    BY <1>1, <1>2, <1>5, <1>7 DEF l
  <2>2. \A k \in p..(l + 1) - 1 : url[k] \notin {"#"}
    BY <1>1, <1>5, <1>9
  <2> DEFINE e == l + 1
  <2>3. e \in p..Len(url) + 1 /\ ~ (e <= Len(url)) /\ \A k \in p..e - 1 : url[k] \notin {"#"}
    BY <2>1, <2>2
  <2> HIDE DEF e
  <2>4. Parser!FirstOf({"#"}, p) = e
    BY <1>1, <2>1, <2>3, FirstIs
  <2> QED
    BY <2>4 DEF e
<1>11. p \in 1..Len(url) + 1
  BY <1>1, <1>2, <1>5, <1>7 DEF l
<1>12. PICK f : LoopsFrom(f, p, l + 1)
  BY <1>1, <1>11, LoopDef DEF l
<1> DEFINE g == [m \in 0..l |-> IF m < n THEN c[m] + 1 ELSE l + 3]
<1>13. f \in [0..l -> Nat] /\ f[0] = p /\ \A m \in 1..l : f[m] = Parser!AfterPair(f[m - 1], l + 1)
  BY <1>12 DEF LoopsFrom, Loops, l
<1>14. \A m \in 0..l : g[m] = IF m < n THEN c[m] + 1 ELSE l + 3
  OBVIOUS
<1> HIDE DEF g
<1>15. Alike(f, g, l)
  <2>1. f[0] = g[0]
    <3>1. 0 \in 0..l /\ 0 < n
      BY <1>1, <1>2
    <3> QED
      BY <1>6, <1>13, <1>14, <3>1
  <2>2. ASSUME NEW m \in 1..l, f[m - 1] = g[m - 1] PROVE f[m] = g[m]
    <3>1. m - 1 \in 0..l /\ m \in 0..l /\ m \in Nat
      BY <1>1
    <3>2. f[m] = Parser!AfterPair(g[m - 1], l + 1)
      BY <1>13, <2>2
    <3>3. CASE m - 1 < n
      <4>1. m \in 1..n /\ (m = n <=> ~ (m < n))
        BY <1>2, <3>1, <3>3
      <4>2. Parser!AfterPair(c[m - 1] + 1, l + 1) = IF m = n THEN l + 3 ELSE c[m] + 1
        BY <1>8, <4>1 DEF TurnFound
      <4> QED
        BY <1>14, <3>1, <3>2, <3>3, <4>1, <4>2
    <3>4. CASE ~ (m - 1 < n)
      <4>1. ~ (m < n)
        BY <1>2, <3>1, <3>4
      <4>2. Parser!AfterPair(l + 3, l + 1) = l + 3
        BY <1>1 DEF Parser!AfterPair
      <4> QED
        BY <1>14, <3>1, <3>2, <3>4, <4>1, <4>2
    <3> QED
      BY <3>3, <3>4
  <2> QED
    BY <2>1, <2>2 DEF Alike
<1>16. \A m \in 0..l : f[m] = IF m < n THEN c[m] + 1 ELSE l + 3
  <2>1. \A m \in 0..l : f[m] = g[m]
    BY <1>1, <1>15, StepsAgree
  <2> QED
    BY <1>14, <2>1
<1>17. f[l] = l + 3
  <2>1. l \in 0..l /\ ~ (l < n)
    BY <1>1, <1>2, <1>5, <1>7
  <2> QED
    BY <1>16, <2>1
<1> DEFINE reached == {f[m] : m \in 0..l} \cap 1..(l + 1) - 1
<1>18. \A k \in 1..n : Parser!PairAt(c[k - 1] + 1, l + 1) = u.query[k] /\ c[k - 1] + 1 \in 1..(l + 1) - 1
  <2> SUFFICES ASSUME NEW k \in 1..n
               PROVE  Parser!PairAt(c[k - 1] + 1, l + 1) = u.query[k] /\ c[k - 1] + 1 \in 1..(l + 1) - 1
    OBVIOUS
  <2>1. TurnFound(c[k - 1] + 1, l + 1, u.query[k][1], u.query[k][2], IF k = n THEN l + 3 ELSE c[k] + 1)
    BY <1>8
  <2>2. u.query[k] \in Parser!Text \X Parser!Text
    BY <1>1, <1>2
  <2>3. u.query[k] = <<u.query[k][1], u.query[k][2]>>
    BY <2>2
  <2> QED
    BY <2>1, <2>3 DEF TurnFound
<1>19. {Parser!PairAt(k, l + 1) : k \in reached} = {u.query[k] : k \in 1..n}
  <2>1. ASSUME NEW k \in reached PROVE Parser!PairAt(k, l + 1) \in {u.query[j] : j \in 1..n}
    <3>1. PICK m \in 0..l : k = f[m]
      OBVIOUS
    <3>2. k \in 1..(l + 1) - 1
      OBVIOUS
    <3> HIDE DEF reached
    <3>3. m < n
      BY <1>1, <1>16, <3>1, <3>2
    <3>4. m + 1 \in 1..n /\ (m + 1) - 1 = m
      BY <1>2, <3>3
    <3>5. Parser!PairAt(c[m] + 1, l + 1) = u.query[m + 1]
      BY <1>18, <3>4
    <3>6. k = c[m] + 1
      BY <1>16, <3>1, <3>3
    <3> QED
      BY <3>4, <3>5, <3>6
  <2>2. ASSUME NEW k \in 1..n PROVE u.query[k] \in {Parser!PairAt(j, l + 1) : j \in reached}
    <3>1. k - 1 \in 0..l /\ k - 1 < n
      BY <1>1, <1>2, <1>5, <1>7
    <3>2. f[k - 1] = c[k - 1] + 1
      BY <1>16, <3>1
    <3>3. f[k - 1] \in reached
      BY <1>18, <3>1, <3>2
    <3>4. u.query[k] = Parser!PairAt(f[k - 1], l + 1)
      BY <1>18, <3>2
    <3> HIDE DEF reached
    <3> QED
      BY <3>3, <3>4
  <2> HIDE DEF reached
  <2> QED
    BY <2>1, <2>2
<1>20. Parser!PairsFrom(p, l + 1) = [pairs |-> {Parser!PairAt(k, l + 1) : k \in reached}, index |-> f[l]]
  BY <1>12 DEF LoopsFrom, l
<1> HIDE DEF reached
<1>21. Parser!PairsFrom(p, l + 1) = [pairs |-> {u.query[k] : k \in DOMAIN u.query}, index |-> l + 3]
  BY <1>2, <1>17, <1>19, <1>20
<1> QED
  BY <1>10, <1>21 DEF p, l
LEMMA QueryThere ==
  ASSUME NEW u, IsRead(u), u.query # Parser!Empty
  PROVE  EndAt(u.attributes) + 1 <= Len(url)
<1>1. PICK c : QueryPlaced(c, u)
  BY PairsPlaced
<1>2. u.query \in Seq(Parser!Text \X Parser!Text) /\ Len(url) \in Nat /\ EndAt(u.attributes) \in Nat
  BY ReadFacts, Places
<1>3. 1 \in 1..Len(u.query) /\ 1 - 1 = 0
  BY <1>2 DEF Parser!Empty
<1>4. c[0] + 1 \in 1..(Len(url) + 1) - 1
  <2>1. TurnFound(c[1 - 1] + 1, Len(url) + 1, u.query[1][1], u.query[1][2],
                  IF 1 = Len(u.query) THEN Len(url) + 3 ELSE c[1] + 1)
    BY <1>1, <1>3, PairFound
  <2> QED
    BY <1>3, <2>1 DEF TurnFound
<1>5. c[0] = (EndAt(u.attributes) + 1) - 1
  BY <1>1 DEF QueryPlaced, Placed
<1> QED
  BY <1>2, <1>4, <1>5

-------------------------------------------------------------------------------
(* The path with its dots resolved *)

-------------------------------------------------------------------------------
(* URLs: the dots of a path, and what normalise does to them *)

\* One part more, resolved.
ResolvedBy(q, s) ==
  CASE s = <<".">> -> q
    [] s = <<".", ".">> -> SubSeq(q, 1, Len(q) - 1)
    [] OTHER -> Append(q, s)

LEMMA DotFacts == ~ (<<".">> = <<".", ".">>)
<1>1. Len(<<".">>) = 1 /\ Len(<<".", ".">>) = 2
  OBVIOUS
<1> QED
  BY <1>1

LEMMA ResolvedByFacts ==
  ASSUME NEW q \in Seq(Parser!Text), NEW s \in Parser!Text
  PROVE  /\ ResolvedBy(q, s) \in Seq(Parser!Text)
         /\ Len(ResolvedBy(q, s)) <= Len(q) + 1
<1>1. CASE s = <<".">>
  BY <1>1, DotFacts DEF ResolvedBy
<1>2. CASE s = <<".", ".">>
  <2>1. ResolvedBy(q, s) = SubSeq(q, 1, Len(q) - 1)
    BY <1>2, DotFacts DEF ResolvedBy
  <2>2. SubSeq(q, 1, Len(q) - 1) \in Seq(Parser!Text) /\ Len(SubSeq(q, 1, Len(q) - 1)) <= Len(q) + 1
    <3>1. CASE Len(q) = 0
      BY <3>1
    <3>2. CASE Len(q) # 0
      BY <3>2
    <3> QED
      BY <3>1, <3>2
  <2> QED
    BY <2>1, <2>2
<1>3. CASE s # <<".">> /\ s # <<".", ".">>
  <2>1. ResolvedBy(q, s) = Append(q, s)
    BY <1>3 DEF ResolvedBy
  <2> QED
    BY <2>1
<1> QED
  BY <1>1, <1>2, <1>3

ResolvesUp(f, path) ==
  /\ f \in [0..Len(path) -> Seq(Parser!Text)]
  /\ f[0] = Parser!Empty
  /\ \A k \in 1..Len(path) : f[k] = ResolvedBy(f[k - 1], path[k])

LEMMA ResolvedDef ==
  ASSUME NEW path \in Seq(Parser!Text)
  PROVE  \E f : ResolvesUp(f, path) /\ Parser!Resolved(path) = f[Len(path)]
<1> DEFINE n == Len(path)
           X == Seq(Parser!Text)
           step == [ks \in Nat \X X |-> IF ks[1] \in 1..n THEN ResolvedBy(ks[2], path[ks[1]]) ELSE Parser!Empty]
           Value(f, k) == IF k = 0 THEN Parser!Empty
                          ELSE CASE path[k] = <<".">> -> f[k - 1]
                                 [] path[k] = <<".", ".">> -> SubSeq(f[k - 1], 1, Len(f[k - 1]) - 1)
                                 [] OTHER -> Append(f[k - 1], path[k])
           Solved(f) == f = [k \in 0..n |-> Value(f, k)]
<1>1. n \in Nat /\ Parser!Empty \in X /\ \A k \in 1..n : path[k] \in Parser!Text
  BY DEF Parser!Empty
<1>2. IsStep(step, X)
  <2>1. ASSUME NEW k \in Nat, NEW s \in X PROVE (IF k \in 1..n THEN ResolvedBy(s, path[k]) ELSE Parser!Empty) \in X
    BY <1>1, ResolvedByFacts
  <2> HIDE DEF n, X
  <2> QED
    BY <2>1 DEF IsStep
<1>3. \A k \in 1..n, s \in X : step[k, s] = ResolvedBy(s, path[k])
  <2> SUFFICES ASSUME NEW k \in 1..n, NEW s \in X PROVE step[k, s] = ResolvedBy(s, path[k])
    BY Zenon
  <2> HIDE DEF X
  <2>1. <<k, s>> \in Nat \X X /\ <<k, s>>[1] = k /\ <<k, s>>[2] = s
    BY <1>1
  <2>2. step[<<k, s>>] = ResolvedBy(s, path[k])
    BY <2>1
  <2> QED
    BY <2>2, Zenon
<1> HIDE DEF step, n, X
<1>4. PICK f : Stepped(f, n, X, Parser!Empty, step)
  BY <1>1, <1>2, StepsExist
<1>5. ASSUME NEW k \in 1..n PROVE f[k] = ResolvedBy(f[k - 1], path[k])
  <2>1. k - 1 \in 0..n
    BY <1>1
  <2>2. f[k - 1] \in X
    BY <1>4, <2>1, Zenon DEF Stepped
  <2> QED
    BY <1>3, <1>4, <2>2, Zenon DEF Stepped
<1>6. Solved(f)
  <2>1. ASSUME NEW k \in 0..n PROVE f[k] = Value(f, k)
    <3>1. CASE k = 0
      BY <1>4, <3>1, Zenon DEF Stepped
    <3>2. CASE k # 0
      <4>1. k \in 1..n
        BY <1>1, <3>2
      <4> QED
        BY <1>5, <3>2, <4>1 DEF ResolvedBy
    <3> QED
      BY <3>1, <3>2
  <2>2. f = [k \in 0..n |-> f[k]]
    BY <1>4, Zenon DEF Stepped
  <2> HIDE DEF Value
  <2> QED
    BY <2>1, <2>2
<1> HIDE DEF Solved
<1> DEFINE g == CHOOSE g : Solved(g)
<1>7. Solved(g)
  BY <1>6
<1>8. Parser!Resolved(path) = g[n]
  BY DEF Parser!Resolved, Solved, n
<1> HIDE DEF g
<1>9. g[0] = Parser!Empty /\ \A k \in 1..n : g[k] = ResolvedBy(g[k - 1], path[k])
  <2>1. g = [k \in 0..n |-> Value(g, k)]
    BY <1>7 DEF Solved
  <2>2. 0 \in 0..n /\ \A k \in 1..n : k \in 0..n /\ k # 0
    BY <1>1
  <2>3. \A k \in 0..n : g[k] = Value(g, k)
    <3> HIDE DEF Value
    <3> QED
      BY <2>1
  <2> QED
    BY <2>2, <2>3 DEF ResolvedBy
<1>10. \A k \in 0..n : g[k] = f[k]
  <2>1. Alike(g, f, n)
    BY <1>4, <1>5, <1>9, Zenon DEF Alike, Stepped
  <2> QED
    BY <1>1, <2>1, StepsAgree
<1>11. ResolvesUp(f, path) /\ n \in 0..n
  <2>1. n \in 0..n
    BY <1>1
  <2> QED
    BY <1>4, <1>5, <2>1, Zenon DEF ResolvesUp, Stepped, n, X
<1> QED
  BY <1>8, <1>10, <1>11 DEF n

LEMMA ResolvesAgree ==
  ASSUME NEW path \in Seq(Parser!Text), NEW more \in Seq(Parser!Text), Begins(path, more),
         NEW f, NEW g, ResolvesUp(f, path), ResolvesUp(g, more)
  PROVE  \A k \in 0..Len(path) : f[k] = g[k]
<1>1. Len(path) \in Nat /\ Len(more) \in Nat
  OBVIOUS
<1>2. \A k \in 1..Len(path) : k \in 1..Len(more)
  BY <1>1 DEF Begins
<1>3. Alike(f, g, Len(path))
  BY <1>2 DEF ResolvesUp, Alike, Begins
<1> QED
  BY <1>1, <1>3, StepsAgree

\* The first m parts of a path, resolved.
ResolvedTo(path, m) == Parser!Resolved(SubSeq(path, 1, m))

LEMMA ResolvedFacts ==
  ASSUME NEW path \in Seq(Parser!Text)
  PROVE  /\ ResolvedTo(path, 0) = Parser!Empty
         /\ ResolvedTo(path, Len(path)) = Parser!Resolved(path)
         /\ \A m \in 0..Len(path) : ResolvedTo(path, m) \in Seq(Parser!Text) /\ Len(ResolvedTo(path, m)) <= m
         /\ \A m \in 1..Len(path) : ResolvedTo(path, m) = ResolvedBy(ResolvedTo(path, m - 1), path[m])
<1> DEFINE n == Len(path)
<1>1. PICK f : ResolvesUp(f, path) /\ Parser!Resolved(path) = f[n]
  BY ResolvedDef
<1>2. n \in Nat
  OBVIOUS
<1>3. ASSUME NEW m \in 0..n PROVE ResolvedTo(path, m) = f[m]
  <2> DEFINE few == SubSeq(path, 1, m)
  <2>1. few \in Seq(Parser!Text) /\ Len(few) = m /\ \A k \in 1..m : path[k] = few[k]
    BY <1>2
  <2> HIDE DEF few
  <2>2. PICK g : ResolvesUp(g, few) /\ Parser!Resolved(few) = g[Len(few)]
    BY <2>1, ResolvedDef
  <2>3. \A k \in 0..Len(few) : g[k] = f[k]
    <3>1. Begins(few, path)
      BY <1>2, <2>1 DEF Begins
    <3> QED
      BY <1>1, <2>1, <2>2, <3>1, ResolvesAgree
  <2>4. m \in 0..m
    OBVIOUS
  <2> QED
    BY <2>1, <2>2, <2>3, <2>4 DEF few, ResolvedTo
<1>4. ASSUME NEW m \in 1..n PROVE ResolvedTo(path, m) = ResolvedBy(ResolvedTo(path, m - 1), path[m])
  <2>1. m \in 0..n /\ m - 1 \in 0..n
    BY <1>2
  <2> QED
    BY <1>1, <1>3, <2>1 DEF ResolvesUp
<1>5. \A m \in 0..n : f[m] \in Seq(Parser!Text) /\ Len(f[m]) <= m
  <2> DEFINE S == {m \in 0..n : Len(f[m]) <= m}
  <2>1. \A m \in 0..n : f[m] \in Seq(Parser!Text)
    BY <1>1 DEF ResolvesUp
  <2>2. 0 \in S
    BY <1>1, <1>2 DEF ResolvesUp, Parser!Empty
  <2>3. ASSUME NEW m \in 0..n - 1, m \in S PROVE m + 1 \in S
    <3>1. m + 1 \in 1..n /\ (m + 1) - 1 = m /\ m \in 0..n /\ m + 1 \in 0..n
      BY <1>2
    <3>2. f[m + 1] = ResolvedBy(f[m], path[m + 1]) /\ path[m + 1] \in Parser!Text
      BY <1>1, <3>1 DEF ResolvesUp
    <3>3. f[m] \in Seq(Parser!Text) /\ f[m + 1] \in Seq(Parser!Text)
      BY <2>1, <3>1
    <3>4. Len(f[m + 1]) <= Len(f[m]) + 1
      BY <3>2, <3>3, ResolvedByFacts
    <3>5. Len(f[m]) \in Nat /\ Len(f[m + 1]) \in Nat /\ Len(f[m]) <= m
      BY <2>3, <3>3
    <3>6. Len(f[m + 1]) <= m + 1
      BY <3>1, <3>4, <3>5
    <3> QED
      BY <3>1, <3>6
  <2> HIDE DEF S, n
  <2>4. \A m \in 0..n : m \in S
    BY <1>2, <2>2, <2>3, Ascend
  <2> QED
    BY <2>1, <2>4 DEF S
<1>6. 0 \in 0..n /\ n \in 0..n
  BY <1>2
<1> QED
  BY <1>1, <1>3, <1>4, <1>5, <1>6 DEF ResolvesUp

LEMMA SameSequence ==
  ASSUME NEW X, NEW s \in Seq(X), NEW t \in Seq(X), Len(s) = Len(t), \A k \in 1..Len(s) : s[k] = t[k]
  PROVE  s = t
<1>1. s = [k \in 1..Len(s) |-> s[k]] /\ t = [k \in 1..Len(t) |-> t[k]]
  OBVIOUS
<1> QED
  BY <1>1

\* A prefix grows by the next element.
LEMMA PrefixGrows ==
  ASSUME NEW X, NEW w \in Seq(X)
  PROVE  /\ SubSeq(w, 1, 0) = Parser!Empty /\ SubSeq(w, 1, Len(w)) = w
         /\ \A k \in 0..Len(w) - 1 : Append(SubSeq(w, 1, k), w[k + 1]) = SubSeq(w, 1, k + 1)
<1>1. SubSeq(w, 1, 0) = Parser!Empty
  BY DEF Parser!Empty
<1>2. SubSeq(w, 1, Len(w)) = w
  <2>1. SubSeq(w, 1, Len(w)) \in Seq(X) /\ Len(SubSeq(w, 1, Len(w))) = Len(w)
        /\ \A k \in 1..Len(w) : SubSeq(w, 1, Len(w))[k] = w[k]
    OBVIOUS
  <2> QED
    BY <2>1, SameSequence
<1>3. ASSUME NEW k \in 0..Len(w) - 1 PROVE Append(SubSeq(w, 1, k), w[k + 1]) = SubSeq(w, 1, k + 1)
  <2> DEFINE s == SubSeq(w, 1, k)
             t == SubSeq(w, 1, k + 1)
             e == w[k + 1]
  <2>1. s \in Seq(X) /\ Len(s) = k /\ \A n \in 1..k : s[n] = w[n]
    OBVIOUS
  <2>2. t \in Seq(X) /\ Len(t) = k + 1 /\ \A n \in 1..k + 1 : t[n] = w[n]
    OBVIOUS
  <2>3. e \in X /\ e = w[k + 1]
    OBVIOUS
  <2> HIDE DEF s, t, e
  <2>4. Append(s, e) \in Seq(X) /\ Len(Append(s, e)) = k + 1
        /\ (\A n \in 1..k : Append(s, e)[n] = s[n]) /\ Append(s, e)[k + 1] = e
    BY <2>1, <2>3
  <2>5. ASSUME NEW n \in 1..k + 1 PROVE Append(s, e)[n] = t[n]
    <3>1. n \in 1..k \/ n = k + 1
      OBVIOUS
    <3> QED
      BY <2>1, <2>2, <2>3, <2>4, <3>1
  <2>6. Append(s, e) = t
    BY <2>2, <2>4, <2>5, SameSequence
  <2> QED
    BY <2>6 DEF s, t, e
<1> QED
  BY <1>1, <1>2, <1>3

LEMMA Spliced ==
  ASSUME NEW X, NEW q \in Seq(X), NEW t \in Seq(X), t # Parser!Empty
  PROVE  /\ q \o t \in Seq(X) /\ Len(q \o t) = Len(q) + Len(t) /\ Len(t) # 0
         /\ (q \o t)[Len(q) + 1] = t[1]
         /\ Parser!Without(q \o t, Len(q) + 1, Len(q) + 1) = q \o Tail(t)
         /\ q # Parser!Empty => Parser!Up(q \o t, Len(q) + 1) = SubSeq(q, 1, Len(q) - 1) \o Tail(t)
         /\ Append(q, t[1]) \o Tail(t) = q \o t
<1> DEFINE r == Tail(t)
           n == Len(q)
           j == Len(t)
           p == q \o t
<1>1. n \in Nat /\ j \in Nat \ {0}
  BY DEF Parser!Empty
<1>2. r \in Seq(X) /\ Len(r) = j - 1 /\ (\A k \in 1..j - 1 : r[k] = t[k + 1]) /\ t[1] \in X
  BY <1>1
<1>3. p \in Seq(X) /\ Len(p) = n + j /\ (\A k \in 1..n : p[k] = q[k]) /\ \A k \in 1..j : p[n + k] = t[k]
  BY <1>1
<1> DEFINE e == t[1]
<1>4. e \in X /\ e = t[1] /\ \A k \in 1..n : q[k] \in X
  BY <1>2
<1> HIDE DEF r, p, e
<1>5. p[n + 1] = e
  BY <1>1, <1>3, <1>4
<1> DEFINE b == SubSeq(p, n + 2, n + j)
<1>6. b = r
  <2>1. b \in Seq(X) /\ Len(b) = j - 1 /\ \A k \in 1..j - 1 : b[k] = p[n + 1 + k]
    <3> HIDE DEF n, j
    <3> QED
      BY <1>1, <1>3
  <2> HIDE DEF b
  <2>2. ASSUME NEW k \in 1..j - 1 PROVE b[k] = r[k]
    <3>1. k + 1 \in 1..j /\ n + 1 + k = n + (k + 1)
      BY <1>1
    <3> QED
      BY <1>2, <1>3, <2>1, <3>1
  <2> QED
    BY <1>2, <2>1, <2>2, SameSequence
<1>7. SubSeq(p, 1, n) = q
  <2> DEFINE c == SubSeq(p, 1, n)
  <2>1. c \in Seq(X) /\ Len(c) = n /\ \A k \in 1..n : c[k] = p[k]
    <3> HIDE DEF n, j
    <3> QED
      BY <1>1, <1>3
  <2> HIDE DEF c
  <2>2. c = q
    BY <1>3, <2>1, SameSequence
  <2> QED
    BY <2>2 DEF c
<1>8. Parser!Without(p, n + 1, n + 1) = q \o r
  <2>1. (n + 1) - 1 = n /\ (n + 1) + 1 = n + 2
    BY <1>1
  <2> QED
    BY <1>3, <1>6, <1>7, <2>1 DEF Parser!Without
<1>9. q # Parser!Empty => Parser!Up(p, n + 1) = SubSeq(q, 1, n - 1) \o r
  <2> SUFFICES ASSUME q # Parser!Empty PROVE Parser!Up(p, n + 1) = SubSeq(q, 1, n - 1) \o r
    OBVIOUS
  <2>1. n \in Nat \ {0}
    BY DEF Parser!Empty
  <2> DEFINE c == SubSeq(p, 1, n - 1)
             d == SubSeq(q, 1, n - 1)
  <2>2. c \in Seq(X) /\ Len(c) = n - 1 /\ \A k \in 1..n - 1 : c[k] = p[k]
    <3> HIDE DEF n, j
    <3> QED
      BY <1>1, <1>3, <2>1
  <2>3. d \in Seq(X) /\ Len(d) = n - 1 /\ \A k \in 1..n - 1 : d[k] = q[k]
    <3>1. Len(q) = n
      OBVIOUS
    <3> HIDE DEF n
    <3> QED
      BY <2>1, <3>1
  <2> HIDE DEF c, d
  <2>4. c = d
    <3>1. \A k \in 1..n - 1 : c[k] = d[k]
      BY <1>1, <1>3, <2>2, <2>3
    <3> QED
      BY <2>2, <2>3, <3>1, SameSequence
  <2>5. ((n + 1) - 1) - 1 = n - 1 /\ (n + 1) + 1 = n + 2
    BY <1>1
  <2> QED
    BY <1>3, <1>6, <2>4, <2>5 DEF Parser!Up, Parser!Without, c, d
<1>10. Append(q, e) \o r = p
  <2> DEFINE f == Append(q, e)
             g == f \o r
  <2>1. f \in Seq(X) /\ Len(f) = n + 1 /\ (\A k \in 1..n : f[k] = q[k]) /\ f[n + 1] = e
    BY <1>4
  <2> HIDE DEF f
  <2>2. g \in Seq(X) /\ Len(g) = n + 1 + (j - 1) /\ (\A k \in 1..n + 1 : g[k] = f[k])
        /\ \A k \in 1..j - 1 : g[n + 1 + k] = r[k]
    <3>1. g \in Seq(X) /\ Len(g) = Len(f) + Len(r) /\ (\A k \in 1..Len(f) : g[k] = f[k])
          /\ \A k \in 1..Len(r) : g[Len(f) + k] = r[k]
      <4>1. f \in Seq(X) /\ r \in Seq(X)
        BY <1>2, <2>1
      <4> HIDE DEF n, j
      <4> QED
        BY <4>1
    <3> HIDE DEF n, j, g
    <3> QED
      BY <1>1, <1>2, <2>1, <3>1
  <2> HIDE DEF g
  <2>3. n + 1 + (j - 1) = n + j
    BY <1>1
  <2>4. ASSUME NEW k \in 1..n + j PROVE g[k] = p[k]
    <3>1. CASE k \in 1..n
      <4>1. k \in 1..n + 1
        BY <1>1, <3>1
      <4> QED
        BY <1>3, <2>1, <2>2, <3>1, <4>1
    <3>2. CASE k = n + 1
      <4>1. k \in 1..n + 1
        BY <1>1, <3>2
      <4> QED
        BY <1>5, <2>1, <2>2, <3>2, <4>1
    <3>3. CASE ~ (k \in 1..n) /\ k # n + 1
      <4> DEFINE z == k - (n + 1)
      <4>1. z \in 1..j - 1 /\ k = n + 1 + z /\ z + 1 \in 1..j /\ k = n + (z + 1)
        BY <1>1, <3>3
      <4> HIDE DEF z
      <4>2. g[n + 1 + z] = r[z] /\ r[z] = t[z + 1] /\ p[n + (z + 1)] = t[z + 1]
        BY <1>2, <1>3, <2>2, <4>1
      <4> QED
        BY <4>1, <4>2
    <3> QED
      BY <3>1, <3>2, <3>3
  <2>5. g = p
    BY <1>3, <2>2, <2>3, <2>4, SameSequence
  <2> QED
    BY <2>5 DEF f, g
<1> QED
  BY <1>1, <1>3, <1>4, <1>5, <1>8, <1>9, <1>10 DEF p, r, e

\* The path when its first m parts are resolved.
PathFrom(path, m) == ResolvedTo(path, m) \o SubSeq(path, m + 1, Len(path))

LEMMA PathEnds ==
  ASSUME NEW path \in Seq(Parser!Text)
  PROVE  PathFrom(path, 0) = path /\ PathFrom(path, Len(path)) = Parser!Resolved(path)
<1>1. ResolvedTo(path, 0) = Parser!Empty /\ ResolvedTo(path, Len(path)) = Parser!Resolved(path) /\ Len(path) \in 0..Len(path)
  BY ResolvedFacts
<1>2. Parser!Resolved(path) \in Seq(Parser!Text)
  BY <1>1, ResolvedFacts, SMTT(30)
<1>3. Parser!Empty \o SubSeq(path, 1, Len(path)) = path
  <2>1. SubSeq(path, 1, Len(path)) = path
    BY PrefixGrows
  <2>2. Parser!Empty \o path = path
    BY DEF Parser!Empty
  <2> QED
    BY <2>1, <2>2, Zenon
<1>4. Parser!Resolved(path) \o SubSeq(path, Len(path) + 1, Len(path)) = Parser!Resolved(path)
  <2>1. SubSeq(path, Len(path) + 1, Len(path)) = << >>
    OBVIOUS
  <2>2. Parser!Resolved(path) \o << >> = Parser!Resolved(path)
    BY <1>2
  <2> QED
    BY <2>1, <2>2
<1>5. 0 + 1 = 1
  OBVIOUS
<1> QED
  BY <1>1, <1>3, <1>4, <1>5 DEF PathFrom

\* What the next part is and what becomes of the path without it.
PathTurned(path, m, q, s) ==
  /\ PathFrom(path, m) \in Seq(Parser!Text)
  /\ Len(q) + 1 <= Len(PathFrom(path, m))
  /\ PathFrom(path, m)[Len(q) + 1] = s
  /\ s = <<".">> => /\ Parser!Without(PathFrom(path, m), Len(q) + 1, Len(q) + 1) = PathFrom(path, m + 1)
                    /\ Len(ResolvedTo(path, m + 1)) = Len(q)
  /\ s = <<".", ".">> /\ q # Parser!Empty => /\ Parser!Up(PathFrom(path, m), Len(q) + 1) = PathFrom(path, m + 1)
                                      /\ Len(ResolvedTo(path, m + 1)) = Len(q) - 1
  /\ s # <<".">> /\ s # <<".", ".">> => /\ PathFrom(path, m) = PathFrom(path, m + 1)
                                        /\ Len(ResolvedTo(path, m + 1)) = Len(q) + 1

LEMMA PathTurns ==
  ASSUME NEW path \in Seq(Parser!Text), NEW m \in 0..Len(path) - 1
  PROVE  PathTurned(path, m, ResolvedTo(path, m), path[m + 1])
<1> DEFINE q == ResolvedTo(path, m)
           s == path[m + 1]
           n == Len(path)
           t == SubSeq(path, m + 1, n)
<1>1. n \in Nat /\ m \in 0..n /\ m + 1 \in 1..n /\ (m + 1) - 1 = m
  OBVIOUS
<1>2. q \in Seq(Parser!Text) /\ ResolvedTo(path, m + 1) = ResolvedBy(q, s)
  BY <1>1, ResolvedFacts
<1>3. t \in Seq(Parser!Text) /\ Len(t) = n - m /\ t # Parser!Empty /\ t[1] = s
  <2>1. t \in Seq(Parser!Text) /\ Len(t) = n - m /\ \A k \in 1..n - m : t[k] = path[m + k]
    <3>1. Len(path) = n
      OBVIOUS
    <3> HIDE DEF n
    <3> QED
      BY <1>1, <3>1
  <2>2. 1 \in 1..n - m /\ n - m # 0
    BY <1>1
  <2> HIDE DEF t, n
  <2>3. t[1] = s
    BY <2>1, <2>2
  <2>4. t # Parser!Empty
    BY <2>1, <2>2 DEF Parser!Empty
  <2> QED
    BY <2>1, <2>3, <2>4
<1>4. Tail(t) = SubSeq(path, (m + 1) + 1, n)
  <2> DEFINE v == SubSeq(path, (m + 1) + 1, n)
             w == Tail(t)
  <2>1. v \in Seq(Parser!Text) /\ Len(v) = n - m - 1 /\ \A k \in 1..n - m - 1 : v[k] = path[m + 1 + k]
    BY <1>1
  <2>2. w \in Seq(Parser!Text) /\ Len(w) = n - m - 1 /\ \A k \in 1..n - m - 1 : w[k] = path[m + 1 + k]
    <3>1. Len(path) = n
      OBVIOUS
    <3>2. t \in Seq(Parser!Text) /\ Len(t) = n - m /\ \A k \in 1..n - m : t[k] = path[m + k]
      <4> HIDE DEF n
      <4> QED
        BY <1>1, <3>1
    <3> DEFINE l == n - m
    <3>3. l \in Nat \ {0} /\ Len(t) = l
      <4>1. Len(t) = l
        BY <3>2
      <4> HIDE DEF n
      <4> QED
        BY <1>1, <4>1
    <3> HIDE DEF t, l, n
    <3>4. w \in Seq(Parser!Text) /\ Len(w) = l - 1 /\ \A k \in 1..l - 1 : w[k] = t[k + 1]
      BY <3>2, <3>3
    <3> HIDE DEF w
    <3>5. ASSUME NEW k \in 1..l - 1 PROVE w[k] = path[m + 1 + k]
      <4>1. k + 1 \in 1..l /\ m + (k + 1) = m + 1 + k
        BY <1>1, <3>3
      <4> QED
        BY <3>2, <3>4, <4>1 DEF l
    <3> QED
      BY <3>4, <3>5 DEF l
  <2> HIDE DEF v, w, n
  <2>3. v = w
    BY <2>1, <2>2, SameSequence
  <2> QED
    BY <2>3 DEF v, w
<1>5. PathFrom(path, m) = q \o t /\ PathFrom(path, m + 1) = ResolvedBy(q, s) \o Tail(t)
  BY <1>2, <1>4 DEF PathFrom
<1> HIDE DEF q, s, t, n
<1>20. /\ q \o t \in Seq(Parser!Text) /\ Len(q \o t) = Len(q) + Len(t) /\ Len(t) # 0
       /\ (q \o t)[Len(q) + 1] = t[1]
       /\ Parser!Without(q \o t, Len(q) + 1, Len(q) + 1) = q \o Tail(t)
       /\ q # Parser!Empty => Parser!Up(q \o t, Len(q) + 1) = SubSeq(q, 1, Len(q) - 1) \o Tail(t)
       /\ Append(q, t[1]) \o Tail(t) = q \o t
  BY <1>2, <1>3, Spliced
<1>6. (q \o t)[Len(q) + 1] = s /\ Append(q, s) \o Tail(t) = q \o t
  <2>1. (q \o t)[Len(q) + 1] = t[1] /\ Append(q, t[1]) \o Tail(t) = q \o t
    BY <1>20
  <2> QED
    BY <1>3, <2>1
<1>7. Len(q) + 1 <= Len(q \o t)
  BY <1>2, <1>3, <1>20
<1>8. s = <<".">> => ResolvedBy(q, s) = q
  BY DEF ResolvedBy
<1>9. s = <<".", ".">> => ResolvedBy(q, s) = SubSeq(q, 1, Len(q) - 1)
  BY DotFacts DEF ResolvedBy
<1>10. s # <<".">> /\ s # <<".", ".">> => ResolvedBy(q, s) = Append(q, s)
  BY DEF ResolvedBy
<1>11. s \in Parser!Text
  BY <1>1 DEF s, n
<1>12. q # Parser!Empty => Len(SubSeq(q, 1, Len(q) - 1)) = Len(q) - 1
  <2>1. q # Parser!Empty => Len(q) \in Nat \ {0}
    BY <1>2 DEF Parser!Empty
  <2> DEFINE z == Len(q)
  <2>2. q \in Seq(Parser!Text) /\ Len(q) = z /\ (q # Parser!Empty => z \in Nat \ {0})
    BY <1>2, <2>1
  <2> HIDE DEF z
  <2>3. q # Parser!Empty => Len(SubSeq(q, 1, z - 1)) = z - 1
    BY <2>2
  <2> QED
    BY <2>3 DEF z
<1>13. Len(Append(q, s)) = Len(q) + 1
  <2> QED
    BY <1>2, <1>11
<1>14. PathTurned(path, m, q, s)
  BY <1>2, <1>5, <1>6, <1>20, <1>7, <1>8, <1>9, <1>10, <1>12, <1>13 DEF PathTurned
<1> QED
  BY <1>14 DEF q, s

-------------------------------------------------------------------------------
(* What has been read *)

-------------------------------------------------------------------------------
(* URLs: what the parser has read in each state *)

\* Attributes, member by member.
Attr(s, n, w, d, f, p, t, g) ==
  [scheme |-> s, username |-> n, password |-> w, domain |-> d, ip |-> f, port |-> p, path |-> t, page |-> g]

NoIp == FALSE

\* Each state of the parser: what it has read of its part, and all of those before.
ReadingScheme(a) ==
  /\ state = "Scheme" /\ a.scheme # Parser!Empty
  /\ \E k \in 0..Len(a.scheme) :
       /\ i = 1 + k
       /\ attributes = Attr(SubSeq(a.scheme, 1, k), Parser!Empty, Parser!Empty, Parser!Empty, NoIp, Parser!Empty, Parser!Empty, Parser!Empty)
ReadingUsername(a) ==
  /\ state = "Username" /\ a.username # Parser!Empty
  /\ \E k \in 0..Len(a.username) :
       /\ i = LoginAt(a) + k
       /\ attributes = Attr(a.scheme, SubSeq(a.username, 1, k), Parser!Empty, Parser!Empty, NoIp, Parser!Empty, Parser!Empty, Parser!Empty)
ReadingPassword(a) ==
  /\ state = "Password" /\ a.username # Parser!Empty
  /\ \E k \in 0..Len(a.password) :
       /\ i = LoginAt(a) + Len(a.username) + 1 + k
       /\ attributes = Attr(a.scheme, a.username, SubSeq(a.password, 1, k), Parser!Empty, NoIp, Parser!Empty, Parser!Empty, Parser!Empty)
ReadingDomain(a) ==
  /\ state = "Domain" /\ i = HostAt(a)
  /\ attributes = Attr(a.scheme, a.username, a.password, Parser!Empty, NoIp, Parser!Empty, Parser!Empty, Parser!Empty)
ReadingPort(a) ==
  /\ state = "Port" /\ a.port # Parser!Empty
  /\ \E k \in 0..Len(a.port) :
       /\ i = PortAt(a) + 1 + k
       /\ attributes = Attr(a.scheme, a.username, a.password, a.domain, a.ip, SubSeq(a.port, 1, k), Parser!Empty, Parser!Empty)
ReadingPath(a) ==
  /\ state = "Path" /\ i = RootAt(a) + 1
  /\ attributes = Attr(a.scheme, a.username, a.password, a.domain, a.ip, a.port, Parser!Empty, Parser!Empty)
ReadingPage(a) ==
  /\ state = "Page"
  /\ \E k \in 0..Len(a.page) :
       /\ i = PageAt(a) + k
       /\ attributes = Attr(a.scheme, a.username, a.password, a.domain, a.ip, a.port, a.path, SubSeq(a.page, 1, k))

\* From the query on all of the attributes are read.
QueryOf(u) == IF u.query = Parser!Empty THEN Parser!NoQuery ELSE {u.query[k] : k \in DOMAIN u.query}
WithPath(a, path) == Attr(a.scheme, a.username, a.password, a.domain, a.ip, a.port, path, a.page)
ReadingQuery(u) ==
  /\ state = "Query" /\ u.query # Parser!Empty
  /\ attributes = WithPath(u.attributes, u.attributes.path)
  /\ \/ i = EndAt(u.attributes) + 1 /\ query = Parser!NoQuery
     \/ i = Len(url) + 4 /\ query = QueryOf(u)
Normalising(u) ==
  /\ state = "Normalise" /\ query = QueryOf(u)
  /\ last = Len(u.attributes.path) + 1 /\ item \in Nat
  /\ \E m \in 0..Len(u.attributes.path) :
       /\ attributes = WithPath(u.attributes, PathFrom(u.attributes.path, m))
       /\ IF m < Len(u.attributes.path)
          THEN item = Len(ResolvedTo(u.attributes.path, m)) + 1
          ELSE item > Len(ResolvedTo(u.attributes.path, m))
Finished(u) ==
  /\ state = "Done" /\ query = QueryOf(u)
  /\ attributes = WithPath(u.attributes, Parser!Resolved(u.attributes.path))

Early(a) ==
  /\ query = Parser!NoQuery
  /\ \/ ReadingScheme(a) \/ ReadingUsername(a) \/ ReadingPassword(a) \/ ReadingDomain(a)
     \/ ReadingPort(a) \/ ReadingPath(a) \/ ReadingPage(a)
Reading(u) == Early(u.attributes) \/ ReadingQuery(u) \/ Normalising(u) \/ Finished(u)

LEMMA CharRead ==
  ASSUME NEW w \in Parser!Text, NEW p \in Nat \ {0}, StandsAt(url, p, w), NEW k \in 0..Len(w) - 1, NEW chars, Parser!Free(w, chars)
  PROVE  /\ url[p + k] \notin chars
         /\ Append(SubSeq(w, 1, k), url[p + k]) = SubSeq(w, 1, k + 1)
<1>1. Len(w) \in Nat
  BY LenFacts
<1>2. k + 1 \in 1..Len(w) /\ p + (k + 1) - 1 = p + k
  BY <1>1
<1>3. url[p + k] = w[k + 1]
  BY <1>2 DEF StandsAt
<1>4. Append(SubSeq(w, 1, k), w[k + 1]) = SubSeq(w, 1, k + 1)
  BY PrefixGrows DEF Parser!Text
<1> QED
  BY <1>2, <1>3, <1>4 DEF Parser!Free

LEMMA TextStarts == ASSUME NEW w \in Parser!Text PROVE SubSeq(w, 1, 0) = Parser!Empty /\ SubSeq(w, 1, Len(w)) = w
BY PrefixGrows DEF Parser!Text

\* A character more in one part.
Longer(x, member, c) == [x EXCEPT ![member] = Append(@, c)]

LEMMA AttrGrows ==
  ASSUME NEW s, NEW n, NEW w, NEW d, NEW f, NEW p, NEW t, NEW g, NEW c
  PROVE  /\ Longer(Attr(s, n, w, d, f, p, t, g), "scheme", c) = Attr(Append(s, c), n, w, d, f, p, t, g)
         /\ Longer(Attr(s, n, w, d, f, p, t, g), "username", c) = Attr(s, Append(n, c), w, d, f, p, t, g)
         /\ Longer(Attr(s, n, w, d, f, p, t, g), "password", c) = Attr(s, n, Append(w, c), d, f, p, t, g)
         /\ Longer(Attr(s, n, w, d, f, p, t, g), "port", c) = Attr(s, n, w, d, f, Append(p, c), t, g)
         /\ Longer(Attr(s, n, w, d, f, p, t, g), "page", c) = Attr(s, n, w, d, f, p, t, Append(g, c))
<1>1. Longer(Attr(s, n, w, d, f, p, t, g), "scheme", c) = Attr(Append(s, c), n, w, d, f, p, t, g)
  BY DEF Longer, Attr
<1>2. Longer(Attr(s, n, w, d, f, p, t, g), "username", c) = Attr(s, Append(n, c), w, d, f, p, t, g)
  BY DEF Longer, Attr
<1>3. Longer(Attr(s, n, w, d, f, p, t, g), "password", c) = Attr(s, n, Append(w, c), d, f, p, t, g)
  BY SMTT(30) DEF Longer, Attr
<1>4. Longer(Attr(s, n, w, d, f, p, t, g), "port", c) = Attr(s, n, w, d, f, Append(p, c), t, g)
  BY DEF Longer, Attr
<1>5. Longer(Attr(s, n, w, d, f, p, t, g), "page", c) = Attr(s, n, w, d, f, p, t, Append(g, c))
  BY SMTT(30) DEF Longer, Attr
<1> QED
  BY <1>1, <1>2, <1>3, <1>4, <1>5

\* Another path, and the parts of the host.
Pathed(x, t) == [x EXCEPT !.path = t]
Hosted(x, d, b) == [x EXCEPT !.domain = d, !.ip = b]

LEMMA AttrPath ==
  ASSUME NEW s, NEW n, NEW w, NEW d, NEW f, NEW p, NEW t, NEW g, NEW c
  PROVE  /\ Pathed(Attr(s, n, w, d, f, p, t, g), c) = Attr(s, n, w, d, f, p, c, g)
         /\ Attr(s, n, w, d, f, p, t, g).path = t
<1>1. Pathed(Attr(s, n, w, d, f, p, t, g), c) = Attr(s, n, w, d, f, p, c, g)
  BY DEF Attr, Pathed
<1>2. Attr(s, n, w, d, f, p, t, g).path = t
  BY DEF Attr
<1> QED
  BY <1>1, <1>2

LEMMA AttrHost ==
  ASSUME NEW s, NEW n, NEW w, NEW d, NEW f, NEW p, NEW t, NEW g, NEW c, NEW b
  PROVE  Hosted(Attr(s, n, w, d, f, p, t, g), c, b) = Attr(s, n, w, c, b, p, t, g)
<1> DEFINE z == [Attr(s, n, w, d, f, p, t, g) EXCEPT !.domain = c]
<1>1. Hosted(Attr(s, n, w, d, f, p, t, g), c, b) = [z EXCEPT !.ip = b]
  BY DEF Hosted
<1>2. z = Attr(s, n, w, c, f, p, t, g)
  BY DEF Attr
<1> HIDE DEF z
<1>3. [z EXCEPT !.ip = b] = Attr(s, n, w, c, b, p, t, g)
  BY <1>2 DEF Attr
<1> QED
  BY <1>1, <1>3

LEMMA AttrIs ==
  ASSUME NEW r \in Parser!AttributesType
  PROVE  r = Attr(r.scheme, r.username, r.password, r.domain, r.ip, r.port, r.path, r.page)
BY DEF Parser!AttributesType, Attr

LEMMA SchemeStep ==
  ASSUME NEW u, IsRead(u), Early(u.attributes), Parser!Scheme
  PROVE  Early(u.attributes)'
<1> DEFINE a == u.attributes
           w == a.scheme
           n == Len(w)
<1>1. state = "Scheme" /\ query' = query /\ query = Parser!NoQuery
  BY DEF Parser!Scheme, Parser!In, Early
<1>2. ReadingScheme(a)
  BY <1>1 DEF Early, ReadingScheme, ReadingUsername, ReadingPassword, ReadingDomain, ReadingPort, ReadingPath, ReadingPage
<1>3. w # Parser!Empty /\ \E k \in 0..n : i = 1 + k /\ attributes = Attr(SubSeq(w, 1, k), Parser!Empty, Parser!Empty, Parser!Empty, NoIp, Parser!Empty, Parser!Empty, Parser!Empty)
  BY <1>2 DEF ReadingScheme
<1>4. PICK k \in 0..n : i = 1 + k /\ attributes = Attr(SubSeq(w, 1, k), Parser!Empty, Parser!Empty, Parser!Empty, NoIp, Parser!Empty, Parser!Empty, Parser!Empty)
  BY <1>3
<1>5. w \in Parser!Text /\ Parser!Free(w, {":", ".", "@"})
  BY ReadFacts DEF IsRead, Parser!Readable, Parser!SchemeReadable
<1>6. n \in Nat \ {0} /\ LoginAt(a) = n + 4 /\ StandsAt(url, 1, w) /\ url[n + 1] = ":"
  BY <1>3, SchemeFacts
<1>7. CASE k # n
  <2>1. k \in 0..n - 1 /\ 1 \in Nat \ {0}
    BY <1>6, <1>7
  <2>2. url[1 + k] \notin {":", ".", "@"} /\ Append(SubSeq(w, 1, k), url[1 + k]) = SubSeq(w, 1, k + 1)
    <3> HIDE DEF w
    <3> QED
      BY <1>5, <1>6, <2>1, CharRead DEF n
  <2>3. i' = i + 1 /\ attributes' = [attributes EXCEPT !.scheme = Append(@, url[i])] /\ state' = state
    BY <1>4, <2>2 DEF Parser!Scheme
  <2>4. k + 1 \in 0..n /\ i' = 1 + (k + 1)
    BY <1>4, <2>1, <2>3
  <2>5. attributes' = Attr(SubSeq(w, 1, k + 1), Parser!Empty, Parser!Empty, Parser!Empty, NoIp, Parser!Empty, Parser!Empty, Parser!Empty)
    <3> DEFINE s == SubSeq(w, 1, k)
               t == SubSeq(w, 1, k + 1)
               c == url[i]
    <3>1. attributes = Attr(s, Parser!Empty, Parser!Empty, Parser!Empty, NoIp, Parser!Empty, Parser!Empty, Parser!Empty) /\ Append(s, c) = t
      BY <1>4, <2>2
    <3>2. attributes' = [attributes EXCEPT !.scheme = Append(@, c)]
      BY <2>3
    <3> HIDE DEF s, t, c
    <3>3. attributes' = Longer(Attr(s, Parser!Empty, Parser!Empty, Parser!Empty, NoIp, Parser!Empty, Parser!Empty, Parser!Empty), "scheme", c)
      BY <3>1, <3>2 DEF Longer
    <3>4. attributes' = Attr(Append(s, c), Parser!Empty, Parser!Empty, Parser!Empty, NoIp, Parser!Empty, Parser!Empty, Parser!Empty)
      BY <3>3, AttrGrows
    <3> QED
      BY <3>1, <3>4 DEF s, t, c
  <2>6. ReadingScheme(a)'
    BY <1>1, <1>3, <2>3, <2>4, <2>5 DEF ReadingScheme
  <2> QED
    BY <1>1, <2>6 DEF Early
<1>8. CASE k = n
  <2>1. url[i] = ":" /\ i + 3 = LoginAt(a)
    <3>1. i = n + 1
      BY <1>4, <1>6, <1>8
    <3>2. n + 1 + 3 = n + 4
      BY <1>6
    <3> HIDE DEF n
    <3> QED
      BY <1>6, <3>1, <3>2
  <2>2. i' = LoginAt(a) /\ state' = Parser!AfterScheme /\ attributes' = attributes
    BY <2>1 DEF Parser!Scheme
  <2>3. Parser!AfterScheme = IF a.username # Parser!Empty THEN "Username" ELSE "Domain"
    <3>1. Parser!LastOf({"@"}, Parser!FirstOf({"/"}, LoginAt(a))) # 0 <=> a.username # Parser!Empty
      BY <1>3, LoginFound
    <3>2. Parser!AfterScheme = IF Parser!LastOf({"@"}, Parser!FirstOf({"/"}, LoginAt(a))) # 0 THEN "Username" ELSE "Domain"
      BY <2>1 DEF Parser!AfterScheme
    <3> QED
      BY <3>1, <3>2
  <2>4. attributes' = Attr(w, Parser!Empty, Parser!Empty, Parser!Empty, NoIp, Parser!Empty, Parser!Empty, Parser!Empty)
    BY <1>4, <1>5, <1>8, <2>2, TextStarts
  <2>5. CASE a.username # Parser!Empty
    <3>1. a.username \in Parser!Text
      BY ReadFacts
    <3>2. SubSeq(a.username, 1, 0) = Parser!Empty
      BY <3>1, TextStarts
    <3>3. 0 \in 0..Len(a.username) /\ LoginAt(a) + 0 = LoginAt(a)
      BY <3>1, Places, LenFacts
    <3>4. ReadingUsername(a)'
      BY <2>2, <2>3, <2>4, <2>5, <3>2, <3>3 DEF ReadingUsername
    <3> QED
      BY <1>1, <3>4 DEF Early
  <2>6. CASE a.username = Parser!Empty
    <3>1. HostAt(a) = LoginAt(a) /\ a.password = Parser!Empty
      BY <2>6, LoginFree DEF IsRead, Parser!Readable, Parser!LoginReadable
    <3>2. ReadingDomain(a)'
      BY <2>2, <2>3, <2>4, <2>6, <3>1 DEF ReadingDomain
    <3> QED
      BY <1>1, <3>2 DEF Early
  <2> QED
    BY <2>5, <2>6
<1> QED
  BY <1>7, <1>8

-------------------------------------------------------------------------------
(* URLs: the steps of the parser *)

\* A character of the part is taken, or the delimiter behind it.
TakenChar(w, p, k, member) ==
  /\ k + 1 \in 0..Len(w) /\ i' = p + (k + 1) /\ state' = state
  /\ \E c : attributes' = Longer(attributes, member, c) /\ Append(SubSeq(w, 1, k), c) = SubSeq(w, 1, k + 1)

LEMMA TakesChar ==
  ASSUME url \in Parser!Text, NEW w \in Parser!Text, NEW p \in Nat \ {0}, StandsAt(url, p, w), NEW k \in 0..Len(w), k # Len(w), i = p + k,
         NEW member, NEW end, NEW next, NEW chars, Parser!Free(w, chars), end \in chars, Parser!Take(member, end, next)
  PROVE  TakenChar(w, p, k, member)
<1>1. Len(w) \in Nat
  BY LenFacts
<1>2. k \in 0..Len(w) - 1 /\ k + 1 \in 0..Len(w) /\ i + 1 = p + (k + 1)
  BY <1>1
<1>3. url[p + k] \notin chars /\ Append(SubSeq(w, 1, k), url[p + k]) = SubSeq(w, 1, k + 1)
  BY <1>2, CharRead
<1>4. url[i] # end
  BY <1>3
<1>5. i' = i + 1 /\ state' = state /\ attributes' = [attributes EXCEPT ![member] = Append(@, url[i])]
  BY <1>4 DEF Parser!Take
<1>6. attributes' = Longer(attributes, member, url[i])
  BY <1>5 DEF Longer
<1> QED
  BY <1>2, <1>3, <1>5, <1>6 DEF TakenChar

LEMMA TakesEnd ==
  ASSUME NEW w \in Parser!Text, NEW p \in Nat \ {0}, NEW k \in 0..Len(w), k = Len(w), i = p + k,
         NEW member, NEW end, NEW next, url[p + Len(w)] = end, Parser!Take(member, end, next)
  PROVE  i' = p + Len(w) + 1 /\ state' = next /\ attributes' = attributes
<1>1. url[i] = end
  OBVIOUS
<1> QED
  BY <1>1 DEF Parser!Take

LEMMA UsernameStep ==
  ASSUME NEW u, IsRead(u), Early(u.attributes), Parser!Username
  PROVE  Early(u.attributes)'
<1> DEFINE a == u.attributes
           w == a.username
           n == Len(w)
           p == LoginAt(a)
<1>1. state = "Username" /\ query' = query /\ url' = url /\ query = Parser!NoQuery /\ Parser!Take("username", ":", "Password")
  BY DEF Parser!Username, Parser!In, Early, Parser!Take
<1>2. ReadingUsername(a)
  BY <1>1 DEF Early, ReadingScheme, ReadingUsername, ReadingPassword, ReadingDomain, ReadingPort, ReadingPath, ReadingPage
<1>3. PICK k \in 0..n : i = p + k /\ attributes = Attr(a.scheme, SubSeq(w, 1, k), Parser!Empty, Parser!Empty, NoIp, Parser!Empty, Parser!Empty, Parser!Empty)
  BY <1>2 DEF ReadingUsername
<1>4. w \in Parser!Text /\ n \in Nat /\ url \in Parser!Text
  BY ReadFacts, LenFacts
<1>5. p \in Nat \ {0} /\ StandsAt(url, p, w) /\ url[p + n] = ":"
  BY <1>2, Places, LoginFacts DEF ReadingUsername
<1>6. Parser!Free(w, {":", "/"}) /\ ":" \in {":", "/"}
  BY DEF IsRead, Parser!Readable, Parser!LoginReadable
<1>7. CASE k # n
  <2> HIDE DEF w, p
  <2>1. TakenChar(w, p, k, "username")
    BY <1>1, <1>3, <1>4, <1>5, <1>6, <1>7, TakesChar DEF n
  <2>2. PICK c : attributes' = Longer(attributes, "username", c) /\ Append(SubSeq(w, 1, k), c) = SubSeq(w, 1, k + 1)
    BY <2>1 DEF TakenChar
  <2>3. attributes' = Attr(a.scheme, SubSeq(w, 1, k + 1), Parser!Empty, Parser!Empty, NoIp, Parser!Empty, Parser!Empty, Parser!Empty)
    <3> DEFINE s == SubSeq(w, 1, k)
    <3>1. attributes' = Longer(Attr(a.scheme, s, Parser!Empty, Parser!Empty, NoIp, Parser!Empty, Parser!Empty, Parser!Empty), "username", c)
      BY <1>3, <2>2
    <3> HIDE DEF s
    <3>2. attributes' = Attr(a.scheme, Append(s, c), Parser!Empty, Parser!Empty, NoIp, Parser!Empty, Parser!Empty, Parser!Empty)
      BY <3>1, AttrGrows
    <3> QED
      BY <2>2, <3>2 DEF s
  <2>4. ReadingUsername(a)'
    BY <1>1, <1>2, <2>1, <2>3 DEF ReadingUsername, TakenChar, w, p
  <2> QED
    BY <1>1, <2>4 DEF Early
<1>8. CASE k = n
  <2>1. i' = p + n + 1 /\ state' = "Password" /\ attributes' = attributes
    <3> HIDE DEF w, p
    <3> QED
      BY <1>1, <1>3, <1>4, <1>5, <1>8, TakesEnd DEF n
  <2>2. attributes' = Attr(a.scheme, w, Parser!Empty, Parser!Empty, NoIp, Parser!Empty, Parser!Empty, Parser!Empty)
    BY <1>3, <1>4, <1>8, <2>1, TextStarts
  <2>3. SubSeq(a.password, 1, 0) = Parser!Empty /\ 0 \in 0..Len(a.password)
    BY ReadFacts, TextStarts, LenFacts
  <2>4. i' = p + n + 1 + 0
    BY <1>4, <1>5, <2>1
  <2>5. ReadingPassword(a)'
    BY <1>2, <2>1, <2>2, <2>3, <2>4 DEF ReadingUsername, ReadingPassword
  <2> QED
    BY <1>1, <2>5 DEF Early
<1> QED
  BY <1>7, <1>8

LEMMA PasswordStep ==
  ASSUME NEW u, IsRead(u), Early(u.attributes), Parser!Password
  PROVE  Early(u.attributes)'
<1> DEFINE a == u.attributes
           w == a.password
           n == Len(w)
           p == LoginAt(a) + Len(a.username) + 1
<1>1. state = "Password" /\ query' = query /\ url' = url /\ query = Parser!NoQuery /\ Parser!Take("password", "@", "Domain")
  BY DEF Parser!Password, Parser!In, Early, Parser!Take
<1>2. ReadingPassword(a)
  BY <1>1 DEF Early, ReadingScheme, ReadingUsername, ReadingPassword, ReadingDomain, ReadingPort, ReadingPath, ReadingPage
<1>3. PICK k \in 0..n : i = p + k /\ attributes = Attr(a.scheme, a.username, SubSeq(w, 1, k), Parser!Empty, NoIp, Parser!Empty, Parser!Empty, Parser!Empty)
  BY <1>2 DEF ReadingPassword
<1>4. w \in Parser!Text /\ n \in Nat /\ url \in Parser!Text
  BY ReadFacts, LenFacts, SMTT(30)
<1>5. p \in Nat \ {0} /\ StandsAt(url, p, w) /\ url[p + n] = "@" /\ HostAt(a) = p + n + 1
  <2>1. /\ HostAt(a) = LoginAt(a) + Len(a.username) + n + 2 /\ Len(a.username) \in Nat /\ LoginAt(a) \in Nat \ {0}
        /\ StandsAt(url, p, w) /\ url[HostAt(a) - 1] = "@"
    BY <1>2, Places, LoginFacts DEF ReadingPassword
  <2> HIDE DEF n
  <2>2. HostAt(a) = p + n + 1 /\ HostAt(a) - 1 = p + n
    BY <1>4, <2>1
  <2> QED
    BY <2>1, <2>2, SMTT(30)
<1>6. Parser!Free(w, {"@", "/"}) /\ "@" \in {"@", "/"}
  BY DEF IsRead, Parser!Readable, Parser!LoginReadable
<1>7. CASE k # n
  <2> HIDE DEF w, p
  <2>1. TakenChar(w, p, k, "password")
    BY <1>1, <1>3, <1>4, <1>5, <1>6, <1>7, TakesChar DEF n
  <2>2. PICK c : attributes' = Longer(attributes, "password", c) /\ Append(SubSeq(w, 1, k), c) = SubSeq(w, 1, k + 1)
    BY <2>1 DEF TakenChar
  <2>3. attributes' = Attr(a.scheme, a.username, SubSeq(w, 1, k + 1), Parser!Empty, NoIp, Parser!Empty, Parser!Empty, Parser!Empty)
    <3> DEFINE s == SubSeq(w, 1, k)
    <3>1. attributes' = Longer(Attr(a.scheme, a.username, s, Parser!Empty, NoIp, Parser!Empty, Parser!Empty, Parser!Empty), "password", c)
      BY <1>3, <2>2
    <3> HIDE DEF s
    <3>2. attributes' = Attr(a.scheme, a.username, Append(s, c), Parser!Empty, NoIp, Parser!Empty, Parser!Empty, Parser!Empty)
      BY <3>1, AttrGrows
    <3> QED
      BY <2>2, <3>2 DEF s
  <2>4. ReadingPassword(a)'
    BY <1>1, <1>2, <2>1, <2>3 DEF ReadingPassword, TakenChar, w, p
  <2> QED
    BY <1>1, <2>4 DEF Early
<1>8. CASE k = n
  <2>1. i' = p + n + 1 /\ state' = "Domain" /\ attributes' = attributes
    <3> HIDE DEF w, p
    <3> QED
      BY <1>1, <1>3, <1>4, <1>5, <1>8, TakesEnd DEF n
  <2>2. attributes' = Attr(a.scheme, a.username, w, Parser!Empty, NoIp, Parser!Empty, Parser!Empty, Parser!Empty)
    BY <1>3, <1>4, <1>8, <2>1, TextStarts
  <2>3. ReadingDomain(a)'
    BY <1>5, <2>1, <2>2 DEF ReadingDomain
  <2> QED
    BY <1>1, <2>3 DEF Early
<1> QED
  BY <1>7, <1>8

LEMMA PortStep ==
  ASSUME NEW u, IsRead(u), Early(u.attributes), Parser!Port
  PROVE  Early(u.attributes)'
<1> DEFINE a == u.attributes
           w == a.port
           n == Len(w)
           p == PortAt(a) + 1
<1>1. state = "Port" /\ query' = query /\ url' = url /\ query = Parser!NoQuery /\ Parser!Take("port", "/", "Path")
  BY DEF Parser!Port, Parser!In, Early, Parser!Take
<1>2. ReadingPort(a)
  BY <1>1 DEF Early, ReadingScheme, ReadingUsername, ReadingPassword, ReadingDomain, ReadingPort, ReadingPath, ReadingPage
<1>3. PICK k \in 0..n : i = p + k /\ attributes = Attr(a.scheme, a.username, a.password, a.domain, a.ip, SubSeq(w, 1, k), Parser!Empty, Parser!Empty)
  BY <1>2 DEF ReadingPort
<1>4. w \in Parser!Text /\ n \in Nat /\ url \in Parser!Text
  BY ReadFacts, LenFacts
<1>5. p \in Nat \ {0} /\ StandsAt(url, p, w) /\ url[p + n] = "/" /\ RootAt(a) = p + n
  BY <1>2, Places, PortFacts, SMTT(30) DEF ReadingPort
<1>6. Parser!Free(w, {":", "/", "@"}) /\ "/" \in {":", "/", "@"}
  BY DEF IsRead, Parser!Readable, Parser!HostReadable
<1>7. CASE k # n
  <2> HIDE DEF w, p
  <2>1. TakenChar(w, p, k, "port")
    BY <1>1, <1>3, <1>4, <1>5, <1>6, <1>7, TakesChar DEF n
  <2>2. PICK c : attributes' = Longer(attributes, "port", c) /\ Append(SubSeq(w, 1, k), c) = SubSeq(w, 1, k + 1)
    BY <2>1 DEF TakenChar
  <2>3. attributes' = Attr(a.scheme, a.username, a.password, a.domain, a.ip, SubSeq(w, 1, k + 1), Parser!Empty, Parser!Empty)
    <3> DEFINE s == SubSeq(w, 1, k)
    <3>1. attributes' = Longer(Attr(a.scheme, a.username, a.password, a.domain, a.ip, s, Parser!Empty, Parser!Empty), "port", c)
      BY <1>3, <2>2
    <3> HIDE DEF s
    <3>2. attributes' = Attr(a.scheme, a.username, a.password, a.domain, a.ip, Append(s, c), Parser!Empty, Parser!Empty)
      BY <3>1, AttrGrows
    <3> QED
      BY <2>2, <3>2 DEF s
  <2>4. ReadingPort(a)'
    BY <1>1, <1>2, <2>1, <2>3 DEF ReadingPort, TakenChar, w, p
  <2> QED
    BY <1>1, <2>4 DEF Early
<1>8. CASE k = n
  <2>1. i' = p + n + 1 /\ state' = "Path" /\ attributes' = attributes
    <3> HIDE DEF w, p
    <3> QED
      BY <1>1, <1>3, <1>4, <1>5, <1>8, TakesEnd DEF n
  <2>2. attributes' = Attr(a.scheme, a.username, a.password, a.domain, a.ip, w, Parser!Empty, Parser!Empty)
    BY <1>3, <1>4, <1>8, <2>1, TextStarts
  <2>3. ReadingPath(a)'
    BY <1>5, <2>1, <2>2 DEF ReadingPath
  <2> QED
    BY <1>1, <2>3 DEF Early
<1> QED
  BY <1>7, <1>8

LEMMA PageStep ==
  ASSUME NEW u, IsRead(u), Early(u.attributes), Parser!Page
  PROVE  Reading(u)'
<1> DEFINE a == u.attributes
           w == a.page
           n == Len(w)
           p == PageAt(a)
<1>1. state = "Page" /\ query' = query /\ url' = url /\ query = Parser!NoQuery /\ Parser!Take("page", "?", "Query")
  BY DEF Parser!Page, Parser!In, Early, Parser!Take
<1>2. ReadingPage(a)
  BY <1>1 DEF Early, ReadingScheme, ReadingUsername, ReadingPassword, ReadingDomain, ReadingPort, ReadingPath, ReadingPage
<1>3. PICK k \in 0..n : i = p + k /\ attributes = Attr(a.scheme, a.username, a.password, a.domain, a.ip, a.port, a.path, SubSeq(w, 1, k))
  BY <1>2 DEF ReadingPage
<1>4. w \in Parser!Text /\ n \in Nat /\ url \in Parser!Text
  BY ReadFacts, LenFacts
<1>5. p \in Nat \ {0} /\ StandsAt(url, p, w) /\ EndAt(a) = p + n
  BY Places, PageFacts DEF EndAt
<1>6. Parser!Free(w, {"/", "?"}) /\ "?" \in {"/", "?"}
  BY DEF IsRead, Parser!Readable, Parser!PathReadable
<1>7. CASE k # n
  <2> HIDE DEF w, p
  <2>1. TakenChar(w, p, k, "page")
    BY <1>1, <1>3, <1>4, <1>5, <1>6, <1>7, TakesChar DEF n
  <2>2. PICK c : attributes' = Longer(attributes, "page", c) /\ Append(SubSeq(w, 1, k), c) = SubSeq(w, 1, k + 1)
    BY <2>1 DEF TakenChar
  <2>3. attributes' = Attr(a.scheme, a.username, a.password, a.domain, a.ip, a.port, a.path, SubSeq(w, 1, k + 1))
    <3> DEFINE s == SubSeq(w, 1, k)
    <3>1. attributes' = Longer(Attr(a.scheme, a.username, a.password, a.domain, a.ip, a.port, a.path, s), "page", c)
      BY <1>3, <2>2
    <3> HIDE DEF s
    <3>2. attributes' = Attr(a.scheme, a.username, a.password, a.domain, a.ip, a.port, a.path, Append(s, c))
      BY <3>1, AttrGrows
    <3> QED
      BY <2>2, <3>2 DEF s
  <2>4. ReadingPage(a)'
    BY <1>1, <1>2, <2>1, <2>3 DEF ReadingPage, TakenChar, w, p
  <2> QED
    BY <1>1, <2>4 DEF Early, Reading
<1>8. CASE k = n
  <2>1. u.query # Parser!Empty
    <3>1. i <= Len(url)
      BY DEF Parser!Page, Parser!In
    <3>2. EndAt(a) <= Len(url) /\ EndAt(a) \in Nat /\ Len(url) \in Nat
      BY <1>3, <1>5, <1>8, <3>1, Places
    <3>3. Len(url) # EndAt(a) - 1
      BY <3>2
    <3> QED
      BY <3>3, PageFacts
  <2>2. url[p + n] = "?"
    BY <1>5, <2>1, PageFacts
  <2>3. i' = p + n + 1 /\ state' = "Query" /\ attributes' = attributes
    <3> HIDE DEF w, p
    <3> QED
      BY <1>1, <1>3, <1>4, <1>5, <1>8, <2>2, TakesEnd DEF n
  <2>4. attributes' = WithPath(a, a.path)
    BY <1>3, <1>4, <1>8, <2>3, TextStarts DEF WithPath
  <2>5. ReadingQuery(u)'
    BY <1>1, <1>5, <2>1, <2>3, <2>4 DEF ReadingQuery
  <2> QED
    BY <2>5 DEF Reading
<1> QED
  BY <1>7, <1>8

LEMMA DomainStep ==
  ASSUME NEW u, IsRead(u), Early(u.attributes), Parser!Domain
  PROVE  Early(u.attributes)'
<1> DEFINE a == u.attributes
           p == PortAt(a)
           parts == Parser!CutAt(i, p, ".")
<1>1. state = "Domain" /\ query' = query /\ query = Parser!NoQuery
  BY DEF Parser!Domain, Parser!In, Early
<1>2. ReadingDomain(a)
  BY <1>1 DEF Early, ReadingScheme, ReadingUsername, ReadingPassword, ReadingDomain, ReadingPort, ReadingPath, ReadingPage
<1>3. i = HostAt(a) /\ attributes = Attr(a.scheme, a.username, a.password, Parser!Empty, NoIp, Parser!Empty, Parser!Empty, Parser!Empty)
  BY <1>2 DEF ReadingDomain
<1>4. Parser!FirstOf({"/"}, i) = RootAt(a)
  BY <1>3, RootFound
<1>5. (IF Parser!LastOf({":"}, RootAt(a)) > i THEN Parser!LastOf({":"}, RootAt(a)) ELSE RootAt(a)) = p
  BY <1>3, PortFound
<1>6. parts = a.domain
  BY <1>3, HostFacts
<1>7. p \in Nat \ {0} /\ RootAt(a) \in Nat \ {0} /\ Len(url) \in Nat /\ p <= RootAt(a) /\ RootAt(a) <= Len(url)
  BY Places
<1>8. Parser!DomainEnd
  BY DEF Parser!Domain
<1>9. /\ attributes' = Hosted(attributes, parts, Parser!Address(parts))
      /\ i' = p + 1
      /\ state' = IF p > Len(url) THEN "Page" ELSE IF url[p] = ":" THEN "Port" ELSE "Path"
  <2> DEFINE DomainReadTo(end) ==
               /\ attributes' = Hosted(attributes, Parser!CutAt(i, end, "."), Parser!Address(Parser!CutAt(i, end, ".")))
               /\ i' = end + 1
               /\ state' = IF end > Len(url) THEN "Page" ELSE IF url[end] = ":" THEN "Port" ELSE "Path"
  <2>1. \E slash \in {Parser!FirstOf({"/"}, i)} : \E colon \in {Parser!LastOf({":"}, slash)} :
          DomainReadTo(IF colon > i THEN colon ELSE slash)
    BY <1>8 DEF Parser!DomainEnd, Parser!Address, Parser!Number, Hosted
  <2> HIDE DEF DomainReadTo
  <2>2. DomainReadTo(IF Parser!LastOf({":"}, RootAt(a)) > i THEN Parser!LastOf({":"}, RootAt(a)) ELSE RootAt(a))
    BY <1>4, <2>1
  <2>3. DomainReadTo(p)
    BY <1>5, <2>2
  <2> QED
    BY <2>3 DEF DomainReadTo
<1>10. a.ip = Parser!Address(parts) /\ a.ip \in BOOLEAN
  <2>1. a.ip = Parser!Address(a.domain)
    BY DEF IsRead, Parser!Readable, Parser!HostReadable
  <2>2. a.ip \in BOOLEAN
    BY ReadFacts DEF Parser!AttributesType
  <2> QED
    BY <1>6, <2>1, <2>2
<1>11. attributes' = Attr(a.scheme, a.username, a.password, a.domain, a.ip, Parser!Empty, Parser!Empty, Parser!Empty)
  <2> DEFINE d == a.domain
             b == a.ip
  <2>1. attributes' = Hosted(Attr(a.scheme, a.username, a.password, Parser!Empty, NoIp, Parser!Empty, Parser!Empty, Parser!Empty), d, b)
    BY <1>3, <1>6, <1>9, <1>10
  <2> HIDE DEF d, b
  <2>2. attributes' = Attr(a.scheme, a.username, a.password, d, b, Parser!Empty, Parser!Empty, Parser!Empty)
    BY <2>1, AttrHost
  <2> QED
    BY <2>2 DEF d, b
<1>12. CASE a.port # Parser!Empty
  <2>1. url[p] = ":"
    BY <1>12, PortFacts
  <2>2. state' = "Port"
    BY <1>7, <1>9, <2>1
  <2>3. SubSeq(a.port, 1, 0) = Parser!Empty /\ 0 \in 0..Len(a.port)
    BY ReadFacts, TextStarts, LenFacts
  <2>4. i' = p + 1 + 0
    BY <1>7, <1>9
  <2>5. ReadingPort(a)'
    BY <1>11, <1>12, <2>2, <2>3, <2>4 DEF ReadingPort
  <2> QED
    BY <1>1, <2>5 DEF Early
<1>13. CASE a.port = Parser!Empty
  <2>1. RootAt(a) = p /\ url[RootAt(a)] = "/"
    BY <1>13, PortFacts
  <2>2. state' = "Path"
    BY <1>7, <1>9, <2>1
  <2>3. ReadingPath(a)'
    BY <1>9, <1>11, <1>13, <2>1, <2>2 DEF ReadingPath
  <2> QED
    BY <1>1, <2>3 DEF Early
<1> QED
  BY <1>12, <1>13

LEMMA PathStep ==
  ASSUME NEW u, IsRead(u), Early(u.attributes), Parser!Path
  PROVE  Early(u.attributes)'
<1> DEFINE a == u.attributes
           r == RootAt(a)
           g == PageAt(a)
<1>1. state = "Path" /\ query' = query /\ query = Parser!NoQuery /\ state' = "Page"
  BY DEF Parser!Path, Parser!In, Early
<1>2. ReadingPath(a)
  BY <1>1 DEF Early, ReadingScheme, ReadingUsername, ReadingPassword, ReadingDomain, ReadingPort, ReadingPath, ReadingPage
<1>3. i = r + 1 /\ attributes = Attr(a.scheme, a.username, a.password, a.domain, a.ip, a.port, Parser!Empty, Parser!Empty)
  BY <1>2 DEF ReadingPath
<1>4. Parser!LastOf({"/"}, Len(url)) = g - 1
  BY PageFound
<1>5. r \in Nat \ {0} /\ g \in Nat \ {0} /\ r < g
  BY Places
<1>6. IF g - 1 = i - 1
      THEN i' = i /\ attributes' = attributes
      ELSE attributes' = [attributes EXCEPT !.path = Parser!CutAt(i, g - 1, "/")] /\ i' = g - 1 + 1
  BY <1>4 DEF Parser!Path
<1>7. g - 1 = i - 1 <=> g = r + 1
  BY <1>3, <1>5
<1>8. i' = g /\ attributes' = Attr(a.scheme, a.username, a.password, a.domain, a.ip, a.port, a.path, Parser!Empty)
  <2>1. CASE a.path = Parser!Empty
    <3>1. g = r + 1
      BY <2>1, DirectoryFacts
    <3> QED
      BY <1>3, <1>6, <1>7, <2>1, <3>1
  <2>2. CASE a.path # Parser!Empty
    <3>1. r + 1 < g /\ Parser!CutAt(r + 1, g - 1, "/") = a.path
      BY <2>2, DirectoryFacts
    <3>2. ~ (g = r + 1)
      BY <1>5, <3>1
    <3>3. attributes' = [attributes EXCEPT !.path = Parser!CutAt(i, g - 1, "/")] /\ i' = g - 1 + 1
      BY <1>6, <1>7, <3>2
    <3>4. i' = g
      BY <1>5, <3>3
    <3> DEFINE c == a.path
    <3>5. attributes' = Pathed(Attr(a.scheme, a.username, a.password, a.domain, a.ip, a.port, Parser!Empty, Parser!Empty), c)
      BY <1>3, <3>1, <3>3 DEF Pathed
    <3> HIDE DEF c
    <3>6. attributes' = Attr(a.scheme, a.username, a.password, a.domain, a.ip, a.port, c, Parser!Empty)
      BY <3>5, AttrPath
    <3> QED
      BY <3>4, <3>6 DEF c
  <2> QED
    BY <2>1, <2>2
<1>9. SubSeq(a.page, 1, 0) = Parser!Empty /\ 0 \in 0..Len(a.page)
  BY ReadFacts, TextStarts, LenFacts
<1>10. i' = g + 0
  BY <1>5, <1>8
<1>11. ReadingPage(a)'
  BY <1>1, <1>8, <1>9, <1>10 DEF ReadingPage
<1> QED
  BY <1>1, <1>11 DEF Early

LEMMA QueryStep ==
  ASSUME NEW u, IsRead(u), Reading(u), broken = "none", Parser!Query
  PROVE  ReadingQuery(u)' /\ broken' = "none"
<1> DEFINE e == EndAt(u.attributes)
<1>1. state = "Query" /\ i <= Len(url) /\ state' = state /\ attributes' = attributes /\ url' = url
  BY DEF Parser!Query, Parser!In
<1>2. ReadingQuery(u)
  BY <1>1 DEF Reading, Early, ReadingScheme, ReadingUsername, ReadingPassword, ReadingDomain, ReadingPort, ReadingPath,
     ReadingPage, ReadingQuery, Normalising, Finished
<1>3. u.query # Parser!Empty /\ attributes = WithPath(u.attributes, u.attributes.path)
  BY <1>2 DEF ReadingQuery
<1>4. Len(url) \in Nat /\ e \in Nat \ {0}
  BY Places
<1>5. i = e + 1 /\ query = Parser!NoQuery
  <2>1. ~ (i = Len(url) + 4)
    BY <1>1, <1>4
  <2> QED
    BY <1>2, <2>1 DEF ReadingQuery
<1>6. /\ Parser!FirstOf({"#"}, i) = Len(url) + 1
      /\ Parser!PairsFrom(i, Len(url) + 1) = [pairs |-> {u.query[k] : k \in DOMAIN u.query}, index |-> Len(url) + 3]
  BY <1>3, <1>5, QueryFound
<1>7. Len(url) + 1 > Len(url)
  BY <1>4
<1>8. /\ query' = Parser!PairsFrom(i, Len(url) + 1).pairs /\ i' = Parser!PairsFrom(i, Len(url) + 1).index + 1
      /\ broken' = broken
  BY <1>5, <1>6, <1>7 DEF Parser!Query
<1>9. query' = QueryOf(u) /\ i' = Len(url) + 3 + 1
  BY <1>3, <1>6, <1>8 DEF QueryOf
<1>10. i' = Len(url)' + 4
  BY <1>1, <1>4, <1>9
<1> QED
  BY <1>1, <1>3, <1>8, <1>9, <1>10 DEF ReadingQuery

LEMMA ParsedStep ==
  ASSUME NEW u, IsRead(u), Reading(u), Parser!Parsed
  PROVE  Normalising(u)'
<1> DEFINE a == u.attributes
           path == a.path
<1>1. /\ i > Len(url) /\ state \notin {"Normalise", "Done"} /\ state' = "Normalise"
      /\ item' = 1 /\ last' = Len(attributes.path) + 1 /\ attributes' = attributes /\ query' = query
  BY DEF Parser!Parsed
<1>2. u \in Parser!UrlType /\ path \in Seq(Parser!Text) /\ Len(url) \in Nat
  BY ReadFacts
<1>3. attributes = WithPath(a, path) /\ query = QueryOf(u) => Normalising(u)'
  <2> SUFFICES ASSUME attributes = WithPath(a, path), query = QueryOf(u) PROVE Normalising(u)'
    OBVIOUS
  <2>1. attributes.path = path
    BY DEF WithPath, Attr
  <2>2. attributes' = WithPath(a, PathFrom(path, 0))
    BY <1>1, <1>2, PathEnds
  <2>3. ResolvedTo(path, 0) = Parser!Empty /\ Len(Parser!Empty) = 0
    BY <1>2, ResolvedFacts, EmptyText
  <2>4. 0 \in 0..Len(path)
    BY <1>2
  <2> QED
    BY <1>1, <2>1, <2>2, <2>3, <2>4 DEF Normalising
<1>4. /\ LoginAt(a) \in Nat \ {0} /\ HostAt(a) \in Nat \ {0} /\ PortAt(a) \in Nat \ {0} /\ RootAt(a) \in Nat \ {0}
      /\ PageAt(a) \in Nat \ {0} /\ EndAt(a) \in Nat \ {0}
      /\ LoginAt(a) <= HostAt(a) /\ HostAt(a) < PortAt(a) /\ PortAt(a) <= RootAt(a) /\ RootAt(a) < PageAt(a)
      /\ PageAt(a) <= EndAt(a) /\ RootAt(a) <= Len(url) /\ EndAt(a) <= Len(url) + 1
  BY Places
<1>5. /\ Len(a.scheme) \in Nat /\ Len(a.username) \in Nat /\ Len(a.password) \in Nat /\ Len(a.port) \in Nat /\ Len(a.page) \in Nat
  BY ReadFacts, LenFacts
<1>6. ~ ReadingScheme(a)
  <2> SUFFICES ASSUME ReadingScheme(a) PROVE FALSE
    OBVIOUS
  <2>1. PICK k \in 0..Len(a.scheme) : i = 1 + k
    BY DEF ReadingScheme
  <2>2. LoginAt(a) = Len(a.scheme) + 4
    BY SchemeFacts DEF ReadingScheme
  <2> QED
    BY <1>1, <1>2, <1>4, <1>5, <2>1, <2>2
<1>7. ~ ReadingUsername(a)
  <2> SUFFICES ASSUME ReadingUsername(a) PROVE FALSE
    OBVIOUS
  <2>1. PICK k \in 0..Len(a.username) : i = LoginAt(a) + k
    BY DEF ReadingUsername
  <2>2. HostAt(a) = LoginAt(a) + Len(a.username) + Len(a.password) + 2
    BY LoginFacts DEF ReadingUsername
  <2> DEFINE x == Len(a.username)
             y == Len(a.password)
             l == LoginAt(a)
             h == HostAt(a)
             e == Len(url)
  <2>3. x \in Nat /\ y \in Nat /\ l \in Nat /\ h \in Nat /\ e \in Nat /\ h = l + x + y + 2 /\ k \in 0..x /\ i = l + k
    BY <1>2, <1>4, <1>5, <2>1, <2>2
  <2>4. h <= e /\ i > e
    BY <1>1, <1>2, <1>4
  <2> HIDE DEF x, y, l, h, e
  <2> QED
    BY <2>3, <2>4
<1>8. ~ ReadingPassword(a)
  <2> SUFFICES ASSUME ReadingPassword(a) PROVE FALSE
    OBVIOUS
  <2>1. PICK k \in 0..Len(a.password) : i = LoginAt(a) + Len(a.username) + 1 + k
    BY DEF ReadingPassword
  <2>2. HostAt(a) = LoginAt(a) + Len(a.username) + Len(a.password) + 2
    BY LoginFacts DEF ReadingPassword
  <2> DEFINE x == Len(a.username)
             y == Len(a.password)
             l == LoginAt(a)
             h == HostAt(a)
             e == Len(url)
  <2>3. x \in Nat /\ y \in Nat /\ l \in Nat /\ h \in Nat /\ e \in Nat /\ h = l + x + y + 2 /\ k \in 0..y /\ i = l + x + 1 + k
    BY <1>2, <1>4, <1>5, <2>1, <2>2
  <2>4. h <= e /\ i > e
    BY <1>1, <1>2, <1>4
  <2> HIDE DEF x, y, l, h, e
  <2> QED
    BY <2>3, <2>4
<1>9. ~ ReadingDomain(a)
  BY <1>1, <1>2, <1>4 DEF ReadingDomain
<1>10. ~ ReadingPort(a)
  <2> SUFFICES ASSUME ReadingPort(a) PROVE FALSE
    OBVIOUS
  <2>1. PICK k \in 0..Len(a.port) : i = PortAt(a) + 1 + k
    BY DEF ReadingPort
  <2>2. RootAt(a) = PortAt(a) + 1 + Len(a.port)
    BY PortFacts DEF ReadingPort
  <2> QED
    BY <1>1, <1>2, <1>4, <1>5, <2>1, <2>2, SMTT(30)
<1>11. ASSUME EndAt(a) = Len(url) + 1 PROVE QueryOf(u) = Parser!NoQuery
  <2>1. u.query = Parser!Empty
    <3> SUFFICES ASSUME u.query # Parser!Empty PROVE FALSE
      OBVIOUS
    <3>1. Len(url) = EndAt(a) + Len(Parser!Between(Pairs(u), <<"&">>))
      BY PageFacts
    <3>2. Pairs(u) \in Seq(Parser!Text) /\ <<"&">> \in Parser!Text
      BY <1>2, TextTypes, NamedChars DEF Parser!Delimiter
    <3>3. Len(Parser!Between(Pairs(u), <<"&">>)) \in Nat
      BY <3>2, BetweenFacts, LenFacts
    <3> QED
      BY <1>2, <1>4, <1>11, <3>1, <3>3
  <2> QED
    BY <2>1 DEF QueryOf
<1>12. CASE Early(a)
  <2>1. query = Parser!NoQuery /\ (ReadingPath(a) \/ ReadingPage(a))
    BY <1>6, <1>7, <1>8, <1>9, <1>10, <1>12 DEF Early
  <2>2. CASE ReadingPath(a)
    <3>1. i = RootAt(a) + 1 /\ attributes = Attr(a.scheme, a.username, a.password, a.domain, a.ip, a.port, Parser!Empty, Parser!Empty)
      BY <2>2 DEF ReadingPath
    <3>2. EndAt(a) = Len(url) + 1 /\ PageAt(a) = RootAt(a) + 1 /\ EndAt(a) = PageAt(a)
      BY <1>1, <1>2, <1>4, <3>1
    <3>3. path = Parser!Empty
      BY <1>4, <3>2, DirectoryFacts
    <3>4. a.page = Parser!Empty
      <4>1. EndAt(a) = PageAt(a) + Len(a.page)
        BY DEF EndAt
      <4>2. Len(a.page) = 0
        BY <1>4, <1>5, <3>2, <4>1
      <4> QED
        BY <4>2, ReadFacts, LenFacts
    <3>5. attributes = WithPath(a, path)
      BY <3>1, <3>3, <3>4 DEF WithPath
    <3> QED
      BY <1>3, <1>11, <2>1, <3>2, <3>5
  <2>3. CASE ReadingPage(a)
    <3>1. PICK k \in 0..Len(a.page) :
            /\ i = PageAt(a) + k
            /\ attributes = Attr(a.scheme, a.username, a.password, a.domain, a.ip, a.port, a.path, SubSeq(a.page, 1, k))
      BY <2>3 DEF ReadingPage
    <3>2. EndAt(a) = PageAt(a) + Len(a.page)
      BY DEF EndAt
    <3>3. k = Len(a.page) /\ EndAt(a) = Len(url) + 1
      <4> DEFINE x == Len(a.page)
                 g == PageAt(a)
                 e == EndAt(a)
                 l == Len(url)
      <4>1. x \in Nat /\ g \in Nat /\ e \in Nat /\ l \in Nat /\ k \in 0..x /\ i = g + k /\ e = g + x /\ e <= l + 1
        BY <1>2, <1>4, <1>5, <3>1, <3>2
      <4>2. i > l
        BY <1>1
      <4> HIDE DEF x, g, e, l
      <4>3. k = x /\ e = l + 1
        BY <4>1, <4>2
      <4> QED
        BY <4>3 DEF x, e, l
    <3>4. SubSeq(a.page, 1, Len(a.page)) = a.page
      BY ReadFacts, TextStarts
    <3>5. attributes = WithPath(a, path)
      BY <3>1, <3>3, <3>4 DEF WithPath
    <3> QED
      BY <1>3, <1>11, <2>1, <3>3, <3>5
  <2> QED
    BY <2>1, <2>2, <2>3
<1>13. CASE ReadingQuery(u)
  <2>1. i = EndAt(a) + 1 => FALSE
    <3> SUFFICES ASSUME i = EndAt(a) + 1 PROVE FALSE
      OBVIOUS
    <3>1. u.query # Parser!Empty
      BY <1>13 DEF ReadingQuery
    <3>2. EndAt(a) + 1 <= Len(url)
      BY <3>1, QueryThere
    <3> QED
      BY <1>1, <1>2, <1>4, <3>2
  <2> QED
    BY <1>3, <1>13, <2>1 DEF ReadingQuery
<1> QED
  BY <1>1, <1>12, <1>13 DEF Reading, Normalising, Finished

LEMMA NormaliseStep ==
  ASSUME NEW u, IsRead(u), Normalising(u), broken = "none", Parser!Normalise
  PROVE  Normalising(u)' /\ broken' = "none"
<1> DEFINE a == u.attributes
           path == a.path
           n == Len(path)
<1>1. state = "Normalise" /\ query = QueryOf(u) /\ last = n + 1 /\ item \in Nat /\ item < last
      /\ state' = state /\ query' = query /\ last' = last
  BY Zenon DEF Normalising, Parser!Normalise
<1>2. PICK m \in 0..n :
        /\ attributes = WithPath(a, PathFrom(path, m))
        /\ IF m < n THEN item = Len(ResolvedTo(path, m)) + 1 ELSE item > Len(ResolvedTo(path, m))
  BY DEF Normalising
<1>3. path \in Seq(Parser!Text) /\ n \in Nat /\ path = a.path
  BY ReadFacts
<1>4. ResolvedTo(path, m) \in Seq(Parser!Text) /\ \A k \in 1..n : path[k] \in {<<".">>, <<".", ".">>} => ResolvedTo(path, k - 1) # Parser!Empty
  <2>1. \A k \in 1..n : path[k] \in {<<".">>, <<".", ".">>} => ResolvedTo(path, k - 1) # Parser!Empty
    BY DEF IsRead, Parser!Readable, Parser!PathReadable, Parser!DotsInside, ResolvedTo
  <2>2. ResolvedTo(path, m) \in Seq(Parser!Text)
    BY <1>3, ResolvedFacts
  <2> QED
    BY <2>1, <2>2
<1> DEFINE q == ResolvedTo(path, m)
           now == PathFrom(path, m)
           next == PathFrom(path, m + 1)
<1>5. attributes.path = now
  BY <1>2, AttrPath DEF WithPath
<1>6. Len(q) \in Nat /\ (Len(q) = 0 <=> q = Parser!Empty)
  BY <1>4 DEF Parser!Empty
<1>7. \A c : Pathed(attributes, c) = WithPath(a, c)
  BY <1>2, AttrPath DEF WithPath
<1> HIDE DEF path, n, q, now, next
<1>8. CASE m < n
  <2> DEFINE s == path[m + 1]
  <2>1. item = Len(q) + 1 /\ m \in 0..n - 1 /\ m + 1 \in 1..n /\ (m + 1) - 1 = m
    BY <1>2, <1>3, <1>8 DEF q
  <2>2. PathTurned(path, m, q, s)
    BY <1>3, <2>1, PathTurns DEF n, q
  <2>3. now \in Seq(Parser!Text) /\ Len(q) + 1 <= Len(now) /\ now[Len(q) + 1] = s
    BY <2>2 DEF PathTurned, now
  <2>4. Parser!Part(item) = s
    <3>1. item <= Len(attributes.path)
      BY <1>5, <2>1, <2>3
    <3> QED
      BY <1>5, <2>1, <2>3, <3>1 DEF Parser!Part
  <2>5. s \in {<<".">>, <<".", ".">>} => q # Parser!Empty
    <3>1. s \in {<<".">>, <<".", ".">>} => ResolvedTo(path, (m + 1) - 1) # Parser!Empty
      BY <1>4, <2>1
    <3> QED
      BY <2>1, <3>1 DEF q
  <2> HIDE DEF s
  <2>6. ASSUME attributes' = WithPath(a, next), item' = Len(ResolvedTo(path, m + 1)) + 1, broken' = broken
        PROVE  Normalising(u)' /\ broken' = "none"
    <3>1. m + 1 \in 0..n /\ m + 1 \in Nat
      BY <2>1
    <3>2. Len(ResolvedTo(path, m + 1)) \in Nat
      <4>1. ResolvedTo(path, m + 1) \in Seq(Parser!Text)
        BY <1>3, <3>1, ResolvedFacts DEF n
      <4> QED
        BY <4>1
    <3>3. IF m + 1 < n THEN item' = Len(ResolvedTo(path, m + 1)) + 1 ELSE item' > Len(ResolvedTo(path, m + 1))
      BY <2>6, <3>2
    <3>4. item' \in Nat
      BY <2>6, <3>2
    <3> QED
      BY <1>1, <2>6, <3>1, <3>3, <3>4 DEF Normalising, path, n, next
  <2>7. CASE s = <<".", ".">>
    <3>1. q # Parser!Empty /\ item > 1 /\ ~ (item = 1)
      BY <1>6, <2>1, <2>5, <2>7
    <3>2. attributes' = [attributes EXCEPT !.path = Parser!Up(@, item)] /\ item' = item - 1 /\ broken' = broken
      BY <2>4, <2>7, <3>1 DEF Parser!Normalise
    <3>3. Parser!Up(now, item) = next /\ Len(ResolvedTo(path, m + 1)) = Len(q) - 1
      BY <2>1, <2>2, <2>7, <3>1 DEF PathTurned, now, next
    <3>4. attributes' = Pathed(attributes, next)
      <4>1. attributes' = [attributes EXCEPT !.path = Parser!Up(attributes.path, item)]
        BY <3>2
      <4> QED
        BY <1>5, <3>3, <4>1 DEF Pathed
    <3>5. attributes' = WithPath(a, next)
      BY <1>7, <3>4
    <3>6. item' = Len(ResolvedTo(path, m + 1)) + 1
      BY <1>6, <2>1, <3>2, <3>3
    <3> QED
      BY <2>6, <3>2, <3>5, <3>6
  <2>8. CASE s = <<".">>
    <3>1. q # Parser!Empty /\ item > 1 /\ ~ (item = 1) /\ s # <<".", ".">>
      BY <1>6, <2>1, <2>5, <2>8, DotFacts
    <3>2. attributes' = [attributes EXCEPT !.path = Parser!Without(@, item, item)] /\ item' = item /\ broken' = broken
      BY <2>4, <2>8, <3>1 DEF Parser!Normalise
    <3>3. Parser!Without(now, item, item) = next /\ Len(ResolvedTo(path, m + 1)) = Len(q)
      BY <2>1, <2>2, <2>8 DEF PathTurned, now, next
    <3>4. attributes' = Pathed(attributes, next)
      <4>1. attributes' = [attributes EXCEPT !.path = Parser!Without(attributes.path, item, item)]
        BY <3>2
      <4> QED
        BY <1>5, <3>3, <4>1 DEF Pathed
    <3>5. attributes' = WithPath(a, next)
      BY <1>7, <3>4
    <3>6. item' = Len(ResolvedTo(path, m + 1)) + 1
      BY <2>1, <3>2, <3>3
    <3> QED
      BY <2>6, <3>2, <3>5, <3>6
  <2>9. CASE s # <<".">> /\ s # <<".", ".">>
    <3>1. item' = item + 1 /\ attributes' = attributes /\ broken' = broken
      BY <2>4, <2>9, Zenon DEF Parser!Normalise
    <3>2. now = next /\ Len(ResolvedTo(path, m + 1)) = Len(q) + 1
      BY <2>2, <2>9 DEF PathTurned, now, next
    <3>3. attributes' = WithPath(a, next)
      BY <1>2, <3>1, <3>2 DEF now
    <3>4. item' = Len(ResolvedTo(path, m + 1)) + 1
      BY <2>1, <3>1, <3>2
    <3> QED
      BY <2>6, <3>1, <3>3, <3>4
  <2> QED
    BY <2>7, <2>8, <2>9
<1>9. CASE ~ (m < n)
  <2>1. m = n /\ item > Len(q) /\ IF m < n THEN TRUE ELSE item > Len(q)
    BY <1>2, <1>3, <1>9 DEF q
  <2>2. now = Parser!Resolved(path) /\ q = Parser!Resolved(path)
    BY <1>3, <2>1, PathEnds, ResolvedFacts DEF n, now, q
  <2>3. Parser!Part(item) = <<"dead">>
    <3>1. ~ (item <= Len(attributes.path))
      BY <1>1, <1>5, <1>6, <2>1, <2>2
    <3> QED
      BY <3>1 DEF Parser!Part
  <2>4. <<"dead">> # <<".">> /\ <<"dead">> # <<".", ".">>
    <3>1. Len(<<"dead">>) = 1 /\ Len(<<".", ".">>) = 2 /\ <<"dead">>[1] = "dead" /\ <<".">>[1] = "."
      OBVIOUS
    <3> QED
      BY <3>1
  <2>5. item' = item + 1 /\ attributes' = attributes /\ broken' = broken
    BY <2>3, <2>4 DEF Parser!Normalise
  <2>6. item' > Len(q) /\ item' \in Nat
    BY <1>1, <1>6, <2>1, <2>5
  <2> QED
    BY <1>1, <1>2, <1>9, <2>5, <2>6 DEF Normalising, path, n, now, q
<1> QED
  BY <1>8, <1>9

LEMMA NormalisedStep ==
  ASSUME NEW u, IsRead(u), Normalising(u), Parser!Normalised
  PROVE  Finished(u)'
<1> DEFINE a == u.attributes
           path == a.path
           n == Len(path)
<1>1. query = QueryOf(u) /\ last = n + 1 /\ item \in Nat /\ item >= last
      /\ state' = "Done" /\ query' = query /\ attributes' = attributes
  BY DEF Normalising, Parser!Normalised
<1>2. PICK m \in 0..n :
        /\ attributes = WithPath(a, PathFrom(path, m))
        /\ IF m < n THEN item = Len(ResolvedTo(path, m)) + 1 ELSE item > Len(ResolvedTo(path, m))
  BY DEF Normalising
<1>3. path \in Seq(Parser!Text) /\ n \in Nat
  BY ReadFacts
<1>4. ResolvedTo(path, m) \in Seq(Parser!Text) /\ Len(ResolvedTo(path, m)) <= m
  BY <1>3, ResolvedFacts
<1>5. m = n
  <2> DEFINE l == Len(ResolvedTo(path, m))
  <2>1. l \in Nat /\ l <= m /\ (m < n => item = l + 1)
    BY <1>2, <1>4
  <2> HIDE DEF l, n
  <2> QED
    BY <1>1, <1>3, <2>1
<1>6. PathFrom(path, n) = Parser!Resolved(path)
  BY <1>3, PathEnds
<1> QED
  BY <1>1, <1>2, <1>5, <1>6 DEF Finished

LEMMA ReadingBegins ==
  ASSUME NEW u, IsRead(u), Parser!Init
  PROVE  Early(u.attributes)
<1> DEFINE a == u.attributes
<1>1. /\ i = 1 /\ query = Parser!NoQuery
      /\ state = IF Parser!FirstOf({":", "/"}, 1) > Parser!FirstOf({"."}, 1) THEN "Domain" ELSE "Scheme"
      /\ attributes = Attr(Parser!Empty, Parser!Empty, Parser!Empty, Parser!Empty, NoIp, Parser!Empty, Parser!Empty, Parser!Empty)
  BY DEF Parser!Init, Attr, NoIp
<1>2. Parser!FirstOf({":", "/"}, 1) > Parser!FirstOf({"."}, 1) <=> a.scheme = Parser!Empty
  BY StartFound
<1>3. CASE a.scheme # Parser!Empty
  <2>1. state = "Scheme"
    BY <1>1, <1>2, <1>3
  <2>2. SubSeq(a.scheme, 1, 0) = Parser!Empty /\ 0 \in 0..Len(a.scheme) /\ 1 + 0 = 1
    BY ReadFacts, TextStarts, LenFacts
  <2>3. ReadingScheme(a)
    BY <1>1, <1>3, <2>1, <2>2 DEF ReadingScheme
  <2> QED
    BY <1>1, <2>3 DEF Early
<1>4. CASE a.scheme = Parser!Empty
  <2>1. state = "Domain"
    BY <1>1, <1>2, <1>4
  <2>2. a.username = Parser!Empty /\ a.password = Parser!Empty
    BY <1>4 DEF IsRead, Parser!Readable, Parser!LoginReadable
  <2>3. HostAt(a) = LoginAt(a) /\ LoginAt(a) = 1
    <3>1. LoginAt(a) = 1
      BY <1>4, EmptyText DEF LoginAt, SchemeText
    <3> QED
      BY <2>2, <3>1, LoginFree
  <2>4. ReadingDomain(a)
    BY <1>1, <1>4, <2>1, <2>2, <2>3 DEF ReadingDomain
  <2> QED
    BY <1>1, <2>4 DEF Early
<1> QED
  BY <1>3, <1>4

-------------------------------------------------------------------------------
(* URLs: the invariant and the theorem *)

\* The invariant: there is a URL that was written, it stands in url, and in each state the
\* parts before the position are read as they were written, the others not yet.
ReadInv ==
  \E u \in Inputs : input = u /\ IsRead(u) /\ broken = "none" /\ Reading(u)

\* The hypothesis: every URL that is written can be read again.
AllReadable == \A u \in Inputs : Parser!Readable(u)

LEMMA InitRead == AllReadable /\ Parser!Init => ReadInv
<1> SUFFICES ASSUME AllReadable, Parser!Init PROVE ReadInv
  OBVIOUS
<1>1. input \in Inputs /\ url = Parser!Written(input) /\ broken = "none"
  BY DEF Parser!Init
<1>2. PICK u \in Inputs : input = u
  BY <1>1
<1>3. IsRead(u)
  BY <1>1, <1>2 DEF AllReadable, IsRead
<1>4. Reading(u)
  BY <1>3, ReadingBegins DEF Reading
<1> QED
  BY <1>1, <1>2, <1>3, <1>4 DEF ReadInv

LEMMA NextRead == ReadInv /\ [Parser!Next]_parserVars => ReadInv'
<1> SUFFICES ASSUME ReadInv, [Parser!Next]_parserVars PROVE ReadInv'
  OBVIOUS
<1>1. PICK u \in Inputs : input = u /\ IsRead(u) /\ broken = "none" /\ Reading(u)
  BY DEF ReadInv
<1>2. ASSUME input' = input, url' = url, broken' = "none", Reading(u)' PROVE ReadInv'
  <2>1. IsRead(u)'
    BY <1>1, <1>2 DEF IsRead
  <2> QED
    BY <1>1, <1>2, <2>1 DEF ReadInv
<1>3. state \in {"Scheme", "Username", "Password", "Domain", "Port", "Path", "Page"} => Early(u.attributes)
  BY <1>1 DEF Reading, ReadingQuery, Normalising, Finished
<1>4. state = "Normalise" => Normalising(u)
  BY <1>1 DEF Reading, Early, ReadingScheme, ReadingUsername, ReadingPassword, ReadingDomain, ReadingPort, ReadingPath,
     ReadingPage, ReadingQuery, Finished
<1>5. CASE Parser!Scheme
  <2>1. Early(u.attributes)
    BY <1>3, <1>5 DEF Parser!Scheme, Parser!In
  <2>2. Early(u.attributes)'
    BY <1>1, <1>5, <2>1, SchemeStep
  <2> QED
    BY <1>1, <1>2, <1>5, <2>2 DEF Parser!Scheme, Reading
<1>6. CASE Parser!Username
  <2>1. Early(u.attributes)
    BY <1>3, <1>6 DEF Parser!Username, Parser!In
  <2>2. Early(u.attributes)'
    BY <1>1, <1>6, <2>1, UsernameStep
  <2> QED
    BY <1>1, <1>2, <1>6, <2>2 DEF Parser!Username, Parser!Take, Reading
<1>7. CASE Parser!Password
  <2>1. Early(u.attributes)
    BY <1>3, <1>7 DEF Parser!Password, Parser!In
  <2>2. Early(u.attributes)'
    BY <1>1, <1>7, <2>1, PasswordStep
  <2> QED
    BY <1>1, <1>2, <1>7, <2>2 DEF Parser!Password, Parser!Take, Reading
<1>8. CASE Parser!Domain
  <2>1. Early(u.attributes)
    BY <1>3, <1>8 DEF Parser!Domain, Parser!In
  <2>2. Early(u.attributes)'
    BY <1>1, <1>8, <2>1, DomainStep
  <2> QED
    BY <1>1, <1>2, <1>8, <2>2 DEF Parser!Domain, Reading
<1>9. CASE Parser!Port
  <2>1. Early(u.attributes)
    BY <1>3, <1>9 DEF Parser!Port, Parser!In
  <2>2. Early(u.attributes)'
    BY <1>1, <1>9, <2>1, PortStep
  <2> QED
    BY <1>1, <1>2, <1>9, <2>2 DEF Parser!Port, Parser!Take, Reading
<1>10. CASE Parser!Path
  <2>1. Early(u.attributes)
    BY <1>3, <1>10 DEF Parser!Path, Parser!In
  <2>2. Early(u.attributes)'
    BY <1>1, <1>10, <2>1, PathStep
  <2> QED
    BY <1>1, <1>2, <1>10, <2>2 DEF Parser!Path, Reading
<1>11. CASE Parser!Page
  <2>1. Early(u.attributes)
    BY <1>3, <1>11 DEF Parser!Page, Parser!In
  <2>2. Reading(u)'
    BY <1>1, <1>11, <2>1, PageStep
  <2> QED
    BY <1>1, <1>2, <1>11, <2>2 DEF Parser!Page, Parser!Take
<1>12. CASE Parser!Query
  <2>1. ReadingQuery(u)' /\ broken' = "none"
    BY <1>1, <1>12, QueryStep
  <2> QED
    BY <1>2, <1>12, <2>1 DEF Parser!Query, Reading
<1>13. CASE Parser!Parsed
  <2>1. Normalising(u)'
    BY <1>1, <1>13, ParsedStep
  <2> QED
    BY <1>1, <1>2, <1>13, <2>1 DEF Parser!Parsed, Reading
<1>14. CASE Parser!Normalise
  <2>1. Normalising(u)
    BY <1>4, <1>14, Zenon DEF Parser!Normalise
  <2>2. Normalising(u)' /\ broken' = "none"
    BY <1>1, <1>14, <2>1, NormaliseStep
  <2> QED
    BY <1>2, <1>14, <2>2 DEF Parser!Normalise, Reading
<1>15. CASE Parser!Normalised
  <2>1. Normalising(u)
    BY <1>4, <1>15 DEF Parser!Normalised
  <2>2. Finished(u)'
    BY <1>1, <1>15, <2>1, NormalisedStep, SMTT(30)
  <2> QED
    BY <1>1, <1>2, <1>15, <2>2 DEF Parser!Normalised, Reading
<1>16. CASE UNCHANGED parserVars
  BY <1>1, <1>16 DEF parserVars, ReadInv, IsRead, Reading, Early, ReadingScheme, ReadingUsername, ReadingPassword, ReadingDomain,
     ReadingPort, ReadingPath, ReadingPage, ReadingQuery, Normalising, Finished
<1> QED
  BY <1>5, <1>6, <1>7, <1>8, <1>9, <1>10, <1>11, <1>12, <1>13, <1>14, <1>15, <1>16 DEF Parser!Next

LEMMA ReadWritten == ReadInv => Parser!ReadsWhatWasWritten
<1> SUFFICES ASSUME ReadInv PROVE Parser!ReadsWhatWasWritten
  OBVIOUS
<1>1. PICK u \in Inputs : input = u /\ IsRead(u) /\ broken = "none" /\ Reading(u)
  BY DEF ReadInv
<1>2. ASSUME state = "Done"
      PROVE  /\ attributes = [u.attributes EXCEPT !.path = Parser!Resolved(@)]
             /\ query = IF u.query = Parser!Empty THEN Parser!NoQuery ELSE {u.query[k] : k \in DOMAIN u.query}
  <2>1. Finished(u)
    BY <1>1, <1>2 DEF Reading, Early, ReadingScheme, ReadingUsername, ReadingPassword, ReadingDomain, ReadingPort, ReadingPath,
       ReadingPage, ReadingQuery, Normalising
  <2>2. query = QueryOf(u)
    BY <2>1 DEF Finished
  <2> DEFINE r == u.attributes
  <2>3. r = Attr(r.scheme, r.username, r.password, r.domain, r.ip, r.port, r.path, r.page)
    BY <1>1, ReadFacts, AttrIs
  <2>4. Pathed(r, Parser!Resolved(r.path)) = WithPath(r, Parser!Resolved(r.path))
    <3> DEFINE s == r.scheme
               n == r.username
               w == r.password
               d == r.domain
               f == r.ip
               p == r.port
               t == r.path
               g == r.page
               c == Parser!Resolved(r.path)
    <3>1. r = Attr(s, n, w, d, f, p, t, g)
      BY <2>3
    <3> HIDE DEF s, n, w, d, f, p, t, g, c, r
    <3>2. Pathed(r, c) = Attr(s, n, w, d, f, p, c, g)
      BY <3>1, AttrPath
    <3> QED
      BY <3>2 DEF WithPath, s, n, w, d, f, p, g, c
  <2>5. attributes = WithPath(r, Parser!Resolved(r.path))
    BY <2>1 DEF Finished
  <2>6. attributes = [r EXCEPT !.path = Parser!Resolved(@)]
    BY <2>4, <2>5 DEF Pathed
  <2> QED
    BY <2>2, <2>6 DEF QueryOf
<1> QED
  BY <1>1, <1>2 DEF Parser!ReadsWhatWasWritten

\* While part names the parser, what it has read so far is the beginning of what was
\* written.
UrlInv == AllReadable /\ part = "parser" => ReadInv

LEMMA InitUrls == Init => UrlInv
<1> SUFFICES ASSUME Init, AllReadable, part = "parser" PROVE ReadInv
  BY DEF UrlInv
<1>1. Parser!Init
  BY DEF Init
<1> QED
  BY <1>1, InitRead

LEMMA NextUrls == UrlInv /\ [Next]_allVars => UrlInv'
<1> SUFFICES ASSUME UrlInv, [Next]_allVars, AllReadable, part' = "parser" PROVE ReadInv'
  BY DEF UrlInv
<1>1. part = "parser" /\ (Parser!Next \/ UNCHANGED parserVars)
  BY DEF Next, allVars
<1> QED
  BY <1>1, NextRead DEF UrlInv

\* What a URL is written from is what the parser finds in it, for every URL that can be
\* read again and however long its parts are: the scheme, the login, the host, the port,
\* the page and the pairs of the query as they were, the path with its dots resolved, and
\* no assertion fails on the way (url/Parser.cpp:71-247, url/URL.cpp:140-218).
THEOREM WrittenIsRead == Spec => [](AllReadable => ReadsWhatWasWritten)
<1>1. Spec => []UrlInv
  BY InitUrls, NextUrls, PTL DEF Spec, allVars
<1>2. UrlInv => (AllReadable => ReadsWhatWasWritten)
  BY ReadWritten DEF UrlInv, ReadsWhatWasWritten
<1> QED
  BY <1>1, <1>2, PTL

===============================================================================
