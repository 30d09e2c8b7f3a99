--------------------------------- MODULE Lemmas ---------------------------------
(***************************************************************************)
(* What the proofs about several components need, none of it about a state:*)
(* first induction over the numbers, functions defined by recursion over   *)
(* them, and sums over finite sets, as statements about sets and functions;*)
(* then what std::push_heap and std::pop_heap do to a queue, for any ranks *)
(* and any length: a push adds its crawler and moves the others about, a   *)
(* pop takes the top and moves the others about, both keep a heap a heap,  *)
(* and neither loses or doubles a crawler even when the ranks changed      *)
(* while they were queued.                                                 *)
(***************************************************************************)
EXTENDS CrawlerQueue, FiniteSetTheorems, WellFoundedInduction, FunctionTheorems, TLAPS

-------------------------------------------------------------------------------
(* Induction, as a statement about sets of numbers *)

\* Every set of numbers has a least one.
LEMMA LeastNumber ==
  ASSUME NEW T \in SUBSET Nat, T # {}
  PROVE  \E n \in T : \A m \in T : n <= m
<1> DEFINE R == OpToRel(<, Nat)
<1>1. \A x, y \in Nat : <<y, x>> \in R <=> y < x
  BY DEF OpToRel
<1>2. IsWellFoundedOn(R, Nat)
  BY NatLessThanWellFounded
<1> HIDE DEF R
<1>3. PICK n \in T : \A m \in T : ~ (<<m, n>> \in R)
  BY <1>2, WFMin
<1>4. ASSUME NEW m \in T PROVE n <= m
  <2>1. m \in Nat /\ n \in Nat
    OBVIOUS
  <2>2. ~ (m < n)
    BY <1>1, <1>3, <2>1
  <2> QED
    BY <2>1, <2>2
<1> QED
  BY <1>4

\* A set of numbers that holds what all smaller ones lead to holds every number.
LEMMA StrongInduction ==
  ASSUME NEW S, \A n \in Nat : (\A m \in 0..n - 1 : m \in S) => n \in S
  PROVE  Nat \subseteq S
<1> SUFFICES ASSUME Nat \ S # {} PROVE FALSE
  OBVIOUS
<1>1. PICK n \in Nat \ S : \A m \in Nat \ S : n <= m
  BY LeastNumber
<1>2. \A m \in 0..n - 1 : m \in S
  BY <1>1
<1> QED
  BY <1>1, <1>2

-------------------------------------------------------------------------------
(* Recursion: a function whose value at a number follows from that at one before it *)

\* f obeys the recursion on 0..n: it starts with x, and before[p] comes before p.
Obeys(f, n, X, x, before, step) ==
  /\ f \in [0..n -> X]
  /\ f[0] = x
  /\ \A p \in 1..n : f[p] = step[p, f[before[p]]]

Recursion(X, x, before, step) ==
  /\ x \in X
  /\ before \in [Nat -> Nat]
  /\ \A p \in Nat \ {0} : before[p] < p
  /\ step \in [Nat \X X -> X]

\* f obeys it on all numbers.
Solves(f, X, x, before, step) ==
  /\ f \in [Nat -> X]
  /\ f[0] = x
  /\ \A p \in Nat \ {0} : f[p] = step[p, f[before[p]]]

\* Two such functions agree.
LEMMA RecursionAgrees ==
  ASSUME NEW X, NEW x, NEW before, NEW step, Recursion(X, x, before, step),
         NEW n \in Nat, NEW m \in Nat, n <= m, NEW f, NEW g,
         Obeys(f, n, X, x, before, step), Obeys(g, m, X, x, before, step)
  PROVE  f[n] = g[n]
<1> DEFINE Agree == {p \in Nat : p <= n => f[p] = g[p]}
<1>1. ASSUME NEW p \in Nat, \A r \in 0..p - 1 : r \in Agree PROVE p \in Agree
  <2>1. CASE p = 0
    BY <2>1 DEF Obeys
  <2>2. CASE p # 0 /\ p <= n
    <3>1. p \in 1..n /\ p \in 1..m
      BY <2>2
    <3>2. before[p] \in 0..p - 1 /\ before[p] <= n
      BY <2>2 DEF Recursion
    <3>3. f[before[p]] = g[before[p]]
      BY <1>1, <3>2
    <3> QED
      BY <3>1, <3>3 DEF Obeys
  <2> QED
    BY <2>1, <2>2
<1> HIDE DEF Agree
<1>2. n \in Agree
  BY <1>1, StrongInduction
<1> QED
  BY <1>2 DEF Agree

\* There is such a function on 0..n.
LEMMA RecursionUpTo ==
  ASSUME NEW X, NEW x, NEW before, NEW step, Recursion(X, x, before, step)
  PROVE  \A n \in Nat : \E f : Obeys(f, n, X, x, before, step)
<1> DEFINE S == {n \in Nat : \E f : Obeys(f, n, X, x, before, step)}
<1>1. ASSUME NEW n \in Nat, \A m \in 0..n - 1 : m \in S PROVE n \in S
  <2>1. CASE n = 0
    <3> DEFINE f == [p \in 0..0 |-> x]
    <3>1. Obeys(f, 0, X, x, before, step)
      BY DEF Obeys, Recursion
    <3> QED
      BY <2>1, <3>1
  <2>2. CASE n # 0
    <3>1. n - 1 \in S
      BY <1>1, <2>2
    <3>2. PICK g : Obeys(g, n - 1, X, x, before, step)
      BY <3>1
    <3>3. before[n] \in 0..n - 1
      BY <2>2 DEF Recursion
    <3>4. g[before[n]] \in X
      BY <3>2, <3>3 DEF Obeys
    <3> DEFINE v == step[n, g[before[n]]]
               f == [p \in 0..n |-> IF p = n THEN v ELSE g[p]]
    <3>5. v \in X
      BY <3>4 DEF Recursion
    <3> HIDE DEF v
    <3>6. \A p \in 0..n - 1 : g[p] \in X /\ f[p] = g[p]
      <4>1. \A p \in 0..n - 1 : g[p] \in X
        BY <3>2 DEF Obeys
      <4> QED
        BY <4>1
    <3>7. f \in [0..n -> X]
      <4>1. ASSUME NEW p \in 0..n PROVE (IF p = n THEN v ELSE g[p]) \in X
        <5>1. CASE p = n
          BY <3>5, <5>1
        <5>2. CASE p # n
          <6>1. p \in 0..n - 1
            BY <5>2
          <6> QED
            BY <3>6, <5>2, <6>1
        <5> QED
          BY <5>1, <5>2
      <4> QED
        BY <4>1
    <3>8. ASSUME NEW p \in 1..n PROVE f[p] = step[p, f[before[p]]]
      <4>1. before[p] \in 0..n - 1 /\ before[p] \in 0..p - 1
        BY DEF Recursion
      <4>2. CASE p = n
        <5>1. f[n] = v
          OBVIOUS
        <5>2. f[before[n]] = g[before[n]]
          BY <3>3, <3>6
        <5> QED
          BY <4>2, <5>1, <5>2 DEF v
      <4>3. CASE p # n
        <5>1. p \in 1..n - 1 /\ p \in 0..n - 1
          BY <4>3
        <5>2. g[p] = step[p, g[before[p]]]
          BY <3>2, <5>1 DEF Obeys
        <5> HIDE DEF f
        <5> QED
          BY <3>6, <4>1, <5>1, <5>2
      <4> QED
        BY <4>2, <4>3
    <3>9. f[0] = x
      <4>1. 0 \in 0..n - 1
        BY <2>2
      <4>2. g[0] = x
        BY <3>2 DEF Obeys
      <4> QED
        BY <3>6, <4>1, <4>2
    <3> HIDE DEF f
    <3>10. Obeys(f, n, X, x, before, step)
      BY <3>7, <3>8, <3>9 DEF Obeys
    <3> QED
      BY <3>10
  <2> QED
    BY <2>1, <2>2
<1> HIDE DEF S
<1>2. Nat \subseteq S
  BY <1>1, StrongInduction
<1> QED
  BY <1>2 DEF S

\* And on all numbers.
LEMMA RecursionExists ==
  ASSUME NEW X, NEW x, NEW before, NEW step, Recursion(X, x, before, step)
  PROVE  \E f : Solves(f, X, x, before, step)
<1> DEFINE Upto(n) == CHOOSE f : Obeys(f, n, X, x, before, step)
           f == [n \in Nat |-> Upto(n)[n]]
<1>1. \A n \in Nat : Obeys(Upto(n), n, X, x, before, step)
  BY RecursionUpTo
<1> HIDE DEF Upto
<1>2. f \in [Nat -> X]
  <2>1. ASSUME NEW n \in Nat PROVE Upto(n)[n] \in X
    <3>1. Obeys(Upto(n), n, X, x, before, step) /\ n \in 0..n
      BY <1>1
    <3> QED
      BY <3>1 DEF Obeys
  <2> QED
    BY <2>1
<1>3. f[0] = x
  BY <1>1 DEF Obeys
<1>4. ASSUME NEW p \in Nat \ {0} PROVE f[p] = step[p, f[before[p]]]
  <2>1. before[p] \in Nat /\ before[p] <= p
    BY DEF Recursion
  <2>2. Upto(before[p])[before[p]] = Upto(p)[before[p]]
    <3>1. Obeys(Upto(before[p]), before[p], X, x, before, step) /\ Obeys(Upto(p), p, X, x, before, step)
      BY <1>1, <2>1
    <3> QED
      BY <2>1, <3>1, RecursionAgrees
  <2>3. Upto(p)[p] = step[p, Upto(p)[before[p]]]
    <3>1. Obeys(Upto(p), p, X, x, before, step) /\ p \in 1..p
      BY <1>1
    <3> QED
      BY <3>1 DEF Obeys
  <2> QED
    BY <2>1, <2>2, <2>3
<1> HIDE DEF f
<1>5. Solves(f, X, x, before, step)
  BY <1>2, <1>3, <1>4 DEF Solves
<1> QED
  BY <1>5

\* What holds at 0 and goes on to the next number holds up to n.
LEMMA Ascend ==
  ASSUME NEW S, NEW n \in Nat, 0 \in S, \A k \in 0..n - 1 : k \in S => k + 1 \in S
  PROVE  \A k \in 0..n : k \in S
<1> DEFINE T == {k \in Nat : k <= n => k \in S}
<1>1. ASSUME NEW k \in Nat, \A m \in 0..k - 1 : m \in T PROVE k \in T
  <2>1. CASE k = 0
    BY <2>1
  <2>2. CASE k # 0 /\ k <= n
    <3>1. k - 1 \in 0..k - 1 /\ k - 1 \in 0..n - 1 /\ k - 1 <= n /\ (k - 1) + 1 = k
      BY <2>2
    <3>2. k - 1 \in T
      BY <1>1, <3>1
    <3>3. k - 1 \in S
      BY <3>1, <3>2
    <3>4. (k - 1) + 1 \in S
      BY <3>1, <3>3
    <3> QED
      BY <3>1, <3>4
  <2> QED
    BY <2>1, <2>2
<1> HIDE DEF T
<1>2. Nat \subseteq T
  BY <1>1, StrongInduction
<1> QED
  BY <1>2 DEF T

\* A recursion from number to number has a solution up to n.
IsStep(step, X) == step \in [Nat \X X -> X]
Stepped(f, n, X, x, step) ==
  /\ f \in [0..n -> X]
  /\ f[0] = x
  /\ \A k \in 1..n : f[k] = step[k, f[k - 1]]

LEMMA StepsExist ==
  ASSUME NEW X, NEW x, x \in X, NEW n \in Nat, NEW step, IsStep(step, X)
  PROVE  \E f : Stepped(f, n, X, x, step)
<1>1. \E before : before \in [Nat -> Nat] /\ \A k \in Nat \ {0} : before[k] = k - 1
  <2> DEFINE before == [k \in Nat |-> IF k = 0 THEN 0 ELSE k - 1]
  <2>1. before \in [Nat -> Nat] /\ \A k \in Nat \ {0} : before[k] = k - 1
    OBVIOUS
  <2> QED
    BY <2>1
<1>2. PICK before : before \in [Nat -> Nat] /\ \A k \in Nat \ {0} : before[k] = k - 1
  BY <1>1
<1>3. Recursion(X, x, before, step)
  BY <1>2 DEF Recursion, IsStep
<1>4. PICK f : Obeys(f, n, X, x, before, step)
  BY <1>3, RecursionUpTo
<1>5. ASSUME NEW k \in 1..n PROVE f[k] = step[k, f[k - 1]]
  <2>1. k \in Nat \ {0}
    OBVIOUS
  <2>2. before[k] = k - 1
    BY <1>2, <2>1
  <2> QED
    BY <1>4, <2>2 DEF Obeys
<1> QED
  BY <1>4, <1>5 DEF Obeys, Stepped

\* Two functions that go from number to number alike are alike.
Alike(f, g, n) == f[0] = g[0] /\ \A k \in 1..n : f[k - 1] = g[k - 1] => f[k] = g[k]

LEMMA StepsAgree ==
  ASSUME NEW n \in Nat, NEW f, NEW g, Alike(f, g, n)
  PROVE  \A k \in 0..n : f[k] = g[k]
<1> DEFINE S == {k \in Nat : f[k] = g[k]}
<1>1. 0 \in S
  BY DEF Alike
<1>2. ASSUME NEW k \in 0..n - 1, k \in S PROVE k + 1 \in S
  <2>1. k + 1 \in 1..n /\ (k + 1) - 1 = k
    OBVIOUS
  <2>2. f[k + 1] = g[k + 1]
    BY <1>2, <2>1 DEF Alike
  <2> QED
    BY <2>1, <2>2
<1> HIDE DEF S
<1>3. \A k \in 0..n : k \in S
  BY <1>1, <1>2, Ascend
<1> QED
  BY <1>3 DEF S

-------------------------------------------------------------------------------
(* The sum over a finite set, as the folds of the community modules define it *)

Adds(sum, f, S) ==
  sum = [T \in SUBSET S |->
           IF T = {} THEN 0 ELSE f[CHOOSE x \in T : TRUE] + sum[T \ {CHOOSE x \in T : TRUE}]]
SumOf(f, S) == (CHOOSE sum : Adds(sum, f, S))[S]

\* The recursion has a solution: it is one over the size of the set, as the set loses one
\* element at a time.
AddOne(f, S) ==
  [ng \in Nat \X [SUBSET S -> Int] |->
     [T \in SUBSET S |->
        IF T = {} THEN 0 ELSE f[CHOOSE x \in T : TRUE] + ng[2][T \ {CHOOSE x \in T : TRUE}]]]

LEMMA SumExists ==
  ASSUME NEW S, IsFiniteSet(S), NEW f, \A x \in S : f[x] \in Int
  PROVE  \E sum \in [SUBSET S -> Int] : Adds(sum, f, S)
<1> DEFINE Pick(T) == CHOOSE x \in T : TRUE
           X == [SUBSET S -> Int]
           none == [T \in SUBSET S |-> 0]
           Value(g, T) == IF T = {} THEN 0 ELSE f[Pick(T)] + g[T \ {Pick(T)}]
           before == [n \in Nat |-> IF n = 0 THEN 0 ELSE n - 1]
<1>1. \A T \in SUBSET S : T # {} => Pick(T) \in T
  OBVIOUS
<1> HIDE DEF Pick
<1>2. ASSUME NEW g \in X, NEW T \in SUBSET S PROVE Value(g, T) \in Int
  <2>1. CASE T # {}
    <3>1. Pick(T) \in S /\ T \ {Pick(T)} \in SUBSET S
      BY <1>1, <2>1
    <3>2. f[Pick(T)] \in Int /\ g[T \ {Pick(T)}] \in Int
      BY <3>1
    <3> QED
      BY <3>2
  <2> QED
    BY <2>1
<1>3. AddOne(f, S) = [ng \in Nat \X X |-> [T \in SUBSET S |-> Value(ng[2], T)]]
  BY DEF AddOne, Pick
<1> HIDE DEF Value
<1>4. \A g \in X : [T \in SUBSET S |-> Value(g, T)] \in X
  BY <1>2
<1>5. AddOne(f, S) \in [Nat \X X -> X]
  <2>1. ASSUME NEW ng \in Nat \X X PROVE [T \in SUBSET S |-> Value(ng[2], T)] \in X
    BY <1>4
  <2> HIDE DEF X
  <2> QED
    BY <1>3, <2>1
<1>6. none \in X
  OBVIOUS
<1>7. before \in [Nat -> Nat] /\ \A n \in Nat \ {0} : before[n] = n - 1
  OBVIOUS
<1> HIDE DEF none, before
<1>8. Recursion(X, none, before, AddOne(f, S))
  <2> HIDE DEF X
  <2> QED
    BY <1>5, <1>6, <1>7 DEF Recursion
<1>9. PICK F : Solves(F, X, none, before, AddOne(f, S))
  <2> HIDE DEF X
  <2> QED
    BY <1>8, RecursionExists
<1>10. \A n \in Nat : F[n] \in X
  BY <1>9 DEF Solves
<1>11. \A n \in Nat \ {0}, T \in SUBSET S : F[n][T] = Value(F[n - 1], T)
  <2>1. ASSUME NEW n \in Nat \ {0}, NEW T \in SUBSET S PROVE F[n][T] = Value(F[n - 1], T)
    <3>1. F[n] = AddOne(f, S)[n, F[n - 1]]
      BY <1>7, <1>9 DEF Solves
    <3> HIDE DEF X
    <3>2. n - 1 \in Nat
      OBVIOUS
    <3>3. <<n, F[n - 1]>> \in Nat \X X
      BY <1>10, <3>2
    <3>4. AddOne(f, S)[n, F[n - 1]] = [U \in SUBSET S |-> Value(F[n - 1], U)]
      BY <1>3, <3>3
    <3> QED
      BY <3>1, <3>4
  <2> QED
    BY <2>1
<1> DEFINE sum == [T \in SUBSET S |-> F[Cardinality(T)][T]]
<1>12. ASSUME NEW T \in SUBSET S PROVE sum[T] = Value(sum, T) /\ sum[T] \in Int
  <2>1. IsFiniteSet(T) /\ Cardinality(T) \in Nat
    BY FS_Subset, FS_CardinalityType
  <2>2. CASE T = {}
    <3>1. Cardinality(T) = 0 /\ F[0] = none
      BY <1>9, <2>2, FS_EmptySet DEF Solves
    <3> QED
      BY <2>2, <3>1 DEF none, Value
  <2>3. CASE T # {}
    <3> DEFINE U == T \ {Pick(T)}
    <3>1. Pick(T) \in T /\ U \in SUBSET S
      BY <1>1, <2>3
    <3>2. Cardinality(U) = Cardinality(T) - 1 /\ Cardinality(T) # 0
      BY <2>1, <2>3, <3>1, FS_RemoveElement, FS_EmptySet
    <3>3. sum[T] = Value(F[Cardinality(T) - 1], T)
      BY <1>11, <2>1, <3>2
    <3>4. sum[U] = F[Cardinality(T) - 1][U]
      BY <3>1, <3>2
    <3>5. sum[T] \in Int
      BY <1>2, <1>10, <2>1, <3>2, <3>3
    <3> HIDE DEF sum
    <3> QED
      BY <2>3, <3>3, <3>4, <3>5 DEF Value
  <2> QED
    BY <2>2, <2>3
<1>13. sum = [T \in SUBSET S |-> Value(sum, T)]
  BY <1>12
<1>14. sum \in X
  BY <1>12
<1> HIDE DEF sum
<1>15. Adds(sum, f, S)
  BY <1>13 DEF Adds, Value, Pick
<1> QED
  BY <1>14, <1>15

LEMMA SumSolves ==
  ASSUME NEW S, IsFiniteSet(S), NEW f, \A x \in S : f[x] \in Int
  PROVE  \E sum \in [SUBSET S -> Int] : Adds(sum, f, S) /\ SumOf(f, S) = sum[S]
<1> DEFINE sum == CHOOSE sum : Adds(sum, f, S)
<1>1. PICK other \in [SUBSET S -> Int] : Adds(other, f, S)
  BY SumExists
<1>2. Adds(sum, f, S)
  BY <1>1
<1>3. SumOf(f, S) = sum[S]
  BY DEF SumOf
<1> HIDE DEF sum
<1> DEFINE Pick(T) == CHOOSE x \in T : TRUE
           Agree == {n \in Nat : \A T \in SUBSET S : Cardinality(T) = n => sum[T] = other[T]}
           Step(h, T) == IF T = {} THEN 0 ELSE f[Pick(T)] + h[T \ {Pick(T)}]
<1>4. \A T \in SUBSET S : sum[T] = Step(sum, T) /\ other[T] = Step(other, T)
  BY <1>1, <1>2 DEF Adds
<1>5. \A T \in SUBSET S : T # {} => Pick(T) \in T
  OBVIOUS
<1> HIDE DEF Pick
<1>6. ASSUME NEW n \in Nat, \A k \in 0..n - 1 : k \in Agree PROVE n \in Agree
  <2>1. ASSUME NEW T \in SUBSET S, Cardinality(T) = n PROVE sum[T] = other[T]
    <3>1. CASE T = {}
      BY <1>4, <3>1
    <3>2. CASE T # {}
      <4>1. IsFiniteSet(T) /\ Pick(T) \in T /\ T \ {Pick(T)} \in SUBSET S
        BY <1>5, <3>2, FS_Subset
      <4>2. Cardinality(T \ {Pick(T)}) = n - 1 /\ n # 0
        BY <2>1, <3>2, <4>1, FS_RemoveElement, FS_EmptySet
      <4>3. n - 1 \in Agree
        BY <1>6, <4>2
      <4>4. sum[T \ {Pick(T)}] = other[T \ {Pick(T)}]
        BY <4>1, <4>2, <4>3
      <4> QED
        BY <1>4, <4>4
    <3> QED
      BY <3>1, <3>2
  <2> QED
    BY <2>1
<1> HIDE DEF Agree, Step
<1>7. Nat \subseteq Agree
  BY <1>6, StrongInduction
<1>8. \A T \in SUBSET S : sum[T] = other[T]
  BY <1>7, FS_Subset, FS_CardinalityType DEF Agree
<1>9. SumOf(f, S) = other[S]
  BY <1>3, <1>8
<1> QED
  BY <1>1, <1>9

\* A sum changes by what one of its terms changes.
LEMMA SumChanges ==
  ASSUME NEW S, IsFiniteSet(S), NEW f, NEW g, NEW m,
         \A x \in S : f[x] \in Int /\ g[x] \in Int,
         \A x \in S : x # m => g[x] = f[x]
  PROVE  /\ SumOf(f, S) \in Int
         /\ SumOf(g, S) = SumOf(f, S) + (IF m \in S THEN g[m] - f[m] ELSE 0)
<1>1. PICK sf \in [SUBSET S -> Int] : Adds(sf, f, S) /\ SumOf(f, S) = sf[S]
  BY SumSolves
<1>2. PICK sg \in [SUBSET S -> Int] : Adds(sg, g, S) /\ SumOf(g, S) = sg[S]
  BY SumSolves
<1> DEFINE Pick(T) == CHOOSE x \in T : TRUE
           Change(T) == IF m \in T THEN g[m] - f[m] ELSE 0
           Right == {n \in Nat : \A T \in SUBSET S : Cardinality(T) = n => sg[T] = sf[T] + Change(T)}
<1>3. \A T \in SUBSET S : /\ sf[T] = IF T = {} THEN 0 ELSE f[Pick(T)] + sf[T \ {Pick(T)}]
                          /\ sg[T] = IF T = {} THEN 0 ELSE g[Pick(T)] + sg[T \ {Pick(T)}]
  BY <1>1, <1>2 DEF Adds
<1>4. \A T \in SUBSET S : T # {} => Pick(T) \in T
  OBVIOUS
<1> HIDE DEF Pick
<1>5. ASSUME NEW n \in Nat, \A k \in 0..n - 1 : k \in Right PROVE n \in Right
  <2>1. ASSUME NEW T \in SUBSET S, Cardinality(T) = n PROVE sg[T] = sf[T] + Change(T)
    <3>1. CASE T = {}
      <4>1. sf[T] = 0 /\ sg[T] = 0
        BY <1>3, <3>1
      <4>2. Change(T) = 0
        BY <3>1
      <4> HIDE DEF Change
      <4> QED
        BY <4>1, <4>2
    <3>2. CASE T # {}
      <4> DEFINE p == Pick(T)
                 U == T \ {p}
      <4>1. IsFiniteSet(T) /\ p \in T /\ U \in SUBSET S
        BY <1>4, <3>2, FS_Subset
      <4>2. Cardinality(U) = n - 1 /\ n # 0
        BY <2>1, <3>2, <4>1, FS_RemoveElement, FS_EmptySet
      <4>3. n - 1 \in Right
        BY <1>5, <4>2
      <4>4. sg[U] = sf[U] + Change(U)
        BY <4>1, <4>2, <4>3
      <4>5. sf[T] = f[p] + sf[U] /\ sg[T] = g[p] + sg[U]
        BY <1>3, <3>2
      <4>6. sf[U] \in Int /\ sg[U] \in Int /\ f[p] \in Int /\ g[p] \in Int
        BY <4>1
      <4>7. CASE p = m
        <5>1. Change(U) = 0 /\ Change(T) = g[m] - f[m]
          BY <4>1, <4>7
        <5> HIDE DEF p, U, Change
        <5> QED
          BY <4>4, <4>5, <4>6, <4>7, <5>1
      <4>8. CASE p # m
        <5>1. Change(U) = Change(T) /\ g[p] = f[p]
          BY <4>1, <4>8
        <5>2. Change(T) \in Int
          BY <4>1
        <5> HIDE DEF p, U, Change
        <5> QED
          BY <4>4, <4>5, <4>6, <5>1, <5>2
      <4> QED
        BY <4>7, <4>8
    <3> QED
      BY <3>1, <3>2
  <2> QED
    BY <2>1
<1> HIDE DEF Right
<1>6. Nat \subseteq Right
  BY <1>5, StrongInduction
<1>7. sg[S] = sf[S] + Change(S)
  BY <1>6, FS_CardinalityType DEF Right
<1> QED
  BY <1>1, <1>2, <1>7

-------------------------------------------------------------------------------
(* The way from a position to the top *)

\* The recursion is well founded: half of a position comes before it.
Half == [p \in Nat |-> p \div 2]
WithPosition == [px \in Nat \X SUBSET Nat |-> {px[1]} \cup px[2]]

LEMMA PathDef ==
  /\ PathToTop[0] = {}
  /\ \A p \in Nat \ {0} : PathToTop[p] = {p} \cup PathToTop[p \div 2]
<1> DEFINE Value(f, p) == IF p = 0 THEN {} ELSE {p} \cup f[p \div 2]
<1>1. Half \in [Nat -> Nat] /\ \A p \in Nat \ {0} : Half[p] < p
  BY DEF Half
<1>2. WithPosition \in [Nat \X SUBSET Nat -> SUBSET Nat]
  BY DEF WithPosition
<1>3. Recursion(SUBSET Nat, {}, Half, WithPosition)
  BY <1>1, <1>2 DEF Recursion
<1>4. \A p \in Nat, y \in SUBSET Nat : WithPosition[p, y] = {p} \cup y
  BY DEF WithPosition
<1>5. PICK f : Solves(f, SUBSET Nat, {}, Half, WithPosition)
  BY <1>3, RecursionExists
<1>6. ASSUME NEW p \in Nat \ {0} PROVE f[p] = {p} \cup f[p \div 2]
  <2>1. p \div 2 \in Nat /\ Half[p] = p \div 2
    BY DEF Half
  <2>2. f[p \div 2] \in SUBSET Nat
    BY <1>5, <2>1 DEF Solves
  <2>3. f[p] = WithPosition[p, f[Half[p]]]
    BY <1>5 DEF Solves
  <2> QED
    BY <1>4, <2>1, <2>2, <2>3
<1>7. f = [p \in Nat |-> Value(f, p)]
  BY <1>5, <1>6 DEF Solves
<1>8. PathToTop = [p \in Nat |-> Value(PathToTop, p)]
  BY <1>7 DEF PathToTop
<1> QED
  BY <1>8

\* It has no gaps: what is passed on it comes from half of a position below.
LEMMA PathFacts ==
  ASSUME NEW p \in Nat \ {0}
  PROVE  /\ PathToTop[p] \subseteq 1..p
         /\ p \in PathToTop[p] /\ 1 \in PathToTop[p]
         /\ \A r \in PathToTop[p] : r # 1 => r \div 2 \in PathToTop[p]
         /\ \A r, s \in PathToTop[p] : r < s => r <= s \div 2
<1> DEFINE Good(n) ==
             /\ PathToTop[n] \subseteq 1..n
             /\ n \in PathToTop[n] /\ 1 \in PathToTop[n]
             /\ \A r \in PathToTop[n] : r # 1 => r \div 2 \in PathToTop[n]
             /\ \A r, s \in PathToTop[n] : r < s => r <= s \div 2
           S == {n \in Nat : n # 0 => Good(n)}
<1>1. ASSUME NEW n \in Nat, \A m \in 0..n - 1 : m \in S PROVE n \in S
  <2> SUFFICES ASSUME n # 0 PROVE Good(n)
    OBVIOUS
  <2>1. PathToTop[n] = {n} \cup PathToTop[n \div 2]
    BY PathDef
  <2>2. CASE n = 1
    <3>1. PathToTop[n] = {1}
      BY <2>1, <2>2, PathDef
    <3> QED
      BY <2>2, <3>1
  <2>3. CASE n # 1
    <3> DEFINE h == n \div 2
    <3>1. h \in 0..n - 1 /\ h # 0 /\ h \in Nat
      BY <2>3
    <3>2. Good(h)
      BY <1>1, <3>1
    <3>3. PathToTop[n] \subseteq 1..n /\ n \in PathToTop[n] /\ 1 \in PathToTop[n]
      BY <2>1, <3>1, <3>2
    <3>4. \A r \in PathToTop[n] : r # 1 => r \div 2 \in PathToTop[n]
      BY <2>1, <3>2
    <3>5. \A r, s \in PathToTop[n] : r < s => r <= s \div 2
      BY <2>1, <3>1, <3>2
    <3> QED
      BY <3>3, <3>4, <3>5
  <2> QED
    BY <2>2, <2>3
<1> HIDE DEF S
<1>2. p \in S
  BY <1>1, StrongInduction
<1> QED
  BY <1>2 DEF S

-------------------------------------------------------------------------------
(* Rising *)

\* Where the crawler at r comes from when v rises from p.
Risen(q, key, p, v) ==
  [r \in 1..Len(q) |->
     IF r \in Reached(q, key, p, v)
     THEN IF r \div 2 \in Reached(q, key, p, v) THEN r \div 2 ELSE p
     ELSE r]

\* The positions reached go from p up to a first one, without a gap.
LEMMA ReachedFacts ==
  ASSUME NEW q, NEW key, NEW p \in Nat \ {0}, NEW v
  PROVE  /\ Reached(q, key, p, v) \subseteq 1..p
         /\ p \in Reached(q, key, p, v)
         /\ \A r \in Reached(q, key, p, v), s \in PathToTop[p] : r <= s => s \in Reached(q, key, p, v)
         /\ \E t \in Reached(q, key, p, v) :
              /\ t \div 2 \notin Reached(q, key, p, v)
              /\ \A r \in Reached(q, key, p, v) : r # t => t < r /\ r \div 2 \in Reached(q, key, p, v)
<1> DEFINE R == Reached(q, key, p, v)
           P == PathToTop[p]
<1>1. /\ P \subseteq 1..p /\ p \in P
      /\ \A r \in P : r # 1 => r \div 2 \in P
      /\ \A r, s \in P : r < s => r <= s \div 2
  BY PathFacts
<1>2. R \subseteq P
  BY DEF Reached
<1>3. p \in R
  BY <1>1 DEF Reached
<1>4. \A r \in R, s \in P : r <= s => s \in R
  <2> SUFFICES ASSUME NEW r \in R, NEW s \in P, r <= s,
                      NEW z \in P, s <= z /\ z < p
               PROVE  key[q[z]] > key[v]
    BY DEF Reached
  <2>1. r <= z
    BY <1>1, <1>2
  <2> QED
    BY <2>1 DEF Reached
<1> HIDE DEF R, P
<1>5. R \subseteq Nat /\ R # {}
  BY <1>1, <1>2, <1>3
<1>6. PICK t \in R : \A r \in R : t <= r
  BY <1>5, LeastNumber
<1>7. t \in 1..p /\ t \in P
  BY <1>1, <1>2
<1>8. t \div 2 \notin R
  BY <1>6, <1>7
<1>9. ASSUME NEW r \in R, r # t PROVE t < r /\ r \div 2 \in R
  <2>1. r \in 1..p /\ r \in P /\ t < r
    BY <1>1, <1>2, <1>6, <1>7, <1>9
  <2>2. r \div 2 \in P /\ t <= r \div 2
    BY <1>1, <1>7, <2>1
  <2> QED
    BY <1>4, <2>1, <2>2
<1>10. R \subseteq 1..p
  BY <1>1, <1>2
<1> QED
  BY <1>3, <1>4, <1>8, <1>9, <1>10 DEF R, P

\* The next position below one on the path is on it too.
LEMMA PathBelow ==
  ASSUME NEW p \in Nat \ {0}, NEW t \in PathToTop[p], t # p
  PROVE  \E s \in PathToTop[p] : t < s /\ s \div 2 = t
<1> DEFINE P == PathToTop[p]
           Below == {s \in P : t < s}
<1>1. /\ P \subseteq 1..p /\ p \in P
      /\ \A r \in P : r # 1 => r \div 2 \in P
      /\ \A r, s \in P : r < s => r <= s \div 2
  BY PathFacts
<1>2. t \in P
  OBVIOUS
<1> HIDE DEF P
<1>3. Below \subseteq Nat /\ p \in Below
  <2>1. t \in 1..p
    BY <1>1, <1>2
  <2>2. t < p
    BY <2>1
  <2>3. P \subseteq Nat
    BY <1>1
  <2>4. p \in Below
    BY <1>1, <2>2
  <2> QED
    BY <2>3, <2>4
<1>4. Below # {}
  BY <1>3
<1> HIDE DEF Below
<1>5. PICK s \in Below : \A r \in Below : s <= r
  BY <1>3, <1>4, LeastNumber
<1>6. s \in P /\ s \in Nat /\ t \in Nat /\ 1 <= t /\ t < s
  BY <1>1, <1>2, <1>5 DEF Below
<1>7. s \div 2 \in P /\ t <= s \div 2 /\ s \div 2 < s
  BY <1>1, <1>2, <1>6
<1>8. s \div 2 \notin Below
  BY <1>5, <1>6, <1>7
<1>9. s \div 2 = t
  BY <1>6, <1>7, <1>8 DEF Below
<1> QED
  BY <1>6, <1>9 DEF P

\* Rising only reorders: every position is filled, from one position.
LEMMA RisenPermutes ==
  ASSUME NEW q, NEW key, NEW v, Len(q) \in Nat, NEW p \in 1..Len(q)
  PROVE  Risen(q, key, p, v) \in Bijection(1..Len(q), 1..Len(q))
<1> DEFINE R == Reached(q, key, p, v)
           N == 1..Len(q)
           Val(r) == IF r \in R THEN IF r \div 2 \in R THEN r \div 2 ELSE p ELSE r
           g == [r \in N |-> Val(r)]
<1>1. /\ R \subseteq 1..p /\ p \in R
      /\ \A r \in R, s \in PathToTop[p] : r <= s => s \in R
      /\ \E t \in R : t \div 2 \notin R /\ \A r \in R : r # t => t < r /\ r \div 2 \in R
  BY ReachedFacts
<1>2. PICK t \in R : t \div 2 \notin R /\ \A r \in R : r # t => t < r /\ r \div 2 \in R
  BY <1>1
<1>3. R \subseteq PathToTop[p] /\ PathToTop[p] \subseteq 1..p /\ \A r, s \in PathToTop[p] : r < s => r <= s \div 2
  BY PathFacts DEF Reached
<1>4. \A z \in PathToTop[p] : z # p => \E s \in PathToTop[p] : z < s /\ s \div 2 = z
  BY PathBelow
<1> HIDE DEF R
<1>5. ASSUME NEW r \in N PROVE Val(r) \in N
  BY <1>1
<1>6. ASSUME NEW r \in N, NEW s \in N, Val(r) = Val(s), r < s PROVE FALSE
  <2>1. r \in R <=> s \in R
    BY <1>1, <1>6
  <2>2. r \in R /\ s \in R
    BY <1>6, <2>1
  <2>3. r # t /\ s # t
    BY <1>1, <1>2, <1>6, <2>2
  <2>4. r <= s \div 2 /\ r \div 2 = s \div 2
    BY <1>2, <1>3, <1>6, <2>2, <2>3
  <2> QED
    BY <2>4
<1>7. ASSUME NEW z \in N PROVE \E r \in N : Val(r) = z
  <2>1. CASE z \notin R
    BY <2>1
  <2>2. CASE z = p
    <3>1. t \in N /\ Val(t) = p
      BY <1>1, <1>2
    <3> QED
      BY <2>2, <3>1
  <2>3. CASE z \in R /\ z # p
    <3>1. PICK s \in PathToTop[p] : z < s /\ s \div 2 = z
      BY <1>3, <1>4, <2>3
    <3>2. s \in R
      <4>1. z <= s
        BY <1>3, <3>1
      <4> QED
        BY <1>1, <2>3, <3>1, <4>1
    <3>3. s \in N /\ Val(s) = z
      BY <1>1, <2>3, <3>1, <3>2
    <3> QED
      BY <3>3
  <2> QED
    BY <2>1, <2>2, <2>3
<1>8. Risen(q, key, p, v) = g
  BY DEF Risen, R
<1> HIDE DEF Val
<1>9. g \in [N -> N]
  BY <1>5
<1>10. \A r, s \in N : g[r] = g[s] => r = s
  <2> SUFFICES ASSUME NEW r \in N, NEW s \in N, Val(r) = Val(s), r # s PROVE FALSE
    OBVIOUS
  <2>1. r < s \/ s < r
    OBVIOUS
  <2> QED
    BY <1>6, <2>1
<1>11. \A z \in N : \E r \in N : g[r] = z
  BY <1>7
<1> HIDE DEF g, N
<1>12. g \in Bijection(N, N)
  BY <1>9, <1>10, <1>11, Fun_IsBij
<1> QED
  BY <1>8, <1>12 DEF N

\* What rising does: the vacant position is filled with v, and the queue reordered.
LEMMA SiftUpReorders ==
  ASSUME NEW q, NEW key, NEW v, Len(q) \in Nat, NEW p \in 1..Len(q)
  PROVE  SiftUp(q, key, p, v) =
           [r \in 1..Len(q) |-> IF Risen(q, key, p, v)[r] = p THEN v ELSE q[Risen(q, key, p, v)[r]]]
<1> DEFINE R == Reached(q, key, p, v)
           Val(r) == IF r \in R THEN IF r \div 2 \in R THEN q[r \div 2] ELSE v ELSE q[r]
           From(r) == IF r \in R THEN IF r \div 2 \in R THEN r \div 2 ELSE p ELSE r
<1>1. R \subseteq 1..p /\ p \in R
  <2>1. p \in Nat \ {0}
    OBVIOUS
  <2> QED
    BY <2>1, ReachedFacts
<1>2. SiftUp(q, key, p, v) = [r \in 1..Len(q) |-> Val(r)]
  BY DEF SiftUp
<1>3. Risen(q, key, p, v) = [r \in 1..Len(q) |-> From(r)]
  BY DEF Risen
<1> HIDE DEF R
<1>4. \A r \in 1..Len(q) : Val(r) = IF From(r) = p THEN v ELSE q[From(r)]
  BY <1>1
<1> HIDE DEF Val, From
<1>5. \A r \in 1..Len(q) : Risen(q, key, p, v)[r] = From(r)
  BY <1>3
<1> QED
  BY <1>2, <1>4, <1>5

\* Letting a crawler rise changes the order of the queue, not its length.
LEMMA SiftUpType ==
  ASSUME NEW C, NEW q \in Seq(C), NEW key, NEW p \in 1..Len(q), NEW v \in C
  PROVE  SiftUp(q, key, p, v) \in Seq(C) /\ Len(SiftUp(q, key, p, v)) = Len(q)
<1> DEFINE g == Risen(q, key, p, v)
           N == 1..Len(q)
           Val(r) == IF g[r] = p THEN v ELSE q[g[r]]
<1>1. Len(q) \in Nat
  OBVIOUS
<1>2. g \in Bijection(N, N)
  BY <1>1, RisenPermutes
<1>3. g \in [N -> N]
  BY <1>2, Fun_BijectionProperties
<1>4. SiftUp(q, key, p, v) = [r \in N |-> Val(r)]
  BY <1>1, SiftUpReorders
<1> HIDE DEF g
<1>5. ASSUME NEW r \in N PROVE Val(r) \in C
  <2>1. g[r] \in N
    BY <1>3
  <2>2. q[g[r]] \in C
    BY <2>1
  <2> QED
    BY <2>2
<1> HIDE DEF Val
<1>6. [r \in N |-> Val(r)] \in [N -> C]
  BY <1>5
<1> QED
  BY <1>1, <1>4, <1>6

\* No crawler ranks below one above it in the heap.
Heap(q, key) == \A r \in 2..Len(q) : key[q[r \div 2]] <= key[q[r]]

\* A vacancy without children apart, q is a heap: with v risen from the vacancy it is
\* one again.
HeapBut(p, q, key) == \A r \in 2..Len(q) : r # p => key[q[r \div 2]] <= key[q[r]]

LEMMA SiftUpHeap ==
  ASSUME NEW C, NEW q \in Seq(C), NEW key \in [C -> Nat], NEW p \in 1..Len(q), NEW v \in C,
         2 * p > Len(q), HeapBut(p, q, key)
  PROVE  Heap(SiftUp(q, key, p, v), key)
<1> DEFINE R == Reached(q, key, p, v)
           N == 1..Len(q)
           Val(r) == IF r \in R THEN IF r \div 2 \in R THEN q[r \div 2] ELSE v ELSE q[r]
           S == SiftUp(q, key, p, v)
<1>1. p \in Nat \ {0} /\ Len(q) \in Nat
  OBVIOUS
<1>2. /\ R \subseteq 1..p /\ p \in R
      /\ \A r \in R, s \in PathToTop[p] : r <= s => s \in R
  BY <1>1, ReachedFacts
<1>3. /\ PathToTop[p] \subseteq 1..p
      /\ \A r \in PathToTop[p] : r # 1 => r \div 2 \in PathToTop[p]
      /\ \A r, s \in PathToTop[p] : r < s => r <= s \div 2
  BY <1>1, PathFacts
<1>4. R \subseteq PathToTop[p]
  BY DEF Reached
<1>5. \A r \in R : r # p => key[q[r]] > key[v]
  BY <1>2, <1>3, <1>4 DEF Reached
<1>6. \A r \in PathToTop[p] \ R : \E s \in PathToTop[p] : r <= s /\ s < p /\ ~ (key[q[s]] > key[v])
  BY DEF Reached
<1>7. \A r \in N : q[r] \in C /\ key[q[r]] \in Nat
  OBVIOUS
<1>8. key[v] \in Nat
  OBVIOUS
<1>9. S = [r \in N |-> Val(r)]
  BY DEF SiftUp
<1> HIDE DEF R
<1>10. ASSUME NEW r \in 2..Len(q) PROVE key[Val(r \div 2)] <= key[Val(r)]
  <2> DEFINE h == r \div 2
  <2>1. h \in N /\ r \in N /\ h < r /\ 2 * h <= r
    OBVIOUS
  <2>2. CASE r \in R /\ h \in R
    <3>1. Val(r) = q[h] /\ h # p
      BY <1>2, <2>1, <2>2
    <3>2. key[q[h]] > key[v]
      BY <1>5, <2>2, <3>1
    <3>3. CASE h \div 2 \in R
      <4>1. h \in 2..Len(q) /\ Val(h) = q[h \div 2]
        BY <1>2, <2>1, <2>2, <3>3
      <4> QED
        BY <3>1, <4>1 DEF HeapBut
    <3>4. CASE h \div 2 \notin R
      <4>1. Val(h) = v
        BY <2>2, <3>4
      <4> QED
        BY <1>7, <1>8, <2>1, <3>1, <3>2, <4>1
    <3> QED
      BY <3>3, <3>4
  <2>3. CASE r \in R /\ h \notin R
    <3>1. Val(r) = v /\ Val(h) = q[h]
      BY <2>3
    <3>2. h \in PathToTop[p] /\ r \in PathToTop[p]
      BY <1>3, <1>4, <2>1, <2>3
    <3>3. PICK s \in PathToTop[p] : h <= s /\ s < p /\ ~ (key[q[s]] > key[v])
      BY <1>6, <2>3, <3>2
    <3>4. s \in 1..p /\ s \in N
      BY <1>3, <3>3
    <3>5. s \notin R
      BY <1>5, <3>3, <3>4
    <3>6. ~ (r <= s)
      BY <1>2, <2>3, <3>3, <3>5
    <3>7. s <= h
      <4>1. s < r
        BY <2>1, <3>4, <3>6
      <4> QED
        BY <1>3, <3>2, <4>1
    <3>8. s = h
      BY <2>1, <3>3, <3>4, <3>7
    <3>9. key[q[h]] \in Nat /\ ~ (key[q[h]] > key[v])
      BY <1>7, <2>1, <3>3, <3>8
    <3>10. key[q[h]] <= key[v]
      BY <1>8, <3>9
    <3> QED
      BY <3>1, <3>10
  <2>4. CASE r \notin R
    <3>1. Val(r) = q[r] /\ r # p /\ h # p
      BY <1>1, <1>2, <2>1, <2>4
    <3>2. key[q[h]] <= key[q[r]]
      BY <3>1 DEF HeapBut
    <3>3. CASE h \notin R
      BY <3>1, <3>2, <3>3
    <3>4. CASE h \in R /\ h \div 2 \notin R
      <4>1. Val(h) = v /\ key[q[h]] > key[v]
        BY <1>5, <3>1, <3>4
      <4>2. key[q[h]] \in Nat /\ key[q[r]] \in Nat /\ key[v] \in Nat
        BY <1>7, <1>8, <2>1
      <4>3. key[v] <= key[q[r]]
        BY <3>2, <4>1, <4>2
      <4> QED
        BY <3>1, <4>1, <4>3
    <3>5. CASE h \in R /\ h \div 2 \in R
      <4>1. h \div 2 \in 1..p /\ h \in Nat
        BY <1>2, <2>1, <3>5
      <4>2. h \in 2..Len(q) /\ h \div 2 \in N
        BY <2>1, <4>1
      <4>3. Val(h) = q[h \div 2]
        BY <3>5
      <4>4. key[q[h \div 2]] <= key[q[h]]
        BY <3>1, <4>2 DEF HeapBut
      <4>5. key[q[h \div 2]] \in Nat /\ key[q[h]] \in Nat /\ key[q[r]] \in Nat
        BY <1>7, <2>1, <4>2
      <4>6. \A a, b, c \in Nat : a <= b /\ b <= c => a <= c
        OBVIOUS
      <4>7. key[q[h \div 2]] <= key[q[r]]
        BY <3>2, <4>4, <4>5, <4>6, Zenon
      <4> QED
        BY <3>1, <4>3, <4>7
    <3> QED
      BY <3>3, <3>4, <3>5
  <2> QED
    BY <2>2, <2>3, <2>4
<1>11. Len(S) = Len(q)
  BY SiftUpType
<1>12. ASSUME NEW r \in 2..Len(q) PROVE S[r] = Val(r) /\ S[r \div 2] = Val(r \div 2)
  <2>1. r \in N /\ r \div 2 \in N
    OBVIOUS
  <2> HIDE DEF S, Val
  <2> QED
    BY <1>9, <2>1
<1> HIDE DEF S, Val
<1> QED
  BY <1>10, <1>11, <1>12 DEF Heap, S

\* The top of a heap has the least key.
LEMMA HeapTop ==
  ASSUME NEW C, NEW q \in Seq(C), NEW key \in [C -> Nat], Heap(q, key), NEW p \in 1..Len(q)
  PROVE  key[q[1]] <= key[q[p]]
<1> DEFINE S == {n \in Nat : n \in 1..Len(q) => key[q[1]] <= key[q[n]]}
<1>1. ASSUME NEW n \in Nat, \A m \in 0..n - 1 : m \in S PROVE n \in S
  <2> SUFFICES ASSUME n \in 1..Len(q) PROVE key[q[1]] <= key[q[n]]
    OBVIOUS
  <2>1. \A r \in 1..Len(q) : q[r] \in C /\ key[q[r]] \in Nat
    OBVIOUS
  <2>2. CASE n = 1
    BY <2>1, <2>2
  <2>3. CASE n # 1
    <3>1. n \in 2..Len(q) /\ n \div 2 \in 0..n - 1 /\ n \div 2 \in 1..Len(q) /\ 1 \in 1..Len(q)
      BY <2>3
    <3>2. key[q[1]] <= key[q[n \div 2]]
      BY <1>1, <3>1
    <3>3. key[q[n \div 2]] <= key[q[n]]
      BY <3>1 DEF Heap
    <3> QED
      BY <2>1, <3>1, <3>2, <3>3
  <2> QED
    BY <2>2, <2>3
<1> HIDE DEF S
<1>2. p \in S
  BY <1>1, StrongInduction
<1> QED
  BY <1>2 DEF S

-------------------------------------------------------------------------------
(* Sinking *)

\* A vacancy with a child below it moves to a child.
LEMMA RiserFacts ==
  ASSUME NEW q, NEW key, NEW n \in Nat, NEW p \in Nat \ {0}
  PROVE  /\ Riser(q, key, n, p) \in Nat \ {0, 1}
         /\ Riser(q, key, n, p) \div 2 = p
         /\ p < Riser(q, key, n, p)
         /\ 2 * p <= n => Riser(q, key, n, p) \in 2..n
         /\ 2 * p > n => Riser(q, key, n, p) > n
BY DEF Riser

\* The positions the vacancy passes through: each but the top is the child that
\* moved up to the one before it, and a position with a child is not the last.
LEMMA DescentFacts ==
  ASSUME NEW q, NEW key, NEW n \in Nat \ {0}
  PROVE  /\ Descent(q, key, n) \subseteq 1..n
         /\ 1 \in Descent(q, key, n)
         /\ \A p \in Descent(q, key, n) : p # 1 =>
              p \div 2 \in Descent(q, key, n) /\ p = Riser(q, key, n, p \div 2)
         /\ \A p \in Descent(q, key, n) : 2 * p <= n =>
              Riser(q, key, n, p) \in Descent(q, key, n)
<1> DEFINE D == Descent(q, key, n)
<1>1. D \subseteq 1..n
  BY DEF Descent
<1>2. \A p \in 1..n : p \in D <=> \A r \in PathToTop[p] \ {1} : r = Riser(q, key, n, r \div 2)
  BY DEF Descent
<1>3. PathToTop[1] = {1}
  BY PathDef
<1>4. \A p \in 1..n : p \in PathToTop[p] /\ (p # 1 => PathToTop[p \div 2] \subseteq PathToTop[p])
  <2> SUFFICES ASSUME NEW p \in 1..n
               PROVE  p \in PathToTop[p] /\ PathToTop[p \div 2] \subseteq PathToTop[p]
    OBVIOUS
  <2>1. PathToTop[p] = {p} \cup PathToTop[p \div 2]
    BY PathDef
  <2> QED
    BY <2>1
<1> HIDE DEF D
<1>5. 1 \in D
  BY <1>2, <1>3
<1>6. ASSUME NEW p \in D, p # 1 PROVE p \div 2 \in D /\ p = Riser(q, key, n, p \div 2)
  <2>1. p \in 1..n /\ p \div 2 \in 1..n
    BY <1>1, <1>6
  <2>2. PathToTop[p \div 2] \subseteq PathToTop[p] /\ p \in PathToTop[p]
    BY <1>4, <1>6, <2>1
  <2>3. \A r \in PathToTop[p] \ {1} : r = Riser(q, key, n, r \div 2)
    BY <1>2, <2>1
  <2>4. \A r \in PathToTop[p \div 2] \ {1} : r = Riser(q, key, n, r \div 2)
    BY <2>2, <2>3
  <2>5. p \div 2 \in D
    BY <1>2, <2>1, <2>4
  <2> QED
    BY <1>6, <2>2, <2>3, <2>5
<1>7. ASSUME NEW p \in D, 2 * p <= n PROVE Riser(q, key, n, p) \in D
  <2> DEFINE z == Riser(q, key, n, p)
  <2>1. p \in 1..n
    BY <1>1
  <2>2. z \in 2..n /\ z \div 2 = p
    BY <1>7, <2>1, RiserFacts
  <2>3. \A r \in PathToTop[p] \ {1} : r = Riser(q, key, n, r \div 2)
    BY <1>2, <2>1
  <2> HIDE DEF z
  <2>4. PathToTop[z] = {z} \cup PathToTop[p]
    BY <2>2, PathDef
  <2>5. z = Riser(q, key, n, z \div 2)
    BY <2>2 DEF z
  <2>6. \A r \in PathToTop[z] \ {1} : r = Riser(q, key, n, r \div 2)
    BY <2>3, <2>4, <2>5
  <2>7. z \in D
    BY <1>2, <2>2, <2>6
  <2> QED
    BY <2>7 DEF z
<1> QED
  BY <1>1, <1>5, <1>6, <1>7 DEF D

\* Of two of them the lower one is below the child that moved up to the upper one.
LEMMA DescentInOrder ==
  ASSUME NEW q, NEW key, NEW n \in Nat \ {0}, NEW s \in Descent(q, key, n)
  PROVE  \A p \in Descent(q, key, n) : p < s => Riser(q, key, n, p) <= s
<1> DEFINE D == Descent(q, key, n)
           Up(p) == Riser(q, key, n, p)
           S == {m \in Nat : m \in D => \A p \in D : p < m => Up(p) <= m}
<1>1. /\ D \subseteq 1..n /\ 1 \in D
      /\ \A p \in D : p # 1 => p \div 2 \in D /\ p = Up(p \div 2)
  BY DescentFacts
<1>2. \A p \in Nat \ {0} : Up(p) \in Nat
  BY RiserFacts
<1> HIDE DEF D, Up
<1>3. ASSUME NEW m \in Nat, \A k \in 0..m - 1 : k \in S PROVE m \in S
  <2> SUFFICES ASSUME m \in D, NEW p \in D, p < m PROVE Up(p) <= m
    OBVIOUS
  <2> DEFINE h == m \div 2
  <2>1. m \in 1..n /\ p \in 1..n /\ m # 1
    BY <1>1
  <2>2. h \in D /\ m = Up(h) /\ h \in 0..m - 1 /\ h \in 1..n
    BY <1>1, <2>1
  <2>3. CASE p = h
    BY <2>1, <2>2, <2>3
  <2>4. CASE p < h
    <3>1. Up(p) <= h
      BY <1>3, <2>2, <2>4
    <3>2. Up(p) \in Nat
      BY <1>2, <2>1
    <3> QED
      BY <2>1, <2>2, <3>1, <3>2
  <2>5. CASE h < p
    <3> DEFINE g == p \div 2
    <3>1. p # 1
      BY <2>1, <2>2, <2>5
    <3>2. g \in D /\ p = Up(g) /\ g \in Nat
      BY <1>1, <2>1, <3>1
    <3>3. g <= h
      BY <2>1
    <3>4. g # h
      BY <2>1, <2>2, <3>2
    <3>5. g < h
      BY <2>2, <3>2, <3>3, <3>4
    <3> HIDE DEF g, h
    <3>6. Up(g) <= h
      BY <1>3, <2>2, <3>2, <3>5
    <3> QED
      BY <2>1, <2>2, <2>5, <3>2, <3>6
  <2> QED
    BY <2>1, <2>2, <2>3, <2>4, <2>5
<1> HIDE DEF S
<1>4. Nat \subseteq S
  BY <1>3, StrongInduction
<1>5. s \in S
  BY <1>1, <1>4 DEF D
<1> QED
  BY <1>5 DEF S, D, Up

\* Exactly one of them has no child: where the vacancy comes to rest.
LEMMA BottomExists ==
  ASSUME NEW q, NEW key, NEW n \in Nat \ {0}
  PROVE  \E b \in Descent(q, key, n) :
           2 * b > n /\ \A p \in Descent(q, key, n) : 2 * p > n <=> p = b
<1> DEFINE D == Descent(q, key, n)
           Above == {n - p : p \in D}
<1>1. /\ D \subseteq 1..n /\ 1 \in D
      /\ \A p \in D : 2 * p <= n => Riser(q, key, n, p) \in D
  BY DescentFacts
<1>2. \A s \in D : \A p \in D : p < s => Riser(q, key, n, p) <= s
  BY DescentInOrder
<1> HIDE DEF D
<1>3. \A p \in D : p < Riser(q, key, n, p) /\ (2 * p > n => Riser(q, key, n, p) > n)
      /\ Riser(q, key, n, p) \in Nat
  BY <1>1, RiserFacts
<1>4. Above \in SUBSET Nat /\ Above # {}
  BY <1>1
<1>5. PICK m \in Above : \A k \in Above : m <= k
  BY <1>4, LeastNumber
<1>6. PICK b \in D : m = n - b
  BY <1>5
<1>7. \A p \in D : n - p \in Above /\ p \in 1..n
  BY <1>1
<1> HIDE DEF Above
<1>8. \A p \in D : p <= b
  BY <1>5, <1>6, <1>7
<1>9. 2 * b > n
  BY <1>1, <1>3, <1>7, <1>8
<1>10. ASSUME NEW p \in D, 2 * p > n PROVE p = b
  <2> SUFFICES ASSUME p < b PROVE FALSE
    BY <1>7, <1>8
  <2>1. Riser(q, key, n, p) <= b /\ Riser(q, key, n, p) > n
    BY <1>2, <1>3, <1>10
  <2> QED
    BY <1>3, <1>7, <2>1
<1> QED
  BY <1>9, <1>10 DEF D

-------------------------------------------------------------------------------
(* Push and pop *)

\* A push adds its crawler and reorders the queue.
PushReorders(q, key, v) ==
  \E b \in Bijection(1..Len(q) + 1, 1..Len(q) + 1) :
    Push(q, key, v) = [r \in 1..Len(q) + 1 |-> Append(q, v)[b[r]]]

LEMMA PushPermutes ==
  ASSUME NEW C, NEW q \in Seq(C), NEW key, NEW v \in C
  PROVE  PushReorders(q, key, v)
<1> DEFINE grown == Append(q, v)
           m == Len(q) + 1
           N == 1..m
           g == Risen(grown, key, m, v)
           Val(r) == IF g[r] = m THEN v ELSE grown[g[r]]
<1>1. grown \in Seq(C) /\ Len(grown) = m /\ m \in Nat /\ m \in 1..Len(grown) /\ grown[m] = v
  OBVIOUS
<1>2. Push(q, key, v) = SiftUp(grown, key, m, v)
  BY DEF Push
<1> HIDE DEF grown, m
<1>3. SiftUp(grown, key, m, v) = [r \in N |-> Val(r)]
  BY <1>1, SiftUpReorders
<1>4. g \in Bijection(N, N)
  BY <1>1, RisenPermutes
<1> HIDE DEF g
<1>5. \A r \in N : Val(r) = grown[g[r]]
  BY <1>1
<1> HIDE DEF Val
<1>6. Push(q, key, v) = [r \in N |-> grown[g[r]]]
  BY <1>2, <1>3, <1>5
<1> QED
  BY <1>4, <1>6 DEF PushReorders, grown, m

\* Where the crawler at p comes from when the vacancy at the top has sunk to b.
Sunken(q, key, n, b) ==
  [p \in 1..n |-> IF p = b THEN n + 1
                  ELSE IF p \in Descent(q, key, n) THEN Riser(q, key, n, p) ELSE p]

\* Sinking leaves the top out and moves the last crawler into the vacancy; every
\* other crawler has one position.
LEMMA SunkenPermutes ==
  ASSUME NEW q, NEW key, NEW n \in Nat \ {0}, NEW b \in Descent(q, key, n),
         \A p \in Descent(q, key, n) : 2 * p > n <=> p = b
  PROVE  Sunken(q, key, n, b) \in Bijection(1..n, 2..n + 1)
<1> DEFINE D == Descent(q, key, n)
           Up(p) == Riser(q, key, n, p)
           N == 1..n
           M == 2..n + 1
           Val(p) == IF p = b THEN n + 1 ELSE IF p \in D THEN Up(p) ELSE p
           h == [p \in N |-> Val(p)]
<1>1. /\ D \subseteq N /\ 1 \in D
      /\ \A p \in D : p # 1 => p \div 2 \in D /\ p = Up(p \div 2)
      /\ \A p \in D : 2 * p <= n => Up(p) \in D
  BY DescentFacts
<1>2. \A p \in Nat \ {0} : Up(p) \div 2 = p /\ p < Up(p) /\ (2 * p <= n => Up(p) \in 2..n)
  BY RiserFacts
<1>3. Sunken(q, key, n, b) = h
  BY DEF Sunken
<1> HIDE DEF D, Up
<1>4. \A p \in D : p # b => Up(p) \in D /\ Up(p) \in 2..n /\ Up(p) \div 2 = p
  <2> SUFFICES ASSUME NEW p \in D, p # b
               PROVE  Up(p) \in D /\ Up(p) \in 2..n /\ Up(p) \div 2 = p
    OBVIOUS
  <2>1. p \in N /\ p \in Nat \ {0}
    BY <1>1
  <2>2. ~ (2 * p > n)
    BY DEF D
  <2>3. 2 * p <= n
    BY <2>1, <2>2
  <2> QED
    BY <1>1, <1>2, <2>1, <2>3
<1>5. ASSUME NEW p \in N PROVE Val(p) \in M
  BY <1>1, <1>4
<1>6. ASSUME NEW p \in N, NEW s \in N, Val(p) = Val(s) PROVE p = s
  <2>1. CASE p = b \/ s = b
    BY <1>4, <1>6, <2>1
  <2>2. CASE p # b /\ s # b
    BY <1>4, <1>6, <2>2
  <2> QED
    BY <2>1, <2>2
<1>7. ASSUME NEW z \in M PROVE \E p \in N : Val(p) = z
  <2>1. CASE z = n + 1
    <3>1. b \in N /\ Val(b) = z
      BY <1>1, <2>1 DEF D
    <3> QED
      BY <3>1
  <2>2. CASE z # n + 1 /\ z \notin D
    <3>1. z \in N /\ z # b /\ Val(z) = z
      BY <2>2 DEF D
    <3> QED
      BY <3>1
  <2>3. CASE z # n + 1 /\ z \in D
    <3>1. z \div 2 \in D /\ z = Up(z \div 2)
      BY <1>1, <2>3
    <3>2. z \div 2 # b
      <4>1. z \in 2..n
        BY <2>3
      <4>2. 2 * (z \div 2) <= n
        BY <4>1
      <4>3. z \div 2 \in Nat
        BY <4>1
      <4>4. ~ (2 * (z \div 2) > n)
        BY <4>2, <4>3
      <4> QED
        BY <3>1, <4>4 DEF D
    <3>3. z \div 2 \in N /\ Val(z \div 2) = z
      BY <1>1, <3>1, <3>2
    <3> QED
      BY <3>3
  <2> QED
    BY <2>1, <2>2, <2>3
<1> HIDE DEF Val
<1>8. h \in [N -> M]
  BY <1>5
<1>9. \A p, s \in N : h[p] = h[s] => p = s
  BY <1>6
<1>10. \A z \in M : \E p \in N : h[p] = z
  BY <1>7
<1> HIDE DEF h, N, M
<1>11. h \in Bijection(N, M)
  BY <1>8, <1>9, <1>10, Fun_IsBij
<1> QED
  BY <1>3, <1>11 DEF N, M

\* What a pop works on: the vacancy has sunk to b, and what was last goes there.
SinksTo(b, sunk, q, key, n) ==
  /\ b \in Descent(q, key, n) /\ 2 * b > n
  /\ \A p \in Descent(q, key, n) : 2 * p > n <=> p = b
  /\ Len(sunk) = n
  /\ \A p \in 1..n : sunk[p] = IF p \in Descent(q, key, n) /\ p # b
                               THEN q[Riser(q, key, n, p)] ELSE q[p]

PopsBySinking(C, q, key, n) ==
  \E b : \E sunk \in Seq(C) :
    SinksTo(b, sunk, q, key, n) /\ Pop(q, key) = SiftUp(sunk, key, b, q[n + 1])

LEMMA PopSteps ==
  ASSUME NEW C, NEW q \in Seq(C), NEW key, NEW n \in Nat \ {0}, n + 1 = Len(q)
  PROVE  PopsBySinking(C, q, key, n)
<1> DEFINE D == Descent(q, key, n)
           Val(p) == IF p \in D /\ 2 * p <= n THEN q[Riser(q, key, n, p)] ELSE q[p]
           sunk == [p \in 1..n |-> Val(p)]
<1>1. D \subseteq 1..n
  BY DescentFacts
<1>2. PICK b \in D : 2 * b > n /\ \A p \in D : 2 * p > n <=> p = b
  BY BottomExists
<1>3. n = Len(q) - 1 /\ n # 0
  OBVIOUS
<1>4. Pop(q, key) = SiftUp(sunk, key, CHOOSE p \in D : 2 * p > n, q[n + 1])
  BY <1>3 DEF Pop
<1>5. (CHOOSE p \in D : 2 * p > n) = b
  BY <1>2
<1> HIDE DEF D
<1>6. ASSUME NEW p \in 1..n
      PROVE  Val(p) = IF p \in D /\ p # b THEN q[Riser(q, key, n, p)] ELSE q[p]
  <2>1. p \in D => (2 * p <= n <=> p # b)
    BY <1>2
  <2> QED
    BY <2>1
<1>7. ASSUME NEW p \in 1..n PROVE Val(p) \in C
  <2>1. 2 * p <= n => Riser(q, key, n, p) \in 2..n
    BY RiserFacts
  <2>2. q[p] \in C
    OBVIOUS
  <2>3. 2 * p <= n => q[Riser(q, key, n, p)] \in C
    BY <2>1
  <2> QED
    BY <2>2, <2>3
<1> HIDE DEF Val
<1>8. sunk \in [1..n -> C]
  BY <1>7
<1>9. sunk \in Seq(C) /\ Len(sunk) = n
  BY <1>8
<1>10. \A p \in 1..n : sunk[p] = IF p \in D /\ p # b THEN q[Riser(q, key, n, p)] ELSE q[p]
  BY <1>6
<1> HIDE DEF sunk
<1>11. SinksTo(b, sunk, q, key, n)
  BY <1>2, <1>9, <1>10 DEF D, SinksTo
<1> QED
  BY <1>4, <1>5, <1>9, <1>11 DEF PopsBySinking

\* A pop takes out the top and reorders the rest.
PopReorders(q, key) ==
  \E b \in Bijection(1..Len(q) - 1, 2..Len(q)) :
    Pop(q, key) = [r \in 1..Len(q) - 1 |-> q[b[r]]]

LEMMA PopPermutes ==
  ASSUME NEW C, NEW q \in Seq(C), NEW key, q # << >>
  PROVE  PopReorders(q, key)
<1> DEFINE n == Len(q) - 1
<1>1. n \in Nat /\ n + 1 = Len(q)
  OBVIOUS
<1>2. CASE n = 0
  <2> DEFINE e == [r \in 1..0 |-> r]
  <2>1. e \in Bijection(1..0, 2..1)
    <3>1. e \in [1..0 -> 2..1]
      OBVIOUS
    <3>2. \A r, s \in 1..0 : e[r] = e[s] => r = s
      OBVIOUS
    <3>3. \A z \in 2..1 : \E r \in 1..0 : e[r] = z
      OBVIOUS
    <3> HIDE DEF e
    <3> QED
      BY <3>1, <3>2, <3>3, Fun_IsBij
  <2>2. Pop(q, key) = << >>
    BY <1>2 DEF Pop
  <2>3. << >> = [r \in 1..0 |-> q[e[r]]]
    OBVIOUS
  <2> HIDE DEF e
  <2>4. Len(q) = 1
    <3>1. Len(q) \in Nat
      OBVIOUS
    <3> QED
      BY <1>2, <3>1
  <2> QED
    BY <1>2, <2>1, <2>2, <2>3, <2>4 DEF PopReorders
<1>3. CASE n # 0
  <2> HIDE DEF n
  <2> DEFINE D == Descent(q, key, n)
  <2>1. n \in Nat \ {0}
    BY <1>1, <1>3
  <2>2. PICK b : \E sunk \in Seq(C) :
          SinksTo(b, sunk, q, key, n) /\ Pop(q, key) = SiftUp(sunk, key, b, q[n + 1])
    <3>1. PopsBySinking(C, q, key, n)
      BY <1>1, <2>1, PopSteps
    <3> QED
      BY <3>1 DEF PopsBySinking
  <2>3. PICK sunk \in Seq(C) :
          SinksTo(b, sunk, q, key, n) /\ Pop(q, key) = SiftUp(sunk, key, b, q[n + 1])
    BY <2>2
  <2>4. D \subseteq 1..n
    BY <2>1, DescentFacts
  <2> DEFINE v == q[n + 1]
             g == Risen(sunk, key, b, v)
             h == Sunken(q, key, n, b)
             c == [r \in 1..n |-> h[g[r]]]
  <2>5. h \in Bijection(1..n, 2..n + 1)
    BY <2>1, <2>3, SunkenPermutes DEF SinksTo
  <2>6. b \in 1..n /\ b \in 1..Len(sunk) /\ Len(sunk) \in Nat /\ Len(sunk) = n
    BY <2>1, <2>3, <2>4 DEF SinksTo
  <2>7. g \in Bijection(1..n, 1..n)
    BY <2>6, RisenPermutes
  <2>8. Pop(q, key) = [r \in 1..n |-> IF g[r] = b THEN v ELSE sunk[g[r]]]
    <3> HIDE DEF v
    <3>1. SiftUp(sunk, key, b, v) =
            [r \in 1..Len(sunk) |-> IF g[r] = b THEN v ELSE sunk[g[r]]]
      BY <2>6, SiftUpReorders
    <3> HIDE DEF g
    <3> QED
      BY <2>3, <2>6, <3>1 DEF v
  <2>9. \A x \in 1..n : q[h[x]] = IF x = b THEN v ELSE sunk[x]
    <3> SUFFICES ASSUME NEW x \in 1..n PROVE q[h[x]] = IF x = b THEN v ELSE sunk[x]
      OBVIOUS
    <3>1. h[x] = IF x = b THEN n + 1 ELSE IF x \in D THEN Riser(q, key, n, x) ELSE x
      BY DEF Sunken
    <3>2. sunk[x] = IF x \in D /\ x # b THEN q[Riser(q, key, n, x)] ELSE q[x]
      BY <2>3 DEF SinksTo
    <3> HIDE DEF h, D
    <3> QED
      BY <3>1, <3>2
  <2> HIDE DEF g, h, v
  <2>10. \A r \in 1..n : g[r] \in 1..n
    <3>1. g \in [1..n -> 1..n]
      BY <2>7, Fun_BijectionProperties
    <3> QED
      BY <3>1
  <2>11. Pop(q, key) = [r \in 1..n |-> q[h[g[r]]]]
    BY <2>8, <2>9, <2>10
  <2>12. c \in Bijection(1..n, 2..n + 1)
    BY <2>5, <2>7, Fun_BijTransitive
  <2>13. Pop(q, key) = [r \in 1..n |-> q[c[r]]]
    BY <2>11
  <2> HIDE DEF c
  <2>14. \E z \in Bijection(1..n, 2..n + 1) : Pop(q, key) = [r \in 1..n |-> q[z[r]]]
    BY <2>12, <2>13
  <2> QED
    BY <1>1, <2>14 DEF PopReorders, n
<1> QED
  BY <1>2, <1>3

\* What a bijection is good for.
LEMMA BijectionFacts ==
  ASSUME NEW S, NEW T, NEW b \in Bijection(S, T)
  PROVE  /\ b \in [S -> T]
         /\ \A z \in T : \E r \in S : b[r] = z
         /\ \A r, s \in S : b[r] = b[s] => r = s
BY DEF Bijection, Injection, Surjection, IsInjective

\* A push adds one crawler.
LEMMA PushType ==
  ASSUME NEW C, NEW q \in Seq(C), NEW key, NEW v \in C
  PROVE  Push(q, key, v) \in Seq(C) /\ Len(Push(q, key, v)) = Len(q) + 1
<1> DEFINE grown == Append(q, v)
<1>1. grown \in Seq(C) /\ Len(grown) = Len(q) + 1 /\ Len(q) + 1 \in 1..Len(grown)
  OBVIOUS
<1>2. Push(q, key, v) = SiftUp(grown, key, Len(q) + 1, v)
  BY DEF Push
<1> HIDE DEF grown
<1>3. SiftUp(grown, key, Len(q) + 1, v) \in Seq(C)
      /\ Len(SiftUp(grown, key, Len(q) + 1, v)) = Len(grown)
  BY <1>1, SiftUpType
<1> QED
  BY <1>1, <1>2, <1>3

\* A pop takes one crawler out.
LEMMA PopType ==
  ASSUME NEW C, NEW q \in Seq(C), NEW key, q # << >>
  PROVE  Pop(q, key) \in Seq(C) /\ Len(Pop(q, key)) = Len(q) - 1
<1>1. PICK b \in Bijection(1..Len(q) - 1, 2..Len(q)) :
        Pop(q, key) = [r \in 1..Len(q) - 1 |-> q[b[r]]]
  BY PopPermutes DEF PopReorders
<1>2. b \in [1..Len(q) - 1 -> 2..Len(q)]
  BY BijectionFacts
<1>3. Len(q) \in Nat \ {0}
  OBVIOUS
<1>4. \A r \in 1..Len(q) - 1 : q[b[r]] \in C
  BY <1>2, <1>3
<1>5. Pop(q, key) \in [1..Len(q) - 1 -> C]
  BY <1>1, <1>4
<1> QED
  BY <1>3, <1>5

\* As long as no rank changes, a push keeps the queue a heap ...
LEMMA PushHeap ==
  ASSUME NEW C, NEW q \in Seq(C), NEW key \in [C -> Nat], NEW v \in C, Heap(q, key)
  PROVE  Heap(Push(q, key, v), key)
<1> DEFINE grown == Append(q, v)
           m == Len(q) + 1
<1>1. grown \in Seq(C) /\ Len(grown) = m /\ m \in 1..m /\ 2 * m > m
  OBVIOUS
<1>2. \A r \in 2..m : r # m => key[grown[r \div 2]] <= key[grown[r]]
  <2> SUFFICES ASSUME NEW r \in 2..m, r # m PROVE key[grown[r \div 2]] <= key[grown[r]]
    OBVIOUS
  <2>1. r \in 2..Len(q) /\ r \div 2 \in 1..Len(q) /\ r \in 1..Len(q)
    OBVIOUS
  <2>2. grown[r] = q[r] /\ grown[r \div 2] = q[r \div 2]
    BY <2>1
  <2> QED
    BY <2>1, <2>2 DEF Heap
<1>3. Push(q, key, v) = SiftUp(grown, key, m, v)
  BY DEF Push
<1> HIDE DEF grown, m
<1>4. HeapBut(m, grown, key)
  BY <1>1, <1>2 DEF HeapBut
<1>5. Heap(SiftUp(grown, key, m, v), key)
  BY <1>1, <1>4, SiftUpHeap
<1> QED
  BY <1>3, <1>5

\* ... and so does a pop.
LEMMA PopHeap ==
  ASSUME NEW C, NEW q \in Seq(C), NEW key \in [C -> Nat], Heap(q, key), q # << >>
  PROVE  Heap(Pop(q, key), key)
<1> DEFINE n == Len(q) - 1
           D == Descent(q, key, n)
           Up(p) == Riser(q, key, n, p)
<1>1. n \in Nat /\ n + 1 = Len(q) /\ Len(q) \in Nat
  OBVIOUS
<1>2. CASE n = 0
  <2>1. Pop(q, key) = << >>
    BY <1>2 DEF Pop
  <2> QED
    BY <2>1 DEF Heap
<1>3. CASE n # 0
  <2> HIDE DEF n
  <2>1. n \in Nat \ {0}
    BY <1>1, <1>3
  <2>2. PopsBySinking(C, q, key, n)
    BY <1>1, <2>1, PopSteps
  <2>3. PICK b : \E sunk \in Seq(C) :
          SinksTo(b, sunk, q, key, n) /\ Pop(q, key) = SiftUp(sunk, key, b, q[n + 1])
    BY <2>2 DEF PopsBySinking
  <2>4. PICK sunk \in Seq(C) :
          SinksTo(b, sunk, q, key, n) /\ Pop(q, key) = SiftUp(sunk, key, b, q[n + 1])
    BY <2>3
  <2>5. /\ b \in D /\ 2 * b > n /\ Len(sunk) = n
        /\ \A p \in D : 2 * p > n <=> p = b
        /\ \A p \in 1..n : sunk[p] = IF p \in D /\ p # b THEN q[Up(p)] ELSE q[p]
    BY <2>4 DEF SinksTo
  <2>6. /\ D \subseteq 1..n
        /\ \A p \in D : p # 1 => p \div 2 \in D /\ p = Up(p \div 2)
    BY <2>1, DescentFacts
  <2>7. \A p \in 1..n : 2 * p <= n => Up(p) \in 2..n /\ Up(p) \div 2 = p
    BY <2>1, RiserFacts
  <2>8. \A r \in 1..n : q[r] \in C /\ key[q[r]] \in Nat
    BY <1>1
  <2>9. ASSUME NEW h \in 1..n, NEW r \in 2..n, r \div 2 = h PROVE key[q[Up(h)]] <= key[q[r]]
    <3> DEFINE k(x) == key[q[x]]
    <3>1. r = 2 * h \/ r = 2 * h + 1
      BY <2>9
    <3>2. \A x \in 1..n : k(x) \in Nat
      BY <2>8
    <3>3. Up(h) = IF 2 * h + 1 <= n /\ ~ (k(2 * h + 1) > k(2 * h)) THEN 2 * h + 1 ELSE 2 * h
      BY DEF Riser
    <3> HIDE DEF k, Up
    <3>4. CASE 2 * h + 1 <= n
      <4>1. k(2 * h + 1) \in Nat /\ k(2 * h) \in Nat
        BY <2>1, <3>2, <3>4
      <4>2. k(Up(h)) <= k(2 * h) /\ k(Up(h)) <= k(2 * h + 1)
        <5>1. CASE k(2 * h + 1) > k(2 * h)
          BY <3>3, <4>1, <5>1
        <5>2. CASE ~ (k(2 * h + 1) > k(2 * h))
          BY <3>3, <3>4, <4>1, <5>2
        <5> QED
          BY <5>1, <5>2
      <4>3. k(Up(h)) <= k(r)
        BY <3>1, <4>2
      <4> QED
        BY <4>3 DEF k
    <3>5. CASE ~ (2 * h + 1 <= n)
      <4>1. Up(h) = 2 * h
        BY <3>3, <3>5
      <4>2. r = 2 * h
        BY <2>1, <3>1, <3>5
      <4>3. k(Up(h)) <= k(r)
        BY <3>2, <4>1, <4>2
      <4> QED
        BY <4>3 DEF k
    <3> QED
      BY <3>4, <3>5
  <2> HIDE DEF D, Up
  <2>10. ASSUME NEW r \in 2..n, r # b PROVE key[sunk[r \div 2]] <= key[sunk[r]]
    <3> DEFINE h == r \div 2
    <3>1. h \in 1..n /\ r \in 1..n /\ r \in 2..Len(q) /\ 2 * h <= n
      BY <1>1
    <3>2. CASE h \in D
      <4>1. h # b
        BY <2>1, <2>5, <3>1
      <4>2. sunk[h] = q[Up(h)]
        BY <2>5, <3>1, <3>2, <4>1
      <4>3. CASE r \in D
        <5>1. sunk[r] = q[Up(r)]
          BY <2>5, <2>10, <3>1, <4>3
        <5>2. Up(h) = r
          BY <2>6, <4>3
        <5>3. ~ (2 * r > n)
          BY <2>5, <2>10, <4>3
        <5>4. 2 * r <= n
          BY <2>1, <5>3
        <5>5. Up(r) \in 2..n /\ Up(r) \div 2 = r
          BY <2>7, <3>1, <5>4
        <5>6. Up(r) \in 2..Len(q)
          BY <1>1, <2>1, <5>5
        <5>7. key[q[r]] <= key[q[Up(r)]]
          BY <5>5, <5>6 DEF Heap
        <5> QED
          BY <4>2, <5>1, <5>2, <5>7
      <4>4. CASE r \notin D
        <5>1. sunk[r] = q[r]
          BY <2>5, <3>1, <4>4
        <5> QED
          BY <2>9, <3>1, <4>2, <5>1
      <4> QED
        BY <4>3, <4>4
    <3>3. CASE h \notin D
      <4>1. r \notin D
        BY <2>6, <3>3
      <4>2. sunk[h] = q[h] /\ sunk[r] = q[r]
        BY <2>5, <3>1, <3>3, <4>1
      <4> QED
        BY <3>1, <4>2 DEF Heap
    <3> QED
      BY <3>2, <3>3
  <2>11. b \in 1..Len(sunk) /\ 2 * b > Len(sunk) /\ q[n + 1] \in C
    BY <1>1, <2>5, <2>6
  <2>12. HeapBut(b, sunk, key)
    BY <2>5, <2>10 DEF HeapBut
  <2>13. Heap(SiftUp(sunk, key, b, q[n + 1]), key)
    BY <2>11, <2>12, SiftUpHeap
  <2> QED
    BY <2>4, <2>13
<1> QED
  BY <1>2, <1>3

-------------------------------------------------------------------------------
(* Who is queued *)

Queued(q) == {q[p] : p \in 1..Len(q)}
Once(q) == \A i, j \in 1..Len(q) : q[i] = q[j] => i = j

\* A push adds its crawler and loses none; one that was not queued is queued once.
LEMMA PushQueues ==
  ASSUME NEW C, NEW q \in Seq(C), NEW key, NEW v \in C
  PROVE  /\ Queued(Push(q, key, v)) = Queued(q) \cup {v}
         /\ Once(q) /\ v \notin Queued(q) => Once(Push(q, key, v))
<1> DEFINE m == Len(q) + 1
           N == 1..m
           grown == Append(q, v)
           pushed == Push(q, key, v)
<1>1. \E b \in Bijection(N, N) : pushed = [r \in N |-> grown[b[r]]]
  <2>1. PushReorders(q, key, v)
    BY PushPermutes
  <2> QED
    BY <2>1 DEF PushReorders
<1> HIDE DEF N, grown, pushed
<1>2. PICK b \in Bijection(N, N) : pushed = [r \in N |-> grown[b[r]]]
  BY <1>1
<1>3. b \in [N -> N] /\ \A z \in N : \E r \in N : b[r] = z
  BY BijectionFacts
<1>4. \A r, s \in N : b[r] = b[s] => r = s
  BY BijectionFacts
<1> USE DEF N, grown, pushed
<1>5. Len(q) \in Nat /\ Len(pushed) = m
  BY PushType
<1>6. \A r \in N : pushed[r] = grown[b[r]]
  BY <1>2
<1>7. \A r \in 1..Len(q) : grown[r] = q[r]
  OBVIOUS
<1>8. grown[m] = v
  OBVIOUS
<1>9. m \in N /\ N = 1..Len(q) \cup {m} /\ m \notin 1..Len(q)
  BY <1>5
<1> HIDE DEF grown, pushed, N, m
<1>10. Queued(pushed) = {grown[z] : z \in N}
  <2>1. Queued(pushed) = {pushed[r] : r \in N}
    BY <1>5 DEF Queued, N
  <2> QED
    BY <1>3, <1>6, <2>1
<1>11. {grown[z] : z \in N} = Queued(q) \cup {v}
  BY <1>7, <1>8, <1>9 DEF Queued
<1>12. ASSUME Once(q), v \notin Queued(q), NEW r \in N, NEW s \in N, pushed[r] = pushed[s]
       PROVE  r = s
  <2>1. \A x, y \in N : grown[x] = grown[y] => x = y
    BY <1>7, <1>8, <1>9, <1>12 DEF Once, Queued
  <2>2. b[r] \in N /\ b[s] \in N /\ grown[b[r]] = grown[b[s]]
    BY <1>3, <1>6, <1>12
  <2> QED
    BY <1>4, <2>1, <2>2
<1>13. Once(q) /\ v \notin Queued(q) => Once(pushed)
  BY <1>5, <1>12 DEF Once, N
<1> QED
  BY <1>10, <1>11, <1>13 DEF pushed

\* A pop takes out the top, and loses no other.
LEMMA PopQueues ==
  ASSUME NEW C, NEW q \in Seq(C), NEW key, q # << >>
  PROVE  /\ Queued(Pop(q, key)) = {q[p] : p \in 2..Len(q)}
         /\ Once(q) => Once(Pop(q, key)) /\ Queued(Pop(q, key)) = Queued(q) \ {q[1]}
<1> DEFINE N == 1..Len(q) - 1
           M == 2..Len(q)
           popped == Pop(q, key)
<1>1. \E b \in Bijection(N, M) : popped = [r \in N |-> q[b[r]]]
  <2>1. PopReorders(q, key)
    BY PopPermutes
  <2> QED
    BY <2>1 DEF PopReorders
<1> HIDE DEF N, M, popped
<1>2. PICK b \in Bijection(N, M) : popped = [r \in N |-> q[b[r]]]
  BY <1>1
<1>3. b \in [N -> M] /\ \A z \in M : \E r \in N : b[r] = z
  BY BijectionFacts
<1>4. \A r, s \in N : b[r] = b[s] => r = s
  BY BijectionFacts
<1> USE DEF N, M, popped
<1>5. Len(q) \in Nat \ {0} /\ Len(popped) = Len(q) - 1
  BY PopType
<1>6. \A r \in N : popped[r] = q[b[r]]
  BY <1>2
<1>7. 1..Len(q) = {1} \cup M /\ 1 \notin M
  BY <1>5
<1> HIDE DEF popped, N, M
<1>8. Queued(popped) = {q[p] : p \in M}
  <2>1. Queued(popped) = {popped[r] : r \in N}
    BY <1>5 DEF Queued, N
  <2> QED
    BY <1>3, <1>6, <2>1
<1>9. ASSUME Once(q), NEW r \in N, NEW s \in N, popped[r] = popped[s] PROVE r = s
  <2>1. b[r] \in M /\ b[s] \in M /\ q[b[r]] = q[b[s]]
    BY <1>3, <1>6, <1>9
  <2> QED
    BY <1>4, <1>7, <1>9, <2>1 DEF Once
<1>10. Once(q) => Once(popped)
  BY <1>5, <1>9 DEF Once, N
<1>11. Once(q) => {q[p] : p \in M} = Queued(q) \ {q[1]}
  BY <1>7 DEF Once, Queued
<1> QED
  BY <1>8, <1>10, <1>11 DEF popped, M

\* A crawler that does not rank above the top does not displace it.
LEMMA PushKeepsTop ==
  ASSUME NEW C, NEW q \in Seq(C), NEW key, NEW v \in C, q # << >>,
         ~ (key[q[1]] > key[v])
  PROVE  Push(q, key, v)[1] = q[1]
<1> DEFINE m == Len(q) + 1
           grown == Append(q, v)
           R == Reached(grown, key, m, v)
<1>1. Len(q) \in Nat \ {0} /\ Len(grown) = m /\ m \in Nat \ {0} /\ 1 \in 1..m /\ 1 < m
      /\ grown[1] = q[1]
  OBVIOUS
<1>2. 1 \in PathToTop[m]
  BY <1>1, PathFacts
<1>3. Push(q, key, v) = [r \in 1..m |-> IF r \in R THEN IF r \div 2 \in R THEN grown[r \div 2] ELSE v
                                         ELSE grown[r]]
  BY <1>1 DEF Push, SiftUp
<1>4. 1 \notin R
  BY <1>1, <1>2 DEF Reached
<1> HIDE DEF R, grown, m
<1> QED
  BY <1>1, <1>3, <1>4


-------------------------------------------------------------------------------
(* A queue whose ranks changed while it stood *)

\* Up to four crawlers a pop orders all of the queue, whatever order it was in: the
\* vacancy moves between the only position with children and its children.
LEMMA PopOrdersFew ==
  ASSUME NEW C, NEW q \in Seq(C), NEW key \in [C -> Nat], Len(q) \in 1..4
  PROVE  Heap(Pop(q, key), key)
<1> DEFINE n == Len(q) - 1
           D == Descent(q, key, n)
<1>1. n \in 0..3 /\ n + 1 = Len(q)
  OBVIOUS
<1>2. CASE n = 0
  <2>1. Pop(q, key) = << >>
    BY <1>2 DEF Pop
  <2> QED
    BY <2>1 DEF Heap
<1>3. CASE n # 0
  <2>1. \A p \in 1..n + 1 : q[p] \in C /\ key[q[p]] \in Nat
    BY <1>1
  <2> HIDE DEF n
  <2>2. n \in Nat \ {0} /\ n \in 1..3
    BY <1>1, <1>3
  <2>3. PopsBySinking(C, q, key, n)
    BY <1>1, <2>2, PopSteps
  <2>a. PICK b : \E sunk \in Seq(C) :
          SinksTo(b, sunk, q, key, n) /\ Pop(q, key) = SiftUp(sunk, key, b, q[n + 1])
    BY <2>3 DEF PopsBySinking
  <2>4. PICK sunk \in Seq(C) :
          SinksTo(b, sunk, q, key, n) /\ Pop(q, key) = SiftUp(sunk, key, b, q[n + 1])
    BY <2>a
  <2>5. /\ b \in D /\ 2 * b > n /\ Len(sunk) = n
        /\ \A p \in D : 2 * p > n <=> p = b
        /\ \A p \in 1..n : sunk[p] = IF p \in D /\ p # b THEN q[Riser(q, key, n, p)] ELSE q[p]
    BY <2>4 DEF SinksTo
  <2>6. /\ D \subseteq 1..n /\ 1 \in D
        /\ \A p \in D : p # 1 => p = Riser(q, key, n, p \div 2)
    BY <2>2, DescentFacts
  <2> DEFINE s == Riser(q, key, n, 1)
  <2> HIDE DEF D
  <2>7. HeapBut(b, sunk, key)
    <3> SUFFICES ASSUME NEW r \in 2..n, r # b PROVE key[sunk[r \div 2]] <= key[sunk[r]]
      BY <2>5 DEF HeapBut
    <3>1. r \div 2 = 1 /\ r \in 1..n /\ 1 \in 1..n /\ n \in {2, 3}
      BY <2>2
    <3>2. r \notin D
      <4>1. r \in D => 2 * r > n
        BY <3>1
      <4> QED
        BY <2>5, <4>1
    <3>3. b # 1
      BY <2>5, <3>1
    <3>4. sunk[1] = q[s] /\ sunk[r] = q[r]
      BY <2>5, <2>6, <3>1, <3>2, <3>3
    <3>5. b = s
      <4>1. b \in 2..n /\ b \div 2 = 1
        BY <2>2, <2>5, <2>6, <3>3
      <4> QED
        BY <2>5, <2>6, <3>3, <4>1
    <3>6. n = 3 /\ s = IF ~(key[q[3]] > key[q[2]]) THEN 3 ELSE 2
      <4>1. b \in 2..n /\ r \in 2..n /\ r # b
        BY <2>2, <2>5, <2>6, <3>3
      <4>2. n = 3
        BY <3>1, <4>1
      <4> QED
        BY <4>2 DEF Riser
    <3>7. key[q[2]] \in Nat /\ key[q[3]] \in Nat
      BY <2>1, <3>6
    <3>8. r \in {2, 3}
      BY <3>6
    <3>9. key[q[s]] <= key[q[r]]
      <4>1. CASE key[q[3]] > key[q[2]]
        <5>1. s = 2 /\ r = 3
          BY <3>5, <3>6, <3>8, <4>1
        <5> HIDE DEF s
        <5> QED
          BY <3>7, <4>1, <5>1
      <4>2. CASE ~(key[q[3]] > key[q[2]])
        <5>1. s = 3 /\ r = 2
          BY <3>5, <3>6, <3>8, <4>2
        <5> HIDE DEF s
        <5> QED
          BY <3>7, <4>2, <5>1
      <4> QED
        BY <4>1, <4>2
    <3> HIDE DEF s
    <3> QED
      BY <3>1, <3>4, <3>9
  <2>8. b \in 1..Len(sunk) /\ 2 * b > Len(sunk)
    BY <2>5, <2>6
  <2>9. q[n + 1] \in C
    BY <2>1, <2>2
  <2> QED
    BY <2>4, <2>7, <2>8, <2>9, SiftUpHeap
<1> QED
  BY <1>1, <1>2, <1>3

\* A queue has as many positions as crawlers, when each is in it once.
LEMMA OnceQueued ==
  ASSUME NEW C, NEW q \in Seq(C), Once(q)
  PROVE  IsFiniteSet(Queued(q)) /\ Cardinality(Queued(q)) = Len(q)
<1>1. Len(q) \in Nat
  OBVIOUS
<1> DEFINE N == 1..Len(q)
           f == [p \in N |-> q[p]]
<1>2. f \in Bijection(N, Queued(q))
  <2>1. f \in [N -> Queued(q)]
    BY DEF Queued
  <2>2. \A z \in Queued(q) : \E p \in N : f[p] = z
    BY DEF Queued
  <2>3. \A i, j \in N : f[i] = f[j] => i = j
    BY DEF Once
  <2> HIDE DEF f
  <2> QED
    BY <2>1, <2>2, <2>3 DEF Bijection, Injection, Surjection, IsInjective
<1>3. ExistsBijection(N, Queued(q))
  BY <1>2 DEF ExistsBijection
<1>4. IsFiniteSet(N) /\ Cardinality(N) = Len(q)
  BY <1>1, FS_Interval
<1> QED
  BY <1>3, <1>4, FS_Bijection

===============================================================================
