------------------------- MODULE ChunkManager_proofs -------------------------
(***************************************************************************)
(* The chunks of one block size, for any number and size of blocks: their  *)
(* free lists list the blocks without an owner, and what the manager       *)
(* remembers of them fits.                                                 *)
(***************************************************************************)
EXTENDS ChunkManager, Lemmas

-------------------------------------------------------------------------------
(* Chunks *)

\* A chunk has at least one block.
LEMMA BlocksType == Blocks \in Nat \ {0}
<1> DEFINE q == PageSize \div BlockSize
           n == q % ByteRange
<1>1. q \in Int
  BY SizeAssumption
<1> HIDE DEF q
<1>2. n \in Int
  BY <1>1, BlockAssumption
<1> HIDE DEF n
<1>3. Blocks = IF n > MaxBlocks THEN MaxBlocks ELSE IF n < MinBlocks THEN MinBlocks ELSE n
  BY DEF Blocks, n, q
<1> QED
  BY <1>2, <1>3, BlockAssumption

\* The indices of a chunk are finitely many.
LEMMA IndexFinite ==
  /\ IsFiniteSet(Index) /\ Cardinality(Index) = Blocks
  /\ \A F \in SUBSET Index : IsFiniteSet(F) /\ Cardinality(F) \in 0 .. Blocks
  /\ \A F \in SUBSET Index : Cardinality(F) = Blocks => F = Index
<1>1. 0 \in Int /\ Blocks - 1 \in Int /\ 0 <= Blocks - 1
  BY BlocksType
<1>2. IsFiniteSet(Index) /\ Cardinality(Index) = Blocks
  BY <1>1, BlocksType, FS_Interval DEF Index
<1>3. ASSUME NEW F \in SUBSET Index
      PROVE  /\ IsFiniteSet(F) /\ Cardinality(F) \in 0 .. Blocks
             /\ Cardinality(F) = Blocks => F = Index
  <2>1. IsFiniteSet(F) /\ Cardinality(F) <= Cardinality(Index)
        /\ (Cardinality(F) = Cardinality(Index) => F = Index)
    BY <1>2, FS_Subset
  <2>2. Cardinality(F) \in Nat
    BY <2>1, FS_CardinalityType
  <2> QED
    BY <2>1, <2>2, <1>2, BlocksType
<1> QED
  BY <1>2, <1>3

\* A list of the free blocks exists.
Listed(c, free) == \E s \in [1 .. c.available -> Index] : IsFreeList(c, s, free)

\* The head of the list is handed out, and the list goes on behind it.
LEMMA TakeListed ==
  ASSUME NEW c \in ChunkRecord, NEW F \in SUBSET Index, Listed(c, F), ~Full(c)
  PROVE  /\ c.next \in F
         /\ TakeBlock(c) \in ChunkRecord
         /\ TakeBlock(c).available = c.available - 1 /\ TakeBlock(c).mem = c.mem
         /\ Listed(TakeBlock(c), F \ {c.next})
<1> DEFINE d == TakeBlock(c)
<1>1. PICK s \in [1 .. c.available -> Index] : IsFreeList(c, s, F)
  BY DEF Listed
<1>2. c.available \in Nat \ {0} /\ c.available <= Blocks
  BY BlocksType DEF Full, ChunkRecord
<1>3. s[1] = c.next /\ c.next \in Index /\ c.next \in F
  BY <1>1, <1>2 DEF IsFreeList
<1>4. d = [c EXCEPT !.next = c.first[c.next], !.first[c.next] = Junk, !.available = c.available - 1]
  BY DEF TakeBlock
<1>5. /\ d.available = c.available - 1 /\ d.mem = c.mem /\ d.next = c.first[c.next]
      /\ d.first = [c.first EXCEPT ![c.next] = Junk]
  BY <1>4 DEF ChunkRecord
<1>6. d \in ChunkRecord
  <2>1. d.available \in 0 .. Blocks
    BY <1>2, <1>5, BlocksType
  <2>2. c.first \in [Index -> Byte] /\ Junk \in Byte
    BY DEF ChunkRecord, Byte
  <2>3. d.next \in Byte /\ d.first \in [Index -> Byte]
    BY <1>3, <1>5, <2>2
  <2> QED
    BY <1>4, <1>5, <2>1, <2>3 DEF ChunkRecord
<1> HIDE DEF d
<1> DEFINE t == [x \in 1 .. d.available |-> s[x + 1]]
<1>7. \A x \in 1 .. d.available : x + 1 \in 1 .. c.available /\ t[x] = s[x + 1]
  BY <1>2, <1>5
<1>8. t \in [1 .. d.available -> Index]
  BY <1>1, <1>7
<1>9. \A x, y \in 1 .. c.available : s[x] = s[y] => x = y
  BY <1>1 DEF IsFreeList
<1> HIDE DEF t
<1>10. IsFreeList(d, t, F \ {c.next})
  <2>1. d.available = Cardinality(F \ {c.next})
    <3>1. IsFiniteSet(F) /\ c.available = Cardinality(F)
      BY <1>1, IndexFinite DEF IsFreeList
    <3>2. Cardinality(F \ {c.next}) = Cardinality(F) - 1
      BY <3>1, <1>3, FS_RemoveElement
    <3> QED
      BY <3>1, <3>2, <1>5
  <2>2. \A x, y \in 1 .. d.available : t[x] = t[y] => x = y
    BY <1>7, <1>9, <1>2, <1>5
  <2>3. d.available > 0 => t[1] = d.next
    <3> SUFFICES ASSUME d.available > 0 PROVE t[1] = d.next
      OBVIOUS
    <3>1. 1 \in 1 .. c.available - 1 /\ 1 \in 1 .. d.available
      BY <1>2, <1>5
    <3>2. c.first[s[1]] = s[1 + 1]
      BY <3>1, <1>1 DEF IsFreeList
    <3> QED
      BY <3>1, <3>2, <1>3, <1>5, <1>7
  <2>4. \A x \in 1 .. d.available - 1 : d.first[t[x]] = t[x + 1]
    <3> SUFFICES ASSUME NEW x \in 1 .. d.available - 1 PROVE d.first[t[x]] = t[x + 1]
      OBVIOUS
    <3>1. /\ x \in 1 .. d.available /\ x + 1 \in 1 .. d.available
          /\ x + 1 \in 1 .. c.available - 1 /\ x + 1 # 1 /\ 1 \in 1 .. c.available
      BY <1>2, <1>5
    <3>2. c.first[s[x + 1]] = s[(x + 1) + 1]
      BY <3>1, <1>1 DEF IsFreeList
    <3>3. s[x + 1] # c.next /\ s[x + 1] \in Index
      BY <3>1, <1>3, <1>7, <1>9, <1>1
    <3>4. d.first[s[x + 1]] = c.first[s[x + 1]]
      BY <3>3, <1>5 DEF ChunkRecord
    <3> QED
      BY <3>1, <3>2, <3>4, <1>7
  <2>5. {t[x] : x \in 1 .. d.available} = F \ {c.next}
    <3>1. F = {s[x] : x \in 1 .. c.available}
      BY <1>1 DEF IsFreeList
    <3>2. ASSUME NEW x \in 1 .. d.available PROVE t[x] \in F \ {c.next}
      <4>1. x + 1 \in 1 .. c.available /\ t[x] = s[x + 1] /\ x + 1 # 1 /\ 1 \in 1 .. c.available
        BY <1>7, <1>2
      <4>2. s[x + 1] # s[1]
        BY <4>1, <1>9
      <4> QED
        BY <4>1, <4>2, <3>1, <1>3
    <3>3. ASSUME NEW k \in F \ {c.next} PROVE \E x \in 1 .. d.available : t[x] = k
      <4>1. PICK y \in 1 .. c.available : k = s[y]
        BY <3>1
      <4>2. y # 1
        BY <4>1, <1>3
      <4>3. y - 1 \in 1 .. d.available /\ (y - 1) + 1 = y
        BY <4>1, <4>2, <1>2, <1>5
      <4>4. t[y - 1] = s[y]
        BY <4>3, <1>7
      <4> QED
        BY <4>1, <4>3, <4>4
    <3> QED
      BY <3>2, <3>3
  <2> QED
    BY <2>1, <2>2, <2>3, <2>4, <2>5, <1>8 DEF IsFreeList
<1>11. Listed(d, F \ {c.next})
  BY <1>8, <1>10 DEF Listed
<1> QED
  BY <1>3, <1>5, <1>6, <1>11 DEF d

\* A block that comes back is the new head of the list.
LEMMA PutListed ==
  ASSUME NEW c \in ChunkRecord, NEW F \in SUBSET Index, Listed(c, F),
         NEW k \in Index \ F
  PROVE  /\ PutBlock(c, k) \in ChunkRecord
         /\ PutBlock(c, k).available = c.available + 1 /\ PutBlock(c, k).mem = c.mem
         /\ Listed(PutBlock(c, k), F \cup {k})
<1> DEFINE d == PutBlock(c, k)
<1>1. PICK s \in [1 .. c.available -> Index] : IsFreeList(c, s, F)
  BY DEF Listed
<1>2. c.available \in Nat /\ c.available = Cardinality(F) /\ IsFiniteSet(F)
  BY <1>1, IndexFinite, BlocksType DEF IsFreeList, ChunkRecord
<1>3. Cardinality(F \cup {k}) = c.available + 1
  BY <1>2, FS_AddElement
<1>4. c.available + 1 \in 0 .. Blocks
  <2>1. F \cup {k} \in SUBSET Index
    OBVIOUS
  <2> QED
    BY <2>1, <1>3, IndexFinite
<1>5. d = [c EXCEPT !.first[k] = c.next, !.next = k, !.available = c.available + 1]
  BY DEF PutBlock
<1>6. /\ d.available = c.available + 1 /\ d.mem = c.mem /\ d.next = k
      /\ d.first = [c.first EXCEPT ![k] = c.next]
  BY <1>5 DEF ChunkRecord
<1>7. d \in ChunkRecord
  <2>1. c.first \in [Index -> Byte] /\ c.next \in Byte /\ k \in Byte
    BY DEF ChunkRecord, Byte
  <2>2. d.next \in Byte /\ d.first \in [Index -> Byte]
    BY <1>6, <2>1
  <2> QED
    BY <1>4, <1>5, <1>6, <2>2 DEF ChunkRecord
<1> HIDE DEF d
<1> DEFINE t == [x \in 1 .. d.available |-> IF x = 1 THEN k ELSE s[x - 1]]
<1>8. /\ 1 \in 1 .. d.available /\ t[1] = k
      /\ \A x \in 1 .. d.available : x # 1 => x - 1 \in 1 .. c.available /\ t[x] = s[x - 1]
  BY <1>2, <1>6
<1>9. t \in [1 .. d.available -> Index]
  <2>1. \A x \in 1 .. d.available : (IF x = 1 THEN k ELSE s[x - 1]) \in Index
    BY <1>1, <1>8
  <2> QED
    BY <2>1
<1>10. \A x \in 1 .. c.available : s[x] \in F
  BY <1>1 DEF IsFreeList
<1> HIDE DEF t
<1>11. IsFreeList(d, t, F \cup {k})
  <2>1. d.available = Cardinality(F \cup {k})
    BY <1>3, <1>6
  <2>2. \A x, y \in 1 .. d.available : t[x] = t[y] => x = y
    <3> SUFFICES ASSUME NEW x \in 1 .. d.available, NEW y \in 1 .. d.available, t[x] = t[y], x # y
                 PROVE  FALSE
      OBVIOUS
    <3>1. CASE x = 1
      BY <3>1, <1>8, <1>10
    <3>2. CASE y = 1
      BY <3>2, <1>8, <1>10
    <3>3. CASE x # 1 /\ y # 1
      <4>1. s[x - 1] = s[y - 1] /\ x - 1 \in 1 .. c.available /\ y - 1 \in 1 .. c.available
        BY <3>3, <1>8
      <4>2. x - 1 = y - 1
        BY <4>1, <1>1 DEF IsFreeList
      <4> QED
        BY <4>2
    <3> QED
      BY <3>1, <3>2, <3>3
  <2>3. t[1] = d.next
    BY <1>6, <1>8
  <2>4. \A x \in 1 .. d.available - 1 : d.first[t[x]] = t[x + 1]
    <3> SUFFICES ASSUME NEW x \in 1 .. d.available - 1 PROVE d.first[t[x]] = t[x + 1]
      OBVIOUS
    <3>1. /\ x \in 1 .. d.available /\ x + 1 \in 1 .. d.available /\ x + 1 # 1
          /\ x \in 1 .. c.available /\ (x + 1) - 1 = x
      BY <1>2, <1>6
    <3>2. t[x + 1] = s[x]
      BY <3>1, <1>8
    <3>3. CASE x = 1
      <4>1. c.available > 0
        BY <3>1, <1>2
      <4>2. s[1] = c.next
        BY <4>1, <1>1 DEF IsFreeList
      <4>3. d.first[k] = c.next
        BY <1>6 DEF ChunkRecord
      <4> QED
        BY <3>2, <3>3, <4>2, <4>3, <1>8
    <3>4. CASE x # 1
      <4>1. t[x] = s[x - 1] /\ x - 1 \in 1 .. c.available - 1 /\ (x - 1) + 1 = x
            /\ x - 1 \in 1 .. c.available
        BY <3>1, <3>4, <1>2, <1>6, <1>8
      <4>2. c.first[s[x - 1]] = s[x]
        BY <4>1, <1>1 DEF IsFreeList
      <4>3. s[x - 1] # k /\ s[x - 1] \in Index
        BY <4>1, <1>10
      <4>4. d.first[s[x - 1]] = c.first[s[x - 1]]
        BY <4>3, <1>6 DEF ChunkRecord
      <4> QED
        BY <3>2, <4>1, <4>2, <4>4
    <3> QED
      BY <3>3, <3>4
  <2>5. {t[x] : x \in 1 .. d.available} = F \cup {k}
    <3>1. F = {s[x] : x \in 1 .. c.available}
      BY <1>1 DEF IsFreeList
    <3>2. ASSUME NEW x \in 1 .. d.available PROVE t[x] \in F \cup {k}
      BY <1>8, <1>10
    <3>3. ASSUME NEW j \in F \cup {k} PROVE \E x \in 1 .. d.available : t[x] = j
      <4>1. CASE j = k
        BY <4>1, <1>8
      <4>2. CASE j \in F
        <5>1. PICK y \in 1 .. c.available : j = s[y]
          BY <4>2, <3>1
        <5>2. y + 1 \in 1 .. d.available /\ y + 1 # 1 /\ (y + 1) - 1 = y
          BY <5>1, <1>2, <1>6
        <5>3. t[y + 1] = s[y]
          BY <5>2, <1>8
        <5> QED
          BY <5>1, <5>2, <5>3
      <4> QED
        BY <4>1, <4>2
    <3> QED
      BY <3>2, <3>3
  <2> QED
    BY <2>1, <2>2, <2>3, <2>4, <2>5, <1>9 DEF IsFreeList
<1>12. Listed(d, F \cup {k})
  BY <1>9, <1>11 DEF Listed
<1> QED
  BY <1>6, <1>7, <1>12 DEF d

\* In a new chunk the blocks are listed in the order they lie in.
LEMMA ReserveListed ==
  ASSUME NEW a \in Memory
  PROVE  /\ ReserveSpace(a) \in ChunkRecord
         /\ ReserveSpace(a).available = Blocks /\ ReserveSpace(a).mem = a
         /\ Listed(ReserveSpace(a), Index)
<1> DEFINE c == ReserveSpace(a)
           s == [x \in 1 .. Blocks |-> x - 1]
<1>1. /\ c.available = Blocks /\ c.mem = a /\ c.next = 0
      /\ c.first = [k \in Index |-> IF k = Blocks - 1 THEN Junk ELSE k + 1]
  BY DEF ReserveSpace
<1>2. c \in ChunkRecord
  <2>1. c.next \in Byte /\ c.available \in 0 .. Blocks
    BY <1>1, BlocksType DEF Byte, Index
  <2>2. \A k \in Index : (IF k = Blocks - 1 THEN Junk ELSE k + 1) \in Byte
    BY BlocksType DEF Byte, Index
  <2>3. c.first \in [Index -> Byte]
    BY <1>1, <2>2
  <2> QED
    BY <1>1, <2>1, <2>3 DEF ChunkRecord, ReserveSpace
<1>3. s \in [1 .. c.available -> Index]
  BY <1>1, BlocksType DEF Index
<1>4. IsFreeList(c, s, Index)
  <2>1. c.available = Cardinality(Index)
    BY <1>1, IndexFinite
  <2>2. \A x, y \in 1 .. c.available : s[x] = s[y] => x = y
    BY <1>1, BlocksType
  <2>3. s[1] = c.next
    BY <1>1, BlocksType
  <2>4. \A x \in 1 .. c.available - 1 : c.first[s[x]] = s[x + 1]
    BY <1>1, BlocksType DEF Index
  <2>5. {s[x] : x \in 1 .. c.available} = Index
    <3>1. \A x \in 1 .. c.available : s[x] \in Index
      BY <1>3
    <3>2. \A k \in Index : k + 1 \in 1 .. c.available /\ s[k + 1] = k
      BY <1>1, BlocksType DEF Index
    <3> QED
      BY <3>1, <3>2
  <2> QED
    BY <1>3, <2>1, <2>2, <2>3, <2>4, <2>5 DEF IsFreeList
<1>5. Listed(c, Index)
  BY <1>3, <1>4 DEF Listed
<1> QED
  BY <1>1, <1>2, <1>5

-------------------------------------------------------------------------------
(* A vector of chunks and the blocks that have an owner *)

Sound(cs, lv) ==
  /\ cs \in Seq(ChunkRecord) /\ lv \subseteq Block
  /\ \A i \in DOMAIN cs : Listed(cs[i], FreeOf(cs[i], lv))
  /\ \A i, j \in DOMAIN cs : cs[i].mem = cs[j].mem => i = j
  /\ \A b \in lv : \E i \in DOMAIN cs : cs[i].mem = b.mem

\* A block is its area and its index.
LEMMA BlockIs ==
  ASSUME NEW b \in Block
  PROVE  b.mem \in Memory /\ b.index \in Index /\ b = [mem |-> b.mem, index |-> b.index]
BY DEF Block

\* The free blocks of a chunk are indices of it.
LEMMA FreeOfType ==
  ASSUME NEW c, NEW lv
  PROVE  FreeOf(c, lv) \in SUBSET Index
BY DEF FreeOf

\* A chunk that owns a block with an owner is not empty.
LEMMA OwnerNotEmpty ==
  ASSUME NEW cs, NEW lv, Sound(cs, lv), NEW b \in lv,
         NEW i \in DOMAIN cs, cs[i].mem = b.mem
  PROVE  ~Empty(cs[i])
<1>1. b.index \in Index /\ b = [mem |-> cs[i].mem, index |-> b.index]
  BY BlockIs DEF Sound
<1>2. b.index \notin FreeOf(cs[i], lv)
  BY <1>1 DEF FreeOf
<1>3. cs[i].available = Cardinality(FreeOf(cs[i], lv))
  BY DEF Sound, Listed, IsFreeList
<1>4. Cardinality(FreeOf(cs[i], lv)) # Blocks
  BY <1>1, <1>2, IndexFinite, FreeOfType
<1> QED
  BY <1>3, <1>4 DEF Empty

\* A chunk hands out its next block, which had no owner.
LEMMA HandOutSound ==
  ASSUME NEW cs, NEW lv, Sound(cs, lv), NEW i \in DOMAIN cs, ~Full(cs[i])
  PROVE  LET ds == [cs EXCEPT ![i] = TakeBlock(@)]
             lw == lv \cup {NextBlock(cs[i])}
         IN  /\ Sound(ds, lw)
             /\ NextBlock(cs[i]) \in Block \ lv
             /\ DOMAIN ds = DOMAIN cs
             /\ ds[i].available = cs[i].available - 1
             /\ \A j \in DOMAIN cs : j # i => ds[j] = cs[j]
<1> DEFINE b == NextBlock(cs[i])
           ds == [cs EXCEPT ![i] = TakeBlock(cs[i])]
           lw == lv \cup {b}
<1>1. cs \in Seq(ChunkRecord) /\ cs[i] \in ChunkRecord
  BY DEF Sound
<1>2. Listed(cs[i], FreeOf(cs[i], lv))
  BY DEF Sound
<1>3. /\ cs[i].next \in FreeOf(cs[i], lv)
      /\ TakeBlock(cs[i]) \in ChunkRecord
      /\ TakeBlock(cs[i]).available = cs[i].available - 1
      /\ TakeBlock(cs[i]).mem = cs[i].mem
      /\ Listed(TakeBlock(cs[i]), FreeOf(cs[i], lv) \ {cs[i].next})
  BY <1>1, <1>2, FreeOfType, TakeListed
<1>4. b = [mem |-> cs[i].mem, index |-> cs[i].next] /\ cs[i].mem \in Memory
      /\ cs[i].next \in Index
  BY <1>1, <1>3 DEF NextBlock, ChunkRecord, FreeOf
<1>5. b \in Block \ lv
  BY <1>3, <1>4 DEF Block, FreeOf
<1>6. /\ ds \in Seq(ChunkRecord) /\ DOMAIN ds = DOMAIN cs /\ ds[i] = TakeBlock(cs[i])
      /\ \A j \in DOMAIN cs : j # i => ds[j] = cs[j]
      /\ \A j \in DOMAIN cs : ds[j].mem = cs[j].mem
  BY <1>1, <1>3
<1> HIDE DEF ds, b
<1>7. ASSUME NEW j \in DOMAIN ds PROVE Listed(ds[j], FreeOf(ds[j], lw))
  <2>1. CASE j = i
    <3>1. FreeOf(ds[j], lw) = FreeOf(cs[i], lv) \ {cs[i].next}
      BY <2>1, <1>4, <1>6, <1>3 DEF FreeOf
    <3> QED
      BY <2>1, <3>1, <1>3, <1>6
  <2>2. CASE j # i
    <3>1. cs[j].mem # cs[i].mem
      BY <2>2, <1>6 DEF Sound
    <3>2. FreeOf(ds[j], lw) = FreeOf(cs[j], lv)
      BY <2>2, <3>1, <1>4, <1>6 DEF FreeOf
    <3>3. Listed(cs[j], FreeOf(cs[j], lv))
      BY <1>6 DEF Sound
    <3> QED
      BY <2>2, <3>2, <3>3, <1>6
  <2> QED
    BY <2>1, <2>2
<1>8. \A x, y \in DOMAIN ds : ds[x].mem = ds[y].mem => x = y
  BY <1>6 DEF Sound
<1>9. \A x \in lw : \E j \in DOMAIN ds : ds[j].mem = x.mem
  BY <1>4, <1>6 DEF Sound
<1>10. lw \subseteq Block
  BY <1>5 DEF Sound
<1>11. Sound(ds, lw)
  BY <1>6, <1>7, <1>8, <1>9, <1>10 DEF Sound
<1> QED
  BY <1>3, <1>5, <1>6, <1>11 DEF ds, b

\* A block comes back to its chunk.
LEMMA ReturnSound ==
  ASSUME NEW cs, NEW lv, Sound(cs, lv), NEW b \in lv,
         NEW i \in DOMAIN cs, cs[i].mem = b.mem
  PROVE  LET ds == [cs EXCEPT ![i] = PutBlock(@, b.index)]
         IN  /\ Sound(ds, lv \ {b})
             /\ DOMAIN ds = DOMAIN cs /\ Len(ds) = Len(cs)
             /\ \A j \in DOMAIN cs : j # i => ds[j] = cs[j]
<1> DEFINE ds == [cs EXCEPT ![i] = PutBlock(cs[i], b.index)]
           lw == lv \ {b}
<1>1. cs \in Seq(ChunkRecord) /\ cs[i] \in ChunkRecord /\ Listed(cs[i], FreeOf(cs[i], lv))
  BY DEF Sound
<1>2. b.index \in Index /\ b = [mem |-> cs[i].mem, index |-> b.index]
  BY BlockIs DEF Sound
<1>3. b.index \in Index \ FreeOf(cs[i], lv)
  BY <1>2 DEF FreeOf
<1>4. /\ PutBlock(cs[i], b.index) \in ChunkRecord
      /\ PutBlock(cs[i], b.index).mem = cs[i].mem
      /\ Listed(PutBlock(cs[i], b.index), FreeOf(cs[i], lv) \cup {b.index})
  BY <1>1, <1>3, FreeOfType, PutListed
<1>5. /\ ds \in Seq(ChunkRecord) /\ DOMAIN ds = DOMAIN cs /\ Len(ds) = Len(cs)
      /\ ds[i] = PutBlock(cs[i], b.index)
      /\ \A j \in DOMAIN cs : j # i => ds[j] = cs[j]
      /\ \A j \in DOMAIN cs : ds[j].mem = cs[j].mem
  BY <1>1, <1>4
<1> HIDE DEF ds
<1>6. ASSUME NEW j \in DOMAIN ds PROVE Listed(ds[j], FreeOf(ds[j], lw))
  <2>1. CASE j = i
    <3>1. FreeOf(ds[j], lw) = FreeOf(cs[i], lv) \cup {b.index}
      BY <2>1, <1>2, <1>4, <1>5 DEF FreeOf
    <3> QED
      BY <2>1, <3>1, <1>4, <1>5
  <2>2. CASE j # i
    <3>1. cs[j].mem # cs[i].mem
      BY <2>2, <1>5 DEF Sound
    <3>2. FreeOf(ds[j], lw) = FreeOf(cs[j], lv)
      BY <2>2, <3>1, <1>2, <1>5 DEF FreeOf
    <3>3. Listed(cs[j], FreeOf(cs[j], lv))
      BY <1>5 DEF Sound
    <3> QED
      BY <2>2, <3>2, <3>3, <1>5
  <2> QED
    BY <2>1, <2>2
<1>7. \A x, y \in DOMAIN ds : ds[x].mem = ds[y].mem => x = y
  BY <1>5 DEF Sound
<1>8. lw \subseteq Block /\ \A x \in lw : \E j \in DOMAIN ds : ds[j].mem = x.mem
  BY <1>5 DEF Sound
<1>9. Sound(ds, lw)
  BY <1>5, <1>6, <1>7, <1>8 DEF Sound
<1> QED
  BY <1>5, <1>9 DEF ds

\* A chunk is appended, in memory no other is in.
LEMMA AppendSound ==
  ASSUME NEW cs, NEW lv, Sound(cs, lv),
         NEW a \in Memory, \A i \in DOMAIN cs : cs[i].mem # a
  PROVE  LET ds == Append(cs, ReserveSpace(a))
         IN  /\ Sound(ds, lv)
             /\ Len(ds) = Len(cs) + 1 /\ DOMAIN ds = 1 .. Len(cs) + 1
             /\ ds[Len(cs) + 1].available = Blocks
             /\ \A j \in DOMAIN cs : ds[j] = cs[j]
<1> DEFINE c == ReserveSpace(a)
           ds == Append(cs, c)
           n == Len(cs) + 1
<1>1. cs \in Seq(ChunkRecord)
  BY DEF Sound
<1>2. c \in ChunkRecord /\ c.available = Blocks /\ c.mem = a /\ Listed(c, Index)
  BY ReserveListed
<1> HIDE DEF c
<1>3. /\ ds \in Seq(ChunkRecord) /\ Len(ds) = n /\ DOMAIN ds = 1 .. n
      /\ ds[n] = c /\ \A j \in DOMAIN cs : ds[j] = cs[j] /\ j # n
      /\ DOMAIN ds = DOMAIN cs \cup {n}
  BY <1>1, <1>2
<1> HIDE DEF ds, n
<1>4. FreeOf(c, lv) = Index
  <2>1. \A b \in lv : b.mem # a
    BY DEF Sound
  <2> QED
    BY <1>2, <2>1 DEF FreeOf
<1>5. ASSUME NEW j \in DOMAIN ds PROVE Listed(ds[j], FreeOf(ds[j], lv))
  BY <1>2, <1>3, <1>4 DEF Sound
<1>6. \A x, y \in DOMAIN ds : ds[x].mem = ds[y].mem => x = y
  BY <1>2, <1>3 DEF Sound
<1>7. lv \subseteq Block /\ \A b \in lv : \E j \in DOMAIN ds : ds[j].mem = b.mem
  BY <1>3 DEF Sound
<1>8. Sound(ds, lv)
  BY <1>3, <1>5, <1>6, <1>7 DEF Sound
<1> QED
  BY <1>2, <1>3, <1>8 DEF ds, n, c

\* An empty chunk goes, and the one at the end comes to its place.
LEMMA DropSound ==
  ASSUME NEW cs, NEW lv, Sound(cs, lv), NEW k \in DOMAIN cs, Empty(cs[k])
  PROVE  Sound([x \in 1 .. Len(cs) - 1 |-> IF x = k THEN cs[Len(cs)] ELSE cs[x]], lv)
<1> DEFINE n == Len(cs)
           ds == [x \in 1 .. n - 1 |-> IF x = k THEN cs[n] ELSE cs[x]]
           Old(x) == IF x = k THEN n ELSE x
<1>1. cs \in Seq(ChunkRecord) /\ n \in Nat /\ DOMAIN cs = 1 .. n /\ k \in 1 .. n
  BY DEF Sound
<1>2. \A x \in 1 .. n - 1 : Old(x) \in DOMAIN cs /\ ds[x] = cs[Old(x)]
  BY <1>1
<1>3. \A x, y \in 1 .. n - 1 : Old(x) = Old(y) => x = y
  BY <1>1
<1>4. \A j \in DOMAIN cs : j # k => \E x \in 1 .. n - 1 : Old(x) = j
  <2> SUFFICES ASSUME NEW j \in DOMAIN cs, j # k PROVE \E x \in 1 .. n - 1 : Old(x) = j
    OBVIOUS
  <2>1. CASE j = n
    BY <2>1, <1>1
  <2>2. CASE j # n
    BY <2>2, <1>1
  <2> QED
    BY <2>1, <2>2
<1>5. ds \in Seq(ChunkRecord) /\ DOMAIN ds = 1 .. n - 1
  BY <1>1, <1>2
<1> HIDE DEF ds, Old
<1>6. \A x \in DOMAIN ds : Listed(ds[x], FreeOf(ds[x], lv))
  BY <1>2, <1>5 DEF Sound
<1>7. ASSUME NEW x \in DOMAIN ds, NEW y \in DOMAIN ds, ds[x].mem = ds[y].mem PROVE x = y
  <2>1. Old(x) \in DOMAIN cs /\ ds[x] = cs[Old(x)] /\ Old(y) \in DOMAIN cs /\ ds[y] = cs[Old(y)]
    BY <1>2, <1>5
  <2>2. \A i, j \in DOMAIN cs : cs[i].mem = cs[j].mem => i = j
    BY DEF Sound
  <2>3. Old(x) = Old(y)
    BY <1>7, <2>1, <2>2
  <2> QED
    BY <1>3, <1>5, <2>3
<1>8. ASSUME NEW b \in lv PROVE \E x \in DOMAIN ds : ds[x].mem = b.mem
  <2>1. PICK j \in DOMAIN cs : cs[j].mem = b.mem
    BY DEF Sound
  <2>2. j # k
    BY <2>1, OwnerNotEmpty
  <2> QED
    BY <2>1, <2>2, <1>2, <1>4, <1>5
<1>9. Sound(ds, lv)
  BY <1>5, <1>6, <1>7, <1>8 DEF Sound
<1> QED
  BY <1>9 DEF ds

-------------------------------------------------------------------------------
(* The manager *)

IInv == TypeOK /\ Sound(chunks, live) /\ HintsInside /\ OneSpare /\ fault = "none"

\* What is to be shown of a step.
LEMMA Shown ==
  ASSUME Sound(chunks, live)', HintsInside', OneSpare', (fault = "none")'
  PROVE  IInv'
<1>1. chunks' \in Seq(ChunkRecord) /\ live' \subseteq Block
  BY DEF Sound
<1>2. {allocator', deallocator', empty'} \subseteq {0} \cup 1 .. Len(chunks') /\ Len(chunks') \in Nat
  BY <1>1 DEF HintsInside
<1>3. allocator' \in Nat /\ deallocator' \in Nat /\ empty' \in Nat
  BY <1>2
<1> QED
  BY <1>1, <1>3 DEF IInv, TypeOK

\* A chunk that hands out a block is not empty afterwards.
LEMMA HandedOutNotEmpty ==
  ASSUME NEW cs, NEW lv, Sound(cs, lv), NEW i \in DOMAIN cs,
         NEW d, d.available = cs[i].available - 1
  PROVE  ~Empty(d)
<1>1. cs[i] \in ChunkRecord
  BY DEF Sound
<1>2. cs[i].available \in 0 .. Blocks
  BY <1>1 DEF ChunkRecord
<1> QED
  BY <1>2, BlocksType DEF Empty

\* An allocation from chunk i, which is the spare no longer should it have been that.
LEMMA AllocateStep ==
  ASSUME IInv, NEW i \in DOMAIN chunks, ~Full(chunks[i]), HandOut(chunks, i),
         deallocator' = deallocator, empty' = IF i = empty THEN 0 ELSE empty
  PROVE  IInv'
<1>1. /\ chunks' = [chunks EXCEPT ![i] = TakeBlock(chunks[i])]
      /\ live' = live \cup {NextBlock(chunks[i])}
      /\ allocator' = i /\ fault' = "none"
  BY DEF HandOut, IInv
<1>2. /\ Sound(chunks', live') /\ DOMAIN chunks' = DOMAIN chunks
      /\ chunks'[i].available = chunks[i].available - 1
      /\ \A j \in DOMAIN chunks : j # i => chunks'[j] = chunks[j]
  BY <1>1, HandOutSound DEF IInv
<1>3. ~Empty(chunks'[i])
  BY <1>2, HandedOutNotEmpty DEF IInv
<1>4. 0 \notin DOMAIN chunks /\ chunks # << >>
  BY DEF IInv, TypeOK
<1>5. HintsInside'
  BY <1>1, <1>2, <1>4 DEF HintsInside, IInv
<1>6. OneSpare'
  BY <1>2, <1>3, <1>4 DEF OneSpare, IInv
<1> QED
  BY <1>1, <1>2, <1>5, <1>6, Shown

\* The invariant holds when a new chunk is added and its first block handed out.
LEMMA AllocateFromNewStep == IInv /\ AllocateFromNew => IInv'
<1> SUFFICES ASSUME IInv, AllocateFromNew PROVE IInv'
  OBVIOUS
<1> DEFINE n == Len(chunks) + 1
<1>1. PICK a \in Memory \ Used : HandOut(Append(chunks, ReserveSpace(a)), n)
  BY DEF AllocateFromNew
<1> DEFINE cs == Append(chunks, ReserveSpace(a))
<1>2. chunks \in Seq(ChunkRecord) /\ empty = 0 /\ deallocator' = 1 /\ empty' = 0
  BY DEF AllocateFromNew, IInv, TypeOK
<1>3. \A i \in DOMAIN chunks : chunks[i].mem # a
  BY <1>1 DEF Used
<1>4. /\ Sound(cs, live) /\ DOMAIN cs = 1 .. n
      /\ cs[n].available = Blocks
      /\ \A j \in DOMAIN chunks : cs[j] = chunks[j]
  BY <1>3, AppendSound DEF IInv
<1> HIDE DEF cs
<1>5. n \in DOMAIN cs /\ n \in Nat \ {0} /\ ~Full(cs[n])
  BY <1>2, <1>4, BlocksType DEF Full
<1>6. /\ chunks' = [cs EXCEPT ![n] = TakeBlock(cs[n])] /\ live' = live \cup {NextBlock(cs[n])}
      /\ allocator' = n /\ fault' = "none"
  BY <1>1 DEF HandOut, cs, IInv
<1> HIDE DEF n
<1>7. /\ Sound(chunks', live') /\ DOMAIN chunks' = DOMAIN cs
      /\ chunks'[n].available = cs[n].available - 1
      /\ \A j \in DOMAIN cs : j # n => chunks'[j] = cs[j]
  BY <1>4, <1>5, <1>6, HandOutSound
<1>8. ~Empty(chunks'[n])
  BY <1>4, <1>5, <1>7, HandedOutNotEmpty
<1>9. HintsInside'
  BY <1>2, <1>4, <1>5, <1>6, <1>7 DEF HintsInside
<1>10. OneSpare'
  <2>1. ASSUME NEW j \in DOMAIN chunks', j # n PROVE ~Empty(chunks'[j]) /\ j # 0
    <3>1. j \in DOMAIN chunks
      BY <2>1, <1>2, <1>4, <1>7 DEF n
    <3>2. chunks'[j] = chunks[j] /\ j # 0
      BY <2>1, <3>1, <1>2, <1>4, <1>7
    <3> QED
      BY <3>1, <3>2, <1>2 DEF OneSpare, IInv
  <2> QED
    BY <2>1, <1>2, <1>5, <1>8 DEF OneSpare
<1> QED
  BY <1>6, <1>7, <1>9, <1>10, Shown

\* Allocate keeps the invariant, wherever the chunk comes from.
LEMMA AllocatePreserves == IInv /\ Allocate => IInv'
<1> SUFFICES ASSUME IInv, Allocate PROVE IInv'
  OBVIOUS
<1>1. 0 \notin DOMAIN chunks
  BY DEF IInv, TypeOK
<1>2. CASE AllocateFromHint
  <2>1. allocator \in DOMAIN chunks /\ ~Full(chunks[allocator])
    BY <1>2 DEF AllocateFromHint, HintUsable, IInv, HintsInside
  <2> QED
    BY <1>2, <2>1, AllocateStep DEF AllocateFromHint
<1>3. CASE AllocateFromSpare
  <2>1. empty \in DOMAIN chunks
    BY <1>3 DEF AllocateFromSpare, IInv, HintsInside
  <2>2. Empty(chunks[empty])
    BY <2>1 DEF OneSpare, IInv
  <2>3. ~Full(chunks[empty])
    BY <2>2, BlocksType DEF Full, Empty
  <2> QED
    BY <1>3, <2>1, <2>3, AllocateStep DEF AllocateFromSpare
<1>4. CASE AllocateFromRoom
  <2>1. PICK i \in WithRoom : HandOut(chunks, i)
    BY <1>4 DEF AllocateFromRoom
  <2>2. i \in DOMAIN chunks /\ ~Full(chunks[i]) /\ i # empty
    BY <2>1, <1>1, <1>4 DEF WithRoom, AllocateFromRoom
  <2> QED
    BY <1>4, <2>1, <2>2, AllocateStep DEF AllocateFromRoom
<1> QED
  BY <1>2, <1>3, <1>4, AllocateFromNewStep DEF Allocate

\* What every deallocation begins with.
LEMMA ReturnedSound ==
  ASSUME IInv, NEW b \in live, NEW i, IsOwner(i, b)
  PROVE  /\ i \in DOMAIN chunks /\ ~Empty(chunks[i])
         /\ Sound(Returned(i, b), live \ {b})
         /\ DOMAIN Returned(i, b) = DOMAIN chunks /\ Len(Returned(i, b)) = Len(chunks)
         /\ \A j \in DOMAIN chunks : j # i => Returned(i, b)[j] = chunks[j]
<1>1. i \in DOMAIN chunks /\ ~Empty(chunks[i]) /\ chunks[i].mem = b.mem
  BY DEF IsOwner, OwnsBlock
<1>2. Returned(i, b) = [chunks EXCEPT ![i] = PutBlock(chunks[i], b.index)]
  BY DEF Returned
<1>3. Sound(chunks, live) /\ chunks \in Seq(ChunkRecord)
  BY DEF IInv, TypeOK
<1>4. /\ Sound([chunks EXCEPT ![i] = PutBlock(chunks[i], b.index)], live \ {b})
      /\ ~Empty(chunks[i])
  BY <1>1, <1>3, ReturnSound
<1> QED
  BY <1>1, <1>2, <1>3, <1>4

\* Deallocate keeps the invariant when it swaps the chunk to the end and drops it.
LEMMA DeallocateToDropStep ==
  ASSUME IInv, NEW b \in live, NEW i, DeallocateToDrop(b, i)
  PROVE  IInv'
<1> DEFINE cs == Returned(i, b)
           n == Len(chunks)
           spare == IF i = n THEN empty ELSE i
           k == IF i = n THEN n ELSE empty
<1>1. /\ i \in DOMAIN chunks /\ ~Empty(chunks[i])
      /\ Sound(cs, live \ {b})
      /\ DOMAIN cs = DOMAIN chunks /\ Len(cs) = n
      /\ \A j \in DOMAIN chunks : j # i => cs[j] = chunks[j]
  BY ReturnedSound DEF DeallocateToDrop
<1>2. /\ Empty(cs[i]) /\ empty # 0 /\ chunks' = DropChunk(cs, i) /\ live' = live \ {b}
      /\ deallocator' = spare /\ empty' = spare
      /\ allocator' = IF allocator = n \/ Full(chunks'[allocator]) THEN spare ELSE allocator
      /\ fault' = CASE i = empty -> "twice"
                    [] i # n /\ ~Empty(cs[empty]) -> "end"
                    [] OTHER -> "none"
  BY DEF DeallocateToDrop
<1>3. /\ n \in Nat /\ DOMAIN chunks = 1 .. n /\ i \in 1 .. n
      /\ allocator \in 1 .. n /\ empty \in 1 .. n
  BY <1>1, <1>2 DEF IInv, TypeOK, HintsInside
<1>4. Empty(chunks[empty]) /\ i # empty
  BY <1>1, <1>3 DEF IInv, OneSpare
<1>5. Empty(cs[empty]) /\ \A j \in 1 .. n : j # i /\ j # empty => ~Empty(cs[j])
  BY <1>1, <1>3, <1>4 DEF IInv, OneSpare
<1>6. fault' = "none"
  BY <1>2, <1>4, <1>5
<1>7. k \in DOMAIN cs /\ Empty(cs[k]) /\ spare \in 1 .. n - 1 /\ spare # k
  BY <1>1, <1>2, <1>3, <1>4, <1>5
<1>8. chunks' = [x \in 1 .. Len(cs) - 1 |-> IF x = k THEN cs[Len(cs)] ELSE cs[x]]
  BY <1>1, <1>2, <1>3 DEF DropChunk
<1> HIDE DEF cs
<1>9. Sound(chunks', live')
  BY <1>1, <1>2, <1>7, <1>8, DropSound
<1>10. DOMAIN chunks' = 1 .. n - 1
       /\ \A x \in 1 .. n - 1 : chunks'[x] = IF x = k THEN cs[n] ELSE cs[x]
  BY <1>1, <1>8
<1>11. HintsInside'
  <2>1. allocator' \in 1 .. n - 1
    BY <1>2, <1>3, <1>7
  <2>2. 0 \notin 1 .. n - 1
    BY <1>3
  <2>3. allocator' # 0 /\ spare # 0
    BY <2>1, <2>2, <1>7
  <2> QED
    BY <2>1, <2>3, <1>2, <1>7, <1>10 DEF HintsInside
<1> HIDE DEF n
<1>12. OneSpare'
  <2> SUFFICES ASSUME NEW x \in 1 .. n - 1 PROVE Empty(chunks'[x]) <=> x = spare
    BY <1>2, <1>10 DEF OneSpare
  <2>0. x \in 1 .. n /\ x # n
    BY <1>3
  <2>1. CASE x = spare
    <3>1. chunks'[x] = cs[x]
      BY <2>1, <1>7, <1>10
    <3>2. x = i \/ x = empty
      BY <2>1
    <3> QED
      BY <2>1, <3>1, <3>2, <1>2, <1>5
  <2>2. CASE x # spare /\ x = k
    <3>1. n # i
      BY <2>2, <2>0
    <3>2. n # empty /\ chunks'[x] = cs[n]
      BY <2>2, <2>0, <3>1, <1>10
    <3>a. n \in 1 .. n
      BY <1>3
    <3>3. ~Empty(cs[n])
      BY <3>a, <3>1, <3>2, <1>5
    <3> QED
      BY <2>2, <3>2, <3>3
  <2>3. CASE x # spare /\ x # k
    <3>1. x # i /\ x # empty
      BY <2>3, <2>0
    <3> QED
      BY <2>3, <2>0, <3>1, <1>5, <1>10
  <2> QED
    BY <2>1, <2>2, <2>3
<1> QED
  BY <1>6, <1>9, <1>11, <1>12, Shown

\* Deallocate keeps the invariant, whatever becomes of the chunk.
LEMMA DeallocatePreserves == IInv /\ Deallocate => IInv'
<1> SUFFICES ASSUME IInv, NEW b \in live, NEW i \in DOMAIN chunks,
                    DeallocateInUse(b, i) \/ DeallocateToSpare(b, i) \/ DeallocateToDrop(b, i)
             PROVE  IInv'
  BY DEF Deallocate
<1>1. 0 \notin DOMAIN chunks
  BY DEF IInv, TypeOK
<1>2. CASE DeallocateInUse(b, i)
  <2>1. /\ chunks' = Returned(i, b) /\ ~Empty(chunks'[i]) /\ deallocator' = i
        /\ live' = live \ {b} /\ UNCHANGED <<allocator, empty, fault>>
    BY <1>2 DEF DeallocateInUse
  <2>a. IsOwner(i, b)
    BY <1>2 DEF DeallocateInUse
  <2>b. /\ ~Empty(chunks[i])
        /\ Sound(Returned(i, b), live \ {b})
        /\ DOMAIN Returned(i, b) = DOMAIN chunks
        /\ \A j \in DOMAIN chunks : j # i => Returned(i, b)[j] = chunks[j]
    BY <2>a, ReturnedSound
  <2>2. /\ ~Empty(chunks[i]) /\ Sound(chunks', live') /\ DOMAIN chunks' = DOMAIN chunks
        /\ \A j \in DOMAIN chunks : j # i => chunks'[j] = chunks[j]
    BY <2>1, <2>b
  <2>3. chunks # << >>
    BY DEF IInv, TypeOK
  <2>4. HintsInside'
    BY <2>1, <2>2, <2>3, <1>1 DEF HintsInside, IInv
  <2>5. OneSpare'
    BY <2>1, <2>2 DEF OneSpare, IInv
  <2> QED
    BY <2>1, <2>2, <2>4, <2>5, Shown DEF IInv
<1>3. CASE DeallocateToSpare(b, i)
  <2>1. /\ chunks' = Returned(i, b) /\ Empty(chunks'[i]) /\ empty = 0
        /\ deallocator' = i /\ empty' = i
        /\ live' = live \ {b} /\ UNCHANGED <<allocator, fault>>
    BY <1>3 DEF DeallocateToSpare
  <2>2. /\ Sound(chunks', live') /\ DOMAIN chunks' = DOMAIN chunks
        /\ \A j \in DOMAIN chunks : j # i => chunks'[j] = chunks[j]
    BY <1>3, <2>1, ReturnedSound DEF DeallocateToSpare
  <2>3. chunks # << >>
    BY DEF IInv, TypeOK
  <2>4. HintsInside'
    BY <2>1, <2>2, <2>3, <1>1 DEF HintsInside, IInv
  <2>5. OneSpare'
    BY <2>1, <2>2, <1>1 DEF OneSpare, IInv
  <2> QED
    BY <2>1, <2>2, <2>4, <2>5, Shown DEF IInv
<1> QED
  BY <1>2, <1>3, DeallocateToDropStep

\* The vector without chunks, at the beginning and after ~ChunkManager.
LEMMA NothingSound == Sound(<< >>, {})
BY DEF Sound

\* The inductive invariant: whatever callers allocate and give back in whatever order,
\* the free lists, the areas, the pointers into the vector and the spare chunk fit.
THEOREM Invariance == Spec => []IInv
<1>1. Init => IInv
  BY NothingSound DEF Init, IInv, TypeOK, HintsInside, OneSpare
<1>2. IInv /\ [Next]_vars => IInv'
  <2> SUFFICES ASSUME IInv, [Next]_vars PROVE IInv'
    OBVIOUS
  <2>1. CASE Destroy
    <3>1. /\ chunks' = << >> /\ live' = {} /\ allocator' = 0 /\ deallocator' = 0 /\ empty' = 0
          /\ fault' = "none"
      BY <2>1 DEF Destroy, IInv
    <3>2. Sound(chunks', live')
      BY <3>1, NothingSound
    <3>3. HintsInside' /\ OneSpare'
      BY <3>1 DEF HintsInside, OneSpare
    <3> QED
      BY <3>1, <3>2, <3>3, Shown
  <2>2. CASE UNCHANGED vars
    BY <2>2 DEF vars, IInv, TypeOK, Sound, HintsInside, OneSpare
  <2> QED
    BY <2>1, <2>2, AllocatePreserves, DeallocatePreserves DEF Next
<1> QED
  BY <1>1, <1>2, PTL DEF Spec

\* In every chunk the first bytes of free blocks list the blocks without an owner, each
\* once: no block is handed out twice and none is lost (Chunk.cpp:51-74).
THEOREM FreeListsKept == Spec => []FreeLists
<1>1. IInv => FreeLists
  BY DEF IInv, Sound, Listed, FreeLists
<1> QED
  BY <1>1, Invariance, PTL

\* A block with an owner is found in the one chunk it is in, the pointers into the vector
\* are inside of it, the one empty chunk is the spare, and no assertion of deallocate
\* fails (ChunkManager.cpp:105-154).
THEOREM BookkeepingKept == Spec => []Bookkeeping
<1>1. IInv => Bookkeeping
  <2> SUFFICES ASSUME IInv PROVE Bookkeeping
    OBVIOUS
  <2>1. ASSUME NEW b \in live PROVE \E i \in DOMAIN chunks : IsOwner(i, b)
    <3>1. PICK i \in DOMAIN chunks : chunks[i].mem = b.mem
      BY DEF IInv, Sound
    <3>2. OwnsBlock(chunks[i], b)
      BY <3>1, OwnerNotEmpty DEF IInv, OwnsBlock
    <3>3. \A j \in DOMAIN chunks : OwnsBlock(chunks[j], b) => j = i
      BY <3>1 DEF IInv, Sound, OwnsBlock
    <3>4. Turn(i) \in Int
      BY DEF Turn, IInv, TypeOK
    <3>5. Turn(i) <= Turn(i)
      BY <3>4
    <3> QED
      BY <3>2, <3>3, <3>5 DEF IsOwner
  <2>2. \A i, j \in DOMAIN chunks : chunks[i].mem = chunks[j].mem => i = j
    BY DEF IInv, Sound
  <2> QED
    BY <2>1, <2>2 DEF IInv, Bookkeeping, EveryBlockFound
<1> QED
  BY <1>1, Invariance, PTL

-------------------------------------------------------------------------------
(* What callers see: the blocks that count as in use are those with an owner *)

\* The blocks with an owner in a set of areas.
OwnedIn(areas, lv) == {b \in lv : b.mem \in areas}

\* The blocks of a chunk that have an owner are those that it does not count as available.
LEMMA OwnedInChunk ==
  ASSUME NEW cs, NEW lv, Sound(cs, lv), NEW i \in DOMAIN cs
  PROVE  /\ IsFiniteSet(OwnedIn({cs[i].mem}, lv))
         /\ Cardinality(OwnedIn({cs[i].mem}, lv)) = Blocks - cs[i].available
<1> DEFINE F == FreeOf(cs[i], lv)
           U == Index \ F
           T == OwnedIn({cs[i].mem}, lv)
           f == [k \in U |-> [mem |-> cs[i].mem, index |-> k]]
<1>1. cs[i].available = Cardinality(F) /\ F \in SUBSET Index
  BY FreeOfType DEF Sound, Listed, IsFreeList
<1>2. lv \subseteq Block
  BY DEF Sound
<1>3. \A k \in U : [mem |-> cs[i].mem, index |-> k] \in T
  BY DEF FreeOf, OwnedIn
<1>4. ASSUME NEW b \in T PROVE b.index \in U /\ b = [mem |-> cs[i].mem, index |-> b.index]
  BY <1>2, BlockIs DEF FreeOf, OwnedIn
<1> HIDE DEF U, T
<1>5. f \in [U -> T]
  BY <1>3
<1>6. \A x, y \in U : f[x] = f[y] => x = y
  <2> SUFFICES ASSUME NEW x \in U, NEW y \in U, f[x] = f[y] PROVE x = y
    OBVIOUS
  <2>1. f[x].index = x /\ f[y].index = y
    OBVIOUS
  <2> QED
    BY <2>1
<1>7. \A b \in T : \E k \in U : f[k] = b
  BY <1>4
<1> HIDE DEF f
<1>8. f \in Bijection(U, T)
  <2>1. f \in Injection(U, T)
    BY <1>5, <1>6 DEF Injection, IsInjective
  <2>2. f \in Surjection(U, T)
    BY <1>5, <1>7 DEF Surjection
  <2> QED
    BY <2>1, <2>2 DEF Bijection
<1>9. ExistsBijection(U, T)
  BY <1>8 DEF ExistsBijection
<1>10. IsFiniteSet(U) /\ Cardinality(U) = Blocks - cs[i].available
  <2>1. IsFiniteSet(Index) /\ Cardinality(Index) = Blocks /\ Index \cap F = F
    BY <1>1, IndexFinite
  <2>2. Cardinality(Index \ F) = Cardinality(Index) - Cardinality(Index \cap F) /\ IsFiniteSet(Index \ F)
    BY <2>1, FS_Difference
  <2> QED
    BY <1>1, <2>1, <2>2 DEF U
<1> QED
  BY <1>9, <1>10, FS_Bijection DEF T

\* What the fold of the chunks computes.
TakenFrom(sum, cs) ==
  sum = [T \in SUBSET DOMAIN cs |->
           IF T = {} THEN 0
           ELSE (Blocks - cs[CHOOSE x \in T : TRUE].available) + sum[T \ {CHOOSE x \in T : TRUE}]]

LEMMA TakenDef == \A cs : Taken(cs) = (CHOOSE sum : TakenFrom(sum, cs))[DOMAIN cs]
BY DEF Taken, FoldSeq, FoldFunction, FoldFunctionOnSet, MapThenFoldSet, TakenFrom

LEMMA TakenExists ==
  ASSUME NEW cs \in Seq(ChunkRecord)
  PROVE  \E sum : TakenFrom(sum, cs)
<1> DEFINE f == [x \in DOMAIN cs |-> Blocks - cs[x].available]
<1>1. ASSUME NEW x \in DOMAIN cs PROVE f[x] \in Int
  <2>1. cs[x] \in ChunkRecord
    OBVIOUS
  <2>2. cs[x].available \in 0..Blocks
    BY <2>1 DEF ChunkRecord
  <2> QED
    BY <2>2, BlocksType
<1>2. IsFiniteSet(DOMAIN cs)
  BY FS_Interval
<1>3. \A x \in DOMAIN cs : f[x] = Blocks - cs[x].available
  OBVIOUS
<1> HIDE DEF f
<1>4. PICK sum : Adds(sum, f, DOMAIN cs)
  BY <1>1, <1>2, SumExists
<1> DEFINE Value(T) == IF T = {} THEN 0 ELSE f[CHOOSE x \in T : TRUE] + sum[T \ {CHOOSE x \in T : TRUE}]
           Same(T) == IF T = {} THEN 0
                      ELSE (Blocks - cs[CHOOSE x \in T : TRUE].available) + sum[T \ {CHOOSE x \in T : TRUE}]
<1>5. sum = [T \in SUBSET DOMAIN cs |-> Value(T)]
  BY <1>4 DEF Adds
<1>6. ASSUME NEW T \in SUBSET DOMAIN cs PROVE Value(T) = Same(T)
  <2>1. T # {} => (CHOOSE x \in T : TRUE) \in DOMAIN cs
    OBVIOUS
  <2> QED
    BY <1>3, <2>1
<1>7. sum = [T \in SUBSET DOMAIN cs |-> Same(T)]
  <2> HIDE DEF Value, Same
  <2> QED
    BY <1>5, <1>6
<1>8. TakenFrom(sum, cs)
  BY <1>7 DEF TakenFrom
<1> QED
  BY <1>8

\* All blocks that have an owner, and no other, count as in use.
LEMMA TakenCounts ==
  ASSUME NEW cs, NEW lv, Sound(cs, lv)
  PROVE  IsFiniteSet(lv) /\ Taken(cs) = Cardinality(lv)
<1> DEFINE sum == CHOOSE sum : TakenFrom(sum, cs)
           Pick(T) == CHOOSE x \in T : TRUE
           Areas(T) == {cs[x].mem : x \in T}
           Right(T) == IsFiniteSet(OwnedIn(Areas(T), lv)) /\ sum[T] = Cardinality(OwnedIn(Areas(T), lv))
           S == {n \in Nat : \A T \in SUBSET DOMAIN cs : Cardinality(T) = n => Right(T)}
<1>1. cs \in Seq(ChunkRecord) /\ IsFiniteSet(DOMAIN cs)
  BY FS_Interval DEF Sound
<1>2. TakenFrom(sum, cs)
  BY <1>1, TakenExists
<1>3. Taken(cs) = sum[DOMAIN cs]
  BY TakenDef
<1> HIDE DEF sum
<1>4. ASSUME NEW T \in SUBSET DOMAIN cs
      PROVE  /\ T = {} => sum[T] = 0
             /\ T # {} => Pick(T) \in T /\ sum[T] = (Blocks - cs[Pick(T)].available) + sum[T \ {Pick(T)}]
  BY <1>2 DEF TakenFrom
<1> HIDE DEF Pick
<1>5. ASSUME NEW n \in Nat, \A m \in 0..n - 1 : m \in S PROVE n \in S
  <2> SUFFICES ASSUME NEW T \in SUBSET DOMAIN cs, Cardinality(T) = n PROVE Right(T)
    OBVIOUS
  <2>1. CASE T = {}
    <3>1. OwnedIn(Areas(T), lv) = {}
      BY <2>1 DEF OwnedIn
    <3> QED
      BY <1>4, <2>1, <3>1, FS_EmptySet
  <2>2. CASE T # {}
    <3> DEFINE p == Pick(T)
               U == T \ {p}
               A == OwnedIn(Areas(U), lv)
               B == OwnedIn({cs[p].mem}, lv)
    <3>1. p \in T /\ p \in DOMAIN cs /\ U \in SUBSET DOMAIN cs
          /\ sum[T] = (Blocks - cs[p].available) + sum[U]
      BY <1>4, <2>2
    <3>2. IsFiniteSet(T) /\ Cardinality(U) = n - 1 /\ n # 0
      BY <1>1, <2>2, <3>1, FS_Subset, FS_RemoveElement, FS_EmptySet
    <3>3. Right(U)
      <4>1. n - 1 \in S
        BY <1>5, <3>2
      <4> QED
        BY <3>1, <3>2, <4>1
    <3>4. IsFiniteSet(B) /\ Cardinality(B) = Blocks - cs[p].available
      BY <3>1, OwnedInChunk
    <3>5. A \cap B = {}
      <4>1. cs[p].mem \notin Areas(U)
        BY <3>1 DEF Sound
      <4> QED
        BY <4>1 DEF OwnedIn
    <3>6. OwnedIn(Areas(T), lv) = A \cup B
      <4>1. Areas(T) = Areas(U) \cup {cs[p].mem}
        BY <3>1
      <4> QED
        BY <4>1 DEF OwnedIn
    <3>7. IsFiniteSet(A) /\ sum[U] = Cardinality(A)
      BY <3>3
    <3> HIDE DEF A, B, U, Areas
    <3>8. IsFiniteSet(A \cup B) /\ Cardinality(A \cup B) = Cardinality(A) + Cardinality(B) - Cardinality(A \cap B)
      BY <3>4, <3>7, FS_Union
    <3>9. Cardinality(A \cap B) = 0 /\ Cardinality(A) \in Nat /\ Cardinality(B) \in Nat
      BY <3>4, <3>5, <3>7, FS_EmptySet, FS_CardinalityType
    <3>10. Cardinality(A \cup B) = Cardinality(B) + Cardinality(A)
      BY <3>8, <3>9
    <3> QED
      BY <3>1, <3>4, <3>6, <3>7, <3>8, <3>10
  <2> QED
    BY <2>1, <2>2
<1> HIDE DEF S
<1>6. Nat \subseteq S
  BY <1>5, StrongInduction
<1>7. Right(DOMAIN cs)
  BY <1>1, <1>6, FS_CardinalityType DEF S
<1>8. OwnedIn(Areas(DOMAIN cs), lv) = lv
  BY DEF OwnedIn, Sound
<1> QED
  BY <1>3, <1>7, <1>8

Counted == IsFiniteSet(live) /\ Taken(chunks) = Cardinality(live)

LEMMA IsCounted == IInv => Counted
BY TakenCounts DEF IInv, Counted

LEMMA WillBeCounted == IInv' => Counted'
BY IsCounted, PTL

\* An allocation gives a block that had no owner, wherever its chunk comes from.
LEMMA AllocateGives ==
  ASSUME IInv, Allocate
  PROVE  \E b \in Block \ live : live' = live \cup {b}
<1>1. Sound(chunks, live) /\ chunks \in Seq(ChunkRecord)
  BY DEF IInv, Sound
<1>2. ASSUME NEW i \in DOMAIN chunks, ~Full(chunks[i]), HandOut(chunks, i)
      PROVE  \E b \in Block \ live : live' = live \cup {b}
  BY <1>1, <1>2, HandOutSound DEF HandOut
<1>3. CASE AllocateFromHint
  <2>1. allocator \in DOMAIN chunks /\ ~Full(chunks[allocator]) /\ HandOut(chunks, allocator)
    BY <1>3 DEF AllocateFromHint, HintUsable, IInv, HintsInside
  <2> QED
    BY <1>2, <2>1
<1>4. CASE AllocateFromSpare
  <2>1. empty \in DOMAIN chunks /\ HandOut(chunks, empty)
    BY <1>4 DEF AllocateFromSpare, IInv, HintsInside
  <2>2. ~Full(chunks[empty])
    BY <2>1, BlocksType DEF OneSpare, IInv, Full, Empty
  <2> QED
    BY <1>2, <2>1, <2>2
<1>5. CASE AllocateFromRoom
  <2>1. PICK i \in WithRoom : HandOut(chunks, i)
    BY <1>5 DEF AllocateFromRoom
  <2> QED
    BY <1>2, <2>1 DEF WithRoom
<1>6. CASE AllocateFromNew
  <2> DEFINE n == Len(chunks) + 1
  <2>1. PICK a \in Memory \ Used : HandOut(Append(chunks, ReserveSpace(a)), n)
    BY <1>6 DEF AllocateFromNew
  <2> DEFINE cs == Append(chunks, ReserveSpace(a))
  <2>2. \A i \in DOMAIN chunks : chunks[i].mem # a
    BY <2>1 DEF Used
  <2>3. Sound(cs, live) /\ DOMAIN cs = 1..n /\ cs[n].available = Blocks
    BY <1>1, <2>2, AppendSound
  <2>4. n \in DOMAIN cs /\ ~Full(cs[n])
    BY <1>1, <2>3, BlocksType DEF Full
  <2> HIDE DEF cs, n
  <2>5. HandOut(cs, n)
    BY <2>1 DEF cs
  <2> QED
    BY <2>3, <2>4, <2>5, HandOutSound DEF HandOut
<1> QED
  BY <1>3, <1>4, <1>5, <1>6 DEF Allocate

\* The chunks together are one store: each call of allocate gives a block that no one
\* else has, each call of deallocate takes back the block it was given, and what the
\* chunks count as in use is what callers have (ChunkManager.cpp:37-154).
THEOREM ImplementsStore == Spec => Implements
<1>1. Init => Store!Init
  <2> SUFFICES ASSUME Init PROVE Store!Init
    OBVIOUS
  <2>1. Sound(chunks, live) /\ live = {}
    BY NothingSound DEF Init
  <2>2. Taken(chunks) = Cardinality(live)
    BY <2>1, TakenCounts
  <2> QED
    BY <2>1, <2>2, FS_EmptySet DEF Store!Init
<1>2. IInv /\ IInv' /\ [Next]_vars => [Store!Next]_<<live, Taken(chunks)>>
  <2> SUFFICES ASSUME IInv, IInv', [Next]_vars PROVE [Store!Next]_<<live, Taken(chunks)>>
    OBVIOUS
  <2>1. IsFiniteSet(live) /\ Taken(chunks) = Cardinality(live)
    BY IsCounted DEF Counted
  <2>2. Taken(chunks)' = Cardinality(live')
    BY WillBeCounted DEF Counted
  <2>3. CASE Allocate
    <3>1. PICK b \in Block \ live : live' = live \cup {b}
      BY <2>3, AllocateGives
    <3>2. Cardinality(live \cup {b}) = Cardinality(live) + 1
      BY <2>1, <3>1, FS_AddElement
    <3>3. Taken(chunks)' = Taken(chunks) + 1
      BY <2>1, <2>2, <3>1, <3>2
    <3> QED
      BY <3>1, <3>3 DEF Store!Next, Store!Allocate
  <2>4. CASE Deallocate
    <3>1. PICK b \in live : live' = live \ {b}
      BY <2>4 DEF Deallocate, DeallocateInUse, DeallocateToSpare, DeallocateToDrop
    <3>2. Cardinality(live \ {b}) = Cardinality(live) - 1
      BY <2>1, <3>1, FS_RemoveElement
    <3>3. Taken(chunks)' = Taken(chunks) - 1
      BY <2>1, <2>2, <3>1, <3>2
    <3> QED
      BY <3>1, <3>3 DEF Store!Next, Store!Deallocate
  <2>5. CASE Destroy
    <3>1. live' = {}
      BY <2>5 DEF Destroy
    <3> QED
      BY <2>2, <3>1, FS_EmptySet DEF Store!Next, Store!Discard
  <2>6. CASE UNCHANGED vars
    <3>1. live' = live
      BY <2>6 DEF vars
    <3> QED
      BY <2>1, <2>2, <3>1
  <2> QED
    BY <2>3, <2>4, <2>5, <2>6 DEF Next
<1> QED
  BY <1>1, <1>2, Invariance, PTL DEF Spec, Implements, Store!Spec
=============================================================================
