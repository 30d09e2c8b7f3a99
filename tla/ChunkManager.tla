---------------------------- MODULE ChunkManager ----------------------------
(***************************************************************************)
(* utility/ChunkManager: the chunks of one block size, a hint where the    *)
(* next block is likely to be had, another where the next block is likely  *)
(* to come back to, and at most one spare chunk.  Pointers into the vector *)
(* are positions here, 0 is NULL: a pointer keeps its position whatever    *)
(* the vector does, as the code's do between the points that set them.     *)
(***************************************************************************)
EXTENDS Chunk, SequencesExt

VARIABLES
  chunks,       \* vector<Chunk>
  allocator,    \* hint: the chunk that served the last allocate
  deallocator,  \* hint: the chunk the last block came back to
  empty,        \* the spare chunk
  live,         \* the blocks handed out and not given back
  fault         \* the assertion that failed

vars == <<chunks, allocator, deallocator, empty, live, fault>>

-----------------------------------------------------------------------------
TypeOK ==
  /\ chunks \in Seq(ChunkRecord)
  /\ allocator \in Nat /\ deallocator \in Nat /\ empty \in Nat
  /\ live \subseteq Block
  /\ fault \in {"none", "twice", "end"}

Init ==
  /\ chunks = << >>
  /\ allocator = 0 /\ deallocator = 0 /\ empty = 0
  /\ live = {}
  /\ fault = "none"

Used == {chunks[i].mem : i \in DOMAIN chunks}

-----------------------------------------------------------------------------
(* ChunkManager::allocate, by where the chunk comes from *)

HintUsable == allocator # 0 /\ ~Full(chunks[allocator])

\* The end of every case: the block at the head of chunk i's list.
HandOut(cs, i) ==
  /\ chunks' = [cs EXCEPT ![i] = TakeBlock(@)]
  /\ live' = live \cup {NextBlock(cs[i])}
  /\ allocator' = i
  /\ UNCHANGED fault

\* The hint serves, and is the spare no longer should it be that.
AllocateFromHint ==
  /\ fault = "none" /\ HintUsable
  /\ HandOut(chunks, allocator)
  /\ empty' = IF allocator = empty THEN 0 ELSE empty
  /\ UNCHANGED deallocator

AllocateFromSpare ==
  /\ fault = "none" /\ ~HintUsable /\ empty # 0
  /\ HandOut(chunks, empty)
  /\ empty' = 0
  /\ UNCHANGED deallocator

WithRoom == {i \in DOMAIN chunks : ~Full(chunks[i])}

\* The first chunk that has room.
AllocateFromRoom ==
  /\ fault = "none" /\ ~HintUsable /\ empty = 0
  /\ \E i \in WithRoom : (\A j \in WithRoom : i <= j) /\ HandOut(chunks, i)
  /\ UNCHANGED <<deallocator, empty>>

\* A chunk is appended.  The vector may move; both hints are set afresh, and there
\* is no spare.
AllocateFromNew ==
  /\ fault = "none" /\ ~HintUsable /\ empty = 0 /\ WithRoom = {}
  /\ \E a \in Memory \ Used :
       HandOut(Append(chunks, ReserveSpace(a)), Len(chunks) + 1)
  /\ deallocator' = 1
  /\ UNCHANGED empty

-----------------------------------------------------------------------------
(* ChunkManager::deallocate *)

\* find: from the hint downwards and upwards in turn.
Turn(i) == IF i <= deallocator THEN 2 * (deallocator - i) ELSE 2 * (i - deallocator) - 1
IsOwner(i, b) ==
  /\ i \in DOMAIN chunks /\ OwnsBlock(chunks[i], b)
  /\ \A j \in DOMAIN chunks : OwnsBlock(chunks[j], b) => Turn(i) <= Turn(j)

\* The chunks with block b back in chunk i.
Returned(i, b) == [chunks EXCEPT ![i] = PutBlock(@, b.index)]

\* Other blocks of the chunk are in use.
DeallocateInUse(b, i) ==
  /\ fault = "none" /\ b \in live /\ IsOwner(i, b)
  /\ chunks' = Returned(i, b)
  /\ ~Empty(chunks'[i])
  /\ deallocator' = i
  /\ live' = live \ {b}
  /\ UNCHANGED <<allocator, empty, fault>>

\* The chunk is empty now and becomes the spare.
DeallocateToSpare(b, i) ==
  /\ fault = "none" /\ b \in live /\ IsOwner(i, b)
  /\ chunks' = Returned(i, b)
  /\ Empty(chunks'[i]) /\ empty = 0
  /\ deallocator' = i /\ empty' = i
  /\ live' = live \ {b}
  /\ UNCHANGED <<allocator, fault>>

\* There is a spare already: an empty chunk goes to the end, by a swap of the old
\* spare unless one of the two is there, and is freed.  The other one is the spare.
DropChunk(cs, i) ==
  LET n == Len(cs)
  IN  [k \in 1 .. n - 1 |-> IF i # n /\ k = empty THEN cs[n] ELSE cs[k]]

\* (A version that leaves the allocator's hint at the end.)
DeallocateToDropKeepHint(b, i) ==
  /\ fault = "none" /\ b \in live /\ IsOwner(i, b)
  /\ Empty(Returned(i, b)[i]) /\ empty # 0
  /\ chunks' = DropChunk(Returned(i, b), i)
  /\ LET spare == IF i = Len(chunks) THEN empty ELSE i
     IN  deallocator' = spare /\ empty' = spare
  /\ live' = live \ {b}
  /\ UNCHANGED <<allocator, fault>>
DeallocateToDrop(b, i) ==
  /\ fault = "none" /\ b \in live /\ IsOwner(i, b)
  /\ Empty(Returned(i, b)[i]) /\ empty # 0
  /\ chunks' = DropChunk(Returned(i, b), i)
  /\ LET n == Len(chunks)
         spare == IF i = n THEN empty ELSE i
     IN  /\ deallocator' = spare /\ empty' = spare
         /\ allocator' = IF allocator = n \/ Full(chunks'[allocator]) THEN spare ELSE allocator
         /\ fault' = CASE i = empty -> "twice"
                       [] i # n /\ ~Empty(Returned(i, b)[empty]) -> "end"
                       [] OTHER -> "none"
  /\ live' = live \ {b}

\* ~ChunkManager, for the next one to begin.
Destroy == chunks # << >> /\ chunks' = << >> /\ allocator' = 0 /\ deallocator' = 0
           /\ empty' = 0 /\ live' = {} /\ UNCHANGED fault

Allocate == AllocateFromHint \/ AllocateFromSpare \/ AllocateFromRoom \/ AllocateFromNew
Deallocate ==
  \E b \in live, i \in DOMAIN chunks :
    DeallocateInUse(b, i) \/ DeallocateToSpare(b, i) \/ DeallocateToDrop(b, i)

Next == Allocate \/ Deallocate \/ Destroy
Spec == Init /\ [][Next]_vars

-----------------------------------------------------------------------------
(* Properties *)

\* The blocks of a chunk that have no owner.
FreeOf(c, lv) == {k \in Index : [mem |-> c.mem, index |-> k] \notin lv}

\* In every chunk the bytes at the start of free blocks list the blocks that have no
\* owner, each once, and the count is their number: a block is never handed out twice
\* and none is lost.
FreeLists ==
  \A i \in DOMAIN chunks :
    \E s \in [1 .. chunks[i].available -> Index] : IsFreeList(chunks[i], s, FreeOf(chunks[i], live))

\* The manager's own records fit the chunks, which the vector moves about: find() finds
\* the chunk of every block with an owner, and no two chunks share an area; the pointers
\* into the vector are at chunks that are there; memory goes back but for one spare
\* chunk, which is the one remembered; and no assertion of deallocate fails
\* (ChunkManager.cpp:37-154, 172-209).
EveryBlockFound ==
  /\ \A b \in live : \E i \in DOMAIN chunks : IsOwner(i, b)
  /\ \A i, j \in DOMAIN chunks : chunks[i].mem = chunks[j].mem => i = j
HintsInside ==
  /\ {allocator, deallocator, empty} \subseteq {0} \cup DOMAIN chunks
  /\ chunks # << >> => allocator # 0 /\ deallocator # 0
OneSpare == \A i \in DOMAIN chunks : Empty(chunks[i]) <=> i = empty
Bookkeeping == EveryBlockFound /\ HintsInside /\ OneSpare /\ fault = "none"

\* The chunks together are an allocator as its callers see it: what a chunk counts as
\* in use has an owner, and only one (ChunkManager.cpp:37-154).
Taken(cs) == FoldSeq(LAMBDA c, n : (Blocks - c.available) + n, 0, cs)
Store == INSTANCE BlockStore WITH taken <- Taken(chunks)
Implements == Store!Spec
=============================================================================
