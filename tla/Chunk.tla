------------------------------- MODULE Chunk -------------------------------
(***************************************************************************)
(* utility/Chunk: a run of equal blocks with the 'stealth' free list.  The *)
(* first byte of a free block is the index of the next free block; the     *)
(* first byte of a block in use belongs to its user.                       *)
(***************************************************************************)
EXTENDS Integers, FiniteSets

CONSTANTS
  Memory,     \* the areas malloc can return
  BlockSize,  \* bytes of a block
  PageSize,   \* OODLES_PAGE_SIZE
  MinBlocks,  \* minimum_chunk_size(): CHAR_BIT
  MaxBlocks,  \* maximum_chunk_size(): UCHAR_MAX
  ByteRange,  \* how many values a byte_t has: 256
  Junk        \* a byte no one set, or a user did

ASSUME SizeAssumption == BlockSize \in Nat \ {0} /\ PageSize \in Nat \ {0}
ASSUME BlockAssumption ==
  /\ MinBlocks \in Nat \ {0} /\ MaxBlocks \in Nat
  /\ MinBlocks <= MaxBlocks /\ MaxBlocks < ByteRange /\ ByteRange \in Nat
ASSUME JunkAssumption == Junk \notin Nat

\* ChunkManager::initialise.  The number of blocks is a byte before it is compared:
\* with blocks of 8 bytes a page of 4096 holds 512, which is 0 by then, and so 8.
Blocks ==
  LET n == (PageSize \div BlockSize) % ByteRange
  IN  IF n > MaxBlocks THEN MaxBlocks ELSE IF n < MinBlocks THEN MinBlocks ELSE n

Index == 0 .. Blocks - 1
Byte == Index \cup {Junk}
Block == [mem : Memory, index : Index]

ChunkRecord ==
  [mem : Memory, next : Byte, available : 0 .. Blocks, first : [Index -> Byte]]

\* reserve_space: the last block's first byte is left as malloc gave it.
ReserveSpace(a) ==
  [mem |-> a, next |-> 0, available |-> Blocks,
   first |-> [k \in Index |-> IF k = Blocks - 1 THEN Junk ELSE k + 1]]

Full(c) == c.available = 0
Empty(c) == c.available = Blocks

\* The block a chunk hands out next.
NextBlock(c) == [mem |-> c.mem, index |-> c.next]

\* Chunk::allocate; the caller has made sure that the chunk is not full.
\* (A version that keeps the head.)
TakeSameBlock(c) == [c EXCEPT !.available = @ - 1]
TakeBlock(c) ==
  [c EXCEPT !.next = c.first[c.next], !.first[c.next] = Junk, !.available = @ - 1]

\* Chunk::deallocate.
\* (A version that breaks the list behind the block.)
PutBlockAlone(c, k) == [c EXCEPT !.first[k] = Junk, !.next = k, !.available = @ + 1]
PutBlock(c, k) == [c EXCEPT !.first[k] = c.next, !.next = k, !.available = @ + 1]

\* An empty chunk owns no block, whatever its range.
OwnsBlock(c, b) == ~Empty(c) /\ b.mem = c.mem

-----------------------------------------------------------------------------
\* The blocks in free are those the first bytes of blocks list, in the order s, and the
\* count is their number.
IsFreeList(c, s, free) ==
  /\ s \in [1 .. c.available -> Index]
  /\ c.available = Cardinality(free)
  /\ \A x, y \in 1 .. c.available : s[x] = s[y] => x = y
  /\ c.available > 0 => s[1] = c.next
  /\ \A x \in 1 .. c.available - 1 : c.first[s[x]] = s[x + 1]
  /\ {s[x] : x \in 1 .. c.available} = free
=============================================================================
