--------------------------- MODULE MCChunkManager ---------------------------
(* Chunks of three blocks, room for three chunks.  A page holds five blocks, *)
(* which a byte of five values cuts to none, so that the lower limit counts. *)
EXTENDS ChunkManager, TLC

Areas == Permutations(Memory)
=============================================================================
