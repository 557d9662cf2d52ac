---------------------------- MODULE MCChunkCache ----------------------------
(* ChunkCache on a small instance: a chunk of two voxels, one block to build *)
(* with and the seed's own, which digs it out again.                         *)
EXTENDS ChunkCache, TLC

CONSTANTS low, high, stone, seeded, streamer, joiner

(* Neither the voxels nor the goroutines are told apart anywhere. *)
Symmetry == Permutations(Voxels) \cup Permutations(Getters)
=============================================================================
