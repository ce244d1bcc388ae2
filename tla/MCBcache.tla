------------------------------ MODULE MCBcache ------------------------------
(* The buffer cache over the disk driver, for model checking: threads and   *)
(* blocks are interchangeable.                                              *)
EXTENDS Bcache

Symmetry == Permutations(Block) \cup Permutations(Thread)
=============================================================================
