--------------------------- MODULE MCTokenBucket ----------------------------
(* Two threads; enough bucket objects for one per key, one per thread and  *)
(* one being created.  The .cfg gives the limits.                          *)
EXTENDS TokenBucket, TLC

Symmetry == Permutations(Threads) \cup Permutations(Keys) \cup Permutations(Buckets)
=============================================================================
