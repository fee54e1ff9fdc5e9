--------------------------- MODULE MCRouterSpaces ---------------------------
(* RouterSpaces on small instances: two of three keys share a bucket.      *)
EXTENDS RouterSpaces, TLC

CONSTANTS a, b, c

MCBucket == (a :> 1) @@ (b :> 1) @@ (c :> 2)

Symmetric == Permutations(Threads)
=============================================================================
