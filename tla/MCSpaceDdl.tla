----------------------------- MODULE MCSpaceDdl -----------------------------
(* SpaceDdl on small instances.                                            *)
EXTENDS SpaceDdl, TLC

Symmetric == Permutations(Nodes) \cup Permutations(Names) \cup Permutations(Handlers)
=============================================================================
