------------------------------ MODULE MCPsNode ------------------------------
(* PsNode with two spaces and three node ids.                               *)
EXTENDS PsNode, TLC

Symmetric == Permutations(Spaces)
=============================================================================
