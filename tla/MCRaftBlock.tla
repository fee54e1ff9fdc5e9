---------------------------- MODULE MCRaftBlock ----------------------------
(* Two replicas and two routers that each write once.                       *)
EXTENDS RaftBlock, TLC

Symmetric == {p @@ q : p \in Permutations(Nodes), q \in Permutations(Clients)}
=============================================================================
