---------------------------- MODULE SpaceCatalog ----------------------------
(***************************************************************************)
(* What the master's DDL promises: one catalog of spaces, in which a space *)
(* appears in one step and disappears in one step, no partition server     *)
(* belongs to two spaces and no two spaces carry the same id.  SpaceDdl    *)
(* implements it with the etcd keys under /spaces/mata.                    *)
(***************************************************************************)
CONSTANTS Names,   \* db and space names
          Space,   \* the space records: a name, an id, a node for every task
          NoSpace  \* an absent key

VARIABLE catalog

NodesUsed(s) == {s.nodes[t] : t \in DOMAIN s.nodes}

Init == catalog = [n \in Names |-> NoSpace]

(* A space appears under a free name, on nodes no other space uses and     *)
(* with an id no other space has; the rest of the catalog stays.           *)
Add(n) ==
  /\ catalog[n] = NoSpace
  /\ catalog'[n] \in Space
  /\ catalog'[n].name = n
  /\ \A m \in Names : catalog[m] # NoSpace =>
        /\ NodesUsed(catalog'[n]) \cap NodesUsed(catalog[m]) = {}
        /\ catalog'[n].id # catalog[m].id
  /\ catalog' = [catalog EXCEPT ![n] = catalog'[n]]

Drop(n) ==
  /\ catalog[n] # NoSpace
  /\ catalog' = [catalog EXCEPT ![n] = NoSpace]

Next == \E n \in Names : Add(n) \/ Drop(n)

Spec == Init /\ [][Next]_catalog
=============================================================================
