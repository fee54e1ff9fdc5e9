---------------------------- MODULE MCDocuments ----------------------------
(* Documents on small instances.                                           *)
EXTENDS Documents

Fld(name, type, dimension, index) ==
  [name |-> name, type |-> type, dimension |-> dimension, index |-> index]
Idx(name, type, params) == [name |-> name, type |-> type, params |-> params]
Par(metric, set, hnsw) == [metric |-> metric, set |-> set, hnsw |-> hnsw]

Links == {"nlinks", "efConstruction", "efSearch"}
Cells == {"ncentroids", "nsubvector"}

(* Fields that pass alone, and one for each way to fail.                   *)
Fields == {
  Fld("_id", "string", 0, Nil),
  Fld("s", "long", 0, Idx("i", "SCALAR", Nil)),
  Fld("s", "stringarray", 0, Idx("j", "SCALAR", Par("L2", {}, "none"))),
  Fld("s", "int", 0, Idx("i", "HNSW", Nil)),
  Fld("", "int", 0, Nil),
  Fld("t", "date", 0, Nil),
  Fld("v", "vector", 2, Idx("i", "HNSW", Par("L2", Links, "none"))),
  Fld("v", "vector", 2, Idx("i", "HNSW", Par("L2", Links \ {"nlinks"}, "none"))),
  Fld("w", "vector", 1, Idx("j", "IVFFLAT", Par("InnerProduct", {"ncentroids"}, "none"))),
  Fld("w", "vector", 1, Idx("j", "FLAT", Par("none", {}, "none"))),
  Fld("u", "vector", 65536, Idx("k", "IVFPQ", Par("L2", Cells, "complete"))),
  Fld("u", "vector", 1, Idx("k", "IVFPQ", Par("L2", Cells, "small"))),
  Fld("u", "vector", 65537, Idx("k", "VEARCH", Par("L2", Cells, "none"))),
  Fld("v", "vector", 2, Idx("", "FLAT", Par("L2", {}, "none"))),
  Fld("v", "vector", 2, Idx("i", "FLAT", Nil)),
  Fld("v", "vector", 2, Nil)}

Header == [validNames : {TRUE}, partitionNum : {2}, replicaNum : {3}, partitions : {<<>>},
           idType : {""}]
OddHeaders == [validNames : BOOLEAN, partitionNum : {0, 1, 2, 101}, replicaNum : {0, 1, 2, 5},
               partitions : {<<>>, <<1>>}, idType : DocKeyTypes \cup {""}]

WithFields(h, fs) ==
  [validNames |-> h.validNames, partitionNum |-> h.partitionNum, replicaNum |-> h.replicaNum,
   partitions |-> h.partitions, idType |-> h.idType, fields |-> fs]

Usual == <<Fld("_id", "string", 0, Nil),
           Fld("v", "vector", 2, Idx("i", "HNSW", Par("L2", Links, "none")))>>

SomeSpaces ==
  {WithFields(h, fs) : h \in Header, fs \in UNION {[1 .. n -> Fields] : n \in 0 .. 3}}
  \cup {WithFields(h, Usual) : h \in OddHeaders}

Value(name, type, dimension) == [name |-> name, type |-> type, dimension |-> dimension]
SomeDocs == {
  [_id |-> "1", values |-> {Value("_id", "string", 0), Value("v", "vector", 2)}],
  [_id |-> "2", values |-> {Value("_id", "string", 0), Value("v", "vector", 2), Value("s", "long", 0)}],
  [_id |-> "2", values |-> {Value("_id", "string", 0), Value("v", "vector", 1)}],
  [_id |-> "", values |-> {Value("_id", "string", 0), Value("v", "vector", 2)}]}

Hashes == [id \in Ids |-> CASE id = "" -> 4 [] id = "1" -> 3 [] OTHER -> 6]
=============================================================================
