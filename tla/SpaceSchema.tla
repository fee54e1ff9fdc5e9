---------------------------- MODULE SpaceSchema ----------------------------
(***************************************************************************)
(* What a space may look like and what becomes of it and of its documents: *)
(* the master's check and conversion of a requested space                  *)
(* (master/entity/dto.go), the engine's table and the document checks and  *)
(* conversions of the C++ servers (common/dto.cc).  Pure operators.        *)
(*                                                                         *)
(* A field is [name, type, dimension, index]; an index is Nil or           *)
(* [name, type, params]; params is Nil or [metric, set, hnsw], where set   *)
(* holds the integer parameters that are at least 2 and hnsw tells whether *)
(* the nested Hnsw parameters are absent, too small or complete.  A        *)
(* document is [_id, values], a value [name, type, dimension].             *)
(***************************************************************************)
EXTENDS Integers, Sequences, FiniteSets, Functions

CONSTANTS Nil,       \* an absent pointer
          LongIds    \* the ids StrToInt64 converts

_ID == "_id"
DocKeyTypes == {"long", "string"}
ScalarFieldTypes == {"int", "long", "float", "double", "string", "stringarray"}
VectorFieldTypes == {"vector"}
ScalarIndexTypes == {"SCALAR"}
VectorIndexTypes == {"IVFPQ", "HNSW", "VEARCH", "IVFFLAT", "BINARYIVF", "FLAT"}
MetricType == {"L2", "InnerProduct"}
Dimensions == 1 .. 65536

Params == [metric : STRING, set : SUBSET STRING, hnsw : {"none", "small", "complete"}]
Index == [name : STRING, type : STRING, params : Params \cup {Nil}]
Field == [name : STRING, type : STRING, dimension : Int, index : Index \cup {Nil}]
ApiSpace ==
  [validNames : BOOLEAN, partitionNum : Int, replicaNum : Int, partitions : Seq(Nat),
   idType : STRING, fields : Seq(Field)]

ASSUME SchemaAssumption == Nil \notin Params /\ Nil \notin Index

(* The types common_type.cc knows: STRINGARRAY_SDTYPE is spelt otherwise.  *)
KnownTypes == {"int", "long", "float", "double", "string", "stringarrry", "vector"}

Required(indexType) ==
  CASE indexType \in {"IVFPQ", "VEARCH"} -> {"ncentroids", "nsubvector"}
    [] indexType = "HNSW" -> {"nlinks", "efConstruction", "efSearch"}
    [] indexType \in {"IVFFLAT", "BINARYIVF"} -> {"ncentroids"}
    [] indexType = "FLAT" -> {}

ParamsOk(index) ==
  /\ index.params.metric \in MetricType
  /\ Required(index.type) \subseteq index.params.set
  /\ index.type = "IVFPQ" => index.params.hnsw # "small"

(* The checks of a vector field before its parameters are read; the        *)
(* counter lets a second vector field through.                             *)
VectorShape(acc, f) ==
  /\ acc.vectors <= 1
  /\ f.dimension \in Dimensions
  /\ f.index # Nil
  /\ f.index.type \in VectorIndexTypes

RepeatedIndex(acc, f) == f.index # Nil /\ f.index.name = ""

IndexRefused(acc, f) == f.index # Nil /\ (f.index.name = "" \/ f.index.name \in acc.indexes)

(* The loop over the fields: where it is, the names and index names it has *)
(* met, the vector fields it has counted and whether it has a message.     *)
FirstField == [at |-> 1, names |-> {}, indexes |-> {}, vectors |-> 0, msg |-> FALSE]

NamesOk(acc, f) == f.name # "" /\ f.name \notin acc.names /\ ~IndexRefused(acc, f)
Shaped(acc, f) == NamesOk(acc, f) /\ f.type \in VectorFieldTypes /\ VectorShape(acc, f)

(* The parameters of a vector field are read without a test for nil.       *)
Panics(acc, f) == Shaped(acc, f) /\ f.index.params = Nil

VectorOk(acc, f) == Shaped(acc, f) /\ ParamsOk(f.index)
ScalarOk(acc, f) ==
  /\ NamesOk(acc, f) /\ f.type \in ScalarFieldTypes
  /\ f.index = Nil \/ f.index.type \in ScalarIndexTypes

(* One turn of the loop: a field that fails a check sets msg and is left   *)
(* at once, so a later one may take its place.                             *)
CheckField(acc, f) ==
  [at |-> acc.at + 1,
   names |-> acc.names \cup ({f.name} \ {""}),
   indexes |-> acc.indexes \cup (IF NamesOk(acc, f) /\ f.index # Nil THEN {f.index.name} ELSE {}),
   vectors |-> acc.vectors + (IF VectorOk(acc, f) THEN 1 ELSE 0),
   msg |-> acc.msg \/ ~(ScalarOk(acc, f) \/ VectorOk(acc, f))]

HeaderAsMeant(s) ==
  /\ s.validNames
  /\ s.partitionNum \in 1 .. 100
  /\ s.replicaNum \in {1, 3, 5}
  /\ s.partitions = <<>>
  /\ s.idType \in DocKeyTypes

HeaderOk(s) ==
  /\ s.validNames
  /\ s.partitionNum \in 1 .. 100
  /\ s.replicaNum \in {1, 3, 5}
  /\ s.partitions = <<>>
  /\ s.idType \notin DocKeyTypes

(* Parameters are kept for three index types only, and an index without    *)
(* parameters is dropped.                                                  *)
InnerIndex(index) ==
  IF index = Nil \/ index.params = Nil THEN Nil
  ELSE [name |-> index.name, type |-> index.type,
        params |-> IF index.type \in {"IVFPQ", "VEARCH", "HNSW"} THEN index.params ELSE Nil]

ApiSpaceToInnerSpace(s) ==
  [s EXCEPT !.fields = [i \in DOMAIN s.fields |->
                          [s.fields[i] EXCEPT !.index = InnerIndex(s.fields[i].index)]]]

ToGammaDtype(type) ==
  IF type \in {"int", "float", "double", "string", "vector"} THEN type ELSE "int"

(* The table the engine is created with: the index of the last vector      *)
(* field is the table's.                                                   *)
GetGammaTable(s) ==
  LET vectors == {i \in DOMAIN s.fields : s.fields[i].type = "vector"}
      last == CHOOSE i \in vectors : \A j \in vectors : j <= i
  IN  [vectors |-> {[name |-> s.fields[i].name, dimension |-> s.fields[i].dimension] : i \in vectors},
       scalars |-> {[name |-> s.fields[i].name, type |-> ToGammaDtype(s.fields[i].type),
                     isIndex |-> s.fields[i].index # Nil] : i \in DOMAIN s.fields \ vectors},
       index |-> s.fields[last].index]

StrToInt64(id) == id \in LongIds

HasField(doc, f) ==
  \E v \in doc.values : /\ v.name = f.name /\ v.type = f.type
                        /\ f.type = "vector" => v.dimension = f.dimension

CheckPbDoc(doc, s) ==
  /\ doc._id # ""
  /\ s.idType = "long" => StrToInt64(doc._id)
  /\ \A i \in DOMAIN s.fields : s.fields[i].type \in KnownTypes /\ HasField(doc, s.fields[i])

CheckPbIds(ids, s) ==
  /\ \A i \in DOMAIN ids : ids[i] # "" /\ (s.idType = "long" => StrToInt64(ids[i]))
  /\ IsInjective(ids)

(* The names of the fields the engine's document gets; an id type other    *)
(* than long is an error, which on_apply ignores.                          *)
PbDocToGammaDoc(doc, s) ==
  IF s.idType = "long" /\ StrToInt64(doc._id)
  THEN {_ID} \cup {v.name : v \in doc.values}
  ELSE {}
=============================================================================
