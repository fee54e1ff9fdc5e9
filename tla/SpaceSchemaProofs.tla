------------------------- MODULE SpaceSchemaProofs --------------------------
(***************************************************************************)
(* Proofs about the check, the conversion and the table of a space         *)
(* (SpaceSchema and the first actions of Documents), for every set of      *)
(* spaces and any number and order of their fields.                        *)
(***************************************************************************)
EXTENDS Documents, FiniteSetTheorems, TLAPS

(* The loop of CheckApiSpace.  A field that passed: what its checks asked  *)
(* of it, the parameters it would have panicked without included.          *)
PassedVector(f) ==
  /\ f.type = "vector" /\ f.dimension \in Dimensions
  /\ f.index # Nil /\ f.index.type \in VectorIndexTypes
  /\ f.index.params # Nil /\ ParamsOk(f.index)

PassedScalar(f) ==
  f.type \in ScalarFieldTypes /\ (f.index = Nil \/ f.index.type \in ScalarIndexTypes)

FieldPassed(f) ==
  /\ f.name # "" /\ (f.index # Nil => f.index.name # "")
  /\ PassedVector(f) \/ PassedScalar(f)

Distinct(S) ==
  /\ \A i, j \in S : i # j => space.fields[i].name # space.fields[j].name
  /\ \A i, j \in S \cap Indexed : i # j => space.fields[i].index.name # space.fields[j].index.name

Seen == 1 .. check.at - 1

(* A space that must not be refused.                                       *)
Wanted ==
  /\ HeaderOk(space) /\ WellFormed /\ Cardinality(VectorFields) = 1
  /\ \A i \in VectorFields : space.fields[i].index.params # Nil /\ ParamsOk(space.fields[i].index)

(* While there is no message, the loop's name sets and its counter are     *)
(* those of the fields it has seen, and these have passed.                 *)
LoopInv ==
  stage = "checking" =>
    /\ check.at \in 1 .. Len(space.fields) + 1 /\ check.msg \in BOOLEAN
    /\ ~check.msg =>
         /\ \A i \in Seen : FieldPassed(space.fields[i])
         /\ Distinct(Seen)
         /\ check.names = {space.fields[i].name : i \in Seen}
         /\ check.indexes = {space.fields[i].index.name : i \in Seen \cap Indexed}
         /\ check.vectors = Cardinality(Seen \cap VectorFields) /\ check.vectors <= 2
    /\ Wanted => ~check.msg

(* What SchemaSound says of a space that was let through.                  *)
Accepted ==
  /\ WellFormed
  /\ Cardinality(VectorFields) \in {1, 2}
  /\ Cardinality(table.vectors) = Cardinality(VectorFields)
  /\ Cardinality(table.vectors \cup table.scalars) = Len(space.fields)
  /\ \E i \in VectorFields : table.index = space.fields[i].index
  /\ table.index.params # Nil => ParamsOk(table.index)

SchemaInv == space \in ApiSpace /\ LoopInv /\ SchemaSound

VectorsOf(s) == {i \in DOMAIN s.fields : s.fields[i].type = "vector"}

-----------------------------------------------------------------------------
(* The elements of a sequence.                                             *)
LEMMA SeqElements ==
  ASSUME NEW S, NEW q \in Seq(S)
  PROVE  DOMAIN q = 1 .. Len(q) /\ \A i \in 1 .. Len(q) : q[i] \in S
  OBVIOUS

(* The positions of the fields, and those of the vector fields.            *)
LEMMA Positions ==
  ASSUME NEW s \in ApiSpace
  PROVE  /\ Len(s.fields) \in Nat /\ DOMAIN s.fields = 1 .. Len(s.fields)
         /\ \A i \in DOMAIN s.fields : s.fields[i] \in Field
         /\ IsFiniteSet(DOMAIN s.fields)
         /\ Cardinality(DOMAIN s.fields) = Len(s.fields)
         /\ VectorsOf(s) \subseteq DOMAIN s.fields /\ IsFiniteSet(VectorsOf(s))
<1>1. s.fields \in Seq(Field)
  BY Zenon DEF ApiSpace
<1>2. /\ DOMAIN s.fields = 1 .. Len(s.fields)
      /\ \A i \in 1 .. Len(s.fields) : s.fields[i] \in Field
  BY Zenon, <1>1, SeqElements
<1>3. Len(s.fields) \in Nat
  BY <1>1
<1> DEFINE n == Len(s.fields)
           D == 1 .. n
<1>4. IsFiniteSet(D) /\ Cardinality(D) = n
  <2> HIDE DEF n
  <2>0. n \in Nat
    BY Zenon, <1>3 DEF n
  <2>1. 1 \in Int /\ n \in Int
    BY <2>0
  <2>2. IsFiniteSet(1 .. n) /\ Cardinality(1 .. n) = IF 1 > n THEN 0 ELSE n - 1 + 1
    BY Zenon, <2>1, FS_Interval
  <2>3. (1 > n => 0 = n) /\ (~(1 > n) => n - 1 + 1 = n)
    BY <2>0
  <2> QED BY Zenon, <2>2, <2>3
<1>5. VectorsOf(s) \subseteq D
  BY Zenon, <1>2 DEF VectorsOf
<1>6. IsFiniteSet(VectorsOf(s))
  BY Zenon, <1>4, <1>5, FS_Subset
<1> QED BY Zenon, <1>2, <1>3, <1>4, <1>5, <1>6

(* A field passes exactly when it leaves no message.                       *)
LEMMA PassedField ==
  ASSUME NEW acc, NEW f \in Field, acc.msg \in BOOLEAN, ~Panics(acc, f)
  PROVE  LET next == CheckField(acc, f)
         IN  /\ next.at = acc.at + 1 /\ next.msg \in BOOLEAN
             /\ ~next.msg =>
                  /\ ~acc.msg /\ FieldPassed(f)
                  /\ f.name \notin acc.names /\ next.names = acc.names \cup {f.name}
                  /\ f.index = Nil => next.indexes = acc.indexes
                  /\ f.index # Nil => /\ f.index.name \notin acc.indexes
                                      /\ next.indexes = acc.indexes \cup {f.index.name}
                  /\ f.type = "vector" => acc.vectors <= 1 /\ next.vectors = acc.vectors + 1
                  /\ f.type # "vector" => next.vectors = acc.vectors + 0
             /\ ( /\ ~acc.msg /\ FieldPassed(f) /\ f.name \notin acc.names
                  /\ f.index # Nil => f.index.name \notin acc.indexes
                  /\ f.type = "vector" => acc.vectors <= 1 ) => ~next.msg
<1> DEFINE next == CheckField(acc, f)
<1>1. /\ next.at = acc.at + 1
      /\ next.names = acc.names \cup ({f.name} \ {""})
      /\ next.indexes = acc.indexes \cup (IF NamesOk(acc, f) /\ f.index # Nil THEN {f.index.name} ELSE {})
      /\ next.vectors = acc.vectors + (IF VectorOk(acc, f) THEN 1 ELSE 0)
      /\ next.msg = (acc.msg \/ ~(ScalarOk(acc, f) \/ VectorOk(acc, f)))
  BY Zenon DEF CheckField
<1> HIDE DEF next
<1>2. next.msg \in BOOLEAN
  BY Zenon, <1>1
<1>3. ASSUME ~next.msg
      PROVE  ~acc.msg /\ (ScalarOk(acc, f) \/ VectorOk(acc, f)) /\ NamesOk(acc, f)
  BY Zenon, <1>1, <1>3 DEF ScalarOk, VectorOk, Shaped
<1>4. ASSUME ~next.msg
      PROVE  /\ FieldPassed(f) /\ f.name \notin acc.names
             /\ f.index # Nil => f.index.name \notin acc.indexes
             /\ VectorOk(acc, f) <=> f.type = "vector"
             /\ f.type = "vector" => acc.vectors <= 1
  <2>1. /\ f.name # "" /\ f.name \notin acc.names
        /\ f.index # Nil => f.index.name # "" /\ f.index.name \notin acc.indexes
    BY Zenon, <1>3, <1>4 DEF NamesOk, IndexRefused
  <2>2. VectorOk(acc, f) => PassedVector(f) /\ acc.vectors <= 1
    BY Zenon DEF VectorOk, Shaped, Panics, VectorShape, PassedVector, VectorFieldTypes
  <2>3. ScalarOk(acc, f) => PassedScalar(f)
    BY Zenon DEF ScalarOk, PassedScalar
  <2>4. ~(PassedScalar(f) /\ f.type = "vector")
    BY Zenon DEF PassedScalar, ScalarFieldTypes
  <2> QED BY Zenon, <1>3, <1>4, <2>1, <2>2, <2>3, <2>4 DEF FieldPassed, PassedVector
<1>5. ASSUME ~next.msg
      PROVE  /\ next.names = acc.names \cup {f.name}
             /\ f.index = Nil => next.indexes = acc.indexes
             /\ f.index # Nil => next.indexes = acc.indexes \cup {f.index.name}
  BY Zenon, <1>1, <1>3, <1>5 DEF NamesOk
<1>6. ASSUME ~next.msg
      PROVE  /\ f.type = "vector" => next.vectors = acc.vectors + 1
             /\ f.type # "vector" => next.vectors = acc.vectors + 0
  BY Zenon, <1>1, <1>4, <1>6
<1>7. ASSUME ~acc.msg, FieldPassed(f), f.name \notin acc.names,
             f.index # Nil => f.index.name \notin acc.indexes,
             f.type = "vector" => acc.vectors <= 1
      PROVE  ~next.msg
  <2>1. NamesOk(acc, f)
    BY Zenon, <1>7 DEF NamesOk, IndexRefused, FieldPassed
  <2>2. ScalarOk(acc, f) \/ VectorOk(acc, f)
    <3>1. CASE PassedVector(f)
      BY Zenon, <1>7, <2>1, <3>1 DEF VectorOk, Shaped, VectorShape, PassedVector, VectorFieldTypes
    <3>2. CASE PassedScalar(f)
      BY Zenon, <2>1, <3>2 DEF ScalarOk, PassedScalar
    <3> QED BY Zenon, <1>7, <3>1, <3>2 DEF FieldPassed
  <2> QED BY Zenon, <1>1, <1>7, <2>2
<1> QED BY Zenon, <1>1, <1>2, <1>3, <1>4, <1>5, <1>6, <1>7 DEF next

(* What the loop reads of the space is what it was.                        *)
LEMMA FieldsFrame ==
  ASSUME UNCHANGED space
  PROVE  /\ VectorFields' = VectorFields /\ Indexed' = Indexed
         /\ WellFormed' <=> WellFormed
         /\ Wanted' <=> Wanted
         /\ \A S : Distinct(S)' <=> Distinct(S)
<1>1. VectorFields' = VectorFields /\ Indexed' = Indexed
  BY Zenon DEF VectorFields, Indexed
<1>2. WellFormed' <=> WellFormed
  BY Zenon, <1>1 DEF WellFormed
<1>3. Wanted' <=> Wanted
  BY Zenon, <1>1, <1>2 DEF Wanted
<1>4. \A S : Distinct(S)' <=> Distinct(S)
  BY Zenon, <1>1 DEF Distinct
<1> QED BY Zenon, <1>1, <1>2, <1>3, <1>4

(* A field that is all that is asked of it passes its checks.              *)
LEMMA WantedField ==
  ASSUME space \in ApiSpace, Wanted, NEW i \in DOMAIN space.fields
  PROVE  FieldPassed(space.fields[i])
<1> DEFINE f == space.fields[i]
<1>1. f.name # "" /\ (f.index # Nil => f.index.name # "")
  BY Zenon DEF Wanted, WellFormed, Indexed
<1>2. CASE i \in VectorFields
  <2>1. /\ f.type = "vector" /\ f.index # Nil /\ f.dimension \in Dimensions
        /\ f.index.type \in VectorIndexTypes /\ f.index.params # Nil /\ ParamsOk(f.index)
    BY Zenon, <1>2 DEF Wanted, WellFormed, Indexed, VectorFields
  <2> QED BY Zenon, <1>1, <2>1 DEF FieldPassed, PassedVector
<1>3. CASE i \notin VectorFields
  <2>1. f.type \in ScalarFieldTypes /\ (f.index # Nil => f.index.type \in ScalarIndexTypes)
    BY Zenon, <1>3 DEF Wanted, WellFormed, Indexed
  <2> QED BY Zenon, <1>1, <2>1 DEF FieldPassed, PassedScalar
<1> QED BY Zenon, <1>2, <1>3

(* One turn of the loop.                                                   *)
LEMMA LoopStep ==
  ASSUME space \in ApiSpace, LoopInv, CheckNextField, stage' = "checking"
  PROVE  LoopInv'
<1> DEFINE k == check.at
           f == space.fields[k]
<1>1. /\ stage = "checking" /\ k <= Len(space.fields) /\ UNCHANGED space
      /\ ~Panics(check, f) /\ check' = CheckField(check, f)
  BY Zenon DEF CheckNextField
<1>2. k \in 1 .. Len(space.fields) + 1 /\ check.msg \in BOOLEAN /\ (Wanted => ~check.msg)
  BY Zenon, <1>1 DEF LoopInv
<1>3. /\ Len(space.fields) \in Nat /\ DOMAIN space.fields = 1 .. Len(space.fields)
      /\ \A i \in DOMAIN space.fields : space.fields[i] \in Field
      /\ VectorFields \subseteq DOMAIN space.fields /\ IsFiniteSet(VectorFields)
  BY Zenon, Positions DEF VectorFields, VectorsOf
<1>4. k \in DOMAIN space.fields /\ k \in Nat \ {0} /\ k \notin Seen
  BY <1>1, <1>2, <1>3 DEF Seen
<1>5. f \in Field
  BY Zenon, <1>3, <1>4
<1>6. /\ check'.at = k + 1 /\ check'.msg \in BOOLEAN
      /\ ~check'.msg =>
           /\ ~check.msg /\ FieldPassed(f)
           /\ f.name \notin check.names /\ check'.names = check.names \cup {f.name}
           /\ f.index = Nil => check'.indexes = check.indexes
           /\ f.index # Nil => /\ f.index.name \notin check.indexes
                               /\ check'.indexes = check.indexes \cup {f.index.name}
           /\ f.type = "vector" => check.vectors <= 1 /\ check'.vectors = check.vectors + 1
           /\ f.type # "vector" => check'.vectors = check.vectors + 0
      /\ ( /\ ~check.msg /\ FieldPassed(f) /\ f.name \notin check.names
           /\ f.index # Nil => f.index.name \notin check.indexes
           /\ f.type = "vector" => check.vectors <= 1 ) => ~check'.msg
  BY Zenon, <1>1, <1>2, <1>5, PassedField
<1>7. Seen' = Seen \cup {k}
  <2>1. check'.at = k + 1
    BY Zenon, <1>6
  <2> HIDE DEF k
  <2>2. Seen' = 1 .. (k + 1) - 1 /\ Seen = 1 .. k - 1
    BY Zenon, <2>1 DEF Seen, k
  <2>3. 1 .. (k + 1) - 1 = (1 .. k - 1) \cup {k}
    BY <1>4
  <2> QED BY Zenon, <2>2, <2>3
<1>8. check'.at \in 1 .. Len(space.fields) + 1
  BY <1>1, <1>2, <1>3, <1>6
<1>9. ASSUME ~check.msg
      PROVE  /\ \A i \in Seen : FieldPassed(space.fields[i])
             /\ Distinct(Seen)
             /\ check.names = {space.fields[i].name : i \in Seen}
             /\ check.indexes = {space.fields[i].index.name : i \in Seen \cap Indexed}
             /\ check.vectors = Cardinality(Seen \cap VectorFields) /\ check.vectors <= 2
  BY Zenon, <1>1, <1>9 DEF LoopInv
<1>10. /\ k \in Indexed <=> f.index # Nil
       /\ k \in VectorFields <=> f.type = "vector"
  BY Zenon, <1>4 DEF Indexed, VectorFields
<1> DEFINE V == Seen \cap VectorFields
<1>11. IsFiniteSet(V) /\ Cardinality(V) \in Nat /\ Cardinality(V) <= Cardinality(VectorFields)
  <2>1. V \subseteq VectorFields
    BY Zenon
  <2> HIDE DEF V
  <2>2. IsFiniteSet(V) /\ Cardinality(V) <= Cardinality(VectorFields)
    BY Zenon, <1>3, <2>1, FS_Subset
  <2> QED BY Zenon, <2>2, FS_CardinalityType
<1> HIDE DEF k, f, V
<1>12. ASSUME ~check'.msg
       PROVE  /\ \A i \in Seen' : FieldPassed(space.fields[i])
              /\ Distinct(Seen')
              /\ check'.names = {space.fields[i].name : i \in Seen'}
              /\ check'.indexes = {space.fields[i].index.name : i \in Seen' \cap Indexed}
              /\ check'.vectors = Cardinality(Seen' \cap VectorFields) /\ check'.vectors <= 2
  <2>1. \A i \in Seen' : FieldPassed(space.fields[i])
    BY Zenon, <1>6, <1>7, <1>9, <1>12 DEF f
  <2>2. /\ \A i \in Seen : space.fields[i].name # f.name
        /\ f.index # Nil => \A i \in Seen \cap Indexed : space.fields[i].index.name # f.index.name
    BY Zenon, <1>6, <1>9, <1>12
  <2>3. Distinct(Seen')
    <3>1. Distinct(Seen)
      BY Zenon, <1>6, <1>9, <1>12
    <3>2. \A i, j \in Seen' : i # j => space.fields[i].name # space.fields[j].name
      BY Zenon, <1>7, <2>2, <3>1 DEF Distinct, f
    <3>3. \A i, j \in Seen' \cap Indexed :
            i # j => space.fields[i].index.name # space.fields[j].index.name
      BY Zenon, <1>7, <1>10, <2>2, <3>1 DEF Distinct, f
    <3> QED BY Zenon, <3>2, <3>3 DEF Distinct
  <2>4. check'.names = {space.fields[i].name : i \in Seen'}
    BY Zenon, <1>6, <1>7, <1>9, <1>12 DEF f
  <2>5. check'.indexes = {space.fields[i].index.name : i \in Seen' \cap Indexed}
    BY <1>6, <1>7, <1>9, <1>10, <1>12 DEF f
  <2>6. CASE f.type = "vector"
    <3>1. Seen' \cap VectorFields = V \cup {k} /\ k \notin V
      BY Zenon, <1>4, <1>7, <1>10, <2>6 DEF V
    <3>2. Cardinality(V \cup {k}) = Cardinality(V) + 1
      BY Zenon, <1>11, <3>1, FS_AddElement
    <3>3. check'.vectors = Cardinality(V) + 1 /\ Cardinality(V) <= 1
      BY Zenon, <1>6, <1>9, <1>12, <2>6 DEF V
    <3>4. check'.vectors <= 2
      BY <1>11, <3>3
    <3> QED BY Zenon, <2>1, <2>3, <2>4, <2>5, <3>1, <3>2, <3>3, <3>4
  <2>7. CASE f.type # "vector"
    <3>1. Seen' \cap VectorFields = V
      BY Zenon, <1>7, <1>10, <2>7 DEF V
    <3>2. check'.vectors = Cardinality(V) + 0 /\ Cardinality(V) <= 2
      BY Zenon, <1>6, <1>9, <1>12, <2>7 DEF V
    <3>3. check'.vectors = Cardinality(V) /\ check'.vectors <= 2
      BY <1>11, <3>2
    <3> QED BY Zenon, <2>1, <2>3, <2>4, <2>5, <3>1, <3>3
  <2> QED BY Zenon, <2>6, <2>7
<1>13. ASSUME Wanted PROVE ~check'.msg
  <2>1. ~check.msg
    BY Zenon, <1>2, <1>13
  <2>2. FieldPassed(f)
    BY Zenon, <1>4, <1>13, WantedField DEF f
  <2>3. Seen \subseteq DOMAIN space.fields
    BY <1>2, <1>3 DEF Seen, k
  <2>4. f.name \notin check.names
    <3>1. \A i \in Seen : i # k /\ space.fields[i].name # f.name
      BY Zenon, <1>4, <1>13, <2>3 DEF Wanted, WellFormed, f
    <3>2. check.names = {space.fields[i].name : i \in Seen}
      BY Zenon, <1>9, <2>1
    <3> QED BY Zenon, <3>1, <3>2
  <2>5. f.index # Nil => f.index.name \notin check.indexes
    <3>1. f.index # Nil => \A i \in Seen \cap Indexed : i # k /\ space.fields[i].index.name # f.index.name
      BY Zenon, <1>4, <1>10, <1>13 DEF Wanted, WellFormed, f
    <3>2. check.indexes = {space.fields[i].index.name : i \in Seen \cap Indexed}
      BY Zenon, <1>9, <2>1
    <3> QED BY Zenon, <3>1, <3>2
  <2>6. check.vectors <= 1
    <3>1. check.vectors = Cardinality(V) /\ Cardinality(V) <= 1
      BY Zenon, <1>9, <1>11, <1>13, <2>1 DEF Wanted, V
    <3> QED BY Zenon, <3>1
  <2> QED BY Zenon, <1>6, <2>1, <2>2, <2>4, <2>5, <2>6
<1>14. /\ VectorFields' = VectorFields /\ Indexed' = Indexed /\ (Wanted' <=> Wanted)
       /\ \A S : Distinct(S)' <=> Distinct(S)
  BY Zenon, <1>1, FieldsFrame
<1>15. Distinct(Seen)' <=> Distinct(Seen')
  BY Zenon, <1>14
<1> QED BY Zenon, <1>1, <1>6, <1>8, <1>12, <1>13, <1>14, <1>15 DEF LoopInv

-----------------------------------------------------------------------------
(* The conversion of an index keeps its shape.                             *)
LEMMA InnerIndexType ==
  ASSUME NEW x \in Index \cup {Nil}
  PROVE  InnerIndex(x) \in Index \cup {Nil}
  BY Zenon DEF InnerIndex, Index

(* So does the whole conversion, which leaves the header as it is.         *)
LEMMA Conversion ==
  ASSUME NEW s \in ApiSpace
  PROVE  /\ ApiSpaceToInnerSpace(s) \in ApiSpace
         /\ HeaderOk(s) => HeaderOk(ApiSpaceToInnerSpace(s))
<1> DEFINE fs == [i \in DOMAIN s.fields |->
                    [s.fields[i] EXCEPT !.index = InnerIndex(s.fields[i].index)]]
           t == ApiSpaceToInnerSpace(s)
<1>1. s.fields \in Seq(Field)
  BY Zenon DEF ApiSpace
<1>2. DOMAIN s.fields = 1 .. Len(s.fields) /\ Len(s.fields) \in Nat
  BY <1>1
<1>3. ASSUME NEW i \in DOMAIN s.fields PROVE fs[i] \in Field
  <2>1. s.fields[i] \in Field
    BY Zenon, <1>1, <1>2, SeqElements
  <2>2. InnerIndex(s.fields[i].index) \in Index \cup {Nil}
    BY Zenon, <2>1, InnerIndexType DEF Field
  <2> QED BY Zenon, <2>1, <2>2 DEF Field
<1>4. fs \in Seq(Field)
  <2> HIDE DEF fs
  <2>1. fs \in [1 .. Len(s.fields) -> Field]
    BY Zenon, <1>2, <1>3 DEF fs
  <2> QED BY <1>2, <2>1
<1>5. t = [s EXCEPT !.fields = fs]
  BY Zenon DEF ApiSpaceToInnerSpace
<1> HIDE DEF fs, t
<1>6. t \in ApiSpace
  BY Zenon, <1>4, <1>5 DEF ApiSpace
<1>7. HeaderOk(s) => HeaderOk(t)
  BY Zenon, <1>5 DEF HeaderOk, ApiSpace
<1> QED BY Zenon, <1>6, <1>7 DEF t
(* What is left of an index.                                               *)
LEMMA InnerIndexOf ==
  ASSUME NEW x \in Index \cup {Nil}
  PROVE  LET y == InnerIndex(x)
         IN  /\ y # Nil <=> x # Nil /\ x.params # Nil
             /\ y # Nil => y.name = x.name /\ y.type = x.type /\ (y.params # Nil => y.params = x.params)
<1> DEFINE y == InnerIndex(x)
           ps == IF x.type \in {"IVFPQ", "VEARCH", "HNSW"} THEN x.params ELSE Nil
<1>1. CASE x = Nil \/ x.params = Nil
  <2>1. y = Nil
    BY Zenon, <1>1 DEF InnerIndex
  <2> QED BY Zenon, <1>1, <2>1
<1>2. CASE x # Nil /\ x.params # Nil
  <2>1. y = [name |-> x.name, type |-> x.type, params |-> ps]
    BY Zenon, <1>2 DEF InnerIndex
  <2>2. x.name \in STRING /\ x.type \in STRING /\ ps \in Params \cup {Nil}
    BY Zenon, <1>2 DEF Index
  <2> HIDE DEF y, ps
  <2>3. y.name = x.name /\ y.type = x.type /\ y.params = ps /\ y \in Index
    BY Zenon, <2>1, <2>2 DEF Index
  <2>4. y # Nil
    BY Zenon, <2>3, SchemaAssumption
  <2>5. ps # Nil => ps = x.params
    BY Zenon DEF ps
  <2> QED BY Zenon, <1>2, <2>3, <2>4, <2>5 DEF y
<1> QED BY Zenon, <1>1, <1>2

(* The fields of the converted space.                                      *)
LEMMA InnerFields ==
  ASSUME NEW s \in ApiSpace
  PROVE  LET t == ApiSpaceToInnerSpace(s)
         IN  /\ DOMAIN t.fields = DOMAIN s.fields /\ Len(t.fields) = Len(s.fields)
             /\ \A i \in DOMAIN s.fields :
                  /\ s.fields[i].index \in Index \cup {Nil}
                  /\ t.fields[i].name = s.fields[i].name /\ t.fields[i].type = s.fields[i].type
                  /\ t.fields[i].dimension = s.fields[i].dimension
                  /\ t.fields[i].index = InnerIndex(s.fields[i].index)
<1> DEFINE fs == [i \in DOMAIN s.fields |->
                    [s.fields[i] EXCEPT !.index = InnerIndex(s.fields[i].index)]]
           t == ApiSpaceToInnerSpace(s)
<1>1. s.fields \in Seq(Field)
  BY Zenon DEF ApiSpace
<1>2. t.fields = fs
  BY Zenon DEF ApiSpaceToInnerSpace, ApiSpace
<1>3. ASSUME NEW i \in DOMAIN s.fields
      PROVE  /\ s.fields[i].index \in Index \cup {Nil}
             /\ fs[i].name = s.fields[i].name /\ fs[i].type = s.fields[i].type
             /\ fs[i].dimension = s.fields[i].dimension
             /\ fs[i].index = InnerIndex(s.fields[i].index)
  <2>1. s.fields[i] \in Field
    BY Zenon, <1>1, SeqElements
  <2> QED BY Zenon, <2>1 DEF Field
<1>4. DOMAIN fs = DOMAIN s.fields
  BY Zenon
<1>5. Len(fs) = Len(s.fields)
  <2>1. Len(s.fields) \in Nat /\ DOMAIN fs = 1 .. Len(s.fields)
    BY <1>1, <1>4
  <2> HIDE DEF fs
  <2> QED BY <2>1
<1> HIDE DEF fs, t
<1> QED BY Zenon, <1>2, <1>3, <1>4, <1>5 DEF t

(* A function that tells its arguments apart has as many values.           *)
LEMMA ImageSize ==
  ASSUME NEW S, IsFiniteSet(S), NEW T, NEW f \in [S -> T],
         \A x, y \in S : x # y => f[x] # f[y],
         \A y \in T : \E x \in S : f[x] = y
  PROVE  Cardinality(T) = Cardinality(S)
<1>1. f \in Bijection(S, T)
  BY Zenon DEF Bijection, Injection, Surjection, IsInjective
<1>2. ExistsBijection(S, T)
  BY Zenon, <1>1 DEF ExistsBijection
<1> QED BY Zenon, <1>2, FS_Bijection

(* One or two positions have a last one.                                   *)
LEMMA LastOfTwo ==
  ASSUME NEW S \in SUBSET Nat, IsFiniteSet(S), Cardinality(S) \in {1, 2}
  PROVE  \E i \in S : \A j \in S : j <= i
<1>1. CASE Cardinality(S) = 1
  <2>1. PICK x : S = {x}
    BY Zenon, <1>1, FS_Singleton
  <2> QED BY <2>1
<1>2. CASE Cardinality(S) = 2
  <2>1. PICK x : x \in S
    <3>1. S # {}
      <4>1. Cardinality({}) = 0
        BY Zenon, FS_EmptySet
      <4> QED BY <1>2, <4>1
    <3> QED BY Zenon, <3>1
  <2> DEFINE R == S \ {x}
  <2>2. IsFiniteSet(R) /\ Cardinality(R) = Cardinality(S) - 1
    BY Zenon, <2>1, FS_RemoveElement
  <2> HIDE DEF R
  <2>3. PICK y : R = {y}
    <3>1. Cardinality(R) = 1
      BY <1>2, <2>2
    <3> QED BY Zenon, <2>2, <3>1, FS_Singleton
  <2>4. S = {x, y}
    BY Zenon, <2>1, <2>3 DEF R
  <2>5. x \in Nat /\ y \in Nat
    BY Zenon, <2>4
  <2> QED BY <2>4, <2>5
<1> QED BY Zenon, <1>1, <1>2

-----------------------------------------------------------------------------
(* SchemaSound has a part for each verdict.                                *)
LEMMA SchemaCases ==
  SchemaSound <=> /\ stage \in {"created", "added"} => Accepted
                  /\ stage = "refused" => ~Wanted
  BY Zenon DEF SchemaSound, Accepted, Wanted

(* A space with its inner fields that is well formed gives the table it    *)
(* should.                                                                 *)
LEMMA TableOf ==
  ASSUME NEW s \in ApiSpace, Cardinality(VectorsOf(s)) \in {1, 2},
         \A i, j \in DOMAIN s.fields : i # j => s.fields[i].name # s.fields[j].name
  PROVE  LET t == GetGammaTable(s)
         IN  /\ Cardinality(t.vectors) = Cardinality(VectorsOf(s))
             /\ Cardinality(t.vectors \cup t.scalars) = Len(s.fields)
             /\ \E i \in VectorsOf(s) : t.index = s.fields[i].index
<1> DEFINE D == DOMAIN s.fields
           V == VectorsOf(s)
           t == GetGammaTable(s)
           vector(i) == [name |-> s.fields[i].name, dimension |-> s.fields[i].dimension]
           scalar(i) == [name |-> s.fields[i].name, type |-> ToGammaDtype(s.fields[i].type),
                         isIndex |-> s.fields[i].index # Nil]
           last == CHOOSE i \in V : \A j \in V : j <= i
           f == [i \in D |-> IF i \in V THEN vector(i) ELSE scalar(i)]
           fV == [i \in V |-> vector(i)]
           T == {f[i] : i \in D}
           TV == {fV[i] : i \in V}
<1>1. /\ Len(s.fields) \in Nat /\ D = 1 .. Len(s.fields) /\ IsFiniteSet(D)
      /\ Cardinality(D) = Len(s.fields) /\ V \subseteq D /\ IsFiniteSet(V)
  BY Zenon, Positions
<1>2. /\ t.vectors = {vector(i) : i \in V}
      /\ t.scalars = {scalar(i) : i \in D \ V}
      /\ t.index = s.fields[last].index
  BY Zenon DEF GetGammaTable, VectorsOf
<1>3. /\ \A i \in D : f[i].name = s.fields[i].name
      /\ \A i \in V : fV[i].name = s.fields[i].name
  BY Zenon, <1>1
<1>4. /\ \A i, j \in D : i # j => f[i] # f[j]
      /\ \A i, j \in V : i # j => fV[i] # fV[j]
  BY Zenon, <1>1, <1>3
<1>5. /\ T = {vector(i) : i \in V} \cup {scalar(i) : i \in D \ V}
      /\ TV = {vector(i) : i \in V}
  <2> HIDE DEF D, V, vector, scalar
  <2> QED BY Zenon, <1>1
<1>6. f \in [D -> T] /\ fV \in [V -> TV]
  BY Zenon
<1>7. /\ \A y \in T : \E i \in D : f[i] = y
      /\ \A y \in TV : \E i \in V : fV[i] = y
  BY Zenon
<1> HIDE DEF f, fV, D, V, T, TV
<1>8. Cardinality(T) = Cardinality(D)
  <2>1. IsFiniteSet(D) /\ f \in [D -> T]
    BY Zenon, <1>1, <1>6
  <2>2. \A x, y \in D : x # y => f[x] # f[y]
    BY Zenon, <1>4
  <2>3. \A y \in T : \E x \in D : f[x] = y
    BY Zenon, <1>7
  <2> QED BY Zenon, <2>1, <2>2, <2>3, ImageSize
<1>9. Cardinality(TV) = Cardinality(V)
  <2>1. IsFiniteSet(V) /\ fV \in [V -> TV]
    BY Zenon, <1>1, <1>6
  <2>2. \A x, y \in V : x # y => fV[x] # fV[y]
    BY Zenon, <1>4
  <2>3. \A y \in TV : \E x \in V : fV[x] = y
    BY Zenon, <1>7
  <2> QED BY Zenon, <2>1, <2>2, <2>3, ImageSize
<1>10. last \in V
  <2>1. V \subseteq Nat
    BY <1>1
  <2>2. \E i \in V : \A j \in V : j <= i
    BY Zenon, <1>1, <2>1, LastOfTwo DEF V
  <2> QED BY Zenon, <2>2
<1> QED BY Zenon, <1>1, <1>2, <1>5, <1>8, <1>9, <1>10 DEF V

(* The creation of a space whose fields all passed.                        *)
LEMMA CreatedSpace ==
  ASSUME space \in ApiSpace, space' \in ApiSpace, LoopInv, CreateSpace, stage' = "created"
  PROVE  Accepted'
<1> DEFINE D == DOMAIN space.fields
           old(i) == space.fields[i]
           new(i) == space'.fields[i]
<1>1. /\ stage = "checking" /\ check.at > Len(space.fields) /\ ~check.msg /\ check.vectors # 0
      /\ space' = ApiSpaceToInnerSpace(space) /\ table' = GetGammaTable(space')
  BY Zenon DEF CreateSpace
<1>2. Len(space.fields) \in Nat /\ D = 1 .. Len(space.fields) /\ VectorFields \subseteq D
  BY Zenon, Positions DEF VectorFields, VectorsOf
<1>3. check.at \in 1 .. Len(space.fields) + 1
  BY Zenon, <1>1 DEF LoopInv
<1>4. Seen = D
  BY <1>1, <1>2, <1>3 DEF Seen
<1>5. /\ \A i \in D : FieldPassed(old(i))
      /\ Distinct(D)
      /\ Cardinality(VectorFields) = check.vectors /\ check.vectors <= 2
  <2>1. Seen \cap VectorFields = VectorFields
    BY Zenon, <1>2, <1>4
  <2> QED BY Zenon, <1>1, <1>4, <2>1 DEF LoopInv
<1>6. Cardinality(VectorFields) \in {1, 2}
  <2>1. IsFiniteSet(VectorFields)
    BY Zenon, Positions DEF VectorFields, VectorsOf
  <2>2. Cardinality(VectorFields) \in Nat
    BY Zenon, <2>1, FS_CardinalityType
  <2> QED BY <1>1, <1>5, <2>2
<1>7. /\ DOMAIN space'.fields = D
      /\ \A i \in D : /\ old(i).index \in Index \cup {Nil}
                      /\ new(i).name = old(i).name /\ new(i).type = old(i).type
                      /\ new(i).dimension = old(i).dimension
                      /\ new(i).index = InnerIndex(old(i).index)
  BY Zenon, <1>1, InnerFields
<1>8. ASSUME NEW i \in D
      PROVE  /\ new(i).index # Nil <=> old(i).index # Nil /\ old(i).index.params # Nil
             /\ new(i).index # Nil => /\ new(i).index.name = old(i).index.name
                                      /\ new(i).index.type = old(i).index.type
                                      /\ new(i).index.params # Nil => new(i).index.params = old(i).index.params
  BY Zenon, <1>7, InnerIndexOf
<1>9. /\ VectorFields' = VectorFields
      /\ Indexed' \subseteq Indexed
  <2>1. \A i \in D : i \in Indexed' => i \in Indexed
    BY Zenon, <1>7, <1>8 DEF Indexed
  <2>2. \A i \in Indexed' : i \in D
    BY Zenon, <1>7 DEF Indexed
  <2>3. VectorFields' = VectorFields
    BY Zenon, <1>7 DEF VectorFields
  <2> QED BY Zenon, <2>1, <2>2, <2>3
<1>10. ASSUME NEW i \in VectorFields
       PROVE  PassedVector(old(i))
  <2>1. old(i).type = "vector" /\ i \in D
    BY Zenon DEF VectorFields
  <2>2. ~PassedScalar(old(i))
    BY Zenon, <2>1 DEF PassedScalar, ScalarFieldTypes
  <2> QED BY Zenon, <1>5, <2>1, <2>2 DEF FieldPassed
<1>11. ASSUME NEW i \in D \ VectorFields
       PROVE  PassedScalar(old(i))
  <2>1. old(i).type # "vector"
    BY Zenon DEF VectorFields
  <2> QED BY Zenon, <1>5, <2>1 DEF FieldPassed, PassedVector
<1>12. WellFormed'
  <2>1. \A i, j \in D : i # j => new(i).name # new(j).name
    BY <1>5, <1>7 DEF Distinct
  <2>2. \A i \in Indexed' : i \in D /\ i \in Indexed /\ new(i).index # Nil
    BY Zenon, <1>7, <1>9 DEF Indexed
  <2>3. \A i, j \in Indexed' : i # j => new(i).index.name # new(j).index.name
    BY <1>5, <1>8, <2>2 DEF Distinct
  <2>4. \A i \in D : new(i).name # ""
    BY Zenon, <1>5, <1>7 DEF FieldPassed
  <2>5. \A i \in Indexed' : new(i).index.name # ""
    BY Zenon, <1>5, <1>8, <2>2 DEF FieldPassed
  <2>6. \A i \in D \ VectorFields : new(i).type \in ScalarFieldTypes
    BY Zenon, <1>7, <1>11 DEF PassedScalar
  <2>7. \A i \in Indexed' \ VectorFields : new(i).index.type \in ScalarIndexTypes
    BY Zenon, <1>8, <1>11, <2>2 DEF PassedScalar
  <2>8. \A i \in VectorFields : new(i).index # Nil /\ i \in Indexed'
    BY Zenon, <1>2, <1>7, <1>8, <1>10 DEF PassedVector, Indexed
  <2>9. \A i \in VectorFields :
          new(i).dimension \in Dimensions /\ new(i).index.type \in VectorIndexTypes
    BY Zenon, <1>2, <1>7, <1>8, <1>10, <2>8 DEF PassedVector
  <2> QED BY Zenon, <1>7, <1>9, <2>1, <2>3, <2>4, <2>5, <2>6, <2>7, <2>8, <2>9 DEF WellFormed
<1>13. /\ Cardinality(table'.vectors) = Cardinality(VectorFields')
       /\ Cardinality(table'.vectors \cup table'.scalars) = Len(space'.fields)
       /\ \E i \in VectorFields' : table'.index = space'.fields[i].index
  <2>1. Cardinality(VectorFields') \in {1, 2}
    BY Zenon, <1>6, <1>9
  <2>2. VectorFields' = VectorsOf(space')
    BY Zenon DEF VectorFields, VectorsOf
  <2>3. \A i, j \in DOMAIN space'.fields : i # j => space'.fields[i].name # space'.fields[j].name
    BY Zenon, <1>12 DEF WellFormed
  <2> QED BY Zenon, <1>1, <2>1, <2>2, <2>3, TableOf
<1>14. table'.index.params # Nil => ParamsOk(table'.index)
  <2>1. PICK i \in VectorFields : table'.index = new(i).index
    BY Zenon, <1>9, <1>13
  <2>2. PassedVector(old(i)) /\ new(i).index # Nil /\ i \in D
    BY Zenon, <1>2, <1>8, <1>10 DEF PassedVector
  <2>3. /\ new(i).index.type = old(i).index.type
        /\ new(i).index.params # Nil => new(i).index.params = old(i).index.params
    BY Zenon, <1>8, <2>2
  <2>4. ParamsOk(old(i).index)
    BY Zenon, <2>2 DEF PassedVector
  <2>5. new(i).index.params # Nil => ParamsOk(new(i).index)
    BY Zenon, <2>3, <2>4 DEF ParamsOk
  <2> QED BY Zenon, <2>1, <2>5
<1> QED BY Zenon, <1>6, <1>9, <1>12, <1>13, <1>14 DEF Accepted

(* The loop begins with what it knows of no field.                         *)
LEMMA LoopStart ==
  ASSUME space \in ApiSpace, CheckApiSpace, stage' = "checking"
  PROVE  LoopInv'
<1>1. check' = FirstField /\ UNCHANGED space
  BY Zenon DEF CheckApiSpace
<1>2. /\ check'.at = 1 /\ check'.names = {} /\ check'.indexes = {} /\ check'.vectors = 0
      /\ check'.msg = FALSE
  BY Zenon, <1>1 DEF FirstField
<1>3. Seen' = {}
  BY <1>2 DEF Seen
<1>4. Len(space'.fields) \in Nat
  BY Zenon, <1>1, Positions
<1>5. check'.at \in 1 .. Len(space'.fields) + 1
  BY <1>2, <1>4
<1>6. /\ check'.names = {space'.fields[i].name : i \in Seen'}
      /\ check'.indexes = {space'.fields[i].index.name : i \in Seen' \cap Indexed'}
      /\ Distinct(Seen)'
  BY Zenon, <1>2, <1>3 DEF Distinct
<1>7. check'.vectors = Cardinality(Seen' \cap VectorFields') /\ check'.vectors <= 2
  <2>1. Seen' \cap VectorFields' = {}
    BY Zenon, <1>3
  <2>2. Cardinality(Seen' \cap VectorFields') = 0
    BY Zenon, <2>1, FS_EmptySet
  <2> QED BY <1>2, <2>2
<1> QED BY Zenon, <1>2, <1>3, <1>5, <1>6, <1>7 DEF LoopInv

(* No space that is all that is asked of it is refused: neither by its     *)
(* header, nor in the loop, nor by the verdict.                            *)
LEMMA Refusals ==
  ASSUME space \in ApiSpace, LoopInv, stage # "refused", stage' = "refused",
         CheckApiSpace \/ CheckNextField \/ CreateSpace
  PROVE  UNCHANGED space /\ ~Wanted
<1>2. CASE CheckApiSpace
  BY Zenon, <1>2 DEF CheckApiSpace, Wanted
<1>3. CASE CheckNextField
  <2> DEFINE k == check.at
             f == space.fields[k]
  <2>1. stage = "checking" /\ k <= Len(space.fields) /\ UNCHANGED space /\ Panics(check, f)
    BY Zenon, <1>3 DEF CheckNextField
  <2>2. k \in 1 .. Len(space.fields) + 1
    BY Zenon, <2>1 DEF LoopInv
  <2>3. Len(space.fields) \in Nat /\ DOMAIN space.fields = 1 .. Len(space.fields)
    BY Zenon, Positions
  <2>4. k \in DOMAIN space.fields
    BY <2>1, <2>2, <2>3
  <2>5. k \in VectorFields /\ f.index.params = Nil
    BY Zenon, <2>1, <2>4 DEF Panics, Shaped, VectorFieldTypes, VectorFields
  <2> QED BY Zenon, <2>1, <2>5 DEF Wanted
<1>4. CASE CreateSpace
  <2>1. /\ stage = "checking" /\ check.at > Len(space.fields) /\ UNCHANGED space
        /\ check.msg \/ check.vectors = 0
    BY Zenon, <1>4 DEF CreateSpace
  <2>2. check.msg => ~Wanted
    BY Zenon, <2>1 DEF LoopInv
  <2>3. ASSUME ~check.msg PROVE ~Wanted
    <3>1. /\ Len(space.fields) \in Nat /\ DOMAIN space.fields = 1 .. Len(space.fields)
          /\ VectorFields \subseteq DOMAIN space.fields
      BY Zenon, Positions DEF VectorFields, VectorsOf
    <3>2. check.at \in 1 .. Len(space.fields) + 1
      BY Zenon, <2>1 DEF LoopInv
    <3>3. Seen = DOMAIN space.fields
      BY <2>1, <3>1, <3>2 DEF Seen
    <3>4. Seen \cap VectorFields = VectorFields
      BY Zenon, <3>1, <3>3
    <3>5. Cardinality(VectorFields) = 0
      BY Zenon, <2>1, <2>3, <3>4 DEF LoopInv
    <3> QED BY <3>5 DEF Wanted
  <2> QED BY Zenon, <2>1, <2>2, <2>3
<1> QED BY Zenon, <1>2, <1>3, <1>4

(* A space that was only asked for.                                        *)
LEMMA SchemaInit ==
  ASSUME Init
  PROVE  SchemaInv
  BY DocumentsAssumption DEF Init, SchemaInv, LoopInv, SchemaSound

(* A space stays one: only its creation changes it.                        *)
LEMMA SpaceNext ==
  ASSUME space \in ApiSpace, [Next]_vars
  PROVE  space' \in ApiSpace
<1>1. UNCHANGED space \/ space' = ApiSpaceToInnerSpace(space)
  BY Zenon DEF Next, vars, schema, CheckApiSpace, CheckNextField, CreateSpace, AddSpace,
     Upsert, WriteDoc, UpsertReply, Get, GetTry, GetReply, Delete
<1> QED BY Zenon, <1>1, Conversion

(* Every step keeps what the loop knows and what was decided.              *)
LEMMA SchemaNext ==
  ASSUME SchemaInv, [Next]_vars
  PROVE  SchemaInv'
<1> SUFFICES LoopInv' /\ SchemaSound'
  BY Zenon, SpaceNext DEF SchemaInv
<1> USE DEF SchemaInv
<1>1. space \in ApiSpace /\ space' \in ApiSpace
  BY Zenon, SpaceNext
<1>2. SchemaSound <=> /\ stage \in {"created", "added"} => Accepted
                      /\ stage = "refused" => ~Wanted
  BY Zenon, SchemaCases
<1>3. SchemaSound' <=> /\ stage' \in {"created", "added"} => Accepted'
                       /\ stage' = "refused" => ~Wanted'
  BY Zenon DEF SchemaSound, Accepted, Wanted
<1>4. ASSUME UNCHANGED <<space, table>> PROVE (Accepted' <=> Accepted) /\ (Wanted' <=> Wanted)
  <2>1. VectorFields' = VectorFields /\ (WellFormed' <=> WellFormed) /\ (Wanted' <=> Wanted)
    BY Zenon, <1>4, FieldsFrame
  <2> QED BY Zenon, <1>4, <2>1 DEF Accepted
<1>5. CASE UNCHANGED schema
  <2>1. UNCHANGED <<space, stage, check, table>>
    BY Zenon, <1>5 DEF schema
  <2>2. /\ VectorFields' = VectorFields /\ Indexed' = Indexed /\ (Wanted' <=> Wanted)
        /\ \A S : Distinct(S)' <=> Distinct(S)
    BY Zenon, <2>1, FieldsFrame
  <2>3. Seen' = Seen
    BY Zenon, <2>1 DEF Seen
  <2>4. LoopInv'
    BY Zenon, <2>1, <2>2, <2>3 DEF LoopInv
  <2> QED BY Zenon, <1>2, <1>3, <1>4, <2>1, <2>4
<1>6. CASE CheckApiSpace
  <2>1. CASE stage' = "checking"
    BY Zenon, <1>1, <1>3, <1>6, <2>1, LoopStart
  <2>2. CASE stage' = "refused"
    <3>1. UNCHANGED <<space, table>> /\ ~Wanted
      BY Zenon, <1>6, <2>2, Refusals DEF CheckApiSpace
    <3> QED BY Zenon, <1>3, <1>4, <2>2, <3>1 DEF LoopInv
  <2> QED BY Zenon, <1>6, <2>1, <2>2 DEF CheckApiSpace
<1>7. CASE CheckNextField
  <2>1. CASE stage' = "checking"
    BY Zenon, <1>1, <1>3, <1>7, <2>1, LoopStep
  <2>2. CASE stage' = "refused"
    <3>1. UNCHANGED <<space, table>> /\ ~Wanted
      BY Zenon, <1>7, <2>2, Refusals DEF CheckNextField
    <3> QED BY Zenon, <1>3, <1>4, <2>2, <3>1 DEF LoopInv
  <2> QED BY Zenon, <1>7, <2>1, <2>2 DEF CheckNextField
<1>8. CASE CreateSpace
  <2>1. CASE stage' = "created"
    BY Zenon, <1>1, <1>3, <1>8, <2>1, CreatedSpace DEF LoopInv
  <2>2. CASE stage' = "refused"
    <3>1. UNCHANGED <<space, table>> /\ ~Wanted
      BY Zenon, <1>8, <2>2, Refusals DEF CreateSpace
    <3> QED BY Zenon, <1>3, <1>4, <2>2, <3>1 DEF LoopInv
  <2> QED BY Zenon, <1>8, <2>1, <2>2 DEF CreateSpace
<1>9. CASE AddSpace
  <2>1. UNCHANGED <<space, table>> /\ stage = "created" /\ stage' = "added"
    BY Zenon, <1>9 DEF AddSpace
  <2> QED BY Zenon, <1>2, <1>3, <1>4, <2>1 DEF LoopInv
<1>10. CASE UNCHANGED vars
  BY Zenon, <1>5, <1>10 DEF vars
<1>11. ASSUME \/ \E docs \in Batches(Docs) : Upsert(docs)
              \/ \E ok \in BOOLEAN : WriteDoc(ok)
              \/ UpsertReply
              \/ \E ids \in Batches(Ids) : Get(ids)
              \/ GetTry
              \/ GetReply
              \/ \E ids \in Batches(Ids) : Delete(ids)
       PROVE  UNCHANGED schema
  BY Zenon, <1>11 DEF Upsert, WriteDoc, UpsertReply, Get, GetTry, GetReply, Delete
<1> QED BY Zenon, <1>5, <1>6, <1>7, <1>8, <1>9, <1>10, <1>11 DEF Next

(* CheckApiSpace lets exactly well-formed spaces through and refuses none  *)
(* with one vector field, for any number and order of the fields, and the  *)
(* engine's table has a column for each of them.                           *)
THEOREM SchemasAreSound == Spec => []SchemaSound
<1>1. Init => SchemaInv
  BY Zenon, SchemaInit
<1>2. SchemaInv /\ [Next]_vars => SchemaInv'
  BY Zenon, SchemaNext
<1>3. SchemaInv => SchemaSound
  BY Zenon DEF SchemaInv
<1> QED BY <1>1, <1>2, <1>3, PTL DEF Spec
=============================================================================
