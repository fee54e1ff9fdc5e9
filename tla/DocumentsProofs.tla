-------------------------- MODULE DocumentsProofs ---------------------------
(***************************************************************************)
(* Proofs about Documents, for every set of spaces, ids and documents, any *)
(* number of fields in a space and of documents in a request.              *)
(***************************************************************************)
EXTENDS SpaceSchemaProofs

(* Requests reach a router only for a space that was created.  The space   *)
(* keeps its shape when it is converted.                                   *)
HeaderInv ==
  /\ space \in ApiSpace
  /\ stage \in {"offered", "checking", "refused", "created", "added"}
  /\ stage \in {"checking", "created", "added"} => HeaderOk(space)
  /\ stage \in {"offered", "checking", "refused"} => call = Nil /\ resp = Nil
  /\ call # Nil => stage = "added"

IsCall(c) ==
  c = [op |-> c.op, ids |-> c.ids, docs |-> c.docs, todo |-> c.todo, err |-> c.err,
       found |-> c.found, tried |-> c.tried, lost |-> c.lost]

(* The tries of a partition go from a replica to the next.                 *)
Rotation(tries) ==
  /\ tries \in Seq(Replicas)
  /\ \A j \in 1 .. Len(tries) - 1 : tries[j + 1] = (tries[j] + 1) % space.replicaNum

(* A Get: each key is settled or in a partition that is still to be asked, *)
(* and a key was given up only after the last try of its partition.        *)
GetInv(c) ==
  /\ c.ids \in [DOMAIN c.ids -> Ids]
  /\ c.todo \subseteq HashKeys(c.ids)
  /\ DOMAIN c.err \cup c.found \subseteq Range(c.ids)
  /\ \A k \in Range(c.ids) : PartitionId(k) \in c.todo \/ k \in DOMAIN c.err \cup c.found
  /\ DOMAIN c.tried \subseteq HashKeys(c.ids)
  /\ \A p \in DOMAIN c.tried :
       /\ Rotation(c.tried[p]) /\ Len(c.tried[p]) <= Retries
       /\ p \in c.todo => Len(c.tried[p]) < Retries
  /\ \A k \in DOMAIN c.err : c.err[k] = "rpc" =>
       LET p == PartitionId(k)
       IN  p \notin c.todo /\ p \in DOMAIN c.tried /\ Len(c.tried[p]) = Retries

(* An Upsert: all its documents share the empty key, under which a failure *)
(* is noted.                                                               *)
UpsertInv(c) ==
  /\ c.docs \in [DOMAIN c.docs -> Docs] /\ c.ids = [i \in DOMAIN c.docs |-> ""]
  /\ c.todo \subseteq DOMAIN c.docs /\ c.lost \subseteq DOMAIN c.docs
  /\ DOMAIN c.err \subseteq {""} /\ \A k \in DOMAIN c.err : c.err[k] = "write"
  /\ c.lost # {} => "" \in DOMAIN c.err
  /\ c.found = {} /\ DOMAIN c.tried = {}

CallInv ==
  call # Nil =>
    /\ IsCall(call)
    /\ \/ call.op = "get" /\ call.lost = {} /\ GetInv(call)
       \/ call.op = "upsert" /\ UpsertInv(call)

RespInv ==
  /\ resp # Nil => resp.code \in {0, 101, 102, 103} /\ resp.failed_docs \subseteq DOMAIN resp.ids
  /\ GetAnswersEachKey /\ GetTriesReplicas /\ UpsertFailureSeen

EngineInv == (\A e \in engine : e[1] \in Docs) /\ StoredIsBare

IInv == HeaderInv /\ CallInv /\ RespInv /\ EngineInv

-----------------------------------------------------------------------------
(* A key's partition is one of those the router is connected to.           *)
LEMMA PartitionRange ==
  ASSUME HeaderOk(space), NEW k \in Ids
  PROVE  PartitionId(k) \in 0 .. space.partitionNum - 1
<1>1. StrHashUint64[k] \in Nat /\ space.partitionNum \in 1 .. 100
  BY Zenon, DocumentsAssumption DEF HeaderOk
<1> QED BY <1>1 DEF PartitionId

(* Three different elements.                                               *)
LEMMA ThreeElements ==
  ASSUME NEW a, NEW b, NEW c, a # b, b # c, a # c
  PROVE  Cardinality({a, b, c}) = 3
<1> DEFINE A == {a}
           B == A \cup {b}
           C == B \cup {c}
<1>1. b \notin A /\ c \notin B /\ {a, b, c} = C
  BY Zenon
<1>2. IsFiniteSet(A) /\ Cardinality(A) = 1
  BY Zenon, FS_Singleton
<1> HIDE DEF A
<1>3. IsFiniteSet(B) /\ Cardinality(B) = 2
  BY <1>1, <1>2, FS_AddElement
<1> HIDE DEF B
<1>4. Cardinality(C) = 3
  BY <1>1, <1>3, FS_AddElement
<1> QED BY Zenon, <1>1, <1>4

(* Three tries in turn reach three replicas, or the only one.              *)
LEMMA TriesReachReplicas ==
  ASSUME HeaderOk(space), NEW tries, Rotation(tries), Len(tries) = Retries
  PROVE  Cardinality(Range(tries)) =
           IF space.replicaNum < Retries THEN space.replicaNum ELSE Retries
<1> DEFINE n == space.replicaNum
           a == tries[1]
           b == tries[2]
           c == tries[3]
<1>1. n \in {1, 3, 5} /\ Retries = 3
  BY Zenon DEF HeaderOk, Retries
<1>2. /\ DOMAIN tries = 1 .. 3
      /\ a \in 0 .. n - 1 /\ b = (a + 1) % n /\ c = (b + 1) % n
  <2>1. tries \in Seq(Replicas) /\ Len(tries) = 3
    BY Zenon, <1>1 DEF Rotation
  <2>0. DOMAIN tries = 1 .. Len(tries) /\ \A i \in 1 .. Len(tries) : tries[i] \in Replicas
    BY Zenon, <2>1, SeqElements
  <2>2. DOMAIN tries = 1 .. 3 /\ a \in Replicas
    BY <2>0, <2>1
  <2>3. b = (a + 1) % n /\ c = (b + 1) % n
    BY <2>1 DEF Rotation
  <2> QED BY Zenon, <2>2, <2>3 DEF Replicas
<1>3. Range(tries) = {a, b, c}
  <2>1. 1 .. 3 = {1, 2, 3}
    OBVIOUS
  <2> QED BY Zenon, <1>2, <2>1 DEF Range
<1> HIDE DEF n, a, b, c
<1>4. CASE n = 1
  <2>1. a = 0 /\ b = 0 /\ c = 0
    BY <1>2, <1>4
  <2>2. Cardinality({0}) = 1
    BY Zenon, FS_Singleton
  <2>3. Range(tries) = {0}
    BY Zenon, <1>3, <2>1
  <2> QED BY <1>1, <1>4, <2>2, <2>3 DEF n
<1>5. CASE n \in {3, 5}
  <2>1. a # b /\ b # c /\ a # c
    BY <1>2, <1>5
  <2>2. Cardinality({a, b, c}) = 3
    BY Zenon, <2>1, ThreeElements
  <2> QED BY <1>1, <1>3, <1>5, <2>2 DEF n
<1> QED BY Zenon, <1>1, <1>4, <1>5

(* The next try follows the last one.                                      *)
LEMMA NextTry ==
  ASSUME HeaderOk(space), NEW tries, Rotation(tries), NEW r \in ReplicaIdx(tries)
  PROVE  Rotation(Append(tries, r)) /\ Len(Append(tries, r)) = Len(tries) + 1
<1> DEFINE next == Append(tries, r)
           n == space.replicaNum
<1>1. n \in {1, 3, 5} /\ Replicas = 0 .. n - 1
  BY Zenon DEF HeaderOk, Replicas
<1>2. tries \in Seq(Replicas) /\ Len(tries) \in Nat
  BY DEF Rotation
<1>3. tries # <<>> => tries[Len(tries)] \in Replicas /\ r = (tries[Len(tries)] + 1) % n
  <2> SUFFICES ASSUME tries # <<>> PROVE tries[Len(tries)] \in Replicas /\ r = (tries[Len(tries)] + 1) % n
    BY Zenon
  <2>1. Len(tries) \in 1 .. Len(tries)
    BY <1>2
  <2>2. \A i \in 1 .. Len(tries) : tries[i] \in Replicas
    BY Zenon, <1>2, SeqElements
  <2> QED BY Zenon, <2>1, <2>2 DEF ReplicaIdx
<1>4. r \in Replicas
  <2>1. CASE tries = <<>>
    BY Zenon, <2>1 DEF ReplicaIdx
  <2>2. CASE tries # <<>>
    <3>1. PICK l \in Replicas : r = (l + 1) % n
      BY Zenon, <1>3, <2>2
    <3> QED BY <1>1, <3>1
  <2> QED BY Zenon, <2>1, <2>2
<1>5. next \in Seq(Replicas) /\ Len(next) = Len(tries) + 1
  BY <1>2, <1>4
<1>6. ASSUME NEW j \in 1 .. Len(next) - 1 PROVE next[j + 1] = (next[j] + 1) % n
  <2>1. CASE j < Len(tries)
    <3>1. next[j] = tries[j] /\ next[j + 1] = tries[j + 1] /\ j \in 1 .. Len(tries) - 1
      BY <1>2, <1>5, <2>1
    <3> QED BY Zenon, <3>1 DEF Rotation
  <2>2. CASE j = Len(tries)
    <3>1. next[j] = tries[Len(tries)] /\ next[j + 1] = r /\ tries # <<>>
      BY <1>2, <1>5, <2>2
    <3> QED BY Zenon, <1>3, <3>1
  <2> QED BY <1>2, <1>5, <2>1, <2>2
<1> QED BY Zenon, <1>5, <1>6 DEF Rotation

-----------------------------------------------------------------------------
(* What the invariants read of the space does not change while a router    *)
(* works on it.                                                            *)
LEMMA SpaceFrame ==
  ASSUME UNCHANGED space
  PROVE  /\ \A k : PartitionId(k)' = PartitionId(k)
         /\ \A ids : HashKeys(ids)' = HashKeys(ids)
         /\ \A tries : Rotation(tries)' <=> Rotation(tries)
         /\ \A c : GetInv(c)' <=> GetInv(c)
<1>1. \A k : PartitionId(k)' = PartitionId(k)
  BY Zenon DEF PartitionId
<1>2. \A ids : HashKeys(ids)' = HashKeys(ids)
  BY Zenon, <1>1 DEF HashKeys
<1>3. \A tries : Rotation(tries)' <=> Rotation(tries)
  BY Zenon DEF Rotation, Replicas
<1>4. \A c : GetInv(c)' <=> GetInv(c)
  BY Zenon, <1>1, <1>2, <1>3 DEF GetInv
<1> QED BY Zenon, <1>1, <1>2, <1>3, <1>4

(* A call is not disturbed by a step that is not its own.                  *)
LEMMA CallFrame ==
  ASSUME CallInv, UNCHANGED <<space, call>>
  PROVE  CallInv'
<1>1. \A c : GetInv(c)' <=> GetInv(c)
  BY Zenon, SpaceFrame
<1> QED BY Zenon, <1>1 DEF CallInv, IsCall, UpsertInv

(* Nor is the last answer ...                                              *)
LEMMA RespFrame ==
  ASSUME RespInv, UNCHANGED <<space, resp>>
  PROVE  RespInv'
  BY DEF RespInv, GetAnswersEachKey, GetTriesReplicas, UpsertFailureSeen, PartitionId, Range

(* ... nor what the engine holds.                                          *)
LEMMA EngineFrame ==
  ASSUME EngineInv, UNCHANGED engine
  PROVE  EngineInv'
  BY Zenon DEF EngineInv, StoredIsBare

(* The check, the creation and the connection of a space: no request has   *)
(* been taken while it may still change.                                   *)
LEMMA SchemaSteps ==
  ASSUME IInv, CheckApiSpace \/ CheckNextField \/ CreateSpace \/ AddSpace
  PROVE  IInv'
<1> USE DEF IInv
<1>1. /\ UNCHANGED <<call, resp, engine>>
      /\ stage \in {"offered", "checking"} => call = Nil /\ resp = Nil
  BY Zenon DEF CheckApiSpace, CheckNextField, CreateSpace, AddSpace, HeaderInv
<1>2. EngineInv'
  BY Zenon, <1>1, EngineFrame
<1>3. HeaderInv'
  <2>1. CASE CheckApiSpace
    BY Zenon, <2>1 DEF CheckApiSpace, HeaderInv
  <2>2. CASE CheckNextField
    BY Zenon, <2>2 DEF CheckNextField, HeaderInv
  <2>3. CASE CreateSpace
    <3>1. /\ ApiSpaceToInnerSpace(space) \in ApiSpace
          /\ HeaderOk(space) => HeaderOk(ApiSpaceToInnerSpace(space))
      BY Zenon, Conversion DEF HeaderInv
    <3> QED BY Zenon, <2>3, <3>1 DEF CreateSpace, HeaderInv
  <2>4. CASE AddSpace
    BY Zenon, <2>4 DEF AddSpace, HeaderInv
  <2> QED BY Zenon, <2>1, <2>2, <2>3, <2>4
<1>4. CASE call = Nil /\ resp = Nil
  BY Zenon, <1>1, <1>2, <1>3, <1>4 DEF CallInv, RespInv, GetAnswersEachKey, GetTriesReplicas, UpsertFailureSeen
<1>5. CASE stage = "created"
  <2>1. UNCHANGED space
    BY Zenon, <1>5 DEF CheckApiSpace, CheckNextField, CreateSpace, AddSpace
  <2> QED BY Zenon, <1>1, <1>2, <1>3, <2>1, CallFrame, RespFrame
<1> QED BY Zenon, <1>1, <1>4, <1>5 DEF CheckApiSpace, CheckNextField, CreateSpace, AddSpace

-----------------------------------------------------------------------------
(* An answer given without a call: nothing was tried and nothing lost.     *)
LEMMA AnswerAtOnce ==
  ASSUME IInv, call = Nil, UNCHANGED <<schema, call, engine>>, stage \in {"created", "added"},
         NEW op, NEW code \in {0, 101, 102}, NEW ids, NEW failed \in SUBSET DOMAIN ids,
         op = "get" => code # 0 /\ failed = DOMAIN ids,
         Answer(op, code, ids, failed, {})
  PROVE  IInv'
<1> USE DEF IInv
<1>1. UNCHANGED <<space, stage, call, engine>>
  BY Zenon DEF schema
<1>2. CallInv' /\ EngineInv'
  BY Zenon, <1>1, CallFrame, EngineFrame
<1>3. HeaderInv'
  BY Zenon, <1>1 DEF HeaderInv
<1>4. /\ resp' = [op |-> op, code |-> code, ids |-> ids, failed_docs |-> failed, documents |-> {},
                  err |-> <<>>, tried |-> <<>>, lost |-> {}]
      /\ DOMAIN <<>> = {}
  BY DEF Answer
<1>5. /\ resp'.op = op /\ resp'.code = code /\ resp'.ids = ids /\ resp'.failed_docs = failed
      /\ resp'.documents = {} /\ DOMAIN resp'.err = {} /\ resp'.lost = {}
  BY Zenon, <1>4
<1>6. RespInv'
  BY <1>5 DEF RespInv, GetAnswersEachKey, GetTriesReplicas, UpsertFailureSeen
<1> QED BY Zenon, <1>2, <1>3, <1>6

(* A request that is refused at once (101, 102).                           *)
LEMMA RefuseStep ==
  ASSUME IInv, call = Nil, UNCHANGED <<schema, engine>>,
         NEW op, NEW ids, NEW valid, Refuse(op, ids, valid)
  PROVE  IInv'
<1>1. UNCHANGED call /\ stage \in {"created", "added"}
  BY Zenon DEF Refuse
<1>2. PICK code \in {101, 102} : Answer(op, code, ids, DOMAIN ids, {})
  BY Zenon DEF Refuse
<1>3. code \in {0, 101, 102} /\ code # 0 /\ DOMAIN ids \in SUBSET DOMAIN ids
  BY <1>2
<1>4. UNCHANGED <<schema, call, engine>>
  BY Zenon, <1>1
<1> QED BY Zenon, <1>1, <1>2, <1>3, <1>4, AnswerAtOnce

(* A call that begins: the invariants of the call are its own.             *)
LEMMA BeginStep ==
  ASSUME IInv, UNCHANGED <<schema, engine>>, stage = "added", resp' = Nil, CallInv'
  PROVE  IInv'
<1> USE DEF IInv
<1>1. UNCHANGED <<space, stage, engine>>
  BY Zenon DEF schema
<1>2. EngineInv'
  BY Zenon, <1>1, EngineFrame
<1>3. HeaderInv'
  BY Zenon, <1>1 DEF HeaderInv
<1>4. RespInv'
  BY Zenon DEF RespInv, GetAnswersEachKey, GetTriesReplicas, UpsertFailureSeen
<1> QED BY Zenon, <1>2, <1>3, <1>4

(* What a client sends in one request.                                     *)
LEMMA BatchOf ==
  ASSUME NEW S, NEW b \in Batches(S)
  PROVE  b \in [DOMAIN b -> S]
<1>1. PICK n \in 0 .. MaxBatch : b \in [1 .. n -> S]
  BY Zenon DEF Batches
<1> QED BY Zenon, <1>1

(* Upsert refuses a batch or begins with all its documents to write.       *)
LEMMA UpsertStep ==
  ASSUME IInv, NEW docs \in Batches(Docs), Upsert(docs)
  PROVE  IInv'
<1> DEFINE valid == \A i \in DOMAIN docs : CheckPbDoc(docs[i], space)
<1>1. call = Nil /\ UNCHANGED <<schema, engine>>
  BY Zenon DEF Upsert
<1>2. CASE Refuse("upsert", IdsOf(docs), valid)
  BY Zenon, <1>1, <1>2, RefuseStep
<1>3. CASE stage = "added" /\ Begin("upsert", DocKeys(docs), docs, DOMAIN docs)
  <2>1. docs \in [DOMAIN docs -> Docs]
    BY Zenon, BatchOf
  <2>2. /\ call' = [op |-> "upsert", ids |-> DocKeys(docs), docs |-> docs, todo |-> DOMAIN docs,
                    err |-> <<>>, found |-> {}, tried |-> <<>>, lost |-> {}]
        /\ resp' = Nil
    BY Zenon, <1>3 DEF Begin
  <2>3. DOMAIN <<>> = {}
    OBVIOUS
  <2>4. IsCall(call') /\ call'.op = "upsert" /\ UpsertInv(call')
    BY Zenon, <2>1, <2>2, <2>3 DEF IsCall, UpsertInv, DocKeys
  <2>5. CallInv'
    BY Zenon, <2>4 DEF CallInv, IsCall, UpsertInv
  <2> QED BY Zenon, <1>1, <1>3, <2>2, <2>5, BeginStep
<1> QED BY Zenon, <1>2, <1>3 DEF Upsert

(* Get refuses its ids or begins with all their partitions to ask.         *)
LEMMA GetStep ==
  ASSUME IInv, NEW ids \in Batches(Ids), Get(ids)
  PROVE  IInv'
<1> DEFINE valid == CheckPbIds(ids, space)
<1>1. call = Nil /\ UNCHANGED <<schema, engine>>
  BY Zenon DEF Get
<1>2. CASE Refuse("get", ids, valid)
  BY Zenon, <1>1, <1>2, RefuseStep
<1>3. CASE stage = "added" /\ Begin("get", ids, <<>>, HashKeys(ids))
  <2>1. ids \in [DOMAIN ids -> Ids]
    BY Zenon, BatchOf
  <2>2. /\ call' = [op |-> "get", ids |-> ids, docs |-> <<>>, todo |-> HashKeys(ids),
                    err |-> <<>>, found |-> {}, tried |-> <<>>, lost |-> {}]
        /\ resp' = Nil
    BY Zenon, <1>3 DEF Begin
  <2>3. DOMAIN <<>> = {}
    OBVIOUS
  <2>4. HashKeys(ids)' = HashKeys(ids) /\ \A k \in Range(ids) : PartitionId(k) \in HashKeys(ids)
    BY Zenon, <1>1 DEF HashKeys, PartitionId, Range, schema
  <2>5. GetInv(call')
    BY Zenon, <2>1, <2>2, <2>3, <2>4 DEF GetInv
  <2>6. GetInv(call)'
    BY Zenon, <1>1, <2>5, SpaceFrame DEF schema
  <2>7. CallInv'
    BY Zenon, <2>2, <2>6 DEF CallInv, IsCall
  <2> QED BY Zenon, <1>1, <1>3, <2>2, <2>7, BeginStep
<1> QED BY Zenon, <1>2, <1>3 DEF Get

(* Delete answers at once.                                                 *)
LEMMA DeleteStep ==
  ASSUME IInv, NEW ids \in Batches(Ids), Delete(ids)
  PROVE  IInv'
<1> DEFINE valid == CheckPbIds(ids, space)
<1>1. call = Nil /\ UNCHANGED <<schema, engine>>
  BY Zenon DEF Delete
<1>2. CASE Refuse("delete", ids, valid)
  BY Zenon, <1>1, <1>2, RefuseStep
<1>3. CASE stage = "added" /\ Answer("delete", 0, ids, {}, {}) /\ UNCHANGED call
  <2>1. UNCHANGED <<schema, call, engine>> /\ "delete" # "get"
    BY Zenon, <1>1, <1>3
  <2>2. 0 \in {0, 101, 102} /\ {} \in SUBSET DOMAIN ids /\ stage \in {"created", "added"}
    BY Zenon, <1>3
  <2> QED BY Zenon, <1>1, <1>3, <2>1, <2>2, AnswerAtOnce
<1> QED BY Zenon, <1>2, <1>3 DEF Delete, DeleteDocs

-----------------------------------------------------------------------------
(* A step of a call that writes or answers keeps the space.                *)
LEMMA CallSteps ==
  ASSUME IInv, UNCHANGED <<schema, resp>>, CallInv', EngineInv', call # Nil
  PROVE  IInv'
<1> USE DEF IInv
<1>1. UNCHANGED <<space, stage>>
  BY Zenon DEF schema
<1>2. RespInv'
  BY Zenon, <1>1, RespFrame
<1>3. HeaderInv'
  BY Zenon, <1>1 DEF HeaderInv
<1> QED BY Zenon, <1>2, <1>3

(* The raft write of a document: a failure is noted under the empty key.   *)
LEMMA WriteDocStep ==
  ASSUME IInv, NEW ok \in BOOLEAN, WriteDoc(ok)
  PROVE  IInv'
<1> USE DEF IInv
<1>1. /\ call # Nil /\ call.op = "upsert" /\ UNCHANGED <<schema, resp>>
      /\ IsCall(call) /\ UpsertInv(call) /\ HeaderOk(space)
  BY Zenon DEF WriteDoc, CallInv, HeaderInv
<1>2. PICK i \in call.todo :
        /\ call' = [call EXCEPT !.todo = @ \ {i}, !.err = Written(i, ok),
                                !.lost = IF ok THEN @ ELSE @ \cup {i}]
        /\ engine' = IF ok THEN engine \cup {<<call.docs[i], PbDocToGammaDoc(call.docs[i], space)>>}
                     ELSE engine
  BY Zenon DEF WriteDoc
<1>3. i \in DOMAIN call.docs /\ call.docs[i] \in Docs /\ call.ids[i] = ""
  BY Zenon, <1>1, <1>2 DEF UpsertInv
<1>4. EngineInv'
  <2>1. PbDocToGammaDoc(call.docs[i], space) = {}
    BY Zenon, <1>1 DEF PbDocToGammaDoc, HeaderOk, DocKeyTypes
  <2>2. \A e \in engine' : e \in engine \/ e = <<call.docs[i], {}>>
    BY Zenon, <1>2, <2>1
  <2>3. ASSUME NEW e, e = <<call.docs[i], {}>>
        PROVE  e[1] = call.docs[i] /\ e[2] = {}
    BY Zenon, <2>3
  <2>4. \A e \in engine' : e \in engine \/ (e[1] \in Docs /\ e[2] = {})
    BY Zenon, <1>3, <2>2, <2>3
  <2> QED BY Zenon, <2>4 DEF EngineInv, StoredIsBare
<1>5. call' = [op |-> "upsert", ids |-> call.ids, docs |-> call.docs, todo |-> call.todo \ {i},
               err |-> Written(i, ok), found |-> call.found, tried |-> call.tried,
               lost |-> IF ok THEN call.lost ELSE call.lost \cup {i}]
  BY Zenon, <1>1, <1>2 DEF IsCall
<1>6. /\ DOMAIN Written(i, ok) \subseteq {""} /\ \A k \in DOMAIN Written(i, ok) : Written(i, ok)[k] = "write"
      /\ ok => Written(i, ok) = call.err
      /\ ~ok => "" \in DOMAIN Written(i, ok)
  BY Zenon, <1>1, <1>3 DEF Written, Noted, UpsertInv
<1>7. UpsertInv(call')
  <2> DEFINE err == Written(i, ok)
             lost == IF ok THEN call.lost ELSE call.lost \cup {i}
  <2>1. lost \subseteq DOMAIN call.docs /\ (lost # {} => "" \in DOMAIN err)
    BY Zenon, <1>1, <1>3, <1>6 DEF UpsertInv
  <2> HIDE DEF err, lost
  <2>2. DOMAIN err \subseteq {""} /\ \A k \in DOMAIN err : err[k] = "write"
    BY Zenon, <1>6 DEF err
  <2>3. /\ call'.ids = call.ids /\ call'.docs = call.docs /\ call'.todo = call.todo \ {i}
        /\ call'.err = err /\ call'.found = call.found /\ call'.tried = call.tried
        /\ call'.lost = lost
    BY Zenon, <1>5 DEF err, lost
  <2> QED BY Zenon, <1>1, <2>1, <2>2, <2>3 DEF UpsertInv
<1>8. CallInv'
  BY Zenon, <1>5, <1>7 DEF CallInv, IsCall, UpsertInv
<1> QED BY Zenon, <1>1, <1>4, <1>8, CallSteps

(* The answer of a call: the call ends with it.                            *)
LEMMA ReplyStep ==
  ASSUME IInv, call # Nil, call' = Nil, UNCHANGED <<schema, engine>>, RespInv'
  PROVE  IInv'
<1> USE DEF IInv
<1>1. UNCHANGED <<space, stage, engine>>
  BY Zenon DEF schema
<1>2. EngineInv'
  BY Zenon, <1>1, EngineFrame
<1>3. HeaderInv'
  BY Zenon, <1>1 DEF HeaderInv
<1> QED BY Zenon, <1>2, <1>3 DEF CallInv

(* Upsert answers when all its documents were tried.                       *)
LEMMA UpsertReplyStep ==
  ASSUME IInv, UpsertReply
  PROVE  IInv'
<1> USE DEF IInv
<1> DEFINE failed == {i \in DOMAIN call.ids : call.ids[i] \in DOMAIN call.err}
           code == IF call.ids = <<>> THEN 0 ELSE 103
<1>1. /\ call # Nil /\ call.op = "upsert" /\ call' = Nil /\ UNCHANGED <<schema, engine>>
      /\ UpsertInv(call)
  BY Zenon DEF UpsertReply, CallInv
<1>2. /\ code \in {0, 103} /\ (code = 0 => call.ids = <<>>)
      /\ resp' = [op |-> "upsert", code |-> code, ids |-> call.ids, failed_docs |-> failed,
                  documents |-> {}, err |-> call.err, tried |-> call.tried, lost |-> call.lost]
  BY <1>1 DEF UpsertReply, Answer
<1>3. /\ resp'.op = "upsert" /\ resp'.code = code /\ resp'.ids = call.ids
      /\ resp'.failed_docs = failed /\ resp'.err = call.err /\ resp'.lost = call.lost
  BY Zenon, <1>2
<1>4. call.lost # {} => code # 0 /\ failed = DOMAIN call.ids
  <2> SUFFICES ASSUME call.lost # {} PROVE code # 0 /\ failed = DOMAIN call.ids
    BY Zenon
  <2>1. "" \in DOMAIN call.err /\ DOMAIN call.ids # {} /\ \A i \in DOMAIN call.ids : call.ids[i] = ""
    BY Zenon, <1>1 DEF UpsertInv
  <2>2. DOMAIN <<>> = {}
    OBVIOUS
  <2>3. call.ids # <<>>
    BY Zenon, <2>1, <2>2
  <2>4. \A i \in DOMAIN call.ids : i \in failed
    BY Zenon, <2>1
  <2> QED BY <2>3, <2>4
<1>5. failed \subseteq DOMAIN call.ids /\ \A k \in DOMAIN call.err : call.err[k] # "rpc"
  BY Zenon, <1>1 DEF UpsertInv
<1> HIDE DEF failed, code
<1>6. RespInv'
  BY Zenon, <1>2, <1>3, <1>4, <1>5 DEF RespInv, GetAnswersEachKey, GetTriesReplicas, UpsertFailureSeen
<1> QED BY Zenon, <1>1, <1>6, ReplyStep

(* Get answers when every partition was settled.                           *)
LEMMA GetReplyStep ==
  ASSUME IInv, GetReply
  PROVE  IInv'
<1> USE DEF IInv
<1> DEFINE served == {i \in DOMAIN call.ids : call.ids[i] \in call.found \ DOMAIN call.err}
           failed == DOMAIN call.ids \ served
           code == IF DOMAIN call.err # {} THEN 103 ELSE 0
<1>1. /\ call # Nil /\ call.op = "get" /\ call.todo = {} /\ call' = Nil
      /\ UNCHANGED <<schema, engine>> /\ call.lost = {} /\ GetInv(call) /\ HeaderOk(space)
  BY Zenon DEF GetReply, CallInv, HeaderInv
<1>2. /\ code \in {0, 103} /\ (code = 0 <=> DOMAIN call.err = {})
      /\ resp' = [op |-> "get", code |-> code, ids |-> call.ids, failed_docs |-> failed,
                  documents |-> served, err |-> call.err, tried |-> call.tried, lost |-> call.lost]
  BY <1>1 DEF GetReply, Answer
<1>3. /\ resp'.op = "get" /\ resp'.code = code /\ resp'.ids = call.ids
      /\ resp'.failed_docs = failed /\ resp'.documents = served
      /\ resp'.err = call.err /\ resp'.tried = call.tried /\ resp'.lost = call.lost
  BY Zenon, <1>2
<1>4. failed \cup served = DOMAIN call.ids /\ failed \cap served = {}
  BY Zenon
<1>5. code = 0 => failed = {}
  <2>1. \A i \in DOMAIN call.ids : call.ids[i] \in DOMAIN call.err \cup call.found
    BY Zenon, <1>1 DEF GetInv, Range
  <2> QED BY Zenon, <1>2, <2>1
<1>6. code = 103 => failed # {}
  <2> SUFFICES ASSUME code = 103 PROVE failed # {}
    BY Zenon
  <2>1. PICK k \in DOMAIN call.err : k \in Range(call.ids)
    BY <1>1, <1>2 DEF GetInv
  <2>2. PICK i \in DOMAIN call.ids : call.ids[i] = k
    BY <2>1 DEF Range
  <2> QED BY Zenon, <2>1, <2>2
<1> HIDE DEF served, failed, code
<1>7. ASSUME NEW k \in DOMAIN call.err, call.err[k] = "rpc"
      PROVE  Cardinality(Range(call.tried[PartitionId(k)])) =
               IF space.replicaNum < Retries THEN space.replicaNum ELSE Retries
  <2>1. Rotation(call.tried[PartitionId(k)]) /\ Len(call.tried[PartitionId(k)]) = Retries
    BY Zenon, <1>1, <1>7 DEF GetInv
  <2> QED BY Zenon, <1>1, <2>1, TriesReachReplicas
<1>8. /\ \A k : PartitionId(k)' = PartitionId(k)
      /\ space' = space
  BY Zenon, <1>1, SpaceFrame DEF schema
<1>9. RespInv'
  <2>1. GetAnswersEachKey' /\ UpsertFailureSeen'
    BY Zenon, <1>1, <1>2, <1>3, <1>4, <1>5, <1>6 DEF GetAnswersEachKey, UpsertFailureSeen
  <2>2. GetTriesReplicas'
    BY Zenon, <1>3, <1>7, <1>8 DEF GetTriesReplicas
  <2> QED BY Zenon, <1>2, <1>3, <1>4, <2>1, <2>2 DEF RespInv
<1> QED BY Zenon, <1>1, <1>9, ReplyStep

-----------------------------------------------------------------------------
(* What a try of partition p at replica r that brought a makes of the call. *)
TryOf(p, r, a) ==
  LET tries == Append(TriedAt(p), r)
      last == Len(tries) = Retries
  IN  call' = [call EXCEPT
        !.tried = [q \in DOMAIN call.tried \cup {p} |-> IF q = p THEN tries ELSE call.tried[q]],
        !.todo = IF a # Nil \/ last THEN call.todo \ {p} ELSE call.todo,
        !.found = IF a # Nil THEN call.found \cup a.found ELSE call.found,
        !.err = CASE a # Nil -> Classified(p, a.found, a.failed)
                  [] a = Nil /\ last -> Unreached(p)
                  [] OTHER -> call.err]

(* One try of a partition: it settles all the keys of the partition or     *)
(* leaves it to the next try.                                              *)
LEMMA GetTryStep ==
  ASSUME IInv, GetTry
  PROVE  IInv'
<1> USE DEF IInv
<1>1. /\ call # Nil /\ call.op = "get" /\ call.lost = {} /\ UNCHANGED <<schema, resp, engine>>
      /\ IsCall(call) /\ GetInv(call) /\ HeaderOk(space)
  BY Zenon DEF GetTry, CallInv, HeaderInv
<1>2. PICK p \in call.todo :
        \E r \in ReplicaIdx(TriedAt(p)), a \in PsGet(KeysAt(p)) : TryOf(p, r, a)
  BY Zenon DEF GetTry, TryOf
<1>3. PICK r \in ReplicaIdx(TriedAt(p)), a \in PsGet(KeysAt(p)) : TryOf(p, r, a)
  BY Zenon, <1>2
<1> DEFINE tries == Append(TriedAt(p), r)
           last == Len(tries) = Retries
           settled == a # Nil \/ last
           ids == call.ids
           todo == IF settled THEN call.todo \ {p} ELSE call.todo
           found == IF a # Nil THEN call.found \cup a.found ELSE call.found
           tried == [q \in DOMAIN call.tried \cup {p} |-> IF q = p THEN tries ELSE call.tried[q]]
           err == CASE a # Nil -> Classified(p, a.found, a.failed)
                    [] a = Nil /\ last -> Unreached(p)
                    [] OTHER -> call.err
           rest == KeysAt(p) \ a.found
<1>4. call' = [op |-> "get", ids |-> ids, docs |-> call.docs, todo |-> todo, err |-> err,
               found |-> found, tried |-> tried, lost |-> {}]
  BY Zenon, <1>1, <1>3 DEF IsCall, TryOf
<1>5. Rotation(tries) /\ Len(tries) \in Nat /\ Len(tries) <= Retries
  <2>1. Rotation(TriedAt(p)) /\ Len(TriedAt(p)) \in Nat /\ Len(TriedAt(p)) < Retries
    <3>1. CASE p \in DOMAIN call.tried
      <4>1. /\ TriedAt(p) = call.tried[p]
            /\ Rotation(TriedAt(p)) /\ Len(TriedAt(p)) < Retries
        BY Zenon, <1>1, <1>2, <3>1 DEF TriedAt, GetInv
      <4>2. TriedAt(p) \in Seq(Replicas)
        BY Zenon, <4>1 DEF Rotation
      <4>3. Len(TriedAt(p)) \in Nat
        BY <4>2
      <4> QED BY Zenon, <4>1, <4>3
    <3>2. CASE p \notin DOMAIN call.tried
      <4>1. TriedAt(p) = <<>>
        BY Zenon, <3>2 DEF TriedAt
      <4> QED BY <4>1 DEF Rotation, Retries
    <3> QED BY Zenon, <3>1, <3>2
  <2>2. Rotation(tries) /\ Len(tries) = Len(TriedAt(p)) + 1
    BY Zenon, <1>1, <2>1, NextTry
  <2> HIDE DEF tries
  <2> QED BY <2>1, <2>2 DEF Retries
<1>6. a # Nil => a.found \subseteq KeysAt(p) /\ a.failed \subseteq KeysAt(p)
  BY Zenon DEF PsGet
<1>7. KeysAt(p) = {k \in Range(ids) : PartitionId(k) = p}
  BY Zenon DEF KeysAt
<1>8. /\ a # Nil => /\ DOMAIN err = DOMAIN call.err \cup rest
                    /\ \A k \in DOMAIN err : err[k] = "rpc" => k \in DOMAIN call.err /\ call.err[k] = "rpc"
      /\ a = Nil /\ last => /\ DOMAIN err = DOMAIN call.err \cup KeysAt(p)
                            /\ \A k \in DOMAIN err : err[k] = "rpc" =>
                                 (k \in DOMAIN call.err /\ call.err[k] = "rpc") \/ k \in KeysAt(p)
      /\ a = Nil /\ ~last => err = call.err
  BY Zenon DEF Classified, Missing, Unreached
<1>9. /\ DOMAIN tried = DOMAIN call.tried \cup {p} /\ tried[p] = tries
      /\ \A q \in DOMAIN call.tried : q # p => tried[q] = call.tried[q]
  BY Zenon
<1> HIDE DEF tries, last, ids, todo, found, tried, err, rest
<1>10. /\ call'.ids = ids /\ call'.todo = todo /\ call'.err = err /\ call'.found = found
      /\ call'.tried = tried /\ call'.op = "get" /\ call'.lost = {}
  BY Zenon, <1>4
<1>11. GetInv(call')
  <2>1. /\ ids \in [DOMAIN ids -> Ids] /\ todo \subseteq HashKeys(ids)
        /\ p \in HashKeys(ids) /\ DOMAIN tried \subseteq HashKeys(ids)
    BY Zenon, <1>1, <1>9 DEF GetInv, ids, todo
  <2>2. DOMAIN err \cup found \subseteq Range(ids)
    BY Zenon, <1>1, <1>6, <1>7, <1>8 DEF GetInv, ids, found, rest
  <2>3. ASSUME NEW k \in Range(ids)
        PROVE  PartitionId(k) \in todo \/ k \in DOMAIN err \cup found
    <3>1. PartitionId(k) \in call.todo \/ k \in DOMAIN call.err \cup call.found
      BY Zenon, <1>1 DEF GetInv, ids
    <3>2. CASE PartitionId(k) # p \/ ~settled
      BY Zenon, <1>8, <3>1, <3>2 DEF todo, found
    <3>3. CASE PartitionId(k) = p /\ settled
      BY Zenon, <1>7, <1>8, <3>3 DEF found, rest
    <3> QED BY Zenon, <3>2, <3>3
  <2>4. ASSUME NEW q \in DOMAIN tried
        PROVE  /\ Rotation(tried[q]) /\ Len(tried[q]) <= Retries
               /\ q \in todo => Len(tried[q]) < Retries
    <3>1. CASE q = p
      <4>1. q \in todo => ~last
        BY Zenon, <3>1 DEF todo
      <4>2. Len(tries) <= Retries /\ (~last => Len(tries) < Retries)
        <5>1. \A m \in Nat : m <= Retries /\ m # Retries => m < Retries
          BY DEF Retries
        <5> QED BY Zenon, <1>5, <5>1 DEF last
      <4> QED BY Zenon, <1>5, <1>9, <3>1, <4>1, <4>2
    <3>2. CASE q # p
      BY Zenon, <1>1, <1>9, <3>2 DEF GetInv, todo
    <3> QED BY Zenon, <3>1, <3>2
  <2>5. ASSUME NEW k \in DOMAIN err, err[k] = "rpc"
        PROVE  /\ PartitionId(k) \notin todo /\ PartitionId(k) \in DOMAIN tried
               /\ Len(tried[PartitionId(k)]) = Retries
    <3>1. CASE k \in DOMAIN call.err /\ call.err[k] = "rpc"
      <4>1. /\ PartitionId(k) \notin call.todo /\ PartitionId(k) \in DOMAIN call.tried
            /\ Len(call.tried[PartitionId(k)]) = Retries
        BY Zenon, <1>1, <3>1 DEF GetInv
      <4>2. PartitionId(k) # p
        BY Zenon, <4>1
      <4> QED BY Zenon, <1>9, <4>1, <4>2 DEF todo
    <3>2. CASE a = Nil /\ last /\ k \in KeysAt(p)
      BY Zenon, <1>7, <1>9, <3>2 DEF todo, last
    <3> QED BY Zenon, <1>8, <2>5, <3>1, <3>2
  <2> QED BY Zenon, <1>10, <2>1, <2>2, <2>3, <2>4, <2>5 DEF GetInv
<1>12. CallInv'
  <2>1. GetInv(call)'
    BY Zenon, <1>1, <1>11, SpaceFrame DEF schema
  <2> QED BY Zenon, <1>4, <2>1 DEF CallInv, IsCall
<1>13. EngineInv'
  BY Zenon, <1>1, EngineFrame
<1> QED BY Zenon, <1>1, <1>12, <1>13, CallSteps

-----------------------------------------------------------------------------
(* The invariant holds for a space that was only asked for.                *)
LEMMA IInvInit ==
  ASSUME Init
  PROVE  IInv
  BY Zenon, DocumentsAssumption DEF Init, IInv, HeaderInv, CallInv, RespInv, EngineInv,
     GetAnswersEachKey, GetTriesReplicas, UpsertFailureSeen, StoredIsBare

(* Every step keeps the invariant.                                         *)
LEMMA IInvNext ==
  ASSUME IInv, [Next]_vars
  PROVE  IInv'
<1>1. CASE UNCHANGED vars
  <2>1. UNCHANGED <<space, stage, call, resp, engine>>
    BY Zenon, <1>1 DEF vars, schema
  <2>2. HeaderInv'
    BY Zenon, <2>1 DEF IInv, HeaderInv
  <2> QED BY Zenon, <2>1, <2>2, CallFrame, RespFrame, EngineFrame DEF IInv
<1>2. CASE CheckApiSpace \/ CheckNextField \/ CreateSpace \/ AddSpace
  BY Zenon, <1>2, SchemaSteps
<1>3. CASE \E docs \in Batches(Docs) : Upsert(docs)
  BY Zenon, <1>3, UpsertStep
<1>4. CASE \E ok \in BOOLEAN : WriteDoc(ok)
  BY Zenon, <1>4, WriteDocStep
<1>5. CASE UpsertReply
  BY Zenon, <1>5, UpsertReplyStep
<1>6. CASE \E ids \in Batches(Ids) : Get(ids)
  BY Zenon, <1>6, GetStep
<1>7. CASE GetTry
  BY Zenon, <1>7, GetTryStep
<1>8. CASE GetReply
  BY Zenon, <1>8, GetReplyStep
<1>9. CASE \E ids \in Batches(Ids) : Delete(ids)
  BY Zenon, <1>9, DeleteStep
<1> QED BY Zenon, <1>1, <1>2, <1>3, <1>4, <1>5, <1>6, <1>7, <1>8, <1>9 DEF Next

(* The invariant of the document api: calls, answers and stored documents. *)
LEMMA IInvHolds == Spec => []IInv
<1>1. Init => IInv
  BY Zenon, IInvInit
<1>2. IInv /\ [Next]_vars => IInv'
  BY Zenon, IInvNext
<1> QED BY <1>1, <1>2, PTL DEF Spec

(* A key's partition and the replicas it is asked from exist: the router   *)
(* indexes no vector out of its range.                                     *)
THEOREM TypeCorrect == Spec => []TypeOK
<1>1. IInv => TypeOK
  <2> SUFFICES ASSUME IInv PROVE TypeOK
    BY Zenon
  <2> USE DEF IInv
  <2>1. ASSUME call # Nil, call.op = "get"
        PROVE  /\ call.todo \subseteq 0 .. space.partitionNum - 1
               /\ DOMAIN call.err \cup call.found \subseteq Ids
               /\ DOMAIN call.tried \subseteq 0 .. space.partitionNum - 1
               /\ \A p \in DOMAIN call.tried :
                    Len(call.tried[p]) <= Retries /\ Range(call.tried[p]) \subseteq Replicas
    <3>1. GetInv(call) /\ HeaderOk(space)
      BY Zenon, <2>1 DEF CallInv, HeaderInv
    <3>2. \A i \in DOMAIN call.ids : PartitionId(call.ids[i]) \in 0 .. space.partitionNum - 1
      BY Zenon, <3>1, PartitionRange DEF GetInv
    <3>3. HashKeys(call.ids) \subseteq 0 .. space.partitionNum - 1
      BY Zenon, <3>2 DEF HashKeys
    <3>4. Range(call.ids) \subseteq Ids
      BY Zenon, <3>1 DEF GetInv, Range
    <3>5. ASSUME NEW p \in DOMAIN call.tried
          PROVE  Len(call.tried[p]) <= Retries /\ Range(call.tried[p]) \subseteq Replicas
      <4>1. call.tried[p] \in Seq(Replicas) /\ Len(call.tried[p]) <= Retries
        BY Zenon, <3>1 DEF GetInv, Rotation
      <4>2. \A i \in DOMAIN call.tried[p] : call.tried[p][i] \in Replicas
        BY Zenon, <4>1, SeqElements
      <4> QED BY Zenon, <4>1, <4>2 DEF Range
    <3> QED BY Zenon, <3>1, <3>3, <3>4, <3>5 DEF GetInv
  <2>2. ASSUME call # Nil, call.op # "get"
        PROVE  /\ call.op = "upsert" /\ call.todo \subseteq DOMAIN call.docs
               /\ DOMAIN call.err \cup call.found \subseteq Ids
               /\ DOMAIN call.tried = {}
    BY Zenon, <2>2, DocumentsAssumption DEF CallInv, UpsertInv
  <2> QED BY Zenon, <2>1, <2>2 DEF TypeOK, HeaderInv, RespInv, EngineInv
<1> QED BY <1>1, IInvHolds, PTL

(* Get accounts for each requested id exactly once, for any number of      *)
(* partitions and whatever their replicas answer or fail to answer.        *)
THEOREM KeysAnswered == Spec => []GetAnswersEachKey
<1>1. IInv => GetAnswersEachKey
  BY Zenon DEF IInv, RespInv
<1> QED BY <1>1, IInvHolds, PTL

(* The retries of GetDocs reach three replicas, or all of them, before a   *)
(* key is given up.                                                        *)
THEOREM ReplicasTried == Spec => []GetTriesReplicas
<1>1. IInv => GetTriesReplicas
  BY Zenon DEF IInv, RespInv
<1> QED BY <1>1, IInvHolds, PTL

(* No batch in which a write failed is answered as stored.                 *)
THEOREM FailureSeen == Spec => []UpsertFailureSeen
<1>1. IInv => UpsertFailureSeen
  BY Zenon DEF IInv, RespInv
<1> QED BY <1>1, IInvHolds, PTL

(* Every document the engine gets is an empty one.                         *)
THEOREM BareDocuments == Spec => []StoredIsBare
<1>1. IInv => StoredIsBare
  BY Zenon DEF IInv, EngineInv
<1> QED BY <1>1, IInvHolds, PTL
=============================================================================
