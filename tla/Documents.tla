----------------------------- MODULE Documents -----------------------------
(***************************************************************************)
(* A space from its request to the documents written to it: the master     *)
(* checks and converts it, the engine's table is made from it, a router    *)
(* connects to it (SpaceManager::AddSpace, SpaceConnection::Init) and runs *)
(* the document api Upsert, Get and Delete (router_rpc.cc) over its        *)
(* partitions and replicas (partition_connection.cc).  A request shares no *)
(* mutable state with another one, so one at a time is enough.             *)
(*                                                                         *)
(* The raft write of a document is one step here that may fail             *)
(* (RaftBlock has its steps); a replica asked for documents may fail or    *)
(* answer any of the ids with a document or an error.  The Get of          *)
(* service/ps/ps_rpc.cc answers none, which is one of these answers.       *)
(***************************************************************************)
EXTENDS SpaceSchema

CONSTANTS ApiSpaces,    \* the spaces a client may ask for
          Ids,          \* document ids, "" included
          Docs,         \* documents a client may send
          MaxBatch,     \* bound: ids or documents in a request
          StrHashUint64 \* the hash of an id

ASSUME DocumentsAssumption ==
  /\ ApiSpaces \subseteq ApiSpace
  /\ "" \in Ids /\ StrHashUint64 \in [Ids -> Nat] /\ \A d \in Docs : d._id \in Ids

VARIABLES space,   \* the space: as requested, then as stored
          stage,   \* "offered", "checking", "refused", "created" or "added" (to the router)
          check,   \* where the loop of CheckApiSpace is and what it knows, or Nil
          table,   \* the engine's table of the space
          call,    \* the request the router works on, or Nil
          resp,    \* its last response, or Nil
          engine   \* <<document, fields it has in the engine>> of the writes that succeeded

schema == <<space, stage, check, table>>
vars == <<schema, call, resp, engine>>

Batches(S) == UNION {[1 .. n -> S] : n \in 0 .. MaxBatch}
Retries == 3
IdsOf(docs) == [i \in DOMAIN docs |-> docs[i]._id]
RawHash(key) == StrHashUint64[key]
PartitionId(key) == StrHashUint64[key] % space.partitionNum
Replicas == 0 .. space.replicaNum - 1

Init ==
  /\ space \in ApiSpaces
  /\ stage = "offered"
  /\ check = Nil /\ table = Nil /\ call = Nil /\ resp = Nil /\ engine = {}

(* CheckApiSpace: the request without its fields, then field by field.     *)
CheckApiSpace ==
  /\ stage = "offered"
  /\ IF HeaderOk(space)
     THEN stage' = "checking" /\ check' = FirstField
     ELSE stage' = "refused" /\ UNCHANGED check
  /\ UNCHANGED <<space, table, call, resp, engine>>

CheckNextField ==
  /\ stage = "checking" /\ check.at <= Len(space.fields)
  /\ LET f == space.fields[check.at]
     IN  IF Panics(check, f)
         THEN stage' = "refused" /\ check' = Nil
         ELSE check' = CheckField(check, f) /\ UNCHANGED stage
  /\ UNCHANGED <<space, table, call, resp, engine>>

(* The master's verdict; a space that passes is stored in its inner form,  *)
(* from which the servers make the engine's table.                         *)
CreateSpace ==
  /\ stage = "checking" /\ check.at > Len(space.fields)
  /\ check' = Nil
  /\ IF ~check.msg /\ check.vectors # 0
     THEN /\ stage' = "created"
          /\ space' = ApiSpaceToInnerSpace(space)
          /\ table' = GetGammaTable(space')
     ELSE stage' = "refused" /\ UNCHANGED <<space, table>>
  /\ UNCHANGED <<call, resp, engine>>

(* AddSpace ignores what SpaceConnection::Init says of the _id field.      *)
AddSpace ==
  /\ stage = "created"
  /\ stage' = "added"
  /\ UNCHANGED <<space, check, table, call, resp, engine>>

(* failed_docs and documents are given by the positions in the request of  *)
(* the ids they hold: both follow its order.                               *)
Answer(op, code, ids, failed, found) ==
  resp' = [op |-> op, code |-> code, ids |-> ids, failed_docs |-> failed, documents |-> found,
           err |-> IF call = Nil THEN <<>> ELSE call.err,       \* and, for the properties,
           tried |-> IF call = Nil THEN <<>> ELSE call.tried,   \* what was tried
           lost |-> IF call = Nil THEN {} ELSE call.lost]       \* and the failed writes

(* Requests refused at once: 101 while the router has no connection to the *)
(* space, 102 when an id or a document fails its check.                    *)
Refuse(op, ids, valid) ==
  /\ stage = "created" \/ (stage = "added" /\ ~valid)
  /\ Answer(op, IF stage = "added" THEN 102 ELSE 101, ids, DOMAIN ids, {})
  /\ UNCHANGED call

Begin(op, ids, docs, todo) ==
  /\ resp' = Nil
  /\ call' = [op |-> op, ids |-> ids, docs |-> docs, todo |-> todo,
              err |-> <<>>, found |-> {}, tried |-> <<>>, lost |-> {}]

(* The keys of a batch of documents: the vector is made and never filled.  *)
DocKeys(docs) == [i \in DOMAIN docs |-> ""]

Upsert(docs) ==
  /\ call = Nil
  /\ LET valid == \A i \in DOMAIN docs : CheckPbDoc(docs[i], space)
     IN  \/ Refuse("upsert", IdsOf(docs), valid)
         \/ /\ stage = "added" /\ valid
            /\ Begin("upsert", DocKeys(docs), docs, DOMAIN docs)
  /\ UNCHANGED <<schema, engine>>

(* HashDocs: partition by partition, in each in the order of the request.  *)
NextDoc(i) ==
  \A j \in call.todo \ {i} :
    \/ PartitionId(call.ids[i]) < PartitionId(call.ids[j])
    \/ PartitionId(call.ids[i]) = PartitionId(call.ids[j]) /\ i < j

Noted(err, key, msg) == [k \in DOMAIN err \cup {key} |-> IF k = key THEN msg ELSE err[k]]

LastWritten(i, ok) == IF ok THEN <<>> ELSE Noted(<<>>, call.ids[i], "write")

Written(i, ok) == IF ok THEN call.err ELSE Noted(call.err, call.ids[i], "write")

WriteDoc(ok) ==
  /\ call # Nil /\ call.op = "upsert"
  /\ \E i \in call.todo :
         /\ NextDoc(i)
         /\ call' = [call EXCEPT !.todo = @ \ {i}, !.err = Written(i, ok),
                                 !.lost = IF ok THEN @ ELSE @ \cup {i}]
         /\ engine' = IF ok THEN engine \cup {<<call.docs[i], PbDocToGammaDoc(call.docs[i], space)>>}
                      ELSE engine
  /\ UNCHANGED <<schema, resp>>

(* 103 whenever there was a document, failed or not.                       *)
UpsertReply ==
  /\ call # Nil /\ call.op = "upsert" /\ call.todo = {}
  /\ Answer("upsert", IF call.ids = <<>> THEN 0 ELSE 103, call.ids,
            {i \in DOMAIN call.ids : call.ids[i] \in DOMAIN call.err}, {})
  /\ call' = Nil
  /\ UNCHANGED <<schema, engine>>

HashKeys(ids) == {PartitionId(ids[i]) : i \in DOMAIN ids}
KeysAt(p) == {k \in Range(call.ids) : PartitionId(k) = p}

Get(ids) ==
  /\ call = Nil
  /\ LET valid == CheckPbIds(ids, space)
     IN  \/ Refuse("get", ids, valid)
         \/ /\ stage = "added" /\ valid
            /\ Begin("get", ids, <<>>, HashKeys(ids))
  /\ UNCHANGED <<schema, engine>>

AnyReplica(tried) == Replicas

(* A random replica first, then the next ones in turn.                     *)
ReplicaIdx(tried) == IF tried = <<>> THEN Replicas ELSE {(tried[Len(tried)] + 1) % space.replicaNum}

TriedAt(p) == IF p \in DOMAIN call.tried THEN call.tried[p] ELSE <<>>

Failed(keys, found, failed) == failed \ found

Missing(keys, found, failed) == keys \ found

Classified(p, found, failed) ==
  [k \in DOMAIN call.err \cup Missing(KeysAt(p), found, failed) |->
     IF k \in DOMAIN call.err THEN call.err[k] ELSE IF k \in failed THEN "ps" ELSE "absent"]

Unreached(p) ==
  [k \in DOMAIN call.err \cup KeysAt(p) |-> IF k \in DOMAIN call.err THEN call.err[k] ELSE "rpc"]

(* SpaceConnection::GetDocs visits the partitions in the order of a map.   *)
NextPartition(p) == \A q \in call.todo : p <= q

(* What PsRpcClient::Get may bring: nothing when the rpc failed, or the    *)
(* keys answered with a document and those answered with an error.         *)
PsGet(keys) == {Nil} \cup [found : SUBSET keys, failed : SUBSET keys]

(* One turn of the retry loop of PartitionConnetion::GetDocs.  A replica   *)
(* that answers settles every key of its partition: a document, its error, *)
(* or "not found in response"; a failing last try fails them all.          *)
GetTry ==
  /\ call # Nil /\ call.op = "get"
  /\ \E p \in call.todo :
       /\ NextPartition(p)
       /\ \E r \in ReplicaIdx(TriedAt(p)), a \in PsGet(KeysAt(p)) :
           LET tries == Append(TriedAt(p), r)
               last == Len(tries) = Retries
           IN  call' = [call EXCEPT
                 !.tried = [q \in DOMAIN @ \cup {p} |-> IF q = p THEN tries ELSE @[q]],
                 !.todo = IF a # Nil \/ last THEN @ \ {p} ELSE @,
                 !.found = IF a # Nil THEN @ \cup a.found ELSE @,
                 !.err = CASE a # Nil -> Classified(p, a.found, a.failed)
                           [] a = Nil /\ last -> Unreached(p)
                           [] OTHER -> @]
  /\ UNCHANGED <<schema, resp, engine>>

GetReply ==
  /\ call # Nil /\ call.op = "get" /\ call.todo = {}
  /\ LET served == {i \in DOMAIN call.ids : call.ids[i] \in call.found \ DOMAIN call.err}
     IN  Answer("get", IF DOMAIN call.err # {} THEN 103 ELSE 0, call.ids,
                DOMAIN call.ids \ served, served)
  /\ call' = Nil
  /\ UNCHANGED <<schema, engine>>

(* PartitionConnetion::DeleteDocs does nothing and reports no error.       *)
DeleteDocs(ids) == {}

Delete(ids) ==
  /\ call = Nil
  /\ LET valid == CheckPbIds(ids, space)
         err == DeleteDocs(ids)
     IN  \/ Refuse("delete", ids, valid)
         \/ /\ stage = "added" /\ valid
            /\ Answer("delete", IF err = {} THEN 0 ELSE 103, ids,
                      {i \in DOMAIN ids : ids[i] \in err}, {})
            /\ UNCHANGED call
  /\ UNCHANGED <<schema, engine>>

Next ==
  \/ CheckApiSpace
  \/ CheckNextField
  \/ CreateSpace
  \/ AddSpace
  \/ \E docs \in Batches(Docs) : Upsert(docs)
  \/ \E ok \in BOOLEAN : WriteDoc(ok)
  \/ UpsertReply
  \/ \E ids \in Batches(Ids) : Get(ids)
  \/ GetTry
  \/ GetReply
  \/ \E ids \in Batches(Ids) : Delete(ids)

Spec == Init /\ [][Next]_vars
-----------------------------------------------------------------------------
(* The state is well-formed; in particular a partition the router indexes  *)
(* its vector of partitions with (GetPartitionId) exists, and so does a    *)
(* replica it takes from _ps_list.                                         *)
TypeOK ==
  /\ stage \in {"offered", "checking", "refused", "created", "added"}
  /\ call # Nil =>
       /\ call.op \in {"upsert", "get"}
       /\ call.todo \subseteq IF call.op = "get" THEN 0 .. space.partitionNum - 1 ELSE DOMAIN call.docs
       /\ DOMAIN call.err \cup call.found \subseteq Ids
       /\ DOMAIN call.tried \subseteq 0 .. space.partitionNum - 1
       /\ \A p \in DOMAIN call.tried : Len(call.tried[p]) <= Retries /\ Range(call.tried[p]) \subseteq Replicas
  /\ resp # Nil => resp.code \in {0, 101, 102, 103} /\ resp.failed_docs \subseteq DOMAIN resp.ids
  /\ \A e \in engine : e[1] \in Docs

VectorFields == {i \in DOMAIN space.fields : space.fields[i].type = "vector"}
Indexed == {i \in DOMAIN space.fields : space.fields[i].index # Nil}

(* The fields of the space by what the messages of CheckApiSpace ask of    *)
(* them, without its loop.                                                 *)
WellFormed ==
  /\ \A i, j \in DOMAIN space.fields : i # j => space.fields[i].name # space.fields[j].name
  /\ \A i, j \in Indexed : i # j => space.fields[i].index.name # space.fields[j].index.name
  /\ \A i \in DOMAIN space.fields : space.fields[i].name # ""
  /\ \A i \in Indexed : space.fields[i].index.name # ""
  /\ \A i \in DOMAIN space.fields \ VectorFields : space.fields[i].type \in ScalarFieldTypes
  /\ \A i \in Indexed \ VectorFields : space.fields[i].index.type \in ScalarIndexTypes
  /\ VectorFields \subseteq Indexed
  /\ \A i \in VectorFields :
       /\ space.fields[i].dimension \in Dimensions
       /\ space.fields[i].index.type \in VectorIndexTypes

(* CheckApiSpace goes on after a failed field and keeps its counters and   *)
(* name sets by hand, yet a space it lets through is well formed whatever  *)
(* the order of its fields, has a vector field, and gives the engine a     *)
(* table with a column for each field and the index of a vector field; and *)
(* it refuses no well-formed space with one vector field.                  *)
SchemaSound ==
  /\ stage \in {"created", "added"} =>
       /\ WellFormed
       /\ Cardinality(VectorFields) \in {1, 2}
       /\ Cardinality(table.vectors) = Cardinality(VectorFields)
       /\ Cardinality(table.vectors \cup table.scalars) = Len(space.fields)
       /\ \E i \in VectorFields : table.index = space.fields[i].index
       /\ table.index.params # Nil => ParamsOk(table.index)
  /\ stage = "refused" =>
       ~ /\ HeaderOk(space) /\ WellFormed /\ Cardinality(VectorFields) = 1
         /\ \A i \in VectorFields : space.fields[i].index.params # Nil /\ ParamsOk(space.fields[i].index)

(* Over several partitions, some of them out of reach and some answering   *)
(* only part of their keys, Get accounts for each requested id exactly     *)
(* once, as a document or as a failure, and its code tells which: 0 only   *)
(* when no id failed, 103 only when one did.                               *)
GetAnswersEachKey ==
  resp # Nil /\ resp.op = "get" =>
    /\ resp.failed_docs \cup resp.documents = DOMAIN resp.ids
    /\ resp.failed_docs \cap resp.documents = {}
    /\ resp.code = 0 => resp.failed_docs = {}
    /\ resp.code = 103 => resp.failed_docs # {}

(* Get gives up on a key only after as many different replicas of its      *)
(* partition failed as it has retries, or all of them: the retries of      *)
(* GetDocs are not spent on a replica that has just failed.                *)
GetTriesReplicas ==
  resp # Nil =>
    \A k \in DOMAIN resp.err : resp.err[k] = "rpc" =>
      Cardinality(Range(resp.tried[PartitionId(k)])) =
        IF space.replicaNum < Retries THEN space.replicaNum ELSE Retries

(* A document whose write failed is never answered as stored, whatever     *)
(* became of the later ones of its batch: the code is not 0 and every      *)
(* document of the batch, all under the same key, is in failed_docs.       *)
UpsertFailureSeen ==
  resp # Nil /\ resp.op = "upsert" /\ resp.lost # {} =>
    resp.code # 0 /\ resp.failed_docs = DOMAIN resp.ids

(* What on_apply stores of an acknowledged document is an empty one: the   *)
(* id types PbDocToGammaDoc converts are among those CheckApiSpace refuses *)
(* (dto.go 114), and its error is ignored (raft_store.cc 256).             *)
StoredIsBare == \A e \in engine : e[2] = {}
=============================================================================
