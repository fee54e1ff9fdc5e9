# SimSearch: a TLA+ verification project

SimSearch is a distributed vector search service. A **space** (a table) is cut
into partitions, each partition is a raft group of replicas, and each replica
lives on a partition server of its own. This directory holds TLA+ models of
its protocols, the TLC configurations that check them on small instances, and
TLAPS proofs of the results that should hold for every configuration.

## The system

| part | where | state | operations |
|---|---|---|---|
| **master** (Go, one or more) | `src/master` | none of its own; etcd is embedded | `create_space`, `delete_space`, `space_list`, `register`, `gen_id` |
| etcd keys | `config/config.go`, `common/common.go` | `/ddl/lock`, `/cluster/ddl_disabled`, `/spaces/mata/<db>/<space>`, `gen_space_id`, `gen_ps_id`, `/error/nodes/ps`, `/error/spaces`, `/deleted_spaces/mata`, node and router registrations | put, get, scan, delete, transactions, leases |
| **partition server** (C++, `ps`) | `src/service/ps`, `src/raft_store`, `src/engine` | the space request and `_has_space`, `create_space_req.json`, `node_info.json`, the raft block, the engine | `CreateSpace`, `DeleteSpace`, raft `write`/`read`, state-machine callbacks, start, registration |
| **router** (C++) | `src/service/router`, `src/utils` | table of space connections with a name index, `local_spaces.json`, raft clients | `AddSpace`, `DeleteSpace`, `Upsert`, `Get`, `Delete`, start, registration |
| clients | `src/clients`, `src/raft_store/raft_client.cc` | connection slots, leases | etcd calls, keep-alive, leader lookup, retried writes |

The masters run in parallel and share everything through etcd. `create_space`
and `delete_space` (DDL) take a distributed lock, put `/cluster/ddl_disabled`
while servers are being changed, call every replica and every router over
HTTP with a 10 s timeout, and record what failed. Partition servers and
routers keep a local file to restart from.

`PROJECT.json` lists every part with its status, and the hazards found while
reading the code, each with the properties that cover it or the reason why
none does.

## Modules

| module | role |
|---|---|
| `SpaceCatalog` | abstract specification: a catalog to which one space at a time is added (free name, free nodes, unused id) or from which one is dropped |
| `SpaceDdl` | the request handlers of all masters, the etcd keys, the calls in transit, partition servers and routers as DDL sees them |
| `MCSpaceDdl` | `SpaceDdl` for TLC, with its symmetry |
| `SpaceDdlProofs` | the theorems about `SpaceDdl` that hold for every set of faults |
| `SpaceDdlSerialInv`, `SpaceDdlServers` | the theorems about `SpaceDdl` without contention for the lock: what handlers and etcd know, then what the partition servers hold |
| `RouterSpaces` | the table of spaces inside one router process: slots, bucket index, saved list, start, rpc threads |
| `MCRouterSpaces` | `RouterSpaces` for TLC: the buckets of three keys |
| `RouterSpacesProofs` | the inductive invariant of `RouterSpaces`, and the theorems about it |
| `PsNode` | one partition server: `main`, the handlers `CreateSpace` and `DeleteSpace`, its files and directories, crashes and exits |
| `MCPsNode` | `PsNode` for TLC, with its symmetry |
| `PsNodeProofs` | the theorems about `PsNode` |
| `RaftBlock` | one partition as a raft group: the `Block` of every replica and the `RaftClient`s that write to it, over an abstract braft |
| `MCRaftBlock` | `RaftBlock` for TLC, with its symmetry |
| `RaftBlockProofs` | the inductive invariant of `RaftBlock`, the lemmas that its actions keep it, and the theorems about it |
| `SpaceSchema` | pure operators: the master's checks of one field of a space and its conversion, the engine's table, the checks and conversions of documents and ids |
| `Documents` | a space from its request to the documents written to it: the document api of the router over partitions and replicas |
| `MCDocuments` | `Documents` for TLC: the pool of fields, headers and documents |
| `SpaceSchemaProofs`, `DocumentsProofs` | the theorems about `Documents`: the check of a space and the engine's table, then the document api |

### How SpaceDdl corresponds to the code

A handler is a goroutine of a master running `createSpace` or `deleteSpace`;
`pc` is the etcd operation it is about to do.

| step | code (`master/clusterapi/space_api.go`) | action |
|---|---|---|
| `c_lock`, `d_lock` | 291-300, 362-368 | `TryLock`, `TryLockFails` |
| `c_check`, `d_check` | 301, 371 | `CheckDdlDisabled` |
| `c_nodes` | 23-28 | `ScanNodes` |
| `c_spaces` | 30-44, 207-226 | `ScanSpaces` |
| `c_disable` | 230-231 | `DisableAndCreate` |
| `c_ps` | 231-236 | `CreateAnswered`, `Panic` |
| `c_redisable` | 237-239 | `RedisableAndUndo` |
| `c_undo` | 239-245, 251-255 | `UndoAnswered`, `Panic` |
| `c_mata` | 247-256 | `PutMata` |
| `c_enable` | 257, 315, 160-174 | `EnableAndAddRouters` |
| `c_router` | 174-186 | `RoutersAdded` |
| `d_read` | 370 | `ReadMata` |
| `d_disable` | 386-387 | `LogAndDisable` |
| `d_mata` | 388-394 | `DeleteMata` |
| `d_router` | 152, 395 | `RoutersDeleted` |
| `d_ps` | 395-397 | `DeleteAnswered`, `Panic` |
| `d_enable` | 398, 403 | `EnableAfterDelete` |
| `unlock` | 279-284, 349-354 | `UnlockAndClose` |
| `dead` | a crashed master whose lease is still alive | `SessionExpires` |

`createSpace` returns when it cannot get the lock; `deleteSpace` does not look
at the result of `TryLock` (line 368) and goes on. The model keeps the
difference. It also keeps the way a failed call is turned into a replica,
`Partitions[idx/PartitionNum].Replicas[idx%PartitionNum]`: task `t` belongs to
partition `t \div ReplicaNum`, so the right replica is found only when
`PartitionNum = ReplicaNum`, and otherwise a wrong one is marked or the handler
panics (`Panic`; gin recovers, the deferred function unlocks).

A call stays in `net` until the server executes it, also after the handler
timed out: a late call is executed whatever has happened meanwhile. A lost
call is one that is never executed. A partition server refuses a space when
`_has_space` is set; a creation that fails clears the request but leaves the
flag set; a deletion compares names only; a restart reads the local file.

What is abstracted:

* Records carry a name, an id and the node of every task; field schemas, times
  and texts are left out. The values of the error keys are texts for people:
  only their presence is modelled.
* All spaces of an instance have the same `PartitionNum` and `ReplicaNum`.
* The nodes and routers registered at a scan are an arbitrary set: leases come
  and go on their own.
* The scans of nodes and of error nodes are one step, as are the scan of the
  spaces and the generation of the id. Puts that only record an outcome (the
  keys of failed nodes, of the failed space, of the deletion log) are merged
  with the operation next to them; `/cluster/ddl_disabled` exists around them,
  or is about to be put.
* Each handler runs on a master of its own, so a crash ends one request.
* `TryLock` may fail at any time: a `register` request uses the same lock.
* Partition servers and routers execute a call in one step (the former hold
  their mutex). The routers' table is one entry per name: neither full nor
  with colliding buckets.

What is assumed of etcd: operations whose error the code tests may fail
(`"etcd" \in Faults`), a failing put or delete with or without effect. The
errors the code does not look at (scans, id generation, put and delete of
`ddl_disabled`, error keys) do not occur, and the session of a living handler
does not lose its lease. Both are listed as hazards.

`gen_space_id` starts at 0: a starting master burns the base value
(`cluster_api.go` 33-35), so the first space gets id 1.

### How RouterSpaces corresponds to the code

`SpaceDdl` sees a router as one entry per name. `RouterSpaces` is the inside of
one router (`src/service/router/space_manager.cc`, `local_spaces.cc`,
`src/utils/one_writer_multi_reader_map.cc`, `router_main.cc`).

| code | actions |
|---|---|
| `main`: server start, `Init`, end of the process | `StartServer`, `ScanEtcd`, `LockForLoad`, `LoadSpace`, `FinishLoad`, `Stop` |
| `AddSpace` | `AddRefused`, or `AddReusesSlot` / `AddAppends`, then `IndexAdded`, then `SaveAdded` for an appended slot |
| `DeleteSpace` | `DeleteLocal`, `SaveDeleted` (before the lock), then `DeleteRefused`, or `DeleteIndex` and `FreeSlot` |
| `GetSpaceConn` | `GetIndex`, `GetSlot`, without the lock |
| the masters and etcd (external) | `CreateInEtcd`, `DeleteInEtcd` |

Slots are numbered from 1, and 0 stands for the index -1. `Put` never makes a
second cell for a key, and a cell with index -1 behaves like no cell, so all
buckets together are one function `index` from keys to slots; `Put` refuses a
key when any key of its bucket is indexed. The server serves before `Init` has
filled the table. Requests that reach it then (the lease of an earlier
incarnation may still be alive) make `Init` store connections under wrong
indices; the history variable `early` records this.

Abstracted: a space is its key (ids and partitions play no part in the table),
calls of one kind for one key are not counted, `LocalSpaces::Save` and each
change of its list are atomic although `DeleteSpace` makes them without the
lock, and a `Stop` during a save may leave an empty file. A lookup beside a
reallocation of the slots (more spaces in etcd than were reserved) is taken as
a read of the slot.

### How PsNode corresponds to the code

`SpaceDdl` sees a partition server as one step per call. `PsNode` is the inside
of one (`src/service/ps_main.cc`, `src/service/ps/ps_rpc.cc`,
`local_mata.cc`, `local_storager.cc`, `RaftManager` in
`src/raft_store/raft_store.cc`).

| code | actions |
|---|---|
| `CreateOrLoadNodeMata` | `LoadNodeMata`, `CreateNodeMata` |
| `main` after it | `StartBrpc`, `CheckSpace`, `LoadEngine`, `MainCreateBlock`, `MainRaftParams`, `MainStartRaft`, `LaunchRegister`, `RegisterDone`, `BrpcStop` |
| `PsRpcImpl::CreateSpace` | `CreateSpace`, `CreateTable`, `CreateRaftBlock`, `StartRaft`, `OpenSpaceFile`, `WriteSpaceFile` |
| `PsRpcImpl::DeleteSpace` | `DeleteSpace`, `DropBlock`, `DropEngine`, `DropMata` |
| end of the process | `Crash` at any point, `Exit` where `main` returns (the static `RaftManager` deletes the block, and with it its raft directory) |

`main` never takes `RaftManager::mtx`, and the rpc server serves before `main`
has loaded the space: a handler may overtake it, which the history variable
`early` records. A file is truncated and then written, so a crash in between
leaves it `Torn`; a torn node or space file keeps the process from starting.
The space file holds no node id; the model keeps the id of its writer beside it
for the properties only.

### How RaftBlock corresponds to the code

| code | actions |
|---|---|
| `RaftClient::Write`, `PartitionConnetion::UpsertDocs` | `WriteUnconnected`, `WriteSend`, `WriteFails`, `WriteSucceeds` |
| `Block::write` | `BlockWrite` (reads `_leader_term`, redirects), `BlockApply` (`_node->apply` with `expected_term`) |
| `Block::on_apply`, `set_error_and_rollback` | `OnApply`, `OnApplyFails` |
| `on_leader_start`, `on_leader_stop` | `OnLeaderStart`, `OnLeaderStop` |
| `on_snapshot_save`, `on_snapshot_load` | `OnSnapshotSave`, `OnSnapshotLoad` |
| braft (external) | `Commit`, `Elect`, `StepDown`, `Restart` |

A call is one round of `Write`: a client has three, and a round that timed out
stays under way and may still be served. All writes are to one key and a
client writes its own value, so the document of a replica is the client of the
last entry it applied.

What is assumed of braft: there is one committed log; at most one leader per
term; a new leader has every committed entry; a task whose `expected_term` is
not the node's term is refused; the closures of tasks that are not committed
when a leader steps down run with an error, although such a task may still be
committed by the next leader (`MayCarry`); `on_leader_start` comes after the
entries of earlier terms were applied. What is assumed of gamma: it keeps its
documents over a restart. The snapshot files are those of the mock engine, not
of gamma, so a replica that is set up from a snapshot lacks the documents it
covers: the history variable `bare` marks it, and the properties about
documents leave it out.

### How SpaceSchema and Documents correspond to the code

`SpaceSchema` holds one turn of the loop of `CheckApiSpace` (`CheckField`) and
`ApiSpaceToInnerSpace` (`master/entity/dto.go`), and `GetGammaTable`,
`CheckPbDoc`, `CheckPbIds` and `PbDocToGammaDoc` (`common/dto.cc`) as operators.

`Documents` offers a space, checks it field by field, creates it, adds it to a
router and then runs requests one at a time (a request shares no mutable state
with another). The variable `check` holds the accumulators of the loop: a field
that fails is left half way and the loop goes on, and the names it registered
before stay. A vector field without parameters is a panic, after which the
space is not created.

| code | actions |
|---|---|
| `CheckApiSpace`, `ToInnerSpace` | `CheckApiSpace` (names, numbers, id type), `CheckNextField` per field, `CreateSpace` |
| `SpaceConnection::Init` | `AddSpace` |
| `RouterDocRpcImpl::Upsert`, `HashDocs`, `UpsertDocs` | `Upsert`, `WriteDoc` per document in the order of the partitions, `UpsertReply` |
| `RouterDocRpcImpl::Get`, `HashKeys`, `GetDocs` | `Get`, `GetTry` per try of a partition, `GetReply` |
| `RouterDocRpcImpl::Delete` | `Delete` |

The model keeps what the code does where one would expect something else: the
check accepts only id types that are *not* in `DocKeyTypes` (`dto.go` 114); the
keys of an upsert are a vector that is never filled, so all its documents hash
alike and share one error entry; an upsert of at least one document is answered
103 also when nothing failed; `DeleteDocs` does nothing. The write of a document
is one step that may fail (`RaftBlock` has its steps), and a replica may answer
any of the ids with a document or an error. `failed_docs` and `documents` of an
answer are sets of positions in the request: the code fills both in its order.

## Runs

| run | instance | checked | result |
|---|---|---|---|
| `ddl_races` | 2 handlers, 2 names, 2 nodes, 1x1, 2 ids; timeouts, failing servers, crashes, lock not obtained | `TypeOK`, `PlacementIsFree`, `FailureIsSaved`, `CatalogSpec` | holds, 176,059 states |
| `ddl_serial` | 2 handlers, 1 name, 3 nodes, 1 router, 2x1, 2 ids; timeouts, failing servers, crashes, failing etcd operations | `MataBacked`, `IdleIsClean`, `CreateFailureLocksDdl`, `RouterServesCommitted`, `DropIsLogged` | holds, 789,993 states |
| `ddl_live` | 2 handlers, 1 name, 2 nodes, 1 router, 2x1, 1 id; timeouts, failing servers, crashes, lock not obtained | `RequestAnswered` | holds, 98,732 states |
| `ddl_failure_unlocked` | 1x1, timeouts | `FailureLocksDdl` | violated |
| `ddl_same_name_drop` | 1x1, lock not obtained | `DropIsLogged` | violated |
| `ddl_failure_unsaved` | 2x1, failing servers | `FailureIsSaved` | violated |
| `ddl_router_aba` | 1x1, 1 router, 2 ids, timeouts | `RouterServesCurrent` | violated |
| `router_table` | 2 threads, 3 keys (two in one bucket), 2 slots reserved, 4 changes in etcd | `TypeOK`, `IndexInRange`, `IndexedServesKey`, `ServedAnotherOnlyIfDeleted`, `DeleteFreesOwn` | holds, 635,644 states |
| `router_bucket_full` | the same | `AddedIsFound` | violated |
| `ps_node` | 2 spaces, 3 node ids | `TypeOK`, `AckedIsKept`, `WedgeIsVolatile`, `RunningRaftHasDir`, `QuietNodeAgrees`, `RaftDirKept` | holds, 10,115 states |
| `raft_block` | 2 replicas, 2 clients with 3 tries and 2 sends in all, 2 terms, 2 entries, 1 fault | `TypeOK`, `StoredIsCommitted`, `ReplicaIsReplay`, `LeaderServesAcked`, `CommittedInTermRead` | holds, 2,435,478 states |
| `documents` | all spaces of up to 3 fields from a pool of 16, 192 odd headers, batches of up to 2 ids or documents, 2 partitions, 3 replicas | `TypeOK`, `SchemaSound`, `GetAnswersEachKey`, `GetTriesReplicas`, `UpsertFailureSeen`, `StoredIsBare` | holds, 445,827 states |

What the passing runs show:

* `CatalogSpec`, `PlacementIsFree`: whatever a deletion does without the lock,
  the catalog in etcd never gets a space on a used node, under a used name or
  with a used id. The argument is that deletions only shrink it.
* `FailureIsSaved`: every failure a handler sees is under `/error/spaces` by
  the time it answers, as long as decoding does not panic (1x1 instance).
* `MataBacked`, `IdleIsClean`: when requests get the lock, whenever DDL is
  enabled and no request is past it, each space in etcd is held by all its
  servers, and every server that a creation would take for idle is empty with
  no call on its way. This is the invariant the markers `ddl_disabled` and
  `/error/nodes/ps` exist for, and it survives timeouts, crashes at any step
  and etcd operations that fail. In the 2x1 instance a mis-decoded failure
  panics in the handler before `ddl_disabled` is removed, which is why the
  wrong index does not break it.
* `CreateFailureLocksDdl`: a failed creation leaves DDL disabled for ever (an
  operator has to act). `RouterServesCommitted`: a router never serves a space
  that was not committed. `DropIsLogged`: a space disappears only after that
  incarnation was logged, as long as deletions get the lock.
* `RequestAnswered`: no path keeps a handler for ever.
* `IndexInRange`: no request, whenever it comes, makes a lookup or a deletion
  read beyond the slots, although neither compares its index with their
  number. The order "slot, then index" of `AddSpace` is what this rests on.
* `IndexedServesKey`, `ServedAnotherOnlyIfDeleted`, `DeleteFreesOwn`: unless
  requests were served between the scan and the loop of `Init`, an indexed key
  leads to its own connection, a lookup that races with a deletion gets
  another space only if its own was deleted between its two reads, and a
  deletion never frees a slot that another space has taken over.

* `AckedIsKept`: a space whose creation was answered with 0 survives every crash,
  exit, failed or early request of its server, as long as the server keeps its
  node id. `WedgeIsVolatile`: a server that refuses everything after a failed
  creation has no file that would bring that state back.
* `RunningRaftHasDir`, `QuietNodeAgrees`, `RaftDirKept`: memory, raft group and
  raft directory agree unless a handler overtook `main`; an exit of `main`
  removes the raft directory of an acknowledged space, a crash does not.
* `StoredIsCommitted`, `CommittedInTermRead`: whatever is redirected, timed out,
  tried again or rolled back, a write counted as stored is committed, in the
  term `Block::write` read. `LeaderServesAcked`, `ReplicaIsReplay`: a leader that
  answers reads has applied every acknowledged write, and no replay after a
  restart exposes an older document, except on a replica set up from a snapshot.
* `SchemaSound`: the hand-kept counters of `CheckApiSpace` accept only well
  formed spaces in any order of fields (two vector fields included, which the
  counter lets through) and refuse none with one vector field.
* `GetAnswersEachKey`, `GetTriesReplicas`: each id of a Get is answered exactly
  once, with a code that agrees, and given up only after three replicas.
* `UpsertFailureSeen`: a failed write is never answered as stored; the price is
  that every document of the batch is reported as failed. `StoredIsBare`: what
  the engine stores of an acknowledged document is an empty one, since the id
  types that can be converted are those that cannot be created.

What the violations show is quoted with the documentation in the findings of
`PROJECT.json`: a failed deletion re-enables DDL (line 398); a deletion
without the lock drops a later space of the same name (line 368); a failure
may be lost in a panic (line 95); a router that missed a deletion keeps the
old incarnation (`space_manager.cc` 82); the second space of a bucket is added
with success and cannot be found (`one_writer_multi_reader_map.cc` 16).

**Bounds.** `MaxSpaceId` bounds the creations started; two ids are the least
that let a name be created again while calls of its first incarnation are
under way. Two handlers are the least that race; a third would only wait for
the lock or repeat a deletion. Three nodes with two tasks leave an idle node
beside a space. In `RouterSpaces`, `MaxChanges` bounds the changes in etcd:
four let a slot be freed, taken by another key and freed again while a lookup
or a second deletion is under way, and three creations overflow two slots.
In `PsNode`, `MaxId` bounds the ids a node may be given: three let it lose its
id twice. In `RaftBlock`, `MaxTerm`, `MaxLog`, `MaxSends` and `MaxFaults` bound
elections, entries, rpcs and restarts or gamma failures: two of each of the
first three are the least with a change of leader between the steps of a write
and with two writes in one log; its theorems hold without these bounds being
small. In `Documents`, `MaxBatch` bounds a request, two being the least that
mixes a failure and a success. Symmetry (handlers, names, nodes, threads,
spaces, replicas, clients) is used for safety only. `ps_node`, `raft_block` and
`documents` do not check deadlock: a torn file, exhausted bounds and a refused
space end them.

**Fairness.** `FairSpec` asks for weak fairness of what a handler does by
itself. The code justifies it: `TryLock` gives up after 20 tries, so a
handler at the lock is never blocked; a call ends with an answer or after the
10 s of the HTTP client; the lease of a crashed master expires. Servers get
no fairness.

## Proofs

A leaf that needs no arithmetic names `Zenon`, which is the quicker prover
there; the others are left to SMT.

### SpaceDdl

`SpaceDdlProofs` proves, for all sets of handlers, names, nodes and routers,
all positive `PartitionNum` and `ReplicaNum` and all faults:

| theorem | statement |
|---|---|
| `TypeCorrect` | `Spec => []TypeOK` |
| `CreatesAreExclusive` | `Spec => []CreateHoldsLock` |
| `PlacementsStayFree` | `Spec => []PlacementIsFree` |
| `NodesAreNotShared` | `Spec => []NoSharedNode` |
| `ImplementsCatalog` | `Spec => CatalogSpec` |
| `FailuresAreSaved` | `Spec => []FailureIsSaved`, when `PartitionNum = ReplicaNum` |

The assumption is `ConstantsAssumption` of `SpaceDdl`; the last theorem needs
the numbers to agree, since otherwise a failure can be lost in a panic, which
is what the run `ddl_failure_unsaved` shows. The inductive invariant is `IInv == TypeInv /\ CreateHoldsLock /\ PlacementInv`:

* `TypeInv` adds to the types what a handler knows at each step: past the
  scan it holds a space whose name is the one it was asked for, before it
  it holds none. Without that the record put into etcd has no type.
* `CreateHoldsLock` makes placements exclusive (`OnePlacement`).
* `PlacementInv` adds to `PlacementIsFree` and `NoSharedNode` that every id in
  etcd or in a placement has been handed out (`IdsHandedOut`), which gives the
  fresh id.

Two actions need an argument of their own: `ScanSpaces` creates a placement
(`ScanSpacesPlaces`) and `PutMata` turns it into a space (`PutMataKeeps`). All
others satisfy `KeepsPlacements`, for which `Frame` shows once that nothing is
disturbed. For the refinement, `PutMata` maps to `Add`, `DeleteMata` to `Drop`
(or both to a stutter when etcd did not apply them) and no other action
changes the catalog. `FailuresAreSaved` rests on `AnswerInv`: outside the steps
that wait for servers no answer is open, a failure among the answers is saved,
and only the steps between a failure and the end of its request still know of
one. `TasksInRange` shows that with as many partitions as replicas no failed
task makes the handler panic.

The other properties of `SpaceDdl` fail when `deleteSpace` goes on without the
lock (`ddl_same_name_drop` is an example), so `SpaceDdlSerialInv` and
`SpaceDdlServers` prove them for `Serial`: `"contention" \notin Faults`, every
other fault being allowed, as in the run `ddl_serial`.

| theorem | statement, for `Serial` |
|---|---|
| `FailedCreationsLockDdl` | `Spec => []CreateFailureLocksDdl` |
| `DropsAreLogged` | `Spec => DropIsLogged` |
| `RoutersServeCommitted` | `Spec => []RouterServesCommitted` |
| `SpacesStayBacked` | `Spec => []MataBacked` |
| `IdleServersAreClean` | `Spec => []IdleIsClean`, when `PartitionNum = 1`, `ReplicaNum = 1` or both are equal |

The argument goes outwards, from the handlers to etcd to the servers:

* `WorkerInv`: one handler at a time is past the lock; `/cluster/ddl_disabled`
  exists while it calls servers or changes `/spaces/mata`, and is absent between
  its check and its put. The key alone does not say who put it: a crashed or
  failed handler leaves it behind. So DDL is called `Healthy` when it is enabled
  or disabled by a handler that is going to enable it, and `KeepsWorker` says
  that what is not healthy stays so for ever.
* `EtcdInv`: what a handler read of `/spaces/mata` is still there when it acts on
  it (`MataInv`, with the log of deletions), the tasks of a space are on different
  nodes (`SpreadInv`), and while DDL is healthy only deletions have failed
  (`ErrInv`).
* `RouterInv`: what routers serve and the creations on their way to them were
  committed; the log of deletions only grows, so this is for good.
* `ServerInv`: a server that holds a space has its flag set and a call goes to
  the replica of its task; and while DDL is healthy, the servers of a space in
  etcd, of one about to be put and of one just deleted hold it, with no deletion
  on its way to them (`LiveHeld`, `WorkHeld`); a deletion on its way finds the
  space it is meant for (`Deletes`); the handler of a creation on its way still
  waits for it (`Creates`); and an unmarked server that nobody uses is empty
  (`Swept`). Calls that timed out are the difficulty: a late deletion, which goes
  by the name of the space only, could empty a server that was given a new
  space, and a late creation could fill one that looks idle. The former finds
  its own space, because its server is marked and gets no other; the latter
  comes after a failed creation, which disables DDL for good.

`Swept` needs a failed task to be decoded to itself, or not at all
(`ExactDecoding`, which `ExactDecodings` derives from the numbers). With 2
partitions and 3 replicas a failed deletion marks another server than the one
that failed, and TLC finds `IdleIsClean` violated.

### RouterSpaces

`RouterSpacesProofs` proves, for all sets of keys and threads, every
assignment of keys to buckets and every `MaxSpaceNum`:

| theorem | statement |
|---|---|
| `IndicesAreInRange` | `Spec => []IndexInRange` |
| `IndexServesItsKey` | `Spec => []IndexedServesKey` |
| `LookupsServeTheirKey` | `Spec => ServedAnotherOnlyIfDeleted` |
| `DeletesFreeTheirOwn` | `Spec => DeleteFreesOwn` |
| `TypeCorrect` | `Spec => []TypeOK` |
| `AddsAreFound` | `Spec => AddedIsFound`, when `Bucket` is injective |

The assumption is `RouterAssumption`. The last theorem says when the finding of
`router_bucket_full` cannot occur: sharing a bucket is the only way an added
space gets lost. The inductive invariant `IInv` has these
parts:

* `TableType`: the types of slots, index and threads. It says nothing of
  `local`, `file` and `infos`: the argument holds whatever keys `Init` loads,
  also when a saved list names a key twice.
* `LockInv`: only the holder of `_mtx` is about to publish or to free a slot.
* `RangeInv`: an index that is published, remembered by a thread or about to be
  published is that of a slot, and `Init` has not counted further than there
  are slots.
* `LoadInv`: there is no slot before the loop of `Init`, unless one was appended
  early, so that `Init` counts indices as it appends slots.
* `LookupInv`: a lookup whose key was not deleted since has the index of its key.
  `Put` keeps it because it never touches a bucket with a live cell.
* `OwnInv`: a slot that an index leads to, or that a writer works on, holds the
  connection of that key, and no index leads to a slot that is about to be freed.

`TypeCorrect` adds `ListInv`, the types of the lists. Two facts carry it: the
spaces in etcd are finitely many, so what `Init` takes of them is a list; and
what `LocalSpaces::DeleteSpace` leaves of a list is one (`WithoutType`). `Without`
says which positions are kept and numbers them by rank, instead of walking
through the list; ranks differ and are at most as many as there are positions,
so each number up to that is the rank of one. `AddsAreFound` adds `AbsentInv`:
from its test of the index to its `Put`, `AddSpace` holds `_mtx`, and nobody
else indexes its key.

### PsNode

`PsNodeProofs` proves, for every set of spaces and every number of ids:

| theorem | statement |
|---|---|
| `TypeCorrect` | `Spec => []TypeOK` |
| `AckedSpacesAreKept` | `Spec => []AckedIsKept` |
| `WedgesAreVolatile` | `Spec => []WedgeIsVolatile` |
| `RunningRaftsHaveDirs` | `Spec => []RunningRaftHasDir` |
| `QuietNodesAgree` | `Spec => []QuietNodeAgrees` |
| `RaftDirsAreKept` | `Spec => RaftDirKept` |

The assumption is `NodeAssumption`: the values that stand for "no file", "torn",
"no block" and "all groups" are neither spaces nor ids nor records of them. The
inductive invariant is `IInv == TypeOK /\ MemoryInv /\ FileInv /\ BlockInv`:

* `MemoryInv`: a handler works on the request in memory, and a process that has
  just started has neither a handler nor a block.
* `FileInv`: every id on disk was given out, and a process that is up has in
  memory the space of a file written under its own id. Without the former a new
  id could be the one of an old file.
* `BlockInv`: where the one block stands at each step of `main` and of the
  handlers, when none overtook the other.

`MainKeeps`, `HandlerKeeps` and `CrashKeeps` show that each action keeps it.

### RaftBlock

`RaftBlockProofs` proves, for all sets of replicas and clients and all bounds on
terms, entries, sends and faults:

| theorem | statement |
|---|---|
| `TypeCorrect` | `Spec => []TypeOK` |
| `StoredWritesAreCommitted` | `Spec => []StoredIsCommitted` |
| `ReplicasAreReplays` | `Spec => []ReplicaIsReplay` |
| `LeadersServeAcked` | `Spec => []LeaderServesAcked` |
| `CommitsAreInTermRead` | `Spec => []CommittedInTermRead` |

The assumption is `BlockAssumption`. The inductive invariant `IInv` has these
parts:

* `PendInv`, `LogInv`: a task waits at the node its call went to, in the term the
  call read, and is not in the log while that node leads the newest term; each
  call has at most one entry. This is where `expected_term` enters.
* `AckInv`: only a call with an entry is answered with success.
* `ReplayInv`: a replica holds the document of the highest entry it ever applied
  when it has applied it (again), and never applies beyond it without storing.
* `LeaderInv`: the leader of the newest term is the only one, entries after its
  election carry no closure of another node, and acknowledged entries are before
  its election or applied by it. Together with `on_leader_start` coming after
  the entries of earlier terms, this gives `LeaderServesAcked`.
* `TypeInv`, `TermInv`, `IndexInv`: types and bounds.

`CalmStep` shows once that a step without an election, a new task or a new
entry keeps all of it; `BlockApply`, `OnApply`, `Commit`, `Elect` and `StepDown`
have arguments of their own.

### Documents

`SpaceSchemaProofs` and `DocumentsProofs` prove, for every set of spaces, ids and
documents, every hash, any number and order of fields and any length of a
batch:

| theorem | statement |
|---|---|
| `SchemasAreSound` | `Spec => []SchemaSound` |
| `TypeCorrect` | `Spec => []TypeOK` |
| `KeysAnswered` | `Spec => []GetAnswersEachKey` |
| `ReplicasTried` | `Spec => []GetTriesReplicas` |
| `FailureSeen` | `Spec => []UpsertFailureSeen` |
| `BareDocuments` | `Spec => []StoredIsBare` |

The assumptions are `SchemaAssumption` (an absent pointer is not a value) and
`DocumentsAssumption` (the types of spaces and of the hash, and that the ids
include those of the documents and the empty one, under which an upsert files
its documents).

`SchemasAreSound` rests on `LoopInv`, the invariant of the loop of
`CheckApiSpace`: as long as there is no message, the fields seen so far have
passed, their names and index names are distinct and are those in the two maps,
and the counter is the number of vector fields among them, at most two; and a
space that must not be refused has got no message (`Wanted`). `LoopStep` shows
that a turn keeps it. At the end the fields seen are all fields, which makes
the space well formed. That the table has a column for each field and the index
of a vector field is shown for the converted space (`TableOf`, `CreatedSpace`):
a conversion keeps names, types and dimensions, and drops no index of a vector
field because those that passed have parameters.

The document api adds `IInv == HeaderInv /\ CallInv /\ RespInv /\ EngineInv`:

* `HeaderInv`: a router serves a space only when its numbers and its id type
  passed the check. The partition of a key then exists, and `StoredIsBare`
  follows, the id types that pass being those that are not converted.
* `CallInv` for a Get: each key is settled, or its partition is still to be
  asked; the tries of a partition are a `Rotation`, each on the replica after the
  one before; and a key is given up only with three of them. `ReplicasTried` is
  then arithmetic modulo 1, 3 or 5.
* `CallInv` for an Upsert: all documents share the empty key, under which each
  failure is noted and none is erased, so an answer after a failure lists them
  all.
* `RespInv`, `EngineInv`: the properties themselves, of the last answer and of what
  was stored.

### Only model-checked

`RequestAnswered`, because liveness under fairness is out of the prover's reach.
Every other property of a passing run is also a theorem, some of them under the
conditions given above.

## Not modelled

* **Registration of nodes**: the `register` and `gen_id` handlers of the
  masters, the leases and the keep-alive of partition servers and routers
  (`src/clients/etcd_client.cc`). `SpaceDdl` takes the registered nodes of a scan
  as an arbitrary set and `PsNode` the outcome of a registration as arbitrary,
  which covers what registration can do to them; that ip:port and ids are
  unique is not checked.
* **A starting router beside a running creation**: `RouterSpaces` and `SpaceDdl`
  are not composed, so a space created between the scan of a router and its
  registration is outside both.
* **Reads of a Block** are not an action: `LeaderServesAcked` is about every
  state in which one could be answered. `GammaDocToPbDoc`, used by reads only,
  is left out.
* **External**: gamma, braft, brpc and etcd, modelled by what the code uses of
  them. The mock engine holds the files of snapshots and serves the test api.
* **No protocol state**: HTTP and JSON encodings, logging, configuration,
  `space_list`, the monitor and the unused watch jobs of the master.
* **Stubs and unused code**: `Search` and `SpaceList` of the router,
  `PsRpcImpl::Get` and `Search`, `UpdatePsConn`, `UpsertDocsToPs`, `GetPbDocKey`,
  `clients/dynamic_resource.h`.
* **Shape of an instance**: spaces of one `SpaceDdl` instance share their
  partition and replica numbers; error values are texts and only their presence
  is modelled.
