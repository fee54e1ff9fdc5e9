------------------------------ MODULE SpaceDdl ------------------------------
(***************************************************************************)
(* Creation and deletion of spaces: the request handlers of the masters    *)
(* (createSpace, deleteSpace), the etcd keys they share, the partition     *)
(* servers and the routers they call.                                      *)
(*                                                                         *)
(* A handler step is one etcd operation with the local work and the        *)
(* requests that follow it; the puts that only record an outcome (error    *)
(* keys, deletion log) are merged with the next operation, since           *)
(* /cluster/ddl_disabled exists, or is about to be put, around them.  A    *)
(* request stays in net until the server executes it; the handler may have *)
(* timed out before.                                                       *)
(***************************************************************************)
EXTENDS Integers, FiniteSets

CONSTANTS Handlers,      \* request handlers, over all the masters
          NoHandler,
          Names,         \* (db_name, space_name) pairs
          Nodes,         \* partition servers, by ip:port
          Routers,
          NoSpace,       \* an absent etcd key, or a server without a space
          PartitionNum, ReplicaNum,
          MaxSpaceId,    \* bound: number of space ids handed out
          Faults         \* what may go wrong, a subset of FaultKinds

FaultKinds ==
  {"rpc",          \* a call to a server reaches its 10 s timeout
   "ps",           \* a partition server fails to create its space
   "crash",        \* a master or a partition server stops
   "etcd",         \* an etcd operation whose error the code tests fails
   "contention"}   \* TryLock finds the lock taken on all its tries

Tasks == 0 .. PartitionNum * ReplicaNum - 1
Space == [name : Names, id : Nat \ {0}, nodes : [Tasks -> Nodes]]

ASSUME ConstantsAssumption ==
  /\ PartitionNum \in Nat \ {0} /\ ReplicaNum \in Nat \ {0}
  /\ MaxSpaceId \in Nat
  /\ Faults \subseteq FaultKinds
  /\ NoHandler \notin Handlers
  /\ NoSpace \notin Space \cup Names
  /\ Nodes \cap Routers = {}

VARIABLES
  lock,          \* the handler whose session owns /ddl/lock
  ddlDisabled,   \* whether /cluster/ddl_disabled exists
  spaceMata,     \* /spaces/mata/<name>
  genSpaceId,    \* gen_space_id, the last id handed out
  errNodes,      \* /error/nodes/ps
  errSpaces,     \* ids under /error/spaces
  deletedSpaces, \* ids under /deleted_spaces/mata
  psSpace,       \* the space request a partition server holds
  psHasSpace,    \* its _has_space flag
  routerSpaces,  \* the id a router serves under a name, 0 for none
  net,           \* requests not executed yet
  pc, req,       \* a handler's step, and the name it was asked for
  usable,        \* createSpace: registered nodes without an error key
  space,         \* the space a handler works on
  result,        \* the answers to its calls to partition servers
  waiting        \* the routers it waits for

etcd == <<lock, ddlDisabled, spaceMata, genSpaceId, errNodes, errSpaces, deletedSpaces>>
servers == <<psSpace, psHasSpace, routerSpaces>>
local == <<req, usable, space, result, waiting>>
vars == <<etcd, servers, net, pc, local>>

(* Handler steps, in the order of the code.                                *)
CreateSteps ==
  {"c_lock", "c_check", "c_nodes", "c_spaces", "c_disable", "c_ps",
   "c_redisable", "c_undo", "c_mata", "c_enable", "c_router"}
DeleteSteps ==
  {"d_lock", "d_read", "d_check", "d_disable", "d_mata", "d_router", "d_ps", "d_enable"}
Steps == CreateSteps \cup DeleteSteps \cup {"idle", "unlock", "dead"}

Message ==
  [to : Nodes \cup Routers, space : Space, from : Handlers, task : Tasks,
   kind : {"ps_create", "ps_delete", "router_create", "router_delete"}]

NoResult == [t \in Tasks |-> "none"]

Init ==
  /\ lock = NoHandler
  /\ ddlDisabled = FALSE
  /\ spaceMata = [n \in Names |-> NoSpace]
  /\ genSpaceId = 0
  /\ errNodes = {} /\ errSpaces = {} /\ deletedSpaces = {}
  /\ psSpace = [n \in Nodes |-> NoSpace]
  /\ psHasSpace = [n \in Nodes |-> FALSE]
  /\ routerSpaces = [r \in Routers |-> [n \in Names |-> 0]]
  /\ net = {}
  /\ pc = [p \in Handlers |-> "idle"]
  /\ req = [p \in Handlers |-> NoSpace]
  /\ usable = [p \in Handlers |-> {}]
  /\ space = [p \in Handlers |-> NoSpace]
  /\ result = [p \in Handlers |-> NoResult]
  /\ waiting = [p \in Handlers |-> {}]

Goto(p, step) == pc' = [pc EXCEPT ![p] = step]

(* The handler ends through its deferred function: the response is sent,  *)
(* and what it knew is gone.                                               *)
Forget(p) ==
  /\ req' = [req EXCEPT ![p] = NoSpace]
  /\ usable' = [usable EXCEPT ![p] = {}]
  /\ space' = [space EXCEPT ![p] = NoSpace]
  /\ result' = [result EXCEPT ![p] = NoResult]
  /\ waiting' = [waiting EXCEPT ![p] = {}]

-----------------------------------------------------------------------------
(* Requests and the DDL lock.                                              *)

Creating == {p \in Handlers : pc[p] \in CreateSteps}

StartCreate(p, n) ==
  /\ pc[p] = "idle"
  /\ genSpaceId + Cardinality(Creating) < MaxSpaceId
  /\ req' = [req EXCEPT ![p] = n]
  /\ Goto(p, "c_lock")
  /\ UNCHANGED <<etcd, servers, net, usable, space, result, waiting>>

StartDelete(p, n) ==
  /\ pc[p] = "idle"
  /\ req' = [req EXCEPT ![p] = n]
  /\ Goto(p, "d_lock")
  /\ UNCHANGED <<etcd, servers, net, usable, space, result, waiting>>

(* One of the 20 tries of TryLock finds the key free.                      *)
TryLock(p) ==
  /\ pc[p] \in {"c_lock", "d_lock"}
  /\ lock = NoHandler
  /\ lock' = p
  /\ Goto(p, IF pc[p] = "c_lock" THEN "c_check" ELSE "d_read")
  /\ UNCHANGED <<ddlDisabled, spaceMata, genSpaceId, errNodes, errSpaces, deletedSpaces,
                 servers, net, local>>

TryLockFailsUnnoticed(p) ==
  /\ pc[p] \in {"c_lock", "d_lock"}
  /\ \/ /\ "contention" \in Faults
        /\ Goto(p, IF pc[p] = "c_lock" THEN "c_check" ELSE "d_read")
     \/ /\ "etcd" \in Faults
        /\ Goto(p, "unlock")
  /\ UNCHANGED <<etcd, servers, net, local>>

(* The last try fails, because of another handler or of a registration:    *)
(* createSpace returns, deleteSpace ignores the error.  Both return when   *)
(* they get no session.                                                    *)
TryLockFails(p) ==
  /\ pc[p] \in {"c_lock", "d_lock"}
  /\ \/ /\ "contention" \in Faults
        /\ Goto(p, IF pc[p] = "c_lock" THEN "unlock" ELSE "d_read")
     \/ /\ "etcd" \in Faults
        /\ Goto(p, "unlock")
  /\ UNCHANGED <<etcd, servers, net, local>>

(* UnlockAndClose releases the lock of its own session only.               *)
UnlockAndClose(p) ==
  /\ pc[p] = "unlock"
  /\ lock' = IF lock = p THEN NoHandler ELSE lock
  /\ Goto(p, "idle")
  /\ Forget(p)
  /\ UNCHANGED <<ddlDisabled, spaceMata, genSpaceId, errNodes, errSpaces, deletedSpaces,
                 servers, net>>

(* Both handlers refuse to go on when /cluster/ddl_disabled exists or      *)
(* cannot be read.                                                         *)
CheckDdlDisabled(p) ==
  /\ pc[p] \in {"c_check", "d_check"}
  /\ \/ /\ ~ddlDisabled
        /\ Goto(p, IF pc[p] = "c_check" THEN "c_nodes" ELSE "d_disable")
     \/ /\ ddlDisabled \/ "etcd" \in Faults
        /\ Goto(p, "unlock")
  /\ UNCHANGED <<etcd, servers, net, local>>

-----------------------------------------------------------------------------
(* Calls to partition servers: a task per replica, partition by partition. *)

Calls(p, s, kind) ==
  {[to |-> s.nodes[t], space |-> s, from |-> p, task |-> t, kind |-> kind] : t \in Tasks}

RouterCalls(p, rs, s, kind) ==
  {[to |-> r, space |-> s, from |-> p, task |-> 0, kind |-> kind] : r \in rs}

Waits(p) == result' = [result EXCEPT ![p] = [t \in Tasks |-> "wait"]]

AnsweredByOne(p) == \E t \in Tasks : result[p][t] \in {"ok", "fail"}
Answered(p) == \A t \in Tasks : result[p][t] \in {"ok", "fail"}
FailedTasks(p) == {t \in Tasks : result[p][t] = "fail"}

(* The replica a failed task is taken for: task t is looked up at          *)
(* Partitions[t / PartitionNum].Replicas[t % PartitionNum], which panics   *)
(* when out of range.                                                      *)
InRange(t) == t \div PartitionNum < PartitionNum /\ t % PartitionNum < ReplicaNum
ErrReplica(s, t) == s.nodes[(t \div PartitionNum) * ReplicaNum + (t % PartitionNum)]
NoErrReplicas(p) == {}
ErrReplicas(p) == {ErrReplica(space[p], t) : t \in FailedTasks(p)}
Panics(p) == \E t \in FailedTasks(p) : ~InRange(t)

(* A panic while the answers are examined: the deferred function unlocks,  *)
(* nothing else is written.                                                *)
Panic(p) ==
  /\ pc[p] \in {"c_ps", "c_undo", "d_ps"}
  /\ Answered(p) /\ Panics(p)
  /\ Goto(p, "unlock")
  /\ UNCHANGED <<etcd, servers, net, local>>

-----------------------------------------------------------------------------
(* createSpace.                                                            *)

(* The registered nodes are whatever leases are alive; nodes with an error *)
(* key are left out.                                                       *)
ScanNodes(p) ==
  /\ pc[p] = "c_nodes"
  /\ \E registered \in SUBSET Nodes :
        usable' = [usable EXCEPT ![p] = registered \ errNodes]
  /\ Goto(p, "c_spaces")
  /\ UNCHANGED <<etcd, servers, net, req, space, result, waiting>>

NodesOf(s) == {s.nodes[t] : t \in Tasks}
Busy == UNION {NodesOf(spaceMata[n]) : n \in {m \in Names : spaceMata[m] # NoSpace}}
Registered(p) == usable[p]
Idle(p) == usable[p] \ Busy
Placements(idle) ==
  {f \in [Tasks -> idle] : \A t, u \in Tasks : t # u => f[t] # f[u]}

OldId == genSpaceId
NewIDGenerate == genSpaceId + 1

(* Too few idle nodes and a name in use are both refused; otherwise the    *)
(* replicas are placed on idle nodes, in the arbitrary order of a Go map,  *)
(* and the space gets its id.                                              *)
ScanSpaces(p) ==
  /\ pc[p] = "c_spaces"
  /\ \/ /\ spaceMata[req[p]] # NoSpace \/ Placements(Idle(p)) = {}
        /\ Goto(p, "unlock")
        /\ UNCHANGED <<genSpaceId, space>>
     \/ /\ spaceMata[req[p]] = NoSpace
        /\ \E f \in Placements(Idle(p)) :
              space' = [space EXCEPT ![p] =
                         [name |-> req[p], id |-> NewIDGenerate, nodes |-> f]]
        /\ genSpaceId' = genSpaceId + 1
        /\ Goto(p, "c_disable")
  /\ UNCHANGED <<lock, ddlDisabled, spaceMata, errNodes, errSpaces, deletedSpaces,
                 servers, net, req, usable, result, waiting>>

(* /cluster/ddl_disabled is put before the first call leaves.              *)
DisableAndCreate(p) ==
  /\ pc[p] = "c_disable"
  /\ ddlDisabled' = TRUE
  /\ net' = net \cup Calls(p, space[p], "ps_create")
  /\ Waits(p)
  /\ Goto(p, "c_ps")
  /\ UNCHANGED <<lock, spaceMata, genSpaceId, errNodes, errSpaces, deletedSpaces,
                 servers, req, usable, space, waiting>>

ForgetErrSpace(p) == UNCHANGED errSpaces
PutErrSpace(p) == errSpaces' = errSpaces \cup {space[p].id}

CreateAnswered(p) ==
  /\ pc[p] = "c_ps"
  /\ Answered(p) /\ ~Panics(p)
  /\ \/ /\ FailedTasks(p) = {}
        /\ Goto(p, "c_mata")
        /\ UNCHANGED <<errNodes, errSpaces>>
     \/ /\ FailedTasks(p) # {}
        /\ errNodes' = errNodes \cup ErrReplicas(p)
        /\ PutErrSpace(p)
        /\ Goto(p, "c_redisable")
  /\ UNCHANGED <<lock, ddlDisabled, spaceMata, genSpaceId, deletedSpaces, servers, net, local>>

(* The failure is appended to /cluster/ddl_disabled, then every replica is *)
(* asked to delete the space, those that failed included.                  *)
RedisableAndUndo(p) ==
  /\ pc[p] = "c_redisable"
  /\ ddlDisabled' = TRUE
  /\ net' = net \cup Calls(p, space[p], "ps_delete")
  /\ Waits(p)
  /\ Goto(p, "c_undo")
  /\ UNCHANGED <<lock, spaceMata, genSpaceId, errNodes, errSpaces, deletedSpaces,
                 servers, req, usable, space, waiting>>

DisabledIfUndoFailed(p) == FailedTasks(p) # {}
DisabledAfterUndo(p) == ddlDisabled \/ FailedTasks(p) # {}

UndoAnswered(p) ==
  /\ pc[p] = "c_undo"
  /\ Answered(p) /\ ~Panics(p)
  /\ errNodes' = errNodes \cup ErrReplicas(p)
  /\ ddlDisabled' = DisabledAfterUndo(p)
  /\ Goto(p, "unlock")
  /\ UNCHANGED <<lock, spaceMata, genSpaceId, errSpaces, deletedSpaces, servers, net, local>>

PutMataUnchecked(p) ==
  /\ pc[p] = "c_mata"
  /\ spaceMata' \in {spaceMata, [spaceMata EXCEPT ![req[p]] = space[p]]}
  /\ Goto(p, "c_enable")
  /\ UNCHANGED <<lock, ddlDisabled, genSpaceId, errNodes, errSpaces, deletedSpaces,
                 servers, net, local>>

(* The space becomes visible.  A failed put (which etcd may have applied)  *)
(* is recorded and undone on the servers.                                  *)
PutMata(p) ==
  /\ pc[p] = "c_mata"
  /\ \/ /\ spaceMata' = [spaceMata EXCEPT ![req[p]] = space[p]]
        /\ Goto(p, "c_enable")
        /\ UNCHANGED <<errSpaces, net, result>>
     \/ /\ "etcd" \in Faults
        /\ spaceMata' \in {spaceMata, [spaceMata EXCEPT ![req[p]] = space[p]]}
        /\ PutErrSpace(p)
        /\ net' = net \cup Calls(p, space[p], "ps_delete")
        /\ Waits(p)
        /\ Goto(p, "c_undo")
  /\ UNCHANGED <<lock, ddlDisabled, genSpaceId, errNodes, deletedSpaces,
                 servers, req, usable, space, waiting>>

(* DDL is enabled again before the routers are told.                       *)
EnableAndAddRouters(p) ==
  /\ pc[p] = "c_enable"
  /\ ddlDisabled' = FALSE
  /\ \E registered \in SUBSET Routers :
        /\ net' = net \cup RouterCalls(p, registered, space[p], "router_create")
        /\ waiting' = [waiting EXCEPT ![p] = registered]
  /\ Goto(p, "c_router")
  /\ UNCHANGED <<lock, spaceMata, genSpaceId, errNodes, errSpaces, deletedSpaces,
                 servers, req, usable, space, result>>

(* The answers of the routers are only counted.                            *)
RoutersAdded(p) ==
  /\ pc[p] = "c_router"
  /\ waiting[p] = {}
  /\ Goto(p, "unlock")
  /\ UNCHANGED <<etcd, servers, net, local>>

-----------------------------------------------------------------------------
(* deleteSpace.                                                            *)

ReadMata(p) ==
  /\ pc[p] = "d_read"
  /\ \/ /\ spaceMata[req[p]] # NoSpace
        /\ space' = [space EXCEPT ![p] = spaceMata[req[p]]]
        /\ Goto(p, "d_check")
     \/ /\ spaceMata[req[p]] = NoSpace \/ "etcd" \in Faults
        /\ Goto(p, "unlock")
        /\ UNCHANGED space
  /\ UNCHANGED <<etcd, servers, net, req, usable, result, waiting>>

DisableOnly(p) ==
  /\ pc[p] = "d_disable"
  /\ ddlDisabled' = TRUE
  /\ Goto(p, "d_mata")
  /\ UNCHANGED <<lock, spaceMata, genSpaceId, errNodes, errSpaces, deletedSpaces,
                 servers, net, local>>

LogAndDisable(p) ==
  /\ pc[p] = "d_disable"
  /\ deletedSpaces' = deletedSpaces \cup {space[p].id}
  /\ ddlDisabled' = TRUE
  /\ Goto(p, "d_mata")
  /\ UNCHANGED <<lock, spaceMata, genSpaceId, errNodes, errSpaces, servers, net, local>>

(* The key is deleted by name; a key that is gone is an error, after which *)
(* DDL stays disabled.                                                     *)
DeleteMata(p) ==
  /\ pc[p] = "d_mata"
  /\ \/ /\ spaceMata[req[p]] # NoSpace
        /\ spaceMata' = [spaceMata EXCEPT ![req[p]] = NoSpace]
        /\ \E registered \in SUBSET Routers :
              /\ net' = net \cup RouterCalls(p, registered, space[p], "router_delete")
              /\ waiting' = [waiting EXCEPT ![p] = registered]
        /\ Goto(p, "d_router")
        /\ UNCHANGED errSpaces
     \/ /\ spaceMata[req[p]] = NoSpace \/ "etcd" \in Faults
        /\ spaceMata' \in {spaceMata, [spaceMata EXCEPT ![req[p]] = NoSpace]}
        /\ PutErrSpace(p)
        /\ Goto(p, "unlock")
        /\ UNCHANGED <<net, waiting>>
  /\ UNCHANGED <<lock, ddlDisabled, genSpaceId, errNodes, deletedSpaces,
                 servers, req, usable, space, result>>

RoutersDeleted(p) ==
  /\ pc[p] = "d_router"
  /\ waiting[p] = {}
  /\ net' = net \cup Calls(p, space[p], "ps_delete")
  /\ Waits(p)
  /\ Goto(p, "d_ps")
  /\ UNCHANGED <<etcd, servers, req, usable, space, waiting>>

DeleteAnswered(p) ==
  /\ pc[p] = "d_ps"
  /\ Answered(p) /\ ~Panics(p)
  /\ errNodes' = errNodes \cup ErrReplicas(p)
  /\ IF FailedTasks(p) = {} THEN UNCHANGED errSpaces ELSE PutErrSpace(p)
  /\ Goto(p, "d_enable")
  /\ UNCHANGED <<lock, ddlDisabled, spaceMata, genSpaceId, deletedSpaces, servers, net, local>>

(* /cluster/ddl_disabled is deleted whether the servers failed or not.     *)
EnableAfterDelete(p) ==
  /\ pc[p] = "d_enable"
  /\ ddlDisabled' = FALSE
  /\ Goto(p, "unlock")
  /\ UNCHANGED <<lock, spaceMata, genSpaceId, errNodes, errSpaces, deletedSpaces,
                 servers, net, local>>

-----------------------------------------------------------------------------
(* Servers.  An answer counts if its handler still waits for it.           *)

Awaited(m) ==
  /\ space[m.from] = m.space
  /\ result[m.from][m.task] = "wait"
  /\ m.kind = "ps_create" <=> pc[m.from] = "c_ps"

Answer(m, a) ==
  result' = IF Awaited(m) THEN [result EXCEPT ![m.from][m.task] = a] ELSE result

(* A server with a space refuses another one.  A creation that fails       *)
(* clears the request but leaves _has_space set.                           *)
PsCreateSpace(m) ==
  /\ m.kind = "ps_create"
  /\ net' = net \ {m}
  /\ \/ /\ psHasSpace[m.to]
        /\ Answer(m, "fail")
        /\ UNCHANGED <<psSpace, psHasSpace>>
     \/ /\ ~psHasSpace[m.to]
        /\ psSpace' = [psSpace EXCEPT ![m.to] = m.space]
        /\ psHasSpace' = [psHasSpace EXCEPT ![m.to] = TRUE]
        /\ Answer(m, "ok")
     \/ /\ "ps" \in Faults
        /\ ~psHasSpace[m.to]
        /\ psSpace' = [psSpace EXCEPT ![m.to] = NoSpace]
        /\ psHasSpace' = [psHasSpace EXCEPT ![m.to] = TRUE]
        /\ Answer(m, "fail")
  /\ UNCHANGED <<etcd, routerSpaces, pc, req, usable, space, waiting>>

(* The space is identified by its name alone.                              *)
PsDeleteSpace(m) ==
  /\ m.kind = "ps_delete"
  /\ net' = net \ {m}
  /\ \/ /\ psSpace[m.to] # NoSpace /\ psSpace[m.to].name = m.space.name
        /\ psSpace' = [psSpace EXCEPT ![m.to] = NoSpace]
        /\ psHasSpace' = [psHasSpace EXCEPT ![m.to] = FALSE]
        /\ Answer(m, "ok")
     \/ /\ psSpace[m.to] # NoSpace => psSpace[m.to].name # m.space.name
        /\ Answer(m, "fail")
        /\ UNCHANGED <<psSpace, psHasSpace>>
  /\ UNCHANGED <<etcd, routerSpaces, pc, req, usable, space, waiting>>

RouterAnswer(m) ==
  waiting' = IF /\ space[m.from] = m.space
                /\ pc[m.from] = IF m.kind = "router_create" THEN "c_router" ELSE "d_router"
             THEN [waiting EXCEPT ![m.from] = @ \ {m.to}]
             ELSE waiting

RouterAddSpace(m) ==
  /\ m.kind = "router_create"
  /\ net' = net \ {m}
  /\ routerSpaces' = IF routerSpaces[m.to][m.space.name] = 0
                       THEN [routerSpaces EXCEPT ![m.to][m.space.name] = m.space.id]
                       ELSE routerSpaces
  /\ RouterAnswer(m)
  /\ UNCHANGED <<etcd, psSpace, psHasSpace, pc, req, usable, space, result>>

RouterDeleteSpace(m) ==
  /\ m.kind = "router_delete"
  /\ net' = net \ {m}
  /\ routerSpaces' = [routerSpaces EXCEPT ![m.to][m.space.name] = 0]
  /\ RouterAnswer(m)
  /\ UNCHANGED <<etcd, psSpace, psHasSpace, pc, req, usable, space, result>>

-----------------------------------------------------------------------------
(* Time and crashes.                                                       *)

NoTimeout(p, t) == FALSE

(* The HTTP client gives a call up; the server may still execute it.       *)
Timeout(p, t) ==
  /\ "rpc" \in Faults
  /\ result[p][t] = "wait"
  /\ result' = [result EXCEPT ![p][t] = "fail"]
  /\ UNCHANGED <<etcd, servers, net, pc, req, usable, space, waiting>>

RouterTimeout(p, r) ==
  /\ "rpc" \in Faults
  /\ r \in waiting[p]
  /\ waiting' = [waiting EXCEPT ![p] = @ \ {r}]
  /\ UNCHANGED <<etcd, servers, net, pc, req, usable, space, result>>

(* A master stops in the middle of a request; the lease of its session     *)
(* ends later, and with it the lock.                                       *)
MasterCrash(p) ==
  /\ "crash" \in Faults
  /\ pc[p] \notin {"idle", "dead"}
  /\ Goto(p, "dead")
  /\ Forget(p)
  /\ UNCHANGED <<etcd, servers, net>>

SessionExpires(p) ==
  /\ pc[p] = "dead"
  /\ lock' = IF lock = p THEN NoHandler ELSE lock
  /\ Goto(p, "idle")
  /\ UNCHANGED <<ddlDisabled, spaceMata, genSpaceId, errNodes, errSpaces, deletedSpaces,
                 servers, net, local>>

(* A partition server that restarts reads its space from the local file.   *)
PsRestart(n) ==
  /\ "crash" \in Faults
  /\ psHasSpace' = [psHasSpace EXCEPT ![n] = psSpace[n] # NoSpace]
  /\ UNCHANGED <<etcd, psSpace, routerSpaces, net, pc, local>>

-----------------------------------------------------------------------------
Lock(p) == TryLock(p) \/ TryLockFails(p)
CreateSpace(p) ==
  \/ ScanNodes(p) \/ ScanSpaces(p) \/ DisableAndCreate(p) \/ CreateAnswered(p)
  \/ RedisableAndUndo(p) \/ UndoAnswered(p) \/ PutMata(p)
  \/ EnableAndAddRouters(p) \/ RoutersAdded(p)
DeleteSpace(p) ==
  \/ ReadMata(p) \/ LogAndDisable(p) \/ DeleteMata(p) \/ RoutersDeleted(p)
  \/ DeleteAnswered(p) \/ EnableAfterDelete(p)
GiveUpCall(p) ==
  (\E t \in Tasks : Timeout(p, t)) \/ (\E r \in Routers : RouterTimeout(p, r))

(* What a handler that was given a request does by itself.                 *)
Run(p) ==
  \/ Lock(p) \/ CheckDdlDisabled(p) \/ CreateSpace(p) \/ DeleteSpace(p) \/ Panic(p)
  \/ UnlockAndClose(p) \/ GiveUpCall(p) \/ SessionExpires(p)

Servers ==
  \E m \in net : \/ PsCreateSpace(m) \/ PsDeleteSpace(m)
                 \/ RouterAddSpace(m) \/ RouterDeleteSpace(m)

Next ==
  \/ \E p \in Handlers, n \in Names : StartCreate(p, n) \/ StartDelete(p, n)
  \/ \E p \in Handlers : Run(p) \/ MasterCrash(p)
  \/ Servers
  \/ \E n \in Nodes : PsRestart(n)

Spec == Init /\ [][Next]_vars

(* A handler keeps running, its calls end by an answer or by the timeout,  *)
(* and the lease of a crashed master runs out.                             *)
FairSpec == Spec /\ \A p \in Handlers : WF_vars(Run(p))

-----------------------------------------------------------------------------
(* Every variable keeps its type.                                          *)
TypeOK ==
  /\ lock \in Handlers \cup {NoHandler}
  /\ ddlDisabled \in BOOLEAN
  /\ spaceMata \in [Names -> Space \cup {NoSpace}]
  /\ genSpaceId \in Nat
  /\ errNodes \subseteq Nodes
  /\ errSpaces \subseteq Nat
  /\ deletedSpaces \subseteq Nat
  /\ psSpace \in [Nodes -> Space \cup {NoSpace}]
  /\ psHasSpace \in [Nodes -> BOOLEAN]
  /\ routerSpaces \in [Routers -> [Names -> Nat]]
  /\ net \subseteq Message
  /\ pc \in [Handlers -> Steps]
  /\ req \in [Handlers -> Names \cup {NoSpace}]
  /\ usable \in [Handlers -> SUBSET Nodes]
  /\ space \in [Handlers -> Space \cup {NoSpace}]
  /\ result \in [Handlers -> [Tasks -> {"none", "wait", "ok", "fail"}]]
  /\ waiting \in [Handlers -> SUBSET Routers]

(* createSpace works under the lock from its check of ddl_disabled on: no   *)
(* two creations overlap, whatever deleteSpace does without the lock.       *)
CreateHoldsLock ==
  \A p \in Handlers : pc[p] \in CreateSteps \ {"c_lock"} => lock = p

(* What createSpace found idle when it scanned stays free until the space  *)
(* is put: nobody else takes its name, one of its nodes or its id.         *)
PlacementIsFree ==
  \A p \in Handlers : pc[p] \in {"c_disable", "c_ps", "c_redisable", "c_mata"} =>
    /\ spaceMata[req[p]] = NoSpace
    /\ \A n \in Names : spaceMata[n] # NoSpace =>
          /\ NodesOf(space[p]) \cap NodesOf(spaceMata[n]) = {}
          /\ spaceMata[n].id < space[p].id

(* No partition server is a replica of two spaces in etcd, although        *)
(* deleteSpace may run without the lock and calls may be executed late.    *)
NoSharedNode ==
  \A m, n \in Names :
    m # n /\ spaceMata[m] # NoSpace /\ spaceMata[n] # NoSpace =>
      NodesOf(spaceMata[m]) \cap NodesOf(spaceMata[n]) = {}

(* The keys under /spaces/mata behave as an atomic catalog: createSpace    *)
(* never overwrites a space, never reuses a node or an id of a live one.   *)
Catalog == INSTANCE SpaceCatalog WITH catalog <- spaceMata
CatalogSpec == Catalog!Spec

(* A handler that saw a server fail has saved the space under              *)
(* /error/spaces by the time it unlocks.                                   *)
FailureIsSaved ==
  \A p \in Handlers :
    pc[p] = "unlock" /\ FailedTasks(p) # {} => space[p].id \in errSpaces

(* Every request is answered (or its master has crashed and come back):    *)
(* no path keeps the handler, and with it the lock, for ever.              *)
RequestAnswered == \A p \in Handlers : pc[p] # "idle" ~> pc[p] = "idle"

(* No DDL is under way and DDL is enabled.                                 *)
Quiet ==
  /\ ~ddlDisabled
  /\ \A p \in Handlers : pc[p] \in {"idle", "c_lock", "d_lock", "dead"}

(* While DDL is quiet every space in etcd is held by each of its servers:  *)
(* no late, failed or undone call has taken a replica away.                *)
MataBacked ==
  Quiet => \A n \in Names : spaceMata[n] # NoSpace =>
             \A t \in Tasks : psSpace[spaceMata[n].nodes[t]] = spaceMata[n]

(* While DDL is quiet a server that createSpace would take for idle is     *)
(* empty, and no old call is on its way to it.                             *)
IdleIsClean ==
  Quiet => \A x \in Nodes \ (errNodes \cup Busy) :
             ~psHasSpace[x] /\ \A m \in net : m.to # x

(* Once the creation of a space has failed, DDL stays disabled.            *)
CreateFailureLocksDdl == errSpaces \ deletedSpaces # {} => ddlDisabled

(* Once a creation or a deletion has failed and its handler is gone, DDL   *)
(* is disabled.                                                            *)
FailureLocksDdl ==
  errSpaces # {} /\ (\A p \in Handlers : pc[p] = "idle") => ddlDisabled

(* A space leaves /spaces/mata only after that very incarnation, by its    *)
(* id, was logged under /deleted_spaces.                                   *)
DropIsLogged ==
  [][\A n \in Names :
       spaceMata[n] # NoSpace /\ spaceMata'[n] # spaceMata[n] =>
         spaceMata[n].id \in deletedSpaces]_vars

(* A router serves only spaces whose creation was committed to etcd.       *)
RouterServesCommitted ==
  \A r \in Routers, n \in Names :
    routerSpaces[r][n] # 0 =>
      \/ routerSpaces[r][n] \in deletedSpaces
      \/ spaceMata[n] # NoSpace /\ spaceMata[n].id = routerSpaces[r][n]

(* When nothing is under way, a router that serves a name in etcd serves   *)
(* its present incarnation, not an older space of the same name.           *)
RouterServesCurrent ==
  Quiet /\ net = {} =>
    \A r \in Routers, n \in Names :
      routerSpaces[r][n] # 0 /\ spaceMata[n] # NoSpace =>
        routerSpaces[r][n] = spaceMata[n].id
=============================================================================
