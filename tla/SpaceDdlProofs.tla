--------------------------- MODULE SpaceDdlProofs ---------------------------
(***************************************************************************)
(* Proofs about SpaceDdl, for every number of handlers, names, nodes,      *)
(* partitions and replicas and for every set of faults: its types, the     *)
(* free placement of a creation, that it implements SpaceCatalog, and that *)
(* the failures of servers are saved.                                      *)
(***************************************************************************)
EXTENDS SpaceDdl, TLAPS

(* The steps in which a handler has been given a name, and those in which  *)
(* it has a space as well.                                                 *)
Asked == CreateSteps \cup DeleteSteps
Placed == {"c_disable", "c_ps", "c_redisable", "c_mata"}
HasSpace ==
  Placed \cup {"c_undo", "c_enable", "c_router", "d_check", "d_disable",
               "d_mata", "d_router", "d_ps", "d_enable"}

HandlerOK ==
  \A p \in Handlers :
    /\ pc[p] \in Asked => req[p] \in Names
    /\ pc[p] \in HasSpace => space[p] \in Space

TypeInv == TypeOK /\ HandlerOK

(* Ids are handed out in order: none in use is beyond the counter.         *)
IdsHandedOut ==
  /\ \A n \in Names : spaceMata[n] # NoSpace => spaceMata[n].id <= genSpaceId
  /\ \A p \in Handlers : pc[p] \in Placed =>
       space[p].id <= genSpaceId /\ space[p].name = req[p]

PlacementInv == IdsHandedOut /\ PlacementIsFree /\ NoSharedNode
IInv == TypeInv /\ CreateHoldsLock /\ PlacementInv

-----------------------------------------------------------------------------
(* A space has a first task: the calls to routers carry it.                *)
LEMMA FirstTask == 0 \in Tasks
<1>1. PartitionNum * ReplicaNum \in Nat /\ PartitionNum * ReplicaNum >= 1
  BY ConstantsAssumption
<1> QED BY <1>1 DEF Tasks

(* When the decoding of a failed task does not panic, it finds a replica   *)
(* of the space (not always the one that failed).                          *)
LEMMA ErrReplicaIndex ==
  ASSUME NEW t \in Tasks, InRange(t)
  PROVE  (t \div PartitionNum) * ReplicaNum + (t % PartitionNum) \in Tasks
<1> DEFINE a == t \div PartitionNum
           b == t % PartitionNum
<1>1. a \in Nat /\ b \in Nat /\ a <= PartitionNum - 1 /\ b <= ReplicaNum - 1
  BY ConstantsAssumption DEF Tasks, InRange
<1> HIDE DEF a, b
<1>2. a * ReplicaNum <= (PartitionNum - 1) * ReplicaNum
  BY <1>1, ConstantsAssumption
<1>3. (PartitionNum - 1) * ReplicaNum = PartitionNum * ReplicaNum - ReplicaNum
  BY ConstantsAssumption
<1>4. a * ReplicaNum \in Nat /\ PartitionNum * ReplicaNum \in Nat
  BY <1>1, ConstantsAssumption
<1>5. a * ReplicaNum + b \in 0 .. PartitionNum * ReplicaNum - 1
  BY <1>1, <1>2, <1>3, <1>4, ConstantsAssumption
<1> QED BY Zenon, <1>5 DEF a, b, Tasks

(* The nodes marked after a failure are nodes of the space.                *)
LEMMA ErrReplicasAreNodes ==
  ASSUME NEW p \in Handlers, space[p] \in Space, ~Panics(p)
  PROVE  ErrReplicas(p) \subseteq Nodes
<1>1. \A t \in FailedTasks(p) : t \in Tasks /\ InRange(t)
  BY Zenon DEF Panics, FailedTasks
<1>2. \A t \in FailedTasks(p) : ErrReplica(space[p], t) \in Nodes
  BY Zenon, <1>1, ErrReplicaIndex DEF ErrReplica, Space
<1> QED BY Zenon, <1>2 DEF ErrReplicas

(* The requests a handler sends are well-formed.                           *)
LEMMA CallsAreMessages ==
  ASSUME NEW p \in Handlers, NEW s \in Space,
         NEW kind \in {"ps_create", "ps_delete", "router_create", "router_delete"},
         NEW rs \in SUBSET Routers
  PROVE  Calls(p, s, kind) \subseteq Message /\ RouterCalls(p, rs, s, kind) \subseteq Message
  BY FirstTask DEF Calls, RouterCalls, Message, Space

(* Saving a failure adds the id of a space.                                *)
LEMMA PutErrSpaceType ==
  ASSUME NEW p \in Handlers, space[p] \in Space, errSpaces \subseteq Nat, PutErrSpace(p)
  PROVE  errSpaces' \subseteq Nat
<1>1. space[p].id \in Nat
  BY Zenon DEF Space
<1> QED BY Zenon, <1>1 DEF PutErrSpace

Results == [Handlers -> [Tasks -> {"none", "wait", "ok", "fail"}]]

(* An answer is recorded where its handler looks for it.                   *)
LEMMA AnswerType ==
  ASSUME result \in Results, NEW m \in Message, NEW a \in {"ok", "fail"}, Answer(m, a)
  PROVE  result' \in Results
<1>1. m.from \in Handlers /\ m.task \in Tasks
  BY Zenon DEF Message
<1>2. result[m.from] \in [Tasks -> {"none", "wait", "ok", "fail"}]
  BY Zenon, <1>1 DEF Results
<1>3. [result[m.from] EXCEPT ![m.task] = a] \in [Tasks -> {"none", "wait", "ok", "fail"}]
  BY Zenon, <1>2
<1> HIDE DEF Results
<1>4. [result EXCEPT ![m.from] = [result[m.from] EXCEPT ![m.task] = a]] \in Results
  BY Zenon, <1>3 DEF Results
<1>5. result' = result \/ result' = [result EXCEPT ![m.from] = [result[m.from] EXCEPT ![m.task] = a]]
  BY Zenon DEF Answer
<1> QED BY Zenon, <1>4, <1>5

-----------------------------------------------------------------------------
(* The masters start with every variable well typed.                       *)
LEMMA TypeInvInit == Init => TypeInv
<1> SUFFICES ASSUME Init PROVE TypeInv
  BY Zenon
<1>1. psHasSpace \in [Nodes -> BOOLEAN] /\ ddlDisabled \in BOOLEAN
  BY Zenon DEF Init
<1>2. result \in [Handlers -> [Tasks -> {"none", "wait", "ok", "fail"}]]
  BY Zenon DEF Init, NoResult
<1>3. routerSpaces \in [Routers -> [Names -> Nat]]
  BY Zenon DEF Init
<1>4. TypeOK
  BY Zenon, <1>1, <1>2, <1>3 DEF Init, TypeOK, Steps
<1>5. HandlerOK
  BY Zenon DEF Init, HandlerOK, Asked, HasSpace, Placed, CreateSteps, DeleteSteps
<1> QED BY Zenon, <1>4, <1>5 DEF TypeInv

(* Every step of a handler, a server or a crash keeps the types.           *)
LEMMA TypeInvNext == TypeInv /\ [Next]_vars => TypeInv'
<1> SUFFICES ASSUME TypeInv, [Next]_vars PROVE TypeInv'
  BY Zenon
<1> USE DEF TypeInv, TypeOK, HandlerOK, Asked, HasSpace, Placed,
            Steps, CreateSteps, DeleteSteps
<1>1. ASSUME NEW p \in Handlers, NEW n \in Names, StartCreate(p, n) PROVE TypeInv'
  BY Zenon, <1>1 DEF StartCreate, Goto, etcd, servers
<1>2. ASSUME NEW p \in Handlers, NEW n \in Names, StartDelete(p, n) PROVE TypeInv'
  BY Zenon, <1>2 DEF StartDelete, Goto, etcd, servers
<1>3. ASSUME NEW p \in Handlers, TryLock(p) PROVE TypeInv'
  BY Zenon, <1>3 DEF TryLock, Goto, servers, local
<1>4. ASSUME NEW p \in Handlers, TryLockFails(p) PROVE TypeInv'
  BY <1>4 DEF TryLockFails, Goto, etcd, servers, local
<1>5. ASSUME NEW p \in Handlers, CheckDdlDisabled(p) PROVE TypeInv'
  BY <1>5 DEF CheckDdlDisabled, Goto, etcd, servers, local
<1>6. ASSUME NEW p \in Handlers, ScanNodes(p) PROVE TypeInv'
  BY <1>6 DEF ScanNodes, Goto, etcd, servers
<1>7. ASSUME NEW p \in Handlers, ScanSpaces(p) PROVE TypeInv'
  <2> USE <1>7 DEF ScanSpaces, Goto, servers
  <2>1. CASE UNCHANGED space /\ pc' = [pc EXCEPT ![p] = "unlock"] /\ UNCHANGED genSpaceId
    BY Zenon, <2>1
  <2>2. ASSUME NEW f \in Placements(Idle(p)),
               space' = [space EXCEPT ![p] = [name |-> req[p], id |-> NewIDGenerate, nodes |-> f]],
               genSpaceId' = genSpaceId + 1, pc' = [pc EXCEPT ![p] = "c_disable"]
        PROVE  TypeInv'
    <3>1. f \in [Tasks -> Nodes]
      BY Zenon DEF Placements, Idle
    <3>2. [name |-> req[p], id |-> NewIDGenerate, nodes |-> f] \in Space
      BY <3>1 DEF NewIDGenerate, Space
    <3> QED BY <2>2, <3>2
  <2> QED BY Zenon, <2>1, <2>2
<1>8. ASSUME NEW p \in Handlers, DisableAndCreate(p) PROVE TypeInv'
  BY Zenon, <1>8, CallsAreMessages DEF DisableAndCreate, Waits, Goto, servers
<1>9. ASSUME NEW p \in Handlers, CreateAnswered(p) PROVE TypeInv'
  <2> USE <1>9 DEF CreateAnswered, Goto, servers, local
  <2>1. errNodes' \subseteq Nodes
    BY Zenon, ErrReplicasAreNodes
  <2>2. errSpaces' \subseteq Nat
    BY Zenon, PutErrSpaceType
  <2>3. pc' \in [Handlers -> Steps] /\ HandlerOK'
    BY Zenon
  <2> QED BY Zenon, <2>1, <2>2, <2>3
<1>10. ASSUME NEW p \in Handlers, RedisableAndUndo(p) PROVE TypeInv'
  BY Zenon, <1>10, CallsAreMessages DEF RedisableAndUndo, Waits, Goto, servers
<1>11. ASSUME NEW p \in Handlers, UndoAnswered(p) PROVE TypeInv'
  BY Zenon, <1>11, ErrReplicasAreNodes DEF UndoAnswered, DisabledAfterUndo, Goto, servers, local
<1>12. ASSUME NEW p \in Handlers, PutMata(p) PROVE TypeInv'
  <2> USE <1>12 DEF PutMata, Goto, servers
  <2>1. spaceMata' \in [Names -> Space \cup {NoSpace}]
    BY Zenon
  <2>2. errSpaces' \subseteq Nat
    BY Zenon, PutErrSpaceType
  <2>3. net' \subseteq Message
    BY Zenon, CallsAreMessages
  <2>4. pc' \in [Handlers -> Steps] /\ HandlerOK'
    BY Zenon
  <2>5. result' \in [Handlers -> [Tasks -> {"none", "wait", "ok", "fail"}]]
    <3>1. result' = result \/ Waits(p)
      BY ONLY Zenon, PutMata(p) DEF PutMata
    <3>2. result \in [Handlers -> [Tasks -> {"none", "wait", "ok", "fail"}]]
      BY Zenon
    <3> QED BY ONLY Zenon, <3>1, <3>2 DEF Waits
  <2> QED BY Zenon, <2>1, <2>2, <2>3, <2>4, <2>5
<1>13. ASSUME NEW p \in Handlers, EnableAndAddRouters(p) PROVE TypeInv'
  <2> USE <1>13 DEF EnableAndAddRouters, Goto, servers
  <2>1. PICK rs \in SUBSET Routers :
           /\ net' = net \cup RouterCalls(p, rs, space[p], "router_create")
           /\ waiting' = [waiting EXCEPT ![p] = rs]
    BY ONLY Zenon, EnableAndAddRouters(p) DEF EnableAndAddRouters
  <2>2. net' \subseteq Message
    BY Zenon, <2>1, CallsAreMessages
  <2>3. waiting' \in [Handlers -> SUBSET Routers]
    BY Zenon, <2>1
  <2>4. pc' \in [Handlers -> Steps] /\ HandlerOK'
    BY Zenon
  <2> QED BY Zenon, <2>2, <2>3, <2>4
<1>14. ASSUME NEW p \in Handlers, RoutersAdded(p) PROVE TypeInv'
  BY Zenon, <1>14 DEF RoutersAdded, Goto, etcd, servers, local
<1>15. ASSUME NEW p \in Handlers, ReadMata(p) PROVE TypeInv'
  <2> USE <1>15 DEF ReadMata, Goto
  <2>1. CASE spaceMata[req[p]] # NoSpace /\ space' = [space EXCEPT ![p] = spaceMata[req[p]]]
                                        /\ pc' = [pc EXCEPT ![p] = "d_check"]
    <3>1. spaceMata[req[p]] \in Space
      BY Zenon, <2>1
    <3>2. space' \in [Handlers -> Space \cup {NoSpace}] /\ space'[p] \in Space
      BY Zenon, <2>1, <3>1
    <3>3. HandlerOK'
      BY Zenon, <2>1, <3>2
    <3> QED BY Zenon, <2>1, <3>2, <3>3 DEF etcd, servers
  <2>2. CASE UNCHANGED space /\ pc' = [pc EXCEPT ![p] = "unlock"]
    BY Zenon, <2>2 DEF etcd, servers
  <2> QED BY Zenon, <2>1, <2>2
<1>16. ASSUME NEW p \in Handlers, LogAndDisable(p) PROVE TypeInv'
  BY Zenon, <1>16 DEF LogAndDisable, Space, Goto, servers, local
<1>17. ASSUME NEW p \in Handlers, DeleteMata(p) PROVE TypeInv'
  <2> USE <1>17 DEF DeleteMata, Goto, servers
  <2>1. spaceMata' \in [Names -> Space \cup {NoSpace}]
    BY Zenon
  <2>2. errSpaces' \subseteq Nat
    BY Zenon, PutErrSpaceType
  <2>3. net' \subseteq Message /\ waiting' \in [Handlers -> SUBSET Routers]
    BY CallsAreMessages
  <2>4. pc' \in [Handlers -> Steps] /\ HandlerOK'
    BY Zenon
  <2> QED BY Zenon, <2>1, <2>2, <2>3, <2>4
<1>18. ASSUME NEW p \in Handlers, RoutersDeleted(p) PROVE TypeInv'
  BY Zenon, <1>18, CallsAreMessages DEF RoutersDeleted, Waits, Goto, etcd, servers
<1>19. ASSUME NEW p \in Handlers, DeleteAnswered(p) PROVE TypeInv'
  <2> USE <1>19 DEF DeleteAnswered, Goto, servers, local
  <2>1. errNodes' \subseteq Nodes
    BY Zenon, ErrReplicasAreNodes
  <2>2. errSpaces' \subseteq Nat
    BY Zenon, PutErrSpaceType
  <2>3. pc' \in [Handlers -> Steps] /\ HandlerOK'
    BY Zenon
  <2> QED BY Zenon, <2>1, <2>2, <2>3
<1>20. ASSUME NEW p \in Handlers, EnableAfterDelete(p) PROVE TypeInv'
  BY Zenon, <1>20 DEF EnableAfterDelete, Goto, servers, local
<1>21. ASSUME NEW p \in Handlers, Panic(p) PROVE TypeInv'
  BY Zenon, <1>21 DEF Panic, Goto, etcd, servers, local
<1>22. ASSUME NEW p \in Handlers, UnlockAndClose(p) PROVE TypeInv'
  BY Zenon, <1>22 DEF UnlockAndClose, Forget, NoResult, Goto, servers
<1>23. ASSUME NEW p \in Handlers, GiveUpCall(p) PROVE TypeInv'
  <2>1. ASSUME NEW t \in Tasks, Timeout(p, t) PROVE TypeInv'
    BY Zenon, <2>1 DEF Timeout, etcd, servers
  <2>2. ASSUME NEW x \in Routers, RouterTimeout(p, x) PROVE TypeInv'
    BY Zenon, <2>2 DEF RouterTimeout, etcd, servers
  <2> QED BY Zenon, <1>23, <2>1, <2>2 DEF GiveUpCall
<1>24. ASSUME NEW p \in Handlers, SessionExpires(p) PROVE TypeInv'
  BY Zenon, <1>24 DEF SessionExpires, Goto, servers, local
<1>25. ASSUME NEW p \in Handlers, MasterCrash(p) PROVE TypeInv'
  BY Zenon, <1>25 DEF MasterCrash, Forget, NoResult, Goto, etcd, servers
<1>26. ASSUME NEW m \in net, PsCreateSpace(m) PROVE TypeInv'
  <2> USE <1>26 DEF PsCreateSpace, Message
  <2>1. psSpace' \in [Nodes -> Space \cup {NoSpace}]
    BY Zenon
  <2>2. psHasSpace' \in [Nodes -> BOOLEAN]
    BY Zenon
  <2>3. m \in Message /\ result \in Results
    BY Zenon DEF Results
  <2>4. \E a \in {"ok", "fail"} : Answer(m, a)
    BY Zenon
  <2>5. result' \in Results
    BY Zenon, <2>3, <2>4, AnswerType
  <2> QED BY Zenon, <2>1, <2>2, <2>5 DEF etcd, Results
<1>27. ASSUME NEW m \in net, PsDeleteSpace(m) PROVE TypeInv'
  <2> USE <1>27 DEF PsDeleteSpace, Message
  <2>1. psSpace' \in [Nodes -> Space \cup {NoSpace}]
    BY Zenon
  <2>2. psHasSpace' \in [Nodes -> BOOLEAN]
    BY Zenon
  <2>3. m \in Message /\ result \in Results
    BY Zenon DEF Results
  <2>4. \E a \in {"ok", "fail"} : Answer(m, a)
    BY Zenon
  <2>5. result' \in Results
    BY Zenon, <2>3, <2>4, AnswerType
  <2> QED BY Zenon, <2>1, <2>2, <2>5 DEF etcd, Results
<1>28. ASSUME NEW m \in net, RouterAddSpace(m) PROVE TypeInv'
  BY Zenon, <1>28 DEF RouterAddSpace, RouterAnswer, Message, Space, etcd
<1>29. ASSUME NEW m \in net, RouterDeleteSpace(m) PROVE TypeInv'
  BY Zenon, <1>29 DEF RouterDeleteSpace, RouterAnswer, Message, etcd
<1>30. ASSUME NEW x \in Nodes, PsRestart(x) PROVE TypeInv'
  BY Zenon, <1>30 DEF PsRestart, etcd, local
<1>31. CASE UNCHANGED vars
  BY Zenon, <1>31 DEF vars, etcd, servers, local
<1> QED
  BY Zenon, <1>1, <1>2, <1>3, <1>4, <1>5, <1>6, <1>7, <1>8, <1>9, <1>10, <1>11, <1>12, <1>13, <1>14, <1>15, <1>16, <1>17, <1>18, <1>19, <1>20, <1>21, <1>22, <1>23, <1>24, <1>25, <1>26, <1>27, <1>28, <1>29, <1>30, <1>31
     DEF Next, Run, Lock, CreateSpace, DeleteSpace, Servers

-----------------------------------------------------------------------------
(* What most steps do: spaces at most leave etcd, the counter stays, and   *)
(* no handler comes to hold a placement or changes the one it holds.       *)
KeepsPlacements ==
  /\ genSpaceId' = genSpaceId
  /\ \A n \in Names : spaceMata'[n] \in {spaceMata[n], NoSpace}
  /\ \A q \in Handlers : pc'[q] \in Placed =>
       pc[q] \in Placed /\ space'[q] = space[q] /\ req'[q] = req[q]

(* Such a step keeps every placement free.                                 *)
LEMMA Frame == PlacementInv /\ HandlerOK /\ KeepsPlacements => PlacementInv'
<1> SUFFICES ASSUME PlacementInv, HandlerOK, KeepsPlacements PROVE PlacementInv'
  BY Zenon
<1> USE DEF PlacementInv, KeepsPlacements
<1>1. IdsHandedOut'
  BY Zenon DEF IdsHandedOut
<1>2. PlacementIsFree'
  <2> SUFFICES ASSUME NEW q \in Handlers, pc'[q] \in Placed
               PROVE  /\ spaceMata'[req'[q]] = NoSpace
                      /\ \A n \in Names : spaceMata'[n] # NoSpace =>
                           /\ NodesOf(space'[q]) \cap NodesOf(spaceMata'[n]) = {}
                           /\ spaceMata'[n].id < space'[q].id
    BY Zenon DEF PlacementIsFree, Placed, NodesOf
  <2>1. pc[q] \in Placed /\ space'[q] = space[q] /\ req'[q] = req[q] /\ req[q] \in Names
    BY Zenon DEF HandlerOK, Asked, CreateSteps, Placed
  <2> QED BY Zenon, <2>1 DEF PlacementIsFree, Placed
<1>3. NoSharedNode'
  <2> SUFFICES ASSUME NEW m \in Names, NEW n \in Names, m # n,
                      spaceMata'[m] # NoSpace, spaceMata'[n] # NoSpace
               PROVE  NodesOf(spaceMata'[m]) \cap NodesOf(spaceMata'[n]) = {}
    BY Zenon DEF NoSharedNode, NodesOf
  <2> QED BY Zenon DEF NoSharedNode
<1> QED BY Zenon, <1>1, <1>2, <1>3

(* Only the scan of the spaces and the put of one do more.                 *)
LEMMA OtherSteps ==
  ASSUME TypeInv, [Next]_vars,
         ~ \E p \in Handlers : ScanSpaces(p) \/ PutMata(p)
  PROVE  KeepsPlacements
<1> USE DEF TypeInv, TypeOK, KeepsPlacements, Placed
<1>1. ASSUME NEW p \in Handlers, NEW n \in Names, StartCreate(p, n) PROVE KeepsPlacements
  BY Zenon, <1>1 DEF StartCreate, Goto, etcd, servers
<1>2. ASSUME NEW p \in Handlers, NEW n \in Names, StartDelete(p, n) PROVE KeepsPlacements
  BY Zenon, <1>2 DEF StartDelete, Goto, etcd, servers
<1>3. ASSUME NEW p \in Handlers, Lock(p) PROVE KeepsPlacements
  BY Zenon, <1>3 DEF Lock, TryLock, TryLockFails, Goto, etcd, servers, local
<1>4. ASSUME NEW p \in Handlers, CheckDdlDisabled(p) PROVE KeepsPlacements
  BY Zenon, <1>4 DEF CheckDdlDisabled, Goto, etcd, servers, local
<1>5. ASSUME NEW p \in Handlers, ScanNodes(p) PROVE KeepsPlacements
  BY Zenon, <1>5 DEF ScanNodes, Goto, etcd, servers
<1>6. ASSUME NEW p \in Handlers, DisableAndCreate(p) PROVE KeepsPlacements
  BY Zenon, <1>6 DEF DisableAndCreate, Goto, servers
<1>7. ASSUME NEW p \in Handlers, CreateAnswered(p) PROVE KeepsPlacements
  BY Zenon, <1>7 DEF CreateAnswered, Goto, servers, local
<1>8. ASSUME NEW p \in Handlers, RedisableAndUndo(p) PROVE KeepsPlacements
  BY Zenon, <1>8 DEF RedisableAndUndo, Goto, servers
<1>9. ASSUME NEW p \in Handlers, UndoAnswered(p) PROVE KeepsPlacements
  BY Zenon, <1>9 DEF UndoAnswered, Goto, servers, local
<1>10. ASSUME NEW p \in Handlers, EnableAndAddRouters(p) PROVE KeepsPlacements
  BY Zenon, <1>10 DEF EnableAndAddRouters, Goto, servers
<1>11. ASSUME NEW p \in Handlers, RoutersAdded(p) PROVE KeepsPlacements
  BY Zenon, <1>11 DEF RoutersAdded, Goto, etcd, servers, local
<1>12. ASSUME NEW p \in Handlers, DeleteSpace(p) PROVE KeepsPlacements
  BY Zenon, <1>12 DEF DeleteSpace, ReadMata, LogAndDisable, DeleteMata, RoutersDeleted,
       DeleteAnswered, EnableAfterDelete, Goto, etcd, servers, local
<1>13. ASSUME NEW p \in Handlers, Panic(p) PROVE KeepsPlacements
  BY Zenon, <1>13 DEF Panic, Goto, etcd, servers, local
<1>14. ASSUME NEW p \in Handlers, UnlockAndClose(p) PROVE KeepsPlacements
  BY Zenon, <1>14 DEF UnlockAndClose, Forget, Goto, servers
<1>15. ASSUME NEW p \in Handlers, GiveUpCall(p) PROVE KeepsPlacements
  BY Zenon, <1>15 DEF GiveUpCall, Timeout, RouterTimeout, etcd, servers
<1>16. ASSUME NEW p \in Handlers, SessionExpires(p) PROVE KeepsPlacements
  BY Zenon, <1>16 DEF SessionExpires, Goto, servers, local
<1>17. ASSUME NEW p \in Handlers, MasterCrash(p) PROVE KeepsPlacements
  BY Zenon, <1>17 DEF MasterCrash, Forget, Goto, etcd, servers
<1>18. ASSUME Servers PROVE KeepsPlacements
  BY Zenon, <1>18 DEF Servers, PsCreateSpace, PsDeleteSpace, RouterAddSpace, RouterDeleteSpace,
       etcd
<1>19. ASSUME NEW x \in Nodes, PsRestart(x) PROVE KeepsPlacements
  BY Zenon, <1>19 DEF PsRestart, etcd, local
<1>20. CASE UNCHANGED vars
  BY Zenon, <1>20 DEF vars, etcd, servers, local
<1> HIDE DEF TypeInv, KeepsPlacements
<1> QED
  BY Zenon, <1>1, <1>2, <1>3, <1>4, <1>5, <1>6, <1>7, <1>8, <1>9, <1>10, <1>11, <1>12, <1>13, <1>14, <1>15, <1>16, <1>17, <1>18, <1>19, <1>20
     DEF Next, Run, CreateSpace

(* No step lets createSpace past TryLock without the lock, or takes the    *)
(* lock away from it.                                                      *)
LEMMA LockNext == TypeInv /\ CreateHoldsLock /\ [Next]_vars => CreateHoldsLock'
<1> SUFFICES ASSUME TypeInv, CreateHoldsLock, [Next]_vars PROVE CreateHoldsLock'
  BY Zenon
<1> USE DEF TypeInv, TypeOK, CreateHoldsLock, CreateSteps
<1>1. ASSUME NEW p \in Handlers, NEW n \in Names, StartCreate(p, n) PROVE CreateHoldsLock'
  BY Zenon, <1>1 DEF StartCreate, Goto, etcd
<1>2. ASSUME NEW p \in Handlers, NEW n \in Names, StartDelete(p, n) PROVE CreateHoldsLock'
  BY Zenon, <1>2 DEF StartDelete, Goto, etcd
<1>3. ASSUME NEW p \in Handlers, TryLock(p) PROVE CreateHoldsLock'
  BY Zenon, <1>3, ConstantsAssumption DEF TryLock, Goto
<1>4. ASSUME NEW p \in Handlers, TryLockFails(p) PROVE CreateHoldsLock'
  BY <1>4 DEF TryLockFails, Goto, etcd
<1>5. ASSUME NEW p \in Handlers, CheckDdlDisabled(p) PROVE CreateHoldsLock'
  BY <1>5 DEF CheckDdlDisabled, Goto, etcd
<1>6. ASSUME NEW p \in Handlers, CreateSpace(p) PROVE CreateHoldsLock'
  <2> USE <1>6 DEF CreateSpace, ScanNodes, ScanSpaces, DisableAndCreate, CreateAnswered,
         RedisableAndUndo, UndoAnswered, PutMata, EnableAndAddRouters, RoutersAdded, Goto
  <2>1. lock' = lock
    BY Zenon DEF etcd
  <2>2. pc[p] \in CreateSteps \ {"c_lock"}
    BY Zenon
  <2>3. \A q \in Handlers : q # p => pc'[q] = pc[q]
    BY Zenon
  <2> QED BY ONLY Zenon, TypeInv, CreateHoldsLock, <2>1, <2>2, <2>3 DEF CreateHoldsLock
<1>7. ASSUME NEW p \in Handlers, DeleteSpace(p) PROVE CreateHoldsLock'
  <2> USE <1>7 DEF DeleteSpace, ReadMata, LogAndDisable, DeleteMata, RoutersDeleted,
         DeleteAnswered, EnableAfterDelete, Goto
  <2>1. lock' = lock
    BY Zenon DEF etcd
  <2>2. pc'[p] \notin CreateSteps
    OBVIOUS
  <2>3. \A q \in Handlers : q # p => pc'[q] = pc[q]
    BY Zenon
  <2> QED BY ONLY Zenon, TypeInv, CreateHoldsLock, <2>1, <2>2, <2>3 DEF CreateHoldsLock
<1>8. ASSUME NEW p \in Handlers, Panic(p) PROVE CreateHoldsLock'
  BY Zenon, <1>8 DEF Panic, Goto, etcd
<1>9. ASSUME NEW p \in Handlers, UnlockAndClose(p) PROVE CreateHoldsLock'
  BY Zenon, <1>9 DEF UnlockAndClose, Goto
<1>10. ASSUME NEW p \in Handlers, GiveUpCall(p) PROVE CreateHoldsLock'
  BY Zenon, <1>10 DEF GiveUpCall, Timeout, RouterTimeout, etcd
<1>11. ASSUME NEW p \in Handlers, SessionExpires(p) PROVE CreateHoldsLock'
  BY Zenon, <1>11 DEF SessionExpires, Goto
<1>12. ASSUME NEW p \in Handlers, MasterCrash(p) PROVE CreateHoldsLock'
  BY Zenon, <1>12 DEF MasterCrash, Goto, etcd
<1>13. ASSUME Servers PROVE CreateHoldsLock'
  BY Zenon, <1>13 DEF Servers, PsCreateSpace, PsDeleteSpace, RouterAddSpace, RouterDeleteSpace,
       etcd
<1>14. ASSUME NEW x \in Nodes, PsRestart(x) PROVE CreateHoldsLock'
  BY Zenon, <1>14 DEF PsRestart, etcd
<1>15. CASE UNCHANGED vars
  BY Zenon, <1>15 DEF vars, etcd
<1> HIDE DEF TypeInv, CreateHoldsLock
<1> QED
  BY Zenon, <1>1, <1>2, <1>3, <1>4, <1>5, <1>6, <1>7, <1>8, <1>9, <1>10, <1>11, <1>12, <1>13, <1>14, <1>15
     DEF Next, Run, Lock

(* While one handler holds a placement no other does.                      *)
LEMMA OnePlacement ==
  ASSUME CreateHoldsLock, NEW p \in Handlers, NEW q \in Handlers,
         pc[p] \in Placed \cup {"c_spaces"}, pc[q] \in Placed \cup {"c_spaces"}
  PROVE  p = q
  BY Zenon DEF CreateHoldsLock, CreateSteps, Placed

(* The scan: the nodes are taken from those no space in etcd has, the id   *)
(* is beyond all of theirs.                                                *)
LEMMA ScanSpacesPlaces ==
  ASSUME IInv, NEW p \in Handlers, ScanSpaces(p)
  PROVE  PlacementInv'
<1> USE DEF IInv
<1>1. UNCHANGED <<spaceMata, req>> /\ pc[p] = "c_spaces" /\ req[p] \in Names
  BY Zenon DEF ScanSpaces, TypeInv, HandlerOK, Asked, CreateSteps
<1>2. CASE UNCHANGED space /\ pc' = [pc EXCEPT ![p] = "unlock"] /\ UNCHANGED genSpaceId
  <2>1. KeepsPlacements
    BY Zenon, <1>1, <1>2 DEF KeepsPlacements, Placed, TypeInv, TypeOK
  <2> QED BY Zenon, <2>1, Frame DEF TypeInv
<1>3. ASSUME NEW f \in Placements(Idle(p)), spaceMata[req[p]] = NoSpace,
             space' = [space EXCEPT ![p] = [name |-> req[p], id |-> NewIDGenerate, nodes |-> f]],
             genSpaceId' = genSpaceId + 1, pc' = [pc EXCEPT ![p] = "c_disable"]
      PROVE  PlacementInv'
  <2>1. \A q \in Handlers : pc'[q] \in Placed => q = p
    BY Zenon, <1>1, <1>3, OnePlacement DEF TypeInv, TypeOK
  <2>2. space'[p] = [name |-> req[p], id |-> genSpaceId + 1, nodes |-> f]
    BY Zenon, <1>3 DEF TypeInv, TypeOK, NewIDGenerate
  <2>3. \A n \in Names : spaceMata[n] # NoSpace =>
           spaceMata[n].id \in Nat /\ spaceMata[n].id <= genSpaceId
    BY Zenon DEF PlacementInv, IdsHandedOut, TypeInv, TypeOK, Space
  <2>4. \A n \in Names : spaceMata[n] # NoSpace => NodesOf(space'[p]) \cap NodesOf(spaceMata[n]) = {}
    <3> SUFFICES ASSUME NEW n \in Names, spaceMata[n] # NoSpace, NEW t \in Tasks,
                        f[t] \in NodesOf(spaceMata[n])
                 PROVE  FALSE
      BY <2>2 DEF NodesOf
    <3>1. f[t] \in Busy
      BY Zenon DEF Busy
    <3>2. f[t] \notin Busy
      BY Zenon DEF Placements, Idle
    <3> QED BY Zenon, <3>1, <3>2
  <2>5. IdsHandedOut'
    BY <1>1, <2>1, <2>2, <2>3, <1>3 DEF IdsHandedOut, TypeInv, TypeOK
  <2>6. PlacementIsFree'
    <3> SUFFICES ASSUME NEW q \in Handlers, pc'[q] \in Placed
                 PROVE  /\ spaceMata'[req'[q]] = NoSpace
                        /\ \A n \in Names : spaceMata'[n] # NoSpace =>
                             /\ NodesOf(space'[q]) \cap NodesOf(spaceMata'[n]) = {}
                             /\ spaceMata'[n].id < space'[q].id
      BY Zenon DEF PlacementIsFree, Placed, NodesOf
    <3>1. q = p
      BY Zenon, <2>1
    <3>2. \A n \in Names : spaceMata[n] # NoSpace => spaceMata[n].id < genSpaceId + 1
      BY <2>3 DEF TypeInv, TypeOK
    <3>3. spaceMata' = spaceMata /\ req' = req /\ space'[q].id = genSpaceId + 1
      BY <1>1, <2>2, <3>1
    <3>4. spaceMata'[req'[q]] = NoSpace
      BY Zenon, <1>3, <3>1, <3>3
    <3>5. ASSUME NEW n \in Names, spaceMata'[n] # NoSpace
          PROVE  /\ NodesOf(space'[q]) \cap NodesOf(spaceMata'[n]) = {}
                 /\ spaceMata'[n].id < space'[q].id
      BY Zenon, <2>4, <3>1, <3>2, <3>3, <3>5
    <3> QED BY Zenon, <3>4, <3>5
  <2>7. NoSharedNode'
    <3> SUFFICES ASSUME NEW m \in Names, NEW n \in Names, m # n,
                        spaceMata'[m] # NoSpace, spaceMata'[n] # NoSpace
                 PROVE  NodesOf(spaceMata'[m]) \cap NodesOf(spaceMata'[n]) = {}
      BY Zenon DEF NoSharedNode, NodesOf
    <3> QED BY Zenon, <1>1 DEF PlacementInv, NoSharedNode
  <2> QED BY Zenon, <2>5, <2>6, <2>7 DEF PlacementInv
<1> QED BY Zenon, <1>2, <1>3 DEF ScanSpaces, Goto

(* The put: the space takes its free name and its free nodes, and nobody   *)
(* else holds a placement then.                                            *)
LEMMA PutMataKeeps ==
  ASSUME IInv, NEW p \in Handlers, PutMata(p)
  PROVE  PlacementInv'
<1> USE DEF IInv, PlacementInv
<1>1. /\ pc[p] = "c_mata" /\ pc[p] \in Placed
      /\ req[p] \in Names /\ space[p] \in Space
      /\ UNCHANGED <<genSpaceId, req, space>>
      /\ pc' \in {[pc EXCEPT ![p] = "c_enable"], [pc EXCEPT ![p] = "c_undo"]}
  BY Zenon DEF PutMata, Goto, TypeInv, HandlerOK, Asked, HasSpace, CreateSteps, Placed
<1>2. \A q \in Handlers : pc'[q] \notin Placed
  <2> SUFFICES ASSUME NEW q \in Handlers, pc'[q] \in Placed PROVE FALSE
    BY Zenon
  <2>1. q # p /\ pc[q] \in Placed
    BY Zenon, <1>1 DEF TypeInv, TypeOK, Placed
  <2> QED BY Zenon, <1>1, <2>1, OnePlacement
<1>3. CASE spaceMata' = spaceMata
  <2>1. KeepsPlacements
    BY Zenon, <1>1, <1>2, <1>3 DEF KeepsPlacements
  <2> QED BY Zenon, <2>1, Frame DEF TypeInv
<1>4. CASE spaceMata' = [spaceMata EXCEPT ![req[p]] = space[p]]
  <2>1. \A n \in Names : spaceMata'[n] = IF n = req[p] THEN space[p] ELSE spaceMata[n]
    BY Zenon, <1>4 DEF TypeInv, TypeOK
  <2>2. IdsHandedOut'
    BY Zenon, <1>1, <1>2, <2>1 DEF IdsHandedOut
  <2>3. PlacementIsFree'
    BY Zenon, <1>2 DEF PlacementIsFree, Placed
  <2>4. NoSharedNode'
    <3> SUFFICES ASSUME NEW m \in Names, NEW n \in Names, m # n,
                        spaceMata'[m] # NoSpace, spaceMata'[n] # NoSpace
                 PROVE  NodesOf(spaceMata'[m]) \cap NodesOf(spaceMata'[n]) = {}
      BY Zenon DEF NoSharedNode, NodesOf
    <3>1. \A k \in Names : spaceMata[k] # NoSpace =>
             NodesOf(space[p]) \cap NodesOf(spaceMata[k]) = {}
      BY Zenon, <1>1 DEF PlacementIsFree
    <3>2. CASE m = req[p]
      BY Zenon, <3>1, <3>2, <2>1
    <3>3. CASE n = req[p]
      BY Zenon, <3>1, <3>3, <2>1
    <3>4. CASE m # req[p] /\ n # req[p]
      BY Zenon, <3>4, <2>1 DEF NoSharedNode
    <3> QED BY Zenon, <3>2, <3>3, <3>4
  <2> QED BY Zenon, <2>2, <2>3, <2>4
<1> QED BY Zenon, <1>3, <1>4 DEF PutMata

(* The inductive invariant holds when the masters start.                   *)
LEMMA IInvInit == Init => IInv
<1> SUFFICES ASSUME Init PROVE IInv
  BY Zenon
<1>1. CreateHoldsLock /\ IdsHandedOut /\ PlacementIsFree /\ NoSharedNode
  BY Zenon DEF Init, CreateHoldsLock, IdsHandedOut, PlacementIsFree, NoSharedNode, CreateSteps, Placed
<1> QED BY Zenon, <1>1, TypeInvInit DEF IInv, PlacementInv

(* Every step preserves the inductive invariant.                           *)
LEMMA IInvNext == IInv /\ [Next]_vars => IInv'
<1> SUFFICES ASSUME IInv, [Next]_vars PROVE IInv'
  BY Zenon
<1>1. TypeInv' /\ CreateHoldsLock'
  BY Zenon, TypeInvNext, LockNext DEF IInv
<1>2. PlacementInv'
  <2>1. CASE \E p \in Handlers : ScanSpaces(p) \/ PutMata(p)
    BY Zenon, <2>1, ScanSpacesPlaces, PutMataKeeps
  <2>2. CASE ~ \E p \in Handlers : ScanSpaces(p) \/ PutMata(p)
    BY Zenon, <2>2, OtherSteps, Frame DEF IInv, TypeInv
  <2> QED BY Zenon, <2>1, <2>2
<1> QED BY Zenon, <1>1, <1>2 DEF IInv

(* The inductive invariant holds in every reachable state.                 *)
LEMMA Invariance == Spec => []IInv
  BY IInvInit, IInvNext, PTL DEF Spec

(* Every variable of the masters, the servers and the network keeps its    *)
(* type, whatever fails.                                                   *)
THEOREM TypeCorrect == Spec => []TypeOK
  BY Invariance, PTL DEF IInv, TypeInv

(* No two createSpace handlers are past TryLock at the same time.          *)
THEOREM CreatesAreExclusive == Spec => []CreateHoldsLock
  BY Invariance, PTL DEF IInv

(* The name, the nodes and the id a createSpace handler chose in its scan  *)
(* stay free until it puts the space, although deletions may run without   *)
(* the lock.                                                               *)
THEOREM PlacementsStayFree == Spec => []PlacementIsFree
  BY Invariance, PTL DEF IInv, PlacementInv

(* No partition server is ever a replica of two spaces in etcd.            *)
THEOREM NodesAreNotShared == Spec => []NoSharedNode
  BY Invariance, PTL DEF IInv, PlacementInv

-----------------------------------------------------------------------------
(* SpaceDdl implements SpaceCatalog: put and delete of a key are the steps *)
(* of the catalog, every other step leaves it alone.                       *)

(* The put of createSpace is an Add of the catalog, or leaves it alone.    *)
LEMMA PutMataAdds ==
  ASSUME IInv, NEW p \in Handlers, PutMata(p)
  PROVE  [Catalog!Next]_spaceMata
<1> USE DEF IInv, PlacementInv
<1>1. pc[p] = "c_mata" /\ req[p] \in Names /\ space[p] \in Space
  BY Zenon DEF PutMata, TypeInv, HandlerOK, Asked, HasSpace, CreateSteps, Placed
<1>2. CASE spaceMata' = [spaceMata EXCEPT ![req[p]] = space[p]]
  <2>1. spaceMata'[req[p]] = space[p]
    BY Zenon, <1>1, <1>2 DEF TypeInv, TypeOK
  <2>2. spaceMata[req[p]] = NoSpace /\ space[p].name = req[p]
    BY Zenon, <1>1 DEF PlacementIsFree, IdsHandedOut, Placed
  <2>3. \A s \in Space : Catalog!NodesUsed(s) = NodesOf(s)
    BY Zenon DEF Catalog!NodesUsed, NodesOf, Space
  <2>4. ASSUME NEW m \in Names, spaceMata[m] # NoSpace
        PROVE  /\ Catalog!NodesUsed(space[p]) \cap Catalog!NodesUsed(spaceMata[m]) = {}
               /\ space[p].id # spaceMata[m].id
    <3>1. spaceMata[m] \in Space
      BY Zenon, <2>4 DEF TypeInv, TypeOK
    <3>2. NodesOf(space[p]) \cap NodesOf(spaceMata[m]) = {} /\ spaceMata[m].id < space[p].id
      BY Zenon, <1>1, <2>4 DEF PlacementIsFree
    <3>3. spaceMata[m].id \in Nat /\ space[p].id \in Nat
      BY Zenon, <1>1, <3>1 DEF Space
    <3> QED BY <1>1, <2>3, <3>1, <3>2, <3>3
  <2>5. Catalog!Add(req[p])
    BY Zenon, <1>1, <1>2, <2>1, <2>2, <2>4 DEF Catalog!Add
  <2> QED BY Zenon, <1>1, <2>5 DEF Catalog!Next
<1>3. CASE spaceMata' = spaceMata
  BY Zenon, <1>3
<1> QED BY Zenon, <1>2, <1>3 DEF PutMata

(* The delete of deleteSpace is a Drop of the catalog, or leaves it alone. *)
LEMMA DeleteMataDrops ==
  ASSUME IInv, NEW p \in Handlers, DeleteMata(p)
  PROVE  [Catalog!Next]_spaceMata
<1>1. req[p] \in Names
  BY Zenon DEF DeleteMata, IInv, TypeInv, HandlerOK, Asked, DeleteSteps
<1>2. CASE spaceMata[req[p]] = NoSpace \/ spaceMata' = spaceMata
  BY Zenon, <1>1, <1>2 DEF DeleteMata, IInv, TypeInv, TypeOK
<1>3. CASE spaceMata[req[p]] # NoSpace /\ spaceMata' = [spaceMata EXCEPT ![req[p]] = NoSpace]
  BY Zenon, <1>1, <1>3 DEF Catalog!Next, Catalog!Drop
<1> QED BY Zenon, <1>2, <1>3 DEF DeleteMata

(* No other step writes /spaces/mata.                                      *)
LEMMA OthersKeepMata ==
  ASSUME [Next]_vars, ~ \E p \in Handlers : PutMata(p) \/ DeleteMata(p)
  PROVE  spaceMata' = spaceMata
<1>1. ASSUME NEW p \in Handlers, NEW n \in Names, StartCreate(p, n) \/ StartDelete(p, n)
      PROVE  spaceMata' = spaceMata
  BY Zenon, <1>1 DEF StartCreate, StartDelete, etcd
<1>2. ASSUME NEW p \in Handlers, Run(p) \/ MasterCrash(p)
      PROVE  spaceMata' = spaceMata
  <2>1. CASE Lock(p) \/ CheckDdlDisabled(p) \/ Panic(p) \/ UnlockAndClose(p)
    BY Zenon, <2>1 DEF Lock, TryLock, TryLockFails, CheckDdlDisabled, Panic, UnlockAndClose, etcd
  <2>2. CASE CreateSpace(p)
    BY Zenon, <2>2 DEF CreateSpace, ScanNodes, ScanSpaces, DisableAndCreate, CreateAnswered,
       RedisableAndUndo, UndoAnswered, EnableAndAddRouters, RoutersAdded, etcd
  <2>3. CASE DeleteSpace(p)
    BY Zenon, <2>3 DEF DeleteSpace, ReadMata, LogAndDisable, RoutersDeleted, DeleteAnswered,
       EnableAfterDelete, etcd
  <2>4. CASE GiveUpCall(p) \/ SessionExpires(p) \/ MasterCrash(p)
    BY Zenon, <2>4 DEF GiveUpCall, Timeout, RouterTimeout, SessionExpires, MasterCrash, etcd
  <2> QED BY Zenon, <1>2, <2>1, <2>2, <2>3, <2>4 DEF Run
<1>3. ASSUME Servers PROVE spaceMata' = spaceMata
  BY Zenon, <1>3 DEF Servers, PsCreateSpace, PsDeleteSpace, RouterAddSpace, RouterDeleteSpace, etcd
<1>4. ASSUME NEW x \in Nodes, PsRestart(x) PROVE spaceMata' = spaceMata
  BY Zenon, <1>4 DEF PsRestart, etcd
<1>5. CASE UNCHANGED vars
  BY Zenon, <1>5 DEF vars, etcd
<1> QED BY Zenon, <1>1, <1>2, <1>3, <1>4, <1>5 DEF Next

(* createSpace and deleteSpace, with all their failures, crashes and late  *)
(* calls, implement the atomic catalog of SpaceCatalog: a space appears    *)
(* only under a free name, on free nodes and with a fresh id.              *)
THEOREM ImplementsCatalog == Spec => CatalogSpec
<1>1. Init => Catalog!Init
  BY Zenon DEF Init, Catalog!Init
<1>2. IInv /\ [Next]_vars => [Catalog!Next]_spaceMata
  BY Zenon, PutMataAdds, DeleteMataDrops, OthersKeepMata
<1> QED BY <1>1, <1>2, Invariance, PTL DEF Spec, CatalogSpec, Catalog!Spec

-----------------------------------------------------------------------------
(* What is left of the answers of servers: they are awaited only while     *)
(* calls are out, and a failure among them is acted on or saved.           *)
CallSteps == {"c_ps", "c_undo", "d_ps"}
Saved(p) == \A t \in Tasks : result[p][t] = "fail" => space[p].id \in errSpaces
AnswerOK(p) ==
  /\ pc[p] \notin CallSteps => (\A t \in Tasks : result[p][t] # "wait") /\ Saved(p)
  /\ pc[p] \in {"c_redisable", "c_undo"} => space[p].id \in errSpaces
  /\ pc[p] \notin CallSteps \cup {"c_redisable", "d_enable", "unlock"} =>
       \A t \in Tasks : result[p][t] # "fail"
AnswerInv == \A p \in Handlers : AnswerOK(p)

(* With as many partitions as replicas no failed task makes createSpace or *)
(* deleteSpace panic.                                                      *)
LEMMA TasksInRange ==
  ASSUME PartitionNum = ReplicaNum, NEW t \in Tasks
  PROVE  InRange(t)
<1> DEFINE a == t \div PartitionNum
           b == t % PartitionNum
<1>1. /\ t \in Nat /\ t < PartitionNum * PartitionNum /\ a \in Nat /\ b \in Nat /\ b < PartitionNum
      /\ t = PartitionNum * a + b
  BY ConstantsAssumption DEF Tasks
<1> HIDE DEF a, b
<1>2. a < PartitionNum
  <2> SUFFICES ASSUME a >= PartitionNum PROVE FALSE
    BY <1>1, ConstantsAssumption
  <2>1. PartitionNum * a >= PartitionNum * PartitionNum
    BY <1>1, ConstantsAssumption
  <2>2. PartitionNum * a \in Nat /\ PartitionNum * PartitionNum \in Nat
    BY <1>1, ConstantsAssumption
  <2> QED BY <1>1, <2>1, <2>2, ConstantsAssumption
<1> QED BY Zenon, <1>1, <1>2 DEF InRange, a, b

(* A step that leaves a handler, its answers and its space alone, and      *)
(* forgets no failure, keeps what holds of it.                             *)
LEMMA OthersAnswers ==
  ASSUME AnswerInv, errSpaces \subseteq errSpaces', NEW q \in Handlers,
         pc'[q] = pc[q], result'[q] = result[q], space'[q] = space[q]
  PROVE  AnswerOK(q)'
  BY Zenon DEF AnswerInv, AnswerOK, Saved

(* A step of one handler that keeps its answers accounted for.             *)
Accounts(p) ==
  /\ errSpaces \subseteq errSpaces'
  /\ \A q \in Handlers : q # p => pc'[q] = pc[q] /\ result'[q] = result[q] /\ space'[q] = space[q]
  /\ AnswerOK(p)'

(* Every step keeps the answers accounted for.                             *)
LEMMA AnswerNext ==
  ASSUME PartitionNum = ReplicaNum, TypeInv, AnswerInv, [Next]_vars
  PROVE  AnswerInv'
<1>1. ASSUME NEW p \in Handlers, Accounts(p) PROVE AnswerInv'
  BY Zenon, <1>1, OthersAnswers DEF Accounts, AnswerInv
<1> USE DEF TypeInv, TypeOK, AnswerOK, Saved, CallSteps, Accounts, Goto
<1>2. ASSUME NEW p \in Handlers, AnswerOK(p), NEW n \in Names, StartCreate(p, n) \/ StartDelete(p, n) PROVE Accounts(p)
  BY Zenon, <1>2 DEF StartCreate, StartDelete, etcd
<1>3. ASSUME NEW p \in Handlers, AnswerOK(p), Lock(p) \/ CheckDdlDisabled(p) PROVE Accounts(p)
  BY Zenon, <1>3 DEF Lock, TryLock, TryLockFails, CheckDdlDisabled, etcd, local
<1>4. ASSUME NEW p \in Handlers, AnswerOK(p), ScanNodes(p) \/ ScanSpaces(p) PROVE Accounts(p)
  BY Zenon, <1>4 DEF ScanNodes, ScanSpaces, etcd
<1>5. ASSUME NEW p \in Handlers, AnswerOK(p), DisableAndCreate(p) PROVE Accounts(p)
  BY Zenon, <1>5 DEF DisableAndCreate, Waits
<1>6. ASSUME NEW p \in Handlers, AnswerOK(p), CreateAnswered(p) PROVE Accounts(p)
  BY Zenon, <1>6 DEF CreateAnswered, PutErrSpace, Answered, FailedTasks, local
<1>7. ASSUME NEW p \in Handlers, AnswerOK(p), RedisableAndUndo(p) \/ UndoAnswered(p) PROVE Accounts(p)
  BY Zenon, <1>7 DEF RedisableAndUndo, UndoAnswered, Waits, Answered, local
<1>8. ASSUME NEW p \in Handlers, AnswerOK(p), PutMata(p) PROVE Accounts(p)
  BY Zenon, <1>8 DEF PutMata, Waits, PutErrSpace
<1>9. ASSUME NEW p \in Handlers, AnswerOK(p), EnableAndAddRouters(p) \/ RoutersAdded(p) PROVE Accounts(p)
  BY Zenon, <1>9 DEF EnableAndAddRouters, RoutersAdded, etcd, local
<1>10. ASSUME NEW p \in Handlers, AnswerOK(p), ReadMata(p) \/ LogAndDisable(p) PROVE Accounts(p)
  BY Zenon, <1>10 DEF ReadMata, LogAndDisable, etcd, local
<1>11. ASSUME NEW p \in Handlers, AnswerOK(p), DeleteMata(p) PROVE Accounts(p)
  BY Zenon, <1>11 DEF DeleteMata, PutErrSpace
<1>12. ASSUME NEW p \in Handlers, AnswerOK(p), RoutersDeleted(p) PROVE Accounts(p)
  BY Zenon, <1>12 DEF RoutersDeleted, Waits, etcd
<1>13. ASSUME NEW p \in Handlers, AnswerOK(p), DeleteAnswered(p) PROVE Accounts(p)
  BY Zenon, <1>13 DEF DeleteAnswered, PutErrSpace, Answered, FailedTasks, local
<1>14. ASSUME NEW p \in Handlers, AnswerOK(p), EnableAfterDelete(p) PROVE Accounts(p)
  BY Zenon, <1>14 DEF EnableAfterDelete, local
<1>15. ASSUME NEW p \in Handlers, AnswerOK(p), UnlockAndClose(p) \/ MasterCrash(p) PROVE Accounts(p)
  BY <1>15 DEF UnlockAndClose, MasterCrash, Forget, NoResult, etcd
<1>16. ASSUME NEW p \in Handlers, AnswerOK(p), SessionExpires(p) PROVE Accounts(p)
  BY Zenon, <1>16 DEF SessionExpires, local
<1>17. ASSUME NEW p \in Handlers, AnswerOK(p), GiveUpCall(p) PROVE Accounts(p)
  BY Zenon, <1>17 DEF GiveUpCall, Timeout, RouterTimeout, etcd
<1>18. ASSUME NEW p \in Handlers PROVE ~Panic(p)
  BY Zenon, TasksInRange DEF Panic, Panics, FailedTasks
<1>19. ASSUME NEW m \in net, PsCreateSpace(m) \/ PsDeleteSpace(m) PROVE AnswerInv'
  <2>1. PICK a \in {"ok", "fail"} : Answer(m, a)
    BY Zenon, <1>19 DEF PsCreateSpace, PsDeleteSpace
  <2>2. UNCHANGED <<errSpaces, pc, space>> /\ m.from \in Handlers /\ m.task \in Tasks
    BY Zenon, <1>19 DEF PsCreateSpace, PsDeleteSpace, etcd, Message
  <2> QED BY Zenon, <2>1, <2>2 DEF Answer, Awaited, AnswerInv
<1>20. CASE UNCHANGED <<errSpaces, pc, space, result>>
  BY Zenon, <1>20 DEF AnswerInv
<1> HIDE DEF TypeInv, TypeOK, AnswerOK, Accounts
<1> QED
  BY Zenon, <1>1, <1>2, <1>3, <1>4, <1>5, <1>6, <1>7, <1>8, <1>9, <1>10, <1>11,
     <1>12, <1>13, <1>14, <1>15, <1>16, <1>17, <1>18, <1>19, <1>20
     DEF Next, Run, CreateSpace, DeleteSpace, Servers, RouterAddSpace, RouterDeleteSpace, PsRestart, vars, etcd, local, AnswerInv

(* With as many partitions as replicas, whatever fails, crashes or runs    *)
(* without the lock: a handler that saw a server fail has saved the space  *)
(* under /error/spaces when it unlocks.  With another shape of space the   *)
(* handler may panic before.                                               *)
THEOREM FailuresAreSaved ==
  ASSUME PartitionNum = ReplicaNum
  PROVE  Spec => []FailureIsSaved
<1>1. Init => AnswerInv
  BY Zenon DEF Init, NoResult, AnswerInv, AnswerOK, Saved, CallSteps
<1>2. IInv /\ AnswerInv /\ [Next]_vars => AnswerInv'
  BY Zenon, AnswerNext DEF IInv
<1>3. AnswerInv => FailureIsSaved
  BY Zenon DEF AnswerInv, AnswerOK, Saved, CallSteps, FailureIsSaved, FailedTasks
<1> QED BY <1>1, <1>2, <1>3, Invariance, PTL DEF Spec
=============================================================================
