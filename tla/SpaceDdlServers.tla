-------------------------- MODULE SpaceDdlServers ---------------------------
(***************************************************************************)
(* Proofs about SpaceDdl without contention for the lock, concluded: what  *)
(* the partition servers hold, the calls on their way to them and their    *)
(* answers, and what follows for the system at rest.                       *)
(***************************************************************************)
EXTENDS SpaceDdlSerialInv

(* A partition server that holds a space says so; a call goes to the       *)
(* replica of its task, or to a router.                                    *)
Flagged == \A x \in Nodes : psSpace[x] # NoSpace => psHasSpace[x]
PsCall(m) == m.kind \in {"ps_create", "ps_delete"}
Routed ==
  \A m \in net : IF PsCall(m) THEN m.to = m.space.nodes[m.task] ELSE m.to \in Routers

(* A server holds a space and no deletion is on its way to it.  While all  *)
(* is healthy this is so for the spaces in etcd, for those about to be put *)
(* and for those just deleted from etcd.                                   *)
Held(x, s) == psSpace[x] = s /\ \A m \in net : m.kind = "ps_delete" => m.to # x
LiveHeld ==
  \A n \in Names : spaceMata[n] # NoSpace =>
    \A t \in Tasks : Held(spaceMata[n].nodes[t], spaceMata[n])
WorkHeld ==
  \A p \in Handlers, t \in Tasks :
    pc[p] \in {"c_mata", "d_router"} \/ (pc[p] = "c_ps" /\ result[p][t] = "ok") =>
      Held(space[p].nodes[t], space[p])

(* A deletion on its way finds the space it is meant for, and is the only  *)
(* one for its server; a creation on its way is not answered yet.          *)
Deletes ==
  \A m \in net : m.kind = "ps_delete" =>
    /\ psSpace[m.to] = m.space
    /\ \A k \in net : k.kind = "ps_delete" /\ k.to = m.to => k = m
Creates ==
  \A m \in net : m.kind = "ps_create" =>
    pc[m.from] = "c_ps" /\ space[m.from] = m.space /\ result[m.from][m.task] # "ok"

(* A failed task that is decoded at all is decoded to itself.              *)
ExactDecoding ==
  \A t \in Tasks : InRange(t) => (t \div PartitionNum) * ReplicaNum + (t % PartitionNum) = t

(* A server without an error key, of no space in etcd and of none a        *)
(* handler is creating or deleting, is empty and stays so; so is a server  *)
(* that has answered its deletion.                                         *)
Calling == {"c_ps", "c_mata", "d_router", "d_ps"}
Used(x) ==
  \/ \E n \in Names, t \in Tasks : spaceMata[n] # NoSpace /\ spaceMata[n].nodes[t] = x
  \/ \E p \in Handlers, t \in Tasks : pc[p] \in Calling /\ space[p].nodes[t] = x
Clean(x) == ~psHasSpace[x] /\ \A m \in net : m.to # x
Swept ==
  /\ \A x \in Nodes : x \notin errNodes /\ ~Used(x) => Clean(x)
  /\ \A p \in Handlers, t \in Tasks :
       pc[p] = "d_ps" /\ result[p][t] = "ok" => Clean(space[p].nodes[t])

CallInv == LiveHeld /\ WorkHeld /\ Deletes /\ Creates
SweepInv == ExactDecoding => Swept
ServerInv == Flagged /\ Routed /\ (Healthy => CallInv /\ SweepInv)

-----------------------------------------------------------------------------
(* A calm step leaves the servers, the calls and the spaces alone, and     *)
(* changes nothing of a handler that calls servers but that a call may     *)
(* have timed out.                                                         *)
Calm ==
  /\ UNCHANGED <<psSpace, psHasSpace, net, spaceMata>>
  /\ errNodes \subseteq errNodes'
  /\ \A q \in Handlers : pc[q] \in Calling \/ pc'[q] \in Calling =>
       /\ pc'[q] = pc[q] /\ space'[q] = space[q]
       /\ \A t \in Tasks : result'[q][t] = "ok" <=> result[q][t] = "ok"

(* Most steps of the handlers are calm.                                    *)
LEMMA CalmSteps ==
  ASSUME TypeOK, [Next]_vars, ~Servers, ~ \E x \in Nodes : PsRestart(x),
         ~ \E p \in Handlers :
             \/ DisableAndCreate(p) \/ CreateAnswered(p) \/ RedisableAndUndo(p) \/ PutMata(p)
             \/ EnableAndAddRouters(p) \/ DeleteMata(p) \/ RoutersDeleted(p)
             \/ DeleteAnswered(p) \/ Panic(p) \/ MasterCrash(p)
  PROVE  Calm
<1> USE DEF TypeOK, Calm, Calling, Goto
<1>1. ASSUME NEW p \in Handlers, NEW n \in Names, StartCreate(p, n) \/ StartDelete(p, n) PROVE Calm
  BY Zenon, <1>1 DEF StartCreate, StartDelete, etcd, servers
<1>2. ASSUME NEW p \in Handlers, Lock(p) PROVE Calm
  BY Zenon, <1>2 DEF Lock, TryLock, TryLockFails, etcd, servers, local
<1>3. ASSUME NEW p \in Handlers, CheckDdlDisabled(p) PROVE Calm
  BY Zenon, <1>3 DEF CheckDdlDisabled, etcd, servers, local
<1>4. ASSUME NEW p \in Handlers, ScanNodes(p) PROVE Calm
  BY Zenon, <1>4 DEF ScanNodes, etcd, servers
<1>5. ASSUME NEW p \in Handlers, ScanSpaces(p) PROVE Calm
  BY Zenon, <1>5 DEF ScanSpaces, etcd, servers
<1>6. ASSUME NEW p \in Handlers, UndoAnswered(p) PROVE Calm
  BY Zenon, <1>6 DEF UndoAnswered, servers, local
<1>7. ASSUME NEW p \in Handlers, RoutersAdded(p) PROVE Calm
  BY Zenon, <1>7 DEF RoutersAdded, etcd, servers, local
<1>8. ASSUME NEW p \in Handlers, ReadMata(p) PROVE Calm
  BY Zenon, <1>8 DEF ReadMata, etcd, servers
<1>9. ASSUME NEW p \in Handlers, LogAndDisable(p) PROVE Calm
  BY Zenon, <1>9 DEF LogAndDisable, servers, local
<1>10. ASSUME NEW p \in Handlers, EnableAfterDelete(p) PROVE Calm
  BY Zenon, <1>10 DEF EnableAfterDelete, servers, local
<1>11. ASSUME NEW p \in Handlers, UnlockAndClose(p) PROVE Calm
  BY Zenon, <1>11 DEF UnlockAndClose, Forget, servers
<1>12. ASSUME NEW p \in Handlers, GiveUpCall(p) PROVE Calm
  BY <1>12 DEF GiveUpCall, Timeout, RouterTimeout, etcd, servers
<1>13. ASSUME NEW p \in Handlers, SessionExpires(p) PROVE Calm
  BY Zenon, <1>13 DEF SessionExpires, servers, local
<1>14. CASE UNCHANGED vars
  BY Zenon, <1>14 DEF vars, etcd, servers, local
<1> HIDE DEF TypeOK, Calm
<1> QED
  BY Zenon, <1>1, <1>2, <1>3, <1>4, <1>5, <1>6, <1>7, <1>8, <1>9, <1>10, <1>11, <1>12, <1>13, <1>14
     DEF Next, Run, CreateSpace, DeleteSpace

(* A calm step keeps what holds of servers and calls.                      *)
LEMMA CalmKeeps ==
  ASSUME TypeOK, Calm, KeepsWorker, ServerInv
  PROVE  ServerInv'
<1> USE DEF Calm, ServerInv
<1>1. Flagged' /\ Routed'
  BY Zenon DEF Flagged, Routed, PsCall
<1> SUFFICES ASSUME Healthy' PROVE CallInv' /\ SweepInv'
  BY Zenon, <1>1
<1>2. CallInv /\ SweepInv
  BY Zenon DEF KeepsWorker
<1>3. \A x, s : Held(x, s)' <=> Held(x, s)
  BY Zenon DEF Held
<1>4. LiveHeld'
  BY Zenon, <1>2, <1>3 DEF CallInv, LiveHeld
<1>5. WorkHeld'
  BY Zenon, <1>2, <1>3 DEF CallInv, WorkHeld, Calling
<1>6. Deletes' /\ Creates'
  BY <1>2 DEF CallInv, Deletes, Creates, Calling, TypeOK, Message
<1>7. SweepInv'
  BY <1>2 DEF SweepInv, Swept, Used, Clean, Calling
<1> QED BY Zenon, <1>4, <1>5, <1>6, <1>7 DEF CallInv

(* The requests a handler adds for its space are the calls of its tasks.   *)
LEMMA CallsOfTasks ==
  ASSUME NEW p, NEW s, NEW kind, NEW m \in Calls(p, s, kind)
  PROVE  /\ m.kind = kind /\ m.space = s /\ m.from = p
         /\ m.task \in Tasks /\ m.to = s.nodes[m.task]
  BY DEF Calls

(* The requests it adds for routers go to routers.                         *)
LEMMA CallsToRouters ==
  ASSUME NEW p, NEW rs \in SUBSET Routers, NEW s, NEW kind, NEW m \in RouterCalls(p, rs, s, kind)
  PROVE  m.kind = kind /\ m.space = s /\ m.to \in Routers
  BY DEF RouterCalls

(* Creations are on their way only while their handler waits for them.     *)
LEMMA NoCreates ==
  ASSUME TypeOK, OneWorker, Creates, NEW p \in Handlers, pc[p] \in Working \ {"c_ps"},
         NEW m \in net
  PROVE  m.kind # "ps_create"
<1> SUFFICES ASSUME m.kind = "ps_create" PROVE FALSE
  BY Zenon
<1>1. pc[m.from] = "c_ps" /\ m.from \in Handlers
  BY Zenon DEF Creates, TypeOK, Message
<1>2. pc[m.from] \in Working
  BY Zenon, <1>1 DEF Working, CreateSteps
<1> QED BY Zenon, <1>1, <1>2, Alone

(* createSpace sends its creations: no earlier one is on its way.          *)
LEMMA DisableAndCreateKeeps ==
  ASSUME IInv, WorkerInv, ServerInv, NEW p \in Handlers, DisableAndCreate(p)
  PROVE  ServerInv'
<1>1. /\ pc[p] = "c_disable" /\ pc' = [pc EXCEPT ![p] = "c_ps"] /\ pc[p] \in Working
      /\ net' = net \cup Calls(p, space[p], "ps_create")
      /\ UNCHANGED <<psSpace, psHasSpace, spaceMata, errNodes, space>>
      /\ result' = [result EXCEPT ![p] = [t \in Tasks |-> "wait"]]
  BY Zenon DEF DisableAndCreate, Goto, Waits, servers, Working, CreateSteps
<1>2. \A q \in Handlers : q # p => pc'[q] = pc[q] /\ pc[q] \notin Working
  BY Zenon, <1>1, Alone DEF WorkerInv, IInv, TypeInv, TypeOK
<1>3. /\ pc'[p] = "c_ps" /\ \A t \in Tasks : result'[p][t] = "wait"
      /\ \A q \in Handlers : q # p => result'[q] = result[q]
  BY Zenon, <1>1 DEF IInv, TypeInv, TypeOK
<1>4. \A m \in net' : m \in net \/ m \in Calls(p, space[p], "ps_create")
  BY Zenon, <1>1
<1>5. Flagged' /\ Routed'
  BY <1>1, <1>4, CallsOfTasks DEF ServerInv, Flagged, Routed, PsCall
<1>6. CallInv /\ SweepInv
  <2>1. ~ddlDisabled
    BY Zenon, <1>1 DEF WorkerInv, DdlFlag, Checked
  <2> QED BY Zenon, <2>1 DEF ServerInv, Healthy
<1>7. \A x, s : Held(x, s) => Held(x, s)'
  BY <1>1, <1>4, CallsOfTasks DEF Held
<1>8. LiveHeld'
  BY Zenon, <1>1, <1>6, <1>7 DEF CallInv, LiveHeld
<1>9. WorkHeld'
  BY Zenon, <1>2, <1>3 DEF WorkHeld, Working, CreateSteps, DeleteSteps
<1>10. Deletes'
  BY <1>1, <1>4, <1>6, CallsOfTasks DEF CallInv, Deletes
<1>11. Creates'
  <2>1. \A m \in net : m.kind # "ps_create"
    BY Zenon, <1>1, <1>6, NoCreates DEF CallInv, WorkerInv, IInv, TypeInv
  <2> QED BY <1>1, <1>3, <1>4, <2>1, CallsOfTasks DEF Creates
<1>12. SweepInv'
  <2> SUFFICES ASSUME ExactDecoding PROVE Swept'
    BY Zenon DEF SweepInv, ExactDecoding
  <2>1. \A x \in Nodes : ~Used(x)' => ~Used(x) /\ \A t \in Tasks : space[p].nodes[t] # x
    BY <1>1, <1>2, <1>3 DEF Used, Calling, Working, CreateSteps, DeleteSteps
  <2>2. \A x \in Nodes : x \notin errNodes' /\ ~Used(x)' => Clean(x)'
    BY <1>1, <1>4, <1>6, <2>1, CallsOfTasks DEF SweepInv, Swept, Clean
  <2>3. \A q \in Handlers : pc'[q] # "d_ps"
    BY Zenon, <1>2, <1>3 DEF Working, DeleteSteps
  <2> QED BY Zenon, <2>2, <2>3 DEF Swept
<1> QED BY Zenon, <1>5, <1>8, <1>9, <1>10, <1>11, <1>12 DEF ServerInv, CallInv

(* A failure of createSpace, or a handler that stops while DDL is          *)
(* disabled, leaves nothing to show of the calls.                          *)
LEMMA GivesUp ==
  ASSUME TypeOK, WorkerInv, ServerInv, NEW p \in Handlers, pc[p] \in Disabling, ddlDisabled',
         NEW step \in Steps \ Hopeful, pc' = [pc EXCEPT ![p] = step], UNCHANGED <<psSpace, psHasSpace>>,
         net' = net \/ net' = net \cup Calls(p, space[p], "ps_delete")
  PROVE  ServerInv'
<1>1. ~Healthy'
  BY Zenon, Hopeless DEF WorkerInv, Working, Disabling, CreateSteps, DeleteSteps
<1>2. Flagged' /\ Routed'
  BY CallsOfTasks DEF ServerInv, Flagged, Routed, PsCall
<1> QED BY Zenon, <1>1, <1>2 DEF ServerInv

(* createSpace got all its answers: if all are good, every replica holds   *)
(* the space.                                                              *)
LEMMA CreateAnsweredKeeps ==
  ASSUME IInv, WorkerInv, ServerInv, NEW p \in Handlers, CreateAnswered(p)
  PROVE  ServerInv'
<1>1. pc[p] = "c_ps" /\ UNCHANGED <<psSpace, psHasSpace, net, spaceMata, space, result, ddlDisabled>>
  BY Zenon DEF CreateAnswered, servers, local
<1>2. CASE pc' = [pc EXCEPT ![p] = "c_redisable"]
  <2>1. ddlDisabled' /\ pc[p] \in Disabling
    BY Zenon, <1>1 DEF WorkerInv, DdlFlag, Disabling
  <2> QED BY Zenon, <1>1, <1>2, <2>1, GivesUp DEF IInv, TypeInv, Steps, CreateSteps, Hopeful
<1>3. CASE FailedTasks(p) = {} /\ pc' = [pc EXCEPT ![p] = "c_mata"] /\ UNCHANGED errNodes
  <2>1. \A t \in Tasks : result[p][t] = "ok"
    BY Zenon, <1>3 DEF CreateAnswered, Answered, FailedTasks
  <2>2. pc[p] \in Working /\ pc[p] \in Hopeful
    BY Zenon, <1>1 DEF Working, CreateSteps, Hopeful
  <2>3. pc'[p] = "c_mata" /\ \A q \in Handlers : q # p => pc'[q] = pc[q] /\ pc[q] \notin Working
    BY Zenon, <1>3, <2>2, Alone DEF WorkerInv, IInv, TypeInv, TypeOK
  <2>4. CallInv /\ SweepInv
    BY Zenon, <2>2 DEF ServerInv, Healthy
  <2>5. \A x, s : Held(x, s) => Held(x, s)'
    BY Zenon, <1>1 DEF Held
  <2>6. Flagged' /\ Routed' /\ LiveHeld' /\ Deletes'
    BY Zenon, <1>1, <2>4, <2>5 DEF ServerInv, CallInv, Flagged, Routed, PsCall, LiveHeld, Deletes
  <2>7. WorkHeld'
    BY Zenon, <1>1, <2>1, <2>3, <2>4, <2>5 DEF CallInv, WorkHeld, Working, CreateSteps, DeleteSteps
  <2>8. Creates'
    <3> SUFFICES ASSUME NEW m \in net, m.kind = "ps_create" PROVE FALSE
      BY Zenon, <1>1 DEF Creates
    <3>1. pc[m.from] = "c_ps" /\ m.from \in Handlers /\ m.task \in Tasks /\ result[m.from][m.task] # "ok"
      BY Zenon, <2>4 DEF CallInv, Creates, IInv, TypeInv, TypeOK, Message
    <3>2. m.from = p
      BY Zenon, <3>1, <2>2, Alone DEF WorkerInv, Working, CreateSteps
    <3> QED BY Zenon, <2>1, <3>1, <3>2
  <2>9. SweepInv'
    BY <1>1, <1>3, <2>3, <2>4 DEF SweepInv, Swept, Used, Clean, Calling, Working, CreateSteps, DeleteSteps
  <2> QED BY Zenon, <2>6, <2>7, <2>8, <2>9 DEF ServerInv, CallInv
<1> QED BY Zenon, <1>2, <1>3 DEF CreateAnswered, Goto

(* createSpace puts its space: its replicas pass from the handler to etcd. *)
LEMMA PutMataKeepsServers ==
  ASSUME IInv, WorkerInv, ServerInv, NEW p \in Handlers, PutMata(p)
  PROVE  ServerInv'
<1>1. pc[p] = "c_mata" /\ UNCHANGED <<psSpace, psHasSpace, space, ddlDisabled, errNodes>>
  BY Zenon DEF PutMata, servers
<1>2. CASE pc' = [pc EXCEPT ![p] = "c_undo"]
  <2>1. ddlDisabled' /\ pc[p] \in Disabling
    BY Zenon, <1>1 DEF WorkerInv, DdlFlag, Disabling
  <2>2. net' = net \/ net' = net \cup Calls(p, space[p], "ps_delete")
    BY Zenon DEF PutMata
  <2> QED BY Zenon, <1>1, <1>2, <2>1, <2>2, GivesUp DEF IInv, TypeInv, Steps, CreateSteps, Hopeful
<1>3. CASE spaceMata' = [spaceMata EXCEPT ![req[p]] = space[p]] /\ pc' = [pc EXCEPT ![p] = "c_enable"]
           /\ UNCHANGED <<net, result>>
  <2>1. pc[p] \in Working \ {"c_ps"} /\ pc[p] \in Hopeful
    BY Zenon, <1>1 DEF Working, CreateSteps, Hopeful
  <2>2. pc'[p] = "c_enable" /\ \A q \in Handlers : q # p => pc'[q] = pc[q] /\ pc[q] \notin Working
    BY Zenon, <1>3, <2>1, Alone DEF WorkerInv, IInv, TypeInv, TypeOK
  <2>3. CallInv /\ SweepInv
    BY Zenon, <2>1 DEF ServerInv, Healthy
  <2>4. \A n \in Names : spaceMata'[n] = IF n = req[p] THEN space[p] ELSE spaceMata[n]
    BY Zenon, <1>3 DEF IInv, TypeInv, TypeOK
  <2>5. req[p] \in Names /\ spaceMata[req[p]] = NoSpace /\ space[p] # NoSpace
    BY Zenon, <1>1, ConstantsAssumption DEF IInv, TypeInv, HandlerOK, Asked, HasSpace, Placed, CreateSteps, PlacementInv, PlacementIsFree
  <2>6. \A x, s : Held(x, s) => Held(x, s)'
    BY Zenon, <1>1, <1>3 DEF Held
  <2>7. Flagged' /\ Routed' /\ Deletes'
    BY Zenon, <1>1, <1>3, <2>3 DEF ServerInv, CallInv, Flagged, Routed, PsCall, Deletes
  <2>8. LiveHeld'
    BY Zenon, <1>1, <2>3, <2>4, <2>6 DEF CallInv, LiveHeld, WorkHeld
  <2>9. WorkHeld'
    BY Zenon, <2>2 DEF WorkHeld, Working, CreateSteps, DeleteSteps
  <2>10. Creates'
    BY Zenon, <1>3, <2>1, <2>3, NoCreates DEF Creates, CallInv, WorkerInv, IInv, TypeInv
  <2>11. \A x \in Nodes : ~Used(x)' => ~Used(x)
    BY <1>1, <2>1, <2>2, <2>4, <2>5 DEF Used, Calling, Working, CreateSteps, DeleteSteps
  <2>12. SweepInv'
    BY Zenon, <1>1, <1>3, <2>2, <2>3, <2>11 DEF SweepInv, Swept, Clean, Working, CreateSteps, DeleteSteps
  <2> QED BY Zenon, <2>7, <2>8, <2>9, <2>10, <2>12 DEF ServerInv, CallInv
<1> QED BY Zenon, <1>2, <1>3 DEF PutMata, Goto

(* createSpace enables DDL and calls the routers, not the servers.         *)
LEMMA EnableKeeps ==
  ASSUME IInv, WorkerInv, ServerInv, NEW p \in Handlers, EnableAndAddRouters(p)
  PROVE  ServerInv'
<1>1. PICK rs \in SUBSET Routers : net' = net \cup RouterCalls(p, rs, space[p], "router_create")
  BY Zenon DEF EnableAndAddRouters
<1>2. /\ pc[p] = "c_enable" /\ pc' = [pc EXCEPT ![p] = "c_router"]
      /\ UNCHANGED <<psSpace, psHasSpace, spaceMata, errNodes, space, result>>
  BY Zenon DEF EnableAndAddRouters, Goto, servers
<1>3. pc[p] \in Working \ {"c_ps"} /\ pc[p] \in Hopeful
  BY Zenon, <1>2 DEF Working, CreateSteps, Hopeful
<1>4. pc'[p] = "c_router" /\ \A q \in Handlers : q # p => pc'[q] = pc[q] /\ pc[q] \notin Working
  BY Zenon, <1>2, <1>3, Alone DEF WorkerInv, IInv, TypeInv, TypeOK
<1>5. CallInv /\ SweepInv
  BY Zenon, <1>3 DEF ServerInv, Healthy
<1>6. \A m \in net' : m \in net \/ (m.kind = "router_create" /\ m.to \in Routers)
  BY <1>1, CallsToRouters
<1>7. \A x, s : Held(x, s) => Held(x, s)'
  BY Zenon, <1>2, <1>6 DEF Held
<1>8. Flagged' /\ Routed' /\ Deletes'
  BY Zenon, <1>2, <1>5, <1>6 DEF ServerInv, CallInv, Flagged, Routed, PsCall, Deletes
<1>9. LiveHeld' /\ WorkHeld'
  BY Zenon, <1>2, <1>4, <1>5, <1>7 DEF CallInv, LiveHeld, WorkHeld, Working, CreateSteps, DeleteSteps
<1>10. Creates'
  BY Zenon, <1>3, <1>5, <1>6, NoCreates DEF Creates, CallInv, WorkerInv, IInv, TypeInv
<1>11. \A x \in Nodes : ~Used(x)' => ~Used(x)
  BY Zenon, <1>2, <1>4 DEF Used, Calling
<1>12. \A x \in Nodes : Clean(x) => Clean(x)'
  BY Zenon, <1>2, <1>6, ConstantsAssumption DEF Clean
<1>13. SweepInv'
  BY Zenon, <1>2, <1>4, <1>5, <1>11, <1>12 DEF SweepInv, Swept, Working, DeleteSteps
<1> QED BY Zenon, <1>8, <1>9, <1>10, <1>13 DEF ServerInv, CallInv

(* deleteSpace deletes the key: the replicas pass from etcd to it.         *)
LEMMA DeleteMataKeeps ==
  ASSUME IInv, WorkerInv, EtcdInv, ServerInv, NEW p \in Handlers, DeleteMata(p)
  PROVE  ServerInv'
<1>1. pc[p] = "d_mata" /\ UNCHANGED <<psSpace, psHasSpace, space, ddlDisabled, errNodes, result>>
  BY Zenon DEF DeleteMata, servers
<1>2. CASE pc' = [pc EXCEPT ![p] = "unlock"] /\ UNCHANGED net
  <2>1. ddlDisabled' /\ pc[p] \in Disabling
    BY Zenon, <1>1 DEF WorkerInv, DdlFlag, Disabling
  <2> QED BY Zenon, <1>1, <1>2, <2>1, GivesUp DEF IInv, TypeInv, Steps, Hopeful
<1>3. ASSUME spaceMata[req[p]] # NoSpace, spaceMata' = [spaceMata EXCEPT ![req[p]] = NoSpace],
             pc' = [pc EXCEPT ![p] = "d_router"], NEW rs \in SUBSET Routers,
             net' = net \cup RouterCalls(p, rs, space[p], "router_delete")
      PROVE  ServerInv'
  <2>1. pc[p] \in Working \ {"c_ps"} /\ pc[p] \in Hopeful
    BY Zenon, <1>1 DEF Working, DeleteSteps, Hopeful
  <2>2. pc'[p] = "d_router" /\ \A q \in Handlers : q # p => pc'[q] = pc[q] /\ pc[q] \notin Working
    BY Zenon, <1>3, <2>1, Alone DEF WorkerInv, IInv, TypeInv, TypeOK
  <2>3. CallInv /\ SweepInv
    BY Zenon, <2>1 DEF ServerInv, Healthy
  <2>4. \A n \in Names : spaceMata'[n] = IF n = req[p] THEN NoSpace ELSE spaceMata[n]
    BY Zenon, <1>3 DEF IInv, TypeInv, TypeOK
  <2>5. req[p] \in Names /\ spaceMata[req[p]] = space[p]
    BY Zenon, <1>1 DEF IInv, TypeInv, HandlerOK, Asked, DeleteSteps, EtcdInv, MataInv
  <2>6. \A m \in net' : m \in net \/ (m.kind = "router_delete" /\ m.to \in Routers)
    BY <1>3, CallsToRouters
  <2>7. \A x, s : Held(x, s) => Held(x, s)'
    BY Zenon, <1>1, <2>6 DEF Held
  <2>8. Flagged' /\ Routed' /\ Deletes'
    BY Zenon, <1>1, <2>3, <2>6 DEF ServerInv, CallInv, Flagged, Routed, PsCall, Deletes
  <2>9. LiveHeld'
    BY Zenon, <2>3, <2>4, <2>7 DEF CallInv, LiveHeld
  <2>10. WorkHeld'
    BY Zenon, <1>1, <1>3, <2>2, <2>3, <2>5, <2>7
       DEF CallInv, LiveHeld, WorkHeld, Working, CreateSteps, DeleteSteps
  <2>11. Creates'
    BY Zenon, <2>1, <2>3, <2>6, NoCreates DEF Creates, CallInv, WorkerInv, IInv, TypeInv
  <2>12. \A x \in Nodes : ~Used(x)' => ~Used(x)
    BY <1>1, <2>2, <2>4, <2>5 DEF Used, Calling
  <2>13. \A x \in Nodes : Clean(x) => Clean(x)'
    BY Zenon, <1>1, <2>6, ConstantsAssumption DEF Clean
  <2>14. SweepInv'
    BY Zenon, <1>1, <2>2, <2>3, <2>12, <2>13 DEF SweepInv, Swept, Working, DeleteSteps
  <2> QED BY Zenon, <2>8, <2>9, <2>10, <2>11, <2>14 DEF ServerInv, CallInv
<1> QED BY Zenon, <1>2, <1>3 DEF DeleteMata, Goto

(* deleteSpace sends its deletions: each finds the space, and no other     *)
(* deletion, at its server; no server of a space in etcd gets one.         *)
LEMMA RoutersDeletedKeeps ==
  ASSUME IInv, WorkerInv, EtcdInv, ServerInv, NEW p \in Handlers, RoutersDeleted(p)
  PROVE  ServerInv'
<1>1. /\ pc[p] = "d_router" /\ pc' = [pc EXCEPT ![p] = "d_ps"]
      /\ net' = net \cup Calls(p, space[p], "ps_delete")
      /\ UNCHANGED <<psSpace, psHasSpace, spaceMata, errNodes, space>>
      /\ result' = [result EXCEPT ![p] = [t \in Tasks |-> "wait"]]
  BY Zenon DEF RoutersDeleted, Goto, Waits, servers, etcd
<1>2. pc[p] \in Working \ {"c_ps"} /\ pc[p] \in Hopeful
  BY Zenon, <1>1 DEF Working, DeleteSteps, Hopeful
<1>3. pc'[p] = "d_ps" /\ \A q \in Handlers : q # p => pc'[q] = pc[q] /\ pc[q] \notin Working
  BY Zenon, <1>1, <1>2, Alone DEF WorkerInv, IInv, TypeInv, TypeOK
<1>4. /\ \A t \in Tasks : result'[p][t] = "wait"
      /\ \A q \in Handlers : q # p => result'[q] = result[q]
  BY Zenon, <1>1 DEF IInv, TypeInv, TypeOK
<1>5. CallInv /\ SweepInv
  BY Zenon, <1>2 DEF ServerInv, Healthy
<1>6. \A m \in net' : m \in net \/ m \in Calls(p, space[p], "ps_delete")
  BY Zenon, <1>1
<1>7. \A t \in Tasks : Held(space[p].nodes[t], space[p])
  BY Zenon, <1>1, <1>5 DEF CallInv, WorkHeld
<1>8. /\ space[p].name = req[p] /\ spaceMata[req[p]] = NoSpace /\ Spread(space[p])
      /\ \A n \in Names : spaceMata[n] # NoSpace => spaceMata[n].name = n
  BY Zenon, <1>1 DEF EtcdInv, MataInv, SpreadInv
<1>9. Flagged' /\ Routed'
  BY <1>1, <1>6, CallsOfTasks DEF ServerInv, Flagged, Routed, PsCall
<1>10. LiveHeld'
  <2> SUFFICES ASSUME NEW n \in Names, spaceMata[n] # NoSpace, NEW t \in Tasks,
                      NEW m \in net', m.kind = "ps_delete", m.to = spaceMata[n].nodes[t]
               PROVE  FALSE
    BY <1>1, <1>5 DEF CallInv, LiveHeld, Held
  <2>1. Held(spaceMata[n].nodes[t], spaceMata[n])
    BY Zenon, <1>5 DEF CallInv, LiveHeld
  <2>2. m \in Calls(p, space[p], "ps_delete")
    BY Zenon, <1>6, <2>1 DEF Held
  <2>3. psSpace[m.to] = space[p]
    BY <1>7, <2>2, CallsOfTasks DEF Held
  <2> QED BY Zenon, <1>8, <2>1, <2>3 DEF Held
<1>11. WorkHeld'
  BY Zenon, <1>3, <1>4 DEF WorkHeld, Working, CreateSteps, DeleteSteps
<1>12. Deletes'
  <2> SUFFICES ASSUME NEW m \in net', m.kind = "ps_delete"
               PROVE  /\ psSpace[m.to] = m.space
                      /\ \A k \in net' : k.kind = "ps_delete" /\ k.to = m.to => k = m
    BY Zenon, <1>1 DEF Deletes
  <2>1. psSpace[m.to] = m.space
    BY <1>5, <1>6, <1>7, CallsOfTasks DEF CallInv, Deletes, Held
  <2>2. ASSUME NEW k \in net', k.kind = "ps_delete", k.to = m.to PROVE k = m
    <3>1. CASE m \in net /\ k \in net
      BY Zenon, <2>2, <3>1, <1>5 DEF CallInv, Deletes
    <3>2. CASE m \in Calls(p, space[p], "ps_delete") /\ k \in Calls(p, space[p], "ps_delete")
      <4>1. m.task = k.task
        BY <1>8, <2>2, <3>2, CallsOfTasks DEF Spread
      <4>2. /\ m = [to |-> m.to, space |-> space[p], from |-> p, task |-> m.task, kind |-> "ps_delete"]
            /\ k = [to |-> k.to, space |-> space[p], from |-> p, task |-> k.task, kind |-> "ps_delete"]
        BY <3>2 DEF Calls
      <4> QED BY Zenon, <2>2, <4>1, <4>2
    <3>3. ASSUME NEW a \in net, NEW b \in Calls(p, space[p], "ps_delete"), a.kind = "ps_delete"
          PROVE  a.to # b.to
      BY <1>7, <3>3, CallsOfTasks DEF Held
    <3> QED BY Zenon, <1>6, <2>2, <3>1, <3>2, <3>3
  <2> QED BY Zenon, <2>1, <2>2
<1>13. Creates'
  BY <1>2, <1>5, <1>6, NoCreates, CallsOfTasks DEF Creates, CallInv, WorkerInv, IInv, TypeInv
<1>14. SweepInv'
  <2> SUFFICES ASSUME ExactDecoding PROVE Swept'
    BY Zenon DEF SweepInv, ExactDecoding
  <2>1. \A x \in Nodes : ~Used(x)' => ~Used(x) /\ \A t \in Tasks : space[p].nodes[t] # x
    BY Zenon, <1>1, <1>3 DEF Used, Calling
  <2>2. \A x \in Nodes : x \notin errNodes' /\ ~Used(x)' => Clean(x)'
    BY <1>1, <1>5, <1>6, <2>1, CallsOfTasks DEF SweepInv, Swept, Clean
  <2> QED BY Zenon, <1>3, <1>4, <2>2 DEF Swept, Working, DeleteSteps
<1> QED BY Zenon, <1>9, <1>10, <1>11, <1>12, <1>13, <1>14 DEF ServerInv, CallInv

(* deleteSpace got all its answers: the servers that failed get their      *)
(* error keys, the others are empty.                                       *)
LEMMA DeleteAnsweredKeeps ==
  ASSUME IInv, WorkerInv, ServerInv, NEW p \in Handlers, DeleteAnswered(p)
  PROVE  ServerInv'
<1>1. /\ pc[p] = "d_ps" /\ pc' = [pc EXCEPT ![p] = "d_enable"]
      /\ UNCHANGED <<psSpace, psHasSpace, net, spaceMata, space, result>>
      /\ errNodes' = errNodes \cup ErrReplicas(p)
  BY Zenon DEF DeleteAnswered, Goto, servers, local
<1>2. pc[p] \in Working \ {"c_ps"} /\ pc[p] \in Hopeful
  BY Zenon, <1>1 DEF Working, DeleteSteps, Hopeful
<1>3. pc'[p] = "d_enable" /\ \A q \in Handlers : q # p => pc'[q] = pc[q] /\ pc[q] \notin Working
  BY Zenon, <1>1, <1>2, Alone DEF WorkerInv, IInv, TypeInv, TypeOK
<1>4. CallInv /\ SweepInv
  BY Zenon, <1>2 DEF ServerInv, Healthy
<1>5. \A x, s : Held(x, s) => Held(x, s)'
  BY Zenon, <1>1 DEF Held
<1>6. Flagged' /\ Routed' /\ Deletes' /\ LiveHeld'
  BY Zenon, <1>1, <1>4, <1>5 DEF ServerInv, CallInv, Flagged, Routed, PsCall, Deletes, LiveHeld
<1>7. WorkHeld'
  BY Zenon, <1>3 DEF WorkHeld, Working, CreateSteps, DeleteSteps
<1>8. Creates'
  BY Zenon, <1>1, <1>2, <1>4, NoCreates DEF Creates, CallInv, WorkerInv, IInv, TypeInv
<1>9. SweepInv'
  <2> SUFFICES ASSUME ExactDecoding PROVE Swept'
    BY Zenon DEF SweepInv, ExactDecoding
  <2>1. ASSUME NEW t \in Tasks PROVE space[p].nodes[t] \in errNodes' \/ Clean(space[p].nodes[t])
    <3>1. CASE result[p][t] = "ok"
      BY Zenon, <1>1, <1>4, <3>1 DEF SweepInv, Swept
    <3>2. CASE result[p][t] = "fail"
      <4>1. t \in FailedTasks(p) /\ InRange(t)
        BY Zenon, <3>2 DEF FailedTasks, DeleteAnswered, Panics
      <4>2. ErrReplica(space[p], t) = space[p].nodes[t]
        BY Zenon, <4>1 DEF ErrReplica, ExactDecoding
      <4> QED BY Zenon, <1>1, <4>1, <4>2 DEF ErrReplicas
    <3> QED BY Zenon, <3>1, <3>2 DEF DeleteAnswered, Answered
  <2>2. ASSUME NEW x \in Nodes, x \notin errNodes', ~Used(x)' PROVE Clean(x)
    <3>1. CASE ~Used(x)
      BY Zenon, <1>1, <1>4, <2>2, <3>1 DEF SweepInv, Swept
    <3>2. CASE Used(x)
      <4>1. \E t \in Tasks : space[p].nodes[t] = x
        BY Zenon, <1>1, <1>3, <2>2, <3>2 DEF Used, Calling, Working, CreateSteps, DeleteSteps
      <4> QED BY Zenon, <2>1, <2>2, <4>1
    <3> QED BY Zenon, <3>1, <3>2
  <2>3. \A x \in Nodes : Clean(x) => Clean(x)'
    BY Zenon, <1>1 DEF Clean
  <2> QED BY Zenon, <1>3, <2>2, <2>3 DEF Swept, Working, DeleteSteps
<1> QED BY Zenon, <1>6, <1>7, <1>8, <1>9 DEF ServerInv, CallInv

(* Handlers that stop: a failed creation, a panic, a crash.                *)
LEMMA StopsKeep ==
  ASSUME IInv, WorkerInv, KeepsWorker, ServerInv, NEW p \in Handlers,
         RedisableAndUndo(p) \/ Panic(p) \/ MasterCrash(p)
  PROVE  ServerInv'
<1> USE DEF IInv, TypeInv
<1>1. UNCHANGED <<psSpace, psHasSpace, spaceMata, errNodes>>
  BY Zenon DEF RedisableAndUndo, Panic, MasterCrash, etcd, servers
<1>2. PICK step \in {"c_undo", "unlock", "dead"} : pc' = [pc EXCEPT ![p] = step]
  BY Zenon DEF RedisableAndUndo, Panic, MasterCrash, Goto
<1>3. step \in Steps \ Hopeful
  BY Zenon, <1>2 DEF Steps, CreateSteps, Hopeful
<1>4. net' = net \/ net' = net \cup Calls(p, space[p], "ps_delete")
  BY Zenon DEF RedisableAndUndo, Panic, MasterCrash
<1>5. ddlDisabled => ddlDisabled'
  BY Zenon DEF RedisableAndUndo, Panic, MasterCrash, etcd
<1>6. CASE pc[p] \in Disabling
  <2>1. ddlDisabled'
    BY Zenon, <1>5, <1>6 DEF WorkerInv, DdlFlag
  <2> QED BY Zenon, <1>1, <1>2, <1>3, <1>4, <1>6, <2>1, GivesUp
<1>7. CASE pc[p] \notin Disabling
  <2>1. MasterCrash(p) /\ net' = net /\ pc' = [pc EXCEPT ![p] = "dead"]
    BY Zenon, <1>7 DEF RedisableAndUndo, Panic, MasterCrash, Goto, Disabling
  <2>2. Calm
    BY Zenon, <1>1, <1>7, <2>1 DEF Calm, MasterCrash, Forget, TypeOK, Calling, Disabling
  <2> QED BY Zenon, <2>2, CalmKeeps
<1> QED BY Zenon, <1>6, <1>7

-----------------------------------------------------------------------------
(* An answer changes the one result its handler waits for.                 *)
LEMMA AnswerSets ==
  ASSUME TypeOK, NEW m \in net, NEW a, Answer(m, a)
  PROVE  \A q \in Handlers, t \in Tasks :
           result'[q][t] = IF Awaited(m) /\ q = m.from /\ t = m.task THEN a ELSE result[q][t]
<1>1. m.from \in Handlers /\ m.task \in Tasks
  BY Zenon DEF TypeOK, Message
<1>2. CASE ~Awaited(m)
  BY Zenon, <1>2 DEF Answer
<1>3. CASE Awaited(m)
  <2>1. result' = [result EXCEPT ![m.from] = [result[m.from] EXCEPT ![m.task] = a]]
    BY Zenon, <1>3 DEF Answer
  <2>2. \A q \in Handlers : result'[q] = IF q = m.from THEN [result[m.from] EXCEPT ![m.task] = a] ELSE result[q]
    BY Zenon, <1>1, <2>1 DEF TypeOK
  <2>3. \A t \in Tasks : [result[m.from] EXCEPT ![m.task] = a][t] = IF t = m.task THEN a ELSE result[m.from][t]
    BY Zenon, <1>1 DEF TypeOK
  <2> QED BY Zenon, <1>3, <2>2, <2>3
<1> QED BY Zenon, <1>2, <1>3

(* A server answers a creation: it takes the space only if it has none,    *)
(* and then no deletion is on its way to it.                               *)
LEMMA PsCreateKeeps ==
  ASSUME IInv, WorkerInv, ServerInv, NEW m \in net, PsCreateSpace(m)
  PROVE  ServerInv'
<1> USE DEF IInv, TypeInv
<1>1. /\ m.kind = "ps_create" /\ net' = net \ {m}
      /\ UNCHANGED <<ddlDisabled, pc, space, spaceMata, errNodes>>
  BY Zenon DEF PsCreateSpace, etcd
<1>2. m.to = m.space.nodes[m.task] /\ m.from \in Handlers /\ m.task \in Tasks /\ m.space \in Space
  BY Zenon, <1>1 DEF ServerInv, Routed, PsCall, TypeOK, Message
<1>3. m.to \in Nodes
  BY Zenon, <1>2 DEF Space
<1>4. PICK a \in {"ok", "fail"} :
        /\ Answer(m, a)
        /\ a = "ok" => ~psHasSpace[m.to] /\ psSpace' = [psSpace EXCEPT ![m.to] = m.space]
                       /\ psHasSpace' = [psHasSpace EXCEPT ![m.to] = TRUE]
        /\ a = "fail" => \/ UNCHANGED <<psSpace, psHasSpace>>
                         \/ /\ ~psHasSpace[m.to] /\ psSpace' = [psSpace EXCEPT ![m.to] = NoSpace]
                            /\ psHasSpace' = [psHasSpace EXCEPT ![m.to] = TRUE]
  BY Zenon DEF PsCreateSpace
<1>5. \A q \in Handlers, t \in Tasks :
        result'[q][t] = IF Awaited(m) /\ q = m.from /\ t = m.task THEN a ELSE result[q][t]
  BY <1>4, AnswerSets
<1>6. /\ \A x \in Nodes : psSpace[x] # NoSpace => psSpace'[x] = psSpace[x]
      /\ \A x \in Nodes : x # m.to => psHasSpace'[x] = psHasSpace[x]
      /\ a = "ok" => psSpace[m.to] = NoSpace /\ psSpace'[m.to] = m.space
  BY Zenon, <1>3, <1>4 DEF ServerInv, Flagged, TypeOK
<1>7. Flagged'
  BY Zenon, <1>3, <1>4 DEF ServerInv, Flagged, TypeOK
<1>8. Routed'
  BY Zenon, <1>1 DEF ServerInv, Routed, PsCall
<1> SUFFICES ASSUME Healthy' PROVE CallInv' /\ SweepInv'
  BY Zenon, <1>7, <1>8 DEF ServerInv
<1>9. CallInv /\ SweepInv
  BY Zenon, <1>1 DEF ServerInv, Healthy
<1>10. \A x \in Nodes, s \in Space : Held(x, s) => Held(x, s)'
  BY Zenon, <1>1, <1>6, ConstantsAssumption DEF Held
<1>11. pc[m.from] = "c_ps" /\ space[m.from] = m.space /\ pc[m.from] \in Working
  BY Zenon, <1>1, <1>9 DEF CallInv, Creates, Working, CreateSteps
<1>12. \A q \in Handlers : q # m.from => pc[q] \notin Working
  BY Zenon, <1>2, <1>11, Alone DEF WorkerInv
<1>13. LiveHeld'
  BY <1>1, <1>9, <1>10 DEF CallInv, LiveHeld, TypeOK, Space
<1>14. WorkHeld'
  <2> SUFFICES ASSUME NEW q \in Handlers, NEW t \in Tasks,
                      pc[q] \in {"c_mata", "d_router"} \/ (pc[q] = "c_ps" /\ result'[q][t] = "ok")
               PROVE  Held(space[q].nodes[t], space[q])'
    BY Zenon, <1>1 DEF WorkHeld
  <2>1. q = m.from /\ result'[q][t] = "ok"
    BY Zenon, <1>11, <1>12 DEF Working, CreateSteps, DeleteSteps
  <2>2. space[q].nodes[t] \in Nodes /\ space[q] \in Space
    BY Zenon, <1>2, <1>11, <2>1 DEF Space
  <2>3. CASE result[q][t] = "ok"
    BY Zenon, <1>1, <1>9, <1>10, <1>11, <2>1, <2>2, <2>3 DEF CallInv, WorkHeld
  <2>4. CASE t = m.task /\ a = "ok"
    <3>1. \A k \in net : k.kind = "ps_delete" => k.to # m.to
      BY <1>6, <1>9, <2>4, ConstantsAssumption DEF CallInv, Deletes, TypeOK, Message
    <3> QED BY Zenon, <1>1, <1>2, <1>6, <1>11, <2>1, <2>4, <3>1 DEF Held
  <2> QED BY Zenon, <1>5, <2>1, <2>3, <2>4
<1>15. Deletes'
  <2>1. \A k \in net : k.kind = "ps_delete" => k.to \in Nodes /\ k.space # NoSpace
    BY ConstantsAssumption DEF ServerInv, Routed, PsCall, TypeOK, Message, Space
  <2> QED BY <1>1, <1>6, <1>9, <2>1 DEF CallInv, Deletes
<1>16. Creates'
  <2> SUFFICES ASSUME NEW k \in net, k # m, k.kind = "ps_create", result'[k.from][k.task] = "ok"
               PROVE  FALSE
    BY Zenon, <1>1, <1>9 DEF CallInv, Creates
  <2>1. /\ k.from \in Handlers /\ k.task \in Tasks /\ pc[k.from] = "c_ps" /\ space[k.from] = k.space
        /\ result[k.from][k.task] # "ok" /\ k \in Message /\ m \in Message
        /\ k.to = k.space.nodes[k.task]
    BY Zenon, <1>9 DEF CallInv, Creates, TypeOK, Message, ServerInv, Routed, PsCall
  <2>2. k.from = m.from
    BY Zenon, <1>12, <2>1 DEF Working, CreateSteps
  <2>3. k.task = m.task
    BY Zenon, <1>5, <2>1
  <2> QED BY <1>1, <1>2, <1>11, <2>1, <2>2, <2>3 DEF Message
<1>17. SweepInv'
  <2> SUFFICES ASSUME ExactDecoding PROVE Swept'
    BY Zenon DEF SweepInv, ExactDecoding
  <2>1. \A x \in Nodes : Used(x)' <=> Used(x)
    BY Zenon, <1>1 DEF Used
  <2>2. Used(m.to)
    BY Zenon, <1>2, <1>11 DEF Used, Calling
  <2>3. \A x \in Nodes : x # m.to /\ Clean(x) => Clean(x)'
    BY Zenon, <1>1, <1>6 DEF Clean
  <2>4. \A q \in Handlers : pc'[q] # "d_ps"
    BY Zenon, <1>1, <1>11, <1>12 DEF Working, DeleteSteps
  <2> QED BY Zenon, <1>1, <1>9, <2>1, <2>2, <2>3, <2>4 DEF SweepInv, Swept
<1> QED BY Zenon, <1>13, <1>14, <1>15, <1>16, <1>17 DEF CallInv

(* A server answers a deletion: it held that space, and is empty now.      *)
LEMMA PsDeleteKeeps ==
  ASSUME IInv, WorkerInv, ServerInv, NEW m \in net, PsDeleteSpace(m)
  PROVE  ServerInv'
<1> USE DEF IInv, TypeInv
<1>1. /\ m.kind = "ps_delete" /\ net' = net \ {m}
      /\ UNCHANGED <<ddlDisabled, pc, space, spaceMata, errNodes>>
  BY Zenon DEF PsDeleteSpace, etcd
<1>2. m.to = m.space.nodes[m.task] /\ m.from \in Handlers /\ m.task \in Tasks /\ m.space \in Space
  BY Zenon, <1>1 DEF ServerInv, Routed, PsCall, TypeOK, Message
<1>3. m.to \in Nodes
  BY Zenon, <1>2 DEF Space
<1>4. Flagged'
  BY Zenon, <1>3 DEF PsDeleteSpace, ServerInv, Flagged, TypeOK
<1>5. Routed'
  BY Zenon, <1>1 DEF ServerInv, Routed, PsCall
<1> SUFFICES ASSUME Healthy' PROVE CallInv' /\ SweepInv'
  BY Zenon, <1>4, <1>5 DEF ServerInv
<1>6. CallInv /\ SweepInv
  BY Zenon, <1>1 DEF ServerInv, Healthy
<1>7. psSpace[m.to] = m.space /\ m.space # NoSpace
  BY Zenon, <1>1, <1>2, <1>6, ConstantsAssumption DEF CallInv, Deletes
<1>8. /\ psSpace' = [psSpace EXCEPT ![m.to] = NoSpace]
      /\ psHasSpace' = [psHasSpace EXCEPT ![m.to] = FALSE]
      /\ Answer(m, "ok")
  BY Zenon, <1>7 DEF PsDeleteSpace
<1>9. \A q \in Handlers, t \in Tasks :
        result'[q][t] = IF Awaited(m) /\ q = m.from /\ t = m.task THEN "ok" ELSE result[q][t]
  BY <1>8, AnswerSets
<1>10. /\ \A x \in Nodes : x # m.to => psSpace'[x] = psSpace[x] /\ psHasSpace'[x] = psHasSpace[x]
       /\ ~psHasSpace'[m.to]
  BY Zenon, <1>3, <1>8 DEF TypeOK
<1>11. Awaited(m) => pc[m.from] # "c_ps"
  BY Zenon, <1>1 DEF Awaited
<1>12. \A x \in Nodes, s \in Space : Held(x, s) => Held(x, s)'
  BY Zenon, <1>1, <1>10 DEF Held
<1>13. LiveHeld'
  BY <1>1, <1>6, <1>12 DEF CallInv, LiveHeld, TypeOK, Space
<1>14. WorkHeld'
  <2> SUFFICES ASSUME NEW q \in Handlers, NEW t \in Tasks,
                      pc[q] \in {"c_mata", "d_router"} \/ (pc[q] = "c_ps" /\ result'[q][t] = "ok")
               PROVE  Held(space[q].nodes[t], space[q])'
    BY Zenon, <1>1 DEF WorkHeld
  <2>1. Held(space[q].nodes[t], space[q])
    BY Zenon, <1>6, <1>9, <1>11 DEF CallInv, WorkHeld
  <2>2. space[q] \in Space
    BY Zenon DEF HandlerOK, HasSpace, Placed
  <2> QED BY Zenon, <1>1, <1>12, <2>1, <2>2 DEF Space
<1>15. Deletes'
  <2>1. \A k \in net : k.kind = "ps_delete" => k.to \in Nodes
    BY Zenon DEF ServerInv, Routed, PsCall, TypeOK, Message, Space
  <2> QED BY Zenon, <1>1, <1>6, <1>10, <2>1 DEF CallInv, Deletes
<1>16. Creates'
  <2>1. \A k \in net : k.from \in Handlers /\ k.task \in Tasks
    BY Zenon DEF TypeOK, Message
  <2> QED BY Zenon, <1>1, <1>6, <1>9, <1>11, <2>1 DEF CallInv, Creates
<1>17. SweepInv'
  <2> SUFFICES ASSUME ExactDecoding PROVE Swept'
    BY Zenon DEF SweepInv, ExactDecoding
  <2>1. \A x \in Nodes : Used(x)' <=> Used(x)
    BY Zenon, <1>1 DEF Used
  <2>2. \A x \in Nodes : Clean(x) => Clean(x)'
    BY Zenon, <1>1, <1>10 DEF Clean
  <2>3. ASSUME NEW q \in Handlers, NEW t \in Tasks, pc[q] = "d_ps", result'[q][t] = "ok"
        PROVE  Clean(space[q].nodes[t])'
    <3>1. space[q] \in Space /\ space[q].nodes[t] \in Nodes
      BY Zenon, <2>3 DEF HandlerOK, HasSpace, Space
    <3>2. CASE result[q][t] = "ok"
      BY Zenon, <1>1, <1>6, <2>2, <2>3, <3>1, <3>2 DEF SweepInv, Swept
    <3>3. CASE q = m.from /\ t = m.task /\ space[q] = m.space
      <4>1. space[q].nodes[t] = m.to
        BY Zenon, <1>2, <3>3
      <4>2. pc[q] \in Working \ {"c_ps"}
        BY Zenon, <2>3 DEF Working, DeleteSteps
      <4>3. ASSUME NEW k \in net, k # m PROVE k.to # m.to
        <5>1. k.kind # "ps_create"
          BY Zenon, <1>6, <4>2, NoCreates DEF CallInv, WorkerInv
        <5>2. CASE k.kind = "ps_delete"
          BY Zenon, <1>1, <1>6, <4>3, <5>2 DEF CallInv, Deletes
        <5>3. CASE k.kind # "ps_delete"
          BY Zenon, <1>3, <5>1, <5>3, ConstantsAssumption DEF ServerInv, Routed, PsCall
        <5> QED BY Zenon, <5>2, <5>3
      <4> QED BY Zenon, <1>1, <1>10, <4>1, <4>3 DEF Clean
    <3> QED BY Zenon, <1>9, <2>3, <3>2, <3>3 DEF Awaited
  <2> QED BY Zenon, <1>1, <1>6, <2>1, <2>2, <2>3 DEF SweepInv, Swept
<1> QED BY Zenon, <1>13, <1>14, <1>15, <1>16, <1>17 DEF CallInv

(* The routers take their calls from the network and leave the partition   *)
(* servers alone; a partition server that restarts keeps its space.        *)
LEMMA OthersKeep ==
  ASSUME IInv, ServerInv,
         \/ \E m \in net : RouterAddSpace(m) \/ RouterDeleteSpace(m)
         \/ \E x \in Nodes : PsRestart(x)
  PROVE  ServerInv'
<1>1. /\ net' \subseteq net
      /\ UNCHANGED <<ddlDisabled, pc, space, spaceMata, errNodes, result, psSpace>>
  BY Zenon DEF RouterAddSpace, RouterDeleteSpace, PsRestart, etcd, local
<1>2. \A x \in Nodes : psHasSpace'[x] \in {psHasSpace[x], psSpace[x] # NoSpace}
  BY Zenon DEF RouterAddSpace, RouterDeleteSpace, PsRestart, IInv, TypeInv, TypeOK
<1>3. Flagged' /\ Routed'
  BY Zenon, <1>1, <1>2 DEF ServerInv, Flagged, Routed, PsCall
<1> SUFFICES ASSUME Healthy' PROVE CallInv' /\ SweepInv'
  BY Zenon, <1>3 DEF ServerInv
<1>4. CallInv /\ SweepInv
  BY Zenon, <1>1 DEF ServerInv, Healthy
<1>5. \A x, s : Held(x, s) => Held(x, s)'
  BY Zenon, <1>1 DEF Held
<1>6. LiveHeld' /\ WorkHeld'
  BY Zenon, <1>1, <1>4, <1>5 DEF CallInv, LiveHeld, WorkHeld
<1>7. Deletes' /\ Creates'
  BY Zenon, <1>1, <1>4 DEF CallInv, Deletes, Creates
<1>8. \A x \in Nodes : Clean(x) => Clean(x)'
  BY Zenon, <1>1, <1>2 DEF ServerInv, Flagged, Clean
<1>9. SweepInv'
  <2>1. \A q \in Handlers, t \in Tasks : pc[q] = "d_ps" => space[q].nodes[t] \in Nodes
    BY Zenon DEF IInv, TypeInv, HandlerOK, HasSpace, Space
  <2> QED BY Zenon, <1>1, <1>4, <1>8, <2>1 DEF SweepInv, Swept, Used
<1> QED BY Zenon, <1>6, <1>7, <1>9 DEF CallInv

-----------------------------------------------------------------------------
(* Every step keeps what holds of servers and calls.                       *)
LEMMA ServerNext ==
  ASSUME Serial, IInv, WorkerInv, EtcdInv, ServerInv, [Next]_vars
  PROVE  ServerInv'
<1>1. KeepsWorker
  BY Zenon, WorkerNext DEF IInv, TypeInv
<1>2. CASE Servers
  BY Zenon, <1>2, PsCreateKeeps, PsDeleteKeeps, OthersKeep DEF Servers
<1>3. CASE \E x \in Nodes : PsRestart(x)
  BY Zenon, <1>3, OthersKeep
<1>4. ASSUME NEW p \in Handlers,
             \/ DisableAndCreate(p) \/ CreateAnswered(p) \/ PutMata(p) \/ EnableAndAddRouters(p)
             \/ DeleteMata(p) \/ RoutersDeleted(p) \/ DeleteAnswered(p)
             \/ RedisableAndUndo(p) \/ Panic(p) \/ MasterCrash(p)
      PROVE  ServerInv'
  BY Zenon, <1>1, <1>4, DisableAndCreateKeeps, CreateAnsweredKeeps, PutMataKeepsServers, EnableKeeps,
     DeleteMataKeeps, RoutersDeletedKeeps, DeleteAnsweredKeeps, StopsKeep
<1>5. CASE Calm
  BY Zenon, <1>1, <1>5, CalmKeeps DEF IInv, TypeInv
<1> QED BY Zenon, <1>2, <1>3, <1>4, <1>5, CalmSteps DEF IInv, TypeInv

(* It holds in every reachable state.                                      *)
LEMMA ServerInvariance ==
  ASSUME Serial
  PROVE  Spec => [](IInv /\ WorkerInv /\ EtcdInv /\ ServerInv)
<1>1. Init => ServerInv
  BY Zenon DEF Init, ServerInv, Flagged, Routed, CallInv, LiveHeld, WorkHeld, Deletes, Creates,
         SweepInv, Swept, Clean
<1>2. IInv /\ WorkerInv /\ EtcdInv /\ ServerInv /\ [Next]_vars => ServerInv'
  BY Zenon, ServerNext
<1> QED BY <1>1, <1>2, SerialInvariance, PTL DEF Spec

(* Without contention for the lock, and whatever times out, fails or       *)
(* crashes: while DDL is quiet each replica of a space in etcd is held by  *)
(* its server.                                                             *)
THEOREM SpacesStayBacked ==
  ASSUME Serial
  PROVE  Spec => []MataBacked
<1>1. ServerInv => MataBacked
  BY Zenon DEF ServerInv, Healthy, CallInv, LiveHeld, Held, MataBacked, Quiet
<1> QED BY <1>1, ServerInvariance, PTL

(* The decoding of failed tasks is exact for one partition, for one        *)
(* replica, and for as many partitions as replicas.                        *)
LEMMA ExactDecodings ==
  ASSUME PartitionNum = 1 \/ ReplicaNum = 1 \/ PartitionNum = ReplicaNum
  PROVE  ExactDecoding
<1> SUFFICES ASSUME NEW t \in Tasks, InRange(t)
             PROVE  (t \div PartitionNum) * ReplicaNum + (t % PartitionNum) = t
  BY Zenon DEF ExactDecoding
<1> DEFINE a == t \div PartitionNum
           b == t % PartitionNum
<1>1. /\ a \in Nat /\ b \in Nat /\ t \in Nat /\ a < PartitionNum /\ b < PartitionNum
      /\ t = PartitionNum * a + b /\ t < PartitionNum * ReplicaNum
  BY ConstantsAssumption DEF InRange, Tasks
<1> HIDE DEF a, b
<1>2. CASE PartitionNum = ReplicaNum
  BY <1>1, <1>2, ConstantsAssumption DEF a, b
<1>3. CASE PartitionNum = 1
  <2>1. a = 0
    BY <1>1, <1>3
  <2> QED BY <1>1, <1>3, <2>1, ConstantsAssumption DEF a, b
<1>4. CASE ReplicaNum = 1
  <2>1. PartitionNum * a < PartitionNum
    BY <1>1, <1>4, ConstantsAssumption
  <2>2. a = 0
    BY <1>1, <2>1, ConstantsAssumption
  <2> QED BY <1>1, <1>4, <2>2, ConstantsAssumption DEF a, b
<1> QED BY Zenon, <1>2, <1>3, <1>4

(* Without contention for the lock, when a failed task is decoded to       *)
(* itself: while DDL is quiet a server createSpace would take for idle is  *)
(* empty, and no old call is on its way to it.                             *)
THEOREM IdleServersAreClean ==
  ASSUME Serial, PartitionNum = 1 \/ ReplicaNum = 1 \/ PartitionNum = ReplicaNum
  PROVE  Spec => []IdleIsClean
<1>1. ServerInv => IdleIsClean
  <2> SUFFICES ASSUME ServerInv, Quiet, NEW x \in Nodes \ (errNodes \cup Busy)
               PROVE  Clean(x)
    BY Zenon DEF IdleIsClean, Clean
  <2>1. Swept
    BY Zenon, ExactDecodings DEF ServerInv, Healthy, Quiet, SweepInv
  <2>2. ~Used(x)
    BY DEF Used, Busy, NodesOf, Quiet, Calling
  <2> QED BY Zenon, <2>1, <2>2 DEF Swept
<1> QED BY <1>1, ServerInvariance, PTL
=============================================================================
