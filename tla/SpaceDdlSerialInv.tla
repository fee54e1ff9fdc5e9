------------------------ MODULE SpaceDdlSerialInv ---------------------------
(***************************************************************************)
(* Proofs about SpaceDdl when TryLock always gets the lock in the end, so  *)
(* that deleteSpace, which ignores its failure, holds the lock like        *)
(* createSpace does.  Calls may still time out and be executed late,       *)
(* servers and masters fail and crash, etcd operations fail.               *)
(***************************************************************************)
EXTENDS SpaceDdlProofs

Serial == "contention" \notin Faults

(* One handler at a time is past TryLock.                                  *)
Working == (CreateSteps \cup DeleteSteps) \ {"c_lock", "d_lock"}
OneWorker == \A p \in Handlers : pc[p] \in Working => lock = p

(* The steps around which /cluster/ddl_disabled exists, and those between  *)
(* its check and its put.                                                  *)
Disabling ==
  {"c_ps", "c_redisable", "c_undo", "c_mata", "c_enable",
   "d_mata", "d_router", "d_ps", "d_enable"}
Checked == {"c_nodes", "c_spaces", "c_disable", "d_disable"}
DdlFlag ==
  \A p \in Handlers : /\ pc[p] \in Disabling => ddlDisabled
                      /\ pc[p] \in Checked => ~ddlDisabled
WorkerInv == OneWorker /\ DdlFlag

(* No creation has failed and no master has crashed on the way: DDL is     *)
(* enabled, or a handler that will enable it again is at work.             *)
Hopeful == {"c_ps", "c_mata", "c_enable", "d_mata", "d_router", "d_ps", "d_enable"}
Healthy == ~ddlDisabled \/ \E p \in Handlers : pc[p] \in Hopeful

(* etcd and what the handlers read from it: keys name their spaces, the    *)
(* space a handler works on is the one under its key until it deletes the  *)
(* key, and it was logged before.                                          *)
MataInv ==
  /\ \A n \in Names : spaceMata[n] # NoSpace => spaceMata[n].name = n
  /\ \A p \in Handlers :
       /\ pc[p] \in {"d_check", "d_disable", "d_mata", "c_enable"} =>
            spaceMata[req[p]] = space[p]
       /\ pc[p] \in {"d_mata", "d_router", "d_ps", "d_enable"} => space[p].id \in deletedSpaces
       /\ pc[p] = "d_router" => spaceMata[req[p]] = NoSpace /\ space[p].name = req[p]

(* The tasks of a space are on different nodes.                            *)
Spread(s) == \A t, u \in Tasks : t # u => s.nodes[t] # s.nodes[u]
SpreadInv ==
  /\ \A n \in Names : spaceMata[n] # NoSpace => Spread(spaceMata[n])
  /\ \A p \in Handlers : pc[p] \in Placed \cup {"d_router"} => Spread(space[p])

(* Only deletions fail without leaving DDL disabled for ever.              *)
ErrInv == Healthy => errSpaces \subseteq deletedSpaces

EtcdInv == MataInv /\ SpreadInv /\ ErrInv

-----------------------------------------------------------------------------
(* The servers answer, and calls are given up, without touching etcd or    *)
(* moving a handler on.                                                    *)
LEMMA Elsewhere ==
  ASSUME \/ Servers \/ (\E p \in Handlers : GiveUpCall(p))
         \/ (\E x \in Nodes : PsRestart(x)) \/ UNCHANGED vars
  PROVE  UNCHANGED <<etcd, pc, req, usable, space>>
<1>1. CASE Servers
  BY Zenon, <1>1 DEF Servers, PsCreateSpace, PsDeleteSpace, RouterAddSpace, RouterDeleteSpace
<1>2. CASE \E p \in Handlers : GiveUpCall(p)
  BY Zenon, <1>2 DEF GiveUpCall, Timeout, RouterTimeout
<1> QED BY Zenon, <1>1, <1>2 DEF PsRestart, vars, local

(* Without contention the lock keeps the handlers apart, each finds the    *)
(* flag as it left it, and nothing but a handler that put it removes it.   *)
KeepsWorker == WorkerInv' /\ (Healthy' => Healthy)
LEMMA WorkerNext ==
  ASSUME Serial, TypeOK, WorkerInv, [Next]_vars
  PROVE  KeepsWorker
<1> USE ConstantsAssumption
    DEF TypeOK, WorkerInv, OneWorker, DdlFlag, Healthy, Working, CreateSteps, DeleteSteps, Disabling,
        Checked, Hopeful, Goto, KeepsWorker
<1>1. ASSUME NEW p \in Handlers, NEW n \in Names, StartCreate(p, n) PROVE KeepsWorker
  BY Zenon, <1>1 DEF StartCreate, etcd
<1>2. ASSUME NEW p \in Handlers, NEW n \in Names, StartDelete(p, n) PROVE KeepsWorker
  BY Zenon, <1>2 DEF StartDelete, etcd
<1>3. ASSUME NEW p \in Handlers, TryLock(p) PROVE KeepsWorker
  BY Zenon, <1>3 DEF TryLock
<1>4. ASSUME NEW p \in Handlers, TryLockFails(p) PROVE KeepsWorker
  BY <1>4 DEF TryLockFails, etcd, Serial
<1>5. ASSUME NEW p \in Handlers, CheckDdlDisabled(p) PROVE KeepsWorker
  BY <1>5 DEF CheckDdlDisabled, etcd
<1>6. ASSUME NEW p \in Handlers, ScanNodes(p) PROVE KeepsWorker
  BY Zenon, <1>6 DEF ScanNodes, etcd
<1>7. ASSUME NEW p \in Handlers, ScanSpaces(p) PROVE KeepsWorker
  <2>1. pc' \in {[pc EXCEPT ![p] = "c_disable"], [pc EXCEPT ![p] = "unlock"]} /\ pc[p] = "c_spaces"
    BY Zenon, <1>7 DEF ScanSpaces
  <2>2. UNCHANGED <<lock, ddlDisabled>>
    BY Zenon, <1>7 DEF ScanSpaces
  <2>3. OneWorker'
    BY Zenon, <2>1, <2>2
  <2>4. DdlFlag'
    BY <2>1, <2>2
  <2>5. Healthy' => Healthy
    BY Zenon, <2>1, <2>2
  <2> QED BY Zenon, <2>3, <2>4, <2>5
<1>8. ASSUME NEW p \in Handlers, DisableAndCreate(p) PROVE KeepsWorker
  BY Zenon, <1>8 DEF DisableAndCreate
<1>9. ASSUME NEW p \in Handlers, CreateAnswered(p) PROVE KeepsWorker
  <2>1. pc' \in {[pc EXCEPT ![p] = "c_mata"], [pc EXCEPT ![p] = "c_redisable"]} /\ pc[p] = "c_ps"
    BY Zenon, <1>9 DEF CreateAnswered
  <2>2. UNCHANGED <<lock, ddlDisabled>>
    BY Zenon, <1>9 DEF CreateAnswered
  <2>3. OneWorker'
    BY Zenon, <2>1, <2>2
  <2>4. DdlFlag'
    BY <2>1, <2>2
  <2>5. Healthy' => Healthy
    BY Zenon, <2>1, <2>2
  <2> QED BY Zenon, <2>3, <2>4, <2>5
<1>10. ASSUME NEW p \in Handlers, RedisableAndUndo(p) PROVE KeepsWorker
  BY Zenon, <1>10 DEF RedisableAndUndo
<1>11. ASSUME NEW p \in Handlers, UndoAnswered(p) PROVE KeepsWorker
  BY Zenon, <1>11 DEF UndoAnswered, DisabledAfterUndo
<1>12. ASSUME NEW p \in Handlers, PutMata(p) PROVE KeepsWorker
  BY <1>12 DEF PutMata
<1>13. ASSUME NEW p \in Handlers, EnableAndAddRouters(p) PROVE KeepsWorker
  BY Zenon, <1>13 DEF EnableAndAddRouters
<1>14. ASSUME NEW p \in Handlers, RoutersAdded(p) PROVE KeepsWorker
  BY Zenon, <1>14 DEF RoutersAdded, etcd
<1>15. ASSUME NEW p \in Handlers, ReadMata(p) PROVE KeepsWorker
  <2>1. pc' \in {[pc EXCEPT ![p] = "d_check"], [pc EXCEPT ![p] = "unlock"]} /\ pc[p] = "d_read"
    BY Zenon, <1>15 DEF ReadMata
  <2>2. UNCHANGED <<lock, ddlDisabled>>
    BY Zenon, <1>15 DEF ReadMata, etcd
  <2> QED BY <2>1, <2>2
<1>16. ASSUME NEW p \in Handlers, LogAndDisable(p) PROVE KeepsWorker
  BY Zenon, <1>16 DEF LogAndDisable
<1>17. ASSUME NEW p \in Handlers, DeleteMata(p) PROVE KeepsWorker
  <2>1. pc' \in {[pc EXCEPT ![p] = "d_router"], [pc EXCEPT ![p] = "unlock"]} /\ pc[p] = "d_mata"
    BY Zenon, <1>17 DEF DeleteMata
  <2>2. UNCHANGED <<lock, ddlDisabled>>
    BY Zenon, <1>17 DEF DeleteMata
  <2>3. OneWorker'
    BY Zenon, <2>1, <2>2
  <2>4. DdlFlag'
    BY <2>1, <2>2
  <2>5. Healthy' => Healthy
    BY Zenon, <2>1, <2>2
  <2> QED BY Zenon, <2>3, <2>4, <2>5
<1>18. ASSUME NEW p \in Handlers, RoutersDeleted(p) PROVE KeepsWorker
  BY Zenon, <1>18 DEF RoutersDeleted, etcd
<1>19. ASSUME NEW p \in Handlers, DeleteAnswered(p) PROVE KeepsWorker
  BY Zenon, <1>19 DEF DeleteAnswered
<1>20. ASSUME NEW p \in Handlers, EnableAfterDelete(p) PROVE KeepsWorker
  BY Zenon, <1>20 DEF EnableAfterDelete
<1>21. ASSUME NEW p \in Handlers, Panic(p) PROVE KeepsWorker
  BY Zenon, <1>21 DEF Panic, etcd
<1>22. ASSUME NEW p \in Handlers, UnlockAndClose(p) PROVE KeepsWorker
  BY Zenon, <1>22 DEF UnlockAndClose
<1>23. ASSUME NEW p \in Handlers, SessionExpires(p) PROVE KeepsWorker
  BY Zenon, <1>23 DEF SessionExpires
<1>24. ASSUME NEW p \in Handlers, MasterCrash(p) PROVE KeepsWorker
  BY Zenon, <1>24 DEF MasterCrash, etcd
<1>25. CASE UNCHANGED <<etcd, pc, req, usable, space>>
  BY Zenon, <1>25 DEF etcd
<1> HIDE DEF TypeOK, WorkerInv, KeepsWorker
<1> QED
  BY Zenon, <1>1, <1>2, <1>3, <1>4, <1>5, <1>6, <1>7, <1>8, <1>9, <1>10, <1>11, <1>12, <1>13, <1>14, <1>15, <1>16, <1>17, <1>18, <1>19, <1>20, <1>21, <1>22, <1>23, <1>24, <1>25, Elsewhere
     DEF Next, Run, Lock, CreateSpace, DeleteSpace

(* A step of the working handler after which DDL is still disabled, and    *)
(* that does not lead to its enabling, leaves it disabled for ever.        *)
LEMMA Hopeless ==
  ASSUME TypeOK, OneWorker, NEW p \in Handlers, pc[p] \in Working, ddlDisabled',
         NEW step \in Steps \ Hopeful, pc' = [pc EXCEPT ![p] = step]
  PROVE  ~Healthy'
<1> SUFFICES ASSUME NEW q \in Handlers, pc'[q] \in Hopeful PROVE FALSE
  BY Zenon DEF Healthy
<1>1. q # p /\ pc'[q] = pc[q]
  BY Zenon DEF TypeOK
<1>2. pc[q] \in Working
  BY Zenon, <1>1 DEF Working, Hopeful, CreateSteps, DeleteSteps
<1> QED BY Zenon, <1>1, <1>2 DEF OneWorker

(* Every step keeps what etcd holds and what the handlers know of it.      *)
LEMMA EtcdNext ==
  ASSUME Serial, IInv, WorkerInv, EtcdInv, KeepsWorker, [Next]_vars
  PROVE  EtcdInv'
<1> USE DEF IInv, TypeInv, TypeOK, HandlerOK, PlacementInv, PlacementIsFree, IdsHandedOut, Asked, HasSpace, Placed,
        WorkerInv, OneWorker, Working, CreateSteps, DeleteSteps, KeepsWorker,
        EtcdInv, MataInv, SpreadInv, ErrInv, Goto
<1>1. ASSUME NEW p \in Handlers, NEW n \in Names, StartCreate(p, n) PROVE EtcdInv'
  BY Zenon, <1>1 DEF StartCreate, etcd
<1>2. ASSUME NEW p \in Handlers, NEW n \in Names, StartDelete(p, n) PROVE EtcdInv'
  BY Zenon, <1>2 DEF StartDelete, etcd
<1>3. ASSUME NEW p \in Handlers, TryLock(p) PROVE EtcdInv'
  BY Zenon, <1>3 DEF TryLock, local
<1>4. ASSUME NEW p \in Handlers, TryLockFails(p) PROVE EtcdInv'
  BY <1>4 DEF TryLockFails, etcd, local, Serial
<1>5. ASSUME NEW p \in Handlers, CheckDdlDisabled(p) PROVE EtcdInv'
  BY <1>5 DEF CheckDdlDisabled, etcd, local
<1>6. ASSUME NEW p \in Handlers, ScanNodes(p) PROVE EtcdInv'
  BY Zenon, <1>6 DEF ScanNodes, etcd
<1>7. ASSUME NEW p \in Handlers, ScanSpaces(p) PROVE EtcdInv'
  <2>1. MataInv'
    BY <1>7 DEF ScanSpaces
  <2>2. CASE UNCHANGED space /\ pc' = [pc EXCEPT ![p] = "unlock"]
    BY Zenon, <1>7, <2>1, <2>2 DEF ScanSpaces
  <2>3. ASSUME NEW f \in Placements(Idle(p)),
               space' = [space EXCEPT ![p] = [name |-> req[p], id |-> NewIDGenerate, nodes |-> f]]
        PROVE  EtcdInv'
    <3>1. Spread(space'[p])
      BY Zenon, <2>3 DEF Spread, Placements
    <3>2. SpreadInv'
      BY Zenon, <1>7, <2>3, <3>1 DEF ScanSpaces
    <3>3. ErrInv'
      BY Zenon, <1>7 DEF ScanSpaces
    <3> QED BY Zenon, <2>1, <3>2, <3>3
  <2> QED BY Zenon, <1>7, <2>2, <2>3 DEF ScanSpaces
<1>8. ASSUME NEW p \in Handlers, DisableAndCreate(p) PROVE EtcdInv'
  BY Zenon, <1>8 DEF DisableAndCreate
<1>9. ASSUME NEW p \in Handlers, CreateAnswered(p) PROVE EtcdInv'
  <2>1. MataInv' /\ SpreadInv'
    BY <1>9 DEF CreateAnswered, local
  <2>2. CASE UNCHANGED errSpaces
    BY Zenon, <1>9, <2>1, <2>2 DEF CreateAnswered
  <2>3. CASE pc' = [pc EXCEPT ![p] = "c_redisable"]
    <3>1. ddlDisabled' /\ pc[p] \in Working
      BY Zenon, <1>9 DEF CreateAnswered, DdlFlag, Disabling
    <3>2. ~Healthy'
      BY Zenon, <2>3, <3>1, Hopeless DEF Steps, Hopeful
    <3> QED BY Zenon, <2>1, <3>2
  <2> QED BY Zenon, <1>9, <2>2, <2>3 DEF CreateAnswered
<1>10. ASSUME NEW p \in Handlers, RedisableAndUndo(p) PROVE EtcdInv'
  BY Zenon, <1>10 DEF RedisableAndUndo
<1>11. ASSUME NEW p \in Handlers, UndoAnswered(p) PROVE EtcdInv'
  BY Zenon, <1>11 DEF UndoAnswered, local
<1>12. ASSUME NEW p \in Handlers, PutMata(p) PROVE EtcdInv'
  <2>1. pc[p] = "c_mata" /\ lock = p /\ req[p] \in Names /\ space[p].name = req[p] /\ Spread(space[p])
    BY Zenon, <1>12 DEF PutMata
  <2>2. spaceMata' \in {spaceMata, [spaceMata EXCEPT ![req[p]] = space[p]]} /\ UNCHANGED <<req, space, deletedSpaces>>
    BY Zenon, <1>12 DEF PutMata
  <2>3. pc' \in {[pc EXCEPT ![p] = "c_enable"], [pc EXCEPT ![p] = "c_undo"]}
    BY Zenon, <1>12 DEF PutMata
  <2>4. \A q \in Handlers : q # p => pc'[q] = pc[q] /\ pc[q] \notin Working
    BY Zenon, <2>1, <2>3
  <2>5. pc'[p] = "c_enable" => spaceMata'[req[p]] = space[p]
    BY Zenon, <1>12 DEF PutMata
  <2>6. MataInv'
    <3>1. \A n \in Names : spaceMata'[n] # NoSpace => spaceMata'[n].name = n
      BY <2>1, <2>2
    <3>2. \A q \in Handlers : q # p => pc'[q] \notin Working
      BY ONLY Zenon, <2>4
    <3>3. pc'[p] \in {"c_enable", "c_undo"}
      BY ONLY Zenon, TypeOK, <2>3 DEF TypeOK
    <3> QED BY ONLY Zenon, <2>2, <2>5, <3>1, <3>2, <3>3 DEF MataInv, Working, CreateSteps, DeleteSteps
  <2>7. SpreadInv'
    <3>1. \A n \in Names : spaceMata'[n] # NoSpace => Spread(spaceMata'[n])
      BY Zenon, <2>1, <2>2
    <3>2. \A q \in Handlers : pc'[q] \notin Placed \cup {"d_router"}
      BY <2>1, <2>3, <2>4
    <3> QED BY Zenon, <3>1, <3>2
  <2>8. ErrInv'
    <3>1. CASE UNCHANGED errSpaces
      BY Zenon, <2>2, <3>1
    <3>2. CASE pc' = [pc EXCEPT ![p] = "c_undo"]
      <4>1. ddlDisabled' /\ pc[p] \in Working
        BY Zenon, <1>12 DEF PutMata, DdlFlag, Disabling
      <4> QED BY Zenon, <3>2, <4>1, Hopeless DEF Steps, Hopeful
    <3> QED BY Zenon, <1>12, <3>1, <3>2 DEF PutMata
  <2> QED BY Zenon, <2>6, <2>7, <2>8
<1>13. ASSUME NEW p \in Handlers, EnableAndAddRouters(p) PROVE EtcdInv'
  BY Zenon, <1>13 DEF EnableAndAddRouters
<1>14. ASSUME NEW p \in Handlers, RoutersAdded(p) PROVE EtcdInv'
  BY Zenon, <1>14 DEF RoutersAdded, etcd, local
<1>15. ASSUME NEW p \in Handlers, ReadMata(p) PROVE EtcdInv'
  <2>1. UNCHANGED <<etcd, req>> /\ pc[p] = "d_read" /\ req[p] \in Names
    BY Zenon, <1>15 DEF ReadMata
  <2>2. CASE space' = [space EXCEPT ![p] = spaceMata[req[p]]] /\ pc' = [pc EXCEPT ![p] = "d_check"]
    BY Zenon, <2>1, <2>2 DEF etcd
  <2>3. CASE UNCHANGED space /\ pc' = [pc EXCEPT ![p] = "unlock"]
    BY Zenon, <2>1, <2>3 DEF etcd
  <2> QED BY Zenon, <1>15, <2>2, <2>3 DEF ReadMata
<1>16. ASSUME NEW p \in Handlers, LogAndDisable(p) PROVE EtcdInv'
  BY Zenon, <1>16 DEF LogAndDisable, local
<1>17. ASSUME NEW p \in Handlers, DeleteMata(p) PROVE EtcdInv'
  <2>1. pc[p] = "d_mata" /\ lock = p /\ req[p] \in Names /\ spaceMata[req[p]] = space[p]
    BY Zenon, <1>17 DEF DeleteMata
  <2>2. spaceMata' \in {spaceMata, [spaceMata EXCEPT ![req[p]] = NoSpace]} /\ UNCHANGED <<req, space, deletedSpaces>>
    BY Zenon, <1>17 DEF DeleteMata
  <2>3. pc' \in {[pc EXCEPT ![p] = "d_router"], [pc EXCEPT ![p] = "unlock"]}
    BY Zenon, <1>17 DEF DeleteMata
  <2>4. \A q \in Handlers : q # p => pc'[q] = pc[q] /\ pc[q] \notin Working
    BY Zenon, <2>1, <2>3
  <2>5. pc'[p] = "d_router" => spaceMata'[req[p]] = NoSpace /\ spaceMata[req[p]] # NoSpace
    BY Zenon, <1>17 DEF DeleteMata
  <2>6. \A n \in Names : spaceMata'[n] # NoSpace => spaceMata'[n] = spaceMata[n]
    BY Zenon, <2>1, <2>2
  <2>7. /\ \A q \in Handlers : q # p => pc'[q] \notin Working
        /\ pc'[p] \in {"d_router", "unlock"}
    BY ONLY Zenon, TypeOK, <2>3, <2>4 DEF TypeOK
  <2>8. space[p].id \in deletedSpaces /\ (spaceMata[req[p]] # NoSpace => space[p].name = req[p] /\ Spread(space[p]))
    BY Zenon, <2>1
  <2>9. MataInv'
    BY ONLY MataInv, <2>2, <2>5, <2>6, <2>7, <2>8 DEF MataInv, Working, CreateSteps, DeleteSteps
  <2>10. SpreadInv'
    BY ONLY Zenon, SpreadInv, <2>2, <2>5, <2>6, <2>7, <2>8 DEF SpreadInv, Working, CreateSteps, DeleteSteps, Placed
  <2>11. ErrInv'
    <3>1. CASE UNCHANGED errSpaces
      BY Zenon, <2>2, <3>1
    <3>2. CASE pc' = [pc EXCEPT ![p] = "unlock"]
      <4>1. ddlDisabled' /\ pc[p] \in Working
        BY Zenon, <1>17 DEF DeleteMata, DdlFlag, Disabling
      <4> QED BY Zenon, <3>2, <4>1, Hopeless DEF Steps, Hopeful
    <3> QED BY Zenon, <1>17, <3>1, <3>2 DEF DeleteMata
  <2> QED BY Zenon, <2>9, <2>10, <2>11
<1>18. ASSUME NEW p \in Handlers, RoutersDeleted(p) PROVE EtcdInv'
  BY Zenon, <1>18 DEF RoutersDeleted, etcd
<1>19. ASSUME NEW p \in Handlers, DeleteAnswered(p) PROVE EtcdInv'
  <2>1. MataInv' /\ SpreadInv'
    BY Zenon, <1>19 DEF DeleteAnswered, local
  <2>2. errSpaces' \subseteq errSpaces \cup {space[p].id} /\ space[p].id \in deletedSpaces
    BY Zenon, <1>19 DEF DeleteAnswered, PutErrSpace
  <2>3. deletedSpaces' = deletedSpaces
    BY Zenon, <1>19 DEF DeleteAnswered
  <2> QED BY Zenon, <2>1, <2>2, <2>3
<1>20. ASSUME NEW p \in Handlers, EnableAfterDelete(p) PROVE EtcdInv'
  BY Zenon, <1>20 DEF EnableAfterDelete, local
<1>21. ASSUME NEW p \in Handlers, Panic(p) PROVE EtcdInv'
  BY Zenon, <1>21 DEF Panic, etcd, local
<1>22. ASSUME NEW p \in Handlers, UnlockAndClose(p) PROVE EtcdInv'
  BY Zenon, <1>22 DEF UnlockAndClose, Forget
<1>23. ASSUME NEW p \in Handlers, SessionExpires(p) PROVE EtcdInv'
  BY Zenon, <1>23 DEF SessionExpires, local
<1>24. ASSUME NEW p \in Handlers, MasterCrash(p) PROVE EtcdInv'
  BY Zenon, <1>24 DEF MasterCrash, etcd, Forget
<1>25. CASE UNCHANGED <<etcd, pc, req, usable, space>>
  BY Zenon, <1>25 DEF etcd
<1> HIDE DEF IInv, WorkerInv, EtcdInv, KeepsWorker
<1> QED
  BY Zenon, <1>1, <1>2, <1>3, <1>4, <1>5, <1>6, <1>7, <1>8, <1>9, <1>10, <1>11, <1>12, <1>13, <1>14, <1>15, <1>16, <1>17, <1>18, <1>19, <1>20, <1>21, <1>22, <1>23, <1>24, <1>25, Elsewhere
     DEF Next, Run, Lock, CreateSpace, DeleteSpace

(* Nobody else works while a handler does.                                 *)
LEMMA Alone ==
  ASSUME OneWorker, NEW p \in Handlers, pc[p] \in Working, NEW q \in Handlers, pc[q] \in Working
  PROVE  q = p
  BY Zenon DEF OneWorker

(* Both invariants hold in every reachable state.                          *)
LEMMA SerialInvariance ==
  ASSUME Serial
  PROVE  Spec => [](IInv /\ WorkerInv /\ EtcdInv)
<1>1. Init => WorkerInv /\ EtcdInv
  BY DEF Init, WorkerInv, OneWorker, DdlFlag, Working, CreateSteps, DeleteSteps, Disabling, Checked,
         EtcdInv, MataInv, SpreadInv, ErrInv, Placed
<1>2. IInv /\ WorkerInv /\ EtcdInv /\ [Next]_vars => WorkerInv' /\ EtcdInv'
  BY Zenon, WorkerNext, EtcdNext DEF KeepsWorker, IInv, TypeInv
<1> QED BY <1>1, <1>2, Invariance, PTL DEF Spec

(* Without contention for the lock, a space that failed to be created      *)
(* leaves DDL disabled for ever.                                           *)
THEOREM FailedCreationsLockDdl ==
  ASSUME Serial
  PROVE  Spec => []CreateFailureLocksDdl
<1>1. EtcdInv => CreateFailureLocksDdl
  BY Zenon DEF EtcdInv, ErrInv, Healthy, CreateFailureLocksDdl
<1> QED BY <1>1, SerialInvariance, PTL

(* A step takes from /spaces/mata only a space whose very id was logged    *)
(* before: deleteSpace deletes what it read, and createSpace overwrites    *)
(* nothing.                                                                *)
LEMMA LoggedFirst ==
  ASSUME IInv, EtcdInv, [Next]_vars, NEW n \in Names,
         spaceMata[n] # NoSpace, spaceMata'[n] # spaceMata[n]
  PROVE  spaceMata[n].id \in deletedSpaces
<1> USE DEF IInv, TypeInv, TypeOK, HandlerOK, Asked
<1>1. ASSUME NEW p \in Handlers, PutMata(p) PROVE FALSE
  <2>1. pc[p] = "c_mata" /\ req[p] \in Names
    BY Zenon, <1>1 DEF PutMata, CreateSteps
  <2>2. spaceMata[req[p]] = NoSpace
    BY Zenon, <2>1 DEF PlacementInv, PlacementIsFree
  <2> QED BY Zenon, <1>1, <2>1, <2>2 DEF PutMata
<1>2. ASSUME NEW p \in Handlers, DeleteMata(p) PROVE spaceMata[n].id \in deletedSpaces
  <2>1. pc[p] = "d_mata" /\ req[p] \in Names
    BY Zenon, <1>2 DEF DeleteMata, DeleteSteps
  <2>2. spaceMata[req[p]] = space[p] /\ space[p].id \in deletedSpaces
    BY Zenon, <2>1 DEF EtcdInv, MataInv
  <2> QED BY Zenon, <1>2, <2>1, <2>2 DEF DeleteMata
<1> QED BY Zenon, <1>1, <1>2, OthersKeepMata

(* Without contention for the lock, a space leaves /spaces/mata only after *)
(* its very id was logged under /deleted_spaces.                           *)
THEOREM DropsAreLogged ==
  ASSUME Serial
  PROVE  Spec => DropIsLogged
<1> DEFINE Logged ==
      \A n \in Names : spaceMata[n] # NoSpace /\ spaceMata'[n] # spaceMata[n] =>
        spaceMata[n].id \in deletedSpaces
<1>1. IInv /\ EtcdInv /\ [Next]_vars => [Logged]_vars
  BY Zenon, LoggedFirst
<1> QED BY <1>1, SerialInvariance, PTL DEF Spec, DropIsLogged

-----------------------------------------------------------------------------
(* The creation of a space was committed to etcd; it may have been deleted *)
(* since.  This is so for what the routers serve, and for the creations on *)
(* their way to them.                                                      *)
Committed(n, id) ==
  id \in deletedSpaces \/ (spaceMata[n] # NoSpace /\ spaceMata[n].id = id)
RouterInv ==
  /\ \A r \in Routers, n \in Names : routerSpaces[r][n] # 0 => Committed(n, routerSpaces[r][n])
  /\ \A m \in net : m.kind = "router_create" => Committed(m.space.name, m.space.id)

(* The log of deletions only grows, and only createSpace, when it has      *)
(* enabled DDL, adds creations to those on their way to routers.           *)
LEMMA RouterFrame ==
  ASSUME [Next]_vars
  PROVE  /\ deletedSpaces \subseteq deletedSpaces'
         /\ \/ Servers
            \/ \E p \in Handlers : EnableAndAddRouters(p)
            \/ /\ UNCHANGED routerSpaces
               /\ \A m \in net' : m.kind = "router_create" => m \in net
<1> DEFINE Kept ==
      /\ deletedSpaces \subseteq deletedSpaces'
      /\ UNCHANGED routerSpaces
      /\ \A m \in net' : m.kind = "router_create" => m \in net
<1>1. ASSUME NEW p \in Handlers, NEW n \in Names, StartCreate(p, n) \/ StartDelete(p, n) PROVE Kept
  BY Zenon, <1>1 DEF StartCreate, StartDelete, etcd, servers
<1>2. ASSUME NEW p \in Handlers, Lock(p) \/ CheckDdlDisabled(p) \/ Panic(p) \/ UnlockAndClose(p) PROVE Kept
  BY Zenon, <1>2 DEF Lock, TryLock, TryLockFails, CheckDdlDisabled, Panic, UnlockAndClose, etcd, servers
<1>3. ASSUME NEW p \in Handlers,
             ScanNodes(p) \/ ScanSpaces(p) \/ CreateAnswered(p) \/ UndoAnswered(p) \/ RoutersAdded(p)
      PROVE  Kept
  BY Zenon, <1>3 DEF ScanNodes, ScanSpaces, CreateAnswered, UndoAnswered, RoutersAdded, etcd, servers
<1>4. ASSUME NEW p \in Handlers, DisableAndCreate(p) \/ RedisableAndUndo(p) \/ PutMata(p) PROVE Kept
  BY <1>4 DEF DisableAndCreate, RedisableAndUndo, PutMata, Calls, servers
<1>5. ASSUME NEW p \in Handlers, DeleteSpace(p) PROVE Kept
  <2>1. CASE ReadMata(p) \/ DeleteAnswered(p) \/ EnableAfterDelete(p)
    BY Zenon, <2>1 DEF ReadMata, DeleteAnswered, EnableAfterDelete, etcd, servers
  <2>2. CASE LogAndDisable(p)
    BY Zenon, <2>2 DEF LogAndDisable, servers
  <2>3. CASE DeleteMata(p) \/ RoutersDeleted(p)
    BY <2>3 DEF DeleteMata, RoutersDeleted, Calls, RouterCalls, etcd, servers
  <2> QED BY Zenon, <1>5, <2>1, <2>2, <2>3 DEF DeleteSpace
<1>6. ASSUME NEW p \in Handlers, EnableAndAddRouters(p) PROVE deletedSpaces' = deletedSpaces
  BY Zenon, <1>6 DEF EnableAndAddRouters
<1>7. ASSUME NEW p \in Handlers, GiveUpCall(p) \/ SessionExpires(p) \/ MasterCrash(p) PROVE Kept
  BY Zenon, <1>7 DEF GiveUpCall, Timeout, RouterTimeout, SessionExpires, MasterCrash, etcd, servers
<1>8. ASSUME NEW x \in Nodes, PsRestart(x) PROVE Kept
  BY Zenon, <1>8 DEF PsRestart, etcd
<1>9. CASE UNCHANGED vars
  BY Zenon, <1>9 DEF vars, etcd, servers
<1>10. CASE Servers
  BY Zenon, <1>10, Elsewhere DEF etcd
<1> QED BY Zenon, <1>1, <1>2, <1>3, <1>4, <1>5, <1>6, <1>7, <1>8, <1>9, <1>10 DEF Next, Run, CreateSpace

(* Every step keeps RouterInv: createSpace tells the routers of a space    *)
(* that is in etcd, and what was committed stays so.                       *)
LEMMA RouterNext ==
  ASSUME IInv, EtcdInv, RouterInv, [Next]_vars
  PROVE  RouterInv'
<1>1. ASSUME NEW n \in Names, NEW id, Committed(n, id) PROVE Committed(n, id)'
  BY Zenon, <1>1, LoggedFirst, RouterFrame DEF Committed
<1>2. /\ \A r \in Routers, n \in Names, id \in Nat \ {0} :
             routerSpaces[r][n] = id => Committed(n, id)'
      /\ \A m \in net : m.kind = "router_create" => Committed(m.space.name, m.space.id)'
  BY Zenon, <1>1 DEF RouterInv, IInv, TypeInv, TypeOK, Message, Space
<1>3. routerSpaces \in [Routers -> [Names -> Nat]]
  BY Zenon DEF IInv, TypeInv, TypeOK
<1>4. ASSUME NEW r \in Routers, NEW n \in Names, routerSpaces'[r][n] # 0,
             routerSpaces'[r][n] = routerSpaces[r][n]
      PROVE  Committed(n, routerSpaces[r][n])'
  BY <1>2, <1>3, <1>4 DEF Committed
<1>5. CASE Servers
  <2>1. PICK m \in net : PsCreateSpace(m) \/ PsDeleteSpace(m) \/ RouterAddSpace(m) \/ RouterDeleteSpace(m)
    BY Zenon, <1>5 DEF Servers
  <2>2. net' \subseteq net
    BY Zenon, <2>1 DEF PsCreateSpace, PsDeleteSpace, RouterAddSpace, RouterDeleteSpace
  <2>3. ASSUME NEW r \in Routers, NEW n \in Names, routerSpaces'[r][n] # 0
        PROVE  \/ routerSpaces'[r][n] = routerSpaces[r][n]
               \/ m.kind = "router_create" /\ n = m.space.name /\ routerSpaces'[r][n] = m.space.id
    <3>1. CASE PsCreateSpace(m) \/ PsDeleteSpace(m)
      BY Zenon, <3>1 DEF PsCreateSpace, PsDeleteSpace
    <3>2. CASE RouterAddSpace(m)
      BY Zenon, <1>3, <2>3, <3>2 DEF RouterAddSpace
    <3>3. CASE RouterDeleteSpace(m)
      BY Zenon, <1>3, <2>3, <3>3 DEF RouterDeleteSpace
    <3> QED BY Zenon, <2>1, <3>1, <3>2, <3>3
  <2>4. ASSUME NEW r \in Routers, NEW n \in Names, routerSpaces'[r][n] # 0
        PROVE  Committed(n, routerSpaces[r][n])'
    BY <1>2, <1>4, <2>3, <2>4 DEF Committed
  <2> QED BY Zenon, <1>2, <2>2, <2>4 DEF RouterInv
<1>6. ASSUME NEW p \in Handlers, EnableAndAddRouters(p) PROVE RouterInv'
  <2>1. pc[p] = "c_enable" /\ routerSpaces' = routerSpaces /\ space' = space
    BY Zenon, <1>6 DEF EnableAndAddRouters, servers
  <2>2. spaceMata[req[p]] = space[p] /\ req[p] \in Names /\ space[p] \in Space
    BY Zenon, <2>1 DEF IInv, TypeInv, HandlerOK, Asked, HasSpace, CreateSteps, EtcdInv, MataInv
  <2>3. space[p].name = req[p] /\ Committed(req[p], space[p].id)
    BY <2>2, ConstantsAssumption DEF EtcdInv, MataInv, Committed
  <2>4. Committed(space[p].name, space[p].id)'
    BY Zenon, <1>1, <1>6, <2>2, <2>3 DEF Committed, EnableAndAddRouters
  <2>5. \A m \in net' : m \in net \/ m.space = space[p]
    BY <1>6 DEF EnableAndAddRouters, RouterCalls
  <2> QED BY Zenon, <1>2, <1>4, <2>1, <2>4, <2>5 DEF RouterInv
<1>7. ASSUME UNCHANGED routerSpaces, \A m \in net' : m.kind = "router_create" => m \in net
      PROVE  RouterInv'
  BY Zenon, <1>2, <1>4, <1>7 DEF RouterInv
<1> QED BY Zenon, <1>5, <1>6, <1>7, RouterFrame

(* Without contention for the lock a router serves only spaces whose       *)
(* creation was committed to etcd, however late it is told.                *)
THEOREM RoutersServeCommitted ==
  ASSUME Serial
  PROVE  Spec => []RouterServesCommitted
<1>1. Init => RouterInv
  BY DEF Init, RouterInv
<1>2. IInv /\ EtcdInv /\ RouterInv /\ [Next]_vars => RouterInv'
  BY Zenon, RouterNext
<1>3. RouterInv => RouterServesCommitted
  BY Zenon DEF RouterInv, Committed, RouterServesCommitted
<1> QED BY <1>1, <1>2, <1>3, SerialInvariance, PTL DEF Spec
=============================================================================
