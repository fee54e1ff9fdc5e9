---------------------------- MODULE RouterSpaces ----------------------------
(* The table of spaces of one router process: the slots _spaces_conn, the  *)
(* bucket index _space_idx_mp, the list LocalSpaces with its file, the     *)
(* start SpaceManager::Init, and the rpc threads that add, delete and look *)
(* up spaces beside it.  Writers hold SpaceManager::_mtx; lookups take no  *)
(* lock, and DeleteSpace changes LocalSpaces before it takes the lock.     *)
(*                                                                         *)
(* Slots are numbered from 1, and 0 is the index -1 of the code.  A bucket *)
(* holds at most one cell per key, and a cell with index -1 behaves like   *)
(* no cell, so the buckets are one function from keys to indices.          *)
EXTENDS Integers, Sequences, FiniteSets, Functions

CONSTANTS
  Keys,         \* keys of spaces, GenSpaceKey(db_name, space_name)
  Threads,      \* rpc threads of the router
  Main,         \* the thread that runs main and SpaceManager::Init
  NoThread,     \* _mtx is free
  Null,         \* nullptr in a slot, no key, no result
  Bucket,       \* the bucket of a key, StrHashUint64(key) % 500
  MaxSpaceNum,  \* slots reserved by Init
  MaxChanges    \* bound on the changes of /spaces/mata

ASSUME RouterAssumption ==
  /\ MaxSpaceNum \in Nat \ {0}
  /\ MaxChanges \in Nat
  /\ Main # NoThread
  /\ Main \notin Threads
  /\ NoThread \notin Threads
  /\ DOMAIN Bucket = Keys
  /\ Null \notin Keys

(* A request of a master that has not yet been taken by a thread.          *)
Call == [kind : {"add", "delete"}, key : Keys]

VARIABLES
  mata,     \* the spaces in etcd under /spaces/mata
  changes,  \* how often mata has changed
  calls,    \* requests under way to this router
  phase,    \* where main is
  capacity, \* _spaces_conn.capacity()
  infos,    \* spaces_info of Init
  loaded,   \* how many of infos Init has added
  conns,    \* _spaces_conn
  index,    \* _space_idx_mp
  local,    \* _pb_spaces of LocalSpaces
  file,     \* local_spaces.json; empty when missing or not parseable
  mtx,      \* the holder of SpaceManager::_mtx
  pc, arg, slot, \* per thread: next step, key, slot index
  early,    \* history: a slot was appended before Init had filled the table
  gone      \* history: the key a thread looks up was deleted since

etcdVars == <<mata, changes>>
mainVars == <<phase, capacity, infos, loaded>>
threadVars == <<pc, arg, slot>>
vars == <<etcdVars, calls, mainVars, conns, index, local, file, mtx,
          threadVars, early, gone>>

Steps == {"idle", "a_index", "a_local", "d_save", "d_index", "d_slot", "g_slot"}

Init ==
  /\ mata = {} /\ changes = 0 /\ calls = {}
  /\ phase = "off" /\ capacity = 0 /\ infos = <<>> /\ loaded = 0
  /\ conns = <<>>
  /\ index = [k \in Keys |-> 0]
  /\ local = <<>> /\ file = <<>>
  /\ mtx = NoThread
  /\ pc = [t \in Threads |-> "idle"]
  /\ arg = [t \in Threads |-> Null]
  /\ slot = [t \in Threads |-> 0]
  /\ early = FALSE
  /\ gone = [t \in Threads |-> FALSE]

-----------------------------------------------------------------------------
(* The index, OneWriterMultiReaderMap.                                     *)

(* Put refuses a key when any cell of its bucket is live, whatever its     *)
(* key.  Its callers do not look at the result.                            *)
BucketTaken(k) == \E j \in Keys : Bucket[j] = Bucket[k] /\ index[j] # 0

Put(k, i) == IF BucketTaken(k) THEN index ELSE [index EXCEPT ![k] = i]

(* A Delete that leaves the cell as it is.                                 *)
KeepIndex(k) == index

Delete(k) == [index EXCEPT ![k] = 0]

-----------------------------------------------------------------------------
(* The masters: spaces come and go in etcd.  A router that is registered   *)
(* at the time is sent the change, by a call that may be late or lost.     *)

CreateInEtcd ==
  \E k \in Keys \ mata :
    /\ changes < MaxChanges
    /\ changes' = changes + 1
    /\ mata' = mata \cup {k}
    /\ calls' \in {calls, calls \cup {[kind |-> "add", key |-> k]}}
    /\ UNCHANGED <<mainVars, conns, index, local, file, mtx, threadVars, early, gone>>

DeleteInEtcd ==
  \E k \in mata :
    /\ changes < MaxChanges
    /\ changes' = changes + 1
    /\ mata' = mata \ {k}
    /\ calls' \in {calls, calls \cup {[kind |-> "delete", key |-> k]}}
    /\ UNCHANGED <<mainVars, conns, index, local, file, mtx, threadVars, early, gone>>

-----------------------------------------------------------------------------
(* main: the rpc server serves before SpaceManager::Init has run, and the  *)
(* lease of an earlier incarnation may still announce the router.          *)

StartServer ==
  /\ phase = "off"
  /\ phase' = "scan"
  /\ UNCHANGED <<etcdVars, calls, capacity, infos, loaded, conns, index, local, file,
                 mtx, threadVars, early, gone>>

(* Init reserves the slots and reads the spaces from etcd, in key order.   *)
(* When etcd has none it takes the saved list.                             *)
ScanEtcd ==
  /\ phase = "scan"
  /\ phase' = "lock"
  /\ capacity' = MaxSpaceNum
  /\ IF mata = {}
       THEN infos' = file /\ UNCHANGED file
       ELSE /\ infos' \in Bijection(1..Cardinality(mata), mata)
            /\ file' = infos'
  /\ local' = infos'
  /\ UNCHANGED <<etcdVars, calls, loaded, conns, index, mtx, threadVars, early, gone>>

LockForLoad ==
  /\ phase = "lock"
  /\ mtx = NoThread
  /\ mtx' = Main
  /\ phase' = "load"
  /\ UNCHANGED <<etcdVars, calls, capacity, infos, loaded, conns, index, local, file,
                 threadVars, early, gone>>

(* One turn of the loop of Init: the connection goes to the end of the     *)
(* slots, but its index is counted from the start.  A vector that outgrows *)
(* its capacity doubles it.                                                *)
LoadSpace ==
  /\ phase = "load"
  /\ loaded < Len(infos)
  /\ loaded' = loaded + 1
  /\ conns' = Append(conns, infos[loaded + 1])
  /\ index' = Put(infos[loaded + 1], loaded + 1)
  /\ capacity' = IF Len(conns) = capacity THEN 2 * capacity ELSE capacity
  /\ UNCHANGED <<etcdVars, calls, phase, infos, local, file, mtx, threadVars, early,
                 gone>>

FinishLoad ==
  /\ phase = "load"
  /\ loaded = Len(infos)
  /\ phase' = "serve"
  /\ infos' = <<>> /\ loaded' = 0
  /\ mtx' = NoThread
  /\ UNCHANGED <<etcdVars, calls, capacity, conns, index, local, file,
                 threadVars, early, gone>>

(* The process ends: it is killed, or main returns because the scan of     *)
(* etcd failed.  A list that is being saved may be cut off.                *)
Saving ==
  \/ phase = "scan" /\ mata # {}
  \/ \E t \in Threads : pc[t] \in {"a_local", "d_save"}

Stop ==
  /\ phase # "off"
  /\ phase' = "off" /\ capacity' = 0 /\ infos' = <<>> /\ loaded' = 0
  /\ conns' = <<>>
  /\ index' = [k \in Keys |-> 0]
  /\ local' = <<>>
  /\ \/ file' = file
     \/ Saving /\ file' = <<>>
  /\ mtx' = NoThread
  /\ pc' = [t \in Threads |-> "idle"]
  /\ arg' = [t \in Threads |-> Null]
  /\ slot' = [t \in Threads |-> 0]
  /\ early' = FALSE
  /\ gone' = [t \in Threads |-> FALSE]
  /\ UNCHANGED <<etcdVars, calls>>

-----------------------------------------------------------------------------
(* The rpc threads.                                                        *)

Serving == phase # "off"

Take(t, k, step) ==
  /\ pc[t] = "idle"
  /\ Serving
  /\ pc' = [pc EXCEPT ![t] = step]
  /\ arg' = [arg EXCEPT ![t] = k]

Goto(t, step) == pc' = [pc EXCEPT ![t] = step] /\ UNCHANGED arg

(* The request is answered.                                                *)
Return(t) ==
  /\ pc' = [pc EXCEPT ![t] = "idle"]
  /\ arg' = [arg EXCEPT ![t] = Null]
  /\ slot' = [slot EXCEPT ![t] = 0]

(* Slots that may be taken: any slot, whether it was freed or not.         *)
AnySlots == DOMAIN conns

FreeSlots == {i \in DOMAIN conns : conns[i] = Null}

(* AddSpace gets _mtx and refuses a key that is indexed, and a table that  *)
(* is full.                                                                *)
AddRefused(t) ==
  \E c \in calls :
    /\ pc[t] = "idle"
    /\ Serving
    /\ c.kind = "add"
    /\ mtx = NoThread
    /\ \/ index[c.key] # 0
       \/ FreeSlots = {} /\ Len(conns) >= capacity
    /\ calls' = calls \ {c}
    /\ UNCHANGED <<etcdVars, mainVars, conns, index, local, file, mtx, threadVars, early, gone>>

(* Otherwise the connection goes to the first freed slot ...               *)
AddReusesSlot(t) ==
  \E c \in calls, i \in FreeSlots :
    /\ c.kind = "add"
    /\ mtx = NoThread
    /\ index[c.key] = 0
    /\ \A j \in FreeSlots : i <= j
    /\ Take(t, c.key, "a_index")
    /\ slot' = [slot EXCEPT ![t] = i]
    /\ conns' = [conns EXCEPT ![i] = c.key]
    /\ calls' = calls \ {c}
    /\ mtx' = t
    /\ UNCHANGED <<etcdVars, mainVars, index, local, file, early, gone>>

(* ... or to a new slot, and then the space is saved as well.              *)
AddAppends(t) ==
  \E c \in calls :
    /\ c.kind = "add"
    /\ mtx = NoThread
    /\ index[c.key] = 0
    /\ FreeSlots = {}
    /\ Len(conns) < capacity
    /\ Take(t, c.key, "a_index")
    /\ conns' = Append(conns, c.key)
    /\ calls' = calls \ {c}
    /\ mtx' = t
    /\ early' = (early \/ phase = "lock")
    /\ UNCHANGED <<etcdVars, mainVars, slot, index, local, file, gone>>

(* The index of an appended slot, off by one.                              *)
SizeAfterPush(t) == IF slot[t] = 0 THEN Len(conns) + 1 ELSE slot[t]

(* The same, off by one in the other direction.                            *)
SizeBeforePush(t) == IF slot[t] = 0 THEN Len(conns) - 2 ELSE slot[t]

AddedSlot(t) == IF slot[t] = 0 THEN Len(conns) ELSE slot[t]

IndexAdded(t) ==
  /\ pc[t] = "a_index"
  /\ index' = Put(arg[t], AddedSlot(t))
  /\ IF slot[t] = 0
       THEN Goto(t, "a_local") /\ UNCHANGED <<mtx, slot>>
       ELSE Return(t) /\ mtx' = NoThread
  /\ UNCHANGED <<etcdVars, calls, mainVars, conns, local, file, early, gone>>

SaveAdded(t) ==
  /\ pc[t] = "a_local"
  /\ local' = Append(local, arg[t])
  /\ file' = local'
  /\ mtx' = NoThread
  /\ Return(t)
  /\ UNCHANGED <<etcdVars, calls, mainVars, conns, index, early, gone>>

(* LocalSpaces::DeleteSpace: the list without a key, its order kept.       *)
Without(q, k) ==
  LET kept == {i \in DOMAIN q : q[i] # k}
      Rank(i) == Cardinality({j \in kept : j <= i})
  IN  [n \in 1..Cardinality(kept) |-> q[CHOOSE i \in kept : Rank(i) = n]]

(* DeleteSpace first removes the key from LocalSpaces, without _mtx.       *)
DeleteLocal(t) ==
  \E c \in calls :
    /\ c.kind = "delete"
    /\ Take(t, c.key, "d_save")
    /\ local' = Without(local, c.key)
    /\ calls' = calls \ {c}
    /\ UNCHANGED <<etcdVars, mainVars, conns, index, file, mtx, slot, early, gone>>

SaveDeleted(t) ==
  /\ pc[t] = "d_save"
  /\ file' = local
  /\ Goto(t, "d_index")
  /\ UNCHANGED <<etcdVars, calls, mainVars, conns, index, local, mtx, slot, early, gone>>

DeleteRefused(t) ==
  /\ pc[t] = "d_index"
  /\ mtx = NoThread
  /\ index[arg[t]] = 0
  /\ Return(t)
  /\ UNCHANGED <<etcdVars, calls, mainVars, conns, index, local, file, mtx, early, gone>>

(* Under _mtx the index goes first, so that later lookups find nothing.    *)
DeleteIndex(t) ==
  /\ pc[t] = "d_index"
  /\ mtx = NoThread
  /\ index[arg[t]] # 0
  /\ Goto(t, "d_slot")
  /\ slot' = [slot EXCEPT ![t] = index[arg[t]]]
  /\ index' = Delete(arg[t])
  /\ mtx' = t
  /\ gone' = [u \in Threads |-> gone[u] \/ (pc[u] = "g_slot" /\ arg[u] = arg[t])]
  /\ UNCHANGED <<etcdVars, calls, mainVars, conns, local, file, early>>

FreeSlot(t) ==
  /\ pc[t] = "d_slot"
  /\ conns' = [conns EXCEPT ![slot[t]] = Null]
  /\ mtx' = NoThread
  /\ Return(t)
  /\ UNCHANGED <<etcdVars, calls, mainVars, index, local, file, early, gone>>

(* GetSpaceConn reads the index and then the slot, without a lock.  A key  *)
(* that is not indexed is answered at once.                                *)
GetIndex(t) ==
  \E k \in Keys :
    /\ index[k] # 0
    /\ Take(t, k, "g_slot")
    /\ slot' = [slot EXCEPT ![t] = index[k]]
    /\ UNCHANGED <<etcdVars, calls, mainVars, conns, index, local, file, mtx, early, gone>>

(* The connection a lookup hands out; Null is answered as deleted.         *)
Found(t) == conns[slot[t]]

GetSlot(t) ==
  /\ pc[t] = "g_slot"
  /\ Return(t)
  /\ gone' = [gone EXCEPT ![t] = FALSE]
  /\ UNCHANGED <<etcdVars, calls, mainVars, conns, index, local, file, mtx, early>>

Thread(t) ==
  \/ AddRefused(t) \/ AddReusesSlot(t) \/ AddAppends(t) \/ IndexAdded(t) \/ SaveAdded(t)
  \/ DeleteLocal(t) \/ SaveDeleted(t) \/ DeleteRefused(t) \/ DeleteIndex(t) \/ FreeSlot(t)
  \/ GetIndex(t) \/ GetSlot(t)

Next ==
  \/ CreateInEtcd \/ DeleteInEtcd
  \/ StartServer \/ ScanEtcd \/ LockForLoad \/ LoadSpace \/ FinishLoad \/ Stop
  \/ \E t \in Threads : Thread(t)

Spec == Init /\ [][Next]_vars

-----------------------------------------------------------------------------
(* The state is well typed: in particular the indices AddSpace computes    *)
(* from the number of slots are never those of "not found".                *)
TypeOK ==
  /\ mata \subseteq Keys /\ changes \in 0..MaxChanges /\ calls \subseteq Call
  /\ phase \in {"off", "scan", "lock", "load", "serve"}
  /\ capacity \in Nat /\ infos \in Seq(Keys) /\ loaded \in 0..Len(infos)
  /\ conns \in Seq(Keys \cup {Null})
  /\ index \in [Keys -> Nat]
  /\ local \in Seq(Keys) /\ file \in Seq(Keys)
  /\ mtx \in Threads \cup {Main, NoThread}
  /\ pc \in [Threads -> Steps]
  /\ arg \in [Threads -> Keys \cup {Null}]
  /\ slot \in [Threads -> Nat]
  /\ early \in BOOLEAN /\ gone \in [Threads -> BOOLEAN]

(* GetSpaceConn and DeleteSpace use an index without comparing it with the *)
(* number of slots: whatever requests came in before, during or after      *)
(* Init, every published or remembered index is that of a slot.            *)
IndexInRange ==
  /\ \A k \in Keys : index[k] <= Len(conns)
  /\ \A t \in Threads : pc[t] \in {"g_slot", "d_slot"} => slot[t] \in DOMAIN conns

(* When no request was served between the scan of Init and its loop, a key *)
(* that is indexed leads to the connection of that key: AddSpace fills the *)
(* slot before Put and DeleteSpace frees it after Delete.                  *)
IndexedServesKey ==
  ~early => \A k \in Keys : index[k] # 0 => conns[index[k]] = k

(* The lock-free GetSpaceConn hands out the connection of another space    *)
(* only if its own space was deleted between its two reads, when no        *)
(* request was served between the scan of Init and its loop.               *)
ServedAnotherOnlyIfDeleted ==
  [][\A t \in Threads : ~early /\ GetSlot(t) /\ ~gone[t] /\ Found(t) # Null =>
       Found(t) = arg[t]]_vars

(* DeleteSpace frees the slot of the space it was asked to delete, never   *)
(* the connection of a space that meanwhile took over the slot, under the  *)
(* same condition on the start.                                            *)
DeleteFreesOwn ==
  [][\A t \in Threads : ~early /\ FreeSlot(t) =>
       conns[slot[t]] = arg[t]]_vars

(* AddSpace answered with success (code 0): the space can be looked up     *)
(* until it is deleted.                                                    *)
AddedIsFound ==
  [][\A t \in Threads : IndexAdded(t) => index'[arg[t]] # 0]_vars
=============================================================================
