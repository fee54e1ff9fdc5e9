------------------------- MODULE RouterSpacesProofs -------------------------
(* The inductive invariant of RouterSpaces, for every set of keys and       *)
(* threads and every number of slots, and the theorems that follow from it. *)
(* What the saved list and the scan of etcd hold plays no part in it: Init  *)
(* may load any keys.  ListInv at the end adds the types of these lists.    *)
EXTENDS RouterSpaces, FiniteSetTheorems, TLAPS

(* What the provers need of the sequence of slots.                          *)
IsSeq(q) == \E S : q \in Seq(S)
Replaced(q, j, e) == [q EXCEPT ![j] = e]
Locking == {"a_index", "a_local", "d_slot"}  \* the steps of a thread that holds _mtx
Slotless == {"idle", "d_save", "d_index"}    \* the steps of a thread without a slot

(* The types of what a lookup depends on.                                   *)
TableType ==
  /\ IsSeq(conns) /\ index \in [Keys -> Nat]
  /\ capacity \in Nat /\ loaded \in Nat
  /\ pc \in [Threads -> Steps] /\ slot \in [Threads -> Nat]
  /\ arg \in [Threads -> Keys \cup {Null}] /\ gone \in [Threads -> BOOLEAN]
  /\ calls \subseteq Call /\ mata \subseteq Keys /\ early \in BOOLEAN

(* Who holds _mtx, and that a process that is off has no request.           *)
LockInv ==
  /\ \A t \in Threads : pc[t] \in Locking => mtx = t
  /\ phase = "load" => mtx = Main
  /\ phase = "off" => \A t \in Threads : pc[t] = "idle"

(* An index that is published, remembered or about to be published is that  *)
(* of a slot.                                                               *)
RangeInv ==
  /\ \A k \in Keys : index[k] <= Len(conns)
  /\ \A t \in Threads :
       /\ pc[t] \in {"g_slot", "d_slot"} => slot[t] \in 1..Len(conns)
       /\ pc[t] = "a_index" => arg[t] \in Keys /\ AddedSlot(t) \in 1..Len(conns)
       /\ pc[t] \in {"d_save", "d_index", "d_slot", "g_slot"} => arg[t] \in Keys
       /\ pc[t] \in Slotless => slot[t] = 0
  /\ phase # "load" => loaded = 0
  /\ loaded <= Len(conns)

(* Before Init has filled the table there is no slot and no capacity for    *)
(* one; then slots and indices are counted alike.                           *)
LoadInv ==
  /\ phase \in {"off", "scan"} => capacity = 0 /\ Len(conns) = 0
  /\ ~early => /\ phase = "lock" => Len(conns) = 0
               /\ phase = "load" => Len(conns) = loaded

(* A lookup whose key was not deleted since has the index of its key.       *)
LookupInv ==
  \A t \in Threads : pc[t] = "g_slot" /\ ~gone[t] => index[arg[t]] = slot[t] /\ slot[t] # 0

(* A slot that an index leads to, or that a writer works on, is its own.    *)
OwnInv ==
  ~early =>
    /\ \A k \in Keys : index[k] # 0 => conns[index[k]] = k
    /\ \A t \in Threads :
         /\ pc[t] = "a_index" => conns[AddedSlot(t)] = arg[t]
         /\ pc[t] = "d_slot" => conns[slot[t]] = arg[t] /\ \A k \in Keys : index[k] # slot[t]

IInv == TableType /\ LockInv /\ RangeInv /\ LoadInv /\ LookupInv /\ OwnInv

-----------------------------------------------------------------------------
(* Sequences *)

(* The domain of a sequence.                                                *)
LEMMA SeqFacts ==
  ASSUME NEW q, IsSeq(q)
  PROVE  Len(q) \in Nat /\ DOMAIN q = 1..Len(q)
BY DEF IsSeq

(* A sequence with an element appended.                                     *)
LEMMA SeqAppends ==
  ASSUME NEW q, IsSeq(q), NEW e
  PROVE  /\ IsSeq(Append(q, e)) /\ Len(Append(q, e)) = Len(q) + 1
         /\ \A i \in 1..Len(q) : Append(q, e)[i] = q[i]
         /\ Append(q, e)[Len(q) + 1] = e
<1>1. PICK S : q \in Seq(S)
  BY Zenon DEF IsSeq
<1> DEFINE T == S \cup {e}
<1>2. q \in Seq(T) /\ e \in T
  <2>1. q \in [1..Len(q) -> S] /\ Len(q) \in Nat
    BY <1>1
  <2>2. q \in [1..Len(q) -> T]
    BY Zenon, <2>1
  <2> QED BY <2>1, <2>2
<1> HIDE DEF T
<1>3. Append(q, e) \in Seq(T)
  BY <1>2
<1> QED BY <1>2, <1>3 DEF IsSeq

(* A sequence with an element replaced.                                     *)
LEMMA SeqReplaces ==
  ASSUME NEW q, IsSeq(q), NEW j \in 1..Len(q), NEW e
  PROVE  /\ IsSeq(Replaced(q, j, e)) /\ Len(Replaced(q, j, e)) = Len(q)
         /\ Replaced(q, j, e)[j] = e
         /\ \A i \in 1..Len(q) : i # j => Replaced(q, j, e)[i] = q[i]
<1>1. PICK S : q \in Seq(S)
  BY Zenon DEF IsSeq
<1> DEFINE T == S \cup {e}
           r == Replaced(q, j, e)
<1>2. Len(q) \in Nat /\ q \in [1..Len(q) -> S]
  BY <1>1
<1>3. r \in [1..Len(q) -> T]
  BY Zenon, <1>2 DEF Replaced
<1>4. r \in Seq(T) /\ Len(r) = Len(q)
  BY <1>2, <1>3
<1> QED BY Zenon, <1>2, <1>4 DEF IsSeq, Replaced

-----------------------------------------------------------------------------
(* The table *)

(* Put changes at most the key it is given, and only a key without index.   *)
LEMMA PutFacts ==
  ASSUME index \in [Keys -> Nat], NEW k, NEW i \in Nat
  PROVE  /\ Put(k, i) \in [Keys -> Nat]
         /\ \A j \in Keys : \/ Put(k, i)[j] = index[j]
                            \/ j = k /\ index[j] = 0 /\ Put(k, i)[j] = i
BY Zenon DEF Put, BucketTaken

(* The empty table of a process that has not started.                       *)
LEMMA EmptyTable ==
  IsSeq(<<>>) /\ Len(<<>>) = 0
<1>1. <<>> \in Seq({})
  OBVIOUS
<1> QED BY Zenon, <1>1 DEF IsSeq

(* The invariant holds when the router has not yet started.                 *)
LEMMA InitInv ==
  Init => IInv
<1> SUFFICES ASSUME Init PROVE IInv
  BY Zenon
<1> USE EmptyTable DEF Init
<1>1. TableType
  BY Zenon DEF TableType, Steps, Call
<1>2. LockInv
  BY Zenon DEF LockInv, Locking
<1>3. RangeInv
  BY DEF RangeInv, Slotless
<1>4. LoadInv
  BY Zenon DEF LoadInv
<1>5. LookupInv
  BY Zenon DEF LookupInv
<1>6. OwnInv
  BY Zenon DEF OwnInv
<1> QED BY Zenon, <1>1, <1>2, <1>3, <1>4, <1>5, <1>6 DEF IInv

(* A published index is that of a slot.                                     *)
LEMMA IndexIsSlot ==
  ASSUME IInv, NEW k \in Keys, index[k] # 0
  PROVE  index[k] \in 1..Len(conns)
<1>1. index[k] \in Nat /\ Len(conns) \in Nat
  BY Zenon, SeqFacts DEF IInv, TableType
<1>2. index[k] <= Len(conns)
  BY Zenon DEF IInv, RangeInv
<1> QED BY <1>1, <1>2

(* The steps of the masters and of main that leave the table as it is.      *)
LEMMA MainSteps ==
  ASSUME IInv,
         \/ CreateInEtcd \/ DeleteInEtcd
         \/ StartServer \/ ScanEtcd \/ LockForLoad \/ FinishLoad
  PROVE  IInv'
<1>1. UNCHANGED <<conns, index, pc, arg, slot, early, gone>>
  BY Zenon DEF CreateInEtcd, DeleteInEtcd, StartServer, ScanEtcd, LockForLoad, FinishLoad, threadVars
<1>2. \/ UNCHANGED <<phase, capacity, loaded, mtx>>
      \/ phase = "off" /\ phase' = "scan" /\ UNCHANGED <<capacity, loaded, mtx>>
      \/ phase = "scan" /\ phase' = "lock" /\ capacity' = MaxSpaceNum /\ UNCHANGED <<loaded, mtx>>
      \/ /\ phase = "lock" /\ phase' = "load" /\ mtx = NoThread /\ mtx' = Main
         /\ UNCHANGED <<capacity, loaded>>
      \/ /\ phase = "load" /\ phase' = "serve" /\ mtx' = NoThread /\ loaded' = 0
         /\ UNCHANGED capacity
  BY Zenon DEF CreateInEtcd, DeleteInEtcd, StartServer, ScanEtcd, LockForLoad, FinishLoad, mainVars
<1>3. mata' \subseteq Keys /\ calls' \subseteq Call
  BY DEF IInv, TableType, Call, CreateInEtcd, DeleteInEtcd, StartServer, ScanEtcd, LockForLoad,
         FinishLoad, etcdVars
<1>4. TableType'
  BY <1>1, <1>2, <1>3, RouterAssumption DEF IInv, TableType
<1>5. LockInv'
  BY Zenon, <1>1, <1>2, RouterAssumption DEF IInv, LockInv, Locking
<1>6. RangeInv'
  <2>1. (phase' # "load" => loaded' = 0) /\ loaded' <= Len(conns)
    BY <1>2, SeqFacts DEF IInv, TableType, RangeInv
  <2> QED BY Zenon, <1>1, <2>1 DEF IInv, RangeInv, AddedSlot
<1>7. LoadInv'
  BY Zenon, <1>1, <1>2 DEF IInv, LoadInv, RangeInv
<1>8. LookupInv' /\ OwnInv'
  BY Zenon, <1>1 DEF IInv, LookupInv, OwnInv, AddedSlot
<1> QED BY Zenon, <1>4, <1>5, <1>6, <1>7, <1>8 DEF IInv

(* A process that ends leaves an empty table to the next one.               *)
LEMMA StopStep ==
  ASSUME IInv, Stop
  PROVE  IInv'
<1>1. /\ phase' = "off" /\ capacity' = 0 /\ loaded' = 0 /\ conns' = <<>>
      /\ index' = [k \in Keys |-> 0] /\ mtx' = NoThread
      /\ pc' = [t \in Threads |-> "idle"] /\ arg' = [t \in Threads |-> Null]
      /\ slot' = [t \in Threads |-> 0] /\ gone' = [t \in Threads |-> FALSE]
      /\ early' = FALSE /\ UNCHANGED <<mata, calls>>
  BY Zenon DEF Stop, etcdVars
<1>2. IsSeq(conns') /\ Len(conns') = 0
  BY Zenon, <1>1, EmptyTable
<1>3. TableType'
  BY Zenon, <1>1, <1>2 DEF IInv, TableType, Steps
<1>4. LockInv' /\ LoadInv'
  BY Zenon, <1>1, <1>2 DEF LockInv, LoadInv, Locking
<1>5. RangeInv' /\ LookupInv' /\ OwnInv'
  BY <1>1, <1>2 DEF RangeInv, LookupInv, OwnInv, Slotless
<1> QED BY Zenon, <1>3, <1>4, <1>5 DEF IInv

(* A turn of the loop of Init: main holds _mtx, so no thread is about to    *)
(* publish or to free a slot.                                               *)
LEMMA LoadStep ==
  ASSUME IInv, LoadSpace
  PROVE  IInv'
<1> DEFINE e == infos[loaded + 1]
<1>1. /\ phase = "load" /\ loaded' = loaded + 1
      /\ conns' = Append(conns, e) /\ index' = Put(e, loaded + 1)
      /\ capacity' = IF Len(conns) = capacity THEN 2 * capacity ELSE capacity
      /\ UNCHANGED <<mata, calls, phase, mtx, pc, arg, slot, early, gone>>
  BY Zenon DEF LoadSpace, etcdVars, threadVars
<1> HIDE DEF e
<1>2. \A u \in Threads : pc[u] \notin Locking
  BY Zenon, <1>1, RouterAssumption DEF IInv, LockInv
<1>3. /\ IsSeq(conns) /\ Len(conns) \in Nat /\ loaded \in Nat
      /\ index \in [Keys -> Nat] /\ slot \in [Threads -> Nat]
  BY Zenon, SeqFacts DEF IInv, TableType
<1>4. /\ IsSeq(conns') /\ Len(conns') = Len(conns) + 1
      /\ \A i \in 1..Len(conns) : conns'[i] = conns[i]
      /\ conns'[Len(conns) + 1] = e
  BY <1>1, <1>3, SeqAppends
<1>5. /\ index' \in [Keys -> Nat]
      /\ \A k \in Keys : \/ index'[k] = index[k]
                         \/ k = e /\ index[k] = 0 /\ index'[k] = loaded + 1
  <2>1. loaded + 1 \in Nat
    BY <1>3
  <2> QED BY <1>1, <1>3, <2>1, PutFacts
<1>6. TableType'
  BY <1>1, <1>3, <1>4, <1>5 DEF IInv, TableType
<1>7. LockInv'
  BY Zenon, <1>1 DEF IInv, LockInv
<1>8. RangeInv'
  <2>0. loaded <= Len(conns) /\ \A k \in Keys : index[k] <= Len(conns) /\ index[k] \in Nat
    BY Zenon, <1>3 DEF IInv, RangeInv
  <2>1. ASSUME NEW k \in Keys PROVE index'[k] <= Len(conns')
    <3>1. index'[k] = index[k] \/ index'[k] = loaded + 1
      BY Zenon, <1>5
    <3> QED BY <1>3, <1>4, <2>0, <3>1
  <2>2. loaded' <= Len(conns')
    BY <1>1, <1>3, <1>4, <2>0
  <2>3. \A u \in Threads : pc[u] = "g_slot" => slot[u] \in 1..Len(conns')
    BY <1>3, <1>4 DEF IInv, RangeInv
  <2> QED BY Zenon, <1>1, <1>2, <2>1, <2>2, <2>3 DEF IInv, RangeInv, Locking
<1>9. LoadInv'
  BY Zenon, <1>1, <1>4 DEF IInv, LoadInv
<1>10. LookupInv'
  <2>1. \A u \in Threads : pc[u] = "g_slot" => arg[u] \in Keys
    BY Zenon DEF IInv, RangeInv
  <2> QED BY Zenon, <1>1, <1>5, <2>1 DEF IInv, LookupInv
<1>11. OwnInv'
  <2> SUFFICES ASSUME ~early, NEW k \in Keys, index'[k] # 0
               PROVE  conns'[index'[k]] = k
    BY Zenon, <1>1, <1>2 DEF OwnInv, Locking
  <2>1. CASE index'[k] = index[k]
    <3>1. index[k] \in 1..Len(conns)
      BY <1>3, <2>1 DEF IInv, RangeInv
    <3>2. conns[index[k]] = k
      BY Zenon, <2>1 DEF IInv, OwnInv
    <3> QED BY Zenon, <1>4, <2>1, <3>1, <3>2
  <2>2. CASE k = e /\ index'[k] = loaded + 1
    <3>1. Len(conns) = loaded
      BY Zenon, <1>1 DEF IInv, LoadInv
    <3> QED BY Zenon, <1>4, <2>2, <3>1
  <2> QED BY Zenon, <1>5, <2>1, <2>2
<1> QED BY Zenon, <1>6, <1>7, <1>8, <1>9, <1>10, <1>11 DEF IInv

(* AddSpace fills a freed slot, which no index leads to.                    *)
LEMMA ReuseStep ==
  ASSUME IInv, NEW t \in Threads, AddReusesSlot(t)
  PROVE  IInv'
<1>1. PICK c \in calls, m \in FreeSlots :
        /\ mtx = NoThread /\ pc[t] = "idle" /\ phase # "off"
        /\ pc' = [pc EXCEPT ![t] = "a_index"] /\ arg' = [arg EXCEPT ![t] = c.key]
        /\ slot' = [slot EXCEPT ![t] = m] /\ conns' = [conns EXCEPT ![m] = c.key]
        /\ calls' = calls \ {c} /\ mtx' = t
        /\ UNCHANGED <<mata, phase, capacity, loaded, index, early, gone>>
  BY Zenon DEF AddReusesSlot, Take, Serving, etcdVars, mainVars
<1>2. IsSeq(conns) /\ Len(conns) \in Nat /\ c.key \in Keys /\ TableType
  BY Zenon, SeqFacts DEF IInv, TableType, Call
<1>3. m \in 1..Len(conns) /\ conns[m] = Null
  BY Zenon, <1>2, SeqFacts DEF FreeSlots
<1>4. /\ IsSeq(conns') /\ Len(conns') = Len(conns) /\ conns'[m] = c.key
      /\ \A i \in 1..Len(conns) : i # m => conns'[i] = conns[i]
  <2>1. conns' = Replaced(conns, m, c.key)
    BY Zenon, <1>1 DEF Replaced
  <2> QED BY <1>2, <1>3, <2>1, SeqReplaces
<1>5. phase # "load" /\ \A u \in Threads : pc[u] \notin Locking
  BY Zenon, <1>1, RouterAssumption DEF IInv, LockInv
<1>6. /\ pc'[t] = "a_index" /\ arg'[t] = c.key /\ slot'[t] = m /\ AddedSlot(t)' = m
      /\ \A u \in Threads : u # t => pc'[u] = pc[u] /\ arg'[u] = arg[u] /\ slot'[u] = slot[u]
  BY <1>1, <1>2, <1>3 DEF TableType, AddedSlot
<1>7. TableType'
  BY <1>1, <1>2, <1>3, <1>4 DEF TableType, Steps
<1>8. LockInv'
  BY Zenon, <1>1, <1>5, <1>6 DEF LockInv
<1>9. RangeInv'
  <2>1. \A u \in Threads : u # t => pc'[u] # "a_index"
    BY Zenon, <1>5, <1>6 DEF Locking
  <2> QED BY Zenon, <1>1, <1>2, <1>3, <1>4, <1>6, <2>1 DEF IInv, RangeInv, Slotless
<1>10. LoadInv'
  BY Zenon, <1>1, <1>4 DEF IInv, LoadInv
<1>11. LookupInv'
  BY Zenon, <1>1, <1>6 DEF IInv, LookupInv
<1>12. OwnInv'
  <2> SUFFICES ASSUME ~early PROVE OwnInv'
    BY Zenon, <1>1 DEF OwnInv
  <2>1. ASSUME NEW k \in Keys, index[k] # 0 PROVE conns'[index[k]] = k
    <3>1. conns[index[k]] = k /\ index[k] \in 1..Len(conns)
      BY Zenon, <2>1, IndexIsSlot DEF IInv, OwnInv
    <3>2. index[k] # m
      BY Zenon, <1>3, <3>1, RouterAssumption
    <3> QED BY Zenon, <1>4, <3>1, <3>2
  <2>2. \A u \in Threads : u # t => pc'[u] \notin {"a_index", "d_slot"}
    BY Zenon, <1>5, <1>6 DEF Locking
  <2> QED BY Zenon, <1>1, <1>4, <1>6, <2>1, <2>2 DEF OwnInv
<1> QED BY Zenon, <1>7, <1>8, <1>9, <1>10, <1>11, <1>12 DEF IInv

(* AddSpace appends a slot.                                                 *)
LEMMA AppendStep ==
  ASSUME IInv, NEW t \in Threads, AddAppends(t)
  PROVE  IInv'
<1>1. PICK c \in calls :
        /\ mtx = NoThread /\ pc[t] = "idle" /\ phase # "off" /\ Len(conns) < capacity
        /\ pc' = [pc EXCEPT ![t] = "a_index"] /\ arg' = [arg EXCEPT ![t] = c.key]
        /\ conns' = Append(conns, c.key)
        /\ calls' = calls \ {c} /\ mtx' = t
        /\ early' = (early \/ phase = "lock")
        /\ UNCHANGED <<mata, phase, capacity, loaded, slot, index, gone>>
  BY Zenon DEF AddAppends, Take, Serving, etcdVars, mainVars
<1>2. IsSeq(conns) /\ Len(conns) \in Nat /\ c.key \in Keys /\ TableType
  BY Zenon, SeqFacts DEF IInv, TableType, Call
<1>3. /\ IsSeq(conns') /\ Len(conns') = Len(conns) + 1
      /\ \A i \in 1..Len(conns) : conns'[i] = conns[i]
      /\ conns'[Len(conns) + 1] = c.key
  BY <1>1, <1>2, SeqAppends
<1>4. phase # "load" /\ \A u \in Threads : pc[u] \notin Locking
  BY Zenon, <1>1, RouterAssumption DEF IInv, LockInv
<1>5. /\ pc'[t] = "a_index" /\ arg'[t] = c.key /\ AddedSlot(t)' = Len(conns) + 1
      /\ \A u \in Threads : u # t => pc'[u] = pc[u] /\ arg'[u] = arg[u] /\ slot'[u] = slot[u]
  <2>1. slot[t] = 0
    BY Zenon, <1>1 DEF IInv, RangeInv, Slotless
  <2> QED BY Zenon, <1>1, <1>2, <1>3, <2>1 DEF TableType, AddedSlot
<1>6. phase \notin {"off", "scan"}
  BY <1>1, <1>2 DEF IInv, LoadInv
<1>7. TableType'
  BY Zenon, <1>1, <1>2, <1>3 DEF TableType, Steps
<1>8. LockInv'
  BY Zenon, <1>1, <1>4, <1>5 DEF LockInv
<1>9. RangeInv'
  <2>1. \A u \in Threads : u # t => pc'[u] # "a_index"
    BY Zenon, <1>4, <1>5 DEF Locking
  <2>2. \A k \in Keys : index'[k] <= Len(conns')
    BY <1>1, <1>2, <1>3 DEF IInv, RangeInv, TableType
  <2>3. \A u \in Threads : pc'[u] \in {"g_slot", "d_slot"} => slot'[u] \in 1..Len(conns')
    BY <1>1, <1>2, <1>3, <1>5 DEF IInv, RangeInv, TableType
  <2>4. loaded' <= Len(conns') /\ loaded' = 0
    BY <1>1, <1>2, <1>3, <1>4 DEF IInv, RangeInv, TableType
  <2>5. AddedSlot(t)' \in 1..Len(conns')
    BY <1>2, <1>3, <1>5
  <2>6. \A u \in Threads :
          /\ pc'[u] \in {"d_save", "d_index", "d_slot", "g_slot"} => arg'[u] \in Keys
          /\ pc'[u] \in Slotless => slot'[u] = 0
    BY Zenon, <1>5 DEF IInv, RangeInv, Slotless
  <2> QED BY Zenon, <1>2, <1>5, <2>1, <2>2, <2>3, <2>4, <2>5, <2>6 DEF RangeInv
<1>10. LoadInv'
  BY Zenon, <1>1, <1>4, <1>6 DEF LoadInv
<1>11. LookupInv'
  BY Zenon, <1>1, <1>5 DEF IInv, LookupInv
<1>12. OwnInv'
  <2> SUFFICES ASSUME ~early' PROVE OwnInv'
    BY Zenon DEF OwnInv
  <2>1. ~early
    BY Zenon, <1>1
  <2>2. ASSUME NEW k \in Keys, index[k] # 0 PROVE conns'[index[k]] = k
    <3>1. conns[index[k]] = k /\ index[k] \in 1..Len(conns)
      BY Zenon, <2>1, <2>2, IndexIsSlot DEF IInv, OwnInv
    <3> QED BY Zenon, <1>3, <3>1
  <2>3. \A u \in Threads : u # t => pc'[u] \notin {"a_index", "d_slot"}
    BY Zenon, <1>4, <1>5 DEF Locking
  <2> QED BY Zenon, <1>1, <1>3, <1>5, <2>2, <2>3 DEF OwnInv
<1> QED BY Zenon, <1>7, <1>8, <1>9, <1>10, <1>11, <1>12 DEF IInv

(* AddSpace publishes the slot it has filled, or finds the bucket taken.    *)
LEMMA IndexStep ==
  ASSUME IInv, NEW t \in Threads, IndexAdded(t)
  PROVE  IInv'
<1>1. /\ pc[t] = "a_index" /\ index' = Put(arg[t], AddedSlot(t))
      /\ UNCHANGED <<mata, calls, phase, capacity, loaded, conns, early, gone>>
      /\ \/ /\ slot[t] = 0 /\ pc' = [pc EXCEPT ![t] = "a_local"]
            /\ UNCHANGED <<arg, mtx, slot>>
         \/ /\ pc' = [pc EXCEPT ![t] = "idle"] /\ arg' = [arg EXCEPT ![t] = Null]
            /\ slot' = [slot EXCEPT ![t] = 0] /\ mtx' = NoThread
  BY Zenon DEF IndexAdded, Goto, Return, etcdVars, mainVars
<1>2. TableType /\ Len(conns) \in Nat /\ AddedSlot(t) \in 1..Len(conns)
  BY Zenon, <1>1, SeqFacts DEF IInv, TableType, RangeInv
<1>3. /\ index' \in [Keys -> Nat]
      /\ \A k \in Keys : \/ index'[k] = index[k]
                         \/ k = arg[t] /\ index[k] = 0 /\ index'[k] = AddedSlot(t)
  <2>1. AddedSlot(t) \in Nat
    BY <1>2
  <2> QED BY <1>1, <1>2, <2>1, PutFacts DEF TableType
<1>4. phase # "load" /\ mtx = t /\ \A u \in Threads : u # t => pc[u] \notin Locking
  BY Zenon, <1>1, RouterAssumption DEF IInv, LockInv, Locking
<1>5. /\ pc'[t] \in {"a_local", "idle"}
      /\ pc'[t] = "a_local" => mtx' = t
      /\ pc'[t] = "idle" => slot'[t] = 0
      /\ \A u \in Threads : u # t => pc'[u] = pc[u] /\ arg'[u] = arg[u] /\ slot'[u] = slot[u]
  BY Zenon, <1>1, <1>4, <1>2 DEF TableType
<1>6. TableType'
  <2>1. pc' \in [Threads -> Steps]
    BY Zenon, <1>1, <1>2 DEF TableType, Steps
  <2>2. slot' \in [Threads -> Nat]
    BY <1>1, <1>2 DEF TableType
  <2>3. arg' \in [Threads -> Keys \cup {Null}]
    <3>1. arg \in [Threads -> Keys \cup {Null}]
      BY Zenon, <1>2 DEF TableType
    <3> QED BY Zenon, <1>1, <3>1
  <2> QED BY Zenon, <1>1, <1>2, <1>3, <2>1, <2>2, <2>3 DEF TableType
<1>7. LockInv'
  <2>1. phase # "off"
    BY Zenon, <1>1 DEF IInv, LockInv
  <2> QED BY Zenon, <1>1, <1>4, <1>5, <2>1 DEF LockInv, Locking
<1>8. RangeInv'
  <2>1. \A k \in Keys : index'[k] <= Len(conns')
    BY <1>1, <1>2, <1>3 DEF IInv, RangeInv
  <2>2. \A u \in Threads : pc'[u] # "a_index"
    BY Zenon, <1>4, <1>5 DEF Locking
  <2> QED BY Zenon, <1>1, <1>5, <2>1, <2>2 DEF IInv, RangeInv, Slotless
<1>9. LoadInv'
  BY Zenon, <1>1 DEF IInv, LoadInv
<1>10. LookupInv'
  <2>1. ASSUME NEW u \in Threads, pc'[u] = "g_slot", ~gone'[u]
        PROVE  index'[arg'[u]] = slot'[u] /\ slot'[u] # 0
    <3>1. u # t /\ pc[u] = "g_slot" /\ arg'[u] = arg[u] /\ slot'[u] = slot[u]
      BY Zenon, <1>5, <2>1
    <3>2. arg[u] \in Keys /\ index[arg[u]] = slot[u] /\ slot[u] # 0
      BY Zenon, <1>1, <2>1, <3>1 DEF IInv, RangeInv, LookupInv
    <3> QED BY Zenon, <1>3, <3>1, <3>2
  <2> QED BY Zenon, <2>1 DEF LookupInv
<1>11. OwnInv'
  <2> SUFFICES ASSUME ~early PROVE OwnInv'
    BY Zenon, <1>1 DEF OwnInv
  <2>1. ASSUME NEW k \in Keys, index'[k] # 0 PROVE conns'[index'[k]] = k
    <3>1. \A j \in Keys : index[j] # 0 => conns[index[j]] = j
      BY Zenon DEF IInv, OwnInv
    <3>2. conns[AddedSlot(t)] = arg[t]
      BY Zenon, <1>1 DEF IInv, OwnInv
    <3> QED BY Zenon, <1>1, <1>3, <2>1, <3>1, <3>2
  <2>2. \A u \in Threads : pc'[u] \notin {"a_index", "d_slot"}
    BY Zenon, <1>4, <1>5 DEF Locking
  <2> QED BY Zenon, <2>1, <2>2 DEF OwnInv
<1> QED BY Zenon, <1>6, <1>7, <1>8, <1>9, <1>10, <1>11 DEF IInv

-----------------------------------------------------------------------------
(* DeleteSpace takes the index away: the slot is then its own to free.      *)
LEMMA UnindexStep ==
  ASSUME IInv, NEW t \in Threads, DeleteIndex(t)
  PROVE  IInv'
<1>1. /\ pc[t] = "d_index" /\ mtx = NoThread /\ index[arg[t]] # 0
      /\ pc' = [pc EXCEPT ![t] = "d_slot"] /\ slot' = [slot EXCEPT ![t] = index[arg[t]]]
      /\ index' = [index EXCEPT ![arg[t]] = 0] /\ mtx' = t
      /\ gone' = [u \in Threads |-> gone[u] \/ (pc[u] = "g_slot" /\ arg[u] = arg[t])]
      /\ UNCHANGED <<mata, calls, phase, capacity, loaded, conns, arg, early>>
  BY Zenon DEF DeleteIndex, Delete, Goto, etcdVars, mainVars
<1>2. TableType /\ Len(conns) \in Nat /\ arg[t] \in Keys
  BY Zenon, <1>1, SeqFacts DEF IInv, TableType, RangeInv
<1>3. phase # "load" /\ \A u \in Threads : pc[u] \notin Locking
  BY Zenon, <1>1, RouterAssumption DEF IInv, LockInv
<1>4. /\ pc'[t] = "d_slot" /\ slot'[t] = index[arg[t]] /\ slot'[t] \in 1..Len(conns)
      /\ \A u \in Threads : u # t => pc'[u] = pc[u] /\ slot'[u] = slot[u]
  <2>1. index[arg[t]] \in 1..Len(conns)
    BY Zenon, <1>1, <1>2, IndexIsSlot
  <2> QED BY Zenon, <1>1, <1>2, <2>1 DEF TableType
<1>5. /\ index' \in [Keys -> Nat] /\ index'[arg[t]] = 0
      /\ \A k \in Keys : k # arg[t] => index'[k] = index[k]
  BY Zenon, <1>1, <1>2 DEF TableType
<1>6. TableType'
  <2>1. pc' \in [Threads -> Steps] /\ slot' \in [Threads -> Nat]
    BY Zenon, <1>1, <1>2 DEF TableType, Steps
  <2>2. gone' \in [Threads -> BOOLEAN]
    BY Zenon, <1>1, <1>2 DEF TableType
  <2> QED BY Zenon, <1>1, <1>2, <1>5, <2>1, <2>2 DEF TableType
<1>7. LockInv'
  BY Zenon, <1>1, <1>3, <1>4 DEF IInv, LockInv
<1>8. RangeInv'
  <2>1. \A k \in Keys : index'[k] <= Len(conns')
    <3>1. \A k \in Keys : index[k] <= Len(conns)
      BY Zenon DEF IInv, RangeInv
    <3> QED BY <1>1, <1>2, <1>5, <3>1
  <2>2. \A u \in Threads : pc'[u] # "a_index"
    BY Zenon, <1>3, <1>4 DEF Locking
  <2> QED BY Zenon, <1>1, <1>2, <1>4, <2>1, <2>2 DEF IInv, RangeInv, Slotless
<1>9. LoadInv'
  BY Zenon, <1>1 DEF IInv, LoadInv
<1>10. LookupInv'
  <2>1. ASSUME NEW u \in Threads, pc'[u] = "g_slot", ~gone'[u]
        PROVE  index'[arg'[u]] = slot'[u] /\ slot'[u] # 0
    <3>1. u # t /\ pc[u] = "g_slot" /\ slot'[u] = slot[u]
      BY Zenon, <1>4, <2>1
    <3>2. ~gone[u] /\ arg[u] # arg[t]
      BY Zenon, <1>1, <2>1, <3>1
    <3>3. arg[u] \in Keys /\ index[arg[u]] = slot[u] /\ slot[u] # 0
      BY Zenon, <3>1, <3>2 DEF IInv, RangeInv, LookupInv
    <3> QED BY Zenon, <1>1, <1>5, <3>1, <3>2, <3>3
  <2> QED BY Zenon, <2>1 DEF LookupInv
<1>11. OwnInv'
  <2> SUFFICES ASSUME ~early PROVE OwnInv'
    BY Zenon, <1>1 DEF OwnInv
  <2>1. \A k \in Keys : index[k] # 0 => conns[index[k]] = k
    BY Zenon DEF IInv, OwnInv
  <2>2. \A k \in Keys : index'[k] # 0 => conns'[index'[k]] = k
    BY Zenon, <1>1, <1>5, <2>1
  <2>3. conns'[slot'[t]] = arg'[t] /\ \A k \in Keys : index'[k] # slot'[t]
    BY <1>1, <1>2, <1>4, <1>5, <2>1
  <2>4. \A u \in Threads : u # t => pc'[u] \notin {"a_index", "d_slot"}
    BY Zenon, <1>3, <1>4 DEF Locking
  <2> QED BY Zenon, <1>4, <2>2, <2>3, <2>4 DEF OwnInv
<1> QED BY Zenon, <1>6, <1>7, <1>8, <1>9, <1>10, <1>11 DEF IInv

(* DeleteSpace frees the slot, which no index leads to any more.            *)
LEMMA FreeStep ==
  ASSUME IInv, NEW t \in Threads, FreeSlot(t)
  PROVE  IInv'
<1>1. /\ pc[t] = "d_slot" /\ conns' = [conns EXCEPT ![slot[t]] = Null]
      /\ mtx' = NoThread
      /\ pc' = [pc EXCEPT ![t] = "idle"] /\ arg' = [arg EXCEPT ![t] = Null]
      /\ slot' = [slot EXCEPT ![t] = 0]
      /\ UNCHANGED <<mata, calls, phase, capacity, loaded, index, early, gone>>
  BY Zenon DEF FreeSlot, Return, etcdVars, mainVars
<1>2. IsSeq(conns) /\ TableType /\ Len(conns) \in Nat /\ slot[t] \in 1..Len(conns)
  BY Zenon, <1>1, SeqFacts DEF IInv, TableType, RangeInv
<1>3. phase # "load" /\ \A u \in Threads : u # t => pc[u] \notin Locking
  BY Zenon, <1>1, RouterAssumption DEF IInv, LockInv, Locking
<1>4. /\ IsSeq(conns') /\ Len(conns') = Len(conns)
      /\ \A i \in 1..Len(conns) : i # slot[t] => conns'[i] = conns[i]
  <2>1. conns' = Replaced(conns, slot[t], Null)
    BY Zenon, <1>1 DEF Replaced
  <2> QED BY <1>2, <2>1, SeqReplaces
<1>5. /\ pc'[t] = "idle" /\ slot'[t] = 0
      /\ \A u \in Threads : u # t => pc'[u] = pc[u] /\ arg'[u] = arg[u] /\ slot'[u] = slot[u]
  BY Zenon, <1>1, <1>2 DEF TableType
<1>6. TableType'
  BY Zenon, <1>1, <1>2, <1>4 DEF TableType, Steps
<1>7. LockInv'
  <2>1. phase # "off"
    BY Zenon, <1>1 DEF IInv, LockInv
  <2> QED BY Zenon, <1>1, <1>3, <1>5, <2>1 DEF LockInv, Locking
<1>8. RangeInv'
  <2>1. \A u \in Threads : pc'[u] # "a_index"
    BY Zenon, <1>3, <1>5 DEF Locking
  <2> QED BY Zenon, <1>1, <1>4, <1>5, <2>1 DEF IInv, RangeInv, Slotless
<1>9. LoadInv'
  BY Zenon, <1>1, <1>4 DEF IInv, LoadInv
<1>10. LookupInv'
  BY Zenon, <1>1, <1>5 DEF IInv, LookupInv
<1>11. OwnInv'
  <2> SUFFICES ASSUME ~early PROVE OwnInv'
    BY Zenon, <1>1 DEF OwnInv
  <2>1. ASSUME NEW k \in Keys, index[k] # 0 PROVE conns'[index[k]] = k
    <3>1. conns[index[k]] = k /\ index[k] \in 1..Len(conns)
      BY Zenon, <2>1, IndexIsSlot DEF IInv, OwnInv
    <3>2. index[k] # slot[t]
      BY Zenon, <1>1 DEF IInv, OwnInv
    <3> QED BY Zenon, <1>4, <3>1, <3>2
  <2>2. \A u \in Threads : pc'[u] \notin {"a_index", "d_slot"}
    BY Zenon, <1>3, <1>5 DEF Locking
  <2> QED BY Zenon, <1>1, <2>1, <2>2 DEF OwnInv
<1> QED BY Zenon, <1>6, <1>7, <1>8, <1>9, <1>10, <1>11 DEF IInv

(* The steps of a thread that leave slots and index as they are.            *)
LEMMA QuietSteps ==
  ASSUME IInv, NEW t \in Threads,
         \/ AddRefused(t) \/ SaveAdded(t) \/ DeleteLocal(t) \/ SaveDeleted(t)
         \/ DeleteRefused(t) \/ GetIndex(t) \/ GetSlot(t)
  PROVE  IInv'
<1>1. /\ UNCHANGED <<mata, phase, capacity, loaded, conns, index, early>>
      /\ calls' \subseteq calls
  BY Zenon DEF AddRefused, SaveAdded, DeleteLocal, SaveDeleted, DeleteRefused, GetIndex, GetSlot,
         etcdVars, mainVars
<1>2. TableType /\ Len(conns) \in Nat
  BY Zenon, SeqFacts DEF IInv, TableType
<1> DEFINE
      Stays == UNCHANGED <<pc, arg, slot, gone, mtx>>
      Answers ==
        /\ pc' = [pc EXCEPT ![t] = "idle"] /\ arg' = [arg EXCEPT ![t] = Null]
        /\ slot' = [slot EXCEPT ![t] = 0]
        /\ pc[t] \in {"a_local", "d_index", "g_slot"}
        /\ mtx' = mtx \/ (pc[t] = "a_local" /\ mtx' = NoThread)
        /\ gone' = gone \/ gone' = [gone EXCEPT ![t] = FALSE]
      Deletes(k) ==
        /\ pc[t] = "idle" /\ phase # "off"
        /\ pc' = [pc EXCEPT ![t] = "d_save"] /\ arg' = [arg EXCEPT ![t] = k]
        /\ UNCHANGED <<slot, gone, mtx>>
      Saves ==
        /\ pc[t] = "d_save" /\ pc' = [pc EXCEPT ![t] = "d_index"]
        /\ UNCHANGED <<arg, slot, gone, mtx>>
      Looks(k) ==
        /\ pc[t] = "idle" /\ phase # "off" /\ index[k] # 0
        /\ pc' = [pc EXCEPT ![t] = "g_slot"] /\ arg' = [arg EXCEPT ![t] = k]
        /\ slot' = [slot EXCEPT ![t] = index[k]] /\ UNCHANGED <<gone, mtx>>
<1>3. Stays \/ Answers \/ Saves \/ \E k \in Keys : Deletes(k) \/ Looks(k)
  <2>1. \A c \in calls : c.key \in Keys
    BY Zenon, <1>2 DEF TableType, Call
  <2>2. CASE AddRefused(t)
    BY Zenon, <2>2 DEF AddRefused, threadVars
  <2>3. CASE SaveAdded(t)
    BY Zenon, <2>3 DEF SaveAdded, Return
  <2>4. CASE DeleteLocal(t)
    BY Zenon, <2>1, <2>4 DEF DeleteLocal, Take, Serving
  <2>5. CASE SaveDeleted(t)
    BY Zenon, <2>5 DEF SaveDeleted, Goto
  <2>6. CASE DeleteRefused(t)
    BY Zenon, <2>6 DEF DeleteRefused, Return
  <2>7. CASE GetIndex(t)
    BY Zenon, <2>7 DEF GetIndex, Take, Serving
  <2>8. CASE GetSlot(t)
    BY Zenon, <2>8 DEF GetSlot, Return
  <2> QED BY Zenon, <2>2, <2>3, <2>4, <2>5, <2>6, <2>7, <2>8
<1>4. \A u \in Threads : u # t => /\ pc'[u] = pc[u] /\ arg'[u] = arg[u]
                                /\ slot'[u] = slot[u] /\ gone'[u] = gone[u]
  BY Zenon, <1>2, <1>3 DEF TableType
<1>5. \/ /\ pc'[t] = pc[t] /\ arg'[t] = arg[t] /\ slot'[t] = slot[t]
         /\ gone'[t] = gone[t] /\ mtx' = mtx
      \/ pc'[t] \in Slotless /\ slot'[t] = 0 /\ (pc'[t] # "idle" => arg'[t] \in Keys)
      \/ /\ pc'[t] = "g_slot" /\ arg'[t] \in Keys
         /\ slot'[t] = index[arg'[t]] /\ slot'[t] # 0
  <2>1. /\ pc[t] \in Slotless => slot[t] = 0
        /\ pc[t] = "d_save" => arg[t] \in Keys
    BY Zenon DEF IInv, RangeInv
  <2>2. /\ pc \in [Threads -> Steps] /\ slot \in [Threads -> Nat]
        /\ arg \in [Threads -> Keys \cup {Null}]
    BY Zenon, <1>2 DEF TableType
  <2>3. CASE Stays
    BY Zenon, <2>3
  <2>4. CASE Answers \/ Saves
    BY Zenon, <2>1, <2>2, <2>4 DEF Slotless
  <2>5. ASSUME NEW k \in Keys, Deletes(k) PROVE pc'[t] = "d_save" /\ slot'[t] = 0 /\ arg'[t] = k
    BY Zenon, <2>1, <2>2, <2>5 DEF Slotless
  <2>6. ASSUME NEW k \in Keys, Looks(k)
        PROVE  pc'[t] = "g_slot" /\ arg'[t] = k /\ slot'[t] = index[k] /\ index[k] # 0
    BY Zenon, <2>2, <2>6
  <2> HIDE DEF Stays, Answers, Saves, Deletes, Looks
  <2> QED BY Zenon, <1>3, <2>3, <2>4, <2>5, <2>6 DEF Slotless
<1>6. TableType'
  <2>1. pc' \in [Threads -> Steps] /\ gone' \in [Threads -> BOOLEAN]
    BY Zenon, <1>2, <1>3 DEF TableType, Steps
  <2>2. slot' \in [Threads -> Nat]
    BY <1>2, <1>3 DEF TableType
  <2>3. arg' \in [Threads -> Keys \cup {Null}]
    <3>1. arg \in [Threads -> Keys \cup {Null}]
      BY Zenon, <1>2 DEF TableType
    <3> QED BY Zenon, <1>3, <3>1
  <2> QED BY Zenon, <1>1, <1>2, <2>1, <2>2, <2>3 DEF TableType
<1>7. LockInv'
  <2>1. mtx' = mtx \/ (pc[t] = "a_local" /\ mtx = t /\ pc'[t] = "idle")
    BY Zenon, <1>2, <1>3 DEF IInv, LockInv, Locking, TableType
  <2>2. \A u \in Threads : pc'[u] \in Locking => mtx' = u
    BY Zenon, <1>4, <1>5, <2>1 DEF IInv, LockInv, Locking, Slotless
  <2>3. phase = "off" => \A u \in Threads : pc'[u] = "idle"
    BY Zenon, <1>2, <1>3 DEF IInv, LockInv, TableType
  <2> QED BY Zenon, <1>1, <2>1, <2>2, <2>3, RouterAssumption DEF IInv, LockInv
<1>8. RangeInv'
  <2>1. ASSUME NEW u \in Threads
        PROVE  /\ pc'[u] \in {"g_slot", "d_slot"} => slot'[u] \in 1..Len(conns)
               /\ pc'[u] = "a_index" => pc[u] = "a_index" /\ arg'[u] = arg[u] /\ slot'[u] = slot[u]
               /\ pc'[u] \in {"d_save", "d_index", "d_slot", "g_slot"} => arg'[u] \in Keys
               /\ pc'[u] \in Slotless => slot'[u] = 0
    <3>1. \A k \in Keys : index[k] # 0 => index[k] \in 1..Len(conns)
      BY Zenon, IndexIsSlot
    <3> QED BY Zenon, <1>4, <1>5, <3>1 DEF IInv, RangeInv, Slotless
  <2> QED BY Zenon, <1>1, <2>1 DEF IInv, RangeInv, AddedSlot
<1>9. LoadInv'
  BY Zenon, <1>1 DEF IInv, LoadInv
<1>10. LookupInv'
  <2>1. LookupInv
    BY Zenon DEF IInv
  <2>2. pc'[t] = "g_slot" /\ ~gone'[t] => index[arg'[t]] = slot'[t] /\ slot'[t] # 0
    BY Zenon, <1>5, <2>1 DEF LookupInv, Slotless
  <2>3. \A u \in Threads \ {t} :
          pc'[u] = "g_slot" /\ ~gone'[u] => index[arg'[u]] = slot'[u] /\ slot'[u] # 0
    BY Zenon, <1>4, <2>1 DEF LookupInv
  <2> QED BY Zenon, <1>1, <2>2, <2>3 DEF LookupInv
<1>11. OwnInv'
  <2>1. \A u \in Threads : pc'[u] \in {"a_index", "d_slot"} =>
          pc[u] = pc'[u] /\ arg'[u] = arg[u] /\ slot'[u] = slot[u]
    BY Zenon, <1>4, <1>5 DEF Slotless
  <2> QED BY <1>1, <2>1 DEF IInv, OwnInv, AddedSlot
<1> QED BY Zenon, <1>6, <1>7, <1>8, <1>9, <1>10, <1>11 DEF IInv

(* Every step keeps the invariant.                                          *)
LEMMA StepInv ==
  IInv /\ [Next]_vars => IInv'
<1> SUFFICES ASSUME IInv, [Next]_vars PROVE IInv'
  BY Zenon
<1>1. CASE UNCHANGED vars
  <2> USE <1>1 DEF vars, etcdVars, mainVars, threadVars
  <2>1. TableType' /\ LockInv'
    BY Zenon DEF IInv, TableType, LockInv
  <2>2. RangeInv' /\ LoadInv'
    BY Zenon DEF IInv, RangeInv, LoadInv, AddedSlot
  <2>3. LookupInv' /\ OwnInv'
    BY Zenon DEF IInv, LookupInv, OwnInv, AddedSlot
  <2> QED BY Zenon, <2>1, <2>2, <2>3 DEF IInv
<1>2. ASSUME NEW t \in Threads, Thread(t) PROVE IInv'
  BY Zenon, <1>2, ReuseStep, AppendStep, IndexStep, UnindexStep, FreeStep, QuietSteps DEF Thread
<1> QED BY Zenon, <1>1, <1>2, MainSteps, StopStep, LoadStep DEF Next

(* The invariant holds in every state of the router.                        *)
LEMMA Invariant ==
  Spec => []IInv
BY InitInv, StepInv, PTL DEF Spec

-----------------------------------------------------------------------------
(* No index of GetSpaceConn or DeleteSpace is out of the slots, whatever    *)
(* requests come in before, during or after Init.                           *)
THEOREM IndicesAreInRange == Spec => []IndexInRange
<1>1. IInv => IndexInRange
  BY Zenon, SeqFacts DEF IInv, TableType, RangeInv, IndexInRange
<1> QED BY <1>1, Invariant, PTL

(* An indexed key leads to its own connection, unless a request was served  *)
(* between the scan of Init and its loop.                                   *)
THEOREM IndexServesItsKey == Spec => []IndexedServesKey
<1>1. IInv => IndexedServesKey
  BY Zenon DEF IInv, OwnInv, IndexedServesKey
<1> QED BY <1>1, Invariant, PTL

(* The lock-free lookup of GetSpaceConn returns the connection of its own   *)
(* space, unless that was deleted between its two reads or a slot was       *)
(* appended between the scan of Init and its loop.                          *)
THEOREM LookupsServeTheirKey == Spec => ServedAnotherOnlyIfDeleted
<1>1. IInv /\ [Next]_vars =>
        [\A t \in Threads : ~early /\ GetSlot(t) /\ ~gone[t] /\ Found(t) # Null =>
           Found(t) = arg[t]]_vars
  <2> SUFFICES ASSUME IInv, NEW t \in Threads, ~early, GetSlot(t), ~gone[t]
               PROVE  Found(t) = arg[t]
    BY Zenon
  <2>1. arg[t] \in Keys /\ index[arg[t]] = slot[t] /\ slot[t] # 0
    BY Zenon DEF IInv, RangeInv, LookupInv, GetSlot
  <2> QED BY Zenon, <2>1 DEF IInv, OwnInv, Found
<1> QED BY <1>1, Invariant, PTL DEF Spec, ServedAnotherOnlyIfDeleted

(* DeleteSpace frees the slot of the space it was asked to delete, unless a *)
(* slot was appended between the scan of Init and its loop.                 *)
THEOREM DeletesFreeTheirOwn == Spec => DeleteFreesOwn
<1>1. IInv /\ [Next]_vars =>
        [\A t \in Threads : ~early /\ FreeSlot(t) => conns[slot[t]] = arg[t]]_vars
  BY Zenon DEF IInv, OwnInv, FreeSlot
<1> QED BY <1>1, Invariant, PTL DEF Spec, DeleteFreesOwn

-----------------------------------------------------------------------------
(* The types of what a lookup does not depend on.  The spaces in etcd are   *)
(* finitely many, so the list Init takes of them is one.                    *)
ListInv ==
  /\ IsFiniteSet(mata) /\ changes \in 0..MaxChanges
  /\ phase \in {"off", "scan", "lock", "load", "serve"}
  /\ infos \in Seq(Keys) /\ loaded <= Len(infos)
  /\ conns \in Seq(Keys \cup {Null})
  /\ local \in Seq(Keys) /\ file \in Seq(Keys)
  /\ mtx \in Threads \cup {Main, NoThread}
  /\ \A t \in Threads : pc[t] = "a_local" => arg[t] \in Keys

(* AddSpace holds _mtx from its test of the index to its Put.               *)
AbsentInv == \A t \in Threads : pc[t] = "a_index" => index[arg[t]] = 0

(* What DeleteSpace leaves of a list is a list: the ranks of the positions  *)
(* it keeps are the numbers up to how many it keeps.                        *)
LEMMA WithoutType ==
  ASSUME NEW S, NEW q \in Seq(S), NEW k
  PROVE  Without(q, k) \in Seq(S)
<1> DEFINE kept == {i \in DOMAIN q : q[i] # k}
           Below(i) == {j \in kept : j <= i}
           N == Cardinality(kept)
           rank == [i \in kept |-> Cardinality(Below(i))]
           Nth(n) == CHOOSE i \in kept : Cardinality(Below(i)) = n
<1>1. /\ kept \subseteq 1..Len(q) /\ kept \subseteq Nat /\ Len(q) \in Nat
      /\ \A i \in kept : q[i] \in S
  OBVIOUS
<1>2. Without(q, k) = [n \in 1..N |-> q[Nth(n)]]
  BY Zenon DEF Without
<1> HIDE DEF kept
<1>3. IsFiniteSet(kept) /\ N \in Nat
  <2>1. IsFiniteSet(1..Len(q))
    BY <1>1, FS_Interval
  <2> QED BY Zenon, <1>1, <2>1, FS_Subset, FS_CardinalityType
<1>4. ASSUME NEW i \in kept
      PROVE  IsFiniteSet(Below(i)) /\ Cardinality(Below(i)) \in 1..N
  <2>1. Below(i) \subseteq kept /\ Below(i) # {}
    BY <1>1
  <2>2. IsFiniteSet(Below(i)) /\ Cardinality(Below(i)) <= N
    BY Zenon, <1>3, <2>1, FS_Subset
  <2>3. Cardinality(Below(i)) \in Nat /\ Cardinality(Below(i)) # 0
    BY Zenon, <2>1, <2>2, FS_CardinalityType, FS_EmptySet
  <2> HIDE DEF Below
  <2> QED BY <1>3, <2>2, <2>3
<1>5. ASSUME NEW i \in kept, NEW j \in kept, i < j
      PROVE  Cardinality(Below(i)) # Cardinality(Below(j))
  <2>1. j <= j /\ ~(j <= i) /\ \A m \in kept : m <= i => m <= j
    BY <1>1, <1>5
  <2>2. j \in Below(j) /\ j \notin Below(i) /\ Below(i) \subseteq Below(j)
    BY Zenon, <2>1
  <2> HIDE DEF Below
  <2> QED BY Zenon, <1>4, <2>2, FS_Subset
<1>6. rank \in Injection(kept, 1..N)
  <2>1. \A i, j \in kept : i # j => i < j \/ j < i
    BY <1>1
  <2>2. \A i, j \in kept : rank[i] = rank[j] => i = j
    BY Zenon, <1>5, <2>1
  <2> HIDE DEF Below
  <2>3. rank \in [kept -> 1..N]
    BY Zenon, <1>4
  <2> QED BY Zenon, <2>2, <2>3 DEF Injection, IsInjective
<1>7. rank \in Surjection(kept, 1..N)
  <2>1. IsFiniteSet(1..N) /\ Cardinality(1..N) = N
    BY <1>3, FS_Interval
  <2> HIDE DEF rank
  <2> QED BY Zenon, <1>6, <2>1, FS_Injection
<1>8. ASSUME NEW n \in 1..N PROVE q[Nth(n)] \in S
  <2>1. \E i \in kept : Cardinality(Below(i)) = n
    <3> HIDE DEF Below
    <3> QED BY Zenon, <1>7 DEF Surjection
  <2>2. Nth(n) \in kept
    BY Zenon, <2>1
  <2> QED BY Zenon, <1>1, <2>2
<1> HIDE DEF Nth, N
<1>9. [n \in 1..N |-> q[Nth(n)]] \in [1..N -> S]
  BY Zenon, <1>8
<1> QED BY <1>2, <1>3, <1>9

(* Lists of keys and of slots.                                              *)
LEMMA ListFacts ==
  ASSUME NEW S
  PROVE  /\ <<>> \in Seq(S) /\ Len(<<>>) = 0
         /\ \A q \in Seq(S), e \in S : Append(q, e) \in Seq(S)
         /\ \A q \in Seq(S) : Len(q) \in Nat /\ \A i \in 1..Len(q) : q[i] \in S
         /\ \A n \in Nat : \A f \in [1..n -> S] : f \in Seq(S)
  OBVIOUS

(* A list with an element replaced.                                         *)
LEMMA ListReplaces ==
  ASSUME NEW S, NEW q \in Seq(S), NEW j, NEW e \in S
  PROVE  [q EXCEPT ![j] = e] \in Seq(S)
<1>1. Len(q) \in Nat /\ q \in [1..Len(q) -> S]
  OBVIOUS
<1>2. [q EXCEPT ![j] = e] \in [1..Len(q) -> S]
  BY Zenon, <1>1
<1> QED BY Zenon, <1>1, <1>2, ListFacts

(* The spaces in etcd.                                                      *)
LEMMA EtcdStep ==
  ASSUME ListInv, CreateInEtcd \/ DeleteInEtcd
  PROVE  ListInv'
<1>1. UNCHANGED <<phase, infos, loaded, conns, local, file, mtx, pc, arg>>
  BY Zenon DEF CreateInEtcd, DeleteInEtcd, mainVars, threadVars
<1>2. IsFiniteSet(mata')
  <2>1. IsFiniteSet(mata)
    BY Zenon DEF ListInv
  <2>2. PICK k : mata' = mata \cup {k} \/ mata' = mata \ {k}
    BY Zenon DEF CreateInEtcd, DeleteInEtcd
  <2>3. IsFiniteSet(mata \cup {k}) /\ IsFiniteSet(mata \ {k})
    BY Zenon, <2>1, FS_AddElement, FS_RemoveElement
  <2> QED BY Zenon, <2>2, <2>3
<1>3. changes' \in 0..MaxChanges
  <2>1. changes < MaxChanges /\ changes' = changes + 1 /\ changes \in 0..MaxChanges
    BY Zenon DEF ListInv, CreateInEtcd, DeleteInEtcd
  <2> QED BY <2>1, RouterAssumption
<1> QED BY Zenon, <1>1, <1>2, <1>3 DEF ListInv

(* main: Init takes a list of the spaces in etcd, or the saved one, and     *)
(* goes through it.                                                         *)
LEMMA MainStep ==
  ASSUME IInv, ListInv, StartServer \/ ScanEtcd \/ LockForLoad \/ LoadSpace \/ FinishLoad \/ Stop
  PROVE  ListInv'
<1>1. UNCHANGED <<mata, changes>>
  BY Zenon DEF StartServer, ScanEtcd, LockForLoad, LoadSpace, FinishLoad, Stop, etcdVars
<1> DEFINE Slots == Seq(Keys \cup {Null})
           Lists == Seq(Keys)
<1>2. /\ <<>> \in Slots /\ <<>> \in Lists /\ Len(<<>>) = 0
      /\ \A q \in Slots, e \in Keys : Append(q, e) \in Slots
      /\ \A q \in Lists : Len(q) \in Nat /\ \A i \in 1..Len(q) : q[i] \in Keys
  BY Zenon, ListFacts
<1>3. /\ infos \in Lists /\ local \in Lists /\ file \in Lists /\ conns \in Slots
      /\ loaded \in Nat /\ loaded <= Len(infos)
  BY Zenon DEF ListInv, IInv, TableType
<1>4. CASE StartServer \/ LockForLoad
  <2>1. UNCHANGED <<infos, loaded, conns, local, file, pc, arg>>
    BY Zenon, <1>4 DEF StartServer, LockForLoad, threadVars
  <2>2. phase' \in {"scan", "load"} /\ (mtx' = mtx \/ mtx' = Main)
    BY Zenon, <1>4 DEF StartServer, LockForLoad
  <2> QED BY Zenon, <1>1, <2>1, <2>2 DEF ListInv
<1>5. CASE ScanEtcd
  <2>1. /\ phase = "scan" /\ phase' = "lock" /\ local' = infos'
        /\ UNCHANGED <<loaded, conns, mtx, pc, arg>>
    BY Zenon, <1>5 DEF ScanEtcd, threadVars
  <2>2. infos' \in Lists /\ file' \in Lists
    <3>1. CASE mata = {}
      BY Zenon, <1>3, <1>5, <3>1 DEF ScanEtcd
    <3>2. CASE mata # {}
      <4>1. file' = infos' /\ infos' \in [1..Cardinality(mata) -> mata]
        BY Zenon, <1>5, <3>2 DEF ScanEtcd, Bijection, Injection, Surjection
      <4>2. mata \subseteq Keys /\ Cardinality(mata) \in Nat
        BY Zenon, FS_CardinalityType DEF IInv, TableType, ListInv
      <4>3. infos' \in [1..Cardinality(mata) -> Keys]
        BY Zenon, <4>1, <4>2
      <4> QED BY Zenon, <4>1, <4>2, <4>3, ListFacts
    <3> QED BY Zenon, <3>1, <3>2
  <2>3. loaded' <= Len(infos')
    <3>1. loaded' = 0 /\ Len(infos') \in Nat
      BY Zenon, <1>2, <2>1, <2>2 DEF IInv, RangeInv
    <3> QED BY <3>1
  <2> QED BY Zenon, <1>1, <2>1, <2>2, <2>3 DEF ListInv
<1>6. CASE LoadSpace
  <2>1. /\ loaded < Len(infos) /\ loaded' = loaded + 1
        /\ conns' = Append(conns, infos[loaded + 1])
        /\ UNCHANGED <<phase, infos, local, file, mtx, pc, arg>>
    BY Zenon, <1>6 DEF LoadSpace, threadVars
  <2>2. loaded + 1 \in 1..Len(infos) /\ loaded' <= Len(infos')
    <3>1. Len(infos) \in Nat
      BY Zenon, <1>2, <1>3
    <3> HIDE DEF Lists, Slots
    <3> QED BY <1>3, <2>1, <3>1
  <2>3. conns' \in Slots
    BY Zenon, <1>2, <1>3, <2>1, <2>2
  <2> QED BY Zenon, <1>1, <2>1, <2>2, <2>3 DEF ListInv
<1>7. CASE FinishLoad
  <2>1. /\ phase' = "serve" /\ infos' = <<>> /\ loaded' = 0 /\ mtx' = NoThread
        /\ UNCHANGED <<conns, local, file, pc, arg>>
    BY Zenon, <1>7 DEF FinishLoad, threadVars
  <2>2. loaded' <= Len(infos')
    BY <1>2, <2>1
  <2> QED BY Zenon, <1>1, <1>2, <2>1, <2>2 DEF ListInv
<1>8. CASE Stop
  <2>1. /\ phase' = "off" /\ infos' = <<>> /\ loaded' = 0 /\ conns' = <<>> /\ local' = <<>>
        /\ file' = file \/ file' = <<>>
        /\ mtx' = NoThread /\ pc' = [t \in Threads |-> "idle"]
    BY Zenon, <1>8 DEF Stop
  <2>2. loaded' <= Len(infos')
    BY <1>2, <2>1
  <2>3. \A t \in Threads : pc'[t] # "a_local"
    BY Zenon, <2>1
  <2> QED BY Zenon, <1>1, <1>2, <1>3, <2>1, <2>2, <2>3 DEF ListInv
<1> QED BY Zenon, <1>4, <1>5, <1>6, <1>7, <1>8

(* A request adds a key of its own to the slots and the saved list, or      *)
(* takes one away.                                                          *)
LEMMA ThreadStep ==
  ASSUME IInv, ListInv, NEW t \in Threads, Thread(t)
  PROVE  ListInv'
<1>1. UNCHANGED <<mata, changes, phase, infos, loaded>>
  BY Zenon DEF Thread, AddRefused, AddReusesSlot, AddAppends, IndexAdded, SaveAdded, DeleteLocal,
     SaveDeleted, DeleteRefused, DeleteIndex, FreeSlot, GetIndex, GetSlot, etcdVars, mainVars
<1> DEFINE Slots == Seq(Keys \cup {Null})
           Lists == Seq(Keys)
<1>2. /\ \A q \in Slots, e \in Keys : Append(q, e) \in Slots
      /\ \A q \in Slots, e \in Keys \cup {Null} : \A j : [q EXCEPT ![j] = e] \in Slots
      /\ \A q \in Lists, e \in Keys : Append(q, e) \in Lists /\ Without(q, e) \in Lists
  BY Zenon, ListFacts, ListReplaces, WithoutType
<1>3. local \in Lists /\ file \in Lists /\ conns \in Slots /\ mtx \in Threads \cup {Main, NoThread}
  BY Zenon DEF ListInv
<1>4. \A c \in calls : c.key \in Keys
  BY Zenon DEF IInv, TableType, Call
<1>5. conns' \in Slots
  <2>1. \/ conns' = conns
        \/ \E c \in calls : conns' = Append(conns, c.key)
        \/ \E e \in Keys \cup {Null} : \E j : conns' = [conns EXCEPT ![j] = e]
    BY Zenon, <1>4 DEF Thread, AddRefused, AddReusesSlot, AddAppends, IndexAdded, SaveAdded,
       DeleteLocal, SaveDeleted, DeleteRefused, DeleteIndex, FreeSlot, GetIndex, GetSlot
  <2> HIDE DEF Slots
  <2> QED BY Zenon, <1>2, <1>3, <1>4, <2>1
<1>6. local' \in Lists /\ file' \in Lists
  <2>1. \/ UNCHANGED <<local, file>>
        \/ pc[t] = "a_local" /\ local' = Append(local, arg[t]) /\ file' = local'
        \/ \E c \in calls : local' = Without(local, c.key) /\ file' = file
        \/ local' = local /\ file' = local
    BY Zenon DEF Thread, AddRefused, AddReusesSlot, AddAppends, IndexAdded, SaveAdded,
       DeleteLocal, SaveDeleted, DeleteRefused, DeleteIndex, FreeSlot, GetIndex, GetSlot
  <2>2. pc[t] = "a_local" => arg[t] \in Keys
    BY Zenon DEF ListInv
  <2> HIDE DEF Lists
  <2> QED BY Zenon, <1>2, <1>3, <1>4, <2>1, <2>2
<1>7. mtx' \in Threads \cup {Main, NoThread}
  <2>1. mtx' = mtx \/ mtx' = t \/ mtx' = NoThread
    BY Zenon DEF Thread, AddRefused, AddReusesSlot, AddAppends, IndexAdded, SaveAdded,
       DeleteLocal, SaveDeleted, DeleteRefused, DeleteIndex, FreeSlot, GetIndex, GetSlot
  <2> QED BY Zenon, <1>3, <2>1
<1>8. ASSUME NEW u \in Threads, pc'[u] = "a_local" PROVE arg'[u] \in Keys
  <2>1. pc \in [Threads -> Steps] /\ arg \in [Threads -> Keys \cup {Null}]
    BY Zenon DEF IInv, TableType
  <2>2. \/ UNCHANGED <<pc, arg>>
        \/ pc[t] = "a_index" /\ UNCHANGED arg /\ pc' = [pc EXCEPT ![t] = "a_local"]
        \/ \E e \in Steps \ {"a_local"} : pc' = [pc EXCEPT ![t] = e]
                                 /\ (arg' = arg \/ \E k : arg' = [arg EXCEPT ![t] = k])
    BY Zenon DEF Thread, AddRefused, AddReusesSlot, AddAppends, IndexAdded, SaveAdded,
       DeleteLocal, SaveDeleted, DeleteRefused, DeleteIndex, FreeSlot, GetIndex, GetSlot,
       Take, Goto, Return, Steps, threadVars
  <2>3. \/ pc[u] = "a_local" /\ arg'[u] = arg[u]
        \/ u = t /\ pc[t] = "a_index" /\ arg'[u] = arg[t]
    BY Zenon, <1>8, <2>1, <2>2
  <2> QED BY Zenon, <2>3 DEF ListInv, IInv, RangeInv
<1> QED BY Zenon, <1>1, <1>5, <1>6, <1>7, <1>8 DEF ListInv

(* The state of the router is well typed whatever the master and the rpc    *)
(* threads do: a slot holds a space or nothing, an index is a number, and   *)
(* LocalSpaces and its file hold spaces only.                               *)
THEOREM TypeCorrect == Spec => []TypeOK
<1>1. Init => ListInv
  <2> SUFFICES ASSUME Init PROVE ListInv
    BY Zenon
  <2>1. 0 \in 0..MaxChanges /\ 0 <= 0
    BY RouterAssumption
  <2> QED BY Zenon, <2>1, ListFacts, FS_EmptySet DEF Init, ListInv
<1>2. IInv /\ ListInv /\ [Next]_vars => ListInv'
  <2> SUFFICES ASSUME IInv, ListInv, [Next]_vars PROVE ListInv'
    BY Zenon
  <2>1. CASE UNCHANGED vars
    BY Zenon, <2>1 DEF ListInv, vars, etcdVars, mainVars, threadVars
  <2> QED BY Zenon, <2>1, EtcdStep, MainStep, ThreadStep DEF Next
<1>3. IInv /\ ListInv => TypeOK
  <2> SUFFICES ASSUME IInv, ListInv PROVE TypeOK
    BY Zenon
  <2>1. loaded \in 0..Len(infos)
    <3>1. loaded \in Nat /\ loaded <= Len(infos) /\ Len(infos) \in Nat
      BY Zenon, ListFacts DEF IInv, TableType, ListInv
    <3> QED BY <3>1
  <2> QED BY Zenon, <2>1 DEF TypeOK, IInv, TableType, ListInv
<1> QED BY <1>1, <1>2, <1>3, Invariant, PTL DEF Spec

-----------------------------------------------------------------------------
(* Nobody indexes the key of an AddSpace between its test and its Put.      *)
LEMMA AbsentStep ==
  IInv /\ AbsentInv /\ [Next]_vars => AbsentInv'
<1> SUFFICES ASSUME IInv, AbsentInv, [Next]_vars, NEW t \in Threads, pc'[t] = "a_index"
             PROVE  index'[arg'[t]] = 0
  BY Zenon DEF AbsentInv
<1>1. TableType
  BY Zenon DEF IInv
<1>2. CASE pc[t] = "a_index" /\ arg'[t] = arg[t]
  <2>1. mtx = t /\ phase # "load" /\ arg[t] \in Keys /\ index[arg[t]] = 0
    BY Zenon, <1>2, RouterAssumption DEF IInv, LockInv, Locking, RangeInv, AbsentInv
  <2>2. \A u \in Threads : pc[u] = "a_index" => u = t
    BY Zenon, <2>1 DEF IInv, LockInv, Locking
  <2>3. ~IndexAdded(t)
    BY Zenon, <1>1, <1>2 DEF IndexAdded, Goto, Return, TableType
  <2>4. \/ index' = index
        \/ \E k \in Keys : index' = [index EXCEPT ![k] = 0]
        \/ index' = [k \in Keys |-> 0]
    <3>1. ASSUME NEW u \in Threads, DeleteIndex(u) PROVE arg[u] \in Keys
      BY Zenon, <3>1 DEF DeleteIndex, IInv, RangeInv
    <3> QED BY Zenon, <2>1, <2>2, <2>3, <3>1 DEF Next, Thread, vars, CreateInEtcd, DeleteInEtcd,
       StartServer, ScanEtcd, LockForLoad, LoadSpace, FinishLoad, Stop, AddRefused, AddReusesSlot,
       AddAppends, IndexAdded, SaveAdded, DeleteLocal, SaveDeleted, DeleteRefused, DeleteIndex,
       Delete, FreeSlot, GetIndex, GetSlot
  <2>5. index \in [Keys -> Nat]
    BY Zenon, <1>1 DEF TableType
  <2>6. index'[arg[t]] = 0
    BY Zenon, <2>1, <2>4, <2>5
  <2> QED BY Zenon, <1>2, <2>6
<1>3. CASE AddReusesSlot(t) \/ AddAppends(t)
  BY Zenon, <1>1, <1>3 DEF AddReusesSlot, AddAppends, Take, TableType
<1>4. ASSUME NEW u \in Threads, Thread(u)
      PROVE  \/ pc[t] = "a_index" /\ arg'[t] = arg[t]
             \/ AddReusesSlot(t) \/ AddAppends(t)
  <2>1. pc \in [Threads -> Steps] /\ arg \in [Threads -> Keys \cup {Null}]
    BY Zenon, <1>1 DEF TableType
  <2>2. \/ UNCHANGED <<pc, arg>>
        \/ AddReusesSlot(u) \/ AddAppends(u)
        \/ \E e \in Steps \ {"a_index"} : pc' = [pc EXCEPT ![u] = e]
    BY Zenon, <1>4 DEF Thread, AddRefused, IndexAdded, SaveAdded, DeleteLocal, SaveDeleted,
       DeleteRefused, DeleteIndex, FreeSlot, GetIndex, GetSlot, Take, Goto, Return, Steps, threadVars
  <2>3. arg' = arg \/ \E k : arg' = [arg EXCEPT ![u] = k]
    BY Zenon, <1>4 DEF Thread, AddRefused, AddReusesSlot, AddAppends, IndexAdded, SaveAdded,
       DeleteLocal, SaveDeleted, DeleteRefused, DeleteIndex, FreeSlot, GetIndex, GetSlot,
       Take, Goto, Return, threadVars
  <2>4. CASE u = t
    BY Zenon, <2>1, <2>2, <2>4
  <2>5. CASE u # t
    <3>1. arg'[t] = arg[t]
      BY Zenon, <2>1, <2>3, <2>5
    <3>2. pc'[t] = pc[t]
      BY Zenon, <2>1, <2>2, <2>5 DEF AddReusesSlot, AddAppends, Take
    <3> QED BY Zenon, <3>1, <3>2
  <2> QED BY Zenon, <2>4, <2>5
<1>5. (\E u \in Threads : Thread(u)) \/ UNCHANGED <<pc, arg>>
  <2>1. ~Stop
    BY Zenon DEF Stop
  <2> QED BY Zenon, <2>1 DEF Next, vars, CreateInEtcd, DeleteInEtcd, StartServer, ScanEtcd,
        LockForLoad, LoadSpace, FinishLoad, threadVars
<1> QED BY Zenon, <1>2, <1>3, <1>4, <1>5

(* When no two spaces share a bucket of the index, AddSpace publishes the   *)
(* space before it answers with success: sharing a bucket is the only way   *)
(* to lose one.                                                             *)
THEOREM AddsAreFound ==
  ASSUME IsInjective(Bucket)
  PROVE  Spec => AddedIsFound
<1>1. Init => AbsentInv
  BY Zenon DEF Init, AbsentInv
<1>2. IInv /\ AbsentInv /\ [Next]_vars =>
        [\A t \in Threads : IndexAdded(t) => index'[arg[t]] # 0]_vars
  <2> SUFFICES ASSUME IInv, AbsentInv, NEW t \in Threads, IndexAdded(t)
               PROVE  index'[arg[t]] # 0
    BY Zenon
  <2>1. /\ arg[t] \in Keys /\ index[arg[t]] = 0 /\ index \in [Keys -> Nat]
        /\ AddedSlot(t) \in 1..Len(conns) /\ index' = Put(arg[t], AddedSlot(t))
    BY Zenon DEF IInv, TableType, RangeInv, AbsentInv, IndexAdded
  <2>2. AddedSlot(t) # 0
    BY <2>1
  <2>3. ~BucketTaken(arg[t])
    BY Zenon, <2>1, RouterAssumption DEF BucketTaken, IsInjective
  <2> QED BY Zenon, <2>1, <2>2, <2>3 DEF Put
<1> QED BY <1>1, <1>2, AbsentStep, Invariant, PTL DEF Spec, AddedIsFound
=============================================================================
