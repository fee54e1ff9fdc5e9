---------------------------- MODULE PsNodeProofs ----------------------------
(* The invariants of PsNode for every set of spaces and every number of node *)
(* ids.                                                                      *)
EXTENDS PsNode, TLAPS

Creating == {"engine", "block", "raft", "dump", "write"}
Dropping == {"drop", "close", "forget"}
Settled == {"register", "joining", "run"}
Owned == Spaces \X (1..nextId)

(* What the memory of the process says of the request of the handler that   *)
(* holds RaftManager::mtx, and what a process that has just started holds.  *)
MemoryInv ==
  /\ pc \in {"down", "brpc"} => hpc = "idle" /\ block = NoBlock /\ ~early
  /\ pc = "down" => req = None /\ ~hasSpace
  /\ hpc # "idle" => hreq \in Spaces /\ req = hreq
  /\ req # None => hasSpace

(* Every id on disk was given out, a process that is up has one, and it has *)
(* in memory the space of the file it wrote itself.                         *)
FileInv ==
  /\ nodeFile \in {None, Torn} \cup 1..nextId
  /\ pc # "down" => nodeFile \in 1..nextId
  /\ spaceFile \in {None, Torn} \cup Owned
  /\ acked \in {None} \cup Owned
  /\ \A s \in Spaces : pc # "down" /\ spaceFile = <<s, nodeFile>> => req = s /\ hpc \notin Creating
  /\ hpc \in Dropping => acked = None
  /\ acked # None /\ nodeFile = acked[2] => spaceFile = acked

(* Where the one block stands when no handler overtook main: main and the   *)
(* handlers then never use it at the same time.                             *)
BlockInv ==
  ~early =>
    /\ pc \in Loading => hpc = "idle"
    /\ pc \in {"brpc", "check"} /\ hasSpace => req # None
    /\ pc \in Loading \ {"check"} => req # None
    /\ pc \in {"check", "load", "block"} => block = NoBlock
    /\ pc \in {"params", "raft"} \/ hpc = "raft" => block = [root |-> None, run |-> FALSE]
    /\ pc = "raft" => root = req
    /\ hpc \in {"dump", "write"} => block # NoBlock /\ block.root = hreq
    /\ hpc \in {"close", "forget"} => block = NoBlock
    /\ pc \in Settled /\ hpc = "idle" =>
         /\ req # None => block # NoBlock /\ block.root = req
         /\ ~hasSpace => block = NoBlock
    /\ block # NoBlock /\ block.run => block.root \in raftDir

IInv == TypeOK /\ MemoryInv /\ FileInv /\ BlockInv

(* A block that was just created is not the absent one.                     *)
LEMMA EmptyIsBlock == [root |-> None, run |-> FALSE] # NoBlock
<1>1. [root |-> None, run |-> FALSE] \in [root : Spaces \cup {None, Base}, run : BOOLEAN]
  BY Zenon
<1> QED BY Zenon, <1>1, NodeAssumption

(* Every step of main keeps the inductive invariant (ps_main.cc 25-82).     *)
LEMMA MainKeeps == ASSUME IInv, Main PROVE IInv'
<1> USE NodeAssumption DEF IInv, disk, mata, main, handler, hist
<1>1. CASE LoadNodeMata
  <2>1. TypeOK'
    BY Zenon, <1>1 DEF LoadNodeMata, LoadRequest, mata, TypeOK, Files, Roots, Loading, MemoryInv, FileInv, Owned
  <2>2. MemoryInv'
    BY Zenon, <1>1 DEF LoadNodeMata, LoadRequest, mata, MemoryInv, TypeOK, Loading
  <2>3. FileInv'
    BY <1>1 DEF LoadNodeMata, LoadRequest, mata, FileInv, MemoryInv, Owned, Creating, Dropping, TypeOK, Files
  <2>4. BlockInv'
    BY Zenon, <1>1 DEF LoadNodeMata, LoadRequest, mata, BlockInv, MemoryInv, TypeOK, Loading, Settled, Roots, FileInv, Owned
  <2> QED BY Zenon, <2>1, <2>2, <2>3, <2>4
<1>2. CASE CreateNodeMata
  <2>1. TypeOK'
    BY <1>2 DEF CreateNodeMata, GivenId, TypeOK, Files, Roots, Loading, MemoryInv, FileInv, Owned
  <2>2. MemoryInv'
    BY Zenon, <1>2 DEF CreateNodeMata, GivenId, MemoryInv, TypeOK, Loading
  <2>3. FileInv'
    BY <1>2 DEF CreateNodeMata, GivenId, FileInv, MemoryInv, Owned, Creating, Dropping, TypeOK, Files
  <2>4. BlockInv'
    BY Zenon, <1>2 DEF CreateNodeMata, GivenId, BlockInv, MemoryInv, TypeOK, Loading, Settled, Roots
  <2> QED BY Zenon, <2>1, <2>2, <2>3, <2>4
<1>3. CASE StartBrpc
  <2>1. TypeOK'
    BY Zenon, <1>3 DEF StartBrpc, Exit, Forget, DeleteBlockDir, TypeOK, Files, Roots, Loading, MemoryInv, FileInv, Owned
  <2>2. MemoryInv'
    BY Zenon, <1>3 DEF StartBrpc, Exit, Forget, DeleteBlockDir, MemoryInv, TypeOK, Loading
  <2>3. FileInv'
    BY Zenon, <1>3 DEF StartBrpc, Exit, Forget, DeleteBlockDir, FileInv, MemoryInv, Owned, Creating, Dropping, TypeOK, Files
  <2>4. BlockInv'
    BY Zenon, <1>3 DEF StartBrpc, Exit, Forget, DeleteBlockDir, BlockInv, MemoryInv, TypeOK, Loading, Settled, Roots
  <2> QED BY Zenon, <2>1, <2>2, <2>3, <2>4
<1>4. CASE CheckSpace
  <2>1. TypeOK'
    BY <1>4 DEF CheckSpace, TypeOK, Files, Roots, Loading, MemoryInv, FileInv, Owned
  <2>2. MemoryInv'
    BY Zenon, <1>4 DEF CheckSpace, MemoryInv, TypeOK, Loading
  <2>3. FileInv'
    BY Zenon, <1>4 DEF CheckSpace, FileInv, MemoryInv, Owned, Creating, Dropping, TypeOK, Files
  <2>4. BlockInv'
    BY Zenon, <1>4 DEF CheckSpace, BlockInv, MemoryInv, TypeOK, Loading, Settled, Roots
  <2> QED BY Zenon, <2>1, <2>2, <2>3, <2>4
<1>5. CASE LoadEngine
  <2>1. TypeOK'
    BY Zenon, <1>5 DEF LoadEngine, Exit, Forget, DeleteBlockDir, TypeOK, Files, Roots, Loading, MemoryInv, FileInv, Owned
  <2>2. MemoryInv'
    BY Zenon, <1>5 DEF LoadEngine, Exit, Forget, DeleteBlockDir, MemoryInv, TypeOK, Loading
  <2>3. FileInv'
    BY Zenon, <1>5 DEF LoadEngine, Exit, Forget, DeleteBlockDir, FileInv, MemoryInv, Owned, Creating, Dropping, TypeOK, Files
  <2>4. BlockInv'
    BY Zenon, <1>5 DEF LoadEngine, Exit, Forget, DeleteBlockDir, BlockInv, MemoryInv, TypeOK, Loading, Settled, Roots
  <2> QED BY Zenon, <2>1, <2>2, <2>3, <2>4
<1>6. CASE MainCreateBlock
  <2>1. TypeOK'
    BY <1>6 DEF MainCreateBlock, CreateBlock, DeleteBlockDir, TypeOK, Files, Roots, Loading, MemoryInv, FileInv, Owned
  <2>2. MemoryInv'
    BY Zenon, <1>6 DEF MainCreateBlock, CreateBlock, DeleteBlockDir, MemoryInv, TypeOK, Loading
  <2>3. FileInv'
    BY Zenon, <1>6 DEF MainCreateBlock, CreateBlock, DeleteBlockDir, FileInv, MemoryInv, Owned, Creating, Dropping, TypeOK, Files
  <2>4. BlockInv'
    BY Zenon, <1>6 DEF MainCreateBlock, CreateBlock, DeleteBlockDir, BlockInv, MemoryInv, TypeOK, Loading, Settled, Roots
  <2> QED BY Zenon, <2>1, <2>2, <2>3, <2>4
<1>7. CASE MainRaftParams
  <2>1. TypeOK'
    BY <1>7 DEF MainRaftParams, TypeOK, Files, Roots, Loading, MemoryInv, FileInv, Owned
  <2>2. MemoryInv'
    BY Zenon, <1>7 DEF MainRaftParams, MemoryInv, TypeOK, Loading
  <2>3. FileInv'
    BY Zenon, <1>7 DEF MainRaftParams, FileInv, MemoryInv, Owned, Creating, Dropping, TypeOK, Files
  <2>4. BlockInv'
    BY Zenon, <1>7 DEF MainRaftParams, BlockInv, MemoryInv, TypeOK, Loading, Settled, Roots
  <2> QED BY Zenon, <2>1, <2>2, <2>3, <2>4
<1>8. CASE MainStartRaft
  <2>1. TypeOK'
    BY <1>8 DEF MainStartRaft, StartRaftServer, TypeOK, Files, Roots, Loading, MemoryInv, FileInv, Owned
  <2>2. MemoryInv'
    BY Zenon, <1>8 DEF MainStartRaft, StartRaftServer, MemoryInv, TypeOK, Loading
  <2>3. FileInv'
    BY Zenon, <1>8 DEF MainStartRaft, StartRaftServer, FileInv, MemoryInv, Owned, Creating, Dropping, TypeOK, Files
  <2>4. BlockInv'
    <3>1. ASSUME ~early PROVE /\ block = [root |-> None, run |-> FALSE]
                              /\ root = req /\ req \in Spaces /\ hpc = "idle"
      BY Zenon, <3>1, <1>8 DEF MainStartRaft, BlockInv, TypeOK, Loading
    <3>2. ASSUME ~early PROVE block # NoBlock
      BY Zenon, <3>2, <3>1, EmptyIsBlock
    <3>3. ASSUME ~early, NEW ok \in BOOLEAN, StartRaftServer(root, ok)
          PROVE /\ block' = [root |-> req, run |-> ok] /\ block' # NoBlock
                /\ ok => req \in raftDir'
      BY <3>1, <3>2, <3>3 DEF StartRaftServer
    <3> QED BY <3>1, <3>3, <1>8 DEF MainStartRaft, BlockInv, MemoryInv, TypeOK, Loading, Settled
  <2> QED BY Zenon, <2>1, <2>2, <2>3, <2>4
<1>9. CASE LaunchRegister
  <2>1. TypeOK'
    BY <1>9 DEF LaunchRegister, TypeOK, Files, Roots, Loading, MemoryInv, FileInv, Owned
  <2>2. MemoryInv'
    BY Zenon, <1>9 DEF LaunchRegister, MemoryInv, TypeOK, Loading
  <2>3. FileInv'
    BY Zenon, <1>9 DEF LaunchRegister, FileInv, MemoryInv, Owned, Creating, Dropping, TypeOK, Files
  <2>4. BlockInv'
    BY Zenon, <1>9 DEF LaunchRegister, BlockInv, MemoryInv, TypeOK, Loading, Settled, Roots
  <2> QED BY Zenon, <2>1, <2>2, <2>3, <2>4
<1>10. CASE RegisterDone
  <2>1. TypeOK'
    BY Zenon, <1>10 DEF RegisterDone, Exit, Forget, DeleteBlockDir, TypeOK, Files, Roots, Loading, MemoryInv, FileInv, Owned
  <2>2. MemoryInv'
    BY Zenon, <1>10 DEF RegisterDone, Exit, Forget, DeleteBlockDir, MemoryInv, TypeOK, Loading
  <2>3. FileInv'
    BY <1>10 DEF RegisterDone, Exit, Forget, DeleteBlockDir, FileInv, MemoryInv, Owned, Creating, Dropping, TypeOK, Files
  <2>4. BlockInv'
    BY <1>10 DEF RegisterDone, Exit, Forget, DeleteBlockDir, BlockInv, MemoryInv, TypeOK, Loading, Settled, Roots
  <2> QED BY Zenon, <2>1, <2>2, <2>3, <2>4
<1>11. CASE BrpcStop
  <2>1. TypeOK'
    BY Zenon, <1>11 DEF BrpcStop, Exit, Forget, DeleteBlockDir, TypeOK, Files, Roots, Loading, MemoryInv, FileInv, Owned
  <2>2. MemoryInv'
    BY Zenon, <1>11 DEF BrpcStop, Exit, Forget, DeleteBlockDir, MemoryInv, TypeOK, Loading
  <2>3. FileInv'
    BY Zenon, <1>11 DEF BrpcStop, Exit, Forget, DeleteBlockDir, FileInv, MemoryInv, Owned, Creating, Dropping, TypeOK, Files
  <2>4. BlockInv'
    BY Zenon, <1>11 DEF BrpcStop, Exit, Forget, DeleteBlockDir, BlockInv, MemoryInv, TypeOK, Loading, Settled, Roots
  <2> QED BY Zenon, <2>1, <2>2, <2>3, <2>4
<1> QED BY Zenon, <1>1, <1>2, <1>3, <1>4, <1>5, <1>6, <1>7, <1>8, <1>9, <1>10, <1>11 DEF Main

(* Every step of CreateSpace and DeleteSpace keeps it (ps_rpc.cc 58-144).   *)
LEMMA HandlerKeeps == ASSUME IInv, Handler PROVE IInv'
<1> USE NodeAssumption DEF IInv, disk, mata, main, handler, hist
<1>1. ASSUME NEW s \in Spaces, CreateSpace(s) PROVE IInv'
  <2>1. TypeOK'
    BY <1>1 DEF CreateSpace, Handle, Serving, MayCreate, TypeOK, Files, Roots, Loading, MemoryInv, FileInv, Owned
  <2>2. MemoryInv'
    BY Zenon, <1>1 DEF CreateSpace, Handle, Serving, MayCreate, MemoryInv, TypeOK, Loading
  <2>3. FileInv'
    BY Zenon, <1>1 DEF CreateSpace, Handle, Serving, MayCreate, FileInv, MemoryInv, Owned, Creating, Dropping, TypeOK, Files
  <2>4. BlockInv'
    BY Zenon, <1>1 DEF CreateSpace, Handle, Serving, MayCreate, BlockInv, MemoryInv, TypeOK, Loading, Settled, Roots
  <2> QED BY Zenon, <2>1, <2>2, <2>3, <2>4
<1>2. CASE CreateTable
  <2>1. TypeOK'
    BY <1>2 DEF CreateTable, Handle, Reply, Serving, ClearReq, TypeOK, Files, Roots, Loading, MemoryInv, FileInv, Owned
  <2>2. MemoryInv'
    BY Zenon, <1>2 DEF CreateTable, Handle, Reply, Serving, ClearReq, MemoryInv, TypeOK, Loading
  <2>3. FileInv'
    BY Zenon, <1>2 DEF CreateTable, Handle, Reply, Serving, ClearReq, FileInv, MemoryInv, Owned, Creating, Dropping, TypeOK, Files
  <2>4. BlockInv'
    BY Zenon, <1>2 DEF CreateTable, Handle, Reply, Serving, ClearReq, BlockInv, MemoryInv, TypeOK, Loading, Settled, Roots
  <2> QED BY Zenon, <2>1, <2>2, <2>3, <2>4
<1>3. CASE CreateRaftBlock
  <2>1. TypeOK'
    BY <1>3 DEF CreateRaftBlock, Handle, Serving, CreateBlock, DeleteBlockDir, TypeOK, Files, Roots, Loading, MemoryInv, FileInv, Owned
  <2>2. MemoryInv'
    BY Zenon, <1>3 DEF CreateRaftBlock, Handle, Serving, CreateBlock, DeleteBlockDir, MemoryInv, TypeOK, Loading
  <2>3. FileInv'
    BY Zenon, <1>3 DEF CreateRaftBlock, Handle, Serving, CreateBlock, DeleteBlockDir, FileInv, MemoryInv, Owned, Creating, Dropping, TypeOK, Files
  <2>4. BlockInv'
    BY Zenon, <1>3 DEF CreateRaftBlock, Handle, Serving, CreateBlock, DeleteBlockDir, BlockInv, MemoryInv, TypeOK, Loading, Settled, Roots
  <2> QED BY Zenon, <2>1, <2>2, <2>3, <2>4
<1>4. CASE StartRaft
  <2>1. TypeOK'
    BY <1>4 DEF StartRaft, Handle, Reply, Serving, ClearReq, StartRaftServer, TypeOK, Files, Roots, Loading, MemoryInv, FileInv, Owned
  <2>2. MemoryInv'
    BY Zenon, <1>4 DEF StartRaft, Handle, Reply, Serving, ClearReq, StartRaftServer, MemoryInv, TypeOK, Loading
  <2>3. FileInv'
    BY Zenon, <1>4 DEF StartRaft, Handle, Reply, Serving, ClearReq, StartRaftServer, FileInv, MemoryInv, Owned, Creating, Dropping, TypeOK, Files
  <2>4. BlockInv'
    BY <1>4 DEF StartRaft, Handle, Reply, Serving, ClearReq, StartRaftServer, BlockInv, MemoryInv, TypeOK, Loading, Settled, Roots
  <2> QED BY Zenon, <2>1, <2>2, <2>3, <2>4
<1>5. CASE OpenSpaceFile
  <2>1. TypeOK'
    BY <1>5 DEF OpenSpaceFile, Handle, Reply, Serving, DumpFailed, ClearReq, TypeOK, Files, Roots, Loading, MemoryInv, FileInv, Owned
  <2>2. MemoryInv'
    BY Zenon, <1>5 DEF OpenSpaceFile, Handle, Reply, Serving, DumpFailed, ClearReq, MemoryInv, TypeOK, Loading
  <2>3. FileInv'
    BY <1>5 DEF OpenSpaceFile, Handle, Reply, Serving, DumpFailed, ClearReq, FileInv, MemoryInv, Owned, Creating, Dropping, TypeOK, Files
  <2>4. BlockInv'
    BY Zenon, <1>5 DEF OpenSpaceFile, Handle, Reply, Serving, DumpFailed, ClearReq, BlockInv, MemoryInv, TypeOK, Loading, Settled, Roots
  <2> QED BY Zenon, <2>1, <2>2, <2>3, <2>4
<1>6. CASE WriteSpaceFile
  <2>1. TypeOK'
    BY <1>6 DEF WriteSpaceFile, Reply, Handle, Serving, TypeOK, Files, Roots, Loading, MemoryInv, FileInv, Owned
  <2>2. MemoryInv'
    BY Zenon, <1>6 DEF WriteSpaceFile, Reply, Handle, Serving, MemoryInv, TypeOK, Loading
  <2>3. FileInv'
    BY Zenon, <1>6 DEF WriteSpaceFile, Reply, Handle, Serving, FileInv, MemoryInv, Owned, Creating, Dropping, TypeOK, Files
  <2>4. BlockInv'
    BY Zenon, <1>6 DEF WriteSpaceFile, Reply, Handle, Serving, BlockInv, MemoryInv, TypeOK, Loading, Settled, Roots
  <2> QED BY Zenon, <2>1, <2>2, <2>3, <2>4
<1>7. ASSUME NEW s \in Spaces, DeleteSpace(s) PROVE IInv'
  <2>1. TypeOK'
    BY <1>7 DEF DeleteSpace, Handle, Serving, TypeOK, Files, Roots, Loading, MemoryInv, FileInv, Owned
  <2>2. MemoryInv'
    BY Zenon, <1>7 DEF DeleteSpace, Handle, Serving, MemoryInv, TypeOK, Loading
  <2>3. FileInv'
    BY Zenon, <1>7 DEF DeleteSpace, Handle, Serving, FileInv, MemoryInv, Owned, Creating, Dropping, TypeOK, Files
  <2>4. BlockInv'
    BY Zenon, <1>7 DEF DeleteSpace, Handle, Serving, BlockInv, MemoryInv, TypeOK, Loading, Settled, Roots
  <2> QED BY Zenon, <2>1, <2>2, <2>3, <2>4
<1>8. CASE DropBlock
  <2>1. TypeOK'
    BY <1>8 DEF DropBlock, Handle, Serving, DeleteBlock, DeleteBlockDir, TypeOK, Files, Roots, Loading, MemoryInv, FileInv, Owned
  <2>2. MemoryInv'
    BY Zenon, <1>8 DEF DropBlock, Handle, Serving, DeleteBlock, DeleteBlockDir, MemoryInv, TypeOK, Loading
  <2>3. FileInv'
    BY Zenon, <1>8 DEF DropBlock, Handle, Serving, DeleteBlock, DeleteBlockDir, FileInv, MemoryInv, Owned, Creating, Dropping, TypeOK, Files
  <2>4. BlockInv'
    BY Zenon, <1>8 DEF DropBlock, Handle, Serving, DeleteBlock, DeleteBlockDir, BlockInv, MemoryInv, TypeOK, Loading, Settled, Roots
  <2> QED BY Zenon, <2>1, <2>2, <2>3, <2>4
<1>9. CASE DropEngine
  <2>1. TypeOK'
    BY <1>9 DEF DropEngine, Handle, Serving, TypeOK, Files, Roots, Loading, MemoryInv, FileInv, Owned
  <2>2. MemoryInv'
    BY Zenon, <1>9 DEF DropEngine, Handle, Serving, MemoryInv, TypeOK, Loading
  <2>3. FileInv'
    BY Zenon, <1>9 DEF DropEngine, Handle, Serving, FileInv, MemoryInv, Owned, Creating, Dropping, TypeOK, Files
  <2>4. BlockInv'
    BY Zenon, <1>9 DEF DropEngine, Handle, Serving, BlockInv, MemoryInv, TypeOK, Loading, Settled, Roots
  <2> QED BY Zenon, <2>1, <2>2, <2>3, <2>4
<1>10. CASE DropMata
  <2>1. TypeOK'
    <3>1. spaceFile' \in {None, Torn} \cup Files
      BY Zenon, <1>10 DEF DropMata, TypeOK
    <3>2. hasSpace' \in BOOLEAN
      BY Zenon, <1>10 DEF DropMata, TypeOK
    <3> QED BY <3>1, <3>2, <1>10 DEF DropMata, Reply, Handle, TypeOK, Roots, Loading
  <2>2. MemoryInv'
    BY Zenon, <1>10 DEF DropMata, Reply, Handle, Serving, MemoryInv, TypeOK, Loading
  <2>3. FileInv'
    BY <1>10 DEF DropMata, Reply, Handle, Serving, FileInv, MemoryInv, Owned, Creating, Dropping, TypeOK, Files
  <2>4. BlockInv'
    BY Zenon, <1>10 DEF DropMata, Reply, Handle, Serving, BlockInv, MemoryInv, TypeOK, Loading, Settled, Roots
  <2> QED BY Zenon, <2>1, <2>2, <2>3, <2>4
<1> QED BY Zenon, <1>1, <1>2, <1>3, <1>4, <1>5, <1>6, <1>7, <1>8, <1>9, <1>10 DEF Handler

(* So does the death of the process, or nothing happening.                 *)
LEMMA CrashKeeps == ASSUME IInv, Crash \/ UNCHANGED vars PROVE IInv'
<1> USE NodeAssumption DEF IInv, disk, mata, main, handler, hist
<1>1. CASE Crash
  <2>1. TypeOK'
    BY Zenon, <1>1 DEF Crash, Forget, TypeOK, Files, Roots, Loading, MemoryInv, FileInv, Owned
  <2>2. MemoryInv'
    BY Zenon, <1>1 DEF Crash, Forget, MemoryInv, TypeOK, Loading
  <2>3. FileInv'
    BY Zenon, <1>1 DEF Crash, Forget, FileInv, MemoryInv, Owned, Creating, Dropping, TypeOK, Files
  <2>4. BlockInv'
    BY Zenon, <1>1 DEF Crash, Forget, BlockInv, MemoryInv, TypeOK, Loading, Settled, Roots
  <2> QED BY Zenon, <2>1, <2>2, <2>3, <2>4
<1>2. CASE UNCHANGED vars
  <2>1. TypeOK'
    BY <1>2 DEF vars, TypeOK, Files, Roots, Loading, MemoryInv, FileInv, Owned
  <2>2. MemoryInv'
    BY Zenon, <1>2 DEF vars, MemoryInv, TypeOK, Loading
  <2>3. FileInv'
    BY Zenon, <1>2 DEF vars, FileInv, MemoryInv, Owned, Creating, Dropping, TypeOK, Files
  <2>4. BlockInv'
    BY Zenon, <1>2 DEF vars, BlockInv, MemoryInv, TypeOK, Loading, Settled, Roots
  <2> QED BY Zenon, <2>1, <2>2, <2>3, <2>4
<1> QED BY Zenon, <1>1, <1>2

(* The invariant is inductive.                                              *)
LEMMA Inductive == Spec => []IInv
<1>1. Init => IInv
  <2> SUFFICES ASSUME Init PROVE IInv
    BY Zenon
  <2> USE NodeAssumption DEF Init
  <2>1. TypeOK
    <3>1. spaceFile \in {None, Torn} \cup Files /\ acked \in {None} \cup Files
      BY Zenon
    <3>2. hasSpace \in BOOLEAN /\ early \in BOOLEAN
      BY Zenon
    <3> QED BY <3>1, <3>2 DEF TypeOK, Roots, Loading
  <2>2. MemoryInv /\ FileInv
    BY Zenon DEF MemoryInv, FileInv, Owned, Creating, Dropping
  <2>3. BlockInv
    BY Zenon DEF BlockInv, Loading, Settled
  <2> QED BY Zenon, <2>1, <2>2, <2>3 DEF IInv
<1>2. IInv /\ [Next]_vars => IInv'
  BY Zenon, MainKeeps, HandlerKeeps, CrashKeeps DEF Next
<1> QED BY <1>1, <1>2, PTL DEF Spec

(* Every variable keeps its type: the id a master gives out is the one the  *)
(* node saves, and no directory, request or file names an unknown space.    *)
THEOREM TypeCorrect == Spec => []TypeOK
<1>1. IInv => TypeOK
  BY Zenon DEF IInv
<1> QED BY <1>1, Inductive, PTL

(* A space whose creation was answered with code 0 survives every crash,    *)
(* exit, failed request and early request of a node that keeps its id       *)
(* (DumpCreateSpaceReq, PsLocalNodeMata::Init).                             *)
THEOREM AckedSpacesAreKept == Spec => []AckedIsKept
<1>1. IInv => AckedIsKept
  <2> SUFFICES ASSUME IInv, acked # None, nodeFile = acked[2]
               PROVE spaceFile = acked /\ (Serving => hasSpace /\ req = acked[1])
    BY Zenon DEF AckedIsKept
  <2>1. spaceFile = acked /\ acked \in Owned
    BY Zenon DEF IInv, FileInv
  <2>2. acked[1] \in Spaces /\ acked = <<acked[1], nodeFile>>
    BY <2>1 DEF Owned
  <2>3. Serving => req = acked[1]
    BY Zenon, <2>1, <2>2 DEF IInv, FileInv, Serving
  <2> QED BY Zenon, <2>1, <2>2, <2>3, NodeAssumption DEF IInv, MemoryInv
<1> QED BY <1>1, Inductive, PTL

(* A node left with _has_space and no request has no file of its own that   *)
(* would bring the state back after a restart (ps_rpc.cc 93, 104, 112).     *)
THEOREM WedgesAreVolatile == Spec => []WedgeIsVolatile
<1>1. IInv => WedgeIsVolatile
  BY Zenon, NodeAssumption DEF IInv, FileInv, WedgeIsVolatile, Serving
<1> QED BY <1>1, Inductive, PTL

(* No DeleteBlock or CreateBlock removes the directory under a running raft *)
(* node, unless a handler overtook main.                                    *)
THEOREM RunningRaftsHaveDirs == Spec => []RunningRaftHasDir
<1>1. IInv => RunningRaftHasDir
  BY Zenon DEF IInv, BlockInv, RunningRaftHasDir
<1> QED BY <1>1, Inductive, PTL

(* A quiet node has the block of its space, or neither (ps_main.cc 50-71,   *)
(* ps_rpc.cc 97, 137).                                                      *)
THEOREM QuietNodesAgree == Spec => []QuietNodeAgrees
<1>1. IInv => QuietNodeAgrees
  BY Zenon DEF IInv, BlockInv, QuietNodeAgrees, Settled
<1> QED BY <1>1, Inductive, PTL

(* The raft directory of an acknowledged space goes only with the process,  *)
(* with a DeleteSpace or with a main that an early handler overtook.        *)
THEOREM RaftDirsAreKept == Spec => RaftDirKept
<1>1. IInv /\ [Next]_vars => [RaftDirLost]_vars
  <2> SUFFICES ASSUME IInv, Next, NEW s \in Spaces,
                      s \in raftDir, s \notin raftDir', acked # None, acked = <<s, nodeFile>>
               PROVE pc' = "down" \/ (pc = "block" /\ early)
    BY Zenon DEF RaftDirLost
  <2>1. spaceFile = <<s, nodeFile>>
    BY Zenon DEF IInv, FileInv
  <2>2. pc # "down" => hpc \notin Creating /\ hpc \notin Dropping
    BY Zenon, <2>1 DEF IInv, FileInv
  <2>3. CASE Main
    BY Zenon, <2>3 DEF Main, LoadNodeMata, CreateNodeMata, StartBrpc, CheckSpace, LoadEngine, MainCreateBlock,
       MainRaftParams, MainStartRaft, LaunchRegister, RegisterDone, BrpcStop, Exit, Forget,
       CreateBlock, DeleteBlockDir, StartRaftServer, disk, IInv, BlockInv
  <2>4. CASE Handler
    <3>1. hpc = "idle"
      BY Zenon, <2>2 DEF IInv, TypeOK, MemoryInv, Creating, Dropping
    <3> QED BY Zenon, <2>4, <3>1 DEF Handler, CreateSpace, DeleteSpace, CreateTable, CreateRaftBlock, StartRaft,
       OpenSpaceFile, WriteSpaceFile, DropBlock, DropEngine, DropMata, Handle, Reply, disk
  <2>5. CASE Crash
    BY Zenon, <2>5 DEF Crash, Forget
  <2> QED BY Zenon, <2>3, <2>4, <2>5 DEF Next
<1> QED BY <1>1, Inductive, PTL DEF Spec, RaftDirKept
=============================================================================
