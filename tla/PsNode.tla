------------------------------- MODULE PsNode -------------------------------
(* One partition server (ps): its main program, the CreateSpace and         *)
(* DeleteSpace handlers that start to run before main has loaded the space, *)
(* the files and directories both write, and restarts at any point.         *)
(* A space stands for its create request; its raft group has its name.      *)
EXTENDS Naturals

CONSTANTS Spaces, None, Torn, Base, NoBlock, MaxId

ASSUME NodeAssumption ==
  /\ MaxId \in Nat
  /\ {None, Torn, Base, NoBlock} \cap (Spaces \cup Nat) = {}
  /\ {None, Torn} \cap (Spaces \X (1..MaxId)) = {}
  /\ NoBlock \notin [root : Spaces \cup {None, Base}, run : BOOLEAN]

VARIABLES
  nodeFile,   \* node_info.json: the id of the node, None or Torn
  spaceFile,  \* create_space_req.json: None, Torn or <<space, id>>
              \* (the id is not in the file: it is the one of its writer)
  engineDir,  \* the space whose table is in the gamma directory, or None
  raftDir,    \* the groups that have a directory under _raft_root_dir
  nextId,     \* the ids the masters gave out (/api/gen_id)
  pc,         \* where main is
  root,       \* main's root_path
  hpc,        \* where the handler that holds RaftManager::mtx is
  hreq,       \* the space of that handler's request
  req,        \* PsLocalNodeMata::_space_req
  hasSpace,   \* PsLocalNodeMata::_has_space
  block,      \* RaftManager::_block
  early,      \* a handler ran while main was loading (history)
  acked       \* <<space, id>> of the last CreateSpace answered 0 (history)

disk == <<nodeFile, spaceFile, engineDir, raftDir>>
mata == <<req, hasSpace>>
main == <<pc, root>>
handler == <<hpc, hreq>>
hist == <<early, acked>>
vars == <<disk, nextId, main, handler, mata, block, hist>>

Loading == {"check", "load", "block", "params", "raft"}
Serving == pc \notin {"down", "brpc"}

Init ==
  /\ nodeFile = None /\ spaceFile = None /\ engineDir = None /\ raftDir = {}
  /\ nextId = 0
  /\ pc = "down" /\ root = None
  /\ hpc = "idle" /\ hreq = None
  /\ req = None /\ hasSpace = FALSE
  /\ block = NoBlock
  /\ early = FALSE /\ acked = None

-----------------------------------------------------------------------------
(* RaftManager and Block *)

(* The directories left when DeleteBlock has removed the root path of the   *)
(* block recursively; an unstarted block has an empty root path.            *)
DeleteBlockDir ==
  CASE block = NoBlock    -> raftDir
    [] block # NoBlock /\ block.root = Base -> {}
    [] OTHER              -> raftDir \ {block.root}

KeepBlock == raftDir' = DeleteBlockDir /\ UNCHANGED block
LeaveBlock == UNCHANGED <<raftDir, block>>
DeleteBlock == raftDir' = DeleteBlockDir /\ block' = NoBlock

CreateBlock ==
  raftDir' = DeleteBlockDir /\ block' = [root |-> None, run |-> FALSE]

(* StartRaftServer(r): ok when Block::start returned 0. The root path is    *)
(* set first; a second start of a running block fails in Node::init.        *)
StartRaftServer(r, ok) ==
  IF block = NoBlock
  THEN ~ok /\ UNCHANGED <<raftDir, block>>
  ELSE /\ ok => r # None /\ ~block.run
       /\ block' = [root |-> r, run |-> block.run \/ ok]
       /\ \/ raftDir' = raftDir \cup ({r} \cap Spaces)
          \/ ~ok /\ UNCHANGED raftDir

-----------------------------------------------------------------------------
(* The process *)

(* Memory is gone; the files and directories stay. *)
Forget ==
  /\ pc' = "down" /\ root' = None
  /\ hpc' = "idle" /\ hreq' = None
  /\ req' = None /\ hasSpace' = FALSE
  /\ block' = NoBlock
  /\ early' = FALSE

Crash ==
  /\ pc # "down"
  /\ Forget
  /\ UNCHANGED <<disk, nextId, acked>>

(* main returned: the static RaftManager is destroyed, which deletes the    *)
(* block and with it the raft directory.                                    *)
Exit(node) ==
  /\ nodeFile' = node
  /\ raftDir' = DeleteBlockDir
  /\ Forget
  /\ UNCHANGED <<spaceFile, engineDir, nextId, acked>>

(* PsLocalNodeMata::Init of the request. *)
ForgetRequest == UNCHANGED mata
LoadRequest ==
  IF spaceFile = None THEN UNCHANGED mata
  ELSE req' = spaceFile[1] /\ hasSpace' = TRUE

(* CreateOrLoadNodeMata with a node file: the space file is read as well,   *)
(* and a file that is not JSON ends the process.                            *)
LoadNodeMata ==
  /\ pc = "down"
  /\ nodeFile \notin {None, Torn}
  /\ spaceFile # Torn
  /\ pc' = "brpc"
  /\ LoadRequest
  /\ UNCHANGED <<disk, nextId, root, handler, block, hist>>

(* The id of /api/gen_id; DumpNodeInfo refuses 0. *)
LastId == nextId
GivenId == nextId + 1

(* CreateOrLoadNodeMata without one: a new id is saved, and the space file  *)
(* is not looked at. The write may tear.                                    *)
CreateNodeMata ==
  /\ pc = "down"
  /\ nodeFile = None
  /\ nextId < MaxId
  /\ nextId' = nextId + 1
  /\ \/ nodeFile' = GivenId /\ pc' = "brpc"
     \/ nodeFile' = Torn /\ UNCHANGED pc
     \/ UNCHANGED <<nodeFile, pc>>
  /\ UNCHANGED <<spaceFile, engineDir, raftDir, root, handler, mata, block, hist>>

StartBrpc ==
  /\ pc = "brpc"
  /\ \/ pc' = "check" /\ UNCHANGED <<disk, nextId, root, handler, mata, block, hist>>
     \/ Exit(nodeFile)

CheckSpace ==
  /\ pc = "check"
  /\ pc' = IF hasSpace THEN "load" ELSE "register"
  /\ UNCHANGED <<disk, nextId, root, handler, mata, block, hist>>

(* InitEngine and Load of gamma. *)
LoadEngine ==
  /\ pc = "load"
  /\ \/ pc' = "block" /\ engineDir # None
        /\ UNCHANGED <<disk, nextId, root, handler, mata, block, hist>>
     \/ Exit(nodeFile)

MainCreateBlock ==
  /\ pc = "block"
  /\ pc' = "params"
  /\ CreateBlock
  /\ UNCHANGED <<nodeFile, spaceFile, engineDir, nextId, root, handler, mata, hist>>

(* GetRaftParams: without a space the root path stays empty; with a space   *)
(* flag but no request it is the directory of all groups.                   *)
MainRaftParams ==
  /\ pc = "params"
  /\ pc' = "raft"
  /\ root' = IF ~hasSpace THEN None ELSE IF req = None THEN Base ELSE req
  /\ UNCHANGED <<disk, nextId, handler, mata, block, hist>>

(* An error of the start is only logged. *)
MainStartRaft ==
  /\ pc = "raft"
  /\ pc' = "register"
  /\ \E ok \in BOOLEAN : StartRaftServer(root, ok)
  /\ UNCHANGED <<nodeFile, spaceFile, engineDir, nextId, root, handler, mata, hist>>

(* LaunchRegister(HasSpace()): with a space the registration goes on in the *)
(* background, without one main waits for its result.                       *)
LaunchRegister ==
  /\ pc = "register"
  /\ pc' = IF hasSpace THEN "run" ELSE "joining"
  /\ UNCHANGED <<disk, nextId, root, handler, mata, block, hist>>

RegisterDone ==
  /\ pc = "joining"
  /\ \/ pc' = "run" /\ UNCHANGED <<disk, nextId, root, handler, mata, block, hist>>
     \/ Exit(None)  \* DeleteNodeInfo

BrpcStop == pc = "run" /\ hpc = "idle" /\ Exit(nodeFile)

-----------------------------------------------------------------------------
(* PsRpcImpl::CreateSpace, under RaftManager::mtx, which main never takes *)

Handle(from, to) == hpc = from /\ hpc' = to /\ Serving
Reply(from) == Handle(from, "idle") /\ hreq' = None
ClearReq == req' = None /\ UNCHANGED hasSpace  \* SetCreateSapceReq of an empty request

Unguarded == TRUE
MayCreate == ~hasSpace

CreateSpace(s) ==
  /\ Handle("idle", "engine")
  /\ MayCreate
  /\ hreq' = s
  /\ req' = s /\ hasSpace' = TRUE
  /\ early' = (early \/ pc \in Loading)
  /\ UNCHANGED <<disk, nextId, main, block, acked>>

CreateTable ==
  /\ \/ /\ Handle("engine", "block")
        /\ engineDir' = hreq
        /\ UNCHANGED <<mata, hreq>>
     \/ /\ Reply("engine")
        /\ engineDir' \in {engineDir, hreq}
        /\ ClearReq
  /\ UNCHANGED <<nodeFile, spaceFile, raftDir, nextId, main, block, hist>>

CreateRaftBlock ==
  /\ Handle("block", "raft")
  /\ CreateBlock
  /\ UNCHANGED <<nodeFile, spaceFile, engineDir, nextId, main, hreq, mata, hist>>

StartRaft ==
  /\ \/ Handle("raft", "dump") /\ StartRaftServer(hreq, TRUE) /\ UNCHANGED <<mata, hreq>>
     \/ Reply("raft") /\ StartRaftServer(hreq, FALSE) /\ ClearReq
  /\ UNCHANGED <<nodeFile, spaceFile, engineDir, nextId, main, hist>>

DumpFailedLate == ClearReq /\ spaceFile' = <<hreq, nodeFile>>
DumpFailed == ClearReq /\ UNCHANGED spaceFile

(* DumpCreateSpaceReq truncates the file, then writes it. *)
OpenSpaceFile ==
  /\ \/ Handle("dump", "write") /\ spaceFile' = Torn /\ UNCHANGED <<mata, hreq>>
     \/ Reply("dump") /\ DumpFailed
  /\ UNCHANGED <<nodeFile, engineDir, raftDir, nextId, main, block, hist>>

WriteSpaceFile ==
  /\ Reply("write")
  /\ spaceFile' = <<req, nodeFile>>
  /\ acked' = <<hreq, nodeFile>>
  /\ UNCHANGED <<nodeFile, engineDir, raftDir, nextId, main, mata, block, early>>

(* PsRpcImpl::DeleteSpace: a request for another name is refused. The names *)
(* of a request are never empty (NameValidate of the master).               *)
DeleteSpace(s) ==
  /\ Handle("idle", "drop")
  /\ req = s
  /\ hreq' = s
  /\ early' = (early \/ pc \in Loading)
  /\ acked' = None
  /\ UNCHANGED <<disk, nextId, main, mata, block>>

DropBlock ==
  /\ Handle("drop", "close")
  /\ DeleteBlock
  /\ UNCHANGED <<nodeFile, spaceFile, engineDir, nextId, main, hreq, mata, hist>>

DropEngine ==
  /\ Handle("close", "forget")
  /\ engineDir' = None
  /\ UNCHANGED <<nodeFile, spaceFile, raftDir, nextId, main, hreq, mata, block, hist>>

(* LocalStorager::DeleteSpace compares the names again. *)
DropMata ==
  /\ Reply("forget")
  /\ IF req = hreq
     THEN spaceFile' = None /\ req' = None /\ hasSpace' = FALSE
     ELSE UNCHANGED <<spaceFile, mata>>
  /\ UNCHANGED <<nodeFile, engineDir, raftDir, nextId, main, block, hist>>

-----------------------------------------------------------------------------
Main == \/ LoadNodeMata \/ CreateNodeMata \/ StartBrpc \/ CheckSpace \/ LoadEngine
        \/ MainCreateBlock \/ MainRaftParams \/ MainStartRaft \/ LaunchRegister
        \/ RegisterDone \/ BrpcStop
Handler == \/ \E s \in Spaces : CreateSpace(s) \/ DeleteSpace(s)
           \/ CreateTable \/ CreateRaftBlock \/ StartRaft \/ OpenSpaceFile
           \/ WriteSpaceFile \/ DropBlock \/ DropEngine \/ DropMata
Next == Main \/ Handler \/ Crash

Spec == Init /\ [][Next]_vars

-----------------------------------------------------------------------------
Files == Spaces \X (1..MaxId)
Roots == Spaces \cup {None, Base}

(* Every variable keeps the shape the declarations of ps_main.cc,           *)
(* local_mata.h and raft_store.h give it.                                   *)
TypeOK ==
  /\ nodeFile \in {None, Torn} \cup 1..MaxId
  /\ spaceFile \in {None, Torn} \cup Files
  /\ engineDir \in Spaces \cup {None}
  /\ raftDir \subseteq Spaces
  /\ nextId \in 0..MaxId
  /\ pc \in Loading \cup {"down", "brpc", "register", "joining", "run"}
  /\ root \in Roots
  /\ hpc \in {"idle", "engine", "block", "raft", "dump", "write", "drop", "close", "forget"}
  /\ hreq \in Spaces \cup {None} /\ req \in Spaces \cup {None}
  /\ hasSpace \in BOOLEAN /\ early \in BOOLEAN
  /\ block \in {NoBlock} \cup [root : Roots, run : BOOLEAN]
  /\ acked \in {None} \cup Files

(* A space whose creation this node answered with code 0 and that nobody    *)
(* asked it to delete is in the space file, and a node that is up again     *)
(* under the same id has it in memory: no crash, exit, failed or early      *)
(* request loses it (DumpCreateSpaceReq, PsLocalNodeMata::Init).            *)
AckedIsKept ==
  acked # None /\ nodeFile = acked[2] =>
    /\ spaceFile = acked
    /\ Serving => hasSpace /\ req = acked[1]

(* A node whose creation failed keeps _has_space without a request and      *)
(* refuses every CreateSpace and DeleteSpace (ps_rpc.cc 93, 104, 112). No   *)
(* space file of this node id backs that state, so a restart ends it.       *)
WedgeIsVolatile ==
  Serving /\ hpc = "idle" /\ hasSpace /\ req = None =>
    \A s \in Spaces : spaceFile # <<s, nodeFile>>

(* The directory of a running raft node exists: no DeleteBlock or           *)
(* CreateBlock removes it under the node, unless a handler overtook main    *)
(* while it was loading and two threads used the one block.                 *)
RunningRaftHasDir ==
  block # NoBlock /\ block.run /\ ~early => block.root \in raftDir

(* When main has finished, no handler runs and none ran while main was      *)
(* loading, a node with a space has the block of that space, and a node     *)
(* without one runs no raft node (ps_main.cc 50-71, ps_rpc.cc 97, 137).     *)
QuietNodeAgrees ==
  pc = "run" /\ hpc = "idle" /\ ~early =>
    /\ req # None => block # NoBlock /\ block.root = req
    /\ ~hasSpace => block = NoBlock

(* The raft directory of an acknowledged space is removed only by an exit   *)
(* of the process, by a DeleteSpace, or by the CreateBlock of a main that   *)
(* an early handler overtook; never by a CreateSpace or by a plain restart. *)
RaftDirLost ==
  \A s \in Spaces :
    s \in raftDir /\ s \notin raftDir' /\ acked # None /\ acked = <<s, nodeFile>> =>
      \/ pc' = "down"
      \/ pc = "block" /\ early

RaftDirKept == [][RaftDirLost]_vars
=============================================================================
