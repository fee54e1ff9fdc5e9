------------------------------ MODULE RaftBlock ------------------------------
(* One partition as a raft group: the Block of every replica (the braft     *)
(* state machine in front of gamma) and the RaftClients of the routers that *)
(* write to it. braft is external: it commits entries into one log, elects  *)
(* leaders, and tells a Block about them later. All writes are to one key,  *)
(* each client writes its own value, so a replica's document is the client  *)
(* of the last entry it applied.                                            *)
EXTENDS Integers, Sequences, FiniteSets

CONSTANTS Nodes, Clients, Nil, MaxTerm, MaxLog, MaxSends, MaxFaults

ASSUME BlockAssumption ==
  /\ {MaxTerm, MaxLog, MaxSends, MaxFaults} \subseteq Nat
  /\ Nil \notin Nodes \cup Clients

Tries == 3
Calls == Clients \X (1..Tries)

VARIABLES
  term,      \* the newest raft term
  log,       \* the committed entries: [val, call, term, by], by the node that
             \* committed it or Nil if a later leader did
  role,      \* node: the term its braft node leads in, 0 when it follows
  begin,     \* node: the length of the log when it was elected
  pend,      \* node: the calls proposed there that are not committed
  lterm,     \* Block::_leader_term
  applied,   \* node: the last entry on_apply has consumed
  doc,       \* node: the document in gamma
  snap,      \* node: the last entry covered by its snapshot
  failed,    \* node: set_error_and_rollback was called
  bare,      \* node: it installed the snapshot of another node (history)
  high,      \* node: the highest entry it ever applied (history)
  call,      \* call: the write rpc: its node, its stage, the term it read
  try,       \* client: the i of the loop in Write, from 1
  result,    \* client: what UpsertDocs makes of the write
  faults     \* failures of gamma and restarts, at most MaxFaults

raft == <<term, log, role, begin, pend>>
block == <<lterm, applied, doc, snap, failed>>
hist == <<bare, high>>
client == <<try, result>>
vars == <<raft, block, hist, call, client, faults>>

Idle == [node |-> Nil, stage |-> "none", term |-> 0]

Init ==
  /\ term = 0 /\ log = <<>>
  /\ role = [n \in Nodes |-> 0] /\ begin = [n \in Nodes |-> 0] /\ pend = [n \in Nodes |-> <<>>]
  /\ lterm = [n \in Nodes |-> -1] /\ applied = [n \in Nodes |-> 0]
  /\ doc = [n \in Nodes |-> Nil] /\ snap = [n \in Nodes |-> 0]
  /\ failed = [n \in Nodes |-> FALSE]
  /\ bare = [n \in Nodes |-> FALSE] /\ high = [n \in Nodes |-> 0]
  /\ call = [c \in Calls |-> Idle]
  /\ try = [c \in Clients |-> 1]
  /\ result = [c \in Clients |-> "none"]
  /\ faults = 0

Stage(c, s) == call' = [call EXCEPT ![c].stage = s]
Entry(c, t, n) == [val |-> c[1], call |-> c, term |-> t, by |-> n]
Answered(cs) == [c \in Calls |-> IF c \in cs THEN [call[c] EXCEPT !.stage = "no"] ELSE call[c]]
Pending(n) == {pend[n][i] : i \in DOMAIN pend[n]}

-----------------------------------------------------------------------------
(* RaftClient::Write, called by PartitionConnetion::UpsertDocs *)

Current(c) == <<c, try[c]>>
Trying(c) == result[c] = "none"
NeverSent(c) == \A k \in 1..Tries : call[<<c, k>>] = Idle

(* After the last round Write returns msg, or an empty one when nothing was *)
(* sent: UpsertDocs finds resp.success() false then.                        *)
MsgOnly(c) == IF NeverSent(c) THEN "ok" ELSE "failed"
MsgAndSuccess(c) == "failed"

NextTry(c) ==
  /\ try' = [try EXCEPT ![c] = @ + 1]
  /\ result' = IF try[c] = Tries THEN [result EXCEPT ![c] = MsgAndSuccess(c)] ELSE result

(* The slot in use is not ok_: only before CreateRaftConnection succeeded   *)
(* for the first time, as a failure leaves the slot in use as it is.        *)
WriteUnconnected(c) ==
  /\ Trying(c) /\ NeverSent(c)
  /\ NextTry(c)
  /\ UNCHANGED <<raft, block, hist, call, faults>>

(* The leader the route table gave at the last CreateRaftConnection may be  *)
(* any peer.                                                                *)
WriteSend(c, n) ==
  /\ Trying(c) /\ call[Current(c)] = Idle
  /\ Cardinality({d \in Calls : call[d] # Idle}) < MaxSends
  /\ call' = [call EXCEPT ![Current(c)] = [node |-> n, stage |-> "sent", term |-> 0]]
  /\ UNCHANGED <<raft, block, hist, client, faults>>

(* cntl.Failed(): a timeout, whose request may still be served, or not success(). *)
WriteFails(c) ==
  /\ Trying(c) /\ call[Current(c)].stage \notin {"none", "ok"}
  /\ NextTry(c)
  /\ UNCHANGED <<raft, block, hist, call, faults>>

WriteSucceeds(c) ==
  /\ Trying(c) /\ call[Current(c)].stage = "ok"
  /\ result' = [result EXCEPT ![c] = "ok"]
  /\ UNCHANGED <<raft, block, hist, call, try, faults>>

-----------------------------------------------------------------------------
(* Block *)

(* Block::write reads _leader_term and redirects without one. *)
BlockWrite(c) ==
  /\ call[c].stage = "sent"
  /\ LET t == lterm[call[c].node] IN
     IF t < 0 THEN Stage(c, "no")
     ELSE call' = [call EXCEPT ![c].stage = "write", ![c].term = t]
  /\ UNCHANGED <<raft, block, hist, client, faults>>

AnyTerm(c) == role[call[c].node] # 0
ExpectedTerm(c) == role[call[c].node] = call[c].term

(* done_guard is released into the closure of the task. *)
GuardKept(c) == Stage(c, "ok")
GuardReleased(c) == Stage(c, "queued")

(* _node->apply: a task whose expected_term is not the node's is refused.   *)
BlockApply(c) ==
  /\ call[c].stage = "write"
  /\ IF ExpectedTerm(c)
     THEN pend' = [pend EXCEPT ![call[c].node] = Append(@, c)] /\ GuardReleased(c)
     ELSE Stage(c, "no") /\ UNCHANGED pend
  /\ UNCHANGED <<term, log, role, begin, block, hist, client, faults>>

Replay(i) == IF i = 0 THEN Nil ELSE log[i].val
HasClosure(n, e) == e.by = n /\ call[e.call].stage = "queued"

(* on_apply of one entry. *)
OnApply(n) ==
  /\ ~failed[n] /\ applied[n] < Len(log)
  /\ LET e == log[applied[n] + 1] IN
     /\ doc' = [doc EXCEPT ![n] = e.val]
     /\ IF HasClosure(n, e) THEN Stage(e.call, "ok") ELSE UNCHANGED call
  /\ applied' = [applied EXCEPT ![n] = @ + 1]
  /\ high' = [high EXCEPT ![n] = IF @ > applied[n] THEN @ ELSE applied[n] + 1]
  /\ UNCHANGED <<raft, lterm, snap, failed, bare, client, faults>>

(* AddOrUpdateDoc fails: set_error_and_rollback; braft stops the state      *)
(* machine, steps down and fails the closures of the node.                  *)
SkipEntry(n) == applied' = [applied EXCEPT ![n] = @ + 1] /\ UNCHANGED failed
SetErrorAndRollback(n) == failed' = [failed EXCEPT ![n] = TRUE] /\ UNCHANGED applied

OnApplyFails(n) ==
  /\ ~failed[n] /\ applied[n] < Len(log) /\ faults < MaxFaults
  /\ SetErrorAndRollback(n)
  /\ call' = Answered(Pending(n) \cup {log[i].call : i \in {j \in applied[n] + 1 .. Len(log) : HasClosure(n, log[j])}})
  /\ role' = [role EXCEPT ![n] = 0] /\ pend' = [pend EXCEPT ![n] = <<>>]
  /\ faults' = faults + 1
  /\ UNCHANGED <<term, log, begin, lterm, doc, snap, hist, client>>

(* on_leader_start comes after the entries of earlier terms were applied.   *)
OnLeaderStart(n) ==
  /\ role[n] = term /\ term > 0 /\ lterm[n] = -1 /\ applied[n] >= begin[n]
  /\ lterm' = [lterm EXCEPT ![n] = role[n]]
  /\ UNCHANGED <<raft, applied, doc, snap, failed, hist, call, client, faults>>

ZeroTerm == 0
StoppedTerm == -1

OnLeaderStop(n) ==
  /\ lterm[n] # -1 /\ role[n] # lterm[n]
  /\ lterm' = [lterm EXCEPT ![n] = StoppedTerm]
  /\ UNCHANGED <<raft, applied, doc, snap, failed, hist, call, client, faults>>

(* save_snapshot: the files are those of the mock Engine, not of gamma.     *)
OnSnapshotSave(n) ==
  /\ ~failed[n] /\ snap[n] < applied[n]
  /\ snap' = [snap EXCEPT ![n] = applied[n]]
  /\ UNCHANGED <<raft, lterm, applied, doc, failed, hist, call, client, faults>>

(* A replica that lags behind, or is new, gets the snapshot of the leader.  *)
(* on_snapshot_load gives the files to the mock Engine: gamma is untouched. *)
OnSnapshotLoad(n) ==
  /\ role[n] = 0 /\ lterm[n] = -1 /\ ~failed[n]
  /\ \E l \in Nodes :
       /\ role[l] = term /\ term > 0 /\ snap[l] > applied[n]
       /\ applied' = [applied EXCEPT ![n] = snap[l]]
       /\ snap' = [snap EXCEPT ![n] = snap[l]]
  /\ bare' = [bare EXCEPT ![n] = TRUE]
  /\ UNCHANGED <<raft, lterm, doc, failed, high, call, client, faults>>

-----------------------------------------------------------------------------
(* braft *)

Commit(n) ==
  /\ role[n] = term /\ pend[n] # <<>> /\ Len(log) < MaxLog
  /\ log' = Append(log, Entry(Head(pend[n]), term, n))
  /\ pend' = [pend EXCEPT ![n] = Tail(@)]
  /\ UNCHANGED <<term, role, begin, block, hist, call, client, faults>>

(* A task that a leader had not committed when it lost the leadership may   *)
(* have reached the next one, which commits it.                             *)
MayCarry(l) ==
  \/ UNCHANGED log
  \/ /\ role[l] = term /\ term > 0 /\ pend[l] # <<>> /\ Len(log) < MaxLog
     /\ log' = Append(log, Entry(Head(pend[l]), term, Nil))

(* The new leader has every committed entry. An old one does not know.      *)
Elect(n) ==
  /\ role[n] = 0 /\ ~failed[n] /\ term < MaxTerm
  /\ \E l \in Nodes : MayCarry(l)
  /\ term' = term + 1
  /\ role' = [role EXCEPT ![n] = term']
  /\ begin' = [begin EXCEPT ![n] = Len(log')]
  /\ UNCHANGED <<pend, block, hist, call, client, faults>>

(* A leader without a quorum, or that sees a newer term. The closures of    *)
(* uncommitted tasks run with an error: BlockClosure::Run redirects.        *)
StepDown(n) ==
  /\ role[n] # 0
  /\ MayCarry(n)
  /\ role' = [role EXCEPT ![n] = 0]
  /\ call' = Answered(Pending(n))
  /\ pend' = [pend EXCEPT ![n] = <<>>]
  /\ UNCHANGED <<term, begin, block, hist, client, faults>>

(* gamma keeps its documents, the group goes on from the last snapshot.     *)
Restart(n) ==
  /\ faults < MaxFaults /\ faults' = faults + 1
  /\ role' = [role EXCEPT ![n] = 0] /\ pend' = [pend EXCEPT ![n] = <<>>]
  /\ lterm' = [lterm EXCEPT ![n] = -1]
  /\ applied' = [applied EXCEPT ![n] = snap[n]]
  /\ failed' = [failed EXCEPT ![n] = FALSE]
  /\ call' = Answered({c \in Calls : call[c].node = n /\ call[c].stage \in {"sent", "write", "queued"}})
  /\ UNCHANGED <<term, log, begin, doc, snap, hist, client>>

-----------------------------------------------------------------------------
Next ==
  \/ \E c \in Clients : WriteUnconnected(c) \/ WriteFails(c) \/ WriteSucceeds(c)
  \/ \E c \in Clients, n \in Nodes : WriteSend(c, n)
  \/ \E c \in Calls : BlockWrite(c) \/ BlockApply(c)
  \/ \E n \in Nodes : \/ OnApply(n) \/ OnApplyFails(n) \/ OnLeaderStart(n) \/ OnLeaderStop(n)
                      \/ OnSnapshotSave(n) \/ OnSnapshotLoad(n)
                      \/ Commit(n) \/ Elect(n) \/ StepDown(n) \/ Restart(n)

Spec == Init /\ [][Next]_vars

-----------------------------------------------------------------------------
(* Every variable keeps the shape raft_store.h and raft_client.h give it.   *)
TypeOK ==
  /\ term \in 0..MaxTerm /\ Len(log) <= MaxLog
  /\ \A i \in DOMAIN log : log[i].call \in Calls /\ log[i].by \in Nodes \cup {Nil} /\ log[i].term \in 1..term
  /\ role \in [Nodes -> 0..term] /\ begin \in [Nodes -> 0..Len(log)]
  /\ \A n \in Nodes : Pending(n) \subseteq Calls
  /\ lterm \in [Nodes -> {-1} \cup 1..term]
  /\ applied \in [Nodes -> 0..Len(log)] /\ snap \in [Nodes -> 0..Len(log)]
  /\ doc \in [Nodes -> Clients \cup {Nil}]
  /\ failed \in [Nodes -> BOOLEAN] /\ bare \in [Nodes -> BOOLEAN] /\ high \in [Nodes -> 0..Len(log)]
  /\ call \in [Calls -> [node : Nodes \cup {Nil}, term : 0..term,
                         stage : {"none", "sent", "write", "queued", "ok", "no"}]]
  /\ try \in [Clients -> 1..Tries + 1]
  /\ result \in [Clients -> {"none", "ok", "failed"}]

(* A write that UpsertDocs counts as stored is committed, whatever was      *)
(* redirected, timed out, tried again or rolled back on the way             *)
(* (partition_connection.cc 114-116, raft_client.cc 20-61).                 *)
StoredIsCommitted ==
  \A c \in Clients : result[c] = "ok" => \E i \in DOMAIN log : log[i].val = c

(* The document of a replica is the one of the last entry it applied, once  *)
(* it is past the entries it applies again after a restart; no failure of   *)
(* gamma makes it skip one (raft_store.cc 200-300). The replica must not    *)
(* have been set up from a snapshot.                                        *)
ReplicaIsReplay ==
  \A n \in Nodes : ~bare[n] /\ applied[n] >= high[n] => doc[n] = Replay(applied[n])

AckedEntries == {i \in DOMAIN log : call[log[i].call].stage = "ok"}

(* A replica that answers reads (is_leader, raft_store.cc 119) and really   *)
(* leads has applied every acknowledged write, and its document is the last *)
(* of them or a later one: elections, restarts and replays never expose an  *)
(* older document.                                                          *)
LeaderServesAcked ==
  \A n \in Nodes :
    role[n] = term /\ lterm[n] = term /\ ~bare[n] =>
      /\ \A i \in AckedEntries : i <= applied[n]
      /\ doc[n] = Replay(applied[n])

(* An entry is committed only in the term that Block::write read: a node    *)
(* that lost and won the leadership in between refuses the task ("ABA       *)
(* problem can be avoid if expected_term is set", raft_store.cc 100).       *)
CommittedInTermRead ==
  \A i \in DOMAIN log : log[i].term = call[log[i].call].term
=============================================================================
