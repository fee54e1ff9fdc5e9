--------------------------- MODULE RaftBlockProofs ---------------------------
(* The inductive invariant of RaftBlock, for every number of replicas,      *)
(* clients, terms, entries and faults, what keeps each of its parts, that   *)
(* every action keeps it, and the theorems that follow from it.             *)
EXTENDS RaftBlock, TLAPS

Entries == [val : Clients, call : Calls, term : Nat, by : Nodes \cup {Nil}]
Stages == {"none", "sent", "write", "queued", "ok", "no"}
Rpcs == [node : Nodes \cup {Nil}, stage : Stages, term : Nat]
Open == {"sent", "write", "queued"}  \* the stages of a call that is not answered
Taken == {"queued", "ok", "no"}  \* the stages of a call whose task was applied

(* The types, without the bounds that relate one variable to another.       *)
TypeInv ==
  /\ term \in 0..MaxTerm
  /\ log \in Seq(Entries) /\ Len(log) <= MaxLog
  /\ role \in [Nodes -> Nat] /\ begin \in [Nodes -> Nat] /\ pend \in [Nodes -> Seq(Calls)]
  /\ lterm \in [Nodes -> Int]
  /\ applied \in [Nodes -> Nat] /\ snap \in [Nodes -> Nat] /\ high \in [Nodes -> Nat]
  /\ doc \in [Nodes -> Clients \cup {Nil}]
  /\ failed \in [Nodes -> BOOLEAN] /\ bare \in [Nodes -> BOOLEAN]
  /\ call \in [Calls -> Rpcs]
  /\ try \in [Clients -> 1..Tries + 1]
  /\ result \in [Clients -> {"none", "ok", "failed"}]
  /\ \A c \in Clients : Trying(c) => try[c] \in 1..Tries

(* No node, call or entry is ahead of the newest term, and a call that is   *)
(* not answered is at a node.                                               *)
TermInv ==
  /\ \A n \in Nodes : role[n] <= term
  /\ \A n \in Nodes : lterm[n] = -1 \/ lterm[n] \in 1..term
  /\ \A c \in Calls : call[c].term <= term
  /\ \A c \in Calls : call[c].stage = "write" => call[c].term > 0
  /\ \A c \in Calls : call[c].stage \in Open => call[c].node \in Nodes
  /\ \A i \in 1..Len(log) : log[i].term \in 1..term

(* Nothing that was applied, covered or counted is beyond the log.          *)
IndexInv ==
  \A n \in Nodes :
    begin[n] <= Len(log) /\ snap[n] <= applied[n] /\ applied[n] <= Len(log) /\ high[n] <= Len(log)

(* A task waits at the node its call went to, in the term the call read.    *)
PendAt(n) ==
  /\ \A i \in 1..Len(pend[n]) :
       /\ call[pend[n][i]].stage \in Taken
       /\ call[pend[n][i]].node = n
       /\ call[pend[n][i]].term = role[n] /\ role[n] > 0
  /\ \A i, j \in 1..Len(pend[n]) : pend[n][i] = pend[n][j] => i = j
  /\ role[n] = term => \A i \in 1..Len(pend[n]), j \in 1..Len(log) : pend[n][i] # log[j].call

PendInv == \A n \in Nodes : PendAt(n)

(* Every entry belongs to one call, in the term the call read.              *)
LogInv ==
  /\ \A i \in 1..Len(log) :
       /\ call[log[i].call].stage \in Taken
       /\ log[i].term = call[log[i].call].term
       /\ log[i].val = log[i].call[1]
  /\ \A i, j \in 1..Len(log) : log[i].call = log[j].call => i = j

(* A call is answered with success only when it has an entry.               *)
AckInv ==
  /\ \A c \in Calls : call[c].stage = "ok" => \E i \in 1..Len(log) : log[i].call = c
  /\ \A c \in Clients : result[c] = "ok" => \E i \in 1..Len(log) : log[i].val = c

(* The document of a replica that has applied all it ever applied.          *)
ReplayInv ==
  \A n \in Nodes : ~bare[n] =>
    applied[n] <= high[n] /\ (applied[n] = high[n] => doc[n] = Replay(high[n]))

(* What the leader of the newest term knows: it is the only one, entries    *)
(* after its election are its own, and it has applied those that were       *)
(* acknowledged.                                                            *)
LeaderInv ==
  \A n \in Nodes : role[n] = term /\ term > 0 =>
    /\ \A m \in Nodes : role[m] = term => m = n
    /\ \A i \in 1..Len(log) : i > begin[n] => log[i].by \in {n, Nil}
    /\ \A i \in 1..Len(log) : call[log[i].call].stage = "ok" => i <= begin[n] \/ i <= applied[n]
    /\ high[n] <= begin[n] \/ high[n] <= applied[n]
    /\ lterm[n] = term => begin[n] <= applied[n]

(* The inductive invariant.                                                 *)
IInv ==
  /\ TypeInv /\ TermInv /\ IndexInv /\ PendInv
  /\ LogInv /\ AckInv /\ ReplayInv /\ LeaderInv

-----------------------------------------------------------------------------
(* Sequences and calls *)

(* An element appended to a sequence.                                       *)
LEMMA AppendFacts ==
  ASSUME NEW S, NEW q \in Seq(S), NEW e \in S
  PROVE  /\ Append(q, e) \in Seq(S) /\ Len(Append(q, e)) = Len(q) + 1
         /\ \A i \in 1..Len(q) : Append(q, e)[i] = q[i]
         /\ Append(q, e)[Len(q) + 1] = e
OBVIOUS

(* The first element of a sequence and the others.                          *)
LEMMA TailFacts ==
  ASSUME NEW S, NEW q \in Seq(S), q # <<>>
  PROVE  /\ Len(q) \in Nat /\ Len(q) > 0 /\ Head(q) = q[1] /\ Head(q) \in S
         /\ Tail(q) \in Seq(S) /\ Len(Tail(q)) = Len(q) - 1
         /\ \A i \in 1..Len(Tail(q)) : Tail(q)[i] = q[i + 1]
OBVIOUS

(* A call that moves to another stage keeps its node and its term.          *)
LEMMA StageFacts ==
  ASSUME TypeInv, NEW c \in Calls, NEW s \in Stages, Stage(c, s)
  PROVE  /\ call' \in [Calls -> Rpcs]
         /\ call'[c].stage = s /\ call'[c].node = call[c].node /\ call'[c].term = call[c].term
         /\ \A d \in Calls \ {c} : call'[d] = call[d]
BY Zenon DEF TypeInv, Stage, Rpcs

(* A failed call keeps its node and its term.                               *)
LEMMA AnsweredFacts ==
  ASSUME TypeInv, NEW cs, call' = Answered(cs)
  PROVE  /\ call' \in [Calls -> Rpcs]
         /\ \A d \in Calls : /\ call'[d].node = call[d].node /\ call'[d].term = call[d].term
                             /\ call'[d].stage \in {call[d].stage, "no"}
<1>1. ASSUME NEW d \in Calls
      PROVE /\ call'[d] \in Rpcs
            /\ call'[d].node = call[d].node /\ call'[d].term = call[d].term
            /\ call'[d].stage \in {call[d].stage, "no"}
  <2>1. call[d] \in Rpcs
    BY Zenon, <1>1 DEF TypeInv
  <2>2. call'[d] = IF d \in cs THEN [call[d] EXCEPT !.stage = "no"] ELSE call[d]
    BY Zenon, <1>1 DEF Answered
  <2> QED BY Zenon, <2>1, <2>2 DEF Rpcs, Stages
<1>2. call' \in [Calls -> Rpcs]
  BY Zenon, <1>1 DEF Answered
<1> QED BY Zenon, <1>1, <1>2

-----------------------------------------------------------------------------
(* What the actions do to calls: one whose task was applied stays that way, *)
(* under its node and term.                                                 *)
CallsKept ==
  /\ call' \in [Calls -> Rpcs]
  /\ \A d \in Calls :
       /\ call[d].stage \in Taken =>
            call'[d].stage \in Taken /\ call'[d].term = call[d].term /\ call'[d].node = call[d].node
       /\ call'[d].term <= term
       /\ call'[d].stage = "write" => call'[d].term > 0
       /\ call'[d].stage \in Open => call'[d].node \in Nodes

(* No call is answered with success.                                        *)
NoneAcked == \A d \in Calls : call'[d].stage = "ok" => call[d].stage = "ok"

(* Closures that fail answer no call with success.                          *)
LEMMA AnsweredKeeps ==
  ASSUME IInv, NEW cs, call' = Answered(cs)
  PROVE  CallsKept /\ NoneAcked
BY Zenon, AnsweredFacts DEF IInv, TermInv, CallsKept, NoneAcked, Taken, Open

(* An action that leaves the calls alone keeps them.                        *)
LEMMA UnchangedKeeps ==
  ASSUME IInv, call' = call
  PROVE  CallsKept /\ NoneAcked
BY Zenon DEF IInv, TypeInv, TermInv, CallsKept, NoneAcked, Rpcs

(* The first task waiting at the leader of the newest term becomes an       *)
(* entry; b is the node that will run its closure, if any.                  *)
Carries(l, b) ==
  /\ role[l] = term /\ pend[l] # <<>>
  /\ log' = Append(log, Entry(Head(pend[l]), term, b))

(* Entries are added to the log at its end only.                            *)
LogExtends ==
  /\ log' \in Seq(Entries) /\ Len(log') >= Len(log)
  /\ \A i \in 1..Len(log) : log'[i] = log[i]

(* The entry that is appended, and that it is the first of its call.        *)
LEMMA CarryFacts ==
  ASSUME IInv, NEW l \in Nodes, NEW b \in Nodes \cup {Nil}, Carries(l, b)
  PROVE  /\ LogExtends /\ Len(log') = Len(log) + 1
         /\ Head(pend[l]) = pend[l][1] /\ 1 \in 1..Len(pend[l]) /\ pend[l][1] \in Calls
         /\ log'[Len(log) + 1].call = pend[l][1] /\ log'[Len(log) + 1].val = pend[l][1][1]
         /\ log'[Len(log) + 1].term = term /\ log'[Len(log) + 1].by = b
         /\ call[pend[l][1]].stage \in Taken /\ call[pend[l][1]].term = term /\ term > 0
         /\ \A j \in 1..Len(log) : log[j].call # pend[l][1]
<1> DEFINE c == pend[l][1]
           e == Entry(c, term, b)
<1>1. pend[l] \in Seq(Calls) /\ log \in Seq(Entries) /\ term \in Nat
  BY BlockAssumption DEF IInv, TypeInv
<1>2. Head(pend[l]) = c /\ c \in Calls /\ 1 \in 1..Len(pend[l])
  BY <1>1, TailFacts DEF Carries
<1>3. e \in Entries /\ e.call = c /\ e.val = c[1] /\ e.term = term /\ e.by = b
  BY Zenon, <1>1, <1>2 DEF Entry, Entries, Calls
<1>4. log' = Append(log, e)
  BY Zenon, <1>2 DEF Carries
<1>5. /\ log' \in Seq(Entries) /\ Len(log') = Len(log) + 1
      /\ \A i \in 1..Len(log) : log'[i] = log[i]
      /\ log'[Len(log) + 1] = e
  BY <1>1, <1>3, <1>4, AppendFacts
<1>6. /\ call[c].stage \in Taken /\ call[c].term = term /\ term > 0
      /\ \A j \in 1..Len(log) : log[j].call # c
  BY <1>2 DEF IInv, PendInv, PendAt, Carries
<1>7. Len(log) \in Nat
  BY <1>1
<1> HIDE DEF e
<1> QED BY <1>2, <1>3, <1>5, <1>6, <1>7 DEF LogExtends

(* A log that stays is a log that extends.                                  *)
LEMMA LogSame ==
  ASSUME IInv, log' = log
  PROVE  LogExtends
BY DEF IInv, TypeInv, LogExtends

(* The type of an entry of the log.                                         *)
LEMMA EntryFacts ==
  ASSUME IInv, NEW i \in 1..Len(log)
  PROVE  log[i] \in Entries /\ log[i].call \in Calls
<1>1. log \in Seq(Entries)
  BY Zenon DEF IInv, TypeInv
<1>2. log[i] \in Entries
  BY <1>1
<1> QED BY Zenon, <1>2 DEF Entries

(* LogInv, when the log stays.                                              *)
LEMMA LogStep ==
  ASSUME IInv, CallsKept, log' = log
  PROVE  LogInv'
BY Zenon, EntryFacts DEF IInv, LogInv, CallsKept

(* LogInv, when a task becomes an entry.                                    *)
LEMMA LogCarry ==
  ASSUME IInv, CallsKept, NEW l \in Nodes, NEW b \in Nodes \cup {Nil}, Carries(l, b)
  PROVE  LogInv'
<1> DEFINE k == Len(log) + 1
           c == pend[l][1]
<1>8. Len(log) \in Nat
  BY DEF IInv, TypeInv
<1>1. /\ Len(log') = k /\ c \in Calls
      /\ \A i \in 1..Len(log) : log'[i] = log[i] /\ log[i].call # c
      /\ log'[k].call = c /\ log'[k].val = c[1] /\ log'[k].term = term
      /\ call[c].stage \in Taken /\ call[c].term = term
  BY Zenon, CarryFacts DEF LogExtends
<1>2. call'[c].stage \in Taken /\ call'[c].term = term
  BY Zenon, <1>1 DEF CallsKept
<1>3. ASSUME NEW i \in 1..Len(log)
      PROVE  /\ call'[log[i].call].stage \in Taken
             /\ log[i].term = call'[log[i].call].term
             /\ log[i].val = log[i].call[1]
  BY Zenon, EntryFacts DEF IInv, LogInv, CallsKept
<1>4. ASSUME NEW i \in 1..k PROVE i \in 1..Len(log) \/ i = k
  BY <1>8
<1>5. \A i, j \in 1..Len(log) : log[i].call = log[j].call => i = j
  BY Zenon DEF IInv, LogInv
<1> HIDE DEF k, c
<1>6. ASSUME NEW i \in 1..k
      PROVE  /\ call'[log'[i].call].stage \in Taken
             /\ log'[i].term = call'[log'[i].call].term
             /\ log'[i].val = log'[i].call[1]
  <2>1. CASE i \in 1..Len(log)
    BY Zenon, <1>1, <1>3, <2>1
  <2>2. CASE i = k
    BY Zenon, <1>1, <1>2, <2>2
  <2> QED BY Zenon, <1>4, <2>1, <2>2
<1>7. ASSUME NEW i \in 1..k, NEW j \in 1..k, log'[i].call = log'[j].call
      PROVE  i = j
  BY <1>1, <1>4, <1>5, <1>7
<1> QED BY Zenon, <1>1, <1>6, <1>7 DEF LogInv

(* AckInv, when no call and no client learns of a success.                  *)
LEMMA AckStep ==
  ASSUME IInv, NoneAcked, LogExtends, result' = result
  PROVE  AckInv'
<1>1. Len(log) \in Nat /\ Len(log') \in Nat
  BY DEF IInv, TypeInv, LogExtends
<1>2. ASSUME NEW i \in 1..Len(log) PROVE i \in 1..Len(log') /\ log'[i] = log[i]
  BY <1>1 DEF LogExtends
<1>3. ASSUME NEW c \in Calls, call'[c].stage = "ok"
      PROVE  \E i \in 1..Len(log') : log'[i].call = c
  <2>1. PICK i \in 1..Len(log) : log[i].call = c
    BY Zenon, <1>3 DEF IInv, AckInv, NoneAcked
  <2> QED BY Zenon, <2>1, <1>2
<1>4. ASSUME NEW c \in Clients, result'[c] = "ok"
      PROVE  \E i \in 1..Len(log') : log'[i].val = c
  <2>1. PICK i \in 1..Len(log) : log[i].val = c
    BY Zenon, <1>4 DEF IInv, AckInv
  <2> QED BY Zenon, <2>1, <1>2
<1> QED BY Zenon, <1>3, <1>4 DEF AckInv

(* TermInv, when roles and leader terms are not ahead of the term.          *)
LEMMA TermStep ==
  ASSUME IInv, CallsKept, term' \in {term, term + 1},
         \A n \in Nodes : role'[n] <= term' /\ (lterm'[n] = -1 \/ lterm'[n] \in 1..term'),
         log' = log \/ \E l \in Nodes, b \in Nodes \cup {Nil} : Carries(l, b)
  PROVE  TermInv'
<1>1. term \in Nat /\ Len(log) \in Nat
  BY BlockAssumption DEF IInv, TypeInv
<1>2. \A c \in Calls : call'[c].term <= term' /\ (call'[c].stage = "write" => call'[c].term > 0)
  BY <1>1 DEF CallsKept, Rpcs
<1>5. \A c \in Calls : call'[c].stage \in Open => call'[c].node \in Nodes
  BY Zenon DEF CallsKept
<1>3. \A i \in 1..Len(log) : log[i].term \in 1..term'
  BY <1>1 DEF IInv, TermInv
<1>4. \A i \in 1..Len(log') : log'[i].term \in 1..term'
  <2>1. CASE log' = log
    BY Zenon, <2>1, <1>3
  <2>2. ASSUME NEW l \in Nodes, NEW b \in Nodes \cup {Nil}, Carries(l, b)
        PROVE  \A i \in 1..Len(log') : log'[i].term \in 1..term'
    <3>1. /\ Len(log') = Len(log) + 1 /\ log'[Len(log) + 1].term = term /\ term > 0
          /\ \A i \in 1..Len(log) : log'[i] = log[i]
      BY Zenon, <2>2, CarryFacts DEF LogExtends
    <3>2. ASSUME NEW i \in 1..Len(log') PROVE i \in 1..Len(log) \/ i = Len(log) + 1
      BY <3>1, <1>1
    <3> QED BY <1>1, <1>3, <3>1, <3>2
  <2> QED BY Zenon, <2>1, <2>2
<1> QED BY Zenon, <1>2, <1>4, <1>5 DEF TermInv

(* A node at which no task is added to or taken from those that stay.       *)
LEMMA PendKept ==
  ASSUME IInv, CallsKept, NEW n \in Nodes,
         \/ pend'[n] = <<>>
         \/ /\ pend'[n] = pend[n] /\ role'[n] = role[n]
            /\ role'[n] = term' => role[n] = term /\ log' = log
  PROVE  PendAt(n)'
<1>1. CASE pend'[n] = <<>>
  BY <1>1 DEF PendAt
<1>2. CASE /\ pend'[n] = pend[n] /\ role'[n] = role[n]
           /\ role'[n] = term' => role[n] = term /\ log' = log
  <2>1. ASSUME NEW i \in 1..Len(pend[n])
        PROVE  /\ pend[n][i] \in Calls /\ call[pend[n][i]].stage \in Taken
               /\ call[pend[n][i]].node = n /\ call[pend[n][i]].term = role[n] /\ role[n] > 0
    <3>1. pend[n] \in Seq(Calls)
      BY Zenon DEF IInv, TypeInv
    <3>2. pend[n][i] \in Calls
      BY <3>1
    <3> QED BY Zenon, <3>2 DEF IInv, PendInv, PendAt
  <2>2. ASSUME NEW i \in 1..Len(pend[n])
        PROVE  /\ call'[pend[n][i]].stage \in Taken
               /\ call'[pend[n][i]].node = n /\ call'[pend[n][i]].term = role[n] /\ role[n] > 0
    BY Zenon, <2>1 DEF CallsKept
  <2>3. /\ \A i, j \in 1..Len(pend[n]) : pend[n][i] = pend[n][j] => i = j
        /\ role[n] = term => \A i \in 1..Len(pend[n]), j \in 1..Len(log) : pend[n][i] # log[j].call
    BY Zenon DEF IInv, PendInv, PendAt
  <2> QED BY <1>2, <2>2, <2>3 DEF PendAt
<1> QED BY Zenon, <1>1, <1>2

(* LeaderInv, when nobody is elected and the log and its answers stay.      *)
LEMMA LeaderStep ==
  ASSUME IInv, NoneAcked, term' = term, log' = log, begin' = begin,
         \A n \in Nodes : role'[n] \in {role[n], 0},
         \A n \in Nodes : role'[n] = term /\ term > 0 =>
           /\ applied'[n] = applied[n] /\ high'[n] = high[n]
           /\ lterm'[n] = term => lterm[n] = term \/ begin[n] <= applied[n]
  PROVE  LeaderInv'
<1> SUFFICES ASSUME NEW n \in Nodes, role'[n] = term, term > 0
             PROVE  /\ \A m \in Nodes : role'[m] = term => m = n
                    /\ \A i \in 1..Len(log) : i > begin[n] => log[i].by \in {n, Nil}
                    /\ \A i \in 1..Len(log) : call'[log[i].call].stage = "ok" =>
                         i <= begin[n] \/ i <= applied'[n]
                    /\ high'[n] <= begin[n] \/ high'[n] <= applied'[n]
                    /\ lterm'[n] = term => begin[n] <= applied'[n]
  BY Zenon DEF LeaderInv
<1>1. role[n] = term /\ \A m \in Nodes : role'[m] = term => role[m] = term
  OBVIOUS
<1>2. \A i \in 1..Len(log) : call'[log[i].call].stage = "ok" => call[log[i].call].stage = "ok"
  BY Zenon, EntryFacts DEF NoneAcked
<1> QED BY Zenon, <1>1, <1>2 DEF IInv, LeaderInv

(* IndexInv, when only the log may grow.                                    *)
LEMMA IndexStep ==
  ASSUME IInv, LogExtends, UNCHANGED <<begin, snap, applied, high>>
  PROVE  IndexInv'
<1>1. Len(log) \in Nat /\ Len(log') \in Nat
  BY DEF IInv, TypeInv, LogExtends
<1>2. \A n \in Nodes : begin[n] \in Nat /\ snap[n] \in Nat /\ applied[n] \in Nat /\ high[n] \in Nat
  BY Zenon DEF IInv, TypeInv
<1> QED BY <1>1, <1>2 DEF IInv, IndexInv, LogExtends

(* ReplayInv, when only the log may grow.                                   *)
LEMMA ReplayStep ==
  ASSUME IInv, LogExtends, UNCHANGED <<applied, high, doc, bare>>
  PROVE  ReplayInv'
<1> SUFFICES ASSUME NEW n \in Nodes PROVE Replay(high[n])' = Replay(high[n])
  BY Zenon DEF IInv, ReplayInv
<1>1. high[n] \in Nat /\ high[n] <= Len(log) /\ Len(log) \in Nat
  BY DEF IInv, TypeInv, IndexInv
<1>2. CASE high[n] = 0
  BY Zenon, <1>2 DEF Replay
<1>3. CASE high[n] > 0
  <2>1. log'[high[n]] = log[high[n]]
    BY <1>1, <1>3 DEF LogExtends
  <2> QED BY Zenon, <1>1, <1>3, <2>1 DEF Replay
<1> QED BY <1>1, <1>2, <1>3

-----------------------------------------------------------------------------
(* Steps that leave most of raft alone *)

(* No election, no new task and no new entry.                               *)
LEMMA CalmStep ==
  ASSUME IInv, TypeInv', IndexInv', ReplayInv', CallsKept, NoneAcked,
         UNCHANGED <<term, log, begin, result>>,
         \A n \in Nodes :
           /\ role'[n] \in {role[n], 0}
           /\ \/ lterm'[n] \in {lterm[n], -1}
              \/ lterm'[n] = term /\ term > 0 /\ begin[n] <= applied[n]
           /\ pend'[n] = <<>> \/ (pend'[n] = pend[n] /\ role'[n] = role[n])
           /\ role'[n] = term /\ term > 0 => applied'[n] = applied[n] /\ high'[n] = high[n]
  PROVE  IInv'
<1>1. term \in Nat
  BY BlockAssumption DEF IInv, TypeInv
<1>2. TermInv'
  <2>1. \A n \in Nodes : role'[n] <= term' /\ (lterm'[n] = -1 \/ lterm'[n] \in 1..term')
    BY <1>1 DEF IInv, TermInv
  <2> QED BY Zenon, <2>1, TermStep
<1>3. PendInv'
  BY Zenon, PendKept DEF PendInv
<1>4. LogInv' /\ AckInv'
  BY Zenon, LogSame, LogStep, AckStep
<1>5. LeaderInv'
  <2>1. ASSUME NEW n \in Nodes, lterm'[n] = term, term > 0
        PROVE  lterm[n] = term \/ begin[n] <= applied[n]
    BY <1>1, <2>1
  <2> QED BY Zenon, <2>1, LeaderStep
<1> QED BY Zenon, <1>2, <1>3, <1>4, <1>5 DEF IInv

(* Neither raft nor the replicas change; calls may.                         *)
LEMMA QuietStep ==
  ASSUME IInv, TypeInv', CallsKept, NoneAcked, UNCHANGED <<raft, block, hist, result>>
  PROVE  IInv'
<1>1. UNCHANGED <<term, log, role, begin, pend, lterm, applied, doc, snap, bare, high>>
  BY Zenon DEF raft, block, hist
<1>2. IndexInv' /\ ReplayInv'
  BY Zenon, <1>1, LogSame, IndexStep, ReplayStep
<1> QED BY Zenon, <1>1, <1>2, CalmStep

-----------------------------------------------------------------------------
(* A client goes on to its next try, or counts its write as failed.         *)
LEMMA NextTryKeeps ==
  ASSUME IInv, NEW c \in Clients, Trying(c), NextTry(c), UNCHANGED <<raft, block, hist, call>>
  PROVE  IInv'
<1>1. TypeInv'
  <2>0. try[c] \in 1..3 /\ try \in [Clients -> 1..4]
    BY DEF IInv, TypeInv, Tries
  <2>1. try' \in [Clients -> 1..Tries + 1]
    BY <2>0 DEF NextTry, Tries
  <2>3. result' \in [Clients -> {"none", "ok", "failed"}]
    BY Zenon DEF IInv, TypeInv, NextTry, MsgAndSuccess
  <2>2. \A d \in Clients : Trying(d)' => try'[d] \in 1..Tries
    BY DEF IInv, TypeInv, NextTry, MsgAndSuccess, Trying, Tries
  <2> QED BY Zenon, <2>1, <2>2, <2>3 DEF IInv, TypeInv, raft, block, hist
<1>2. CallsKept /\ NoneAcked
  BY Zenon, UnchangedKeeps
<1>3. UNCHANGED <<term, log, role, begin, pend, lterm, applied, doc, snap, bare, high>>
  BY Zenon DEF raft, block, hist
<1>4. TermInv'
  BY Zenon, <1>2, <1>3, TermStep DEF IInv, TermInv
<1>5. IndexInv' /\ ReplayInv' /\ PendInv' /\ LogInv' /\ LeaderInv'
  BY Zenon, <1>2, <1>3, LogSame, IndexStep, ReplayStep, PendKept, LogStep, LeaderStep DEF PendInv
<1>6. AckInv'
  <2>1. \A d \in Clients : result'[d] = "ok" => result[d] = "ok"
    BY Zenon DEF NextTry, MsgAndSuccess, IInv, TypeInv
  <2> QED BY Zenon, <2>1, <1>3 DEF IInv, AckInv
<1> QED BY Zenon, <1>1, <1>4, <1>5, <1>6 DEF IInv

(* Write sends the call of its round to a node.                             *)
LEMMA WriteSendKeeps ==
  ASSUME IInv, NEW c \in Clients, NEW n \in Nodes, WriteSend(c, n)
  PROVE  IInv'
<1> DEFINE d == Current(c)
           r == [node |-> n, stage |-> "sent", term |-> 0]
<1>1. d \in Calls /\ call[d] = Idle
  BY Zenon DEF IInv, TypeInv, WriteSend, Current, Calls
<1>2. call \in [Calls -> Rpcs] /\ r \in Rpcs /\ term \in Nat
  BY BlockAssumption DEF IInv, TypeInv, Rpcs, Stages
<1>3. call' = [call EXCEPT ![d] = r]
  BY Zenon DEF WriteSend
<1>4. /\ call' \in [Calls -> Rpcs] /\ call'[d] = r
      /\ \A e \in Calls \ {d} : call'[e] = call[e]
  BY Zenon, <1>1, <1>2, <1>3
<1>5. call[d].stage = "none" /\ r.stage = "sent" /\ r.term = 0 /\ r.node = n
  BY <1>1 DEF Idle
<1> HIDE DEF d, r
<1>6. CallsKept /\ NoneAcked
  BY <1>1, <1>2, <1>4, <1>5 DEF IInv, TermInv, CallsKept, NoneAcked, Taken, Open
<1>7. UNCHANGED <<raft, block, hist, client>>
  BY Zenon DEF WriteSend
<1>8. TypeInv'
  BY Zenon, <1>4, <1>7 DEF IInv, TypeInv, raft, block, hist, client, Trying
<1> QED BY Zenon, <1>6, <1>7, <1>8, QuietStep DEF client

(* Write returns a success.                                                 *)
LEMMA WriteSucceedsKeeps ==
  ASSUME IInv, NEW c \in Clients, WriteSucceeds(c)
  PROVE  IInv'
<1>1. CallsKept /\ NoneAcked
  BY Zenon, UnchangedKeeps DEF WriteSucceeds
<1>2. UNCHANGED <<term, log, role, begin, pend, lterm, applied, doc, snap, failed, bare, high, call, try>>
  BY Zenon DEF WriteSucceeds, raft, block, hist
<1>3. result' = [result EXCEPT ![c] = "ok"] /\ result \in [Clients -> {"none", "ok", "failed"}]
  BY Zenon DEF WriteSucceeds, IInv, TypeInv
<1>4. TypeInv'
  <2>1. \A d \in Clients : Trying(d)' => try'[d] \in 1..Tries
    BY Zenon, <1>2, <1>3 DEF IInv, TypeInv, Trying
  <2>2. result' \in [Clients -> {"none", "ok", "failed"}]
    BY Zenon, <1>3
  <2> QED BY Zenon, <1>2, <2>1, <2>2 DEF IInv, TypeInv
<1>5. TermInv'
  BY Zenon, <1>1, <1>2, TermStep DEF IInv, TermInv
<1>6. IndexInv' /\ ReplayInv' /\ PendInv' /\ LogInv' /\ LeaderInv'
  BY Zenon, <1>1, <1>2, LogSame, IndexStep, ReplayStep, PendKept, LogStep, LeaderStep DEF PendInv
<1>7. AckInv'
  <2>1. Current(c) \in Calls /\ call[Current(c)].stage = "ok" /\ Current(c)[1] = c
    BY Zenon DEF IInv, TypeInv, WriteSucceeds, Current, Calls
  <2>2. PICK i \in 1..Len(log) : log[i].call = Current(c)
    BY Zenon, <2>1 DEF IInv, AckInv
  <2>3. log[i].val = c
    BY Zenon, <2>1, <2>2 DEF IInv, LogInv
  <2>4. \A d \in Clients \ {c} : result'[d] = result[d]
    BY Zenon, <1>3
  <2> QED BY Zenon, <1>2, <2>3, <2>4 DEF IInv, AckInv
<1> QED BY Zenon, <1>4, <1>5, <1>6, <1>7 DEF IInv

(* Block::write reads the leader term, or redirects.                        *)
LEMMA BlockWriteKeeps ==
  ASSUME IInv, NEW c \in Calls, BlockWrite(c)
  PROVE  IInv'
<1> DEFINE t == lterm[call[c].node]
<1>1. call \in [Calls -> Rpcs] /\ call[c].stage = "sent" /\ term \in Nat
  BY BlockAssumption DEF BlockWrite, IInv, TypeInv
<1>2. UNCHANGED <<raft, block, hist, client>>
  BY Zenon DEF BlockWrite
<1>3. CallsKept /\ NoneAcked
  <2>1. CASE t < 0
    <3>1. Stage(c, "no")
      BY Zenon, <2>1 DEF BlockWrite
    <3> QED BY Zenon, <1>1, <3>1, StageFacts DEF IInv, TermInv, CallsKept, NoneAcked, Taken, Open, Stages
  <2>2. CASE ~(t < 0)
    <3>1. call' = [call EXCEPT ![c].stage = "write", ![c].term = t]
      BY Zenon, <2>2 DEF BlockWrite
    <3>2. call[c].node \in Nodes
      BY Zenon, <1>1 DEF IInv, TermInv, Open
    <3>3. t \in 1..term /\ t \in Nat
      BY <1>1, <2>2, <3>2 DEF IInv, TermInv
    <3> HIDE DEF t
    <3>4. call[c] \in Rpcs
      BY Zenon, <1>1
    <3>5. call'[c] = [node |-> call[c].node, stage |-> "write", term |-> t]
      BY Zenon, <1>1, <3>1, <3>4 DEF Rpcs
    <3>6. call'[c] \in Rpcs
      BY <3>2, <3>3, <3>5 DEF Rpcs, Stages
    <3>7. call' \in [Calls -> Rpcs] /\ \A d \in Calls \ {c} : call'[d] = call[d]
      BY Zenon, <1>1, <3>1, <3>6
    <3> QED BY <1>1, <3>2, <3>3, <3>5, <3>7 DEF IInv, TermInv, CallsKept, NoneAcked, Taken, Open
  <2> QED BY Zenon, <2>1, <2>2
<1>4. TypeInv'
  BY Zenon, <1>2, <1>3 DEF CallsKept, IInv, TypeInv, raft, block, hist, client, Trying
<1> QED BY Zenon, <1>2, <1>3, <1>4, QuietStep DEF client

(* _node->apply takes the task, or refuses it.                              *)
LEMMA BlockApplyKeeps ==
  ASSUME IInv, NEW c \in Calls, BlockApply(c)
  PROVE  IInv'
<1>1. call[c].stage = "write"
  BY Zenon DEF BlockApply
<1>2. PICK n \in Nodes : n = call[c].node
  BY Zenon, <1>1 DEF IInv, TermInv, Open
<1>3. /\ call \in [Calls -> Rpcs] /\ call[c].stage = "write" /\ n = call[c].node
      /\ call[c].term > 0 /\ term \in Nat /\ pend \in [Nodes -> Seq(Calls)]
  <2>1. call[c].term > 0
    BY Zenon, <1>1 DEF IInv, TermInv
  <2> QED BY <1>1, <1>2, <2>1, BlockAssumption DEF IInv, TypeInv
<1>4. UNCHANGED <<term, log, role, begin, block, hist, client>>
  BY Zenon DEF BlockApply
<1>5. CASE ~ExpectedTerm(c)
  <2>1. Stage(c, "no") /\ pend' = pend
    BY Zenon, <1>5 DEF BlockApply
  <2>2. CallsKept /\ NoneAcked
    BY Zenon, <1>3, <2>1, StageFacts DEF IInv, TermInv, CallsKept, NoneAcked, Taken, Open, Stages
  <2>3. TypeInv'
    BY Zenon, <1>4, <2>1, <2>2 DEF CallsKept, IInv, TypeInv, block, hist, client, Trying
  <2> QED BY Zenon, <1>4, <2>1, <2>2, <2>3, QuietStep DEF raft, client
<1>6. CASE ExpectedTerm(c)
  <2>1. Stage(c, "queued") /\ pend' = [pend EXCEPT ![n] = Append(@, c)] /\ role[n] = call[c].term
    BY Zenon, <1>3, <1>6 DEF BlockApply, GuardReleased, ExpectedTerm
  <2>2. CallsKept /\ NoneAcked
    BY Zenon, <1>3, <2>1, StageFacts DEF IInv, TermInv, CallsKept, NoneAcked, Taken, Open, Stages
  <2>3. /\ Append(pend[n], c) \in Seq(Calls) /\ Len(Append(pend[n], c)) = Len(pend[n]) + 1
        /\ \A i \in 1..Len(pend[n]) : Append(pend[n], c)[i] = pend[n][i]
        /\ Append(pend[n], c)[Len(pend[n]) + 1] = c
        /\ Len(pend[n]) \in Nat
    BY <1>3, AppendFacts
  <2>4. pend' \in [Nodes -> Seq(Calls)] /\ pend'[n] = Append(pend[n], c)
    BY Zenon, <1>3, <2>1, <2>3
  <2>5. TypeInv'
    BY Zenon, <1>4, <2>2, <2>4 DEF CallsKept, IInv, TypeInv, block, hist, client, Trying
  <2>6. UNCHANGED <<lterm, applied, doc, snap, bare, high, result>>
    BY Zenon, <1>4 DEF block, hist, client
  <2>7. PendAt(n)'
    <3>1. ASSUME NEW i \in 1..Len(pend[n])
          PROVE  /\ pend[n][i] # c
                 /\ call'[pend[n][i]].stage \in Taken /\ call'[pend[n][i]].node = n
                 /\ call'[pend[n][i]].term = role[n] /\ role[n] > 0
      <4>1. pend[n][i] \in Calls
        BY <1>3
      <4>2. /\ call[pend[n][i]].stage \in Taken /\ call[pend[n][i]].node = n
            /\ call[pend[n][i]].term = role[n] /\ role[n] > 0
        BY <1>3 DEF IInv, PendInv, PendAt
      <4> QED BY Zenon, <1>3, <2>2, <4>1, <4>2 DEF CallsKept, Taken
    <3>2. /\ call'[c].stage \in Taken /\ call'[c].node = n
          /\ call'[c].term = role[n] /\ role[n] > 0
      BY Zenon, <1>3, <2>1, StageFacts DEF IInv, Taken, Stages
    <3>3. \A j \in 1..Len(log) : log[j].call # c
      BY Zenon, <1>3 DEF IInv, LogInv, Taken
    <3>4. /\ \A i, j \in 1..Len(pend[n]) : pend[n][i] = pend[n][j] => i = j
          /\ role[n] = term => \A i \in 1..Len(pend[n]), j \in 1..Len(log) : pend[n][i] # log[j].call
      BY Zenon, <1>3 DEF IInv, PendInv, PendAt
    <3>5. \A i \in 1..Len(pend[n]) + 1 : i \in 1..Len(pend[n]) \/ i = Len(pend[n]) + 1
      BY <2>3
    <3> DEFINE k == Len(pend[n]) + 1
    <3>6. /\ Len(pend'[n]) = k /\ pend'[n][k] = c
          /\ \A i \in 1..Len(pend[n]) : pend'[n][i] = pend[n][i]
      BY Zenon, <2>3, <2>4
    <3> HIDE DEF k
    <3>7. \A i \in 1..k : /\ call'[pend'[n][i]].stage \in Taken /\ call'[pend'[n][i]].node = n
                          /\ call'[pend'[n][i]].term = role[n] /\ role[n] > 0
      BY <3>1, <3>2, <3>5, <3>6 DEF k
    <3>8. \A i, j \in 1..k : pend'[n][i] = pend'[n][j] => i = j
      BY Zenon, <3>1, <3>4, <3>5, <3>6 DEF k
    <3>9. role[n] = term => \A i \in 1..k, j \in 1..Len(log) : pend'[n][i] # log[j].call
      BY Zenon, <3>3, <3>4, <3>5, <3>6 DEF k
    <3> QED BY Zenon, <1>4, <3>6, <3>7, <3>8, <3>9 DEF PendAt
  <2>8. \A m \in Nodes : m # n => pend'[m] = pend[m]
    BY Zenon, <1>3, <2>1
  <2>9. PendInv'
    <3>1. ASSUME NEW m \in Nodes, m # n PROVE PendAt(m)'
      BY Zenon, <1>4, <2>2, <2>8, <3>1, PendKept
    <3> QED BY Zenon, <2>7, <3>1 DEF PendInv
  <2>10. TermInv'
    BY Zenon, <1>4, <2>2, <2>6, TermStep DEF IInv, TermInv
  <2>11. IndexInv' /\ ReplayInv' /\ LogInv' /\ AckInv' /\ LeaderInv'
    BY Zenon, <1>4, <2>2, <2>6, LogSame, IndexStep, ReplayStep, LogStep, AckStep, LeaderStep
  <2> QED BY Zenon, <2>5, <2>9, <2>10, <2>11 DEF IInv
<1> QED BY Zenon, <1>5, <1>6

-----------------------------------------------------------------------------
(* The callbacks of Block on a replica, its snapshots and restarts, and the *)
(* commits, elections and resignations of braft.                            *)

(* on_apply stores the next entry and runs its closure.                     *)
LEMMA OnApplyKeeps ==
  ASSUME IInv, NEW n \in Nodes, OnApply(n)
  PROVE  IInv'
<1> DEFINE k == applied[n] + 1
           e == log[k]
<1>1. UNCHANGED <<term, log, role, begin, pend, lterm, snap, failed, bare, try, result>>
  BY Zenon DEF OnApply, raft, client
<1>2. /\ term \in Nat /\ Len(log) \in Nat /\ k \in 1..Len(log) /\ k \in Nat
      /\ applied \in [Nodes -> Nat] /\ high \in [Nodes -> Nat]
      /\ doc \in [Nodes -> Clients \cup {Nil}]
  <2>1. /\ term \in Nat /\ log \in Seq(Entries)
        /\ applied \in [Nodes -> Nat] /\ high \in [Nodes -> Nat]
        /\ doc \in [Nodes -> Clients \cup {Nil}]
    BY BlockAssumption DEF IInv, TypeInv
  <2>2. applied[n] < Len(log)
    BY Zenon DEF OnApply
  <2> QED BY <2>1, <2>2
<1>3. e \in Entries /\ e.call \in Calls /\ e.val \in Clients
  BY Zenon, <1>2, EntryFacts DEF Entries
<1>4. /\ doc' = [doc EXCEPT ![n] = e.val]
      /\ applied' = [applied EXCEPT ![n] = k]
      /\ high' = [high EXCEPT ![n] = IF high[n] > applied[n] THEN high[n] ELSE k]
  BY Zenon DEF OnApply
<1>5. \/ HasClosure(n, e) /\ Stage(e.call, "ok")
      \/ call' = call
  BY Zenon DEF OnApply
<1>6. /\ CallsKept
      /\ \A d \in Calls : call'[d].stage = "ok" =>
           call[d].stage = "ok" \/ (d = e.call /\ e.by = n)
  <2>1. CASE call' = call
    BY Zenon, <2>1, UnchangedKeeps
  <2>2. CASE HasClosure(n, e) /\ Stage(e.call, "ok")
    <3> HIDE DEF e
    <3>1. call[e.call].stage = "queued" /\ e.by = n
      BY Zenon, <2>2 DEF HasClosure
    <3> QED BY Zenon, <1>3, <2>2, <3>1, StageFacts DEF IInv, TermInv, CallsKept, Taken, Open, Stages
  <2> QED BY Zenon, <1>5, <2>1, <2>2
<1>7. TypeInv'
  <2>1. doc' \in [Nodes -> Clients \cup {Nil}]
    BY Zenon, <1>2, <1>3, <1>4
  <2>2. applied' \in [Nodes -> Nat] /\ high' \in [Nodes -> Nat]
    BY Zenon, <1>2, <1>4
  <2> QED BY Zenon, <1>1, <1>6, <2>1, <2>2 DEF CallsKept, IInv, TypeInv, Trying
<1>8. TermInv'
  BY Zenon, <1>1, <1>6, TermStep DEF IInv, TermInv
<1>9. IndexInv'
  BY <1>1, <1>2, <1>4 DEF IInv, TypeInv, IndexInv
<1>10. PendInv' /\ LogInv'
  BY Zenon, <1>1, <1>6, PendKept, LogStep DEF PendInv
<1>11. AckInv'
  BY Zenon, <1>1, <1>2, <1>6 DEF IInv, AckInv
<1>12. ReplayInv'
  <2> SUFFICES ASSUME NEW m \in Nodes, ~bare[m]
               PROVE  /\ applied'[m] <= high'[m]
                      /\ applied'[m] = high'[m] => doc'[m] = Replay(high'[m])
    BY Zenon, <1>1 DEF ReplayInv, Replay
  <2>1. applied[m] <= high[m] /\ (applied[m] = high[m] => doc[m] = Replay(high[m]))
    BY Zenon DEF IInv, ReplayInv
  <2>2. CASE m # n
    BY Zenon, <1>2, <1>4, <2>1, <2>2
  <2>3. CASE m = n
    <3>1. Replay(k) = e.val
      BY <1>2 DEF Replay
    <3>2. applied'[n] = k /\ doc'[n] = e.val
      BY Zenon, <1>2, <1>4
    <3>3. high'[n] = IF high[n] > applied[n] THEN high[n] ELSE k
      BY Zenon, <1>2, <1>4
    <3>4. high[n] \in Nat /\ applied[n] \in Nat
      BY Zenon, <1>2
    <3> HIDE DEF e
    <3> QED BY <2>1, <2>3, <3>1, <3>2, <3>3, <3>4
  <2> QED BY Zenon, <2>2, <2>3
<1>13. LeaderInv'
  <2> SUFFICES ASSUME NEW m \in Nodes, role[m] = term, term > 0
               PROVE  /\ \A o \in Nodes : role[o] = term => o = m
                      /\ \A i \in 1..Len(log) : i > begin[m] => log[i].by \in {m, Nil}
                      /\ \A i \in 1..Len(log) : call'[log[i].call].stage = "ok" =>
                           i <= begin[m] \/ i <= applied'[m]
                      /\ high'[m] <= begin[m] \/ high'[m] <= applied'[m]
                      /\ lterm[m] = term => begin[m] <= applied'[m]
    BY Zenon, <1>1 DEF LeaderInv
  <2>1. /\ \A o \in Nodes : role[o] = term => o = m
        /\ \A i \in 1..Len(log) : i > begin[m] => log[i].by \in {m, Nil}
        /\ \A i \in 1..Len(log) : call[log[i].call].stage = "ok" => i <= begin[m] \/ i <= applied[m]
        /\ high[m] <= begin[m] \/ high[m] <= applied[m]
        /\ lterm[m] = term => begin[m] <= applied[m]
    BY Zenon DEF IInv, LeaderInv
  <2>2. begin[m] \in Nat /\ applied[m] \in Nat /\ high[m] \in Nat /\ applied[n] \in Nat
    BY Zenon DEF IInv, TypeInv
  <2>3. applied'[m] = (IF m = n THEN applied[m] + 1 ELSE applied[m])
    BY Zenon, <1>2, <1>4
  <2>4. high'[m] <= begin[m] \/ high'[m] <= applied'[m]
    <3>1. high'[m] = (IF m = n /\ ~(high[n] > applied[n]) THEN k ELSE high[m])
      BY Zenon, <1>2, <1>4
    <3> QED BY <2>1, <2>2, <2>3, <3>1
  <2>5. ASSUME NEW i \in 1..Len(log), call'[log[i].call].stage = "ok"
        PROVE  i <= begin[m] \/ i <= applied'[m]
    <3>1. CASE call[log[i].call].stage = "ok"
      <4>1. i <= begin[m] \/ i <= applied[m]
        BY Zenon, <2>1, <3>1
      <4> QED BY <1>2, <2>2, <2>3, <4>1
    <3>2. CASE log[i].call = e.call /\ e.by = n
      <4>1. i = k
        BY Zenon, <1>2, <3>2 DEF IInv, LogInv
      <4>2. CASE m = n
        BY <2>2, <2>3, <4>1, <4>2
      <4>3. CASE m # n
        <5>1. ~(i > begin[m])
          BY Zenon, <2>1, <3>2, <4>1, <4>3, BlockAssumption
        <5> QED BY <1>2, <2>2, <5>1
      <4> QED BY Zenon, <4>2, <4>3
    <3> QED BY Zenon, <1>6, <2>5, <3>1, <3>2, EntryFacts
  <2> QED BY <2>1, <2>2, <2>3, <2>4, <2>5
<1> QED BY Zenon, <1>7, <1>8, <1>9, <1>10, <1>11, <1>12, <1>13 DEF IInv

(* gamma fails: the state machine stops and its closures fail.              *)
LEMMA OnApplyFailsKeeps ==
  ASSUME IInv, NEW n \in Nodes, OnApplyFails(n)
  PROVE  IInv'
<1>1. UNCHANGED <<term, log, begin, lterm, applied, doc, snap, bare, high, try, result>>
  BY Zenon DEF OnApplyFails, SetErrorAndRollback, hist, client
<1>2. CallsKept /\ NoneAcked
  BY Zenon, AnsweredKeeps DEF OnApplyFails
<1>3. /\ role' = [role EXCEPT ![n] = 0] /\ pend' = [pend EXCEPT ![n] = <<>>]
      /\ failed' = [failed EXCEPT ![n] = TRUE]
  BY Zenon DEF OnApplyFails, SetErrorAndRollback
<1>4. TypeInv'
  <2>1. role' \in [Nodes -> Nat] /\ pend' \in [Nodes -> Seq(Calls)]
    BY <1>3 DEF IInv, TypeInv
  <2>2. failed' \in [Nodes -> BOOLEAN]
    BY Zenon, <1>3 DEF IInv, TypeInv
  <2> QED BY Zenon, <1>1, <1>2, <2>1, <2>2 DEF CallsKept, IInv, TypeInv, Trying
<1>5. \A m \in Nodes : /\ role'[m] \in {role[m], 0}
                       /\ pend'[m] = <<>> \/ (pend'[m] = pend[m] /\ role'[m] = role[m])
  BY Zenon, <1>3 DEF IInv, TypeInv
<1>6. IndexInv' /\ ReplayInv'
  BY Zenon, <1>1, LogSame, IndexStep, ReplayStep
<1> QED BY Zenon, <1>1, <1>2, <1>4, <1>5, <1>6, CalmStep

(* on_leader_start and on_leader_stop set the leader term.                  *)
LEMMA LeaderTermKeeps ==
  ASSUME IInv, NEW n \in Nodes, OnLeaderStart(n) \/ OnLeaderStop(n)
  PROVE  IInv'
<1>1. UNCHANGED <<raft, applied, doc, snap, failed, hist, call, client>>
  BY Zenon DEF OnLeaderStart, OnLeaderStop
<1>2. UNCHANGED <<term, log, role, begin, pend, bare, high, try, result>>
  BY Zenon, <1>1 DEF raft, hist, client
<1>3. CallsKept /\ NoneAcked
  BY Zenon, <1>1, UnchangedKeeps
<1>4. term \in Nat /\ lterm \in [Nodes -> Int]
  BY BlockAssumption DEF IInv, TypeInv
<1>5. \/ lterm' = [lterm EXCEPT ![n] = term] /\ term > 0 /\ begin[n] <= applied[n]
      \/ lterm' = [lterm EXCEPT ![n] = -1]
  <2>1. begin[n] \in Nat /\ applied[n] \in Nat
    BY Zenon DEF IInv, TypeInv
  <2> QED BY Zenon, <2>1 DEF OnLeaderStart, OnLeaderStop, StoppedTerm
<1>6. /\ lterm' \in [Nodes -> Int]
      /\ \A m \in Nodes : \/ lterm'[m] \in {lterm[m], -1}
                          \/ lterm'[m] = term /\ term > 0 /\ begin[m] <= applied[m]
  BY <1>4, <1>5
<1>7. TypeInv'
  BY Zenon, <1>1, <1>2, <1>3, <1>6 DEF CallsKept, IInv, TypeInv, Trying
<1>8. IndexInv' /\ ReplayInv'
  BY Zenon, <1>1, <1>2, LogSame, IndexStep, ReplayStep
<1> QED BY Zenon, <1>1, <1>2, <1>3, <1>6, <1>7, <1>8, CalmStep

(* A snapshot covers what was applied.                                      *)
LEMMA SnapshotSaveKeeps ==
  ASSUME IInv, NEW n \in Nodes, OnSnapshotSave(n)
  PROVE  IInv'
<1>1. UNCHANGED <<raft, lterm, applied, doc, failed, hist, call, client>>
  BY Zenon DEF OnSnapshotSave
<1>2. UNCHANGED <<term, log, role, begin, pend, bare, high, try, result>>
  BY Zenon, <1>1 DEF raft, hist, client
<1>3. CallsKept /\ NoneAcked
  BY Zenon, <1>1, UnchangedKeeps
<1>4. snap' = [snap EXCEPT ![n] = applied[n]]
  BY Zenon DEF OnSnapshotSave
<1>5. TypeInv'
  <2>1. snap' \in [Nodes -> Nat]
    BY Zenon, <1>4 DEF IInv, TypeInv
  <2> QED BY Zenon, <1>1, <1>2, <1>3, <2>1 DEF CallsKept, IInv, TypeInv, Trying
<1>6. IndexInv'
  BY <1>1, <1>2, <1>4 DEF IInv, TypeInv, IndexInv
<1>7. ReplayInv'
  BY Zenon, <1>1, <1>2, LogSame, ReplayStep
<1> QED BY Zenon, <1>1, <1>2, <1>3, <1>5, <1>6, <1>7, CalmStep

(* A follower installs the snapshot of the leader.                          *)
LEMMA SnapshotLoadKeeps ==
  ASSUME IInv, NEW n \in Nodes, OnSnapshotLoad(n)
  PROVE  IInv'
<1>1. UNCHANGED <<raft, lterm, doc, failed, high, call, client>> /\ role[n] = 0
  BY Zenon DEF OnSnapshotLoad
<1>2. UNCHANGED <<term, log, role, begin, pend, try, result>>
  BY Zenon, <1>1 DEF raft, client
<1>3. CallsKept /\ NoneAcked
  BY Zenon, <1>1, UnchangedKeeps
<1>4. PICK l \in Nodes : /\ applied' = [applied EXCEPT ![n] = snap[l]]
                         /\ snap' = [snap EXCEPT ![n] = snap[l]]
  BY Zenon DEF OnSnapshotLoad
<1>5. bare' = [bare EXCEPT ![n] = TRUE]
  BY Zenon DEF OnSnapshotLoad
<1>6. TypeInv'
  <2>1. snap' \in [Nodes -> Nat] /\ applied' \in [Nodes -> Nat]
    BY Zenon, <1>4 DEF IInv, TypeInv
  <2>2. bare' \in [Nodes -> BOOLEAN]
    BY Zenon, <1>5 DEF IInv, TypeInv
  <2> QED BY Zenon, <1>1, <1>2, <1>3, <2>1, <2>2 DEF CallsKept, IInv, TypeInv, Trying
<1>7. IndexInv'
  <2>1. snap[l] <= Len(log) /\ Len(log) \in Nat
    <3>1. snap[l] \in Nat /\ applied[l] \in Nat /\ Len(log) \in Nat
      BY DEF IInv, TypeInv
    <3>2. snap[l] <= applied[l] /\ applied[l] <= Len(log)
      BY Zenon DEF IInv, IndexInv
    <3> QED BY <3>1, <3>2
  <2> QED BY <1>1, <1>2, <1>4, <2>1 DEF IInv, TypeInv, IndexInv
<1>8. \A m \in Nodes : m # n => applied'[m] = applied[m] /\ bare'[m] = bare[m]
  BY Zenon, <1>4, <1>5 DEF IInv, TypeInv
<1>9. ReplayInv'
  <2>1. bare'[n]
    BY Zenon, <1>5 DEF IInv, TypeInv
  <2> QED BY Zenon, <1>1, <1>2, <1>8, <2>1 DEF IInv, ReplayInv, Replay
<1> QED BY <1>1, <1>2, <1>3, <1>6, <1>7, <1>8, <1>9, CalmStep

(* A restarted replica goes on from its snapshot.                           *)
LEMMA RestartKeeps ==
  ASSUME IInv, NEW n \in Nodes, Restart(n)
  PROVE  IInv'
<1>1. UNCHANGED <<term, log, begin, doc, snap, bare, high, try, result>>
  BY Zenon DEF Restart, hist, client
<1>2. CallsKept /\ NoneAcked
  BY Zenon, AnsweredKeeps DEF Restart
<1>3. /\ role' = [role EXCEPT ![n] = 0] /\ pend' = [pend EXCEPT ![n] = <<>>]
      /\ lterm' = [lterm EXCEPT ![n] = -1] /\ applied' = [applied EXCEPT ![n] = snap[n]]
      /\ failed' = [failed EXCEPT ![n] = FALSE]
  BY Zenon DEF Restart
<1>4. TypeInv'
  <2>1. role' \in [Nodes -> Nat] /\ pend' \in [Nodes -> Seq(Calls)]
    BY <1>3 DEF IInv, TypeInv
  <2>2. lterm' \in [Nodes -> Int] /\ applied' \in [Nodes -> Nat]
    BY <1>3 DEF IInv, TypeInv
  <2>3. failed' \in [Nodes -> BOOLEAN]
    BY Zenon, <1>3 DEF IInv, TypeInv
  <2> QED BY Zenon, <1>1, <1>2, <2>1, <2>2, <2>3 DEF CallsKept, IInv, TypeInv, Trying
<1>5. \A m \in Nodes : /\ role'[m] \in {role[m], 0} /\ lterm'[m] \in {lterm[m], -1}
                       /\ pend'[m] = <<>> \/ (pend'[m] = pend[m] /\ role'[m] = role[m])
                       /\ role'[m] # 0 => applied'[m] = applied[m]
  BY Zenon, <1>3 DEF IInv, TypeInv
<1>6. IndexInv'
  <2>1. snap[n] <= applied[n] /\ applied[n] <= Len(log) /\ Len(log) \in Nat
    BY DEF IInv, TypeInv, IndexInv
  <2> QED BY <1>1, <1>3, <2>1 DEF IInv, TypeInv, IndexInv
<1>7. ReplayInv'
  <2> SUFFICES ASSUME NEW m \in Nodes, ~bare[m]
               PROVE  /\ applied'[m] <= high[m]
                      /\ applied'[m] = high[m] => doc[m] = Replay(high[m])
    BY Zenon, <1>1 DEF ReplayInv, Replay
  <2>1. applied[m] <= high[m] /\ (applied[m] = high[m] => doc[m] = Replay(high[m]))
    BY Zenon DEF IInv, ReplayInv
  <2>2. /\ applied[m] \in Nat /\ high[m] \in Nat /\ snap[m] \in Nat /\ snap[m] <= applied[m]
        /\ applied'[m] \in {applied[m], snap[m]}
    BY Zenon, <1>3 DEF IInv, TypeInv, IndexInv
  <2> QED BY <2>1, <2>2
<1> QED BY <1>1, <1>2, <1>4, <1>5, <1>6, <1>7, CalmStep

-----------------------------------------------------------------------------
(* The commits, elections and resignations of braft.                        *)

(* braft commits the first task of the leader.                              *)
LEMMA CommitKeeps ==
  ASSUME IInv, NEW n \in Nodes, Commit(n)
  PROVE  IInv'
<1> DEFINE k == Len(log) + 1
           c == pend[n][1]
<1>1. UNCHANGED <<term, role, begin, block, hist, call, client>>
  BY Zenon DEF Commit
<1>2. UNCHANGED <<lterm, applied, doc, snap, failed, bare, high, try, result>>
  BY Zenon, <1>1 DEF block, hist, client
<1>3. CallsKept /\ NoneAcked
  BY Zenon, <1>1, UnchangedKeeps
<1>4. Carries(n, n) /\ pend' = [pend EXCEPT ![n] = Tail(pend[n])] /\ Len(log) < MaxLog
  BY Zenon DEF Commit, Carries
<1>5. /\ LogExtends /\ Len(log') = k /\ Len(log) \in Nat /\ 1 \in 1..Len(pend[n])
      /\ \A i \in 1..Len(log) : log'[i] = log[i] /\ log[i].call # c
      /\ log'[k].call = c /\ log'[k].by = n
      /\ c \in Calls /\ term > 0 /\ role[n] = term
  <2>1. Len(log) \in Nat
    BY DEF IInv, TypeInv
  <2>2. role[n] = term
    BY Zenon, <1>4 DEF Carries
  <2> QED BY Zenon, <1>4, <2>1, <2>2, CarryFacts DEF LogExtends
<1>6. \A i \in 1..k : i \in 1..Len(log) \/ i = k
  BY <1>5
<1>7. pend \in [Nodes -> Seq(Calls)] /\ pend[n] # <<>>
  BY Zenon, <1>4 DEF IInv, TypeInv, Carries
<1>8. /\ Tail(pend[n]) \in Seq(Calls) /\ Len(Tail(pend[n])) = Len(pend[n]) - 1
      /\ \A i \in 1..Len(Tail(pend[n])) : Tail(pend[n])[i] = pend[n][i + 1]
      /\ Len(pend[n]) \in Nat
  BY Zenon, <1>7, TailFacts
<1>9. /\ pend' \in [Nodes -> Seq(Calls)] /\ pend'[n] = Tail(pend[n])
      /\ \A m \in Nodes : m # n => pend'[m] = pend[m]
  BY Zenon, <1>4, <1>7, <1>8
<1>10. TypeInv'
  <2>1. log' \in Seq(Entries) /\ Len(log') <= MaxLog
    BY <1>4, <1>5, BlockAssumption DEF LogExtends
  <2> QED BY Zenon, <1>1, <1>2, <1>9, <2>1 DEF IInv, TypeInv, Trying
<1>11. TermInv'
  BY Zenon, <1>1, <1>2, <1>3, <1>4, TermStep DEF IInv, TermInv
<1>12. IndexInv' /\ ReplayInv' /\ AckInv'
  BY Zenon, <1>1, <1>2, <1>3, <1>5, IndexStep, ReplayStep, AckStep
<1>13. LogInv'
  BY Zenon, <1>3, <1>4, LogCarry
<1>14. \A m \in Nodes : role[m] = term => m = n
  BY Zenon, <1>5 DEF IInv, LeaderInv
<1>15. PendInv'
  <2>1. ASSUME NEW m \in Nodes, m # n PROVE PendAt(m)'
    BY Zenon, <1>1, <1>3, <1>9, <1>14, <2>1, PendKept
  <2>2. PendAt(n)'
    <3>1. \A i \in 1..Len(pend[n]) : /\ call[pend[n][i]].stage \in Taken
                                     /\ call[pend[n][i]].node = n
                                     /\ call[pend[n][i]].term = role[n] /\ role[n] > 0
      BY Zenon DEF IInv, PendInv, PendAt
    <3>2. \A i, j \in 1..Len(pend[n]) : pend[n][i] = pend[n][j] => i = j
      BY Zenon DEF IInv, PendInv, PendAt
    <3>3. \A i \in 1..Len(pend[n]), j \in 1..Len(log) : pend[n][i] # log[j].call
      BY Zenon, <1>5 DEF IInv, PendInv, PendAt
    <3>4. ASSUME NEW i \in 1..Len(pend'[n])
          PROVE  i + 1 \in 1..Len(pend[n]) /\ pend'[n][i] = pend[n][i + 1] /\ i + 1 # 1
      BY <1>8, <1>9
    <3>5. \A i \in 1..Len(pend'[n]) : /\ call[pend'[n][i]].stage \in Taken
                                      /\ call[pend'[n][i]].node = n
                                      /\ call[pend'[n][i]].term = role[n] /\ role[n] > 0
      BY Zenon, <3>1, <3>4
    <3>6. ASSUME NEW i \in 1..Len(pend'[n]), NEW j \in 1..Len(pend'[n]), pend'[n][i] = pend'[n][j]
          PROVE  i = j
      <4>1. i + 1 = j + 1
        BY Zenon, <3>2, <3>4, <3>6
      <4> QED BY <4>1
    <3>7. ASSUME NEW i \in 1..Len(pend'[n]), NEW j \in 1..Len(log')
          PROVE  pend'[n][i] # log'[j].call
      <4>1. pend[n][i + 1] # c
        BY Zenon, <1>5, <3>2, <3>4
      <4>2. pend'[n][i] = pend[n][i + 1] /\ i + 1 \in 1..Len(pend[n])
        BY Zenon, <3>4
      <4>3. CASE j \in 1..Len(log)
        BY Zenon, <1>5, <3>3, <4>2, <4>3
      <4>4. CASE j = k
        BY Zenon, <1>5, <4>1, <4>2, <4>4
      <4> QED BY Zenon, <1>5, <1>6, <4>3, <4>4
    <3> QED BY Zenon, <1>1, <3>5, <3>6, <3>7 DEF PendAt
  <2> QED BY Zenon, <2>1, <2>2 DEF PendInv
<1>16. LeaderInv'
  <2>1. call[c].stage # "ok"
    BY Zenon, <1>5 DEF IInv, AckInv
  <2>2. ASSUME NEW m \in Nodes, role[m] = term, term > 0
        PROVE  /\ \A o \in Nodes : role[o] = term => o = m
               /\ \A i \in 1..Len(log) : i > begin[m] => log[i].by \in {m, Nil}
               /\ \A i \in 1..Len(log) : call[log[i].call].stage = "ok" => i <= begin[m] \/ i <= applied[m]
               /\ high[m] <= begin[m] \/ high[m] <= applied[m]
               /\ lterm[m] = term => begin[m] <= applied[m]
               /\ m = n
    BY Zenon, <1>14, <2>2 DEF IInv, LeaderInv
  <2> HIDE DEF c, k
  <2> QED BY Zenon, <1>1, <1>2, <1>5, <1>6, <2>1, <2>2 DEF LeaderInv
<1> QED BY Zenon, <1>10, <1>11, <1>12, <1>13, <1>15, <1>16 DEF IInv

(* What is left of a leader's tasks is at most one entry.                   *)
LEMMA MayCarryFacts ==
  ASSUME IInv, NEW l \in Nodes, MayCarry(l)
  PROVE  /\ LogExtends /\ Len(log') <= MaxLog
         /\ log' = log \/ Carries(l, Nil)
<1>1. CASE log' = log
  BY Zenon, <1>1, LogSame DEF IInv, TypeInv
<1>2. CASE Carries(l, Nil) /\ Len(log) < MaxLog
  <2>1. Len(log) \in Nat /\ MaxLog \in Nat
    BY BlockAssumption DEF IInv, TypeInv
  <2>2. LogExtends /\ Len(log') = Len(log) + 1
    BY Zenon, <1>2, CarryFacts
  <2> QED BY <1>2, <2>1, <2>2
<1> QED BY Zenon, <1>1, <1>2 DEF MayCarry, Carries

(* A node is elected.                                                       *)
LEMMA ElectKeeps ==
  ASSUME IInv, NEW n \in Nodes, Elect(n)
  PROVE  IInv'
<1>1. UNCHANGED <<pend, block, hist, call, client>> /\ role[n] = 0
  BY Zenon DEF Elect
<1>2. UNCHANGED <<lterm, applied, doc, snap, failed, bare, high, try, result>>
  BY Zenon, <1>1 DEF block, hist, client
<1>3. CallsKept /\ NoneAcked
  BY Zenon, <1>1, UnchangedKeeps
<1>4. PICK l \in Nodes : MayCarry(l)
  BY Zenon DEF Elect
<1>5. LogExtends /\ Len(log') <= MaxLog /\ (log' = log \/ Carries(l, Nil))
  BY Zenon, <1>4, MayCarryFacts
<1>6. /\ term \in Nat /\ term < MaxTerm /\ term' = term + 1
      /\ Len(log) \in Nat /\ Len(log') \in Nat /\ Len(log) <= Len(log')
  <2>1. term \in Nat /\ Len(log) \in Nat
    BY BlockAssumption DEF IInv, TypeInv
  <2>2. term < MaxTerm /\ term' = term + 1
    BY Zenon DEF Elect
  <2> QED BY <1>5, <2>1, <2>2 DEF LogExtends
<1>7. role' = [role EXCEPT ![n] = term'] /\ begin' = [begin EXCEPT ![n] = Len(log')]
  BY Zenon DEF Elect
<1>8. /\ role' \in [Nodes -> Nat] /\ begin' \in [Nodes -> Nat]
      /\ role'[n] = term + 1 /\ begin'[n] = Len(log')
      /\ \A m \in Nodes : m # n => role'[m] = role[m] /\ begin'[m] = begin[m]
  <2>1. role \in [Nodes -> Nat] /\ begin \in [Nodes -> Nat]
    BY Zenon DEF IInv, TypeInv
  <2>2. term' \in Nat
    BY <1>6
  <2> QED BY Zenon, <1>6, <1>7, <2>1, <2>2
<1>9. \A m \in Nodes : role[m] <= term /\ role[m] \in Nat
  BY Zenon DEF IInv, TypeInv, TermInv
<1>10. TypeInv'
  <2>1. log' \in Seq(Entries) /\ Len(log') <= MaxLog
    BY Zenon, <1>5 DEF LogExtends
  <2>2. term' \in 0..MaxTerm
    BY <1>6, BlockAssumption
  <2> QED BY Zenon, <1>1, <1>2, <1>8, <2>1, <2>2 DEF IInv, TypeInv, Trying
<1>11. TermInv'
  <2>1. \A m \in Nodes : role'[m] <= term' /\ (lterm'[m] = -1 \/ lterm'[m] \in 1..term')
    <3>1. \A m \in Nodes : role'[m] <= term'
      BY <1>6, <1>8, <1>9
    <3>2. \A m \in Nodes : lterm[m] = -1 \/ lterm[m] \in 1..term
      BY Zenon DEF IInv, TermInv
    <3> QED BY <1>2, <1>6, <3>1, <3>2
  <2> QED BY Zenon, <1>3, <1>5, <1>6, <2>1, TermStep
<1>12. IndexInv'
  <2>1. \A m \in Nodes : begin[m] \in Nat /\ snap[m] \in Nat /\ applied[m] \in Nat /\ high[m] \in Nat
    BY Zenon DEF IInv, TypeInv
  <2>2. \A m \in Nodes : /\ begin[m] <= Len(log) /\ snap[m] <= applied[m]
                         /\ applied[m] <= Len(log) /\ high[m] <= Len(log)
    BY Zenon DEF IInv, IndexInv
  <2>3. \A m \in Nodes : begin'[m] \in {begin[m], Len(log')}
    BY Zenon, <1>8
  <2>4. ASSUME NEW m \in Nodes
        PROVE  begin'[m] <= Len(log') /\ applied[m] <= Len(log') /\ high[m] <= Len(log')
    <3>1. Len(log) \in Nat /\ Len(log') \in Nat /\ Len(log) <= Len(log')
      BY Zenon, <1>6
    <3>2. begin[m] \in Nat /\ applied[m] \in Nat /\ high[m] \in Nat
      BY Zenon, <2>1
    <3>3. begin[m] <= Len(log) /\ applied[m] <= Len(log) /\ high[m] <= Len(log)
      BY Zenon, <2>2
    <3>4. begin'[m] = begin[m] \/ begin'[m] = Len(log')
      BY Zenon, <2>3
    <3> QED BY <3>1, <3>2, <3>3, <3>4
  <2> QED BY Zenon, <1>2, <2>2, <2>4 DEF IndexInv
<1>13. ReplayInv' /\ AckInv'
  BY Zenon, <1>2, <1>3, <1>5, ReplayStep, AckStep
<1>14. LogInv'
  BY Zenon, <1>3, <1>5, LogStep, LogCarry
<1>15. PendInv'
  <2>1. ASSUME NEW m \in Nodes, m # n PROVE PendAt(m)'
    BY <1>1, <1>3, <1>6, <1>8, <1>9, <2>1, PendKept
  <2>2. pend[n] = <<>>
    <3>1. pend[n] \in Seq(Calls)
      BY Zenon DEF IInv, TypeInv
    <3>2. \A i \in 1..Len(pend[n]) : FALSE
      BY <1>1 DEF IInv, PendInv, PendAt
    <3> QED BY <3>1, <3>2
  <2>3. PendAt(n)'
    BY Zenon, <1>1, <1>3, <2>2, PendKept
  <2> QED BY Zenon, <2>1, <2>3 DEF PendInv
<1>16. LeaderInv'
  <2>1. \A m \in Nodes : role'[m] = term' => m = n
    BY <1>6, <1>8, <1>9
  <2>2. lterm[n] # term'
    BY <1>6 DEF IInv, TermInv
  <2>3. high[n] <= begin'[n] /\ \A i \in 1..Len(log') : i <= begin'[n] /\ ~(i > begin'[n])
    <3>1. high[n] \in Nat /\ high[n] <= Len(log)
      BY Zenon DEF IInv, TypeInv, IndexInv
    <3> QED BY <1>6, <1>8, <3>1
  <2> QED BY Zenon, <1>2, <2>1, <2>2, <2>3 DEF LeaderInv
<1> QED BY Zenon, <1>10, <1>11, <1>12, <1>13, <1>14, <1>15, <1>16 DEF IInv

(* A leader steps down and fails the closures of its tasks.                 *)
LEMMA StepDownKeeps ==
  ASSUME IInv, NEW n \in Nodes, StepDown(n)
  PROVE  IInv'
<1>1. UNCHANGED <<term, begin, block, hist, client>>
  BY Zenon DEF StepDown
<1>2. UNCHANGED <<lterm, applied, doc, snap, failed, bare, high, try, result>>
  BY Zenon, <1>1 DEF block, hist, client
<1>3. CallsKept /\ NoneAcked
  BY Zenon, AnsweredKeeps DEF StepDown
<1>4. LogExtends /\ Len(log') <= MaxLog /\ (log' = log \/ Carries(n, Nil))
  BY Zenon, MayCarryFacts DEF StepDown
<1>5. role' = [role EXCEPT ![n] = 0] /\ pend' = [pend EXCEPT ![n] = <<>>]
  BY Zenon DEF StepDown
<1>6. /\ role' \in [Nodes -> Nat] /\ pend' \in [Nodes -> Seq(Calls)]
      /\ role'[n] = 0 /\ pend'[n] = <<>> /\ term \in Nat
      /\ \A m \in Nodes : m # n => role'[m] = role[m] /\ pend'[m] = pend[m]
  BY <1>5, BlockAssumption DEF IInv, TypeInv
<1>7. \A m \in Nodes : m # n /\ role[m] = term => log' = log
  <2>1. ASSUME Carries(n, Nil) PROVE role[n] = term /\ term > 0
    BY Zenon, <2>1, CarryFacts DEF Carries
  <2> QED BY Zenon, <1>4, <2>1 DEF IInv, LeaderInv
<1>8. TypeInv'
  <2>1. log' \in Seq(Entries) /\ Len(log') <= MaxLog
    BY Zenon, <1>4 DEF LogExtends
  <2> QED BY Zenon, <1>1, <1>2, <1>3, <1>6, <2>1 DEF CallsKept, IInv, TypeInv, Trying
<1>9. TermInv'
  <2>1. \A m \in Nodes : role'[m] <= term' /\ (lterm'[m] = -1 \/ lterm'[m] \in 1..term')
    <3>1. \A m \in Nodes : role[m] <= term /\ (lterm[m] = -1 \/ lterm[m] \in 1..term)
      BY Zenon DEF IInv, TermInv
    <3>2. \A m \in Nodes : role'[m] \in {role[m], 0}
      BY Zenon, <1>6
    <3>3. \A m \in Nodes : role'[m] <= term
      <4>1. term \in Nat
        BY Zenon, <1>6
      <4> QED BY <3>1, <3>2, <4>1
    <3> QED BY Zenon, <1>1, <1>2, <3>1, <3>3
  <2> QED BY Zenon, <1>1, <1>3, <1>4, <2>1, TermStep
<1>10. IndexInv' /\ ReplayInv' /\ AckInv'
  BY Zenon, <1>1, <1>2, <1>3, <1>4, IndexStep, ReplayStep, AckStep
<1>11. LogInv'
  BY Zenon, <1>3, <1>4, LogStep, LogCarry
<1>12. PendInv'
  <2>1. ASSUME NEW m \in Nodes PROVE PendAt(m)'
    BY Zenon, <1>1, <1>3, <1>6, <1>7, PendKept
  <2> QED BY Zenon, <2>1 DEF PendInv
<1>13. LeaderInv'
  <2>1. CASE log' = log
    BY Zenon, <1>1, <1>2, <1>3, <1>6, <2>1, LeaderStep
  <2>2. CASE log' # log
    <3>1. ASSUME NEW m \in Nodes, role'[m] = term, term > 0 PROVE FALSE
      <4>1. m # n
        BY <1>6, <3>1
      <4> QED BY Zenon, <1>6, <1>7, <2>2, <3>1, <4>1
    <3> QED BY Zenon, <1>1, <3>1 DEF LeaderInv
  <2> QED BY Zenon, <2>1, <2>2
<1> QED BY Zenon, <1>8, <1>9, <1>10, <1>11, <1>12, <1>13 DEF IInv

-----------------------------------------------------------------------------
(* The invariants hold when every Block starts with an empty log.           *)
LEMMA InitHolds == Init => IInv
<1> SUFFICES ASSUME Init PROVE IInv
  BY Zenon
<1>1. Idle \in Rpcs /\ Idle.stage = "none" /\ Idle.term = 0
  BY Zenon DEF Idle, Rpcs, Stages
<1>2. call \in [Calls -> Rpcs] /\ \A c \in Calls : call[c].stage = "none" /\ call[c].term = 0
  BY Zenon, <1>1 DEF Init
<1>3. Len(log) = 0 /\ log \in Seq(Entries)
  BY DEF Init
<1>4. TypeInv
  <2>1. pend \in [Nodes -> Seq(Calls)] /\ try \in [Clients -> 1..Tries + 1]
    BY DEF Init, Tries
  <2>2. \A c \in Clients : try[c] \in 1..Tries
    BY DEF Init, Tries
  <2>3. term \in 0..MaxTerm /\ Len(log) <= MaxLog
    BY <1>3, BlockAssumption DEF Init
  <2> QED BY <1>2, <1>3, <2>1, <2>2, <2>3 DEF Init, TypeInv
<1>5. TermInv
  BY <1>2, <1>3 DEF Init, TermInv, Open
<1>6. IndexInv /\ LogInv /\ LeaderInv
  BY <1>3 DEF Init, IndexInv, LogInv, LeaderInv
<1>7. PendInv
  BY DEF Init, PendInv, PendAt
<1>8. AckInv
  BY Zenon, <1>2 DEF Init, AckInv
<1>9. ReplayInv
  BY DEF Init, ReplayInv, Replay
<1> QED BY Zenon, <1>4, <1>5, <1>6, <1>7, <1>8, <1>9 DEF IInv

(* Every step keeps the invariants.                                         *)
LEMMA Inductive == IInv /\ [Next]_vars => IInv'
<1> SUFFICES ASSUME IInv, [Next]_vars PROVE IInv'
  BY Zenon
<1>1. CASE UNCHANGED vars
  <2>1. UNCHANGED <<raft, block, hist, call, client>>
    BY Zenon, <1>1 DEF vars
  <2>2. TypeInv'
    BY Zenon, <2>1 DEF raft, block, hist, client, IInv, TypeInv, Trying
  <2> QED BY Zenon, <2>1, <2>2, UnchangedKeeps, QuietStep DEF client
<1>2. ASSUME NEW c \in Clients, WriteUnconnected(c) \/ WriteFails(c) PROVE IInv'
  BY Zenon, <1>2, NextTryKeeps DEF WriteUnconnected, WriteFails
<1>3. ASSUME NEW c \in Clients, WriteSucceeds(c) PROVE IInv'
  BY Zenon, <1>3, WriteSucceedsKeeps
<1>4. ASSUME NEW c \in Clients, NEW n \in Nodes, WriteSend(c, n) PROVE IInv'
  BY Zenon, <1>4, WriteSendKeeps
<1>5. ASSUME NEW c \in Calls, BlockWrite(c) \/ BlockApply(c) PROVE IInv'
  BY Zenon, <1>5, BlockWriteKeeps, BlockApplyKeeps
<1>6. ASSUME NEW n \in Nodes, OnApply(n) \/ OnApplyFails(n) PROVE IInv'
  BY Zenon, <1>6, OnApplyKeeps, OnApplyFailsKeeps
<1>7. ASSUME NEW n \in Nodes, OnLeaderStart(n) \/ OnLeaderStop(n) PROVE IInv'
  BY Zenon, <1>7, LeaderTermKeeps
<1>8. ASSUME NEW n \in Nodes, OnSnapshotSave(n) \/ OnSnapshotLoad(n) PROVE IInv'
  BY Zenon, <1>8, SnapshotSaveKeeps, SnapshotLoadKeeps
<1>9. ASSUME NEW n \in Nodes, Commit(n) \/ Elect(n) \/ StepDown(n) \/ Restart(n) PROVE IInv'
  BY Zenon, <1>9, CommitKeeps, ElectKeeps, StepDownKeeps, RestartKeeps
<1> QED BY Zenon, <1>1, <1>2, <1>3, <1>4, <1>5, <1>6, <1>7, <1>8, <1>9 DEF Next

-----------------------------------------------------------------------------
(* The variables of Block and RaftClient keep their types, whatever the     *)
(* numbers of replicas, clients, terms, entries and faults.                 *)
THEOREM TypeCorrect == Spec => []TypeOK
<1>1. IInv => TypeOK
  <2> SUFFICES ASSUME IInv PROVE TypeOK
    BY Zenon
  <2>1. /\ term \in 0..MaxTerm /\ term \in Nat /\ log \in Seq(Entries) /\ Len(log) \in Nat
        /\ Len(log) <= MaxLog /\ DOMAIN log = 1..Len(log)
    BY BlockAssumption DEF IInv, TypeInv
  <2>2. ASSUME NEW i \in DOMAIN log
        PROVE  log[i].call \in Calls /\ log[i].by \in Nodes \cup {Nil} /\ log[i].term \in 1..term
    BY Zenon, <2>1, EntryFacts DEF Entries, IInv, TermInv
  <2>3. /\ role \in [Nodes -> 0..term] /\ lterm \in [Nodes -> {-1} \cup 1..term]
    BY <2>1 DEF IInv, TypeInv, TermInv
  <2>4. /\ begin \in [Nodes -> 0..Len(log)] /\ applied \in [Nodes -> 0..Len(log)]
        /\ high \in [Nodes -> 0..Len(log)]
    BY <2>1 DEF IInv, TypeInv, IndexInv
  <2>5. snap \in [Nodes -> 0..Len(log)]
    BY <2>1 DEF IInv, TypeInv, IndexInv
  <2>6. ASSUME NEW n \in Nodes PROVE Pending(n) \subseteq Calls
    <3>1. pend[n] \in Seq(Calls)
      BY Zenon DEF IInv, TypeInv
    <3> QED BY <3>1 DEF Pending
  <2>7. call \in [Calls -> [node : Nodes \cup {Nil}, term : 0..term,
                            stage : {"none", "sent", "write", "queued", "ok", "no"}]]
    <3>1. call \in [Calls -> Rpcs]
      BY Zenon DEF IInv, TypeInv
    <3>2. ASSUME NEW c \in Calls
          PROVE  call[c] \in [node : Nodes \cup {Nil}, term : 0..term,
                              stage : {"none", "sent", "write", "queued", "ok", "no"}]
      <4>1. call[c] \in Rpcs /\ call[c].term <= term
        BY Zenon, <3>1 DEF IInv, TermInv
      <4> QED BY <2>1, <4>1 DEF Rpcs, Stages
    <3> QED BY Zenon, <3>1, <3>2
  <2>8. /\ doc \in [Nodes -> Clients \cup {Nil}]
        /\ failed \in [Nodes -> BOOLEAN] /\ bare \in [Nodes -> BOOLEAN]
        /\ try \in [Clients -> 1..Tries + 1] /\ result \in [Clients -> {"none", "ok", "failed"}]
    BY Zenon DEF IInv, TypeInv
  <2> QED BY Zenon, <2>1, <2>2, <2>3, <2>4, <2>5, <2>6, <2>7, <2>8 DEF TypeOK
<1> QED BY <1>1, InitHolds, Inductive, PTL DEF Spec

(* A write that UpsertDocs counts as stored is committed, whatever was      *)
(* redirected, timed out, tried again or rolled back                        *)
(* (partition_connection.cc 114-116, raft_client.cc 20-61).                 *)
THEOREM StoredWritesAreCommitted == Spec => []StoredIsCommitted
<1>1. IInv => StoredIsCommitted
  <2> SUFFICES ASSUME IInv, NEW c \in Clients, result[c] = "ok"
               PROVE  \E i \in DOMAIN log : log[i].val = c
    BY Zenon DEF StoredIsCommitted
  <2>1. DOMAIN log = 1..Len(log)
    BY DEF IInv, TypeInv
  <2> QED BY Zenon, <2>1 DEF IInv, AckInv
<1> QED BY <1>1, InitHolds, Inductive, PTL DEF Spec

(* A replica that is past what it applies again after a restart, and was    *)
(* not set up from a snapshot, holds the document of the last entry it      *)
(* applied (Block::on_apply, raft_store.cc 200-300).                        *)
THEOREM ReplicasAreReplays == Spec => []ReplicaIsReplay
<1>1. IInv => ReplicaIsReplay
  <2> SUFFICES ASSUME IInv, NEW n \in Nodes, ~bare[n], applied[n] >= high[n]
               PROVE  doc[n] = Replay(applied[n])
    BY Zenon DEF ReplicaIsReplay
  <2>1. applied[n] \in Nat /\ high[n] \in Nat /\ applied[n] <= high[n]
    BY Zenon DEF IInv, TypeInv, ReplayInv
  <2> QED BY <2>1 DEF IInv, ReplayInv
<1> QED BY <1>1, InitHolds, Inductive, PTL DEF Spec

(* The replica that answers reads (is_leader, raft_store.cc 119) and leads  *)
(* the newest term has applied every acknowledged write.                    *)
THEOREM LeadersServeAcked == Spec => []LeaderServesAcked
<1>1. IInv => LeaderServesAcked
  <2> SUFFICES ASSUME IInv, NEW n \in Nodes, role[n] = term, lterm[n] = term, ~bare[n]
               PROVE  /\ \A i \in AckedEntries : i <= applied[n]
                      /\ doc[n] = Replay(applied[n])
    BY Zenon DEF LeaderServesAcked
  <2>1. /\ term \in Nat /\ Len(log) \in Nat /\ DOMAIN log = 1..Len(log)
        /\ applied[n] \in Nat /\ high[n] \in Nat /\ begin[n] \in Nat
    BY BlockAssumption DEF IInv, TypeInv
  <2>2. term > 0
    BY <2>1 DEF IInv, TermInv
  <2>3. /\ \A i \in 1..Len(log) : call[log[i].call].stage = "ok" => i <= begin[n] \/ i <= applied[n]
        /\ high[n] <= begin[n] \/ high[n] <= applied[n]
        /\ begin[n] <= applied[n]
    BY Zenon, <2>2 DEF IInv, LeaderInv
  <2>4. applied[n] <= high[n] /\ (applied[n] = high[n] => doc[n] = Replay(high[n]))
    BY Zenon DEF IInv, ReplayInv
  <2>5. applied[n] = high[n]
    BY <2>1, <2>3, <2>4
  <2>6. ASSUME NEW i \in 1..Len(log), call[log[i].call].stage = "ok" PROVE i <= applied[n]
    BY <2>1, <2>3, <2>6
  <2> QED BY Zenon, <2>1, <2>4, <2>5, <2>6 DEF AckedEntries
<1> QED BY <1>1, InitHolds, Inductive, PTL DEF Spec

(* An entry is committed only in the term Block::write read (raft_store.cc  *)
(* 96-104).                                                                 *)
THEOREM CommitsAreInTermRead == Spec => []CommittedInTermRead
<1>1. IInv => CommittedInTermRead
  <2> SUFFICES ASSUME IInv PROVE CommittedInTermRead
    BY Zenon
  <2>1. DOMAIN log = 1..Len(log)
    BY DEF IInv, TypeInv
  <2> QED BY Zenon, <2>1 DEF IInv, LogInv, CommittedInTermRead
<1> QED BY <1>1, InitHolds, Inductive, PTL DEF Spec
=============================================================================
