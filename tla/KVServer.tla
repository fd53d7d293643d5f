------------------------------ MODULE KVServer ------------------------------
(***************************************************************************)
(* The key/value servers of src/server/server.go above an agreed log: the  *)
(* goroutines handleClientConnection, handleOpQue, handleReadQue,          *)
(* ApplyHandler and handleClientResponse of every server, their queues,    *)
(* the history of answers and the table incrMapLogIdx.                     *)
(*                                                                         *)
(* Raft is what it promises this layer: one log, whose committed prefix    *)
(* never changes and whose rest may be lost when the leader changes, and a *)
(* leader that may believe itself leader for a while after it was deposed. *)
(* There is one key; its value is the sequence of values written to it, a  *)
(* PUT replaces it and an APPEND extends it.  Module Apply has the way of  *)
(* an entry from Raft to ApplyHandler, so one step applies it here.        *)
(***************************************************************************)
EXTENDS Integers, Sequences, FiniteSets

CONSTANTS
  Server,
  Op,         \* requests [type, clerk, id]; ids of a clerk grow
  Elections,  \* bound: <<server, term>> of the elections that are won
  Sends,      \* bound: <<op, server>> of the requests that clerks make
  Resends,    \* bound: <<op, server>> of those that arrive again
  Failing,    \* bound: servers that lose the connection of a clerk
  MaxRetry,   \* handleReadQue asks this often for the commit index
  QueueCap    \* bound: what a queue holds; 100 in the code, where a full one blocks too

ASSUME KVServerAssumption ==
  /\ Op \subseteq [type : {"GET", "PUT", "APPEND"}, clerk : Nat, id : Nat \ {0}]
  /\ \A o, p \in Op : o.id = p.id => o = p
  /\ Elections \subseteq Server \X Nat /\ Sends \cup Resends \subseteq Op \X Server
  /\ Failing \subseteq Server /\ QueueCap \in Nat \ {0} /\ MaxRetry \in Nat

VARIABLES
  log, commit, term, leader,    \* Raft: the log of the leader, its committed length
  believes,                     \* Raft: servers whose role is Leader
  sterm, commitIndex,           \* Raft: currentTerm and commitIndex of each server
  processQue, readQue, sendQueues,
  started,     \* handleOpQue: << >> or <<op, term>> that it has yet to register
  readOp,      \* handleReadQue: << >> or the read in hand, with the index it asked for
  count,       \* handleReadQue: failed questions, which a refused read leaves to the next
  incrMapLogIdx, history, db, lastApplied,
  clientConns, \* clerks whose connection a server knows
  sender,      \* whether handleClientResponse still runs
  sent, resent, answers,        \* the clients: requests made, answers received
  ackedBefore, \* ghost: writes acknowledged when a read was sent
  inexact      \* ghost: reads with an index that does not cover every committed entry

raftVars == <<log, commit, term, leader, believes, sterm, commitIndex>>
queues == <<processQue, readQue, sendQueues>>
tables == <<incrMapLogIdx, history, db, lastApplied>>
clients == <<clientConns, sent, resent, answers, ackedBefore, inexact>>
vars == <<raftVars, queues, started, readOp, count, tables, sender,
                 clients>>

IsWrite(o) == o.type # "GET"
OpToResp(o, err, value) == [clerk |-> o.clerk, id |-> o.id, err |-> err, value |-> value]
\* A response that was never filled in.
NoResp == [clerk |-> 0, id |-> 0, err |-> "none", value |-> << >>]

\* Mutant: one more than the capacity.
RoomOneMore(q) == Len(q) <= QueueCap

\* A channel that can be sent to without blocking.
Room(q) == Len(q) < QueueCap
Push(queue, s, x) == [queue EXCEPT ![s] = Append(@, x)]
Pop(queue, s) == [queue EXCEPT ![s] = Tail(@)]
Put(f, k, v) == [x \in DOMAIN f \cup {k} |-> IF x = k THEN v ELSE f[x]]
Delete(f, k) == [x \in DOMAIN f \ {k} |-> f[x]]

-----------------------------------------------------------------------------
(* Raft *)

\* A new leader has every committed entry and any part of the rest; what it does not
\* have is lost.
Elect(s) ==
  /\ <<s, term + 1>> \in Elections
  /\ term' = term + 1 /\ leader' = s
  /\ believes' = believes \cup {s}
  /\ sterm' = [sterm EXCEPT ![s] = term + 1]
  /\ \E n \in commit..Len(log) : log' = SubSeq(log, 1, n)
  /\ UNCHANGED <<commit, commitIndex, queues, started, readOp, count, tables, sender, clients>>

\* A server hears of the leader: its term, its commitIndex, and that it is none.
Follow(s) ==
  /\ leader \in Server /\ s # leader
  /\ sterm' = [sterm EXCEPT ![s] = term]
  /\ believes' = believes \ {s}
  /\ commitIndex' = [commitIndex EXCEPT ![s] = commitIndex[leader]]
  /\ commitIndex[leader] >= commitIndex[s]
  /\ UNCHANGED <<log, commit, term, leader, queues, started, readOp, count, tables, sender, clients>>

\* An entry of the leader's own term commits what is before it.
CommitEntry ==
  /\ \E n \in commit + 1..Len(log) :
       /\ log[n].term = term
       /\ commit' = n
       /\ commitIndex' = [commitIndex EXCEPT ![leader] = n]
  /\ UNCHANGED <<log, term, leader, believes, sterm, queues, started, readOp, count, tables, sender,
                 clients>>

-----------------------------------------------------------------------------
(* Clients, and handleClientConnection, which receives their requests *)

Acked == {a.id : a \in {b \in answers : b.err = "OK"}}

handleClientConnection(s, o) ==
  /\ Room(processQue[s])
  /\ processQue' = Push(processQue, s, o)
  /\ clientConns' = [clientConns EXCEPT ![s] = @ \cup {o.clerk}]
  /\ UNCHANGED <<raftVars, readQue, sendQueues, started, readOp, count, tables, sender, answers,
                 inexact>>

Request(s, o) ==
  /\ <<o, s>> \in Sends /\ o \notin sent
  /\ \A p \in Op : p.clerk = o.clerk /\ p.id < o.id => p \in sent
  /\ handleClientConnection(s, o)
  /\ sent' = sent \cup {o}
  /\ ackedBefore' = [ackedBefore EXCEPT ![o.id] = Acked]
  /\ UNCHANGED resent

\* The request arrives again, after an answer to it was given up.
Resend(s, o) ==
  /\ o.id \in {a.id : a \in answers} /\ <<o, s>> \in Resends \ resent
  /\ handleClientConnection(s, o)
  /\ resent' = resent \cup {<<o, s>>}
  /\ UNCHANGED <<sent, ackedBefore>>

\* handleClientResponse: the answer goes to the clerk, if its connection is known.
handleClientResponse(s) ==
  /\ sender[s] /\ sendQueues[s] # << >>
  /\ sendQueues' = Pop(sendQueues, s)
  /\ LET r == Head(sendQueues[s])
     IN  answers' = IF r.clerk \in clientConns[s] THEN answers \cup {r} ELSE answers
  /\ UNCHANGED <<raftVars, processQue, readQue, started, readOp, count, tables, sender, clientConns,
                 sent, resent, ackedBefore, inexact>>

\* conn.Write fails: the goroutine returns.
ResponseFails(s) ==
  /\ s \in Failing /\ sender[s] /\ sendQueues[s] # << >>
  /\ Head(sendQueues[s]).clerk \in clientConns[s]
  /\ sendQueues' = Pop(sendQueues, s)
  /\ sender' = [sender EXCEPT ![s] = FALSE]
  /\ UNCHANGED <<raftVars, processQue, readQue, started, readOp, count, tables, clients>>

-----------------------------------------------------------------------------
(* handleOpQue *)

Taken(s) == started[s] = << >> /\ processQue[s] # << >>
Known(s, o) == o.clerk \in DOMAIN history[s] /\ history[s][o.clerk].id = o.id

\* The answer is in the history.
Repeat(s) ==
  /\ Taken(s)
  /\ LET o == Head(processQue[s])
     IN  Known(s, o) /\ sendQueues' = Push(sendQueues, s, history[s][o.clerk])
  /\ Room(sendQueues[s])
  /\ processQue' = Pop(processQue, s)
  /\ UNCHANGED <<raftVars, readQue, started, readOp, count, tables, sender, clients>>

QueueRead(s) ==
  /\ Taken(s) /\ Room(readQue[s])
  /\ LET o == Head(processQue[s])
     IN  ~Known(s, o) /\ ~IsWrite(o) /\ readQue' = Push(readQue, s, o)
  /\ processQue' = Pop(processQue, s)
  /\ UNCHANGED <<raftVars, sendQueues, started, readOp, count, tables, sender, clients>>

NotLeader(s) ==
  /\ Taken(s) /\ Room(sendQueues[s]) /\ s \notin believes
  /\ LET o == Head(processQue[s])
     IN  /\ ~Known(s, o) /\ IsWrite(o)
         /\ sendQueues' = Push(sendQueues, s, OpToResp(o, "LeaderChanged", << >>))
  /\ processQue' = Pop(processQue, s)
  /\ UNCHANGED <<raftVars, readQue, started, readOp, count, tables, sender, clients>>

\* rf.Start: the entry of a deposed leader is lost.
Start(s) ==
  /\ Taken(s) /\ s \in believes
  /\ LET o == Head(processQue[s])
     IN  /\ ~Known(s, o) /\ IsWrite(o)
         /\ log' = IF s = leader THEN Append(log, [op |-> o, term |-> term]) ELSE log
         /\ started' = [started EXCEPT ![s] = <<o, sterm[s]>>]
  /\ processQue' = Pop(processQue, s)
  /\ UNCHANGED <<commit, term, leader, believes, sterm, commitIndex, readQue, sendQueues, readOp, count,
                 tables, sender, clients>>

\* The term is recorded after Start; the entry may be applied by then.
Register(s) ==
  /\ started[s] # << >>
  /\ incrMapLogIdx' = [incrMapLogIdx EXCEPT ![s] = Put(@, started[s][1].id, started[s][2])]
  /\ started' = [started EXCEPT ![s] = << >>]
  /\ UNCHANGED <<raftVars, queues, readOp, count, history, db, lastApplied, sender, clients>>

-----------------------------------------------------------------------------
(* handleReadQue *)

NoIndex == -1
TakeRead(s) ==
  /\ readOp[s] = << >> /\ readQue[s] # << >>
  /\ readOp' = [readOp EXCEPT ![s] = <<[op |-> Head(readQue[s]), idx |-> NoIndex]>>]
  /\ readQue' = Pop(readQue, s)
  /\ UNCHANGED <<raftVars, processQue, sendQueues, started, count, tables, sender, clients>>

Reading(s) == readOp[s] # << >> /\ readOp[s][1].op.id \notin DOMAIN incrMapLogIdx[s]

\* The index of server l, whose term is taken over if it is higher.
RecordIndex(s, l, idx) ==
  /\ incrMapLogIdx' = [incrMapLogIdx EXCEPT ![s] = Put(@, readOp[s][1].op.id, idx)]
  /\ readOp' = [readOp EXCEPT ![s][1].idx = NoIndex]
  /\ count' = [count EXCEPT ![s] = 0]
  /\ sterm' = [sterm EXCEPT ![s] = IF sterm[l] > @ THEN sterm[l] ELSE @]
  /\ inexact' = IF idx = commit THEN inexact ELSE inexact \cup {readOp[s][1].op.id}
  /\ UNCHANGED <<log, commit, term, leader, believes, commitIndex, queues, started, history, db,
                 lastApplied, sender, clientConns, sent, resent, answers, ackedBefore>>

\* Mutant: the read is dropped without an answer.
FailReadSilent(s, err) ==
  /\ Room(sendQueues[s])
  /\ count' = IF err = "HandleTimeout" THEN [count EXCEPT ![s] = 0] ELSE count
  /\ readOp' = [readOp EXCEPT ![s] = << >>]
  /\ UNCHANGED <<raftVars, queues, started, tables, sender, clients>>

FailRead(s, err) ==
  /\ Room(sendQueues[s])
  /\ sendQueues' = Push(sendQueues, s, OpToResp(readOp[s][1].op, err, << >>))
  /\ count' = IF err = "HandleTimeout" THEN [count EXCEPT ![s] = 0] ELSE count
  /\ readOp' = [readOp EXCEPT ![s] = << >>]
  /\ UNCHANGED <<raftVars, processQue, readQue, started, tables, sender, clients>>

\* GetState on a leader; SingleHeartBeat then confirms it or not.
GetState(s) ==
  /\ Reading(s) /\ s \in believes /\ readOp[s][1].idx = NoIndex
  /\ readOp' = [readOp EXCEPT ![s][1].idx = commitIndex[s]]
  /\ UNCHANGED <<raftVars, queues, started, count, tables, sender, clients>>

Confirmed(s) ==
  /\ Reading(s) /\ readOp[s][1].idx # NoIndex /\ s = leader
  /\ RecordIndex(s, s, readOp[s][1].idx)

\* The server is deposed, or too few of its heartbeats are answered.
NotConfirmed(s) ==
  /\ Reading(s) /\ readOp[s][1].idx # NoIndex
  /\ FailRead(s, "LeaderChanged")

\* SendCommitIndex on a follower: another server answers with its term and index.  A
\* server stops to believe here when it hears of the new leader, so it never asks
\* itself; module Raft has the panic of one that does.
Asks(s, l) == Reading(s) /\ s \notin believes /\ readOp[s][1].idx = NoIndex /\ l # s
WrongLeader(s, l) == sterm[l] < commitIndex[s] \/ commitIndex[l] < commitIndex[s]

SendCommitIndex(s, l) == Asks(s, l) /\ ~WrongLeader(s, l) /\ RecordIndex(s, l, commitIndex[l])
SendWrongLeader(s, l) == Asks(s, l) /\ WrongLeader(s, l) /\ FailRead(s, "LeaderChanged")

\* The call fails or times out: again, at most MaxRetry times.
SendRetry(s, l) ==
  /\ Asks(s, l) /\ count[s] < MaxRetry
  /\ count' = [count EXCEPT ![s] = @ + 1]
  /\ UNCHANGED <<raftVars, queues, started, readOp, tables, sender, clients>>
SendGivesUp(s, l) == Asks(s, l) /\ count[s] = MaxRetry /\ FailRead(s, "HandleTimeout")

\* Mutant: the read does not wait.
DueAtOnce(s, o) == TRUE

\* The read is executed once lastApplied has reached its index.  handleReadQue waits for
\* room with kv.mu held; module Apply has whom it holds up.
Due(s, o) == incrMapLogIdx[s][o.id] <= lastApplied[s]
DBRead(o, value) == OpToResp(o, IF value = << >> THEN "NoKey" ELSE "OK", value)
ExecuteRead(s) ==
  /\ readOp[s] # << >> /\ ~Reading(s) /\ Room(sendQueues[s])
  /\ LET o == readOp[s][1].op
     IN  /\ Due(s, o)
         /\ sendQueues' = Push(sendQueues, s, DBRead(o, db[s]))
         /\ incrMapLogIdx' = [incrMapLogIdx EXCEPT ![s] = Delete(@, o.id)]
  /\ readOp' = [readOp EXCEPT ![s] = << >>] /\ UNCHANGED count
  /\ UNCHANGED <<raftVars, processQue, readQue, started, history, db, lastApplied, sender,
                 clients>>

-----------------------------------------------------------------------------
(* ApplyHandler *)

\* Mutant: the comparison with the history is reversed.
NeededReversed(s, o) == o.clerk \in DOMAIN history[s] => history[s][o.clerk].id > o.id

\* A request is executed unless the history has the same or a later one.
Needed(s, o) == o.clerk \in DOMAIN history[s] => history[s][o.clerk].id < o.id
DBExecute(o, value) == IF o.type = "PUT" THEN <<o.id>> ELSE Append(value, o.id)

\* The term of Start, if this server took the request, tells whose entry it is.
Answer(s, o, t) ==
  LET ids == incrMapLogIdx[s]
      err == IF o.id \in DOMAIN ids /\ ids[o.id] # t THEN "LeaderChanged" ELSE "OK"
  IN  IF Known(s, o) \/ Needed(s, o) THEN OpToResp(o, err, << >>) ELSE NoResp

\* Mutant: entries are applied as soon as the log has them.
DeliveredEarly(s) == lastApplied[s] < Len(log)

\* The next entry reaches ApplyHandler once the server knows that it is committed.
Delivered(s) == lastApplied[s] < commitIndex[s]

Apply(s) ==
  /\ Delivered(s) /\ Room(sendQueues[s])
  /\ LET e == log[lastApplied[s] + 1]
         o == e.op
         r == Answer(s, o, e.term)
         mine == o.id \in DOMAIN incrMapLogIdx[s] /\ incrMapLogIdx[s][o.id] = e.term
     IN  /\ db' = IF Needed(s, o) THEN [db EXCEPT ![s] = DBExecute(o, @)] ELSE db
         /\ history' = IF Needed(s, o) /\ mine
                       THEN [history EXCEPT ![s] = Put(@, o.clerk, r)] ELSE history
         /\ incrMapLogIdx' = [incrMapLogIdx EXCEPT ![s] = Delete(@, r.id)]
         /\ sendQueues' = Push(sendQueues, s, r)
  /\ lastApplied' = [lastApplied EXCEPT ![s] = @ + 1]
  /\ UNCHANGED <<raftVars, processQue, readQue, started, readOp, count, sender, clients>>

-----------------------------------------------------------------------------

Init ==
  /\ log = << >> /\ commit = 0 /\ term = 0 /\ leader = "none" /\ believes = {}
  /\ sterm = [s \in Server |-> 0] /\ commitIndex = [s \in Server |-> 0]
  /\ processQue = [s \in Server |-> << >>]
  /\ readQue = processQue /\ sendQueues = processQue
  /\ started = processQue /\ readOp = processQue /\ count = [s \in Server |-> 0]
  /\ incrMapLogIdx = [s \in Server |-> << >>] /\ history = incrMapLogIdx
  /\ db = [s \in Server |-> << >>] /\ lastApplied = [s \in Server |-> 0]
  /\ clientConns = [s \in Server |-> {}] /\ sender = [s \in Server |-> TRUE]
  /\ sent = {} /\ resent = {} /\ answers = {}
  /\ ackedBefore = [i \in {o.id : o \in Op} |-> {}] /\ inexact = {}

OpQue(s) == Repeat(s) \/ QueueRead(s) \/ NotLeader(s) \/ Start(s) \/ Register(s)
AskLeader(s, l) == SendCommitIndex(s, l) \/ SendWrongLeader(s, l)
ReadQue(s) ==
  \/ TakeRead(s) \/ GetState(s) \/ Confirmed(s) \/ NotConfirmed(s) \/ ExecuteRead(s)
  \/ \E l \in Server : AskLeader(s, l) \/ SendRetry(s, l) \/ SendGivesUp(s, l)
Goroutines(s) == OpQue(s) \/ ReadQue(s) \/ Apply(s) \/ handleClientResponse(s)
RaftNext == CommitEntry \/ \E s \in Server : Elect(s) \/ Follow(s)
ClientNext == \E s \in Server, o \in Op : Request(s, o) \/ Resend(s, o)

Next == RaftNext \/ ClientNext \/ \E s \in Server : Goroutines(s) \/ ResponseFails(s)

\* The system does not stop while a goroutine can run, an entry can be committed
\* or a server can hear of the leader.
Fairness == WF_vars(CommitEntry \/ \E s \in Server : Goroutines(s) \/ Follow(s))
Spec == Init /\ [][Next]_vars /\ Fairness

-----------------------------------------------------------------------------
(* Properties *)

\* No server applies more than it knows to be committed, and no channel holds more
\* than its capacity.
TypeOK ==
  /\ leader \in Server \cup {"none"} /\ believes \subseteq Server
  /\ \A s \in Server : /\ lastApplied[s] <= commitIndex[s] /\ commitIndex[s] <= commit
                       /\ Len(processQue[s]) <= QueueCap /\ Len(readQue[s]) <= QueueCap
                       /\ Len(sendQueues[s]) <= QueueCap

\* The requests of a clerk are in the log once and in the order of their ids.
Ascending == \A i, j \in 1..commit : i < j /\ log[i].op.clerk = log[j].op.clerk =>
                                       log[i].op.id < log[j].op.id

\* Servers that have applied as many entries hold the same value, although
\* ApplyHandler records a request in the history only on the server that took it,
\* and only if incrMapLogIdx was written before the entry was applied; whoever led
\* in between.  It holds while the log has the requests of each clerk once and in the
\* order of their ids: a request that is in it twice, or after a later one of its
\* clerk, makes them differ.
ReplicasAgree ==
  Ascending => \A s, t \in Server : lastApplied[s] = lastApplied[t] => db[s] = db[t]

\* A write that was answered with OK is committed: neither the answer of
\* handleOpQue from the history, nor that of an ApplyHandler whose server did not
\* take the request, nor one of a deposed leader promises what may still be lost.
AckCommitted ==
  \A a \in answers : a.err = "OK" /\ (\E o \in Op : o.id = a.id /\ IsWrite(o)) =>
    \E i \in 1..commit : log[i].op.id = a.id

\* The value of the key after the first n entries of l, each executed once.
After(l, n) ==
  LET value[k \in 0..n] == IF k = 0 THEN << >> ELSE DBExecute(l[k].op, value[k - 1])
  IN  value[n]
Value(n) == After(log, n)
Written == {o.id : o \in {p \in Op : IsWrite(p)}}

\* A read whose index covers all that is committed when it is confirmed returns the
\* value after some number of committed entries, among which is every write that was
\* acknowledged before the read was sent: handleReadQue fixes an index, confirms it
\* and waits for lastApplied, while entries are applied and the leader changes.  It
\* says nothing of a read with another index, of a server that no longer leads, of a
\* leader that has not yet committed in its term or of one that commits while it
\* confirms, nor when the requests of a clerk are in the log twice or out of order.
ReadSees ==
  Ascending =>
    \A a \in answers : a.id \notin Written \cup inexact /\ a.err \in {"OK", "NoKey"} =>
      \E n \in 0..commit :
        /\ a.value = Value(n)
        /\ \A w \in ackedBefore[a.id] \cap Written : \E i \in 1..n : log[i].op.id = w

Waiting(o) == o \in sent /\ ~\E a \in answers : a.id = o.id
Behind == leader \in Server /\ commitIndex[leader] < commit
Unheard == \E s \in Server : ~sender[s]

\* Every read is answered in the end, if only by an error, while handleClientResponse
\* runs (it returns at the first error) and unless the leader stays without an entry
\* of its own term, which alone tells it what was committed before: then the read in
\* the hand of handleReadQue waits, and all reads behind it.
ReadAnswered == []<>(Behind \/ Unheard \/ \A o \in Op : ~IsWrite(o) => ~Waiting(o))
=============================================================================
