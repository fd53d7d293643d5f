------------------------------- MODULE Apply -------------------------------
(***************************************************************************)
(* How committed entries reach the state machine of one server: Raft's     *)
(* CommitCheck, QuickApply, InstallSnapshot and Snapshot in                *)
(* src/raft/raft.go, and the ApplyHandler of src/server/server.go, which   *)
(* run concurrently and meet at applyCh, a channel of capacity one; and    *)
(* what ApplyHandler waits for in between: kv.mu, which handleReadQue      *)
(* holds while it sends an answer, and a place for its own answer in       *)
(* kv.sendQueues, which handleClientResponse empties until a write fails.  *)
(*                                                                         *)
(* The log is the agreed one: entry i stands for itself, and the state of  *)
(* the state machine is the sequence of entries it executed.  rf.mu is     *)
(* held inside each step and released between them, as in the code.        *)
(***************************************************************************)
EXTENDS Integers, Sequences, FiniteSets

CONSTANTS
  MaxIndex,    \* bound: length of the log
  MaxInstalls, \* bound: InstallSnapshot calls that run at the same time
  MaxCrashes,  \* bound: crashes of the server
  SendCap      \* capacity of kv.sendQueues

ASSUME ApplyAssumption ==
  {MaxIndex, MaxInstalls, SendCap} \subseteq Nat \ {0} /\ MaxCrashes \in Nat

VARIABLES
  commitIndex, lastApplied, \* of Raft
  snapShot,    \* of Raft: rf.lastIncludedIndex and the state in rf.snapShot
  saved,       \* on disk: snapShot and commitIndex of the last persist()
  applyCh,
  checker,     \* the goroutine of QuickApply and then CommitCheck
  installs,    \* snapshots of the InstallSnapshot calls that have yet to send
  machine,     \* kv.lastApplied as index, and the entries executed
  handler,     \* "receive", "answer": kv.sendQueues <- &resp, or "size": RaftStateSize is
               \* to be compared
  sendQueues,  \* answers in kv.sendQueues
  sender,      \* handleClientResponse: "run", or "gone" after a failed write
  reader,      \* handleReadQue: "send", it waits with kv.mu to answer a read, or "free"
  crashes,
  overtaken    \* ghost: a command entered applyCh before an older snapshot

raft == <<commitIndex, lastApplied, snapShot>>
answers == <<sendQueues, sender, reader>>
vars == <<raft, saved, applyCh, checker, installs, machine, handler, answers, crashes, overtaken>>

Prefix(i) == [k \in 1..i |-> k]
MaxOf(a, b) == IF a >= b THEN a ELSE b
At(at, msgs) == [at |-> at, msgs |-> msgs]

Command(i) == [index |-> i, state |-> << >>, valid |-> snapShot.index < i]
Snap(s) == [index |-> s.index, state |-> s.state, valid |-> FALSE]

-----------------------------------------------------------------------------
(* Raft: commitIndex advances, entries and votes are persisted *)

Commit ==
  /\ commitIndex < MaxIndex
  /\ commitIndex' = commitIndex + 1
  /\ UNCHANGED <<lastApplied, snapShot, saved, applyCh, checker, installs, machine, handler,
                 answers, crashes, overtaken>>

Persist ==
  /\ saved' = [snap |-> snapShot, commit |-> commitIndex]
  /\ UNCHANGED <<raft, applyCh, checker, installs, machine, handler, answers, crashes, overtaken>>

\* InstallSnapshot up to its unlock; the snapshot of the leader is exact.
InstallSnapshot(i) ==
  /\ checker.at # "down"
  /\ Cardinality(installs) < MaxInstalls
  /\ snapShot.index <= i /\ commitIndex <= i
  /\ snapShot' = [index |-> i, state |-> Prefix(i)]
  /\ commitIndex' = i
  /\ lastApplied' = MaxOf(lastApplied, i)
  /\ installs' = installs \cup {snapShot'}
  /\ UNCHANGED <<saved, applyCh, checker, machine, handler, answers, crashes, overtaken>>

\* rf.applyCh <- *msg without the lock, then persist().
InstallSend(s) ==
  /\ applyCh = << >>
  /\ applyCh' = <<Snap(s)>>
  /\ installs' = installs \ {s}
  /\ saved' = [snap |-> snapShot, commit |-> commitIndex]
  /\ UNCHANGED <<raft, checker, machine, handler, answers, crashes, overtaken>>

\* Mutant: the channel has no capacity.
SendCommandAnyway(m) ==
  /\ applyCh' = Append(applyCh, m)
  /\ overtaken' = (overtaken \/ \E s \in installs : s.index < m.index)

\* A command enters the channel.
SendCommand(m) ==
  /\ applyCh = << >>
  /\ applyCh' = <<m>>
  /\ overtaken' = (overtaken \/ \E s \in installs : s.index < m.index)

-----------------------------------------------------------------------------
(* QuickApply, without the lock, before CommitCheck starts *)

QuickCount ==
  /\ checker.at = "quick" /\ lastApplied < commitIndex
  /\ lastApplied' = lastApplied + 1
  /\ checker' = At("quickBuild", << >>)
  /\ UNCHANGED <<commitIndex, snapShot, saved, applyCh, installs, machine, handler, answers,
                 crashes, overtaken>>

QuickBuild ==
  /\ checker.at = "quickBuild"
  /\ checker' = At("quickSend", <<Command(lastApplied)>>)
  /\ UNCHANGED <<raft, saved, applyCh, installs, machine, handler, answers, crashes, overtaken>>

QuickSend ==
  /\ checker.at = "quickSend"
  /\ SendCommand(checker.msgs[1])
  /\ checker' = At("quick", << >>)
  /\ UNCHANGED <<raft, saved, installs, machine, handler, answers, crashes>>

QuickDone ==
  /\ checker.at = "quick" /\ lastApplied >= commitIndex
  /\ checker' = At("wait", << >>)
  /\ UNCHANGED <<raft, saved, applyCh, installs, machine, handler, answers, crashes, overtaken>>

(* CommitCheck *)

\* condApply is signalled whenever commitIndex advances.
Buffer ==
  /\ checker.at = "wait" /\ commitIndex > lastApplied
  /\ checker' = At("check", [k \in 1..commitIndex - lastApplied |-> Command(lastApplied + k)])
  /\ UNCHANGED <<raft, saved, applyCh, installs, machine, handler, answers, crashes, overtaken>>

\* A buffered message that a snapshot has passed is skipped.
Check ==
  /\ checker.at = "check"
  /\ checker' =
       CASE checker.msgs = << >> -> At("wait", << >>)
         [] checker.msgs # << >> /\ checker.msgs[1].index # lastApplied + 1 ->
              At("check", Tail(checker.msgs))
         [] OTHER -> At("send", checker.msgs)
  /\ UNCHANGED <<raft, saved, applyCh, installs, machine, handler, answers, crashes, overtaken>>

CheckedSend ==
  /\ checker.at = "send"
  /\ SendCommand(checker.msgs[1])
  /\ checker' = At("sent", checker.msgs)
  /\ UNCHANGED <<raft, saved, installs, machine, handler, answers, crashes>>

Sent ==
  /\ checker.at = "sent"
  /\ lastApplied' = MaxOf(lastApplied, checker.msgs[1].index)
  /\ checker' = At("check", Tail(checker.msgs))
  /\ UNCHANGED <<commitIndex, snapShot, saved, applyCh, installs, machine, handler, answers,
                 crashes, overtaken>>

-----------------------------------------------------------------------------
(* ApplyHandler *)

\* Mutant: a command is executed whether or not kv.lastApplied has passed it.
ApplyCommandAgain ==
  /\ handler = "receive" /\ applyCh # << >> /\ applyCh[1].valid /\ reader = "free"
  /\ applyCh' = << >>
  /\ machine' = [index |-> applyCh[1].index, state |-> Append(machine.state, applyCh[1].index)]
  /\ handler' = "answer"
  /\ UNCHANGED <<raft, saved, checker, installs, answers, crashes, overtaken>>

ApplyCommand ==
  /\ handler = "receive" /\ applyCh # << >> /\ applyCh[1].valid /\ reader = "free"
  /\ applyCh' = << >>
  /\ IF applyCh[1].index <= machine.index
     THEN UNCHANGED <<machine, handler>>
     ELSE /\ machine' = [index |-> applyCh[1].index,
                         state |-> Append(machine.state, applyCh[1].index)]
          /\ handler' = "answer"
  /\ UNCHANGED <<raft, saved, checker, installs, answers, crashes, overtaken>>

\* Mutant: a snapshot is loaded although the state machine is ahead of it.
ApplySnapshotOld ==
  /\ handler = "receive" /\ applyCh # << >> /\ ~applyCh[1].valid
  /\ applyCh[1].state # << >> => reader = "free"
  /\ applyCh' = << >>
  /\ machine' = IF applyCh[1].state # << >>
                THEN [index |-> applyCh[1].index, state |-> applyCh[1].state]
                ELSE machine
  /\ UNCHANGED <<raft, saved, checker, installs, handler, answers, crashes, overtaken>>

\* Neither CommandValid nor SnapshotValid, or a snapshot: state << >> is no snapshot.
ApplySnapshot ==
  /\ handler = "receive" /\ applyCh # << >> /\ ~applyCh[1].valid
  /\ applyCh[1].state # << >> => reader = "free"
  /\ applyCh' = << >>
  /\ machine' = IF applyCh[1].state # << >> /\ applyCh[1].index >= machine.index
                THEN [index |-> applyCh[1].index, state |-> applyCh[1].state]
                ELSE machine
  /\ UNCHANGED <<raft, saved, checker, installs, handler, answers, crashes, overtaken>>

\* An answer enters kv.sendQueues.
Queue == sendQueues < SendCap /\ sendQueues' = sendQueues + 1

\* ApplyHandler answers every command that it executes, without kv.mu.
SendAnswer ==
  /\ handler = "answer" /\ handler' = "size"
  /\ Queue
  /\ UNCHANGED <<raft, saved, applyCh, checker, installs, machine, sender, reader, crashes,
                 overtaken>>

SmallEnough ==
  /\ handler = "size" /\ handler' = "receive"
  /\ UNCHANGED <<raft, saved, applyCh, checker, installs, machine, answers, crashes, overtaken>>

\* Mutant: the snapshot is taken for the entries that Raft has sent.
SnapshotAhead ==
  /\ handler = "size" /\ handler' = "receive"
  /\ IF commitIndex < lastApplied \/ lastApplied <= snapShot.index
     THEN UNCHANGED <<raft, saved>>
     ELSE /\ snapShot' = [machine EXCEPT !.index = lastApplied]
          /\ saved' = [snap |-> snapShot', commit |-> commitIndex]
          /\ UNCHANGED <<commitIndex, lastApplied>>
  /\ UNCHANGED <<applyCh, checker, installs, machine, answers, crashes, overtaken>>

\* kv.Snapshot() and rf.Snapshot(_log.CommandIndex, snapshot).
Snapshot ==
  /\ handler = "size" /\ handler' = "receive"
  /\ IF commitIndex < machine.index \/ machine.index <= snapShot.index
     THEN UNCHANGED <<raft, saved>>
     ELSE /\ snapShot' = machine
          /\ lastApplied' = MaxOf(lastApplied, machine.index)
          /\ saved' = [snap |-> snapShot', commit |-> commitIndex]
          /\ UNCHANGED commitIndex
  /\ UNCHANGED <<applyCh, checker, installs, machine, answers, crashes, overtaken>>

-----------------------------------------------------------------------------
(* The other goroutines of the server, as far as ApplyHandler waits for them *)

other == <<raft, saved, applyCh, checker, installs, machine, handler, crashes, overtaken>>
Up == checker.at # "down"

\* handleOpQue or handleReadQue finds room for an answer.
Answer ==
  /\ Up /\ Queue
  /\ UNCHANGED <<other, sender, reader>>

\* handleReadQue finds none and waits for it with kv.mu.  When it sleeps for 50 ms with
\* kv.mu instead, it only makes ApplyHandler slower.
ReadLock ==
  /\ Up /\ reader = "free" /\ sendQueues = SendCap
  /\ reader' = "send"
  /\ UNCHANGED <<other, sendQueues, sender>>
ReadSend ==
  /\ reader = "send" /\ reader' = "free"
  /\ Queue
  /\ UNCHANGED <<other, sender>>

\* handleClientResponse returns when a write fails.
Respond ==
  /\ sender = "run" /\ sendQueues > 0
  /\ sendQueues' = sendQueues - 1
  /\ sender' \in {"run", "gone"}
  /\ UNCHANGED <<other, reader>>

-----------------------------------------------------------------------------
(* StartKVServer and startWork after a crash *)

Crash ==
  /\ crashes < MaxCrashes /\ checker.at # "down"
  /\ crashes' = crashes + 1
  /\ checker' = At("down", << >>)
  /\ applyCh' = << >> /\ installs' = {} /\ handler' = "receive"
  /\ sendQueues' = 0 /\ sender' = "run" /\ reader' = "free"
  /\ snapShot' = saved.snap /\ commitIndex' = saved.commit /\ lastApplied' = saved.snap.index
  /\ machine' = saved.snap
  /\ UNCHANGED <<saved, overtaken>>

startWork ==
  /\ checker.at = "down"
  /\ checker' = At("quick", << >>)
  /\ UNCHANGED <<raft, saved, applyCh, installs, machine, handler, answers, crashes, overtaken>>

Init ==
  /\ commitIndex = 0 /\ lastApplied = 0
  /\ snapShot = [index |-> 0, state |-> << >>]
  /\ saved = [snap |-> snapShot, commit |-> 0]
  /\ applyCh = << >> /\ checker = At("down", << >>) /\ installs = {}
  /\ machine = snapShot /\ handler = "receive" /\ crashes = 0 /\ overtaken = FALSE
  /\ sendQueues = 0 /\ sender = "run" /\ reader = "free"

Checker ==
  \/ QuickCount \/ QuickBuild \/ QuickSend \/ QuickDone
  \/ Buffer \/ Check \/ CheckedSend \/ Sent
Handler == ApplyCommand \/ ApplySnapshot \/ SendAnswer \/ SmallEnough \/ Snapshot
Answering == Answer \/ ReadLock \/ ReadSend \/ Respond
Installer == \E s \in installs : InstallSend(s)
Raft == Up /\ (Commit \/ Persist \/ \E i \in 1..MaxIndex : InstallSnapshot(i))

Next == Raft \/ Installer \/ Checker \/ Handler \/ Answering \/ Crash \/ startWork

\* Every goroutine runs.  None waits for ever for a channel that is received from or
\* for a mutex that is unlocked again and again: Go serves both in order.
Fairness ==
  /\ WF_vars(startWork) /\ SF_vars(Checker) /\ SF_vars(Handler)
  /\ \A i \in 1..MaxIndex : SF_vars(\E s \in installs : s.index = i /\ InstallSend(s))
  /\ SF_vars(ReadSend) /\ WF_vars(Respond)
Spec == Init /\ [][Next]_vars /\ Fairness

-----------------------------------------------------------------------------
(* Properties *)

\* The channel holds one message, and no goroutine counts beyond the log.
TypeOK ==
  /\ commitIndex \in 0..MaxIndex /\ lastApplied \in 0..MaxIndex
  /\ Len(applyCh) <= 1 /\ handler \in {"receive", "answer", "size"}
  /\ sendQueues \in 0..SendCap /\ sender \in {"run", "gone"} /\ reader \in {"send", "free"}
  /\ installs \subseteq [index : 1..MaxIndex, state : {Prefix(i) : i \in 1..MaxIndex}]

Ordered(s) == s.state = Prefix(s.index)

\* The state machine has executed the committed entries up to kv.lastApplied, each
\* once and in order: whatever CommitCheck had buffered when InstallSnapshot or
\* Snapshot moved rf.lastApplied, and in whichever order ApplyHandler receives the
\* messages.  The exception is a command that CommitCheck or QuickApply sends ahead
\* of an older snapshot, which InstallSnapshot has unlocked rf.mu to send.
InOrder == overtaken \/ (Ordered(machine) /\ machine.index <= commitIndex)

\* So has every snapshot that Raft keeps, sends to others or has on disk; a restart
\* begins from the last one.
SnapshotExact == overtaken \/ (Ordered(snapShot) /\ Ordered(saved.snap))

\* The state machine catches up with commitIndex again and again: CommitCheck and
\* the InstallSnapshot calls that send on applyCh, the ApplyHandler that answers and
\* calls rf.Snapshot between two receives, and the handleReadQue that answers under
\* kv.mu do not wait for each other for ever.  All wait for ever once
\* handleClientResponse has returned and kv.sendQueues is full.
Deaf == sender = "gone" /\ sendQueues = SendCap
CatchesUp == []<>(machine.index = commitIndex \/ Deaf)

\* The comment on ApplyMsg says that a peer sends one for each of the successive
\* log entries that are committed: the state machine misses none.
SuccessiveEntries == Ordered(machine)
=============================================================================
