---------------------------- MODULE ApplyProofs ----------------------------
(***************************************************************************)
(* Proofs about module Apply, for any length of the log and any number of  *)
(* InstallSnapshot calls and crashes: the state machine and the snapshots  *)
(* are those of a prefix of the log.                                       *)
(***************************************************************************)
EXTENDS Apply, TLAPS, SequenceTheorems

State == [index : Nat, state : Seq(Nat)]
Message == [index : Nat, state : Seq(Nat), valid : BOOLEAN]
Places == {"down", "quick", "quickBuild", "quickSend", "wait", "check", "send", "sent"}

Doing == {"receive", "answer", "size"}

Holds == applyCh # << >>

\* The variables have their types, no index is above commitIndex, and what
\* CommitCheck has buffered are commands that the snapshot did not hold.
RaftOK ==
  /\ commitIndex \in Nat /\ commitIndex <= MaxIndex
  /\ lastApplied \in Nat /\ lastApplied <= commitIndex
  /\ snapShot \in State /\ snapShot.index <= lastApplied
SavedOK == saved.snap \in State /\ saved.commit \in Nat
           /\ saved.snap.index <= saved.commit /\ saved.commit <= MaxIndex
MachineOK == machine \in State /\ machine.index <= commitIndex
InstallsOK ==
  \A s \in installs : s \in State /\ s.index >= 1 /\ s.index <= snapShot.index /\ Ordered(s)
ChannelOK ==
  /\ applyCh \in Seq(Message) /\ Len(applyCh) <= 1
  /\ Holds => applyCh[1] \in Message /\ applyCh[1].index <= commitIndex
Buffered ==
  \A k \in 1..Len(checker.msgs) :
    checker.msgs[k].index <= commitIndex /\ checker.msgs[k].state = << >>
    /\ (checker.at \in {"check", "send", "sent"} => checker.msgs[k].valid)
CheckerOK ==
  /\ checker.at \in Places /\ checker.msgs \in Seq(Message) /\ Buffered
  /\ checker.at \in {"send", "sent", "quickSend"} => checker.msgs # << >>
Indexes ==
  /\ RaftOK /\ SavedOK /\ MachineOK /\ InstallsOK /\ ChannelOK /\ CheckerOK
  /\ handler \in Doing

\* The state machine has reached index x, or a message in the channel brings it
\* there, or a snapshot of exactly that index waits to be sent.
Reached(x) ==
  \/ x <= machine.index
  \/ Holds /\ x <= applyCh[1].index /\ (applyCh[1].valid \/ applyCh[1].state # << >>)
  \/ \E s \in installs : s.index = x

\* lastApplied is on its way to the state machine, and a command is only sent when
\* the entry before it is.
Progress ==
  /\ checker.at \notin {"quickBuild", "quickSend"} => Reached(lastApplied)
  /\ checker.at = "quickBuild" =>
       Reached(lastApplied) \/ (Reached(lastApplied - 1) /\ snapShot.index < lastApplied)
  /\ checker.at = "quickSend" =>
       /\ checker.msgs[1].index <= lastApplied
       /\ checker.msgs[1].valid => Reached(checker.msgs[1].index - 1)
       /\ Reached(lastApplied) \/ (checker.msgs[1].valid /\ checker.msgs[1].index = lastApplied)
  /\ checker.at = "send" => Reached(checker.msgs[1].index - 1)
  /\ checker.at = "sent" => Reached(checker.msgs[1].index)

\* What the channel holds fits the state machine.
Fits ==
  Holds =>
    /\ applyCh[1].valid => applyCh[1].index <= machine.index + 1
    /\ ~applyCh[1].valid /\ applyCh[1].state # << >> => Ordered(applyCh[1])

Exact == ~overtaken => Ordered(machine) /\ Ordered(snapShot) /\ Ordered(saved.snap) /\ Fits

ApplyInv == Indexes /\ Progress /\ Exact

-----------------------------------------------------------------------------
(* Prefixes of the log *)

\* The first i entries are a sequence of i numbers.
LEMMA PrefixSeq ==
  ASSUME NEW i \in Nat
  PROVE  Prefix(i) \in Seq(Nat) /\ Len(Prefix(i)) = i /\ (i >= 1 => Prefix(i) # << >>)
<1>1. \A k \in 1..i : k \in Nat
  OBVIOUS
<1>2. Prefix(i) \in Seq(Nat) /\ Len(Prefix(i)) = i
  BY <1>1 DEF Prefix
<1>3. QED
  BY <1>2

\* The entry after a prefix makes the next prefix: what ApplyHandler executes.
LEMMA PrefixNext ==
  ASSUME NEW i \in Nat
  PROVE  Append(Prefix(i), i + 1) = Prefix(i + 1)
<1>1. /\ Prefix(i) \in Seq(Nat) /\ Len(Prefix(i)) = i
      /\ Prefix(i + 1) \in Seq(Nat) /\ Len(Prefix(i + 1)) = i + 1
  BY PrefixSeq, i + 1 \in Nat
<1>2. Append(Prefix(i), i + 1) \in Seq(Nat) /\ Len(Append(Prefix(i), i + 1)) = i + 1
  BY <1>1
<1>3. \A k \in 1..i + 1 : Append(Prefix(i), i + 1)[k] = Prefix(i + 1)[k]
  BY <1>1 DEF Prefix
<1>4. QED
  BY <1>1, <1>2, <1>3, SeqEqual

-----------------------------------------------------------------------------
(* Indexes *)

\* The invariant holds when the server starts for the first time.
LEMMA InitInv == Init => ApplyInv
<1> SUFFICES ASSUME Init PROVE ApplyInv
  OBVIOUS
<1>1. << >> \in Seq(Nat) /\ << >> \in Seq(Message) /\ Len(<< >>) = 0
  OBVIOUS
<1>2. Prefix(0) = << >>
  BY PrefixSeq
<1>3. RaftOK /\ SavedOK /\ MachineOK /\ InstallsOK
  BY <1>1, ApplyAssumption DEF Init, RaftOK, SavedOK, MachineOK, InstallsOK, State
<1>4. ChannelOK /\ CheckerOK
  BY <1>1 DEF Init, ChannelOK, CheckerOK, Buffered, Places, At, Holds
<1>5. Progress
  BY <1>1 DEF Init, Progress, Reached, At
<1>6. Exact
  BY <1>2 DEF Init, Exact, Ordered, Fits, Holds
<1>7. QED
  BY <1>3, <1>4, <1>5, <1>6 DEF ApplyInv, Indexes, Init, Doing

\* Commands and snapshots are messages.
LEMMA MessageTypes ==
  ASSUME Indexes
  PROVE  /\ \A i \in Nat : Command(i) \in Message
         /\ \A s \in installs : Snap(s) \in Message /\ Snap(s).index = s.index
                               /\ Snap(s).state = s.state /\ Snap(s).valid = FALSE
BY DEF Indexes, InstallsOK, Command, Snap, Message, State

\* What is not changed stays below a commitIndex that grows.
LEMMA Below ==
  ASSUME Indexes, commitIndex' \in Nat, commitIndex <= commitIndex'
  PROVE  /\ UNCHANGED machine => MachineOK'
         /\ UNCHANGED applyCh => ChannelOK'
         /\ UNCHANGED checker => CheckerOK'
         /\ UNCHANGED saved => SavedOK'
<1>1. commitIndex \in Nat
  BY DEF Indexes, RaftOK
<1>2. UNCHANGED machine => MachineOK'
  BY <1>1 DEF Indexes, MachineOK, State
<1>3. UNCHANGED applyCh => ChannelOK'
  BY <1>1 DEF Indexes, ChannelOK, Holds, Message
<1>4. ASSUME UNCHANGED checker PROVE CheckerOK'
  <2>1. ASSUME NEW k \in 1..Len(checker.msgs) PROVE checker.msgs[k].index <= commitIndex'
    <3>1. checker.msgs[k] \in Message /\ checker.msgs[k].index <= commitIndex
      BY DEF Indexes, CheckerOK, Buffered
    <3>2. QED
      BY <1>1, <3>1 DEF Message
  <2>2. Buffered'
    BY <1>4, <2>1 DEF Indexes, CheckerOK, Buffered
  <2>3. QED
    BY <1>4, <2>2 DEF Indexes, CheckerOK
<1>5. UNCHANGED saved => SavedOK'
  BY DEF Indexes, SavedOK
<1>6. QED
  BY <1>2, <1>3, <1>4, <1>5

\* The steps of Raft keep to the indexes.
LEMMA RaftIndexes == ASSUME Indexes, Raft PROVE Indexes'
<1>1. CASE Commit
  <2>1. commitIndex' \in Nat /\ commitIndex <= commitIndex' /\ commitIndex' <= MaxIndex
    BY <1>1, ApplyAssumption DEF Commit, Indexes, RaftOK
  <2>2. RaftOK' /\ InstallsOK' /\ handler' \in Doing
    BY <1>1, <2>1 DEF Commit, Indexes, RaftOK, InstallsOK, State, Ordered, Doing
  <2>3. QED
    BY <1>1, <2>1, <2>2, Below DEF Commit, Indexes
<1>2. CASE Persist
  <2>1. commitIndex' \in Nat /\ commitIndex <= commitIndex'
    BY <1>2 DEF Persist, Indexes, RaftOK, raft
  <2>2. RaftOK' /\ InstallsOK' /\ handler' \in Doing
    BY <1>2 DEF Persist, Indexes, RaftOK, InstallsOK, State, Ordered, raft
  <2>3. SavedOK'
    BY <1>2 DEF Persist, Indexes, RaftOK, SavedOK, State
  <2>4. QED
    BY <1>2, <2>1, <2>2, <2>3, Below DEF Persist, Indexes
<1>3. ASSUME NEW i \in 1..MaxIndex, InstallSnapshot(i) PROVE Indexes'
  <2>1. Prefix(i) \in Seq(Nat) /\ i \in Nat /\ i >= 1 /\ i <= MaxIndex
    BY PrefixSeq, ApplyAssumption
  <2>2. snapShot' \in State /\ snapShot'.index = i /\ Ordered(snapShot')
    BY <1>3, <2>1 DEF InstallSnapshot, State, Ordered
  <2>3. lastApplied' = i /\ commitIndex' = i /\ installs' = installs \cup {snapShot'}
        /\ snapShot.index <= i /\ commitIndex <= i
        /\ UNCHANGED <<saved, applyCh, checker, machine, handler, crashes, overtaken>>
    BY <1>3, <2>1 DEF InstallSnapshot, MaxOf, Indexes, RaftOK
  <2>4. RaftOK'
    BY <2>1, <2>2, <2>3 DEF RaftOK
  <2>5. ASSUME NEW s \in installs'
        PROVE  s \in State /\ s.index >= 1 /\ s.index <= snapShot'.index /\ Ordered(s)
    <3>1. CASE s \in installs
      BY <2>1, <2>2, <2>3, <3>1 DEF Indexes, InstallsOK, RaftOK, State
    <3>2. CASE s = snapShot'
      BY <2>1, <2>2, <3>2
    <3>3. QED
      BY <2>3, <3>1, <3>2
  <2>6. InstallsOK'
    BY <2>5 DEF InstallsOK, Ordered
  <2>7. QED
    BY <2>1, <2>3, <2>4, <2>6, Below DEF Indexes
<1>4. QED
  BY <1>1, <1>2, <1>3 DEF Raft

\* A step that leaves Raft alone and the parts of the invariant that it may change.
LEMMA RaftAlone ==
  ASSUME Indexes, UNCHANGED raft
  PROVE  /\ RaftOK' /\ commitIndex' \in Nat /\ commitIndex <= commitIndex'
         /\ UNCHANGED installs => InstallsOK'
BY DEF Indexes, RaftOK, InstallsOK, Ordered, raft

\* A snapshot that an InstallSnapshot call sends keeps to the indexes.
LEMMA InstallerIndexes ==
  ASSUME Indexes, NEW s \in installs, InstallSend(s) PROVE Indexes'
<1>1. RaftOK' /\ commitIndex' \in Nat /\ commitIndex <= commitIndex' /\ commitIndex' = commitIndex
  BY RaftAlone DEF InstallSend, raft
<1>2. s \in State /\ s.index <= commitIndex
  BY DEF Indexes, InstallsOK, RaftOK, State
<1>3. Snap(s) \in Message /\ Snap(s).index = s.index
  BY Zenon, MessageTypes
<1>4. ChannelOK'
  BY <1>1, <1>2, <1>3 DEF InstallSend, ChannelOK, Holds
<1>5. InstallsOK'
  BY DEF InstallSend, InstallsOK, Indexes, raft, Ordered
<1>6. SavedOK'
  BY DEF InstallSend, SavedOK, Indexes, RaftOK, State
<1>7. QED
  BY <1>1, <1>4, <1>5, <1>6, Below DEF InstallSend, Indexes

\* A command of the checker in the channel keeps to the indexes.
LEMMA SendIndexes ==
  ASSUME Indexes, UNCHANGED commitIndex,
         NEW k \in 1..Len(checker.msgs), SendCommand(checker.msgs[k])
  PROVE  ChannelOK'
<1>1. checker.msgs[k] \in Message /\ checker.msgs[k].index <= commitIndex
  BY DEF Indexes, CheckerOK, Buffered
<1>2. QED
  BY <1>1 DEF SendCommand, ChannelOK, Holds

\* Without the first message of the buffer the rest is as it was.
LEMMA TailBuffered ==
  ASSUME CheckerOK, checker.msgs # << >>, UNCHANGED commitIndex,
         checker.at \in {"check", "sent"}, checker' = At("check", Tail(checker.msgs))
  PROVE  CheckerOK'
<1> DEFINE t == Tail(checker.msgs)
<1>1. /\ t \in Seq(Message) /\ Len(t) = Len(checker.msgs) - 1
      /\ \A k \in 1..Len(t) : t[k] = checker.msgs[k + 1] /\ k + 1 \in 1..Len(checker.msgs)
  BY DEF CheckerOK
<1>2. checker'.at = "check" /\ checker'.msgs = t
  BY DEF At
<1>3. ASSUME NEW k \in 1..Len(t) PROVE t[k].index <= commitIndex /\ t[k].state = << >> /\ t[k].valid
  BY <1>1 DEF CheckerOK, Buffered
<1>4. Buffered'
  BY Zenon, <1>2, <1>3 DEF Buffered
<1>5. QED
  BY Zenon, <1>1, <1>2, <1>4 DEF CheckerOK, Places

\* The steps of QuickApply and CommitCheck keep to the indexes.
LEMMA CheckerIndexes == ASSUME Indexes, Checker PROVE Indexes'
<1>1. CASE QuickCount
  <2>1. RaftOK' /\ commitIndex' \in Nat /\ commitIndex <= commitIndex'
    BY <1>1 DEF QuickCount, Indexes, RaftOK, State
  <2>2. CheckerOK'
    BY <1>1 DEF QuickCount, CheckerOK, Buffered, At, Places
  <2>3. InstallsOK'
    BY <1>1 DEF QuickCount, Indexes, InstallsOK, Ordered
  <2>4. QED
    BY <1>1, <2>1, <2>2, <2>3, Below DEF QuickCount, Indexes
<1>2. CASE QuickBuild
  <2>1. Command(lastApplied) \in Message /\ Command(lastApplied).index <= commitIndex
        /\ Command(lastApplied).state = << >>
    BY Zenon, MessageTypes DEF Indexes, RaftOK, Command
  <2>2. checker'.at = "quickSend" /\ checker'.msgs = <<Command(lastApplied)>>
        /\ commitIndex' = commitIndex
    BY <1>2 DEF QuickBuild, At, raft
  <2>3. CheckerOK'
    BY <2>1, <2>2 DEF CheckerOK, Buffered, Places
  <2>4. QED
    BY <1>2, <2>3, Below, RaftAlone DEF QuickBuild, Indexes
<1>3. CASE QuickSend
  <2>1. checker.msgs # << >> /\ checker.msgs \in Seq(Message) /\ 1 \in 1..Len(checker.msgs)
    BY <1>3 DEF QuickSend, Indexes, CheckerOK
  <2>2. ChannelOK'
    BY <1>3, <2>1, SendIndexes DEF QuickSend, raft
  <2>3. CheckerOK'
    BY <1>3 DEF QuickSend, CheckerOK, Buffered, At, Places
  <2>4. QED
    BY <1>3, <2>2, <2>3, Below, RaftAlone DEF QuickSend, Indexes
<1>4. CASE QuickDone
  <2>1. CheckerOK'
    BY <1>4 DEF QuickDone, CheckerOK, Buffered, At, Places
  <2>2. QED
    BY <1>4, <2>1, Below, RaftAlone DEF QuickDone, Indexes
<1>5. CASE Buffer
  <2> DEFINE b == [k \in 1..commitIndex - lastApplied |-> Command(lastApplied + k)]
  <2>1. checker'.at = "check" /\ checker'.msgs = b /\ commitIndex' = commitIndex
    BY <1>5 DEF Buffer, At, raft
  <2>2. commitIndex - lastApplied \in Nat
    BY <1>5 DEF Buffer, Indexes, RaftOK
  <2>3. ASSUME NEW k \in 1..commitIndex - lastApplied
        PROVE  /\ Command(lastApplied + k) \in Message
               /\ Command(lastApplied + k).index <= commitIndex /\ Command(lastApplied + k).valid
               /\ Command(lastApplied + k).state = << >>
    <3>1. lastApplied + k \in Nat /\ lastApplied + k <= commitIndex
          /\ snapShot.index < lastApplied + k
      BY <2>2 DEF Indexes, RaftOK, State
    <3>2. QED
      BY Zenon, <3>1, MessageTypes DEF Command
  <2>4. b \in Seq(Message) /\ Len(b) = commitIndex - lastApplied
    BY <2>2, <2>3
  <2>5. ASSUME NEW k \in 1..Len(b)
        PROVE  b[k].index <= commitIndex /\ b[k].state = << >> /\ b[k].valid
    <3>1. b[k] = Command(lastApplied + k) /\ k \in 1..commitIndex - lastApplied
      BY Zenon, <2>4
    <3>2. QED
      BY <2>3, <3>1
  <2> HIDE DEF b
  <2>6. Buffered'
    BY <2>1, <2>5 DEF Buffered
  <2>7. CheckerOK'
    BY <2>1, <2>4, <2>6 DEF CheckerOK, Places
  <2>8. QED
    BY <1>5, <2>7, Below, RaftAlone DEF Buffer, Indexes
<1>6. CASE Check
  <2>1. CASE checker.msgs = << >>
    <3>1. checker' = At("wait", << >>)
      BY <1>6, <2>1 DEF Check
    <3>2. CheckerOK'
      BY <3>1 DEF CheckerOK, Buffered, At, Places
    <3>3. QED
      BY <1>6, <3>2, Below, RaftAlone DEF Check, Indexes
  <2>2. CASE checker.msgs # << >> /\ checker.msgs[1].index # lastApplied + 1
    <3>1. checker' = At("check", Tail(checker.msgs))
      BY <1>6, <2>2 DEF Check
    <3>2. CheckerOK'
      BY <1>6, <2>2, <3>1, TailBuffered DEF Check, Indexes, raft
    <3>3. QED
      BY <1>6, <3>2, Below, RaftAlone DEF Check, Indexes
  <2>3. CASE checker.msgs # << >> /\ checker.msgs[1].index = lastApplied + 1
    <3>1. checker' = At("send", checker.msgs)
      BY <1>6, <2>3 DEF Check
    <3>2. CheckerOK'
      BY <1>6, <2>3, <3>1 DEF Check, Indexes, CheckerOK, Buffered, At, Places, raft
    <3>3. QED
      BY <1>6, <3>2, Below, RaftAlone DEF Check, Indexes
  <2>4. QED
    BY <2>1, <2>2, <2>3
<1>7. CASE CheckedSend
  <2>1. checker.msgs # << >> /\ checker.msgs \in Seq(Message) /\ 1 \in 1..Len(checker.msgs)
    BY <1>7 DEF CheckedSend, Indexes, CheckerOK
  <2>2. ChannelOK'
    BY <1>7, <2>1, SendIndexes DEF CheckedSend, raft
  <2>3. CheckerOK'
    BY <1>7, <2>1 DEF CheckedSend, Indexes, CheckerOK, Buffered, At, Places, raft
  <2>4. QED
    BY <1>7, <2>2, <2>3, Below, RaftAlone DEF CheckedSend, Indexes
<1>8. CASE Sent
  <2>1. checker.msgs # << >> /\ checker.msgs[1] \in Message /\ checker.msgs[1].index <= commitIndex
    BY <1>8 DEF Sent, Indexes, CheckerOK, Buffered
  <2>2. RaftOK' /\ commitIndex' \in Nat /\ commitIndex <= commitIndex'
    BY <1>8, <2>1 DEF Sent, Indexes, RaftOK, State, Message, MaxOf
  <2>3. CheckerOK'
    BY <1>8, <2>1, TailBuffered DEF Sent, Indexes
  <2>4. InstallsOK'
    BY <1>8 DEF Sent, Indexes, InstallsOK, Ordered
  <2>5. QED
    BY <1>8, <2>2, <2>3, <2>4, Below DEF Sent, Indexes
<1>9. QED
  BY <1>1, <1>2, <1>3, <1>4, <1>5, <1>6, <1>7, <1>8 DEF Checker

\* The steps of ApplyHandler keep to the indexes.
LEMMA HandlerIndexes == ASSUME Indexes, Handler PROVE Indexes'
<1>1. CASE ApplyCommand
  <2>1. applyCh[1] \in Message /\ applyCh[1].index <= commitIndex /\ UNCHANGED raft
    BY <1>1 DEF ApplyCommand, Indexes, ChannelOK, Holds
  <2>2. MachineOK' /\ handler' \in Doing
    <3>1. CASE applyCh[1].index <= machine.index
      BY <1>1, <2>1, <3>1 DEF ApplyCommand, Indexes, MachineOK, raft
    <3>2. CASE ~(applyCh[1].index <= machine.index)
      <4>1. Append(machine.state, applyCh[1].index) \in Seq(Nat)
        BY <2>1 DEF Indexes, MachineOK, State, Message
      <4>2. /\ machine' = [index |-> applyCh[1].index,
                           state |-> Append(machine.state, applyCh[1].index)]
            /\ handler' = "answer" /\ commitIndex' = commitIndex
        BY <1>1, <3>2 DEF ApplyCommand, raft
      <4>3. applyCh[1].index \in Nat
        BY <2>1 DEF Message
      <4>4. QED
        BY <2>1, <4>1, <4>2, <4>3 DEF MachineOK, State, Doing
    <3>3. QED
      BY <3>1, <3>2
  <2>3. ChannelOK'
    BY <1>1 DEF ApplyCommand, ChannelOK, Holds
  <2>4. QED
    BY <1>1, <2>1, <2>2, <2>3, Below, RaftAlone DEF ApplyCommand, Indexes
<1>2. CASE ApplySnapshot
  <2>1. applyCh[1] \in Message /\ applyCh[1].index <= commitIndex /\ UNCHANGED raft
    BY <1>2 DEF ApplySnapshot, Indexes, ChannelOK, Holds
  <2>2. MachineOK'
    BY <1>2, <2>1 DEF ApplySnapshot, Indexes, MachineOK, State, Message, raft
  <2>3. ChannelOK'
    BY <1>2 DEF ApplySnapshot, ChannelOK, Holds
  <2>4. QED
    BY <1>2, <2>1, <2>2, <2>3, Below, RaftAlone DEF ApplySnapshot, Indexes
<1>3. CASE SendAnswer \/ SmallEnough
  BY <1>3, Below, RaftAlone DEF SendAnswer, SmallEnough, Indexes, Doing
<1>4. CASE Snapshot
  <2>1. CASE commitIndex < machine.index \/ machine.index <= snapShot.index
    BY <1>4, <2>1, Below, RaftAlone DEF Snapshot, Indexes, Doing
  <2>2. CASE ~(commitIndex < machine.index \/ machine.index <= snapShot.index)
    <3>1. /\ snapShot' = machine /\ lastApplied' = MaxOf(lastApplied, machine.index)
          /\ saved' = [snap |-> machine, commit |-> commitIndex]
          /\ UNCHANGED <<commitIndex, applyCh, checker, installs, machine>>
      BY <1>4, <2>2 DEF Snapshot
    <3>2. RaftOK' /\ commitIndex' \in Nat /\ commitIndex <= commitIndex'
      BY <3>1 DEF Indexes, RaftOK, MachineOK, State, MaxOf
    <3>3. SavedOK'
      BY <3>1 DEF Indexes, RaftOK, MachineOK, SavedOK
    <3>4. InstallsOK'
      BY <2>2, <3>1 DEF Indexes, InstallsOK, RaftOK, MachineOK, State, Ordered
    <3>5. QED
      BY <1>4, <3>1, <3>2, <3>3, <3>4, Below DEF Snapshot, Indexes, Doing
  <2>3. QED
    BY <2>1, <2>2
<1>5. QED
  BY <1>1, <1>2, <1>3, <1>4 DEF Handler

\* A crash and the start after it keep to the indexes.
LEMMA BootIndexes == ASSUME Indexes, Crash \/ startWork PROVE Indexes'
<1>1. CASE Crash
  <2>1. RaftOK' /\ SavedOK' /\ MachineOK'
    BY <1>1 DEF Crash, Indexes, RaftOK, SavedOK, MachineOK, State
  <2>2. InstallsOK' /\ ChannelOK'
    BY <1>1 DEF Crash, InstallsOK, ChannelOK, Holds
  <2>3. CheckerOK'
    BY <1>1 DEF Crash, CheckerOK, Buffered, At, Places
  <2>4. QED
    BY <1>1, <2>1, <2>2, <2>3 DEF Crash, Indexes, Doing
<1>2. CASE startWork
  <2>1. CheckerOK'
    BY <1>2 DEF startWork, CheckerOK, Buffered, At, Places
  <2>2. QED
    BY <1>2, <2>1, Below, RaftAlone DEF startWork, Indexes
<1>3. QED
  BY <1>1, <1>2

\* The goroutines that answer leave Raft and the state machine alone.
LEMMA AnsweringAlone == Answering => UNCHANGED other
BY DEF Answering, Answer, ReadLock, ReadSend, Respond

\* No step breaks the bounds of the indexes.
LEMMA NextIndexes == ASSUME Indexes, Next PROVE Indexes'
<1>1. CASE Answering
  BY <1>1, AnsweringAlone, Below, RaftAlone DEF other, Indexes
<1>2. QED
  BY <1>1, RaftIndexes, InstallerIndexes, CheckerIndexes, HandlerIndexes, BootIndexes
  DEF Next, Installer

-----------------------------------------------------------------------------
(* Progress *)

\* What was on its way to the state machine stays so until a crash.
LEMMA ReachedStays ==
  ASSUME Indexes, Next, ~Crash, NEW x \in Int, Reached(x)
  PROVE  Reached(x)'
<1>1. ASSUME UNCHANGED <<machine, applyCh>>, installs \subseteq installs' PROVE Reached(x)'
  BY <1>1 DEF Reached, Holds
<1>2. ASSUME NEW m, SendCommand(m), UNCHANGED <<machine, installs>> PROVE Reached(x)'
  BY <1>2 DEF Reached, Holds, SendCommand
<1>3. CASE Raft
  BY <1>1, <1>3 DEF Raft, Commit, Persist, InstallSnapshot
<1>4. ASSUME NEW s \in installs, InstallSend(s) PROVE Reached(x)'
  <2>1. /\ Snap(s).index = s.index /\ Snap(s).state = s.state /\ s.state # << >>
        /\ s.index \in Nat /\ machine.index \in Nat
    BY Zenon, MessageTypes, PrefixSeq DEF Indexes, InstallsOK, MachineOK, Ordered, State
  <2>2. applyCh' = <<Snap(s)>> /\ installs' = installs \ {s} /\ UNCHANGED machine /\ applyCh = << >>
    BY <1>4 DEF InstallSend
  <2>3. CASE x <= machine.index
    BY <2>2, <2>3 DEF Reached
  <2>4. ASSUME NEW t \in installs, t.index = x PROVE Reached(x)'
    <3>1. CASE t = s
      BY <2>1, <2>2, <2>4, <3>1 DEF Reached, Holds
    <3>2. CASE t # s
      BY <2>2, <2>4, <3>2 DEF Reached
    <3>3. QED
      BY <3>1, <3>2
  <2>5. QED
    BY <2>2, <2>3, <2>4 DEF Reached, Holds
<1>5. CASE Checker
  <2>1. CASE QuickSend \/ CheckedSend
    BY <1>2, <2>1 DEF QuickSend, CheckedSend
  <2>2. CASE ~(QuickSend \/ CheckedSend)
    BY <1>1, <1>5, <2>2 DEF Checker, QuickCount, QuickBuild, QuickDone, Buffer, Check, Sent
  <2>3. QED
    BY <2>1, <2>2
<1>6. CASE ApplyCommand
  <2>1. applyCh[1].index \in Nat /\ machine.index \in Nat
    BY <1>6 DEF ApplyCommand, Indexes, ChannelOK, MachineOK, Message, State, Holds
  <2>2. machine'.index >= machine.index /\ machine'.index >= applyCh[1].index /\ UNCHANGED installs
        /\ machine'.index \in Nat
    BY <1>6, <2>1 DEF ApplyCommand
  <2>3. QED
    BY <2>1, <2>2 DEF Reached
<1>7. CASE ApplySnapshot
  <2>1. applyCh[1].index \in Nat /\ machine.index \in Nat
    BY <1>7 DEF ApplySnapshot, Indexes, ChannelOK, MachineOK, Message, State, Holds
  <2>2. machine'.index >= machine.index /\ UNCHANGED installs /\ machine'.index \in Nat
        /\ (applyCh[1].valid \/ applyCh[1].state # << >> => machine'.index >= applyCh[1].index)
    BY <1>7, <2>1 DEF ApplySnapshot
  <2>3. QED
    BY <2>1, <2>2 DEF Reached
<1>8. CASE SendAnswer \/ SmallEnough \/ Snapshot \/ startWork \/ Answering
  BY <1>1, <1>8, AnsweringAlone DEF SendAnswer, SmallEnough, Snapshot, startWork, other
<1>9. QED
  BY <1>3, <1>4, <1>5, <1>6, <1>7, <1>8 DEF Next, Installer, Handler

\* The message that the checker is about to send, or has sent.
LEMMA FirstMessage ==
  ASSUME Indexes, checker.at \in {"send", "sent", "quickSend"}
  PROVE  /\ checker.msgs[1] \in Message /\ 1 \in 1..Len(checker.msgs) /\ checker.msgs # << >>
         /\ checker.msgs[1].index <= commitIndex /\ checker.msgs[1].state = << >>
<1>1. checker.msgs \in Seq(Message) /\ checker.msgs # << >>
  BY DEF Indexes, CheckerOK
<1>2. checker.msgs[1] \in Message /\ 1 \in 1..Len(checker.msgs)
  BY <1>1
<1>3. QED
  BY <1>1, <1>2 DEF Indexes, CheckerOK, Buffered

\* A step that is not of the checker and does not move rf.lastApplied.
LEMMA QuietProgress ==
  ASSUME Indexes, Progress, Next, ~Crash, UNCHANGED <<checker, lastApplied, snapShot>>
  PROVE  Progress'
<1>1. lastApplied \in Int /\ lastApplied - 1 \in Int
  BY DEF Indexes, RaftOK
<1>2. (Reached(lastApplied) => Reached(lastApplied)')
      /\ (Reached(lastApplied - 1) => Reached(lastApplied - 1)')
  BY <1>1, ReachedStays
<1>3. CASE checker.at \in {"send", "sent", "quickSend"}
  <2>1. checker.msgs[1].index \in Int /\ checker.msgs[1].index - 1 \in Int
    BY <1>3, FirstMessage DEF Message
  <2>2. (Reached(checker.msgs[1].index) => Reached(checker.msgs[1].index)')
        /\ (Reached(checker.msgs[1].index - 1) => Reached(checker.msgs[1].index - 1)')
    BY <2>1, ReachedStays
  <2>3. QED
    BY <1>2, <1>3, <2>2 DEF Progress
<1>4. CASE checker.at \notin {"send", "sent", "quickSend"}
  BY <1>2, <1>4 DEF Progress
<1>5. QED
  BY <1>3, <1>4

\* rf.lastApplied moves to an index that is on its way, beside the checker.
LEMMA LiftProgress ==
  ASSUME Indexes, Progress, Next, ~Crash, UNCHANGED checker, lastApplied' \in Int,
         lastApplied <= lastApplied', Reached(lastApplied)'
  PROVE  Progress'
<1>1. CASE checker.at \in {"send", "sent", "quickSend"}
  <2>1. checker.msgs[1].index \in Int /\ checker.msgs[1].index - 1 \in Int
    BY <1>1, FirstMessage DEF Message
  <2>2. (Reached(checker.msgs[1].index) => Reached(checker.msgs[1].index)')
        /\ (Reached(checker.msgs[1].index - 1) => Reached(checker.msgs[1].index - 1)')
    BY <2>1, ReachedStays
  <2>3. checker.at = "quickSend" => checker.msgs[1].index <= lastApplied'
    BY <2>1 DEF Progress, Indexes, RaftOK
  <2>4. QED
    BY <1>1, <2>2, <2>3 DEF Progress
<1>2. CASE checker.at \notin {"send", "sent", "quickSend"}
  BY <1>2 DEF Progress
<1>3. QED
  BY <1>1, <1>2

\* No step of Raft or ApplyHandler loses what is on its way to the state machine.
LEMMA OthersProgress ==
  ASSUME Indexes, Progress, Next, Raft \/ Installer \/ Handler \/ Answering, ~Crash
  PROVE  Progress'
<1>1. CASE Commit \/ Persist \/ Installer
  BY <1>1, QuietProgress DEF Commit, Persist, Installer, InstallSend, raft
<1>2. ASSUME NEW i \in 1..MaxIndex, InstallSnapshot(i) PROVE Progress'
  <2>1. lastApplied' = i /\ lastApplied <= i /\ i \in Int
    BY <1>2 DEF InstallSnapshot, MaxOf, Indexes, RaftOK
  <2>2. snapShot'.index = i /\ snapShot' \in installs' /\ UNCHANGED checker
    BY <1>2 DEF InstallSnapshot
  <2>3. Reached(lastApplied)'
    BY <2>1, <2>2 DEF Reached
  <2>4. QED
    BY <2>1, <2>2, <2>3, LiftProgress
<1>3. CASE ApplyCommand \/ ApplySnapshot \/ SendAnswer \/ SmallEnough \/ Answering
  BY <1>3, QuietProgress, AnsweringAlone
  DEF ApplyCommand, ApplySnapshot, SendAnswer, SmallEnough, raft, other
<1>4. CASE Snapshot
  <2>1. UNCHANGED <<checker, machine>>
    BY <1>4 DEF Snapshot
  <2>2. CASE commitIndex < machine.index \/ machine.index <= snapShot.index
    BY <1>4, <2>2, QuietProgress DEF Snapshot, raft
  <2>3. CASE ~(commitIndex < machine.index \/ machine.index <= snapShot.index)
    <3>1. snapShot' = machine /\ lastApplied' = MaxOf(lastApplied, machine.index)
      BY <1>4, <2>3 DEF Snapshot
    <3>2. lastApplied \in Nat /\ machine.index \in Nat
      BY DEF Indexes, RaftOK, MachineOK, State
    <3>3. CASE machine.index >= lastApplied
      <4>1. lastApplied' = machine.index
        BY <3>1, <3>2, <3>3 DEF MaxOf
      <4>2. Reached(lastApplied)'
        BY <2>1, <3>2, <4>1 DEF Reached
      <4>3. QED
        BY <2>1, <3>2, <3>3, <4>1, <4>2, LiftProgress
    <3>4. CASE machine.index < lastApplied
      <4>1. lastApplied' = lastApplied /\ snapShot'.index < lastApplied
        BY <3>1, <3>2, <3>4 DEF MaxOf
      <4>2. CASE Reached(lastApplied)
        <5>1. Reached(lastApplied)'
          <6>1. lastApplied \in Int
            BY <3>2
          <6>2. QED
            BY <4>1, <4>2, <6>1, ReachedStays DEF Reached
        <5>2. QED
          BY <2>1, <3>2, <4>1, <5>1, LiftProgress
      <4>3. CASE ~Reached(lastApplied)
        <5>1. checker.at \in {"quickBuild", "quickSend"}
          BY <4>3 DEF Progress
        <5>2. CASE checker.at = "quickBuild"
          <6>1. Reached(lastApplied - 1) /\ lastApplied - 1 \in Int
            BY <3>2, <4>3, <5>2 DEF Progress
          <6>2. Reached(lastApplied - 1)'
            BY <4>1, <6>1, ReachedStays DEF Reached
          <6>3. QED
            BY <2>1, <4>1, <5>2, <6>2 DEF Progress
        <5>3. CASE checker.at = "quickSend"
          <6>1. /\ checker.msgs[1].index <= lastApplied /\ checker.msgs[1].index = lastApplied
                /\ checker.msgs[1].valid /\ Reached(checker.msgs[1].index - 1)
            BY <4>3, <5>3 DEF Progress
          <6>2. checker.msgs[1].index - 1 \in Int
            BY <3>2, <6>1
          <6>3. Reached(checker.msgs[1].index - 1)'
            BY <2>1, <6>1, <6>2, ReachedStays DEF Reached
          <6>4. QED
            BY <2>1, <4>1, <5>3, <6>1, <6>3 DEF Progress
        <5>4. QED
          BY <5>1, <5>2, <5>3
      <4>4. QED
        BY <4>2, <4>3
    <3>5. QED
      BY <3>2, <3>3, <3>4
  <2>4. QED
    BY <2>2, <2>3
<1>5. QED
  BY <1>1, <1>2, <1>3, <1>4 DEF Raft, Handler

\* A command enters the empty channel, where it brings the state machine to its index.
LEMMA SentReached ==
  ASSUME Indexes, NEW m \in Message, SendCommand(m), m.valid
  PROVE  Reached(m.index)'
<1>1. applyCh' = <<m>>
  BY DEF SendCommand
<1>2. m.index \in Nat
  BY DEF Message
<1>3. QED
  BY <1>1, <1>2 DEF Reached, Holds

\* The checker sends, skips and counts only what is on its way to the state machine.
LEMMA CheckerProgress ==
  ASSUME Indexes, Progress, Next, Checker, ~Crash
  PROVE  Progress'
<1> lastApplied \in Nat /\ lastApplied \in Int /\ lastApplied - 1 \in Int /\ snapShot.index \in Nat
  BY DEF Indexes, RaftOK, State
<1>1. CASE QuickCount
  <2>1. Reached(lastApplied) /\ checker'.at = "quickBuild" /\ lastApplied' = lastApplied + 1
        /\ snapShot' = snapShot /\ snapShot.index <= lastApplied
    BY <1>1 DEF QuickCount, Progress, At, Indexes, RaftOK
  <2>2. lastApplied' - 1 = lastApplied /\ snapShot'.index < lastApplied'
    BY <2>1
  <2>3. (Reached(lastApplied - 1))'
    BY <1>1, <2>1, <2>2 DEF Reached, QuickCount, Holds
  <2>4. QED
    BY <2>1, <2>2, <2>3 DEF Progress
<1>2. CASE QuickBuild
  <2>1. /\ checker'.at = "quickSend" /\ checker'.msgs[1] = Command(lastApplied)
        /\ UNCHANGED <<lastApplied, snapShot, machine, applyCh, installs>>
    BY <1>2 DEF QuickBuild, At, raft
  <2>2. Command(lastApplied).index = lastApplied
        /\ (Command(lastApplied).valid <=> snapShot.index < lastApplied)
    BY Zenon DEF Command
  <2>3. Reached(lastApplied) \/ (Reached(lastApplied - 1) /\ snapShot.index < lastApplied)
    BY <1>2 DEF QuickBuild, Progress
  <2>4. snapShot.index < lastApplied => Reached(lastApplied - 1)
    <3>1. \A s \in installs : s.index <= snapShot.index /\ s.index \in Nat
      BY DEF Indexes, InstallsOK, State
    <3>2. machine.index \in Nat /\ (Holds => applyCh[1].index \in Nat)
      BY DEF Indexes, MachineOK, ChannelOK, State, Message
    <3>3. QED
      BY <2>3, <3>1, <3>2 DEF Reached
  <2>5. Reached(lastApplied) => Reached(lastApplied)'
    BY <2>1 DEF Reached, Holds
  <2>6. snapShot.index < lastApplied => (Reached(checker.msgs[1].index - 1))'
    BY <2>1, <2>2, <2>4 DEF Reached, Holds
  <2>7. QED
    BY <2>1, <2>2, <2>3, <2>5, <2>6 DEF Progress
<1>3. CASE QuickSend
  <2> DEFINE m == checker.msgs[1]
  <2>1. m \in Message /\ SendCommand(m) /\ checker'.at = "quick" /\ lastApplied' = lastApplied
    BY <1>3, FirstMessage DEF QuickSend, At, raft
  <2>2. Reached(lastApplied) \/ (m.valid /\ m.index = lastApplied)
    BY <1>3 DEF QuickSend, Progress
  <2>3. (Reached(lastApplied))'
    <3>1. CASE Reached(lastApplied)
      BY <2>1, <3>1, ReachedStays DEF Reached
    <3>2. CASE m.valid /\ m.index = lastApplied
      BY <2>1, <3>2, SentReached DEF Reached
    <3>3. QED
      BY <2>2, <3>1, <3>2
  <2>4. QED
    BY <2>1, <2>3 DEF Progress
<1>4. CASE QuickDone \/ Buffer
  <2>1. checker'.at \in {"wait", "check"} /\ Reached(lastApplied)
        /\ UNCHANGED <<lastApplied, machine, applyCh, installs>>
    BY <1>4 DEF QuickDone, Buffer, Progress, At, raft
  <2>2. (Reached(lastApplied))'
    BY <2>1 DEF Reached, Holds
  <2>3. QED
    BY <2>1, <2>2 DEF Progress
<1>5. CASE Check
  <2>1. Reached(lastApplied) /\ UNCHANGED <<lastApplied, machine, applyCh, installs>>
    BY <1>5 DEF Check, Progress, raft
  <2>2. (Reached(lastApplied))'
    BY <2>1 DEF Reached, Holds
  <2>3. CASE \/ checker.msgs = << >>
             \/ checker.msgs # << >> /\ checker.msgs[1].index # lastApplied + 1
    <3>1. checker'.at \in {"wait", "check"}
      BY <1>5, <2>3 DEF Check, At
    <3>2. QED
      BY <2>2, <3>1 DEF Progress
  <2>4. CASE checker.msgs # << >> /\ checker.msgs[1].index = lastApplied + 1
    <3>1. checker'.at = "send" /\ checker'.msgs = checker.msgs
      BY <1>5, <2>4 DEF Check, At
    <3>2. checker'.msgs[1].index - 1 = lastApplied
      BY <2>4, <3>1
    <3>3. (Reached(checker.msgs[1].index - 1))'
      BY <2>1, <3>2 DEF Reached, Holds
    <3>4. QED
      BY <2>2, <3>1, <3>3 DEF Progress
  <2>5. QED
    BY <2>3, <2>4
<1>6. CASE CheckedSend
  <2> DEFINE m == checker.msgs[1]
  <2>1. /\ m \in Message /\ SendCommand(m) /\ lastApplied' = lastApplied
        /\ checker'.at = "sent" /\ checker'.msgs[1] = m /\ m.valid
    BY <1>6, FirstMessage DEF CheckedSend, At, raft, Indexes, CheckerOK, Buffered
  <2>2. Reached(lastApplied)
    BY <1>6 DEF CheckedSend, Progress
  <2>3. (Reached(lastApplied))'
    BY <2>1, <2>2, ReachedStays DEF Reached
  <2>4. (Reached(checker.msgs[1].index))'
    BY <2>1, SentReached DEF Reached
  <2>5. QED
    BY <2>1, <2>3, <2>4 DEF Progress
<1>7. CASE Sent
  <2>1. /\ checker.msgs[1].index \in Nat /\ lastApplied' = MaxOf(lastApplied, checker.msgs[1].index)
        /\ checker'.at = "check" /\ UNCHANGED <<machine, applyCh, installs>>
    BY <1>7, FirstMessage DEF Sent, At, Message
  <2>2. Reached(lastApplied) /\ Reached(checker.msgs[1].index)
    BY <1>7 DEF Sent, Progress
  <2>3. lastApplied' = lastApplied \/ lastApplied' = checker.msgs[1].index
    BY <2>1 DEF MaxOf
  <2>4. (Reached(lastApplied))'
    BY <2>1, <2>2, <2>3 DEF Reached, Holds
  <2>5. QED
    BY <2>1, <2>4 DEF Progress
<1>8. QED
  BY <1>1, <1>2, <1>3, <1>4, <1>5, <1>6, <1>7 DEF Checker

\* Nor does a crash, after which everything that rf.lastApplied counts is loaded.
LEMMA NextProgress == ASSUME Indexes, Progress, Next PROVE Progress'
<1>1. CASE Crash
  <2>1. checker'.at = "down" /\ lastApplied' = machine'.index /\ machine'.index \in Nat
    BY <1>1 DEF Crash, At, Indexes, SavedOK, State
  <2>2. (Reached(lastApplied))'
    BY <2>1 DEF Reached
  <2>3. QED
    BY <2>1, <2>2 DEF Progress
<1>2. CASE startWork /\ ~Crash
  <2>1. checker'.at = "quick" /\ Reached(lastApplied)
        /\ UNCHANGED <<lastApplied, machine, applyCh, installs>>
    BY <1>2 DEF startWork, At, Progress, raft
  <2>2. (Reached(lastApplied))'
    BY <2>1 DEF Reached, Holds
  <2>3. QED
    BY <2>1, <2>2 DEF Progress
<1>3. QED
  BY <1>1, <1>2, OthersProgress, CheckerProgress DEF Next

-----------------------------------------------------------------------------
(* Exactness *)

\* A command is sent when the entry before it has been executed, unless it overtakes
\* the snapshot that ends there.
LEMMA SendFits ==
  ASSUME ApplyInv, checker.at \in {"send", "quickSend"}, SendCommand(checker.msgs[1]),
         UNCHANGED <<machine, installs>>, ~overtaken'
  PROVE  ~overtaken /\ Fits'
<1> DEFINE m == checker.msgs[1]
<1>1. m \in Message /\ m.index \in Nat /\ m.state = << >> /\ machine.index \in Nat
  BY FirstMessage DEF ApplyInv, Indexes, MachineOK, State, Message
<1>2. ~overtaken /\ applyCh = << >> /\ applyCh' = <<m>> /\ \A s \in installs : ~(s.index < m.index)
  BY Zenon DEF SendCommand
<1>3. m.valid => Reached(m.index - 1)
  BY DEF ApplyInv, Progress
<1>4. m.valid => m.index <= machine.index + 1
  BY <1>1, <1>2, <1>3 DEF Reached, Holds
<1>5. QED
  BY <1>1, <1>2, <1>4 DEF Fits, Holds

\* Every step keeps the state machine and the snapshots exact.
LEMMA NextExact == ASSUME ApplyInv, Next PROVE Exact'
<1> SUFFICES ASSUME ~overtaken'
             PROVE  (Ordered(machine) /\ Ordered(snapShot) /\ Ordered(saved.snap) /\ Fits)'
  BY DEF Exact
<1>1. /\ Indexes
      /\ ~overtaken => Ordered(machine) /\ Ordered(snapShot) /\ Ordered(saved.snap) /\ Fits
  BY DEF ApplyInv, Exact
<1>2. ASSUME UNCHANGED <<machine, snapShot, saved, applyCh, overtaken>>
      PROVE  (Ordered(machine) /\ Ordered(snapShot) /\ Ordered(saved.snap) /\ Fits)'
  BY <1>1, <1>2 DEF Ordered, Fits, Holds
<1>3. CASE Raft
  <2>1. CASE Commit
    BY <1>2, <2>1 DEF Commit
  <2>2. CASE Persist
    BY <1>1, <2>2 DEF Persist, Ordered, Fits, Holds, raft
  <2>3. ASSUME NEW i \in 1..MaxIndex, InstallSnapshot(i)
        PROVE  (Ordered(machine) /\ Ordered(snapShot) /\ Ordered(saved.snap) /\ Fits)'
    BY <1>1, <2>3 DEF InstallSnapshot, Ordered, Fits, Holds
  <2>4. QED
    BY <1>3, <2>1, <2>2, <2>3 DEF Raft
<1>4. ASSUME NEW s \in installs, InstallSend(s)
      PROVE  (Ordered(machine) /\ Ordered(snapShot) /\ Ordered(saved.snap) /\ Fits)'
  <2>1. /\ UNCHANGED <<machine, snapShot, overtaken>> /\ saved'.snap = snapShot
        /\ applyCh' = <<Snap(s)>>
    BY <1>4 DEF InstallSend, raft
  <2>2. Snap(s).index = s.index /\ Snap(s).state = s.state /\ Snap(s).valid = FALSE /\ Ordered(s)
    BY Zenon, <1>1, MessageTypes DEF Indexes, InstallsOK
  <2>3. Fits'
    BY <2>1, <2>2 DEF Fits, Ordered
  <2>4. QED
    BY <1>1, <2>1, <2>3 DEF Ordered
<1>5. CASE Checker
  <2>1. CASE QuickSend \/ CheckedSend
    <3>1. /\ checker.at \in {"send", "quickSend"} /\ SendCommand(checker.msgs[1])
          /\ UNCHANGED <<machine, installs, snapShot, saved>>
      BY <2>1 DEF QuickSend, CheckedSend, raft
    <3>2. ~overtaken /\ Fits'
      BY <3>1, SendFits
    <3>3. QED
      BY <1>1, <3>1, <3>2 DEF Ordered
  <2>2. CASE ~(QuickSend \/ CheckedSend)
    BY <1>2, <1>5, <2>2 DEF Checker, QuickCount, QuickBuild, QuickDone, Buffer, Check, Sent, raft
  <2>3. QED
    BY <2>1, <2>2
<1>6. CASE ApplyCommand
  <2>1. /\ UNCHANGED <<snapShot, saved, overtaken>> /\ ~Holds'
    BY <1>6 DEF ApplyCommand, raft, Holds
  <2>2. applyCh[1].index \in Nat /\ machine.index \in Nat /\ applyCh[1].index <= machine.index + 1
    BY SMTT(30), <1>1, <1>6, <2>1 DEF ApplyCommand, Fits, Holds, Indexes, ChannelOK, MachineOK, Message, State
  <2>3. Ordered(machine)'
    <3>1. CASE applyCh[1].index <= machine.index
      BY SMTT(30), <1>1, <1>6, <2>1, <3>1 DEF ApplyCommand, Ordered
    <3>2. CASE applyCh[1].index = machine.index + 1
      <4>1. machine' = [index |-> machine.index + 1,
                        state |-> Append(machine.state, machine.index + 1)]
        BY <1>6, <2>2, <3>2 DEF ApplyCommand
      <4>2. machine.state = Prefix(machine.index)
        BY <1>1, <2>1 DEF Ordered
      <4>3. QED
        BY Zenon, <2>2, <4>1, <4>2, PrefixNext DEF Ordered
    <3>3. QED
      BY <2>2, <3>1, <3>2
  <2>4. QED
    BY <1>1, <2>1, <2>3 DEF Ordered, Fits
<1>7. CASE ApplySnapshot
  BY SMTT(30), <1>1, <1>7 DEF ApplySnapshot, Ordered, Fits, Holds, raft
<1>8. CASE SendAnswer \/ SmallEnough \/ startWork \/ Answering
  BY <1>2, <1>8, AnsweringAlone DEF SendAnswer, SmallEnough, startWork, raft, other
<1>9. CASE Snapshot
  BY SMTT(30), <1>1, <1>9 DEF Snapshot, Ordered, Fits, Holds, raft
<1>10. CASE Crash
  BY <1>1, <1>10 DEF Crash, Ordered, Fits, Holds
<1>11. QED
  BY <1>3, <1>4, <1>5, <1>6, <1>7, <1>8, <1>9, <1>10 DEF Next, Installer, Handler

\* ApplyInv is inductive.
LEMMA NextInv == ApplyInv /\ [Next]_vars => ApplyInv'
<1> SUFFICES ASSUME ApplyInv, [Next]_vars PROVE ApplyInv'
  OBVIOUS
<1>1. CASE Next
  BY <1>1, NextIndexes, NextProgress, NextExact DEF ApplyInv
<1>2. CASE UNCHANGED vars
  <2>1. Indexes'
    BY SMTT(30), <1>2 DEF vars, raft, ApplyInv, Indexes, RaftOK, SavedOK, MachineOK, InstallsOK, ChannelOK,
                CheckerOK, Buffered, Holds, Ordered
  <2>2. Progress'
    <3>1. UNCHANGED <<machine, applyCh, installs>> /\ UNCHANGED <<checker, lastApplied, snapShot>>
      BY <1>2 DEF vars, raft
    <3>2. Reached(lastApplied) => Reached(lastApplied)'
      BY <3>1 DEF Reached, Holds
    <3>3. Reached(lastApplied - 1) => Reached(lastApplied - 1)'
      BY <3>1 DEF Reached, Holds
    <3>4. Reached(checker.msgs[1].index) => Reached(checker.msgs[1].index)'
      BY <3>1 DEF Reached, Holds
    <3>5. Reached(checker.msgs[1].index - 1) => Reached(checker.msgs[1].index - 1)'
      BY <3>1 DEF Reached, Holds
    <3>6. QED
      BY SMTT(30), <3>1, <3>2, <3>3, <3>4, <3>5 DEF ApplyInv, Progress
  <2>3. Exact'
    BY <1>2 DEF vars, raft, ApplyInv, Exact, Ordered, Fits, Holds
  <2>4. QED
    BY <2>1, <2>2, <2>3 DEF ApplyInv
<1>3. QED
  BY <1>1, <1>2

-----------------------------------------------------------------------------
(* Theorems *)

\* The state machine of a server has executed the committed entries up to
\* kv.lastApplied, each once and in order, for a log of any length, any number of
\* concurrent InstallSnapshot calls and any number of crashes, as long as no command
\* has entered applyCh ahead of a snapshot that InstallSnapshot is about to send.
THEOREM InOrderHolds == Spec => []InOrder
<1>1. ApplyInv => InOrder
  BY DEF ApplyInv, Exact, Indexes, MachineOK, InOrder
<1>2. QED
  BY <1>1, InitInv, NextInv, PTL DEF Spec

\* Likewise the snapshot that Raft keeps, and the one a restart begins from, are
\* the state after as many entries as they claim.
THEOREM SnapshotExactHolds == Spec => []SnapshotExact
<1>1. ApplyInv => SnapshotExact
  BY DEF ApplyInv, Exact, SnapshotExact
<1>2. QED
  BY <1>1, InitInv, NextInv, PTL DEF Spec

\* What is in kv.sendQueues fits, and the goroutines that use it are in their states.
AnswersOK == sendQueues \in 0..SendCap /\ sender \in {"run", "gone"} /\ reader \in {"send", "free"}

\* Every answer waits for a place in the queue.
LEMMA NextAnswers == AnswersOK /\ [Next]_vars => AnswersOK'
<1> SUFFICES ASSUME AnswersOK, [Next]_vars PROVE AnswersOK'
  OBVIOUS
<1>1. SendCap \in Nat \ {0}
  BY ApplyAssumption
<1>2. ASSUME UNCHANGED answers PROVE AnswersOK'
  BY <1>2 DEF answers, AnswersOK
<1>3. CASE SendAnswer \/ Answering \/ Crash
  BY <1>1, <1>3 DEF SendAnswer, Answering, Answer, ReadLock, ReadSend, Respond, Crash, Queue, AnswersOK
<1>4. CASE Raft \/ Installer \/ Checker \/ startWork
  BY <1>2, <1>4 DEF Raft, Commit, Persist, InstallSnapshot, Installer, InstallSend, startWork,
       Checker, QuickCount, QuickBuild, QuickSend, QuickDone, Buffer, Check, CheckedSend, Sent
<1>5. CASE ApplyCommand \/ ApplySnapshot \/ SmallEnough \/ Snapshot
  BY <1>2, <1>5 DEF ApplyCommand, ApplySnapshot, SmallEnough, Snapshot
<1>6. CASE UNCHANGED vars
  BY <1>2, <1>6 DEF vars
<1>7. QED
  BY <1>3, <1>4, <1>5, <1>6 DEF Next, Handler

\* Every variable keeps its type: the channel never holds two messages, and
\* rf.lastApplied and rf.commitIndex stay within the log.
THEOREM ApplyTypeCorrect == Spec => []TypeOK
<1>1. ASSUME ApplyInv, AnswersOK PROVE TypeOK
  <2>1. commitIndex \in 0..MaxIndex /\ lastApplied \in 0..MaxIndex /\ Len(applyCh) <= 1
        /\ handler \in {"receive", "answer", "size"}
    BY <1>1, ApplyAssumption DEF ApplyInv, Indexes, RaftOK, ChannelOK, Doing
  <2>2. ASSUME NEW s \in installs
        PROVE  s \in [index : 1..MaxIndex, state : {Prefix(i) : i \in 1..MaxIndex}]
    <3>1. s \in State /\ s.index \in 1..MaxIndex /\ s.state = Prefix(s.index)
      BY <1>1, ApplyAssumption DEF ApplyInv, Indexes, RaftOK, InstallsOK, Ordered, State
    <3>2. s = [index |-> s.index, state |-> s.state]
      BY <3>1 DEF State
    <3>3. QED
      BY <3>1, <3>2
  <2>3. QED
    BY <1>1, <2>1, <2>2 DEF TypeOK, AnswersOK
<1>2. Init => AnswersOK
  BY ApplyAssumption DEF Init, AnswersOK
<1>3. QED
  BY <1>1, <1>2, InitInv, NextInv, NextAnswers, PTL DEF Spec
=============================================================================
