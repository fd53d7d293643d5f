----------------------------- MODULE Persister -----------------------------
(***************************************************************************)
(* src/persister: how Raft's log, votes and snapshots reach the disk.      *)
(*                                                                         *)
(* Save writes the state file at once and queues the log entries that the  *)
(* disk does not have; saveLogToDisk takes them from the queue and writes  *)
(* them to the write-ahead log, whose promise is module LogStore;          *)
(* saveSnapClock writes the snapshot from time to time.  The three share   *)
(* ps.mu, and Save sends to the bounded queue while it holds it.  Every    *)
(* write to the disk is a step of its own, and the node may crash between  *)
(* any two of them and be started again.                                   *)
(*                                                                         *)
(* Raft is reduced to the calls it makes: a log that grows, loses an       *)
(* uncommitted suffix to a new entry, is compacted up to a committed index *)
(* or replaced by a snapshot from the leader, each followed by persist().  *)
(***************************************************************************)
EXTENDS Integers, Sequences, FiniteSets

CONSTANTS
  Contents,   \* Contents[i]: the entries that Raft may have at index i
  MaxIndex,   \* bound: indexes of the log
  MaxSaves,   \* bound: calls of Save
  MaxCrashes, \* bound: crashes
  QueueCap,   \* capacity of entryCh
  Sums        \* length of the checksum array of an empty log

ASSUME PersisterAssumption ==
  {MaxIndex, MaxSaves, QueueCap, Sums} \subseteq Nat \ {0} /\ MaxCrashes \in Nat

VARIABLES
  wal,        \* on disk: the write-ahead log
  stateFile,  \* on disk: <<>> if missing, else <<the IndexState in it>>
  snapFile,   \* on disk: index of the newest snapshot file, 0 if there is none
  phase,      \* "run" or "down"
  state,      \* ps.state
  snapshot,   \* ps.snapshot.LastIndex
  snapIdx,    \* ps.snapshotter.LastIdx
  checkSum,   \* ps.checkSum
  entryCh,    \* the queue
  holder,     \* who holds ps.mu, and what it does next
  item,       \* the entry saveLogToDisk has received
  raft,       \* what Raft has in memory: log after base, commitIndex
  saves, crashes,
  saved,      \* ghost: every <<index, entry>> that was given to Save
  history     \* ghost: what happened so far, of {"replaced", "crashed", "exited", "torn"}

disk == <<wal, stateFile, snapFile>>
memory == <<state, snapshot, snapIdx, checkSum, entryCh, holder, item, raft>>
vars == <<disk, phase, memory, saves, crashes, saved, history>>

W == INSTANCE LogStore WITH store <- wal
walLast == W!Last(wal)
InWal(i) == wal.first <= i /\ i <= walLast
WalEntry(i) == wal.entries[i - wal.first + 1]

Entry == UNION {Contents[i] : i \in 1..MaxIndex}
\* The checksum of an entry identifies it; zero is that of none.
zero == "zero"
NoItem == [index |-> 0, entry |-> zero]
Free == [who |-> "nobody"]
MaxOf(a, b) == IF a >= b THEN a ELSE b
MinOf(a, b) == IF a <= b THEN a ELSE b
RaftLast(r) == r.base + Len(r.log)

-----------------------------------------------------------------------------
(* Starting: MakePersister, ReadRaftState, ReadSnapshot, QuickApply *)

\* What an empty file is read as: FirstIndex is 0.
Blank == [first |-> 0, last |-> 0, commit |-> 0]

\* loadState, which creates a missing file, and initFromDisk's LastIndex.
loadState == IF stateFile = << >> THEN [Blank EXCEPT !.first = 1] ELSE stateFile[1]

\* saveState.
saveState(st) == stateFile' = <<st>>

\* Snapshotter.Load: of the files, sorted by term and index, the newest that can be
\* read; one that a crash has cut off is set aside.
Load == snapFile

\* What the node reads at start: the entries of the state's range.
Range0(st) == IF st.last > 0 THEN st.first..st.last ELSE {}
Readable(st) == \A i \in Range0(st) : i > 0 /\ InWal(i)
ReadRaftState(st) ==
  [log |-> [k \in 1..Cardinality(Range0(st)) |-> WalEntry(st.first + k - 1)],
   base |-> Load, commit |-> st.commit]
\* QuickApply indexes the log up to the saved commitIndex.
Applicable(r) == r.commit <= RaftLast(r)

initFromDisk(st) ==
  [k \in 1..MaxOf(Sums, st.last - st.first + 1) |->
     IF st.first + k - 1 \in Range0(st) THEN WalEntry(st.first + k - 1) ELSE zero]

Boot ==
  /\ phase = "down"
  /\ LET st == loadState
     IN  /\ Readable(st) /\ Applicable(ReadRaftState(st))
         /\ state' = st /\ snapshot' = Load /\ snapIdx' = 0
         /\ checkSum' = initFromDisk(st)
         /\ raft' = ReadRaftState(st)
  /\ stateFile' = IF stateFile = << >> THEN <<Blank>> ELSE stateFile
  /\ entryCh' = << >> /\ holder' = Free /\ item' = NoItem
  /\ phase' = "run"
  /\ UNCHANGED <<wal, snapFile, saves, crashes, saved, history>>

\* The process ends: killed, or by log.Fatal or a panic (why = "exited").
Stop(why) ==
  /\ phase' = "down"
  /\ history' = history \cup {why}
  /\ crashes' = IF why = "exited" THEN crashes ELSE MinOf(crashes + 1, MaxCrashes)
  /\ state' = loadState /\ snapshot' = 0 /\ snapIdx' = 0 /\ checkSum' = << >>
  /\ entryCh' = << >> /\ holder' = Free /\ item' = NoItem
  /\ raft' = [log |-> << >>, base |-> 0, commit |-> 0]

\* A crash between two calls, or while Save's queue is being filled.
Crash ==
  /\ phase = "run" /\ crashes < MaxCrashes
  /\ holder.who \notin {"writer", "clock"} /\ stateFile # <<Blank>>
  /\ Stop("crashed")
  /\ UNCHANGED <<disk, saves, saved>>

\* A crash between two writes that belong together, before the first write of
\* the state file, or in one, which begins by truncating the file.  A snapshot
\* file that was complete is taken to stay so.
CrashInside ==
  /\ phase = "run" /\ crashes < MaxCrashes
  /\ stateFile' \in {<<Blank>>} \cup
       (IF holder.who \in {"writer", "clock"} THEN {stateFile} ELSE {})
  /\ Stop("torn")
  /\ UNCHANGED <<wal, snapFile, saves, saved>>

-----------------------------------------------------------------------------
(* Save *)

\* filter: everything when the disk has no entry after the snapshot, else the
\* uncommitted entries that are new or whose checksum differs.
Differs(r, i) == i > state.last \/ checkSum[i - state.first + 1] # r.log[i - r.base]
\* Mutant: one uncommitted entry too few is compared.
QueuedLate(r) ==
  IF r.base >= state.last THEN r.base + 1..RaftLast(r)
  ELSE {i \in MaxOf(r.base, r.commit) + 2..RaftLast(r) : Differs(r, i)}

Queued(r) ==
  IF r.base >= state.last THEN r.base + 1..RaftLast(r)
  ELSE {i \in MaxOf(r.base, r.commit) + 1..RaftLast(r) : Differs(r, i)}
InOrder(S) == [k \in 1..Cardinality(S) |->
                 CHOOSE i \in S : Cardinality({j \in S : j < i}) = k - 1]
\* Mutant: entries are queued under the index before theirs.
filterOffByOne(r) ==
  LET is == InOrder(Queued(r))
  IN  [k \in DOMAIN is |-> [index |-> is[k] - 1, entry |-> r.log[is[k] - r.base]]]

filter(r) == LET is == InOrder(Queued(r))
             IN  [k \in DOMAIN is |-> [index |-> is[k], entry |-> r.log[is[k] - r.base]]]

\* The checksum of a stored index that filter compares is missing: a panic.
FilterPanics(r) ==
  /\ r.base < state.last
  /\ \E i \in MaxOf(r.base, r.commit) + 1..MinOf(RaftLast(r), state.last) :
       i - state.first + 1 > Len(checkSum)

\* The call returns once the entries are queued.
SaveReturns(r, events) ==
  /\ raft' = r
  /\ state' = [state EXCEPT !.commit = r.commit]
  /\ snapshot' = r.base
  /\ holder' = IF filter(r) = << >> THEN Free ELSE [who |-> "save", todo |-> filter(r)]
  /\ history' = history \cup events
  /\ UNCHANGED <<phase, snapIdx, checkSum, entryCh, item, crashes>>

\* persist() with Raft in state r: the state file is written, the rest is queued.
Save(r, events) ==
  /\ phase = "run" /\ holder = Free /\ saves < MaxSaves
  /\ saveState([state EXCEPT !.commit = r.commit])
  /\ saved' = saved \cup {<<i, r.log[i - r.base]>> : i \in r.base + 1..RaftLast(r)}
  /\ saves' = saves + 1
  /\ UNCHANGED <<wal, snapFile>>
  /\ \/ ~FilterPanics(r) /\ SaveReturns(r, events)
     \/ FilterPanics(r) /\ Stop("exited")

\* ps.entryCh <- entry, with ps.mu held.
Send ==
  /\ holder.who = "save" /\ Len(entryCh) < QueueCap
  /\ entryCh' = Append(entryCh, Head(holder.todo))
  /\ holder' = IF Len(holder.todo) = 1 THEN Free ELSE [holder EXCEPT !.todo = Tail(@)]
  /\ UNCHANGED <<disk, phase, state, snapshot, snapIdx, checkSum, item, raft, saves, crashes,
                 saved, history>>

\* The calls of Raft.  commitIndex may have advanced since the last one.
Commits(r) == {[r EXCEPT !.commit = n] : n \in r.commit..MaxOf(RaftLast(r), r.commit)}

Start ==
  /\ RaftLast(raft) < MaxIndex
  /\ \E r \in Commits(raft), e \in Contents[RaftLast(raft) + 1] :
       Save([r EXCEPT !.log = Append(@, e)], {})

Vote == \E r \in Commits(raft) : Save(r, {})

\* AppendEntries removes the entries from i on and appends another one.
Replace(i, e) ==
  /\ MaxOf(raft.base, raft.commit) < i /\ i <= RaftLast(raft)
  /\ e # raft.log[i - raft.base]
  /\ Save([raft EXCEPT !.log = Append(SubSeq(@, 1, i - raft.base - 1), e)], {"replaced"})

Compact(i) ==
  /\ raft.base < i /\ i <= raft.commit
  /\ Save([raft EXCEPT !.base = i, !.log = SubSeq(@, i - raft.base + 1, Len(@))], {})

\* InstallSnapshot up to index i, whose entry is e: the entries after it are
\* kept if the log has e there, else e becomes the entry after the snapshot.
Has(i, e) == i <= RaftLast(raft) /\ raft.log[i - raft.base] = e
Install(i, e) ==
  /\ raft.base < i /\ raft.commit <= i
  /\ Save([base |-> i, commit |-> i,
           log |-> IF Has(i, e) THEN SubSeq(raft.log, i - raft.base + 1, Len(raft.log))
                   ELSE <<e>>], {"replaced"})

-----------------------------------------------------------------------------
(* saveLogToDisk *)

Receive ==
  /\ phase = "run" /\ item = NoItem /\ entryCh # << >>
  /\ item' = Head(entryCh) /\ entryCh' = Tail(entryCh)
  /\ UNCHANGED <<disk, phase, state, snapshot, snapIdx, checkSum, holder, raft, saves, crashes,
                 saved, history>>

Locked == phase = "run" /\ item # NoItem /\ holder = Free
Writer(at) == [who |-> "writer", at |-> at]

\* An entry inside the stored range: the log is cut before it, and the checksums
\* are.  A slice may end after its length but within its capacity, where anything
\* may lie that was there before.
CutBackFits == InWal(item.index - 1) /\ item.index > 1
Resliced(n) == {t \in [1..n -> Entry \cup {zero}] :
                  \A k \in 1..MinOf(n, Len(checkSum)) : t[k] = checkSum[k]}

TruncateBack ==
  /\ Locked /\ snapshot <= state.last /\ item.index < state.last /\ CutBackFits
  /\ wal' = W!CutBack(wal, item.index - 1)
  /\ item.index >= state.first /\ checkSum' \in Resliced(item.index - state.first)
  /\ state' = [state EXCEPT !.last = item.index - 1]
  /\ holder' = Writer("write")
  /\ UNCHANGED <<stateFile, snapFile, phase, snapshot, snapIdx, entryCh, item, raft, saves,
                 crashes, saved, history>>

\* The index before it is not in the log: log.Fatalf.
TruncateBackFails ==
  /\ Locked /\ snapshot <= state.last /\ item.index < state.last /\ ~CutBackFits
  /\ Stop("exited")
  /\ UNCHANGED <<disk, saves, saved>>

\* The log is cut, but the checksums begin after the entry, or end before it: a panic.
TruncateBackPanics ==
  /\ Locked /\ snapshot <= state.last /\ item.index < state.last /\ CutBackFits
  /\ item.index - state.first \notin 0..Len(checkSum)
  /\ wal' = W!CutBack(wal, item.index - 1)
  /\ Stop("torn")
  /\ UNCHANGED <<stateFile, snapFile, saves, saved>>

\* An entry after the stored range, or the last of it, is written as it is.
NoTruncate ==
  /\ Locked /\ snapshot <= state.last /\ item.index >= state.last
  /\ holder' = Writer("write")
  /\ UNCHANGED <<disk, phase, state, snapshot, snapIdx, checkSum, entryCh, item, raft, saves,
                 crashes, saved, history>>

\* Mutant: the checksum of the new entry is not kept.
WriteEntryNoSum ==
  /\ holder = Writer("write") /\ item.index = walLast + 1
  /\ wal' = W!Flushed([wal EXCEPT !.entries = Append(@, item.entry)])
  /\ state' = [state EXCEPT !.last = item.index]
  /\ holder' = Writer("state")
  /\ UNCHANGED <<stateFile, snapFile, phase, snapshot, snapIdx, checkSum, entryCh, item, raft,
                 saves, crashes, saved, history>>

WriteEntry ==
  /\ holder = Writer("write") /\ item.index = walLast + 1
  /\ wal' = W!Flushed([wal EXCEPT !.entries = Append(@, item.entry)])
  /\ checkSum' = Append(checkSum, item.entry)
  /\ state' = [state EXCEPT !.last = item.index]
  /\ holder' = Writer("state")
  /\ UNCHANGED <<stateFile, snapFile, phase, snapshot, snapIdx, entryCh, item, raft, saves,
                 crashes, saved, history>>

\* The write-ahead log refuses an index that does not follow its last one.
WriteRefused ==
  /\ holder = Writer("write") /\ item.index # walLast + 1
  /\ holder' = Free /\ item' = NoItem
  /\ UNCHANGED <<disk, phase, state, snapshot, snapIdx, checkSum, entryCh, raft, saves, crashes,
                 saved, history>>

SaveStateOfWriter ==
  /\ holder = Writer("state")
  /\ saveState(state)
  /\ holder' = Free /\ item' = NoItem
  /\ UNCHANGED <<wal, snapFile, phase, state, snapshot, snapIdx, checkSum, entryCh, raft, saves,
                 crashes, saved, history>>

-----------------------------------------------------------------------------
(* saveSnapToDisk, called by saveLogToDisk or by saveSnapClock *)

\* The snapshot is ahead of the stored log, or the clock ticks.
SnapCaller(who) ==
  \/ who = "writer" /\ Locked /\ snapshot > state.last
  \/ who = "clock" /\ phase = "run" /\ holder = Free

\* What follows saveSnapToDisk.
AfterSnap(who) == IF who = "writer" THEN Writer("write") ELSE Free

SnapUnchanged(who) ==
  /\ SnapCaller(who) /\ snapshot = snapIdx
  /\ holder' = AfterSnap(who)
  /\ UNCHANGED <<disk, phase, state, snapshot, snapIdx, checkSum, entryCh, item, raft, saves,
                 crashes, saved, history>>

\* SaveSnap writes a file of its own for every snapshot.
SaveSnap(who) ==
  /\ SnapCaller(who) /\ snapshot # snapIdx
  /\ snapFile' = snapshot
  /\ snapIdx' = snapshot
  /\ holder' = [who |-> who, at |-> "cut"]
  /\ UNCHANGED <<wal, stateFile, phase, state, snapshot, checkSum, entryCh, item, raft, saves,
                 crashes, saved, history>>

\* TruncateFront leaves the entry of the snapshot, or the last one of the log.
cutIndex == MinOf(snapshot, walLast)
CutFits == InWal(cutIndex) /\ snapshot - state.first + 1 <= Len(checkSum)

TruncateFront ==
  /\ holder.who \in {"writer", "clock"} /\ holder.at = "cut" /\ CutFits
  /\ wal' = W!CutFront(wal, cutIndex)
  /\ checkSum' = SubSeq(checkSum, snapshot - state.first + 2, Len(checkSum))
  /\ state' = [state EXCEPT !.first = snapshot + 1]
  /\ holder' = [holder EXCEPT !.at = "snapState"]
  /\ UNCHANGED <<stateFile, snapFile, phase, snapshot, snapIdx, entryCh, item, raft, saves,
                 crashes, saved, history>>

\* The index is outside the log, or outside the checksums: log.Fatal or a panic.
TruncateFrontFails ==
  /\ holder.who \in {"writer", "clock"} /\ holder.at = "cut" /\ ~CutFits
  /\ Stop("torn")
  /\ wal' = IF InWal(cutIndex) THEN W!CutFront(wal, cutIndex) ELSE wal
  /\ UNCHANGED <<stateFile, snapFile, saves, saved>>

\* Mutant: the new FirstIndex is not saved.
SaveStateOfSnapLost ==
  /\ holder.who \in {"writer", "clock"} /\ holder.at = "snapState"
  /\ holder' = AfterSnap(holder.who)
  /\ UNCHANGED <<disk, phase, state, snapshot, snapIdx, checkSum, entryCh, item, raft,
                 saves, crashes, saved, history>>

SaveStateOfSnap ==
  /\ holder.who \in {"writer", "clock"} /\ holder.at = "snapState"
  /\ saveState(state)
  /\ holder' = AfterSnap(holder.who)
  /\ UNCHANGED <<wal, snapFile, phase, state, snapshot, snapIdx, checkSum, entryCh, item, raft,
                 saves, crashes, saved, history>>

-----------------------------------------------------------------------------

Init ==
  /\ wal = W!Empty /\ stateFile = << >> /\ snapFile = 0
  /\ phase = "down"
  /\ state = loadState /\ snapshot = 0 /\ snapIdx = 0 /\ checkSum = << >>
  /\ entryCh = << >> /\ holder = Free /\ item = NoItem
  /\ raft = [log |-> << >>, base |-> 0, commit |-> 0]
  /\ saves = 0 /\ crashes = 0 /\ saved = {} /\ history = {}

WriterStep ==
  \/ Receive \/ TruncateBack \/ TruncateBackFails \/ TruncateBackPanics \/ NoTruncate
  \/ WriteEntry \/ WriteRefused \/ SaveStateOfWriter
  \/ SnapUnchanged("writer") \/ SaveSnap("writer")
SnapStep == TruncateFront \/ TruncateFrontFails \/ SaveStateOfSnap
ClockStep == SnapUnchanged("clock") \/ SaveSnap("clock")
RaftStep ==
  \/ Start
  \/ Vote
  \/ \E i \in 1..MaxIndex : Compact(i) \/ \E e \in Contents[i] : Replace(i, e) \/ Install(i, e)

Next == Boot \/ Crash \/ CrashInside \/ RaftStep \/ Send \/ WriterStep \/ SnapStep \/ ClockStep

\* The goroutines of MakePersister run, a Save that can send does, and a node that
\* is down is started again.  The clock need not tick.
Fairness == WF_vars(Boot) /\ WF_vars(Send) /\ WF_vars(WriterStep) /\ WF_vars(SnapStep)
Spec == Init /\ [][Next]_vars /\ Fairness

-----------------------------------------------------------------------------
(* Properties *)

\* The log is written synchronously, the queue keeps to its capacity, and filter
\* finds a checksum for every stored index that it compares, unless the state file
\* and the log were torn apart.
TypeOK ==
  /\ wal.flushed = walLast
  /\ phase \in {"run", "down"} /\ history \subseteq {"replaced", "crashed", "exited", "torn"}
  /\ Len(entryCh) <= QueueCap
  /\ phase = "run" /\ "torn" \notin history => state.last - state.first + 1 <= Len(checkSum)

\* Whenever saveLogToDisk and saveSnapToDisk are not between two of their writes, a
\* crash leaves a disk that initFromDisk and ReadRaftState can read: the log holds
\* the whole range that the state file names, and the range begins after the
\* snapshot that Load finds.  Writers, clock and Save write the three in turns.
\* QuickApply may fail all the same: the commitIndex that Save has written may be
\* beyond the entries, which were only queued.
StartReads ==
  phase = "run" /\ holder.who \notin {"writer", "clock"} /\ "torn" \notin history =>
    Readable(loadState) /\ (stateFile # <<Blank>> => Load = loadState.first - 1)

\* An entry is on disk only at the index at which Raft once had it, although filter
\* decides by state and checksums that lag behind the queue, and the queue holds
\* entries of logs that Raft has replaced meanwhile; and Raft starts with entries
\* that it once had at their indexes, although snapshot, range and log are read from
\* three files, unless these were torn apart.
StoredWasSaved ==
  /\ \A i \in wal.first..walLast : <<i, WalEntry(i)>> \in saved
  /\ "torn" \notin history =>
       \A i \in raft.base + 1..RaftLast(raft) : <<i, raft.log[i - raft.base]>> \in saved

OnDisk == \A i \in raft.base + 1..RaftLast(raft) : InWal(i) /\ WalEntry(i) = raft.log[i - raft.base]

\* Two indexes were given the same entry, which a retried command can cause.
Repeated == \E p, q \in saved : p[1] # q[1] /\ p[2] = q[2]

\* Save holds ps.mu and waits for a place in the queue, saveLogToDisk holds an entry
\* of it and waits for ps.mu.
Stuck == holder.who = "save" /\ item # NoItem /\ Len(entryCh) = QueueCap

\* After a crash Raft's snapshot may end beyond the log on disk, whose next entries
\* were lost with the queue: the log refuses every later one.
Outrun == "crashed" \in history /\ raft.base > walLast

\* While Raft only appends, commits and compacts, saveLogToDisk brings everything
\* to the disk, also after a restart with the checksums rebuilt by initFromDisk:
\* filter queues what is neither stored nor committed, and nothing it leaves out is
\* missing in the end.  An entry that replaces another may stay unwritten; so may
\* one that equals the entry Sums indexes before it, because the checksums of a
\* log that was empty at start lie Sums places too late; and so may everything once
\* the queue was full, or a crash found the snapshot ahead of the log.
CatchesUp ==
  []<>(\/ history \ {"crashed"} # {} \/ phase = "down" \/ Repeated \/ Stuck \/ Outrun
       \/ OnDisk)
=============================================================================
