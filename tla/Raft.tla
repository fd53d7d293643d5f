-------------------------------- MODULE Raft --------------------------------
(***************************************************************************)
(* The Raft node of src/raft/raft.go: elections, log replication,          *)
(* snapshots, the read-index call, and crash, restart and start-up.        *)
(*                                                                         *)
(* Atomicity follows rf.mu: one action is one critical section, so a       *)
(* goroutine that unlocks and locks again (collectVote, InstallSnapshot,   *)
(* SendCommitIndex) is several actions.  A remote call is a record of      *)
(* rpcs that moves through the stages "call" (request in flight), "reply"  *)
(* (answer in flight) and, for a vote, "tally" (the answer was accepted    *)
(* and the goroutine waits for rf.mu again).  Calls are lost, delayed and  *)
(* reordered; they are not duplicated.                                     *)
(*                                                                         *)
(* A slice index out of range, or a nil entry dereferenced, ends the       *)
(* process: these are the disjuncts of Panic.                              *)
(***************************************************************************)
EXTENDS Integers, Sequences, FiniteSets

CONSTANTS
  Server,       \* node ids, numbers as in the configuration
  Value,        \* client commands
  NoCmd,        \* the nil command of a placeholder entry
  Elections,    \* bound: <<s, t>>, server s may start the election of term t
  Crashing,     \* bound: the servers that may crash at any time
  Readers,      \* bound: the servers asked to serve a read
  SnapshotAt,   \* bound: the indexes at which the service takes a snapshot
  MaxIndex,     \* bound: no command is appended beyond this index
  MaxInFlight,  \* bound: no heartbeat is sent while this many replication calls run
  MaxRestart    \* bound: restarts after a crash or a panic

ASSUME ServerAssumption == Server \subseteq Nat /\ IsFiniteSet(Server)
ASSUME CommandAssumption == NoCmd \notin Value
ASSUME BoundAssumption ==
  /\ Elections \subseteq Server \X Nat /\ Crashing \subseteq Server /\ Readers \subseteq Server
  /\ SnapshotAt \subseteq Nat
  /\ MaxIndex \in Nat /\ MaxInFlight \in Nat /\ MaxRestart \in Nat

VARIABLES
  phase,              \* "down", "boot" (serving, nothing loaded yet) or "run"
  currentTerm, votedFor, role, voteCount, leaderIdx,
  log,                \* log[s][1] is the code's rf.log[0], the placeholder
  lastIncludedIndex, lastIncludedTerm, commitIndex,
  nextIndex, matchIndex,   \* Go maps: Absent is a missing key
  disk,               \* what persist() last saved
  electionDue,        \* servers with a StartElection goroutine waiting for rf.mu
  snapDue,            \* <<s, p>>: sendInstallSnapshotToServer(p) of s waiting for rf.mu
  installing,         \* InstallSnapshot handlers between Unlock and Lock
  reading,            \* reading[s]: stage and answer of the read-index call of s;
                      \* floor: what the nodes had committed when it asked,
                      \* current: CurrentLeader answered
  rpcs,               \* remote calls
  restarts,
  \* What has happened, for the properties only:
  ballots,            \* every vote granted
  elected,            \* every election won
  counted,            \* counted[s]: the voters behind voteCount[s]
  flaws               \* which of the steps of Flaw have been taken

nodeVars == <<currentTerm, votedFor, role, voteCount, leaderIdx>>
logVars == <<log, lastIncludedIndex, lastIncludedTerm, commitIndex>>
peerVars == <<nextIndex, matchIndex>>
callVars == <<electionDue, snapDue, installing, reading>>
ghostVars == <<ballots, elected, counted, flaws>>
vars == <<phase, nodeVars, logVars, peerVars, disk, callVars, rpcs, restarts, ghostVars>>

NoVote == -1
Absent == -1
Role == {"Follower", "Candidate", "Leader"}

(***************************************************************************)
(* Steps of the code after which a safety property of Raft may be lost.    *)
(* A property below that names some of them holds until one is taken:      *)
(*   staleVote    collectVote counts a vote given in an earlier term       *)
(*   termLift     SendCommitIndex raises the term of a candidate or leader *)
(*   bootInstall  InstallSnapshot is served before startWork has loaded    *)
(*                the persisted vote                                       *)
(*   bootTerm     startWork gives the placeholder entry an index as its term *)
(*   overCommit   AppendEntries commits more than the leader vouched for   *)
(*   shift        InstallSnapshot without a matching entry leaves the      *)
(*                entry one place too far to the right                     *)
(*   tornState    a crash finds the state file truncated and not yet       *)
(*                written again: term and vote are lost                    *)
(*   lostEntries  a crash finds saved entries in the persister's queue     *)
(***************************************************************************)
Flaw == {"staleVote", "termLift", "bootInstall", "bootTerm", "overCommit", "shift",
         "tornState", "lostEntries"}
\* The steps after which a node may have forgotten the vote that it gave.
Forgetting == {"bootInstall", "tornState"}

MaxOf(a, b) == IF a >= b THEN a ELSE b
MinOf(a, b) == IF a <= b THEN a ELSE b

\* rf.peers has every node but this one, so this is len(rf.peers)/2.
Half == (Cardinality(Server) - 1) \div 2
Peers(s) == Server \ {s}

Entry == [term : Int, cmd : Value \cup {NoCmd}]
NilEntry == [term |-> -1, cmd |-> NoCmd]     \* a nil pointer in rf.log
Placeholder(t) == [term |-> t, cmd |-> NoCmd]

LogEnd(s) == lastIncludedIndex[s] + Len(log[s])
LastIndex(s) == LogEnd(s) - 1
LastTerm(s) == log[s][Len(log[s])].term
InLog(s, i) == lastIncludedIndex[s] <= i /\ i < LogEnd(s)
At(s, i) == log[s][i - lastIncludedIndex[s] + 1]
\* Reading the term of entry i panics: no such entry, or a nil one.
BadIndex(s, i) == InLog(s, i) => At(s, i) = NilEntry

NextOf(s, p) == IF nextIndex[s][p] = Absent THEN 0 ELSE nextIndex[s][p]
MatchOf(s, p) == IF matchIndex[s][p] = Absent THEN 0 ELSE matchIndex[s][p]

NoRead == [stage |-> "idle", term |-> 0, commit |-> 0, floor |-> {}, current |-> FALSE]

\* The answer to call m replaces it, unless the caller's process has died.
Answered(m, reply) == (rpcs \ {m}) \cup (IF m.live THEN {reply} ELSE {})
Replicating == {m \in rpcs : m.kind # "vote"}
Room == Cardinality(Replicating \cup installing) + Cardinality(snapDue) < MaxInFlight
Send(m) == rpcs' = rpcs \cup {m}

\* Slip: persist() leaves the saved vote as it was.
PersistNoVote(s, c) ==
  disk' = [disk EXCEPT ![s] =
             IF log'[s] = << >> THEN @
             ELSE [term |-> currentTerm'[s], vote |-> @.vote, commit |-> c,
                   lastIndex |-> lastIncludedIndex'[s], lastTerm |-> lastIncludedTerm'[s],
                   base |-> lastIncludedIndex'[s], entries |-> Tail(log'[s])]]

\* persist(): nothing is saved while the log is empty.  The entries are saved
\* without the placeholder; base is FirstIndex - 1 in the state file.  c is
\* rf.commitIndex at the time of the call.
Persist(s, c) ==
  disk' = [disk EXCEPT ![s] =
             IF log'[s] = << >> THEN @
             ELSE [term |-> currentTerm'[s], vote |-> votedFor'[s], commit |-> c,
                   lastIndex |-> lastIncludedIndex'[s], lastTerm |-> lastIncludedTerm'[s],
                   base |-> lastIncludedIndex'[s], entries |-> Tail(log'[s])]]
-----------------------------------------------------------------------------
NewDisk == [term |-> 0, vote |-> NoVote, commit |-> 0, lastIndex |-> 0, lastTerm |-> 0,
            base |-> 0, entries |-> << >>]

\* Every node has loaded an empty disk and finished startWork.
Init ==
  /\ phase = [s \in Server |-> "run"]
  /\ currentTerm = [s \in Server |-> 0]
  /\ votedFor = [s \in Server |-> NoVote]
  /\ role = [s \in Server |-> "Follower"]
  /\ voteCount = [s \in Server |-> 0]
  /\ leaderIdx = [s \in Server |-> 0]
  /\ log = [s \in Server |-> <<Placeholder(0)>>]
  /\ lastIncludedIndex = [s \in Server |-> 0]
  /\ lastIncludedTerm = [s \in Server |-> 0]
  /\ commitIndex = [s \in Server |-> 0]
  /\ nextIndex = [s \in Server |-> [p \in Server |-> Absent]]
  /\ matchIndex = [s \in Server |-> [p \in Server |-> Absent]]
  /\ disk = [s \in Server |-> NewDisk]
  /\ electionDue = {} /\ snapDue = {} /\ installing = {} /\ rpcs = {}
  /\ reading = [s \in Server |-> NoRead]
  /\ restarts = 0
  /\ ballots = {} /\ elected = {} /\ flaws = {}
  /\ counted = [s \in Server |-> {}]
-----------------------------------------------------------------------------
(* Crash, panic, restart *)

\* The calls that the process of s is waiting for are answered to nobody.
Orphaned(calls, s) ==
  {IF m.from = s THEN [m EXCEPT !.live = FALSE] ELSE m :
     m \in {x \in calls : ~(x.from = s /\ x.stage # "call")}}

\* The process of s ends: all it keeps in memory is back to what Make() sets.
Die(s) ==
  /\ phase' = [phase EXCEPT ![s] = "down"]
  /\ currentTerm' = [currentTerm EXCEPT ![s] = 0]
  /\ votedFor' = [votedFor EXCEPT ![s] = NoVote]
  /\ role' = [role EXCEPT ![s] = "Follower"]
  /\ voteCount' = [voteCount EXCEPT ![s] = 0]
  /\ leaderIdx' = [leaderIdx EXCEPT ![s] = 0]
  /\ log' = [log EXCEPT ![s] = << >>]
  /\ lastIncludedIndex' = [lastIncludedIndex EXCEPT ![s] = 0]
  /\ lastIncludedTerm' = [lastIncludedTerm EXCEPT ![s] = 0]
  /\ commitIndex' = [commitIndex EXCEPT ![s] = 0]
  /\ nextIndex' = [nextIndex EXCEPT ![s] = [p \in Server |-> Absent]]
  /\ matchIndex' = [matchIndex EXCEPT ![s] = [p \in Server |-> Absent]]
  /\ electionDue' = electionDue \ {s}
  /\ snapDue' = {d \in snapDue : d[1] # s}
  /\ installing' = Orphaned({m \in installing : m.to # s}, s)
  /\ reading' = [reading EXCEPT ![s] = NoRead]
  /\ counted' = [counted EXCEPT ![s] = {}]
  /\ UNCHANGED <<ballots, elected>>

\* Of the entries that persist() saved, those still in the persister's queue are lost.
Crash(s) ==
  /\ phase[s] # "down" /\ s \in Crashing /\ restarts < MaxRestart
  /\ Die(s)
  /\ rpcs' = Orphaned(rpcs, s)
  /\ \E n \in 0..Len(disk[s].entries) :
       /\ disk' = [disk EXCEPT ![s].entries = SubSeq(@, 1, n)]
       /\ flaws' = IF n < Len(disk[s].entries) THEN flaws \cup {"lostEntries"} ELSE flaws
  /\ UNCHANGED restarts

\* What is read of an empty state file, and of the snapshot, which has its own.
Torn(d) ==
  [term |-> 0, vote |-> NoVote, commit |-> 0, lastIndex |-> d.lastIndex, lastTerm |-> d.lastTerm,
   base |-> 0, entries |-> << >>]

\* A crash inside saveState, which truncates the file before it writes.
CrashInside(s) ==
  /\ phase[s] = "run" /\ s \in Crashing /\ restarts < MaxRestart
  /\ Die(s)
  /\ rpcs' = Orphaned(rpcs, s)
  /\ disk' = [disk EXCEPT ![s] = Torn(@)]
  /\ flaws' = flaws \cup {"tornState"}
  /\ UNCHANGED restarts

\* Make(): the node serves its RPCs at once and calls startWork 3 s later.
Make(s) ==
  /\ phase[s] = "down" /\ restarts < MaxRestart
  /\ phase' = [phase EXCEPT ![s] = "boot"]
  /\ restarts' = restarts + 1
  /\ UNCHANGED <<nodeVars, logVars, peerVars, disk, callVars, rpcs, ghostVars>>

\* The index base after readSnapshot: unchanged when no snapshot was saved.
BootBase(s) ==
  IF disk[s].lastIndex > 0 THEN disk[s].lastIndex ELSE lastIncludedIndex[s]
\* QuickApply reads entries up to the saved commitIndex.
StartWorkPanics(s) ==
  phase[s] = "boot" /\ disk[s].commit > BootBase(s) + Len(disk[s].entries)

\* startWork(): readPersist, readSnapshot.  ReadRaftState gives the placeholder
\* entry FirstIndex-1, an index, as its term.
startWork(s) ==
  /\ phase[s] = "boot" /\ ~StartWorkPanics(s)
  /\ phase' = [phase EXCEPT ![s] = "run"]
  /\ votedFor' = [votedFor EXCEPT ![s] = disk[s].vote]
  /\ currentTerm' = [currentTerm EXCEPT ![s] = disk[s].term]
  /\ commitIndex' = [commitIndex EXCEPT ![s] = disk[s].commit]
  /\ log' = [log EXCEPT ![s] = <<Placeholder(disk[s].base)>> \o disk[s].entries]
  /\ lastIncludedIndex' = [lastIncludedIndex EXCEPT ![s] = BootBase(s)]
  /\ lastIncludedTerm' = [lastIncludedTerm EXCEPT ![s] =
                            IF disk[s].lastIndex > 0 THEN disk[s].lastTerm ELSE @]
  /\ flaws' = IF disk[s].base # disk[s].lastTerm THEN flaws \cup {"bootTerm"} ELSE flaws
  /\ UNCHANGED <<role, voteCount, leaderIdx, peerVars, disk, callVars, rpcs, restarts, ballots,
                 elected, counted>>
-----------------------------------------------------------------------------
(* Elections *)

\* One pass of the ticker loop whose timer has run out: go rf.StartElection()
ticker(s) ==
  /\ phase[s] = "run" /\ role[s] # "Leader" /\ <<s, currentTerm[s] + 1>> \in Elections
  /\ electionDue' = electionDue \cup {s}
  /\ UNCHANGED <<phase, nodeVars, logVars, peerVars, disk, snapDue, installing, reading,
                 rpcs, restarts, ghostVars>>

\* StartElection() does not look at the role again.
StartElection(s) ==
  /\ s \in electionDue /\ <<s, currentTerm[s] + 1>> \in Elections
  /\ electionDue' = electionDue \ {s}
  /\ currentTerm' = [currentTerm EXCEPT ![s] = @ + 1]
  /\ role' = [role EXCEPT ![s] = "Candidate"]
  /\ votedFor' = [votedFor EXCEPT ![s] = s]
  /\ voteCount' = [voteCount EXCEPT ![s] = 1]
  /\ rpcs' = rpcs \cup
       {[kind |-> "vote", stage |-> "call", from |-> s, to |-> p, live |-> TRUE,
         term |-> currentTerm[s] + 1, lastIndex |-> LastIndex(s), lastTerm |-> LastTerm(s)] :
          p \in Peers(s)}
  /\ ballots' = ballots \cup {[term |-> currentTerm[s] + 1, voter |-> s, cand |-> s]}
  /\ counted' = [counted EXCEPT ![s] = {s}]
  /\ UNCHANGED <<phase, leaderIdx, logVars, peerVars, snapDue, installing, reading, restarts,
                 elected, flaws>>
  /\ Persist(s, commitIndex[s])

\* Slip: the vote already given in this term is forgotten.
VoteFreeAgain(m) == m.term >= currentTerm[m.to]
\* The voter's answer before it looks at the logs.
VoteFree(m) ==
  /\ m.term >= currentTerm[m.to]
  /\ m.term = currentTerm[m.to] => votedFor[m.to] \in {NoVote, m.from}
\* Slip: the length of the logs is not compared.
UpToDateByTerm(m) == m.lastTerm >= LastTerm(m.to)
UpToDate(m) ==
  \/ m.lastTerm > LastTerm(m.to)
  \/ m.lastTerm = LastTerm(m.to) /\ m.lastIndex >= LastIndex(m.to)
RequestVotePanics(m) == VoteFree(m) /\ log[m.to] = << >>

RequestVote(m) ==
  LET s == m.to
      newer == m.term > currentTerm[s]
      grant == VoteFree(m) /\ UpToDate(m)
  IN /\ m.kind = "vote" /\ m.stage = "call" /\ phase[s] # "down"
     /\ ~RequestVotePanics(m)
     /\ currentTerm' = [currentTerm EXCEPT ![s] = MaxOf(@, m.term)]
     /\ votedFor' = [votedFor EXCEPT ![s] =
                       IF grant THEN m.from ELSE IF newer THEN NoVote ELSE @]
     /\ role' = [role EXCEPT ![s] = IF grant \/ newer THEN "Follower" ELSE @]
     /\ rpcs' = Answered(m, [kind |-> "vote", stage |-> "reply", from |-> m.from, to |-> s,
                             live |-> TRUE, term |-> m.term,
                             rterm |-> MaxOf(currentTerm[s], m.term), granted |-> grant])
     /\ ballots' = IF grant
                   THEN ballots \cup {[term |-> m.term, voter |-> s, cand |-> m.from]}
                   ELSE ballots
     /\ UNCHANGED <<phase, voteCount, leaderIdx, logVars, peerVars, callVars, restarts,
                    elected, counted, flaws>>
     /\ IF grant \/ newer THEN Persist(s, commitIndex[s]) ELSE UNCHANGED disk

\* The part of procVoteAnswer after the call: drop the answer of another election.
procVoteAnswer(m) ==
  LET s == m.from
      abandoned == role[s] # "Candidate" \/ m.term # currentTerm[s]
      outdated == ~abandoned /\ m.rterm > currentTerm[s]
  IN /\ m.kind = "vote" /\ m.stage = "reply"
     /\ currentTerm' = [currentTerm EXCEPT ![s] = IF outdated THEN m.rterm ELSE @]
     /\ votedFor' = [votedFor EXCEPT ![s] = IF outdated THEN NoVote ELSE @]
     /\ role' = [role EXCEPT ![s] = IF outdated THEN "Follower" ELSE @]
     /\ rpcs' = (rpcs \ {m}) \cup
                  (IF ~abandoned /\ m.granted
                   THEN {[kind |-> "vote", stage |-> "tally", from |-> s, to |-> m.to,
                          live |-> TRUE, term |-> m.term]}
                   ELSE {})
     /\ UNCHANGED <<phase, voteCount, leaderIdx, logVars, peerVars, callVars, restarts,
                    ghostVars>>
     /\ IF outdated THEN Persist(s, commitIndex[s]) ELSE UNCHANGED disk

\* The loop of collectVote runs while i < len(nextIndex), and adds the keys it
\* passes: it resets every key up to the largest one present, and no other.
ResetKeys(s) == {k \in Server : \E p \in Server : nextIndex[s][p] # Absent /\ k <= p}

\* The rest of collectVote, under rf.mu again.  Neither the term nor the role
\* is the one procVoteAnswer saw.  outTime: the election has timed out.
collectVote(m, outTime) ==
  LET s == m.from
      late == voteCount[s] > Half
      wins == ~late /\ voteCount[s] + 1 > Half /\ role[s] = "Candidate" /\ ~outTime
  IN /\ m.kind = "vote" /\ m.stage = "tally"
     /\ rpcs' = rpcs \ {m}
     /\ voteCount' = [voteCount EXCEPT ![s] = IF late THEN @ ELSE @ + 1]
     /\ counted' = [counted EXCEPT ![s] = IF late THEN @ ELSE @ \cup {m.to}]
     /\ flaws' = IF ~late /\ role[s] = "Candidate" /\ m.term # currentTerm[s]
                 THEN flaws \cup {"staleVote"} ELSE flaws
     /\ role' = [role EXCEPT ![s] = IF wins THEN "Leader" ELSE @]
     /\ leaderIdx' = [leaderIdx EXCEPT ![s] = IF wins THEN s ELSE @]
     /\ nextIndex' = [nextIndex EXCEPT ![s] =
          [p \in Server |-> IF wins /\ p \in ResetKeys(s) THEN LogEnd(s) ELSE @[p]]]
     /\ matchIndex' = [matchIndex EXCEPT ![s] =
          [p \in Server |-> IF wins /\ p \in ResetKeys(s) THEN lastIncludedIndex[s] ELSE @[p]]]
     /\ elected' = IF wins THEN elected \cup {[term |-> currentTerm[s], leader |-> s]}
                   ELSE elected
     /\ UNCHANGED <<phase, currentTerm, votedFor, logVars, disk, callVars, restarts, ballots>>
-----------------------------------------------------------------------------
(* Log replication *)

Start(s, v) ==
  /\ phase[s] = "run" /\ role[s] = "Leader" /\ LastIndex(s) < MaxIndex
  /\ log' = [log EXCEPT ![s] = Append(@, [term |-> currentTerm[s], cmd |-> v])]
  /\ UNCHANGED <<phase, nodeVars, lastIncludedIndex, lastIncludedTerm, commitIndex, peerVars,
                 callVars, rpcs, restarts, ghostVars>>
  /\ Persist(s, commitIndex[s])

AppendCall(s, p, entries, awaited) ==
  [kind |-> "append", stage |-> "call", from |-> s, to |-> p, live |-> awaited,
   term |-> currentTerm[s], prev |-> NextOf(s, p) - 1,
   prevTerm |-> At(s, NextOf(s, p) - 1).term, entries |-> entries,
   commit |-> commitIndex[s]]

\* One pass of the heartbeat loop for one peer.  The loop starts a goroutine per
\* peer; that the others' calls may be lost makes the passes for single peers
\* stand for the pass over all of them.
HeartbeatPanics(s, p) ==
  NextOf(s, p) - 1 >= lastIncludedIndex[s] /\ BadIndex(s, NextOf(s, p) - 1)

StartSendAppendEntries(s, p) ==
  /\ phase[s] = "run" /\ role[s] = "Leader" /\ p \in Peers(s) /\ Room
  /\ \/ /\ NextOf(s, p) - 1 < lastIncludedIndex[s]
        /\ snapDue' = snapDue \cup {<<s, p>>}
        /\ UNCHANGED rpcs
     \/ /\ NextOf(s, p) - 1 >= lastIncludedIndex[s] /\ ~HeartbeatPanics(s, p)
        /\ Send(AppendCall(s, p, SubSeq(log[s], NextOf(s, p) - lastIncludedIndex[s] + 1,
                                        Len(log[s])), TRUE))
        /\ UNCHANGED snapDue
  /\ UNCHANGED <<phase, nodeVars, logVars, peerVars, disk, electionDue, installing, reading,
                 restarts, ghostVars>>

\* The heartbeat before a leader's read: no entries, and its answer only counts
\* for the read.
BeatPanics(s, p) == BadIndex(s, NextOf(s, p) - 1)
SingleHeartBeat(s, p) ==
  /\ phase[s] = "run" /\ role[s] = "Leader" /\ s \in Readers /\ p \in Peers(s)
  /\ ~BeatPanics(s, p) /\ Room
  /\ Send(AppendCall(s, p, << >>, FALSE))
  /\ UNCHANGED <<phase, nodeVars, logVars, peerVars, disk, callVars, restarts, ghostVars>>

\* The first index of the run of entries with the term of entry i.
FirstOfTerm(s, i) ==
  CHOOSE j \in (lastIncludedIndex[s] + 1)..(i + 1) :
    /\ \A k \in j..i : At(s, k).term = At(s, i).term
    /\ j = lastIncludedIndex[s] + 1 \/ At(s, j - 1).term # At(s, i).term

\* Slip: the term of the entry before the new ones is not compared.
AppendMismatchNever(m) == FALSE
AppendMissing(m) == m.prev >= LogEnd(m.to)
AppendInSnapshot(m) == m.prev < lastIncludedIndex[m.to]
AppendMismatch(m) ==
  /\ ~AppendMissing(m) /\ ~AppendInSnapshot(m) /\ commitIndex[m.to] # m.prev
  /\ At(m.to, m.prev).term # m.prevTerm
AppendConflict(m) == AppendMissing(m) \/ AppendInSnapshot(m) \/ AppendMismatch(m)

\* Slip: existing entries always stay.
MergeKeeps(s, prev, entries) ==
  LET have == LogEnd(s) - 1 - prev
  IN IF have >= Len(entries) THEN log[s] ELSE log[s] \o SubSeq(entries, have + 1, Len(entries))

\* Existing entries stay until one of another term is met; the rest of the
\* message replaces everything from there on.
Merge(s, prev, entries) ==
  LET place(k) == prev - lastIncludedIndex[s] + k
      differs == {k \in 1..Len(entries) : \/ place(k) = Len(log[s])
                                          \/ /\ place(k) < Len(log[s])
                                             /\ log[s][place(k) + 1].term # entries[k].term}
      first == CHOOSE k \in differs : \A j \in differs : k <= j
  IN IF differs = {} THEN log[s]
     ELSE SubSeq(log[s], 1, place(first)) \o SubSeq(entries, first, Len(entries))

\* Slip: the index after the last new entry is taken for matched.
AppendReplyNext(m, rterm, success, xterm, xindex, xlen) ==
  [kind |-> "append", stage |-> "reply", from |-> m.from, to |-> m.to, live |-> TRUE,
   term |-> m.term, match |-> m.prev + Len(m.entries) + 1, rterm |-> rterm,
   success |-> success, xterm |-> xterm, xindex |-> xindex, xlen |-> xlen]

AppendReply(m, rterm, success, xterm, xindex, xlen) ==
  [kind |-> "append", stage |-> "reply", from |-> m.from, to |-> m.to, live |-> TRUE,
   term |-> m.term, match |-> m.prev + Len(m.entries), rterm |-> rterm,
   success |-> success, xterm |-> xterm, xindex |-> xindex, xlen |-> xlen]

\* The log line of a stale call, and the term check, read log entries.
AppendPanics(m) ==
  \/ m.term < currentTerm[m.to] /\ log[m.to] = << >>
  \/ /\ m.term >= currentTerm[m.to]
     /\ ~AppendMissing(m) /\ ~AppendInSnapshot(m) /\ commitIndex[m.to] # m.prev
     /\ At(m.to, m.prev) = NilEntry

AppendRefused(m) ==
  LET s == m.to
      stale == m.term < currentTerm[s]
      newer == m.term > currentTerm[s]
      reply == IF stale THEN AppendReply(m, currentTerm[s], FALSE, 0, 0, 0)
               ELSE IF AppendMissing(m) THEN AppendReply(m, m.term, FALSE, -1, 0, LogEnd(s))
               ELSE IF AppendInSnapshot(m)
                 THEN AppendReply(m, m.term, FALSE, -1, 0, lastIncludedIndex[s] + 1)
               ELSE AppendReply(m, m.term, FALSE, At(s, m.prev).term,
                                FirstOfTerm(s, m.prev), LogEnd(s))
  IN /\ stale \/ AppendConflict(m)
     /\ currentTerm' = [currentTerm EXCEPT ![s] = MaxOf(@, m.term)]
     /\ votedFor' = [votedFor EXCEPT ![s] = IF newer THEN NoVote ELSE @]
     /\ role' = [role EXCEPT ![s] = IF newer THEN "Follower" ELSE @]
     /\ rpcs' = Answered(m, reply)
     /\ UNCHANGED <<leaderIdx, logVars, flaws>>
     /\ IF newer THEN Persist(s, commitIndex[s]) ELSE UNCHANGED disk

\* A candidate of the same term stays a candidate, and a leader ignores the
\* entries.  The state is saved before commitIndex moves.
AppendAccepted(m) ==
  LET s == m.to
      newer == m.term > currentTerm[s]
      leads == role[s] = "Leader" /\ ~newer
      moves == m.commit > commitIndex[s]
  IN /\ m.term >= currentTerm[s] /\ ~AppendConflict(m)
     /\ currentTerm' = [currentTerm EXCEPT ![s] = m.term]
     /\ votedFor' = [votedFor EXCEPT ![s] = IF newer THEN NoVote ELSE @]
     /\ role' = [role EXCEPT ![s] = IF newer THEN "Follower" ELSE @]
     /\ leaderIdx' = [leaderIdx EXCEPT ![s] = m.from]
     /\ log' = [log EXCEPT ![s] = IF leads THEN @ ELSE Merge(s, m.prev, m.entries)]
     /\ commitIndex' = [commitIndex EXCEPT ![s] =
          IF moves THEN MaxOf(m.commit, lastIncludedIndex[s] + Len(log'[s]) - 1) ELSE @]
     /\ flaws' = IF moves /\ commitIndex'[s] > MinOf(m.commit, m.prev + Len(m.entries))
                 THEN flaws \cup {"overCommit"} ELSE flaws
     /\ rpcs' = Answered(m, AppendReply(m, m.term, TRUE, 0, lastIncludedIndex[s], 0))
     /\ UNCHANGED <<lastIncludedIndex, lastIncludedTerm>>
     /\ Persist(s, commitIndex[s])

AppendEntries(m) ==
  /\ m.kind = "append" /\ m.stage = "call" /\ phase[m.to] # "down"
  /\ ~AppendPanics(m)
  /\ AppendRefused(m) \/ AppendAccepted(m)
  /\ UNCHANGED <<phase, voteCount, peerVars, callVars, restarts, ballots, elected, counted>>

\* Slip: the leader's own log is enough to commit.
CommitPointEarly(s, match) == MaxOf(commitIndex[s], LastIndex(s))
\* Slip: the loop stops one index too low.
CommitPointBelow(s, match) == LastIndex(s) - 1

\* The commit loop, after a success, with matchIndex already updated to match:
\* the last entry of this term that enough peers have, or else commitIndex; but
\* a log that ends before commitIndex pulls commitIndex back to its end.
CommitPoint(s, match) ==
  LET votes(n) == 1 + Cardinality({p \in Peers(s) : /\ match[p] >= n
                                                    /\ At(s, n).term = currentTerm[s]})
      enough == {n \in (commitIndex[s] + 1)..LastIndex(s) : votes(n) > Half}
  IN IF LastIndex(s) <= commitIndex[s] THEN LastIndex(s)
     ELSE IF enough = {} THEN commitIndex[s]
     ELSE CHOOSE n \in enough : \A k \in enough : n >= k

\* Where the search for the follower's conflicting term stops.  It compares with
\* the term of the reply, not with the conflicting one.
ConflictSearch(s, m) ==
  LET from == MaxOf(NextOf(s, m.to) - 1, lastIncludedIndex[s])
  IN CHOOSE i \in lastIncludedIndex[s]..from :
       /\ i = lastIncludedIndex[s] \/ At(s, i).term <= m.rterm
       /\ \A k \in (i + 1)..from : At(s, k).term > m.rterm

\* A short log is compared with the term, not the index, of the snapshot.
NextAfterConflict(s, m) ==
  LET base == lastIncludedIndex[s]
      found == At(s, ConflictSearch(s, m)).term
  IN IF m.xterm = -1 THEN (IF lastIncludedTerm[s] >= m.xlen THEN base ELSE m.xlen)
     ELSE IF found > m.rterm THEN base
     ELSE IF found = m.rterm THEN ConflictSearch(s, m) + 1
     ELSE IF m.xindex <= base THEN base ELSE m.xindex

AppendReplyPanics(m) ==
  LET s == m.from
      from == MaxOf(NextOf(s, m.to) - 1, lastIncludedIndex[s])
  IN /\ m.term = currentTerm[s] /\ ~m.success /\ m.rterm = currentTerm[s]
     /\ role[s] = "Leader" /\ m.xterm # -1
     /\ from <= LastIndex(s) => At(s, ConflictSearch(s, m)) = NilEntry

AppendReplySuccess(m) ==
  LET s == m.from
      match == [p \in Server |-> IF p = m.to THEN MaxOf(MatchOf(s, p), m.match)
                                 ELSE MatchOf(s, p)]
  IN /\ m.term = currentTerm[s] /\ m.success
     /\ matchIndex' = [matchIndex EXCEPT ![s][m.to] = match[m.to]]
     /\ nextIndex' = [nextIndex EXCEPT ![s][m.to] = match[m.to] + 1]
     /\ snapDue' = IF lastIncludedIndex[s] > m.xindex THEN snapDue \cup {<<s, m.to>>}
                   ELSE snapDue
     /\ commitIndex' = [commitIndex EXCEPT ![s] = CommitPoint(s, match)]
     /\ UNCHANGED <<currentTerm, votedFor, role, disk>>

AppendReplyOutdated(m) ==
  LET s == m.from
  IN /\ m.term = currentTerm[s] /\ ~m.success /\ m.rterm > currentTerm[s]
     /\ currentTerm' = [currentTerm EXCEPT ![s] = m.rterm]
     /\ votedFor' = [votedFor EXCEPT ![s] = NoVote]
     /\ role' = [role EXCEPT ![s] = "Follower"]
     /\ UNCHANGED <<peerVars, snapDue, commitIndex>>

AppendReplyConflict(m) ==
  LET s == m.from
  IN /\ m.term = currentTerm[s] /\ ~m.success /\ m.rterm = currentTerm[s]
     /\ role[s] = "Leader"
     /\ nextIndex' = [nextIndex EXCEPT ![s][m.to] = NextAfterConflict(s, m)]
     /\ UNCHANGED <<currentTerm, votedFor, role, matchIndex, snapDue, commitIndex, disk>>

AppendReplyIgnored(m) ==
  LET s == m.from
  IN /\ m.term = currentTerm[s] =>
          ~m.success /\ m.rterm <= currentTerm[s] /\ (m.rterm = currentTerm[s] => role[s] # "Leader")
     /\ UNCHANGED <<currentTerm, votedFor, role, peerVars, snapDue, commitIndex, disk>>

\* The part of sendAppendEntriesToServer after the call.
sendAppendEntriesToServer(m) ==
  /\ m.kind = "append" /\ m.stage = "reply" /\ ~AppendReplyPanics(m)
  /\ rpcs' = rpcs \ {m}
  /\ UNCHANGED <<phase, voteCount, leaderIdx, log, lastIncludedIndex, lastIncludedTerm,
                 electionDue, installing, reading, restarts, ghostVars>>
  /\ \/ AppendReplySuccess(m)
     \/ AppendReplyOutdated(m) /\ Persist(m.from, commitIndex[m.from])
     \/ AppendReplyConflict(m)
     \/ AppendReplyIgnored(m)
-----------------------------------------------------------------------------
(* Snapshots *)

\* The service has applied index and hands over a snapshot.
SnapshotPanics(s, index) ==
  /\ lastIncludedIndex[s] < index /\ index <= commitIndex[s] /\ index > LastIndex(s)
\* Slip: the entry that becomes the placeholder is dropped as well.
SnapshotDropsOne(s, index) ==
  /\ phase[s] = "run" /\ lastIncludedIndex[s] < index /\ index <= MinOf(commitIndex[s], LastIndex(s))
  /\ lastIncludedTerm' = [lastIncludedTerm EXCEPT ![s] = At(s, index).term]
  /\ log' = [log EXCEPT ![s] = SubSeq(@, index - lastIncludedIndex[s] + 2, Len(@))]
  /\ lastIncludedIndex' = [lastIncludedIndex EXCEPT ![s] = index]
  /\ UNCHANGED <<phase, nodeVars, commitIndex, peerVars, callVars, rpcs, restarts, ghostVars>>
  /\ Persist(s, commitIndex[s])
Snapshot(s, index) ==
  /\ phase[s] = "run" /\ ~SnapshotPanics(s, index)
  /\ lastIncludedIndex[s] < index /\ index <= commitIndex[s]
  /\ lastIncludedTerm' = [lastIncludedTerm EXCEPT ![s] = At(s, index).term]
  /\ log' = [log EXCEPT ![s] = SubSeq(@, index - lastIncludedIndex[s] + 1, Len(@))]
  /\ lastIncludedIndex' = [lastIncludedIndex EXCEPT ![s] = index]
  /\ UNCHANGED <<phase, nodeVars, commitIndex, peerVars, callVars, rpcs, restarts, ghostVars>>
  /\ Persist(s, commitIndex[s])

\* The part of sendInstallSnapshotToServer before the call.
SendSnapshotPanics(s) == role[s] = "Leader" /\ log[s][1] = NilEntry
sendInstallSnapshot(s, p) ==
  /\ <<s, p>> \in snapDue /\ ~SendSnapshotPanics(s)
  /\ snapDue' = snapDue \ {<<s, p>>}
  /\ \/ /\ role[s] = "Leader"
        /\ Send([kind |-> "install", stage |-> "call", from |-> s, to |-> p, live |-> TRUE,
                 term |-> currentTerm[s], lastIndex |-> lastIncludedIndex[s],
                 lastTerm |-> lastIncludedTerm[s], cmd |-> log[s][1].cmd])
     \/ role[s] # "Leader" /\ UNCHANGED rpcs
  /\ UNCHANGED <<phase, nodeVars, logVars, peerVars, disk, electionDue, installing, reading,
                 restarts, ghostVars>>

InstallReply(m, rterm) ==
  [kind |-> "install", stage |-> "reply", from |-> m.from, to |-> m.to, live |-> TRUE,
   rterm |-> rterm]

InstallOld(m) == m.lastIndex < lastIncludedIndex[m.to] \/ m.lastIndex < commitIndex[m.to]
InstallPanics(m) ==
  /\ m.term >= currentTerm[m.to] /\ ~InstallOld(m)
  /\ InLog(m.to, m.lastIndex) /\ At(m.to, m.lastIndex) = NilEntry

\* Stale term or old snapshot: the term may rise, and nothing is saved.
InstallRefused(m) ==
  LET s == m.to
      stale == m.term < currentTerm[s]
  IN /\ stale \/ InstallOld(m)
     /\ currentTerm' = [currentTerm EXCEPT ![s] = MaxOf(@, m.term)]
     /\ votedFor' = [votedFor EXCEPT ![s] = IF m.term > currentTerm[s] THEN NoVote ELSE @]
     /\ role' = [role EXCEPT ![s] = IF stale THEN @ ELSE "Follower"]
     /\ rpcs' = Answered(m, InstallReply(m, MaxOf(currentTerm[s], m.term)))
     /\ UNCHANGED <<logVars, installing, flaws>>

\* Up to the Unlock before the snapshot is sent to applyCh.
InstallTaken(m) ==
  LET s == m.to
      has == InLog(s, m.lastIndex) /\ At(s, m.lastIndex).term = m.lastTerm
  IN /\ m.term >= currentTerm[s] /\ ~InstallOld(m)
     /\ currentTerm' = [currentTerm EXCEPT ![s] = m.term]
     /\ votedFor' = [votedFor EXCEPT ![s] = IF m.term > currentTerm[s] THEN NoVote ELSE @]
     /\ role' = [role EXCEPT ![s] = "Follower"]
     /\ log' = [log EXCEPT ![s] =
          IF has THEN SubSeq(@, m.lastIndex - lastIncludedIndex[s] + 1, Len(@))
          ELSE <<NilEntry, [term |-> m.lastTerm, cmd |-> m.cmd]>>]
     /\ lastIncludedIndex' = [lastIncludedIndex EXCEPT ![s] = m.lastIndex]
     /\ lastIncludedTerm' = [lastIncludedTerm EXCEPT ![s] = m.lastTerm]
     /\ commitIndex' = [commitIndex EXCEPT ![s] = MaxOf(@, m.lastIndex)]
     /\ installing' = installing \cup {m}
     /\ rpcs' = rpcs \ {m}
     /\ flaws' = flaws \cup (IF has THEN {} ELSE {"shift"})
                       \cup (IF phase[s] = "boot" THEN {"bootInstall"} ELSE {})

InstallSnapshot(m) ==
  /\ m.kind = "install" /\ m.stage = "call" /\ phase[m.to] # "down"
  /\ ~InstallPanics(m)
  /\ InstallRefused(m) \/ InstallTaken(m)
  /\ UNCHANGED <<phase, voteCount, leaderIdx, peerVars, disk, electionDue, snapDue, reading,
                 restarts, ballots, elected, counted>>

\* After applyCh has taken the snapshot: Lock, persist, reply with the term of then.
InstallDone(m) ==
  /\ installing' = installing \ {m}
  /\ rpcs' = rpcs \cup (IF m.live THEN {InstallReply(m, m.term)} ELSE {})
  /\ UNCHANGED <<phase, nodeVars, logVars, peerVars, electionDue, snapDue, reading, restarts,
                 ghostVars>>
  /\ Persist(m.to, commitIndex[m.to])

\* The part of sendInstallSnapshotToServer after the call.
sendInstallSnapshotToServer(m) ==
  LET s == m.from
      outdated == m.rterm > currentTerm[s]
  IN /\ m.kind = "install" /\ m.stage = "reply"
     /\ currentTerm' = [currentTerm EXCEPT ![s] = MaxOf(@, m.rterm)]
     /\ votedFor' = [votedFor EXCEPT ![s] = IF outdated THEN NoVote ELSE @]
     /\ role' = [role EXCEPT ![s] = IF outdated THEN "Follower" ELSE @]
     /\ nextIndex' = [nextIndex EXCEPT ![s][m.to] =
          IF outdated THEN @ ELSE MaxOf(lastIncludedIndex[s] + 1, NextOf(s, m.to))]
     /\ rpcs' = rpcs \ {m}
     /\ UNCHANGED <<phase, voteCount, leaderIdx, logVars, matchIndex, callVars, restarts,
                    ghostVars>>
     /\ IF outdated THEN Persist(s, commitIndex[s]) ELSE UNCHANGED disk
-----------------------------------------------------------------------------
(* The read-index call of a follower *)

\* The leader of the highest term, once it has committed an entry of its own.
CurrentLeader(s) ==
  /\ role[s] = "Leader" /\ \A t \in Server : currentTerm[t] <= currentTerm[s]
  /\ lastIncludedIndex[s] < commitIndex[s] /\ InLog(s, commitIndex[s])
  /\ At(s, commitIndex[s]).term = currentTerm[s]

\* handleReadQue found this node not to be the leader.
AskRead(s) ==
  /\ phase[s] = "run" /\ s \in Readers /\ role[s] # "Leader" /\ reading[s] = NoRead
  /\ reading' = [reading EXCEPT ![s].stage = "asked", ![s].floor = {commitIndex[t] : t \in Server}]
  /\ UNCHANGED <<phase, nodeVars, logVars, peerVars, disk, electionDue, snapDue, installing,
                 rpcs, restarts, ghostVars>>

\* rf.mu is held from reading leaderIdx until the answer is back, so both are one
\* step of this node.  The node asked answers whether or not it leads.
GetCommitIndex(s) ==
  LET l == leaderIdx[s]
  IN /\ reading[s].stage = "asked" /\ l \in Peers(s) /\ phase[l] # "down"
     /\ reading' = [reading EXCEPT ![s].stage = "answered", ![s].term = currentTerm[l],
                                   ![s].commit = commitIndex[l],
                                   ![s].current = CurrentLeader(l)]
     /\ UNCHANGED <<phase, nodeVars, logVars, peerVars, disk, electionDue, snapDue, installing,
                    rpcs, restarts, ghostVars>>

\* The call failed, or a second went by.
ReadFails(s) ==
  /\ reading[s].stage = "asked"
  /\ reading' = [reading EXCEPT ![s] = NoRead]
  /\ UNCHANGED <<phase, nodeVars, logVars, peerVars, disk, electionDue, snapDue, installing,
                 rpcs, restarts, ghostVars>>

\* The answer is used under rf.mu again.  A term is compared with commitIndex, and
\* a newer term is taken over with neither vote nor role reset and nothing saved.
ReadRefused(s) ==
  reading[s].term < commitIndex[s] \/ reading[s].commit < commitIndex[s]
SendCommitIndex(s) ==
  LET r == reading[s]
      lifts == ~ReadRefused(s) /\ r.term > currentTerm[s]
  IN /\ r.stage = "answered"
     /\ currentTerm' = [currentTerm EXCEPT ![s] = IF lifts THEN r.term ELSE @]
     /\ reading' = [reading EXCEPT ![s] = NoRead]
     /\ flaws' = IF lifts /\ role[s] # "Follower" THEN flaws \cup {"termLift"} ELSE flaws
     /\ UNCHANGED <<phase, votedFor, role, voteCount, leaderIdx, logVars, peerVars, disk,
                    electionDue, snapDue, installing, rpcs, restarts, ballots, elected, counted>>
-----------------------------------------------------------------------------
(* The network, panics, and the system *)

\* A call or its answer is lost, or the call's second has run out.
Lose(m) ==
  /\ m.stage # "tally"
  /\ rpcs' = rpcs \ {m}
  /\ UNCHANGED <<phase, nodeVars, logVars, peerVars, disk, callVars, restarts, ghostVars>>

\* The handler of a call panics in the node that serves it.
HandlerPanics(m) ==
  /\ m.stage = "call"
  /\ \/ m.kind = "vote" /\ RequestVotePanics(m)
     \/ m.kind = "append" /\ AppendPanics(m)
     \/ m.kind = "install" /\ InstallPanics(m)

\* What persist() saves with the log, the snapshot and commitIndex of now.
Saved(s, term, vote) ==
  [term |-> term, vote |-> vote, commit |-> commitIndex[s],
   lastIndex |-> lastIncludedIndex[s], lastTerm |-> lastIncludedTerm[s],
   base |-> lastIncludedIndex[s], entries |-> Tail(log[s])]

\* A goroutine of the node panics.
NodePanics(s) ==
  \/ StartWorkPanics(s)
  \/ phase[s] = "run" /\ role[s] = "Leader" /\ \E p \in Peers(s) : HeartbeatPanics(s, p)
  \/ phase[s] = "run" /\ role[s] = "Leader" /\ s \in Readers
     /\ \E p \in Peers(s) : BeatPanics(s, p)
  \/ SendSnapshotPanics(s) /\ \E p \in Peers(s) : <<s, p>> \in snapDue
  \/ phase[s] = "run" /\ \E i \in SnapshotAt : SnapshotPanics(s, i)
  \/ reading[s].stage = "asked" /\ leaderIdx[s] \notin Peers(s)
  \/ \E m \in rpcs : /\ m.kind = "append" /\ m.stage = "reply" /\ m.from = s
                     /\ AppendReplyPanics(m)

\* AppendEntries has already saved a newer term when it panics.
Panic(s) ==
  /\ phase[s] # "down"
  /\ \/ \E m \in rpcs :
          /\ m.to = s /\ HandlerPanics(m)
          /\ rpcs' = Orphaned(rpcs \ {m}, s)
          /\ disk' = IF m.kind = "append" /\ m.term > currentTerm[s]
                     THEN [disk EXCEPT ![s] = Saved(s, m.term, NoVote)] ELSE disk
     \/ NodePanics(s) /\ rpcs' = Orphaned(rpcs, s) /\ UNCHANGED disk
  /\ Die(s)
  /\ UNCHANGED <<restarts, flaws>>

Next ==
  \/ \E s \in Server :
       \/ Crash(s) \/ CrashInside(s) \/ Panic(s) \/ Make(s) \/ startWork(s)
       \/ ticker(s) \/ StartElection(s)
       \/ AskRead(s) \/ GetCommitIndex(s) \/ ReadFails(s) \/ SendCommitIndex(s)
       \/ \E v \in Value : Start(s, v)
       \/ \E i \in SnapshotAt : Snapshot(s, i)
       \/ \E p \in Server : \/ StartSendAppendEntries(s, p) \/ SingleHeartBeat(s, p)
                            \/ sendInstallSnapshot(s, p)
  \/ \E m \in rpcs :
       \/ RequestVote(m) \/ procVoteAnswer(m)
       \/ \E outTime \in BOOLEAN : collectVote(m, outTime)
       \/ AppendEntries(m) \/ sendAppendEntriesToServer(m)
       \/ InstallSnapshot(m) \/ sendInstallSnapshotToServer(m)
       \/ Lose(m)
  \/ \E m \in installing : InstallDone(m)

Spec == Init /\ [][Next]_vars
-----------------------------------------------------------------------------
(* Types *)

Command == Value \cup {NoCmd}
Ballot == [term : Nat, voter : Server, cand : Server]

VoteCall ==
  [kind : {"vote"}, stage : {"call"}, from : Server, to : Server, live : BOOLEAN,
   term : Nat, lastIndex : Int, lastTerm : Int]
VoteReply ==
  [kind : {"vote"}, stage : {"reply"}, from : Server, to : Server, live : BOOLEAN,
   term : Nat, rterm : Nat, granted : BOOLEAN]
VoteTally ==
  [kind : {"vote"}, stage : {"tally"}, from : Server, to : Server, live : BOOLEAN, term : Nat]
AppendRequest ==
  [kind : {"append"}, stage : {"call"}, from : Server, to : Server, live : BOOLEAN,
   term : Nat, prev : Int, prevTerm : Int, entries : Seq(Entry), commit : Nat]
AppendAnswer ==
  [kind : {"append"}, stage : {"reply"}, from : Server, to : Server, live : BOOLEAN,
   term : Nat, match : Int, rterm : Nat, success : BOOLEAN, xterm : Int, xindex : Int,
   xlen : Int]
InstallCall ==
  [kind : {"install"}, stage : {"call"}, from : Server, to : Server, live : BOOLEAN,
   term : Nat, lastIndex : Nat, lastTerm : Int, cmd : Command]
InstallAnswer ==
  [kind : {"install"}, stage : {"reply"}, from : Server, to : Server, live : BOOLEAN,
   rterm : Nat]
Rpc ==
  VoteCall \cup VoteReply \cup VoteTally \cup AppendRequest \cup AppendAnswer \cup InstallCall
    \cup InstallAnswer

DiskImage ==
  [term : Nat, vote : Server \cup {NoVote}, commit : Nat, lastIndex : Nat, lastTerm : Int,
   base : Nat, entries : Seq(Entry)]
ReadState ==
  [stage : {"idle", "asked", "answered"}, term : Nat, commit : Nat, floor : SUBSET Nat,
   current : BOOLEAN]

\* Every variable holds a value of its Go type; the counters that the code never
\* makes negative are natural numbers.
TypeOK ==
  /\ phase \in [Server -> {"down", "boot", "run"}]
  /\ currentTerm \in [Server -> Nat]
  /\ votedFor \in [Server -> Server \cup {NoVote}]
  /\ role \in [Server -> Role]
  /\ voteCount \in [Server -> Nat]
  /\ leaderIdx \in [Server -> Nat]
  /\ log \in [Server -> Seq(Entry)]
  /\ lastIncludedIndex \in [Server -> Nat]
  /\ lastIncludedTerm \in [Server -> Int]
  /\ commitIndex \in [Server -> Nat]
  /\ nextIndex \in [Server -> [Server -> Int]]
  /\ matchIndex \in [Server -> [Server -> Int]]
  /\ disk \in [Server -> DiskImage]
  /\ electionDue \subseteq Server
  /\ snapDue \subseteq Server \X Server
  /\ installing \subseteq InstallCall
  /\ reading \in [Server -> ReadState]
  /\ rpcs \subseteq Rpc
  /\ restarts \in Nat
  /\ ballots \subseteq Ballot
  /\ elected \subseteq [term : Nat, leader : Server]
  /\ counted \in [Server -> SUBSET Server]
  /\ flaws \subseteq Flaw
-----------------------------------------------------------------------------
(* Properties *)

\* A node grants its vote to at most one candidate of a term, over any number of
\* restarts after panics and after crashes between two writes of the state file:
\* RequestVote and StartElection save the vote before the answer leaves.  It holds
\* as long as no crash falls inside saveState, which truncates the file first, and
\* no InstallSnapshot is served between Make and startWork.
VoteOnce ==
  flaws \cap Forgetting = {} =>
    \A a, b \in ballots : a.term = b.term /\ a.voter = b.voter => a.cand = b.cand

\* At most one node wins the election of a term, and the nodes that lead now are
\* winners of their term.  collectVote counts without looking at the term again
\* and SendCommitIndex raises the term of a leader, so it holds until they do, and
\* until a voter forgets its vote as VoteOnce says.
ElectionSafety ==
  flaws \cap ({"staleVote", "termLift"} \cup Forgetting) = {} =>
    /\ \A a, b \in elected : a.term = b.term => a.leader = b.leader
    /\ \A s \in Server : role[s] = "Leader" =>
                           [term |-> currentTerm[s], leader |-> s] \in elected

\* The indexes above both nodes' snapshots up to n.
Common(s, t, n) == (MaxOf(lastIncludedIndex[s], lastIncludedIndex[t]) + 1)..n

\* Two logs that hold an entry of the same term at the same index agree on all
\* entries up to it: what the consistency check of AppendEntries is for.
LogMatching ==
  flaws = {} =>
    \A s, t \in Server :
      \A i \in Common(s, t, MinOf(LastIndex(s), LastIndex(t))) :
        At(s, i).term = At(t, i).term => \A j \in Common(s, t, i) : At(s, j) = At(t, j)

Agreement ==
  \A s, t \in Server :
    \A i \in Common(s, t, MinOf(commitIndex[s], commitIndex[t])) :
      InLog(s, i) /\ InLog(t, i) => At(s, i) = At(t, i)

\* Two nodes never hold different entries at an index both take for committed,
\* whoever raised their commitIndex, and no commitIndex is beyond its log.
StateMachineSafety ==
  flaws = {} =>
    Agreement /\ \A s \in Server : phase[s] = "run" => commitIndex[s] <= LastIndex(s)

Complete ==
  \A s, t \in Server :
    role[s] = "Leader" /\ currentTerm[t] <= currentTerm[s] =>
      /\ commitIndex[t] <= LastIndex(s)
      /\ \A i \in Common(s, t, commitIndex[t]) : InLog(t, i) => At(s, i) = At(t, i)

\* A leader has every entry that a node of its term or an earlier one takes for
\* committed: RequestVote refuses candidates whose log is behind.
LeaderCompleteness == flaws = {} => Complete

\* What a leader believes replicated is: a peer still in the leader's term holds
\* the leader's entries up to matchIndex.  The code relies on it when it counts
\* matchIndex towards a commit, and keeps the map over several leaderships.
MatchSound ==
  flaws = {} =>
    \A s, p \in Server :
      role[s] = "Leader" /\ phase[p] = "run" /\ currentTerm[p] = currentTerm[s] =>
        \A i \in Common(s, p, MatchOf(s, p)) : InLog(p, i) /\ At(p, i) = At(s, i)

\* A node that leads before and after a step neither removes nor replaces an
\* entry of its log, other than by dropping a prefix into its snapshot: handlers
\* that overwrite the log make it a follower in the same critical section.
LeaderAppendOnly ==
  [][\A s \in Server :
       role[s] = "Leader" /\ role'[s] = "Leader" =>
         \A i \in (lastIncludedIndex'[s] + 1)..LastIndex(s) :
           i < lastIncludedIndex'[s] + Len(log'[s])
           /\ log'[s][i - lastIncludedIndex'[s] + 1] = At(s, i)]_vars

\* The read index a follower is given covers all that any node had committed
\* when it asked, if it asked the leader of the highest term and that leader has
\* committed in its term.  GetCommitIndex checks neither.
ReadFromCurrentLeader ==
  flaws = {} =>
    \A s \in Server : reading[s].current =>
                        \A n \in reading[s].floor : reading[s].commit >= n
-----------------------------------------------------------------------------
(* What a comment of the code says, and the code does not do *)

\* AppendEntries: commitIndex is the minimum of the leader's and of the last new
\* entry, so nodes agree on what they take for committed.
CommitWithinLeader == flaws \subseteq {"overCommit"} => Agreement
=============================================================================
