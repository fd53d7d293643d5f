------------------------- MODULE RaftElectionProofs -------------------------
(***************************************************************************)
(* Elections of Raft, for any finite set of servers and any bounds: a node *)
(* votes once per term, over restarts that find the state file whole, and, *)
(* for an odd number of servers, a term has one winner; and a leader only  *)
(* appends.                                                                *)
(***************************************************************************)
EXTENDS RaftTypeProofs, FiniteSetTheorems

\* No step after which a node may have forgotten its vote has been taken.
Remembers == flaws \cap Forgetting = {}

\* Why a vote survives a crash: nothing is saved before startWork, what is saved
\* is no newer than the memory, and the newest ballot is the saved one.
VoteInv ==
  Remembers =>
    /\ \A s \in Server : phase[s] # "run" => log[s] = << >>
    /\ \A s \in Server : phase[s] = "run" =>
         /\ disk[s].term <= currentTerm[s]
         /\ disk[s].term = currentTerm[s] => disk[s].vote = votedFor[s]
    /\ \A b \in ballots :
         /\ b.term <= disk[b.voter].term
         /\ b.term = disk[b.voter].term => b.cand = disk[b.voter].vote

\* What a step may do to a node: leave its vote alone, take a newer term without
\* saving it, save term and vote, be down or booting, or load what was saved.
Keeps(s) ==
  /\ phase'[s] = phase[s] /\ currentTerm'[s] = currentTerm[s] /\ votedFor'[s] = votedFor[s]
  /\ disk'[s] = disk[s] /\ (phase[s] # "run" => log'[s] = log[s])
Ages(s) ==
  /\ phase[s] = "run" /\ phase'[s] = "run" /\ disk'[s] = disk[s]
  /\ currentTerm'[s] > currentTerm[s]
Saves(s) ==
  /\ phase[s] = "run" /\ phase'[s] = "run"
  /\ disk'[s].term = currentTerm'[s] /\ disk'[s].vote = votedFor'[s]
  /\ currentTerm'[s] >= currentTerm[s]
  /\ currentTerm'[s] = currentTerm[s] => votedFor[s] \in {NoVote, votedFor'[s]}
Rests(s) ==
  /\ phase'[s] # "run" /\ log'[s] = << >>
  /\ \/ disk'[s].term = disk[s].term /\ disk'[s].vote = disk[s].vote
     \/ disk'[s].term > disk[s].term
Loads(s) ==
  /\ phase'[s] = "run" /\ disk'[s] = disk[s]
  /\ currentTerm'[s] = disk[s].term /\ votedFor'[s] = disk[s].vote
VoteStep(s) == Keeps(s) \/ Ages(s) \/ Saves(s) \/ Rests(s) \/ Loads(s)

\* The argument common to all steps.  A new ballot is the saved vote of a node
\* that had not voted for another candidate in the term.
LEMMA VoteStepKeeps ==
  ASSUME TypeInv, TypeInv', VoteInv, VoteOnce, flaws \subseteq flaws',
         Remembers' =>
           /\ \A s \in Server : VoteStep(s)
           /\ \A b \in ballots' :
                \/ b \in ballots
                \/ /\ Saves(b.voter)
                   /\ b.term = currentTerm'[b.voter] /\ b.cand = votedFor'[b.voter]
  PROVE  VoteInv' /\ VoteOnce'
<1>0. SUFFICES ASSUME Remembers'
               PROVE  VoteInv' /\ VoteOnce'
  BY Zenon DEF VoteInv, VoteOnce, Remembers
<1>1. Remembers
  BY Zenon, <1>0 DEF Remembers
<1>2. ASSUME NEW s \in Server
      PROVE  /\ disk[s].term \in Nat /\ disk'[s].term \in Nat
             /\ currentTerm[s] \in Nat /\ currentTerm'[s] \in Nat
             /\ phase[s] = "run" => /\ disk[s].term <= currentTerm[s]
                                    /\ disk[s].term = currentTerm[s] => disk[s].vote = votedFor[s]
             /\ phase[s] # "run" => log[s] = << >>
             /\ VoteStep(s)
  BY Zenon, <1>0, <1>1 DEF TypeInv, TypeOK, DiskImage, VoteInv
<1>3. ASSUME NEW b \in ballots'
      PROVE  b.term \in Nat /\ b.voter \in Server /\ b.cand \in Server /\ b.cand # NoVote
  BY <1>3, ServerAssumption DEF TypeInv, TypeOK, Ballot, NoVote
<1>4. \A s \in Server : phase'[s] # "run" => log'[s] = << >>
  BY Zenon, <1>2 DEF VoteStep, Keeps, Ages, Saves, Rests, Loads
<1>5. \A s \in Server : phase'[s] = "run" =>
        /\ disk'[s].term <= currentTerm'[s]
        /\ disk'[s].term = currentTerm'[s] => disk'[s].vote = votedFor'[s]
  BY <1>2 DEF VoteStep, Keeps, Ages, Saves, Rests, Loads
<1>6. ASSUME NEW b \in ballots', b \in ballots
      PROVE  /\ b.term <= disk[b.voter].term
             /\ b.term = disk[b.voter].term => b.cand = disk[b.voter].vote
             /\ b.term <= disk'[b.voter].term
             /\ b.term = disk'[b.voter].term => b.cand = disk'[b.voter].vote
  <2> DEFINE v == b.voter
  <2>1. v \in Server /\ b.term \in Nat /\ b.cand # NoVote
    BY Zenon, <1>3
  <2>2. b.term <= disk[v].term /\ (b.term = disk[v].term => b.cand = disk[v].vote)
    BY Zenon, <1>1, <1>6 DEF VoteInv
  <2> HIDE DEF v
  <2>3. b.term <= disk'[v].term /\ (b.term = disk'[v].term => b.cand = disk'[v].vote)
    <3>1. CASE Saves(v)
      BY <1>2, <2>1, <2>2, <3>1 DEF Saves
    <3>2. CASE ~Saves(v)
      BY <1>2, <2>1, <2>2, <3>2 DEF VoteStep, Keeps, Ages, Rests, Loads
    <3>3. QED
      BY Zenon, <3>1, <3>2
  <2>4. QED
    BY Zenon, <2>2, <2>3 DEF v
<1>7. \A b \in ballots' :
        /\ b.term <= disk'[b.voter].term
        /\ b.term = disk'[b.voter].term => b.cand = disk'[b.voter].vote
  <2>1. TAKE b \in ballots'
  <2>2. CASE b \in ballots
    BY Zenon, <1>6, <2>2
  <2>3. CASE Saves(b.voter) /\ b.term = currentTerm'[b.voter] /\ b.cand = votedFor'[b.voter]
    BY <1>2, <1>3, <2>3 DEF Saves
  <2>4. QED
    BY Zenon, <1>0, <2>2, <2>3
<1>8. VoteInv'
  BY Zenon, <1>4, <1>5, <1>7 DEF VoteInv
<1>9. \A a, b \in ballots' : a.term = b.term /\ a.voter = b.voter => a.cand = b.cand
  <2>1. SUFFICES ASSUME NEW a \in ballots', NEW b \in ballots',
                        a.term = b.term, a.voter = b.voter
                 PROVE  a.cand = b.cand
    BY Zenon
  <2>2. CASE a \in ballots /\ b \in ballots
    BY Zenon, <1>1, <2>1, <2>2 DEF VoteOnce, Remembers
  <2>3. CASE ~(a \in ballots /\ b \in ballots)
    <3>1. Saves(a.voter) /\ a.term = currentTerm'[a.voter]
      BY Zenon, <1>0, <2>1, <2>3
    <3>2. a.term = disk'[a.voter].term
      BY Zenon, <3>1 DEF Saves
    <3>3. QED
      BY Zenon, <1>7, <2>1, <3>2
  <2>4. QED
    BY Zenon, <2>2, <2>3
<1>10. QED
  BY Zenon, <1>8, <1>9 DEF VoteOnce

\* What VoteStepKeeps asks of a step.
VoteSafe ==
  /\ \A s \in Server : VoteStep(s)
  /\ \A b \in ballots' :
       \/ b \in ballots
       \/ /\ Saves(b.voter)
          /\ b.term = currentTerm'[b.voter] /\ b.cand = votedFor'[b.voter]
\* Before startWork a node has no log, so that persist() does nothing.
NoLogAtBoot == \A s \in Server : phase[s] # "run" => log[s] = << >>

\* persist() saves term and vote, unless the log is empty.
LEMMA PersistVote ==
  ASSUME TypeInv, NEW s \in Server, NEW c, Persist(s, c)
  PROVE  /\ log'[s] # << >> => disk'[s].term = currentTerm'[s] /\ disk'[s].vote = votedFor'[s]
         /\ log'[s] = << >> => disk'[s] = disk[s]
         /\ \A r \in Server : r # s => disk'[r] = disk[r]
BY Zenon DEF TypeInv, TypeOK, Persist

\* Steps that leave votes, logs and disks alone.
LEMMA VoteFrame ==
  ASSUME NoLogAtBoot, UNCHANGED <<phase, currentTerm, votedFor, disk, ballots>>,
         \A s \in Server : phase[s] # "run" => log'[s] = log[s]
  PROVE  VoteSafe
BY Zenon DEF VoteSafe, VoteStep, Keeps

\* Steps of one running node that save its term and vote.
LEMMA VoteSaved ==
  ASSUME TypeInv, TypeInv', NoLogAtBoot, NEW s \in Server, phase[s] = "run",
         UNCHANGED <<phase, ballots>>, NEW c, Persist(s, c),
         currentTerm'[s] >= currentTerm[s],
         currentTerm'[s] = currentTerm[s] => votedFor[s] \in {NoVote, votedFor'[s]},
         \A r \in Server : r # s => /\ currentTerm'[r] = currentTerm[r]
                                    /\ votedFor'[r] = votedFor[r] /\ log'[r] = log[r]
  PROVE  VoteSafe
<1>1. log'[s] # << >>
  BY Zenon DEF TypeInv, Alive
<1>2. Saves(s)
  BY Zenon, <1>1, PersistVote DEF Saves
<1>3. \A r \in Server : r # s => Keeps(r)
  BY Zenon, PersistVote DEF Keeps
<1>4. QED
  BY Zenon, <1>2, <1>3 DEF VoteSafe, VoteStep

\* A crash leaves the saved vote and the ballots, and memory at its lowest values.
LEMMA CrashVote ==
  ASSUME TypeInv, NoLogAtBoot, NEW s \in Server, Crash(s)
  PROVE  VoteSafe
<1>1. Rests(s)
  <2>1. phase'[s] # "run" /\ log'[s] = << >>
    BY Zenon DEF Crash, Die, TypeInv, TypeOK
  <2>2. PICK n \in 0..Len(disk[s].entries) : disk' = [disk EXCEPT ![s].entries = SubSeq(@, 1, n)]
    BY Zenon DEF Crash
  <2>3. disk \in [Server -> DiskImage] /\ disk[s] \in DiskImage
    BY Zenon DEF TypeInv, TypeOK
  <2>4. disk'[s].term = disk[s].term /\ disk'[s].vote = disk[s].vote
    <3>1. disk'[s] = [disk[s] EXCEPT !.entries = SubSeq(disk[s].entries, 1, n)]
      BY Zenon, <2>2, <2>3
    <3>2. QED
      BY Zenon, <2>3, <3>1 DEF DiskImage
  <2>5. QED
    BY Zenon, <2>1, <2>4 DEF Rests
<1>2. \A r \in Server : r # s => Keeps(r)
  BY Zenon DEF Crash, Die, Keeps, TypeInv, TypeOK
<1>3. QED
  BY Zenon, <1>1, <1>2 DEF VoteSafe, VoteStep, Crash, Die

\* A panic does too, but for the newer term that AppendEntries saved without a vote.
LEMMA PanicVote ==
  ASSUME TypeInv, VoteInv, Remembers, NEW s \in Server, Panic(s)
  PROVE  VoteSafe
<1>0. TypeOK /\ NoLogAtBoot
  BY Zenon DEF TypeInv, VoteInv, NoLogAtBoot
<1>1. Die(s)
  BY Zenon DEF Panic
<1>2. phase'[s] # "run" /\ log'[s] = << >> /\ UNCHANGED ballots
  BY Zenon, <1>0, <1>1 DEF Die, TypeOK
<1>3. \A r \in Server : r # s => disk'[r] = disk[r]
  BY Zenon, <1>0 DEF Panic, TypeOK
<1>4. disk'[s] = disk[s] \/ disk'[s].term > disk[s].term
  <2>1. ASSUME NEW m \in rpcs, m.to = s, HandlerPanics(m),
               m.kind = "append", m.term > currentTerm[s],
               disk' = [disk EXCEPT ![s] = Saved(s, m.term, NoVote)]
        PROVE  disk'[s].term > disk[s].term
    <3>1. log[s] # << >>
      BY Zenon, <1>0, <2>1, PanicLog
    <3>2. phase[s] = "run" /\ disk[s].term <= currentTerm[s]
      BY Zenon, <1>0, <3>1 DEF NoLogAtBoot, VoteInv
    <3>3. disk'[s].term = m.term
      BY Zenon, <1>0, <2>1 DEF TypeOK, Saved
    <3>4. m.term \in Nat
      <4>1. m \in AppendRequest
        BY Zenon, <1>0, <2>1, RpcType DEF HandlerPanics, TypeOK
      <4>2. QED
        BY Zenon, <4>1 DEF AppendRequest
    <3>5. disk[s].term \in Nat /\ currentTerm[s] \in Nat
      BY Zenon, <1>0 DEF TypeOK, DiskImage
    <3>6. QED
      BY <2>1, <3>2, <3>3, <3>4, <3>5
  <2>2. QED
    BY Zenon, <2>1 DEF Panic
<1>5. \A r \in Server : r # s => Keeps(r)
  BY Zenon, <1>0, <1>1, <1>3 DEF Die, Keeps, TypeOK
<1>6. QED
  BY Zenon, <1>2, <1>4, <1>5 DEF VoteSafe, VoteStep, Rests

\* Make and startWork: the vote loaded is the one saved.
LEMMA BootVote ==
  ASSUME TypeInv, NoLogAtBoot, NEW s \in Server, Make(s) \/ startWork(s)
  PROVE  VoteSafe
<1>1. CASE Make(s)
  <2>1. Rests(s)
    BY Zenon, <1>1 DEF Make, Rests, NoLogAtBoot, TypeInv, TypeOK, logVars
  <2>2. \A r \in Server : r # s => Keeps(r)
    BY Zenon, <1>1 DEF Make, Keeps, TypeInv, TypeOK, logVars, nodeVars
  <2>3. QED
    BY Zenon, <1>1, <2>1, <2>2 DEF VoteSafe, VoteStep, Make, ghostVars
<1>2. CASE startWork(s)
  <2>1. Loads(s)
    BY Zenon, <1>2 DEF startWork, Loads, TypeInv, TypeOK
  <2>2. \A r \in Server : r # s => Keeps(r)
    BY Zenon, <1>2 DEF startWork, Keeps, TypeInv, TypeOK
  <2>3. QED
    BY Zenon, <1>2, <2>1, <2>2 DEF VoteSafe, VoteStep, startWork
<1>3. QED
  BY Zenon, <1>1, <1>2

\* StartElection votes for itself in a term above all it saved before, and saves it.
LEMMA StartElectionVote ==
  ASSUME TypeInv, TypeInv', NoLogAtBoot, NEW s \in Server, StartElection(s)
  PROVE  VoteSafe
<1>0. TypeOK /\ phase[s] = "run"
  BY Zenon DEF TypeInv, Alive, StartElection
<1>1. log'[s] # << >> /\ phase'[s] = "run"
  BY Zenon, <1>0 DEF TypeInv, Alive, StartElection
<1>2. currentTerm'[s] = currentTerm[s] + 1 /\ votedFor'[s] = s /\ currentTerm[s] \in Nat
  BY Zenon, <1>0 DEF StartElection, TypeOK
<1>3. Saves(s)
  BY <1>0, <1>1, <1>2, PersistVote DEF Saves, StartElection
<1>4. \A r \in Server : r # s => Keeps(r)
  <2>1. \A r \in Server : r # s => disk'[r] = disk[r]
    BY Zenon, PersistVote DEF StartElection
  <2>2. QED
    BY Zenon, <1>0, <2>1 DEF Keeps, StartElection, TypeOK, logVars
<1>5. \A b \in ballots' : b \in ballots \/ b = [term |-> currentTerm[s] + 1, voter |-> s, cand |-> s]
  BY Zenon DEF StartElection
<1>6. QED
  BY <1>2, <1>3, <1>4, <1>5 DEF VoteSafe, VoteStep

\* SendCommitIndex may raise the term in memory above the saved one, and no more.
LEMMA SendCommitIndexVote ==
  ASSUME TypeInv, NoLogAtBoot, NEW s \in Server, SendCommitIndex(s)
  PROVE  VoteSafe
<1>0. TypeOK /\ reading[s] \in ReadState /\ currentTerm[s] \in Nat
  BY Zenon DEF TypeInv, TypeOK
<1>1. reading[s].term \in Nat
  BY Zenon, <1>0 DEF ReadState
<1>2. UNCHANGED <<phase, votedFor, logVars, disk, ballots>>
  BY Zenon DEF SendCommitIndex
<1>3. \A r \in Server : r # s => Keeps(r)
  BY Zenon, <1>0, <1>2 DEF SendCommitIndex, Keeps, TypeOK, logVars
<1>4. currentTerm'[s] = currentTerm[s] \/ currentTerm'[s] > currentTerm[s]
  BY Zenon, <1>0, <1>1 DEF SendCommitIndex, TypeOK
<1>5. VoteStep(s)
  BY Zenon, <1>2, <1>4 DEF VoteStep, Keeps, Ages, Rests, NoLogAtBoot, logVars
<1>6. QED
  BY Zenon, <1>2, <1>3, <1>5 DEF VoteSafe, VoteStep

\* Start and Snapshot save the term and the vote the node has.
LEMMA LogWriteVote ==
  ASSUME TypeInv, TypeInv', NoLogAtBoot, NEW s \in Server,
         (\E v \in Value : Start(s, v)) \/ (\E i \in SnapshotAt : Snapshot(s, i))
  PROVE  VoteSafe
<1>0. TypeOK
  BY Zenon DEF TypeInv
<1>1. /\ phase[s] = "run" /\ UNCHANGED <<phase, currentTerm, votedFor, ballots>>
      /\ Persist(s, commitIndex[s])
  BY Zenon DEF Start, Snapshot, nodeVars, ghostVars
<1>2. \A r \in Server : r # s => log'[r] = log[r]
  BY Zenon, <1>0 DEF Start, Snapshot, TypeOK
<1>3. currentTerm'[s] >= currentTerm[s] /\ votedFor[s] \in {NoVote, votedFor'[s]}
  BY <1>0, <1>1 DEF TypeOK
<1>4. QED
  BY Zenon, <1>1, <1>2, <1>3, VoteSaved

\* RequestVote grants only when it has not voted otherwise in the term, and saves
\* the vote in the same step.
LEMMA RequestVoteVote ==
  ASSUME TypeInv, TypeInv', NoLogAtBoot, NEW m \in rpcs, RequestVote(m)
  PROVE  VoteSafe
<1> DEFINE s == m.to
           newer == m.term > currentTerm[s]
           grant == VoteFree(m) /\ UpToDate(m)
<1>0. TypeOK /\ m \in VoteCall
  BY Zenon, RpcType DEF TypeInv, TypeOK, RequestVote
<1>1. s \in Server /\ m.from \in Server /\ m.term \in Nat /\ currentTerm[s] \in Nat
  BY Zenon, <1>0 DEF VoteCall, TypeOK
<1>2. /\ currentTerm' = [currentTerm EXCEPT ![s] = MaxOf(@, m.term)]
      /\ votedFor' = [votedFor EXCEPT ![s] = IF grant THEN m.from ELSE IF newer THEN NoVote ELSE @]
      /\ ballots' = IF grant
                    THEN ballots \cup {[term |-> m.term, voter |-> s, cand |-> m.from]}
                    ELSE ballots
      /\ UNCHANGED <<phase, logVars>>
      /\ IF grant \/ newer THEN Persist(s, commitIndex[s]) ELSE UNCHANGED disk
  BY Zenon DEF RequestVote
<1>3. grant \/ newer => VoteFree(m)
  BY <1>1 DEF VoteFree
<1>4. grant \/ newer => log[s] # << >> /\ phase[s] = "run"
  BY Zenon, <1>1, <1>3 DEF RequestVote, RequestVotePanics, NoLogAtBoot
<1>5. grant => /\ m.term >= currentTerm[s]
               /\ m.term = currentTerm[s] => votedFor[s] \in {NoVote, m.from}
  BY Zenon DEF VoteFree
<1> HIDE DEF grant
<1>6. \A r \in Server : r # s => Keeps(r)
  <2>1. \A r \in Server : r # s => disk'[r] = disk[r]
    BY Zenon, <1>1, <1>2, PersistVote
  <2>2. QED
    BY Zenon, <1>0, <1>2, <2>1 DEF Keeps, TypeOK, logVars
<1>7. CASE grant \/ newer
  <2>1. /\ currentTerm'[s] = m.term /\ m.term >= currentTerm[s]
        /\ votedFor'[s] = IF grant THEN m.from ELSE NoVote
    <3>1. m.term >= currentTerm[s]
      BY <1>1, <1>5, <1>7
    <3>2. currentTerm'[s] = MaxOf(currentTerm[s], m.term)
      BY Zenon, <1>0, <1>1, <1>2 DEF TypeOK
    <3>3. currentTerm'[s] = m.term
      BY <1>1, <3>1, <3>2 DEF MaxOf
    <3>4. votedFor'[s] = IF grant THEN m.from ELSE NoVote
      BY Zenon, <1>0, <1>1, <1>2, <1>7 DEF TypeOK
    <3>5. QED
      BY Zenon, <3>1, <3>3, <3>4
  <2>2. disk'[s].term = currentTerm'[s] /\ disk'[s].vote = votedFor'[s]
    BY Zenon, <1>1, <1>2, <1>4, <1>7, PersistVote DEF logVars
  <2>3. Saves(s)
    BY <1>1, <1>2, <1>4, <1>5, <1>7, <2>1, <2>2 DEF Saves
  <2>4. \A b \in ballots' :
          \/ b \in ballots
          \/ b = [term |-> m.term, voter |-> s, cand |-> m.from] /\ grant
    BY Zenon, <1>2
  <2>5. QED
    BY <1>6, <2>1, <2>3, <2>4 DEF VoteSafe, VoteStep
<1>8. CASE ~(grant \/ newer)
  <2>1. Keeps(s) /\ UNCHANGED ballots
    BY <1>0, <1>1, <1>2, <1>8 DEF Keeps, TypeOK, MaxOf, logVars
  <2>2. QED
    BY Zenon, <1>6, <2>1 DEF VoteSafe, VoteStep
<1>9. QED
  BY Zenon, <1>7, <1>8

\* A reply with a newer term, to any of the calls.
LEMMA OutdatedVote ==
  ASSUME TypeInv, TypeInv', NoLogAtBoot, NEW s \in Server, phase[s] = "run",
         UNCHANGED <<phase, log, ballots>>,
         NEW t \in Nat, NEW outdated \in BOOLEAN, outdated => t > currentTerm[s],
         currentTerm' = [currentTerm EXCEPT ![s] = IF outdated THEN t ELSE @],
         votedFor' = [votedFor EXCEPT ![s] = IF outdated THEN NoVote ELSE @],
         IF outdated THEN Persist(s, commitIndex[s]) ELSE UNCHANGED disk
  PROVE  VoteSafe
<1>0. TypeOK
  BY Zenon DEF TypeInv
<1>1. CASE outdated
  <2>1. currentTerm'[s] = t /\ t > currentTerm[s] /\ currentTerm[s] \in Nat
    BY Zenon, <1>0, <1>1 DEF TypeOK
  <2>2. \A r \in Server : r # s => currentTerm'[r] = currentTerm[r] /\ votedFor'[r] = votedFor[r]
    BY Zenon, <1>0 DEF TypeOK
  <2>3. QED
    BY <1>1, <2>1, <2>2, VoteSaved
<1>2. CASE ~outdated
  <2>1. UNCHANGED <<currentTerm, votedFor, disk>>
    BY Zenon, <1>0, <1>2 DEF TypeOK
  <2>2. QED
    BY Zenon, <2>1, VoteFrame
<1>3. QED
  BY Zenon, <1>1, <1>2

\* procVoteAnswer saves the newer term it takes over, with no vote.
LEMMA ProcVoteAnswerVote ==
  ASSUME TypeInv, TypeInv', NoLogAtBoot, NEW m \in rpcs, procVoteAnswer(m)
  PROVE  VoteSafe
<1> DEFINE s == m.from
           outdated == ~(role[s] # "Candidate" \/ m.term # currentTerm[s]) /\ m.rterm > currentTerm[s]
<1>0. TypeOK /\ m \in Rpc /\ m \in VoteReply /\ m.stage = "reply"
  BY Zenon, RpcType DEF TypeInv, TypeOK, procVoteAnswer
<1>1. s \in Server /\ m.rterm \in Nat /\ phase[s] = "run"
  BY Zenon, <1>0 DEF VoteReply, TypeInv, Alive
<1>2. outdated \in BOOLEAN /\ (outdated => m.rterm > currentTerm[s])
  BY Zenon
<1>3. /\ currentTerm' = [currentTerm EXCEPT ![s] = IF outdated THEN m.rterm ELSE @]
      /\ votedFor' = [votedFor EXCEPT ![s] = IF outdated THEN NoVote ELSE @]
      /\ UNCHANGED <<phase, log, ballots>>
      /\ IF outdated THEN Persist(s, commitIndex[s]) ELSE UNCHANGED disk
  BY Zenon DEF procVoteAnswer, logVars, ghostVars
<1> HIDE DEF outdated
<1>4. QED
  BY Zenon, <1>1, <1>2, <1>3, OutdatedVote

\* So does the sender of an InstallSnapshot,
LEMMA InstallReplyVote ==
  ASSUME TypeInv, TypeInv', NoLogAtBoot, NEW m \in rpcs, sendInstallSnapshotToServer(m)
  PROVE  VoteSafe
<1> DEFINE s == m.from
           outdated == m.rterm > currentTerm[s]
<1>0. TypeOK /\ m \in Rpc /\ m \in InstallAnswer /\ m.stage = "reply"
  BY Zenon, RpcType DEF TypeInv, TypeOK, sendInstallSnapshotToServer
<1>1. s \in Server /\ m.rterm \in Nat /\ phase[s] = "run" /\ currentTerm[s] \in Nat
  BY Zenon, <1>0 DEF InstallAnswer, TypeInv, Alive, TypeOK
<1>2. currentTerm' = [currentTerm EXCEPT ![s] = IF outdated THEN m.rterm ELSE @]
  <2>1. currentTerm' = [currentTerm EXCEPT ![s] = MaxOf(@, m.rterm)]
    BY Zenon DEF sendInstallSnapshotToServer
  <2>2. MaxOf(currentTerm[s], m.rterm) = IF outdated THEN m.rterm ELSE currentTerm[s]
    BY <1>1 DEF MaxOf
  <2>3. QED
    BY Zenon, <2>1, <2>2
<1>3. /\ votedFor' = [votedFor EXCEPT ![s] = IF outdated THEN NoVote ELSE @]
      /\ UNCHANGED <<phase, log, ballots>>
      /\ IF outdated THEN Persist(s, commitIndex[s]) ELSE UNCHANGED disk
  BY Zenon DEF sendInstallSnapshotToServer, logVars, ghostVars
<1>4. outdated \in BOOLEAN /\ (outdated => m.rterm > currentTerm[s])
  OBVIOUS
<1> HIDE DEF outdated
<1>5. QED
  BY Zenon, <1>1, <1>2, <1>3, <1>4, OutdatedVote

\* and the sender of an AppendEntries.
LEMMA AppendReplyVote ==
  ASSUME TypeInv, TypeInv', NoLogAtBoot, NEW m \in rpcs, sendAppendEntriesToServer(m)
  PROVE  VoteSafe
<1> DEFINE s == m.from
<1>0. TypeOK /\ m \in Rpc /\ m \in AppendAnswer /\ m.stage = "reply"
  BY Zenon, RpcType DEF TypeInv, TypeOK, sendAppendEntriesToServer
<1>1. s \in Server /\ m.rterm \in Nat /\ phase[s] = "run"
  BY Zenon, <1>0 DEF AppendAnswer, TypeInv, Alive
<1>2. UNCHANGED <<phase, log, ballots>>
  BY Zenon DEF sendAppendEntriesToServer, ghostVars
<1>3. CASE UNCHANGED <<currentTerm, votedFor, disk>>
  BY Zenon, <1>2, <1>3, VoteFrame
<1>4. CASE AppendReplyOutdated(m) /\ Persist(s, commitIndex[s])
  <2>1. /\ m.rterm > currentTerm[s]
        /\ currentTerm' = [currentTerm EXCEPT ![s] = m.rterm]
        /\ votedFor' = [votedFor EXCEPT ![s] = NoVote]
    BY Zenon, <1>4 DEF AppendReplyOutdated
  <2>2. /\ currentTerm' = [currentTerm EXCEPT ![s] = IF TRUE THEN m.rterm ELSE @]
        /\ votedFor' = [votedFor EXCEPT ![s] = IF TRUE THEN NoVote ELSE @]
    BY Zenon, <2>1
  <2>3. QED
    BY Zenon, <1>1, <1>2, <1>4, <2>1, <2>2, OutdatedVote
<1>5. QED
  BY Zenon, <1>3, <1>4 DEF sendAppendEntriesToServer, AppendReplySuccess, AppendReplyConflict,
                    AppendReplyIgnored

\* AppendEntries saves whenever it raises the term.
LEMMA AppendEntriesVote ==
  ASSUME TypeInv, TypeInv', NoLogAtBoot, NEW m \in rpcs, AppendEntries(m)
  PROVE  VoteSafe
<1> DEFINE s == m.to
           newer == m.term > currentTerm[s]
<1>0. TypeOK /\ m \in AppendRequest
  BY Zenon, RpcType DEF TypeInv, TypeOK, AppendEntries
<1>1. /\ s \in Server /\ m.from \in Server /\ m.term \in Nat /\ m.prev \in Int
      /\ currentTerm[s] \in Nat
  BY Zenon, <1>0 DEF AppendRequest, TypeOK
<1>2. UNCHANGED <<phase, ballots>>
  BY Zenon DEF AppendEntries
<1>3. CASE AppendRefused(m)
  <2>1. /\ currentTerm' = [currentTerm EXCEPT ![s] = MaxOf(@, m.term)]
        /\ votedFor' = [votedFor EXCEPT ![s] = IF newer THEN NoVote ELSE @]
        /\ UNCHANGED log
        /\ IF newer THEN Persist(s, commitIndex[s]) ELSE UNCHANGED disk
    BY Zenon, <1>3 DEF AppendRefused, logVars
  <2>2. MaxOf(currentTerm[s], m.term) = IF newer THEN m.term ELSE currentTerm[s]
    BY <1>1 DEF MaxOf
  <2>3. currentTerm' = [currentTerm EXCEPT ![s] = IF newer THEN m.term ELSE @]
    BY Zenon, <2>1, <2>2
  <2>4. CASE phase[s] = "run"
    <3>1. newer \in BOOLEAN /\ (newer => m.term > currentTerm[s])
      OBVIOUS
    <3> HIDE DEF newer
    <3>2. QED
      BY Zenon, <1>1, <1>2, <2>1, <2>3, <2>4, <3>1, OutdatedVote
  <2>5. CASE phase[s] # "run"
    <3>1. log'[s] = << >>
      BY Zenon, <1>1, <2>1, <2>5 DEF NoLogAtBoot
    <3>2. \A r \in Server : disk'[r] = disk[r]
      BY Zenon, <1>1, <2>1, <3>1, PersistVote
    <3>3. Rests(s)
      BY Zenon, <1>1, <1>2, <2>5, <3>1, <3>2 DEF Rests
    <3>4. \A r \in Server : r # s => Keeps(r)
      BY Zenon, <1>0, <1>2, <2>1, <3>2 DEF Keeps, TypeOK
    <3>5. QED
      BY Zenon, <1>2, <3>3, <3>4 DEF VoteSafe, VoteStep
  <2>6. QED
    BY Zenon, <2>4, <2>5
<1>4. CASE AppendAccepted(m)
  <2>1. /\ m.term >= currentTerm[s] /\ ~AppendConflict(m)
        /\ currentTerm' = [currentTerm EXCEPT ![s] = m.term]
        /\ votedFor' = [votedFor EXCEPT ![s] = IF newer THEN NoVote ELSE @]
        /\ Persist(s, commitIndex[s])
    BY Zenon, <1>4 DEF AppendAccepted
  <2>2. \A r \in Server : r # s => log'[r] = log[r]
    BY Zenon, <1>0, <1>4 DEF AppendAccepted, TypeOK
  <2>3. log[s] # << >>
    <3>1. ~AppendMissing(m) /\ ~AppendInSnapshot(m)
      BY Zenon, <2>1 DEF AppendConflict
    <3>2. Len(log[s]) # 0
      BY <1>0, <1>1, <3>1, LogType DEF AppendMissing, AppendInSnapshot, LogEnd
    <3>3. QED
      BY <3>2
  <2>4. phase[s] = "run"
    BY Zenon, <1>1, <2>3 DEF NoLogAtBoot
  <2>5. /\ currentTerm'[s] >= currentTerm[s]
        /\ currentTerm'[s] = currentTerm[s] => votedFor[s] \in {NoVote, votedFor'[s]}
        /\ \A r \in Server : r # s => currentTerm'[r] = currentTerm[r] /\ votedFor'[r] = votedFor[r]
    BY <1>0, <1>1, <2>1 DEF TypeOK
  <2>6. QED
    BY Zenon, <1>1, <1>2, <2>1, <2>2, <2>4, <2>5, VoteSaved
<1>5. QED
  BY Zenon, <1>3, <1>4 DEF AppendEntries

\* InstallSnapshot saves nothing before applyCh has taken the snapshot.
LEMMA InstallSnapshotVote ==
  ASSUME TypeInv, NoLogAtBoot, NEW m \in rpcs, InstallSnapshot(m), Remembers'
  PROVE  VoteSafe
<1> DEFINE s == m.to
<1>0. TypeOK /\ m \in InstallCall
  BY Zenon, RpcType DEF TypeInv, TypeOK, InstallSnapshot
<1>1. s \in Server /\ m.term \in Nat /\ currentTerm[s] \in Nat
  BY Zenon, <1>0 DEF InstallCall, TypeOK
<1>2. UNCHANGED <<phase, disk, ballots>> /\ phase[s] # "down"
  BY Zenon DEF InstallSnapshot
<1>3. /\ currentTerm'[s] >= currentTerm[s]
      /\ currentTerm'[s] = currentTerm[s] => votedFor'[s] = votedFor[s]
      /\ \A r \in Server : r # s => /\ currentTerm'[r] = currentTerm[r]
                                    /\ votedFor'[r] = votedFor[r] /\ log'[r] = log[r]
  <2>1. CASE InstallRefused(m)
    <3>1. /\ currentTerm' = [currentTerm EXCEPT ![s] = MaxOf(@, m.term)]
          /\ votedFor' = [votedFor EXCEPT ![s] = IF m.term > currentTerm[s] THEN NoVote ELSE @]
          /\ UNCHANGED log
      BY Zenon, <2>1 DEF InstallRefused, logVars
    <3>2. currentTerm \in [Server -> Nat] /\ votedFor \in [Server -> Server \cup {NoVote}]
      BY Zenon, <1>0 DEF TypeOK
    <3>3. QED
      BY <1>1, <3>1, <3>2 DEF MaxOf
  <2>2. CASE InstallTaken(m)
    BY <1>0, <1>1, <2>2 DEF InstallTaken, TypeOK
  <2>3. QED
    BY Zenon, <2>1, <2>2 DEF InstallSnapshot
<1>4. \A r \in Server : r # s => Keeps(r)
  BY Zenon, <1>2, <1>3 DEF Keeps
<1>5. currentTerm'[s] \in Nat
  <2>1. currentTerm'[s] \in {currentTerm[s], m.term}
    BY Zenon, <1>0, <1>1 DEF InstallSnapshot, InstallRefused, InstallTaken, MaxOf, TypeOK
  <2>2. QED
    BY Zenon, <1>1, <2>1
<1>6. CASE phase[s] = "run"
  <2>1. Keeps(s) \/ Ages(s)
    BY Zenon, <1>1, <1>2, <1>3, <1>5, <1>6, GeqCases DEF Keeps, Ages
  <2>2. QED
    BY Zenon, <1>2, <1>4, <2>1 DEF VoteSafe, VoteStep
<1>7. CASE phase[s] # "run"
  <2>1. phase[s] = "boot"
    BY Zenon, <1>0, <1>1, <1>2, <1>7 DEF TypeOK
  <2>2. ~InstallTaken(m)
    BY Zenon, <2>1 DEF InstallTaken, Remembers, Forgetting
  <2>3. UNCHANGED log
    BY Zenon, <2>2 DEF InstallSnapshot, InstallRefused, logVars
  <2>4. Rests(s)
    BY Zenon, <1>1, <1>2, <1>7, <2>3 DEF Rests, NoLogAtBoot
  <2>5. QED
    BY Zenon, <1>2, <1>4, <2>4 DEF VoteSafe, VoteStep
<1>8. QED
  BY Zenon, <1>6, <1>7

\* InstallSnapshot raises the term before it saves; what it saves at its end is what
\* the node then has in memory, loaded by startWork unless it was served at boot.
LEMMA InstallDoneVote ==
  ASSUME TypeInv, TypeInv', NoLogAtBoot, NEW m \in installing, InstallDone(m)
  PROVE  VoteSafe
<1>0. TypeOK /\ m.to \in Server
  BY Zenon DEF TypeInv, TypeOK, InstallCall
<1>1. /\ UNCHANGED <<phase, currentTerm, votedFor, log, ballots>>
      /\ Persist(m.to, commitIndex[m.to])
  BY Zenon DEF InstallDone, nodeVars, logVars, ghostVars
<1>2. CASE phase[m.to] = "run"
  <2>1. currentTerm'[m.to] >= currentTerm[m.to] /\ votedFor[m.to] \in {NoVote, votedFor'[m.to]}
    BY <1>0, <1>1 DEF TypeOK
  <2>2. QED
    BY Zenon, <1>0, <1>1, <1>2, <2>1, VoteSaved
<1>3. CASE phase[m.to] # "run"
  <2>1. log'[m.to] = << >>
    BY Zenon, <1>0, <1>1, <1>3 DEF NoLogAtBoot
  <2>2. \A r \in Server : disk'[r] = disk[r]
    BY Zenon, <1>0, <1>1, <2>1, PersistVote
  <2>3. QED
    BY Zenon, <1>1, <2>2 DEF VoteSafe, VoteStep, Keeps
<1>4. QED
  BY Zenon, <1>2, <1>3
-----------------------------------------------------------------------------
(* One vote per term *)

\* Every step of the system keeps VoteInv.
LEMMA NextVote ==
  ASSUME TypeInv, TypeInv', VoteInv, Next, Remembers'
  PROVE  VoteSafe
<1>1. Remembers /\ NoLogAtBoot
  BY Zenon, FlawsStay DEF VoteInv, NoLogAtBoot, Remembers
<1>0. \A s \in Server : ~CrashInside(s)
  BY Zenon DEF CrashInside, Remembers, Forgetting
<1>2. ASSUME NEW s \in Server,
             \/ Crash(s) \/ CrashInside(s) \/ Panic(s) \/ Make(s) \/ startWork(s) \/ StartElection(s)
             \/ SendCommitIndex(s)
             \/ \E v \in Value : Start(s, v)
             \/ \E i \in SnapshotAt : Snapshot(s, i)
      PROVE  VoteSafe
  BY Zenon, <1>0, <1>1, <1>2, CrashVote, PanicVote, BootVote, StartElectionVote, SendCommitIndexVote, LogWriteVote
<1>3. ASSUME NEW s \in Server,
             \/ ticker(s) \/ AskRead(s) \/ GetCommitIndex(s) \/ ReadFails(s)
             \/ \E p \in Server : \/ StartSendAppendEntries(s, p) \/ SingleHeartBeat(s, p)
                                  \/ sendInstallSnapshot(s, p)
      PROVE  VoteSafe
  <2>1. UNCHANGED <<phase, currentTerm, votedFor, disk, ballots, log>>
    BY Zenon, <1>3 DEF ticker, AskRead, GetCommitIndex, ReadFails, StartSendAppendEntries,
                SingleHeartBeat, sendInstallSnapshot, nodeVars, logVars, ghostVars
  <2>2. QED
    BY Zenon, <1>1, <2>1, VoteFrame
<1>4. ASSUME NEW m \in rpcs,
             Lose(m) \/ \E outTime \in BOOLEAN : collectVote(m, outTime)
      PROVE  VoteSafe
  <2>1. UNCHANGED <<phase, currentTerm, votedFor, disk, ballots, log>>
    BY Zenon, <1>4 DEF Lose, collectVote, nodeVars, logVars, ghostVars
  <2>2. QED
    BY Zenon, <1>1, <2>1, VoteFrame
<1>5. ASSUME NEW m \in rpcs,
             \/ RequestVote(m) \/ procVoteAnswer(m)
             \/ AppendEntries(m) \/ sendAppendEntriesToServer(m)
             \/ InstallSnapshot(m) \/ sendInstallSnapshotToServer(m)
      PROVE  VoteSafe
  BY Zenon, <1>1, <1>5, RequestVoteVote, ProcVoteAnswerVote, AppendEntriesVote, AppendReplyVote,
     InstallSnapshotVote, InstallReplyVote
<1>6. ASSUME NEW m \in installing, InstallDone(m)
      PROVE  VoteSafe
  BY Zenon, <1>1, <1>6, InstallDoneVote
<1>7. QED
  BY Zenon, <1>2, <1>3, <1>4, <1>5, <1>6 DEF Next

-----------------------------------------------------------------------------
(* One winner per term *)

Sound == flaws \cap ({"staleVote", "termLift"} \cup Forgetting) = {}
Cast(t, v, c) == [term |-> t, voter |-> v, cand |-> c] \in ballots
Won(t, c) == \E Q \in SUBSET Server : Cardinality(Q) > Half /\ \A v \in Q : Cast(t, v, c)

\* Why a winner has a majority: every vote on its way to a candidate was cast and
\* is not yet counted, no two are of the same voter, and what is counted was cast
\* in the candidate's term.
VotesInFlight ==
  \A m \in rpcs : m.kind = "vote" =>
    /\ m.stage = "reply" /\ m.granted => Cast(m.term, m.to, m.from)
    /\ m.stage = "tally" => Cast(m.term, m.to, m.from)
    /\ m.live => m.term <= currentTerm[m.from]
    /\ m.live /\ m.term = currentTerm[m.from] /\ role[m.from] = "Candidate" =>
         m.to \notin counted[m.from]
OneVoteEach ==
  \A m, n \in rpcs :
    m.kind = "vote" /\ n.kind = "vote" /\ m.live /\ n.live
    /\ m.from = n.from /\ m.to = n.to /\ m.term = n.term => m = n
CountedWereCast ==
  \A s \in Server : role[s] = "Candidate" =>
    /\ voteCount[s] = Cardinality(counted[s])
    /\ \A v \in counted[s] : Cast(currentTerm[s], v, s)
LeadersWon ==
  /\ \A e \in elected : Won(e.term, e.leader)
  /\ \A s \in Server : role[s] = "Leader" => [term |-> currentTerm[s], leader |-> s] \in elected
  /\ \A s \in Server : phase[s] # "run" => role[s] = "Follower"
ElectionInv == Sound => VotesInFlight /\ OneVoteEach /\ CountedWereCast /\ LeadersWon

\* What a step away from elections may do to a node.
Aloof(s) ==
  \/ /\ phase'[s] = phase[s] /\ role'[s] = role[s] /\ currentTerm'[s] = currentTerm[s]
     /\ voteCount'[s] = voteCount[s] /\ counted'[s] = counted[s]
  \/ role'[s] = "Follower" /\ (phase[s] = "run" /\ phase'[s] = "run" => currentTerm'[s] >= currentTerm[s])

\* The argument common to the steps that neither ask for, give nor count votes.
LEMMA AloofKeeps ==
  ASSUME TypeInv, TypeInv', ElectionInv, Sound' => Sound,
         ballots \subseteq ballots', elected' = elected,
         Sound' => \A s \in Server : Aloof(s),
         \A m \in rpcs' : m.kind = "vote" =>
           m \in rpcs \/ (m.stage = "call" /\ m.live = FALSE)
  PROVE  ElectionInv'
<1>0. SUFFICES ASSUME Sound' PROVE (VotesInFlight /\ OneVoteEach /\ CountedWereCast /\ LeadersWon)'
  BY Zenon DEF ElectionInv
<1>1. VotesInFlight /\ OneVoteEach /\ CountedWereCast /\ LeadersWon
  BY Zenon, <1>0 DEF ElectionInv
<1>2. \A s \in Server : Aloof(s) /\ currentTerm[s] \in Nat /\ currentTerm'[s] \in Nat
  BY Zenon, <1>0 DEF TypeInv, TypeOK
<1>3. \A t, v, c : Cast(t, v, c) => Cast(t, v, c)'
  BY Zenon DEF Cast
<1>4. VotesInFlight'
  <2>1. SUFFICES ASSUME NEW m \in rpcs', m.kind = "vote"
                 PROVE  /\ m.stage = "reply" /\ m.granted => Cast(m.term, m.to, m.from)'
                        /\ m.stage = "tally" => Cast(m.term, m.to, m.from)'
                        /\ m.live => m.term <= currentTerm'[m.from]
                        /\ m.live /\ m.term = currentTerm'[m.from] /\ role'[m.from] = "Candidate" =>
                             m.to \notin counted'[m.from]
    BY Zenon DEF VotesInFlight, Cast
  <2>2. CASE m.stage = "call" /\ m.live = FALSE
    BY Zenon, <2>2
  <2>3. CASE m \in rpcs
    <3>1. m.from \in Server /\ m.term \in Nat
      BY Zenon, <2>1, <2>3, RpcType DEF TypeInv, TypeOK
    <3>2. m.live => phase[m.from] = "run" /\ phase'[m.from] = "run"
      BY Zenon, <2>1, <2>3 DEF TypeInv, Alive
    <3>3. /\ m.stage = "reply" /\ m.granted => Cast(m.term, m.to, m.from)
          /\ m.stage = "tally" => Cast(m.term, m.to, m.from)
          /\ m.live => m.term <= currentTerm[m.from]
          /\ m.live /\ m.term = currentTerm[m.from] /\ role[m.from] = "Candidate" =>
               m.to \notin counted[m.from]
      BY Zenon, <1>1, <2>1, <2>3 DEF VotesInFlight
    <3>4. m.live => currentTerm'[m.from] >= currentTerm[m.from]
      BY <1>2, <3>1, <3>2 DEF Aloof
    <3>5. role'[m.from] = "Candidate" =>
            /\ role[m.from] = "Candidate" /\ currentTerm'[m.from] = currentTerm[m.from]
            /\ counted'[m.from] = counted[m.from]
      BY Zenon, <1>2, <3>1 DEF Aloof
    <3>6. m.live => m.term <= currentTerm'[m.from]
      BY <1>2, <3>1, <3>3, <3>4
    <3>7. QED
      BY Zenon, <1>3, <3>3, <3>5, <3>6
  <2>4. QED
    BY Zenon, <2>1, <2>2, <2>3
<1>5. OneVoteEach'
  BY Zenon, <1>1 DEF OneVoteEach
<1>6. CountedWereCast'
  BY Zenon, <1>1, <1>2, <1>3 DEF CountedWereCast, Aloof, Cast
<1>7. LeadersWon'
  <2>1. \A t, c : Won(t, c) => Won(t, c)'
    BY Zenon, <1>3 DEF Won, Cast, Half
  <2>2. (\A e \in elected : Won(e.term, e.leader))'
    BY Zenon, <1>1, <2>1 DEF LeadersWon, Won, Cast
  <2>3. (\A s \in Server : role[s] = "Leader" => [term |-> currentTerm[s], leader |-> s] \in elected)'
    BY Zenon, <1>1, <1>2 DEF LeadersWon, Aloof
  <2>4. (\A s \in Server : phase[s] # "run" => role[s] = "Follower")'
    BY Zenon, <1>1, <1>2 DEF LeadersWon, Aloof
  <2>5. QED
    BY Zenon, <2>2, <2>3, <2>4 DEF LeadersWon
<1>8. QED
  BY Zenon, <1>4, <1>5, <1>6, <1>7

\* The conditions of AloofKeeps that differ from action to action.
AloofStep ==
  /\ ballots \subseteq ballots' /\ elected' = elected
  /\ Sound' => \A s \in Server : Aloof(s)
  /\ \A m \in rpcs' : m.kind = "vote" => m \in rpcs \/ (m.stage = "call" /\ m.live = FALSE)
FollowerAtBoot == \A s \in Server : phase[s] # "run" => role[s] = "Follower"

\* Steps that leave the nodes' part in elections alone.
LEMMA AloofFrame ==
  ASSUME UNCHANGED <<phase, role, currentTerm, voteCount, counted, ballots, elected>>,
         \A m \in rpcs' : m \in rpcs \/ m.kind # "vote"
  PROVE  AloofStep
BY Zenon DEF AloofStep, Aloof

\* Steps of one node, which stays as it is or becomes a follower.
LEMMA AloofOne ==
  ASSUME TypeInv, NEW s \in Server,
         UNCHANGED <<phase, voteCount, counted, ballots, elected>>,
         \A r \in Server : r # s => role'[r] = role[r] /\ currentTerm'[r] = currentTerm[r],
         \/ role'[s] = role[s] /\ currentTerm'[s] = currentTerm[s]
         \/ role'[s] = "Follower" /\ currentTerm'[s] >= currentTerm[s],
         \A m \in rpcs' : m \in rpcs \/ m.kind # "vote"
  PROVE  AloofStep
BY Zenon DEF AloofStep, Aloof

\* A crash or a panic casts and counts no vote, and no answer gets a new reader.
LEMMA DieAloof ==
  ASSUME TypeInv, NEW s \in Server, Die(s), NEW calls \in SUBSET rpcs, rpcs' = Orphaned(calls, s)
  PROVE  AloofStep
<1>1. calls \in SUBSET Rpc
  BY Zenon DEF TypeInv, TypeOK
<1>2. \A m \in rpcs' : m \in rpcs \/ (m.stage = "call" /\ m.live = FALSE)
  <2>1. \A m \in Orphaned(calls, s) :
          \/ m \in calls /\ m.from # s
          \/ m.from = s /\ m.stage = "call" /\ m.live = FALSE
    BY Zenon, <1>1, OrphanedType
  <2>2. QED
    BY Zenon, <2>1
<1>3. \A r \in Server : Aloof(r)
  BY Zenon DEF Die, Aloof, TypeInv, TypeOK
<1>4. UNCHANGED <<ballots, elected>>
  BY Zenon DEF Die
<1>5. QED
  BY Zenon, <1>2, <1>3, <1>4 DEF AloofStep

\* Neither do the steps of a restart.
LEMMA BootAloof ==
  ASSUME TypeInv, FollowerAtBoot, NEW s \in Server, Make(s) \/ startWork(s)
  PROVE  AloofStep
<1>1. UNCHANGED <<role, voteCount, counted, ballots, elected, rpcs>> /\ phase[s] # "run"
  BY Zenon DEF Make, startWork, nodeVars, ghostVars
<1>2. role'[s] = "Follower"
  BY Zenon, <1>1 DEF FollowerAtBoot
<1>3. \A r \in Server : r # s => phase'[r] = phase[r] /\ currentTerm'[r] = currentTerm[r]
  BY Zenon DEF Make, startWork, TypeInv, TypeOK, nodeVars
<1>4. QED
  BY Zenon, <1>1, <1>2, <1>3 DEF AloofStep, Aloof

\* Nor does SendCommitIndex, unless it raises the term of a candidate or leader.
LEMMA SendCommitIndexAloof ==
  ASSUME TypeInv, NEW s \in Server, SendCommitIndex(s)
  PROVE  AloofStep
<1>0. TypeOK /\ reading[s] \in ReadState /\ currentTerm[s] \in Nat
  BY Zenon DEF TypeInv, TypeOK
<1>1. UNCHANGED <<phase, role, voteCount, counted, ballots, elected, rpcs>>
  BY Zenon DEF SendCommitIndex
<1>2. \A r \in Server : r # s => currentTerm'[r] = currentTerm[r]
  BY Zenon, <1>0 DEF SendCommitIndex, TypeOK
<1>3. Sound' => \/ currentTerm'[s] = currentTerm[s]
                \/ role'[s] = "Follower" /\ currentTerm'[s] >= currentTerm[s]
  <2>1. reading[s].term \in Nat
    BY Zenon, <1>0 DEF ReadState
  <2>2. CASE ~ReadRefused(s) /\ reading[s].term > currentTerm[s]
    <3>1. currentTerm'[s] = reading[s].term
      BY Zenon, <1>0, <2>2 DEF SendCommitIndex, TypeOK
    <3>2. role[s] # "Follower" => "termLift" \in flaws'
      BY Zenon, <2>2 DEF SendCommitIndex
    <3>3. QED
      BY Zenon, <1>0, <1>1, <2>1, <2>2, <3>1, <3>2, GreaterGeq DEF Sound, TypeOK
  <2>3. CASE ~(~ReadRefused(s) /\ reading[s].term > currentTerm[s])
    BY Zenon, <1>0, <2>3 DEF SendCommitIndex, TypeOK
  <2>4. QED
    BY Zenon, <2>2, <2>3
<1>4. QED
  BY Zenon, <1>1, <1>2, <1>3 DEF AloofStep, Aloof

\* The handlers and reply handlers of the replication calls.
LEMMA CallAloof ==
  ASSUME TypeInv, NEW m \in rpcs,
         \/ AppendEntries(m) \/ sendAppendEntriesToServer(m)
         \/ InstallSnapshot(m) \/ sendInstallSnapshotToServer(m)
  PROVE  AloofStep
<1>0. /\ TypeOK /\ m \in Rpc /\ m.from \in Server /\ m.to \in Server
      /\ currentTerm \in [Server -> Nat] /\ role \in [Server -> Role]
  BY Zenon, RpcType DEF TypeInv, TypeOK
<1>1. CASE AppendEntries(m)
  <2>1. m \in AppendRequest /\ m.term \in Nat
    <3>1. m \in AppendRequest
      BY Zenon, <1>0, <1>1, RpcType DEF AppendEntries
    <3>2. QED
      BY Zenon, <3>1 DEF AppendRequest
  <2>2. UNCHANGED <<phase, voteCount, counted, ballots, elected>>
    BY Zenon, <1>1 DEF AppendEntries
  <2>3. \A n \in rpcs' : n \in rpcs \/ n.kind # "vote"
    <3>1. \A rterm, xterm, xindex, xlen :
            /\ AppendReply(m, rterm, FALSE, xterm, xindex, xlen).kind = "append"
            /\ AppendReply(m, rterm, TRUE, xterm, xindex, xlen).kind = "append"
      BY Zenon DEF AppendReply
    <3>2. \E reply : rpcs' = Answered(m, reply) /\ reply.kind = "append"
      <4>1. CASE AppendRefused(m)
        BY Zenon, <3>1, <4>1 DEF AppendRefused
      <4>2. CASE AppendAccepted(m)
        BY Zenon, <3>1, <4>2 DEF AppendAccepted
      <4>3. QED
        BY Zenon, <1>1, <4>1, <4>2 DEF AppendEntries
    <3>3. QED
      BY Zenon, <3>2 DEF Answered
  <2>4. /\ role' = [role EXCEPT ![m.to] = IF m.term > currentTerm[m.to] THEN "Follower" ELSE @]
        /\ currentTerm' = [currentTerm EXCEPT ![m.to] = IF m.term > @ THEN m.term ELSE @]
    <3>1. CASE AppendRefused(m)
      <4>1. MaxOf(currentTerm[m.to], m.term) =
              IF m.term > currentTerm[m.to] THEN m.term ELSE currentTerm[m.to]
        BY Zenon, <1>0, <2>1, MaxOfCases
      <4>2. QED
        BY Zenon, <3>1, <4>1 DEF AppendRefused
    <3>2. CASE AppendAccepted(m)
      <4>1. m.term = IF m.term > currentTerm[m.to] THEN m.term ELSE currentTerm[m.to]
        BY <1>0, <2>1, <3>2 DEF AppendAccepted
      <4>2. QED
        BY Zenon, <3>2, <4>1 DEF AppendAccepted
    <3>3. QED
      BY Zenon, <1>1, <3>1, <3>2 DEF AppendEntries
  <2>5. /\ \A r \in Server : r # m.to => role'[r] = role[r] /\ currentTerm'[r] = currentTerm[r]
        /\ \/ role'[m.to] = role[m.to] /\ currentTerm'[m.to] = currentTerm[m.to]
           \/ role'[m.to] = "Follower" /\ currentTerm'[m.to] >= currentTerm[m.to]
    BY <1>0, <2>1, <2>4, Raised
  <2>6. QED
    BY Zenon, <1>0, <2>2, <2>3, <2>5, AloofOne
<1>2. CASE sendAppendEntriesToServer(m)
  <2>1. m.rterm \in Nat
    <3>1. m \in AppendAnswer
      BY Zenon, <1>0, <1>2, RpcType DEF sendAppendEntriesToServer
    <3>2. QED
      BY Zenon, <3>1 DEF AppendAnswer
  <2>2. UNCHANGED <<phase, voteCount, counted, ballots, elected>> /\ rpcs' \subseteq rpcs
    BY Zenon, <1>2 DEF sendAppendEntriesToServer, ghostVars
  <2>3. CASE UNCHANGED <<role, currentTerm>>
    BY Zenon, <2>2, <2>3, AloofFrame
  <2>4. CASE AppendReplyOutdated(m)
    <3>1. /\ \A r \in Server : r # m.from => role'[r] = role[r] /\ currentTerm'[r] = currentTerm[r]
          /\ role'[m.from] = "Follower" /\ currentTerm'[m.from] >= currentTerm[m.from]
      BY <1>0, <2>1, <2>4 DEF AppendReplyOutdated
    <3>2. QED
      BY Zenon, <1>0, <2>2, <3>1, AloofOne
  <2>5. QED
    BY Zenon, <1>2, <2>3, <2>4 DEF sendAppendEntriesToServer, AppendReplySuccess, AppendReplyConflict,
                            AppendReplyIgnored
<1>3. CASE InstallSnapshot(m)
  <2>1. m.term \in Nat
    <3>1. m \in InstallCall
      BY Zenon, <1>0, <1>3, RpcType DEF InstallSnapshot
    <3>2. QED
      BY Zenon, <3>1 DEF InstallCall
  <2>2. UNCHANGED <<phase, voteCount, counted, ballots, elected>>
    BY Zenon, <1>3 DEF InstallSnapshot
  <2>3. \A n \in rpcs' : n \in rpcs \/ n.kind # "vote"
    <3>1. \A rterm : InstallReply(m, rterm).kind = "install"
      BY Zenon DEF InstallReply
    <3>2. CASE InstallRefused(m)
      <4>1. \E reply : rpcs' = Answered(m, reply) /\ reply.kind = "install"
        BY Zenon, <3>1, <3>2 DEF InstallRefused
      <4>2. QED
        BY Zenon, <4>1 DEF Answered
    <3>3. CASE InstallTaken(m)
      BY Zenon, <3>3 DEF InstallTaken
    <3>4. QED
      BY Zenon, <1>3, <3>2, <3>3 DEF InstallSnapshot
  <2>4. /\ \A r \in Server : r # m.to => role'[r] = role[r] /\ currentTerm'[r] = currentTerm[r]
        /\ \/ role'[m.to] = role[m.to] /\ currentTerm'[m.to] = currentTerm[m.to]
           \/ role'[m.to] = "Follower" /\ currentTerm'[m.to] >= currentTerm[m.to]
    <3>1. CASE InstallRefused(m)
      <4>1. /\ currentTerm' = [currentTerm EXCEPT ![m.to] = MaxOf(@, m.term)]
            /\ role' = [role EXCEPT ![m.to] = IF m.term < currentTerm[m.to] THEN @ ELSE "Follower"]
        BY Zenon, <3>1 DEF InstallRefused
      <4>2. /\ \A r \in Server : r # m.to => role'[r] = role[r] /\ currentTerm'[r] = currentTerm[r]
            /\ currentTerm'[m.to] = MaxOf(currentTerm[m.to], m.term)
            /\ role'[m.to] = (IF m.term < currentTerm[m.to] THEN role[m.to] ELSE "Follower")
        BY Zenon, <1>0, <4>1
      <4>3. MaxOf(currentTerm[m.to], m.term) >= currentTerm[m.to]
            /\ (m.term < currentTerm[m.to] =>
                  MaxOf(currentTerm[m.to], m.term) = currentTerm[m.to])
        BY <1>0, <2>1 DEF MaxOf
      <4>4. QED
        BY Zenon, <4>2, <4>3
    <3>2. CASE InstallTaken(m)
      BY Zenon, <1>0, <2>1, <3>2 DEF InstallTaken
    <3>3. QED
      BY Zenon, <1>3, <3>1, <3>2 DEF InstallSnapshot
  <2>5. QED
    BY Zenon, <1>0, <2>2, <2>3, <2>4, AloofOne
<1>4. CASE sendInstallSnapshotToServer(m)
  <2>1. m.rterm \in Nat
    <3>1. m \in InstallAnswer
      BY Zenon, <1>0, <1>4, RpcType DEF sendInstallSnapshotToServer
    <3>2. QED
      BY Zenon, <3>1 DEF InstallAnswer
  <2>2. UNCHANGED <<phase, voteCount, counted, ballots, elected>> /\ rpcs' \subseteq rpcs
    BY Zenon, <1>4 DEF sendInstallSnapshotToServer, ghostVars
  <2>3. /\ \A r \in Server : r # m.from => role'[r] = role[r] /\ currentTerm'[r] = currentTerm[r]
        /\ \/ role'[m.from] = role[m.from] /\ currentTerm'[m.from] = currentTerm[m.from]
           \/ role'[m.from] = "Follower" /\ currentTerm'[m.from] >= currentTerm[m.from]
    <3>1. /\ currentTerm' = [currentTerm EXCEPT ![m.from] = MaxOf(@, m.rterm)]
          /\ role' = [role EXCEPT ![m.from] = IF m.rterm > currentTerm[m.from] THEN "Follower" ELSE @]
      BY Zenon, <1>4 DEF sendInstallSnapshotToServer
    <3>2. QED
      BY Zenon, <1>0, <2>1, <3>1, MaxOfCases, MaxOfGeq DEF TypeOK
  <2>4. QED
    BY Zenon, <1>0, <2>2, <2>3, AloofOne
<1>5. QED
  BY Zenon, <1>1, <1>2, <1>3, <1>4

\* Votes and victories are never taken back.
LEMMA CastStays ==
  ASSUME ballots \subseteq ballots'
  PROVE  /\ \A t, v, c : Cast(t, v, c) => Cast(t, v, c)'
         /\ \A t, c : Won(t, c) => Won(t, c)'
BY Zenon DEF Cast, Won, Half

\* A new election starts with one vote counted, its own, in a term nobody won for it.
LEMMA StartElectionWins ==
  ASSUME TypeInv, TypeInv', ElectionInv, NEW s \in Server, StartElection(s)
  PROVE  ElectionInv'
<1> DEFINE t == currentTerm[s] + 1
           call(p) == [kind |-> "vote", stage |-> "call", from |-> s, to |-> p, live |-> TRUE,
                       term |-> t, lastIndex |-> LastIndex(s), lastTerm |-> LastTerm(s)]
<1>0. SUFFICES ASSUME Sound PROVE (VotesInFlight /\ OneVoteEach /\ CountedWereCast /\ LeadersWon)'
  BY Zenon DEF ElectionInv, Sound, StartElection
<1>1. VotesInFlight /\ OneVoteEach /\ CountedWereCast /\ LeadersWon /\ TypeOK
  BY Zenon, <1>0 DEF ElectionInv, TypeInv
<1>2. /\ currentTerm[s] \in Nat /\ t \in Nat /\ currentTerm'[s] = t /\ role'[s] = "Candidate"
      /\ voteCount'[s] = 1 /\ counted'[s] = {s} /\ phase[s] = "run"
      /\ \A r \in Server : r # s => /\ currentTerm'[r] = currentTerm[r] /\ role'[r] = role[r]
                                    /\ voteCount'[r] = voteCount[r] /\ counted'[r] = counted[r]
  <2>1. currentTerm[s] \in Nat /\ phase[s] = "run"
    BY Zenon, <1>1 DEF StartElection, TypeOK, TypeInv, Alive
  <2>2. t \in Nat
    BY <2>1
  <2>3. /\ currentTerm' = [currentTerm EXCEPT ![s] = t]
        /\ role' = [role EXCEPT ![s] = "Candidate"]
        /\ voteCount' = [voteCount EXCEPT ![s] = 1]
        /\ counted' = [counted EXCEPT ![s] = {s}]
    BY Zenon DEF StartElection
  <2>4. /\ DOMAIN currentTerm = Server /\ DOMAIN role = Server
        /\ DOMAIN voteCount = Server /\ DOMAIN counted = Server
    BY Zenon, <1>1 DEF TypeOK
  <2> HIDE DEF t
  <2>5. QED
    BY Zenon, <2>1, <2>2, <2>3, <2>4
<1>3. ballots' = ballots \cup {[term |-> t, voter |-> s, cand |-> s]} /\ UNCHANGED <<elected, phase>>
  BY Zenon DEF StartElection
<1>4. rpcs' = rpcs \cup {call(p) : p \in Peers(s)}
  BY Zenon DEF StartElection
<1>5. \A p \in Peers(s) : /\ call(p).kind = "vote" /\ call(p).stage = "call" /\ call(p).from = s
                          /\ call(p).to = p /\ call(p).term = t /\ p # s
  BY Zenon DEF Peers
<1>6. ASSUME NEW m \in rpcs, m.kind = "vote"
      PROVE  /\ m.from \in Server /\ m.term \in Nat
             /\ m.live /\ m.from = s => m.term < t
  <2>1. m.from \in Server /\ m.term \in Nat
    BY Zenon, <1>1, <1>6, RpcType DEF TypeOK
  <2>2. m.live => m.term <= currentTerm[m.from]
    BY Zenon, <1>1, <1>6 DEF VotesInFlight
  <2>3. QED
    BY Zenon, <1>2, <2>1, <2>2, LeqSucc
<1> HIDE DEF t
<1>7. (\A a, v, c : Cast(a, v, c) => Cast(a, v, c)') /\ (\A a, c : Won(a, c) => Won(a, c)')
  BY Zenon, <1>3, CastStays
<1>8. VotesInFlight'
  <2>1. SUFFICES ASSUME NEW m \in rpcs', m.kind = "vote"
                 PROVE  /\ m.stage = "reply" /\ m.granted => Cast(m.term, m.to, m.from)'
                        /\ m.stage = "tally" => Cast(m.term, m.to, m.from)'
                        /\ m.live => m.term <= currentTerm'[m.from]
                        /\ m.live /\ m.term = currentTerm'[m.from] /\ role'[m.from] = "Candidate" =>
                             m.to \notin counted'[m.from]
    BY Zenon DEF VotesInFlight, Cast
  <2>2. CASE m \in rpcs
    <3>1. /\ m.stage = "reply" /\ m.granted => Cast(m.term, m.to, m.from)
          /\ m.stage = "tally" => Cast(m.term, m.to, m.from)
          /\ m.live => m.term <= currentTerm[m.from]
          /\ m.live /\ m.term = currentTerm[m.from] /\ role[m.from] = "Candidate" =>
               m.to \notin counted[m.from]
      BY Zenon, <1>1, <2>1, <2>2 DEF VotesInFlight
    <3>2. m.from \in Server /\ m.term \in Nat /\ (m.live /\ m.from = s => m.term < t)
      BY Zenon, <1>6, <2>1, <2>2
    <3>3. CASE m.from = s
      BY <1>2, <1>7, <3>1, <3>2, <3>3
    <3>4. CASE m.from # s
      BY Zenon, <1>2, <1>7, <3>1, <3>2, <3>4
    <3>5. QED
      BY Zenon, <3>3, <3>4
  <2>3. ASSUME NEW p \in Peers(s), m = call(p)
        PROVE  /\ m.stage = "call" /\ m.from = s /\ m.term = t /\ m.to # s
    BY Zenon, <1>5, <2>3
  <2>4. CASE m \notin rpcs
    <3>1. m.stage = "call" /\ m.from = s /\ m.term = t /\ m.to # s
      BY Zenon, <1>4, <2>1, <2>3, <2>4
    <3>2. QED
      BY Zenon, <1>2, <3>1, LeqRefl
  <2>5. QED
    BY Zenon, <2>2, <2>4
<1>9. OneVoteEach'
  <2>1. SUFFICES ASSUME NEW m \in rpcs', NEW n \in rpcs', m.kind = "vote", n.kind = "vote",
                        m.live, n.live, m.from = n.from, m.to = n.to, m.term = n.term
                 PROVE  m = n
    BY Zenon DEF OneVoteEach
  <2>2. CASE m \in rpcs /\ n \in rpcs
    BY Zenon, <1>1, <2>1, <2>2 DEF OneVoteEach
  <2>3. \A x \in rpcs' : x \in rpcs \/ \E p \in Peers(s) : x = call(p)
    BY Zenon, <1>4
  <2> HIDE DEF call
  <2>4. CASE m \notin rpcs /\ n \notin rpcs
    BY <1>5, <2>1, <2>3, <2>4
  <2>5. CASE m \in rpcs /\ n \notin rpcs
    <3>1. n.from = s /\ n.term = t
      BY <1>5, <2>1, <2>3, <2>5
    <3>2. m.term \in Nat /\ m.term < t
      BY Zenon, <1>6, <2>1, <2>5, <3>1
    <3>3. QED
      BY ZenonT(30), <1>2, <2>1, <3>1, <3>2, LessIrrefl
  <2>6. CASE m \notin rpcs /\ n \in rpcs
    <3>1. m.from = s /\ m.term = t
      BY <1>5, <2>1, <2>3, <2>6
    <3>2. n.term \in Nat /\ n.term < t
      BY Zenon, <1>6, <2>1, <2>6, <3>1
    <3>3. QED
      BY <1>2, <2>1, <3>1, <3>2
  <2>7. QED
    BY Zenon, <2>2, <2>4, <2>5, <2>6
<1>10. CountedWereCast'
  <2>1. SUFFICES ASSUME NEW r \in Server, role'[r] = "Candidate"
                 PROVE  /\ voteCount'[r] = Cardinality(counted'[r])
                        /\ \A v \in counted'[r] :
                             [term |-> currentTerm'[r], voter |-> v, cand |-> r] \in ballots'
    BY Zenon DEF CountedWereCast, Cast
  <2>2. CASE r = s
    <3>1. Cardinality({s}) = 1
      BY Zenon, FS_Singleton
    <3>2. QED
      BY Zenon, <1>2, <1>3, <2>2, <3>1
  <2>3. CASE r # s
    <3>1. /\ voteCount[r] = Cardinality(counted[r])
          /\ \A v \in counted[r] : [term |-> currentTerm[r], voter |-> v, cand |-> r] \in ballots
      BY Zenon, <1>1, <1>2, <2>1, <2>3 DEF CountedWereCast, Cast
    <3>2. QED
      BY Zenon, <1>2, <1>3, <2>3, <3>1
  <2>4. QED
    BY Zenon, <2>2, <2>3
<1>11. LeadersWon'
  <2>1. (\A e \in elected : Won(e.term, e.leader))'
    BY Zenon, <1>1, <1>3, <1>7 DEF LeadersWon, Won, Cast
  <2>2. QED
    BY Zenon, <1>1, <1>2, <1>3, <2>1 DEF LeadersWon
<1>12. QED
  BY Zenon, <1>8, <1>9, <1>10, <1>11

\* A vote in an answer was cast by the voter, who is not counted yet.
LEMMA RequestVoteWins ==
  ASSUME TypeInv, TypeInv', ElectionInv, NEW m \in rpcs, RequestVote(m)
  PROVE  ElectionInv'
<1> DEFINE s == m.to
           newer == m.term > currentTerm[s]
           grant == VoteFree(m) /\ UpToDate(m)
           reply == [kind |-> "vote", stage |-> "reply", from |-> m.from, to |-> s,
                     live |-> TRUE, term |-> m.term,
                     rterm |-> MaxOf(currentTerm[s], m.term), granted |-> grant]
<1>0. SUFFICES ASSUME Sound PROVE (VotesInFlight /\ OneVoteEach /\ CountedWereCast /\ LeadersWon)'
  BY Zenon DEF ElectionInv, Sound, RequestVote
<1>1. VotesInFlight /\ OneVoteEach /\ CountedWereCast /\ LeadersWon /\ TypeOK /\ m \in VoteCall
  BY Zenon, <1>0, RpcType DEF ElectionInv, TypeInv, TypeOK, RequestVote
<1>2. /\ s \in Server /\ m.from \in Server /\ m.term \in Nat /\ currentTerm[s] \in Nat
      /\ m.kind = "vote"
  BY Zenon, <1>1 DEF VoteCall, TypeOK
<1>3. /\ UNCHANGED <<phase, voteCount, elected, counted>>
      /\ rpcs' = Answered(m, reply)
      /\ ballots' = IF grant
                    THEN ballots \cup {[term |-> m.term, voter |-> s, cand |-> m.from]}
                    ELSE ballots
  BY Zenon DEF RequestVote
<1>4. /\ \A r \in Server : r # s => currentTerm'[r] = currentTerm[r] /\ role'[r] = role[r]
      /\ currentTerm'[s] >= currentTerm[s]
      /\ role'[s] = "Follower" \/ (role'[s] = role[s] /\ currentTerm'[s] = currentTerm[s])
  <2>1. /\ currentTerm' = [currentTerm EXCEPT ![s] = MaxOf(@, m.term)]
        /\ role' = [role EXCEPT ![s] = IF grant \/ newer THEN "Follower" ELSE @]
    BY Zenon DEF RequestVote
  <2>2. currentTerm \in [Server -> Nat] /\ role \in [Server -> Role]
    BY Zenon, <1>1 DEF TypeOK
  <2> HIDE DEF grant
  <2>3. QED
    BY <1>2, <2>1, <2>2 DEF MaxOf
<1>5. /\ reply.kind = "vote" /\ reply.stage = "reply" /\ reply.from = m.from /\ reply.to = m.to
      /\ reply.term = m.term /\ reply.granted = grant
  BY Zenon
<1> HIDE DEF grant, reply
<1>6. /\ ballots \subseteq ballots'
      /\ \A a, v, c : Cast(a, v, c) => Cast(a, v, c)'
      /\ \A a, c : Won(a, c) => Won(a, c)'
  BY Zenon, <1>3, CastStays
<1>7. \A n \in rpcs' : (n \in rpcs /\ n # m) \/ (n = reply /\ m.live)
  BY Zenon, <1>3 DEF Answered
<1>8. /\ m.live => m.term <= currentTerm[m.from]
      /\ m.live /\ m.term = currentTerm[m.from] /\ role[m.from] = "Candidate" =>
           m.to \notin counted[m.from]
  BY Zenon, <1>1, <1>2 DEF VotesInFlight
<1>9. \A r \in Server : /\ currentTerm[r] \in Nat /\ currentTerm'[r] \in Nat
                        /\ currentTerm'[r] >= currentTerm[r]
                        /\ role'[r] = "Candidate" => /\ role[r] = "Candidate"
                                                     /\ currentTerm'[r] = currentTerm[r]
                        /\ role'[r] = "Leader" => /\ role[r] = "Leader"
                                                  /\ currentTerm'[r] = currentTerm[r]
                        /\ role'[r] = role[r] \/ role'[r] = "Follower"
  <2>1. \A r \in Server : currentTerm[r] \in Nat /\ currentTerm'[r] \in Nat
    BY Zenon DEF TypeInv, TypeOK
  <2>2. QED
    BY <1>4, <2>1
<1>10. VotesInFlight'
  <2>1. SUFFICES ASSUME NEW n \in rpcs', n.kind = "vote"
                 PROVE  /\ n.stage = "reply" /\ n.granted => Cast(n.term, n.to, n.from)'
                        /\ n.stage = "tally" => Cast(n.term, n.to, n.from)'
                        /\ n.live => n.term <= currentTerm'[n.from]
                        /\ n.live /\ n.term = currentTerm'[n.from] /\ role'[n.from] = "Candidate" =>
                             n.to \notin counted'[n.from]
    BY Zenon DEF VotesInFlight, Cast
  <2>2. CASE n \in rpcs
    <3>1. /\ n.stage = "reply" /\ n.granted => Cast(n.term, n.to, n.from)
          /\ n.stage = "tally" => Cast(n.term, n.to, n.from)
          /\ n.live => n.term <= currentTerm[n.from]
          /\ n.live /\ n.term = currentTerm[n.from] /\ role[n.from] = "Candidate" =>
               n.to \notin counted[n.from]
      BY Zenon, <1>1, <2>1, <2>2 DEF VotesInFlight
    <3>2. n.from \in Server /\ n.term \in Nat
      BY Zenon, <1>1, <2>1, <2>2, RpcType DEF TypeOK
    <3>3. n.live => n.term <= currentTerm'[n.from]
      <4>1. /\ currentTerm[n.from] \in Nat /\ currentTerm'[n.from] \in Nat
            /\ currentTerm'[n.from] >= currentTerm[n.from]
        BY Zenon, <1>9, <3>2
      <4>2. n.live => n.term <= currentTerm[n.from]
        BY Zenon, <3>1
      <4>3. QED
        BY Zenon, <3>2, <4>1, <4>2, LeqGeq
    <3>4. QED
      BY Zenon, <1>3, <1>6, <1>9, <3>1, <3>2, <3>3
  <2>3. CASE n = reply /\ m.live
    <3>1. n.stage = "reply" /\ n.from = m.from /\ n.to = m.to /\ n.term = m.term /\ n.granted = grant
      BY Zenon, <1>5, <2>3
    <3>2. grant => Cast(n.term, n.to, n.from)'
      BY Zenon, <1>3, <3>1 DEF Cast
    <3>3. n.term <= currentTerm'[n.from]
      BY <1>2, <1>8, <1>9, <2>3, <3>1
    <3>4. n.term = currentTerm'[n.from] /\ role'[n.from] = "Candidate" => n.to \notin counted'[n.from]
      <4>1. SUFFICES ASSUME m.term = currentTerm'[m.from], role'[m.from] = "Candidate"
                     PROVE  m.to \notin counted'[m.from]
        BY Zenon, <3>1
      <4>2. role[m.from] = "Candidate" /\ m.term = currentTerm[m.from]
        BY Zenon, <1>2, <1>9, <4>1
      <4>3. QED
        BY Zenon, <1>3, <1>8, <2>3, <4>2
    <3>5. QED
      BY Zenon, <3>1, <3>2, <3>3, <3>4
  <2>4. QED
    BY Zenon, <1>7, <2>2, <2>3
<1>11. OneVoteEach'
  <2>1. SUFFICES ASSUME NEW x \in rpcs', NEW y \in rpcs', x.kind = "vote", y.kind = "vote",
                        x.live, y.live, x.from = y.from, x.to = y.to, x.term = y.term
                 PROVE  x = y
    BY Zenon DEF OneVoteEach
  <2>2. \A n \in rpcs : /\ n.kind = "vote" /\ n.live /\ m.live /\ n.from = m.from /\ n.to = m.to
                        /\ n.term = m.term
                        => n = m
    BY Zenon, <1>1, <1>2 DEF OneVoteEach
  <2>3. CASE x \in rpcs /\ y \in rpcs
    BY Zenon, <1>1, <2>1, <2>3 DEF OneVoteEach
  <2>4. CASE x \notin rpcs \/ y \notin rpcs
    BY Zenon, <1>5, <1>7, <2>1, <2>2, <2>4
  <2>5. QED
    BY Zenon, <2>3, <2>4
<1>12. CountedWereCast'
  <2>1. SUFFICES ASSUME NEW r \in Server, role'[r] = "Candidate"
                 PROVE  /\ voteCount'[r] = Cardinality(counted'[r])
                        /\ \A v \in counted'[r] :
                             [term |-> currentTerm'[r], voter |-> v, cand |-> r] \in ballots'
    BY Zenon DEF CountedWereCast, Cast
  <2>2. role[r] = "Candidate" /\ currentTerm'[r] = currentTerm[r]
    BY Zenon, <1>9, <2>1
  <2>3. /\ voteCount[r] = Cardinality(counted[r])
        /\ \A v \in counted[r] : [term |-> currentTerm[r], voter |-> v, cand |-> r] \in ballots
    BY Zenon, <1>1, <2>2 DEF CountedWereCast, Cast
  <2>4. QED
    BY Zenon, <1>3, <1>6, <2>2, <2>3
<1>13. LeadersWon'
  <2>1. (\A e \in elected : Won(e.term, e.leader))'
    BY Zenon, <1>1, <1>3, <1>6 DEF LeadersWon, Won, Cast
  <2>2. \A r \in Server : role'[r] = "Leader" => [term |-> currentTerm'[r], leader |-> r] \in elected'
    BY Zenon, <1>1, <1>3, <1>9 DEF LeadersWon
  <2>3. \A r \in Server : phase'[r] # "run" => role'[r] = "Follower"
    BY Zenon, <1>1, <1>3, <1>9 DEF LeadersWon
  <2>4. QED
    BY Zenon, <2>1, <2>2, <2>3 DEF LeadersWon
<1>14. QED
  BY Zenon, <1>10, <1>11, <1>12, <1>13

\* procVoteAnswer passes on a vote of the current election or drops it.
LEMMA ProcVoteAnswerWins ==
  ASSUME TypeInv, TypeInv', ElectionInv, NEW m \in rpcs, procVoteAnswer(m)
  PROVE  ElectionInv'
<1> DEFINE s == m.from
           tally == [kind |-> "vote", stage |-> "tally", from |-> s, to |-> m.to,
                     live |-> TRUE, term |-> m.term]
<1>0. SUFFICES ASSUME Sound PROVE (VotesInFlight /\ OneVoteEach /\ CountedWereCast /\ LeadersWon)'
  BY Zenon DEF ElectionInv, Sound, procVoteAnswer, ghostVars
<1>1. /\ VotesInFlight /\ OneVoteEach /\ CountedWereCast /\ LeadersWon /\ TypeOK
      /\ m \in VoteReply /\ m.kind = "vote" /\ m.stage = "reply"
  BY Zenon, <1>0, RpcType DEF ElectionInv, TypeInv, TypeOK, procVoteAnswer
<1>2. s \in Server /\ m.to \in Server /\ m.term \in Nat /\ m.rterm \in Nat /\ m.live
  BY Zenon, <1>1 DEF VoteReply, TypeInv, Alive
<1>3. UNCHANGED <<phase, voteCount, elected, counted, ballots>>
  BY Zenon DEF procVoteAnswer, ghostVars
<1>4. \A n \in rpcs' : (n \in rpcs /\ n # m) \/ (n = tally /\ m.granted)
  BY Zenon DEF procVoteAnswer
<1>5. /\ \A r \in Server : r # s => currentTerm'[r] = currentTerm[r] /\ role'[r] = role[r]
      /\ currentTerm'[s] >= currentTerm[s]
      /\ role'[s] = "Follower" \/ (role'[s] = role[s] /\ currentTerm'[s] = currentTerm[s])
  <2>1. PICK outdated \in BOOLEAN :
          /\ outdated => m.rterm > currentTerm[s]
          /\ currentTerm' = [currentTerm EXCEPT ![s] = IF outdated THEN m.rterm ELSE @]
          /\ role' = [role EXCEPT ![s] = IF outdated THEN "Follower" ELSE @]
    BY Zenon DEF procVoteAnswer
  <2>2. currentTerm \in [Server -> Nat] /\ role \in [Server -> Role]
    BY Zenon, <1>1 DEF TypeOK
  <2>3. QED
    BY <1>2, <2>1, <2>2
<1>6. /\ tally.kind = "vote" /\ tally.stage = "tally" /\ tally.from = m.from /\ tally.to = m.to
      /\ tally.term = m.term
  BY Zenon
<1> HIDE DEF tally
<1>7. (\A a, v, c : Cast(a, v, c) => Cast(a, v, c)') /\ (\A a, c : Won(a, c) => Won(a, c)')
  BY Zenon, <1>3, CastStays
<1>8. /\ m.granted => Cast(m.term, m.to, m.from)
      /\ m.term <= currentTerm[m.from]
      /\ m.term = currentTerm[m.from] /\ role[m.from] = "Candidate" => m.to \notin counted[m.from]
  BY Zenon, <1>1, <1>2 DEF VotesInFlight
<1>9. \A r \in Server : /\ currentTerm[r] \in Nat /\ currentTerm'[r] \in Nat
                        /\ currentTerm'[r] >= currentTerm[r]
                        /\ role'[r] = "Candidate" => /\ role[r] = "Candidate"
                                                     /\ currentTerm'[r] = currentTerm[r]
                        /\ role'[r] = "Leader" => /\ role[r] = "Leader"
                                                  /\ currentTerm'[r] = currentTerm[r]
                        /\ role'[r] = role[r] \/ role'[r] = "Follower"
  <2>1. \A r \in Server : currentTerm[r] \in Nat /\ currentTerm'[r] \in Nat
    BY Zenon DEF TypeInv, TypeOK
  <2>2. QED
    BY <1>5, <2>1
<1>10. VotesInFlight'
  <2>1. SUFFICES ASSUME NEW n \in rpcs', n.kind = "vote"
                 PROVE  /\ n.stage = "reply" /\ n.granted => Cast(n.term, n.to, n.from)'
                        /\ n.stage = "tally" => Cast(n.term, n.to, n.from)'
                        /\ n.live => n.term <= currentTerm'[n.from]
                        /\ n.live /\ n.term = currentTerm'[n.from] /\ role'[n.from] = "Candidate" =>
                             n.to \notin counted'[n.from]
    BY Zenon DEF VotesInFlight, Cast
  <2>2. CASE n \in rpcs
    <3>1. /\ n.stage = "reply" /\ n.granted => Cast(n.term, n.to, n.from)
          /\ n.stage = "tally" => Cast(n.term, n.to, n.from)
          /\ n.live => n.term <= currentTerm[n.from]
          /\ n.live /\ n.term = currentTerm[n.from] /\ role[n.from] = "Candidate" =>
               n.to \notin counted[n.from]
      BY Zenon, <1>1, <2>1, <2>2 DEF VotesInFlight
    <3>2. n.from \in Server /\ n.term \in Nat
      BY Zenon, <1>1, <2>1, <2>2, RpcType DEF TypeOK
    <3>3. n.live => n.term <= currentTerm'[n.from]
      <4>1. /\ currentTerm[n.from] \in Nat /\ currentTerm'[n.from] \in Nat
            /\ currentTerm'[n.from] >= currentTerm[n.from]
        BY Zenon, <1>9, <3>2
      <4>2. n.live => n.term <= currentTerm[n.from]
        BY Zenon, <3>1
      <4>3. QED
        BY Zenon, <3>2, <4>1, <4>2, LeqGeq
    <3>4. QED
      BY Zenon, <1>3, <1>7, <1>9, <3>1, <3>2, <3>3
  <2>3. CASE n = tally /\ m.granted
    <3>1. n.stage = "tally" /\ n.from = m.from /\ n.to = m.to /\ n.term = m.term
      BY Zenon, <1>6, <2>3
    <3>2. Cast(n.term, n.to, n.from)'
      BY Zenon, <1>7, <1>8, <2>3, <3>1
    <3>3. n.term <= currentTerm'[n.from]
      <4>1. /\ currentTerm[m.from] \in Nat /\ currentTerm'[m.from] \in Nat
            /\ currentTerm'[m.from] >= currentTerm[m.from]
        BY Zenon, <1>2, <1>9
      <4>2. m.term <= currentTerm'[m.from]
        BY Zenon, <1>2, <1>8, <4>1, LeqGeq
      <4>3. QED
        BY Zenon, <3>1, <4>2
    <3>4. n.term = currentTerm'[n.from] /\ role'[n.from] = "Candidate" => n.to \notin counted'[n.from]
      <4>1. SUFFICES ASSUME m.term = currentTerm'[m.from], role'[m.from] = "Candidate"
                     PROVE  m.to \notin counted'[m.from]
        BY Zenon, <3>1
      <4>2. role[m.from] = "Candidate" /\ m.term = currentTerm[m.from]
        BY Zenon, <1>2, <1>9, <4>1
      <4>3. QED
        BY Zenon, <1>3, <1>8, <4>2
    <3>5. QED
      BY Zenon, <3>1, <3>2, <3>3, <3>4
  <2>4. QED
    BY Zenon, <1>4, <2>2, <2>3
<1>11. OneVoteEach'
  <2>1. SUFFICES ASSUME NEW x \in rpcs', NEW y \in rpcs', x.kind = "vote", y.kind = "vote",
                        x.live, y.live, x.from = y.from, x.to = y.to, x.term = y.term
                 PROVE  x = y
    BY Zenon DEF OneVoteEach
  <2>2. \A n \in rpcs : /\ n.kind = "vote" /\ n.live /\ n.from = m.from /\ n.to = m.to
                        /\ n.term = m.term
                        => n = m
    BY Zenon, <1>1, <1>2 DEF OneVoteEach
  <2>3. CASE x \in rpcs /\ y \in rpcs
    BY Zenon, <1>1, <2>1, <2>3 DEF OneVoteEach
  <2>4. CASE x \notin rpcs \/ y \notin rpcs
    BY Zenon, <1>4, <1>6, <2>1, <2>2, <2>4
  <2>5. QED
    BY Zenon, <2>3, <2>4
<1>12. CountedWereCast'
  BY Zenon, <1>1, <1>3, <1>9 DEF CountedWereCast, Cast
<1>13. LeadersWon'
  <2>1. (\A e \in elected : Won(e.term, e.leader))'
    BY Zenon, <1>1, <1>3, <1>7 DEF LeadersWon, Won, Cast
  <2>2. \A r \in Server : role'[r] = "Leader" => [term |-> currentTerm'[r], leader |-> r] \in elected'
    BY Zenon, <1>1, <1>3, <1>9 DEF LeadersWon
  <2>3. \A r \in Server : phase'[r] # "run" => role'[r] = "Follower"
    BY Zenon, <1>1, <1>3, <1>9 DEF LeadersWon
  <2>4. QED
    BY Zenon, <2>1, <2>2, <2>3 DEF LeadersWon
<1>14. QED
  BY Zenon, <1>10, <1>11, <1>12, <1>13

\* collectVote counts a voter once, and the winner's voters are more than half.
LEMMA CollectVoteWins ==
  ASSUME TypeInv, TypeInv', ElectionInv, NEW m \in rpcs, NEW outTime \in BOOLEAN,
         collectVote(m, outTime)
  PROVE  ElectionInv'
<1> DEFINE s == m.from
           late == voteCount[s] > Half
           wins == ~late /\ voteCount[s] + 1 > Half /\ role[s] = "Candidate" /\ ~outTime
<1>0. SUFFICES ASSUME Sound' PROVE (VotesInFlight /\ OneVoteEach /\ CountedWereCast /\ LeadersWon)'
  BY Zenon DEF ElectionInv
<1>1. Sound /\ flaws \subseteq flaws'
  BY Zenon, <1>0 DEF collectVote, Sound
<1>2. /\ VotesInFlight /\ OneVoteEach /\ CountedWereCast /\ LeadersWon /\ TypeOK
      /\ m \in VoteTally /\ m.kind = "vote" /\ m.stage = "tally"
  BY Zenon, <1>1, RpcType DEF ElectionInv, TypeInv, TypeOK, collectVote
<1>3. s \in Server /\ m.to \in Server /\ m.term \in Nat /\ m.live /\ phase[s] = "run"
  BY Zenon, <1>2 DEF VoteTally, TypeInv, Alive
<1>4. UNCHANGED <<phase, currentTerm, ballots>> /\ rpcs' = rpcs \ {m}
  BY Zenon DEF collectVote
<1>5. ~late /\ role[s] = "Candidate" => m.term = currentTerm[s]
  BY Zenon, <1>0 DEF collectVote, Sound
<1>6. /\ Cast(m.term, m.to, s)
      /\ m.term = currentTerm[s] /\ role[s] = "Candidate" => m.to \notin counted[s]
  BY Zenon, <1>2, <1>3 DEF VotesInFlight
<1>7. /\ voteCount' = [voteCount EXCEPT ![s] = IF late THEN @ ELSE @ + 1]
      /\ counted' = [counted EXCEPT ![s] = IF late THEN @ ELSE @ \cup {m.to}]
      /\ role' = [role EXCEPT ![s] = IF wins THEN "Leader" ELSE @]
      /\ elected' = IF wins THEN elected \cup {[term |-> currentTerm[s], leader |-> s]} ELSE elected
  BY Zenon DEF collectVote
<1>8. wins => ~late /\ voteCount[s] + 1 > Half /\ role[s] = "Candidate"
  BY Zenon
<1> HIDE DEF late, wins
<1>9. /\ voteCount \in [Server -> Nat] /\ counted \in [Server -> SUBSET Server]
      /\ role \in [Server -> Role]
  BY Zenon, <1>2 DEF TypeOK
<1>10. /\ \A r \in Server : r # s => /\ voteCount'[r] = voteCount[r] /\ counted'[r] = counted[r]
                                     /\ role'[r] = role[r]
       /\ role'[s] = IF wins THEN "Leader" ELSE role[s]
       /\ late => voteCount'[s] = voteCount[s] /\ counted'[s] = counted[s]
       /\ ~late => voteCount'[s] = voteCount[s] + 1 /\ counted'[s] = counted[s] \cup {m.to}
  BY Zenon, <1>3, <1>7, <1>9
<1>11. role[s] = "Candidate" =>
         /\ voteCount'[s] = Cardinality(counted'[s])
         /\ counted'[s] \in SUBSET Server
         /\ \A v \in counted'[s] : Cast(currentTerm[s], v, s)
  <2>1. SUFFICES ASSUME role[s] = "Candidate"
                 PROVE  /\ voteCount'[s] = Cardinality(counted'[s])
                        /\ counted'[s] \in SUBSET Server
                        /\ \A v \in counted'[s] : Cast(currentTerm[s], v, s)
    BY Zenon
  <2>2. /\ voteCount[s] = Cardinality(counted[s]) /\ counted[s] \in SUBSET Server
        /\ \A v \in counted[s] : Cast(currentTerm[s], v, s)
    BY Zenon, <1>2, <1>3, <1>9, <2>1 DEF CountedWereCast
  <2>3. CASE late
    BY Zenon, <1>10, <2>2, <2>3
  <2>4. CASE ~late
    <3>1. m.term = currentTerm[s] /\ m.to \notin counted[s]
      BY Zenon, <1>5, <1>6, <2>1, <2>4
    <3>2. IsFiniteSet(counted[s])
      BY Zenon, <2>2, ServerAssumption, FS_Subset
    <3>3. Cardinality(counted[s] \cup {m.to}) = Cardinality(counted[s]) + 1
      BY Zenon, <3>1, <3>2, FS_AddElement
    <3>4. QED
      BY Zenon, <1>3, <1>6, <1>10, <2>2, <2>4, <3>1, <3>3
  <2>5. QED
    BY Zenon, <2>3, <2>4
<1>12. VotesInFlight'
  <2>1. SUFFICES ASSUME NEW n \in rpcs, n # m, n.kind = "vote"
                 PROVE  /\ n.stage = "reply" /\ n.granted => Cast(n.term, n.to, n.from)'
                        /\ n.stage = "tally" => Cast(n.term, n.to, n.from)'
                        /\ n.live => n.term <= currentTerm'[n.from]
                        /\ n.live /\ n.term = currentTerm'[n.from] /\ role'[n.from] = "Candidate" =>
                             n.to \notin counted'[n.from]
    BY Zenon, <1>4 DEF VotesInFlight, Cast
  <2>2. /\ n.stage = "reply" /\ n.granted => Cast(n.term, n.to, n.from)
        /\ n.stage = "tally" => Cast(n.term, n.to, n.from)
        /\ n.live => n.term <= currentTerm[n.from]
        /\ n.live /\ n.term = currentTerm[n.from] /\ role[n.from] = "Candidate" =>
             n.to \notin counted[n.from]
    BY Zenon, <1>2, <2>1 DEF VotesInFlight
  <2>3. n.from \in Server
    BY Zenon, <1>2, <2>1, RpcType DEF TypeOK
  <2>4. ASSUME n.live, n.term = currentTerm[n.from], role'[n.from] = "Candidate"
        PROVE  n.to \notin counted'[n.from]
    <3>1. role[n.from] = "Candidate"
      BY Zenon, <1>8, <1>10, <2>3, <2>4
    <3>2. CASE n.from # s
      BY Zenon, <1>10, <2>2, <2>3, <2>4, <3>1, <3>2
    <3>3. CASE n.from = s
      <4>1. ~late => n.to # m.to
        BY Zenon, <1>2, <1>3, <1>5, <2>1, <2>4, <3>1, <3>3 DEF OneVoteEach
      <4>2. QED
        BY Zenon, <1>10, <2>2, <2>4, <3>1, <3>3, <4>1
    <3>4. QED
      BY Zenon, <3>2, <3>3
  <2>5. QED
    BY Zenon, <1>4, <2>2, <2>4 DEF Cast
<1>13. OneVoteEach'
  BY Zenon, <1>2, <1>4 DEF OneVoteEach
<1>14. CountedWereCast'
  <2>1. SUFFICES ASSUME NEW r \in Server, role'[r] = "Candidate"
                 PROVE  /\ voteCount'[r] = Cardinality(counted'[r])
                        /\ \A v \in counted'[r] : Cast(currentTerm[r], v, r)
    BY Zenon, <1>4 DEF CountedWereCast, Cast
  <2>2. CASE r = s
    BY Zenon, <1>10, <1>11, <2>1, <2>2
  <2>3. CASE r # s
    BY Zenon, <1>2, <1>10, <2>1, <2>3 DEF CountedWereCast
  <2>4. QED
    BY Zenon, <2>2, <2>3
<1>15. LeadersWon'
  <2>1. wins => Won(currentTerm[s], s)
    <3>1. SUFFICES ASSUME wins PROVE Won(currentTerm[s], s)
      BY Zenon
    <3>2. /\ counted'[s] \in SUBSET Server /\ Cardinality(counted'[s]) > Half
          /\ \A v \in counted'[s] : Cast(currentTerm[s], v, s)
      BY Zenon, <1>8, <1>10, <1>11, <3>1
    <3>3. QED
      BY Zenon, <3>2 DEF Won
  <2>2. \A e \in elected' : Won(e.term, e.leader)
    BY <1>2, <1>7, <2>1 DEF LeadersWon
  <2>3. (\A e \in elected : Won(e.term, e.leader))'
    BY Zenon, <1>4, <2>2 DEF Won, Cast, Half
  <2>4. \A r \in Server : role'[r] = "Leader" => [term |-> currentTerm'[r], leader |-> r] \in elected'
    BY Zenon, <1>2, <1>4, <1>7, <1>10 DEF LeadersWon
  <2>5. \A r \in Server : phase'[r] # "run" => role'[r] = "Follower"
    BY ZenonT(30), <1>2, <1>3, <1>4, <1>10 DEF LeadersWon
  <2>6. QED
    BY Zenon, <2>3, <2>4, <2>5 DEF LeadersWon
<1>16. QED
  BY Zenon, <1>12, <1>13, <1>14, <1>15

\* Every step of the system keeps ElectionInv.
LEMMA NextWins ==
  ASSUME TypeInv, TypeInv', ElectionInv, Next
  PROVE  ElectionInv'
<1>0. Sound' => Sound
  BY Zenon, FlawsStay DEF Sound
<1>1. CASE AloofStep
  BY Zenon, <1>0, <1>1, AloofKeeps DEF AloofStep
<1>2. ASSUME NEW s \in Server, Crash(s) \/ CrashInside(s) \/ Panic(s)
      PROVE  AloofStep
  BY Zenon, <1>2, DieAloof DEF Crash, CrashInside, Panic
<1>3. ASSUME NEW s \in Server, Make(s) \/ startWork(s)
      PROVE  ElectionInv'
  <2>1. CASE Sound
    <3>1. FollowerAtBoot
      BY Zenon, <2>1 DEF ElectionInv, LeadersWon, FollowerAtBoot
    <3>2. QED
      BY Zenon, <1>1, <1>3, <3>1, BootAloof
  <2>2. CASE ~Sound
    BY Zenon, <1>0, <2>2 DEF ElectionInv
  <2>3. QED
    BY Zenon, <2>1, <2>2
<1>4. ASSUME NEW s \in Server,
             \/ ticker(s) \/ AskRead(s) \/ GetCommitIndex(s) \/ ReadFails(s)
             \/ \E v \in Value : Start(s, v)
             \/ \E i \in SnapshotAt : Snapshot(s, i)
      PROVE  AloofStep
  <2>1. UNCHANGED <<phase, role, currentTerm, voteCount, counted, ballots, elected, rpcs>>
    BY Zenon, <1>4 DEF ticker, AskRead, GetCommitIndex, ReadFails, Start, Snapshot, nodeVars, ghostVars
  <2>2. QED
    BY Zenon, <2>1, AloofFrame
<1>5. ASSUME NEW s \in Server, NEW p \in Server,
             \/ StartSendAppendEntries(s, p) \/ SingleHeartBeat(s, p) \/ sendInstallSnapshot(s, p)
      PROVE  AloofStep
  <2>1. UNCHANGED <<phase, role, currentTerm, voteCount, counted, ballots, elected>>
    BY Zenon, <1>5 DEF StartSendAppendEntries, SingleHeartBeat, sendInstallSnapshot, nodeVars, ghostVars
  <2>2. \A m \in rpcs' : m \in rpcs \/ m.kind # "vote"
    <3>1. \A entries : /\ AppendCall(s, p, entries, TRUE).kind = "append"
                       /\ AppendCall(s, p, entries, FALSE).kind = "append"
      BY Zenon DEF AppendCall
    <3>2. CASE StartSendAppendEntries(s, p)
      BY Zenon, <3>1, <3>2 DEF StartSendAppendEntries, Send
    <3>3. CASE SingleHeartBeat(s, p)
      BY Zenon, <3>1, <3>3 DEF SingleHeartBeat, Send
    <3>4. CASE sendInstallSnapshot(s, p)
      <4> DEFINE x == [kind |-> "install", stage |-> "call", from |-> s, to |-> p, live |-> TRUE,
                       term |-> currentTerm[s], lastIndex |-> lastIncludedIndex[s],
                       lastTerm |-> lastIncludedTerm[s], cmd |-> log[s][1].cmd]
      <4>1. rpcs' = rpcs \cup {x} \/ UNCHANGED rpcs
        BY Zenon, <3>4 DEF sendInstallSnapshot, Send
      <4>2. x.kind = "install"
        BY Zenon
      <4> HIDE DEF x
      <4>3. QED
        BY Zenon, <4>1, <4>2
    <3>5. QED
      BY Zenon, <1>5, <3>2, <3>3, <3>4
  <2>3. QED
    BY Zenon, <2>1, <2>2, AloofFrame
<1>6. ASSUME NEW m \in rpcs, Lose(m)
      PROVE  AloofStep
  BY Zenon, <1>6, AloofFrame DEF Lose, nodeVars, ghostVars
<1>7. ASSUME NEW m \in installing, InstallDone(m)
      PROVE  AloofStep
  <2>1. UNCHANGED <<phase, role, currentTerm, voteCount, counted, ballots, elected>>
    BY Zenon, <1>7 DEF InstallDone, nodeVars, ghostVars
  <2>2. \A n \in rpcs' : n \in rpcs \/ n.kind # "vote"
    BY <1>7 DEF InstallDone, InstallReply
  <2>3. QED
    BY Zenon, <2>1, <2>2, AloofFrame
<1>8. ASSUME NEW s \in Server
      PROVE  /\ StartElection(s) => ElectionInv'
             /\ SendCommitIndex(s) => AloofStep
  BY Zenon, StartElectionWins, SendCommitIndexAloof
<1>9. ASSUME NEW m \in rpcs
      PROVE  /\ RequestVote(m) \/ procVoteAnswer(m) => ElectionInv'
             /\ \A outTime \in BOOLEAN : collectVote(m, outTime) => ElectionInv'
             /\ \/ AppendEntries(m) \/ sendAppendEntriesToServer(m)
                \/ InstallSnapshot(m) \/ sendInstallSnapshotToServer(m)
                => AloofStep
  BY Zenon, RequestVoteWins, ProcVoteAnswerWins, CollectVoteWins, CallAloof
<1>10. QED
  BY Zenon, <1>1, <1>2, <1>3, <1>4, <1>5, <1>6, <1>7, <1>8, <1>9 DEF Next

\* Two sets of more than half of the peers, and the node itself, of an odd number
\* of servers share a server.
LEMMA QuorumsMeet ==
  ASSUME Cardinality(Server) % 2 = 1, NEW P \in SUBSET Server, NEW Q \in SUBSET Server,
         Cardinality(P) > Half, Cardinality(Q) > Half
  PROVE  P \cap Q # {}
<1>1. Cardinality(Server) \in Nat /\ Cardinality(P) \in Nat /\ Cardinality(Q) \in Nat
  BY Zenon, ServerAssumption, FS_Subset, FS_CardinalityType
<1>2. Cardinality(P) + Cardinality(Q) > Cardinality(Server)
  BY <1>1 DEF Half
<1>3. QED
  BY Zenon, <1>2, ServerAssumption, FS_MajoritiesIntersect

-----------------------------------------------------------------------------
(* The theorems *)

\* A node never votes for two candidates of a term, whatever the interleaving of
\* its handlers with panics, restarts and crashes between two writes of the state
\* file, for any set of servers: each ballot is on disk before the answer leaves.
\* The exceptions, in VoteOnce, are a crash inside saveState, which has truncated
\* the file, and a snapshot sent to a node between Make and startWork.
THEOREM VoteOnceHolds == Spec => []VoteOnce
<1> DEFINE Inv == TypeInv /\ VoteInv /\ VoteOnce
<1>1. Init => Inv
  <2>1. Init => VoteInv /\ VoteOnce
    BY DEF Init, VoteInv, VoteOnce, NewDisk, Remembers
  <2>2. QED
    BY <2>1, InitType
<1>2. Inv /\ [Next]_vars => Inv'
  <2>1. SUFFICES ASSUME Inv, [Next]_vars PROVE Inv'
    OBVIOUS
  <2>2. TypeInv'
    BY <2>1, NextType
  <2>3. CASE Next
    <3>1. Remembers' => VoteSafe
      BY <2>1, <2>2, <2>3, NextVote
    <3>2. flaws \subseteq flaws'
      BY <2>3, FlawsStay
    <3>3. VoteInv' /\ VoteOnce'
      BY <2>1, <2>2, <3>1, <3>2, VoteStepKeeps DEF VoteSafe
    <3>4. QED
      BY <2>2, <3>3
  <2>4. CASE UNCHANGED vars
    <3>1. VoteInv' /\ VoteOnce'
      BY SMTT(30), <2>1, <2>4 DEF VoteInv, VoteOnce, Remembers, vars, nodeVars, logVars, ghostVars
    <3>2. QED
      BY <2>2, <3>1
  <2>5. QED
    BY <2>1, <2>3, <2>4
<1>3. QED
  BY <1>1, <1>2, PTL DEF Spec

\* Of any odd number of servers at most one wins the election of a term, and only
\* winners lead, over panics, restarts and crashes between two writes of the state
\* file.  The exceptions, in ElectionSafety, are a vote counted after the
\* candidate's term has moved on, a leader whose term a read has raised, a crash
\* inside saveState and a snapshot served during boot.
THEOREM ElectionSafetyHolds ==
  ASSUME Cardinality(Server) % 2 = 1
  PROVE  Spec => []ElectionSafety
<1> DEFINE Inv == TypeInv /\ VoteInv /\ VoteOnce /\ ElectionInv
<1>1. Init => Inv
  <2>1. Init => VoteInv /\ VoteOnce
    BY SMTT(30) DEF Init, VoteInv, VoteOnce, NewDisk, Remembers
  <2>2. Init => ElectionInv
    BY SMTT(30) DEF Init, ElectionInv, VotesInFlight, OneVoteEach, CountedWereCast, LeadersWon
  <2>3. QED
    BY <2>1, <2>2, InitType
<1>2. Inv /\ [Next]_vars => Inv'
  <2>1. SUFFICES ASSUME Inv, [Next]_vars PROVE Inv'
    OBVIOUS
  <2>2. TypeInv'
    BY <2>1, NextType
  <2>3. CASE Next
    <3>1. VoteInv' /\ VoteOnce'
      BY <2>1, <2>2, <2>3, NextVote, FlawsStay, VoteStepKeeps DEF VoteSafe
    <3>2. ElectionInv'
      BY <2>1, <2>2, <2>3, NextWins
    <3>3. QED
      BY <2>2, <3>1, <3>2
  <2>4. CASE UNCHANGED vars
    <3>1. VoteInv' /\ VoteOnce'
      BY SMTT(30), <2>1, <2>4 DEF VoteInv, VoteOnce, Remembers, vars, nodeVars, logVars, ghostVars
    <3>2. ElectionInv'
      <4>1. AloofStep /\ (Sound' => Sound)
        BY <2>4, AloofFrame DEF vars, nodeVars, ghostVars, Sound
      <4>2. QED
        BY Zenon, <2>1, <2>2, <4>1, AloofKeeps DEF AloofStep
    <3>3. QED
      BY <2>2, <3>1, <3>2
  <2>5. QED
    BY <2>1, <2>3, <2>4
<1>3. Inv => ElectionSafety
  <2>1. SUFFICES ASSUME Inv, Sound
                 PROVE  /\ \A a, b \in elected : a.term = b.term => a.leader = b.leader
                        /\ \A s \in Server : role[s] = "Leader" =>
                             [term |-> currentTerm[s], leader |-> s] \in elected
    BY DEF ElectionSafety, Sound
  <2>2. LeadersWon
    BY <2>1 DEF ElectionInv
  <2>3. ASSUME NEW a \in elected, NEW b \in elected, a.term = b.term
        PROVE  a.leader = b.leader
    <3>1. PICK P \in SUBSET Server :
            Cardinality(P) > Half /\ \A v \in P : Cast(a.term, v, a.leader)
      BY <2>2 DEF LeadersWon, Won
    <3>2. PICK Q \in SUBSET Server :
            Cardinality(Q) > Half /\ \A v \in Q : Cast(b.term, v, b.leader)
      BY <2>2 DEF LeadersWon, Won
    <3>3. PICK v \in P : v \in Q
      BY <3>1, <3>2, QuorumsMeet
    <3>4. Cast(a.term, v, a.leader) /\ Cast(a.term, v, b.leader)
      BY <2>3, <3>1, <3>2, <3>3
    <3>5. Remembers
      BY <2>1 DEF Sound, Remembers
    <3>6. QED
      BY <2>1, <3>4, <3>5 DEF VoteOnce, Cast, Remembers
  <2>4. QED
    BY <2>2, <2>3 DEF LeadersWon
<1>4. QED
  BY <1>1, <1>2, <1>3, PTL DEF Spec


-----------------------------------------------------------------------------
(* The log of a leader *)

\* Only a node that runs leads: a vote is counted by the process that asked for it.
LeadersRun == \A s \in Server : role[s] = "Leader" => phase[s] = "run"

\* Node s keeps its entries above its snapshot.
LogGrows(s) ==
  \A i \in (lastIncludedIndex'[s] + 1)..LastIndex(s) :
    i < lastIncludedIndex'[s] + Len(log'[s]) /\ log'[s][i - lastIncludedIndex'[s] + 1] = At(s, i)

\* What a step may do to node s if it leads afterwards.
Leads(s) ==
  role'[s] = "Leader" => phase'[s] = "run" /\ (role[s] = "Leader" => LogGrows(s))
LeaderStep == \A s \in Server : Leads(s)

\* A node does not lead after the step, or is as it was.
Steady(s) ==
  \/ role'[s] # "Leader"
  \/ /\ role'[s] = role[s] /\ phase'[s] = phase[s]
     /\ log'[s] = log[s] /\ lastIncludedIndex'[s] = lastIncludedIndex[s]

\* A log that is not written is kept.
LEMMA SameLogGrows ==
  ASSUME TypeOK, NEW s \in Server,
         log'[s] = log[s], lastIncludedIndex'[s] = lastIncludedIndex[s]
  PROVE  LogGrows(s)
<1>1. Len(log[s]) \in Nat /\ lastIncludedIndex[s] \in Nat
  BY Zenon, LogType
<1>2. \A i \in (lastIncludedIndex[s] + 1)..LastIndex(s) : i < lastIncludedIndex[s] + Len(log[s])
  BY <1>1 DEF LastIndex, LogEnd
<1>3. \A i : log'[s][i - lastIncludedIndex'[s] + 1] = At(s, i)
  BY Zenon DEF At
<1>4. QED
  BY Zenon, <1>2, <1>3 DEF LogGrows

\* Steps that only take the lead away.
LEMMA SteadyLeads ==
  ASSUME TypeInv, LeadersRun, \A s \in Server : Steady(s)
  PROVE  LeaderStep
<1>1. ASSUME NEW s \in Server PROVE Leads(s)
  <2>1. CASE role'[s] # "Leader"
    BY Zenon, <2>1 DEF Leads
  <2>2. CASE /\ role'[s] = role[s] /\ phase'[s] = phase[s]
             /\ log'[s] = log[s] /\ lastIncludedIndex'[s] = lastIncludedIndex[s]
    BY Zenon, <2>2, SameLogGrows DEF Leads, LeadersRun, TypeInv
  <2>3. QED
    BY Zenon, <2>1, <2>2 DEF Steady
<1>2. QED
  BY Zenon, <1>1 DEF LeaderStep

\* Crash, panic and start: the node comes back as a follower.
LEMMA RestartLeads ==
  ASSUME TypeInv, LeadersRun, NEW s \in Server,
         Crash(s) \/ CrashInside(s) \/ Panic(s) \/ Make(s) \/ startWork(s)
  PROVE  LeaderStep
<1>1. CASE Crash(s) \/ CrashInside(s) \/ Panic(s)
  <2>1. Die(s)
    BY Zenon, <1>1 DEF Crash, CrashInside, Panic
  <2>2. \A r \in Server : Steady(r)
    BY Zenon, <2>1 DEF Die, Steady, TypeInv, TypeOK
  <2>3. QED
    BY Zenon, <2>2, SteadyLeads
<1>2. CASE Make(s) \/ startWork(s)
  <2>1. role' = role /\ role[s] # "Leader"
    BY Zenon, <1>2 DEF Make, startWork, nodeVars, LeadersRun
  <2>2. \A r \in Server : r # s => /\ phase'[r] = phase[r] /\ log'[r] = log[r]
                                   /\ lastIncludedIndex'[r] = lastIncludedIndex[r]
    BY ZenonT(30), <1>2 DEF Make, startWork, logVars, TypeInv, TypeOK
  <2>3. \A r \in Server : Steady(r)
    BY Zenon, <2>1, <2>2 DEF Steady
  <2>4. QED
    BY Zenon, <2>3, SteadyLeads
<1>3. QED
  BY Zenon, <1>1, <1>2

\* Start appends to the leader's log.
LEMMA StartLeads ==
  ASSUME TypeInv, LeadersRun, NEW s \in Server, NEW v \in Value, Start(s, v)
  PROVE  LeaderStep
<1> DEFINE e == [term |-> currentTerm[s], cmd |-> v]
<1>1. TypeOK /\ log[s] \in Seq(Entry) /\ Len(log[s]) \in Nat /\ lastIncludedIndex[s] \in Nat
  BY Zenon, LogType DEF TypeInv
<1>2. UNCHANGED <<role, phase, lastIncludedIndex>> /\ log'[s] = Append(log[s], e)
  BY Zenon, <1>1 DEF Start, nodeVars, TypeOK
<1>3. \A r \in Server : r # s => log'[r] = log[r]
  BY Zenon, <1>1 DEF Start, TypeOK
<1>4. ASSUME NEW i \in (lastIncludedIndex[s] + 1)..LastIndex(s)
      PROVE  i < lastIncludedIndex[s] + Len(log'[s])
             /\ log'[s][i - lastIncludedIndex[s] + 1] = At(s, i)
  <2>1. i - lastIncludedIndex[s] + 1 \in 1..Len(log[s]) /\ i < lastIncludedIndex[s] + Len(log[s]) + 1
    BY <1>1 DEF LastIndex, LogEnd
  <2>2. \A k \in 1..Len(log[s]) : Append(log[s], e)[k] = log[s][k]
    BY <1>1
  <2>3. Len(Append(log[s], e)) = Len(log[s]) + 1
    BY <1>1
  <2>4. i < lastIncludedIndex[s] + (Len(log[s]) + 1)
    BY <1>1, <2>1
  <2>5. QED
    BY Zenon, <1>2, <2>1, <2>2, <2>3, <2>4 DEF At
<1>5. LogGrows(s)
  BY Zenon, <1>2, <1>4 DEF LogGrows
<1>6. ASSUME NEW r \in Server PROVE Leads(r)
  <2>1. LogGrows(r)
    BY Zenon, <1>1, <1>2, <1>3, <1>5, SameLogGrows
  <2>2. QED
    BY Zenon, <1>2, <2>1 DEF Leads, LeadersRun
<1>7. QED
  BY Zenon, <1>6 DEF LeaderStep

\* Snapshot drops the entries up to index from the log of a leader.
LEMMA SnapshotLeads ==
  ASSUME TypeInv, LeadersRun, NEW s \in Server, NEW index \in SnapshotAt, Snapshot(s, index)
  PROVE  LeaderStep
<1>1. TypeOK /\ log[s] \in Seq(Entry) /\ Len(log[s]) \in Nat /\ lastIncludedIndex[s] \in Nat
  BY Zenon, LogType DEF TypeInv
<1>2. UNCHANGED <<role, phase>> /\ lastIncludedIndex'[s] = index
      /\ log'[s] = SubSeq(log[s], index - lastIncludedIndex[s] + 1, Len(log[s]))
  BY Zenon, <1>1 DEF Snapshot, nodeVars, TypeOK
<1>3. \A r \in Server : r # s => log'[r] = log[r] /\ lastIncludedIndex'[r] = lastIncludedIndex[r]
  BY Zenon, <1>1 DEF Snapshot, TypeOK
<1>4. index \in Nat /\ lastIncludedIndex[s] < index
  BY Zenon, BoundAssumption DEF Snapshot
<1>5. ASSUME NEW i \in (index + 1)..LastIndex(s)
      PROVE  i < index + Len(log'[s]) /\ log'[s][i - index + 1] = At(s, i)
  <2> DEFINE a == index - lastIncludedIndex[s] + 1
             k == i - index + 1
             n == Len(log[s])
  <2>0. LastIndex(s) = lastIncludedIndex[s] + n - 1
    BY <1>1 DEF LastIndex, LogEnd
  <2>1. a \in Int /\ a >= 1 /\ a <= n /\ n \in Int
        /\ k \in 1..(n - a + 1) /\ i < index + (n - a + 1)
        /\ a + k - 1 = i - lastIncludedIndex[s] + 1
    <3>1. n \in Int /\ lastIncludedIndex[s] \in Int /\ index \in Int /\ i \in Int
      BY <1>1, <1>4, <2>0
    <3>2. i \in (index + 1)..(lastIncludedIndex[s] + (n - 1))
      BY Zenon, <2>0
    <3> HIDE DEF n
    <3>3. QED
      BY <1>4, <3>1, <3>2
  <2>2. Len(SubSeq(log[s], a, n)) = n - a + 1
    <3>1. n <= Len(log[s])
      BY <1>1
    <3> HIDE DEF a, n
    <3>2. Len(SubSeq(log[s], a, n)) = IF a <= n THEN n - a + 1 ELSE 0
      BY Zenon, <1>1, <2>1, <3>1, SubSeqType
    <3>3. QED
      BY Zenon, <2>1, <3>2
  <2>4. \A j \in 1..(n - a + 1) : SubSeq(log[s], a, n)[j] = log[s][a + j - 1]
    <3>1. n <= Len(log[s])
      BY <1>1
    <3> HIDE DEF a, n
    <3>2. QED
      BY Zenon, <1>1, <2>1, <3>1, SubSeqAt
  <2> HIDE DEF a, k, n
  <2>5. SubSeq(log[s], a, n)[k] = log[s][i - lastIncludedIndex[s] + 1]
    BY Zenon, <2>1, <2>4
  <2>6. log'[s] = SubSeq(log[s], a, n)
    BY Zenon, <1>2 DEF a, n
  <2>7. QED
    BY Zenon, <2>1, <2>2, <2>5, <2>6 DEF At, k
<1>6. LogGrows(s)
  BY Zenon, <1>2, <1>5 DEF LogGrows
<1>7. ASSUME NEW r \in Server PROVE Leads(r)
  <2>1. LogGrows(r)
    BY Zenon, <1>1, <1>3, <1>6, SameLogGrows
  <2>2. QED
    BY Zenon, <1>2, <2>1 DEF Leads, LeadersRun
<1>8. QED
  BY Zenon, <1>7 DEF LeaderStep


\* The handlers of calls and of their answers: who loses the lead may lose entries,
\* and a leader takes no entries of others.
LEMMA CallLeads ==
  ASSUME TypeInv, LeadersRun, NEW m \in rpcs,
         \/ RequestVote(m) \/ procVoteAnswer(m) \/ AppendEntries(m)
         \/ sendAppendEntriesToServer(m) \/ InstallSnapshot(m)
         \/ sendInstallSnapshotToServer(m)
  PROVE  LeaderStep
<1>1. m.from \in Server /\ m.to \in Server /\ phase' = phase /\ TypeOK
  BY Zenon, RpcType DEF TypeInv, TypeOK, RequestVote, procVoteAnswer, AppendEntries,
     sendAppendEntriesToServer, InstallSnapshot, sendInstallSnapshotToServer
<1>2. CASE RequestVote(m)
  <2>1. UNCHANGED <<log, lastIncludedIndex>>
    BY Zenon, <1>2 DEF RequestVote, logVars
  <2>2. \A s \in Server : role'[s] = role[s] \/ role'[s] # "Leader"
    BY Zenon, <1>1, <1>2 DEF RequestVote, TypeOK
  <2>3. QED
    BY Zenon, <1>1, <2>1, <2>2, SteadyLeads DEF Steady
<1>3. CASE procVoteAnswer(m)
  <2>1. UNCHANGED <<log, lastIncludedIndex>>
    BY Zenon, <1>3 DEF procVoteAnswer, logVars
  <2>2. \A s \in Server : role'[s] = role[s] \/ role'[s] # "Leader"
    BY Zenon, <1>1, <1>3 DEF procVoteAnswer, TypeOK
  <2>3. QED
    BY Zenon, <1>1, <2>1, <2>2, SteadyLeads DEF Steady
<1>4. CASE sendAppendEntriesToServer(m)
  <2>1. UNCHANGED <<log, lastIncludedIndex>>
    BY Zenon, <1>4 DEF sendAppendEntriesToServer
  <2>2. \A s \in Server : role'[s] = role[s] \/ role'[s] # "Leader"
    BY Zenon, <1>1, <1>4 DEF sendAppendEntriesToServer, AppendReplySuccess, AppendReplyOutdated,
       AppendReplyConflict, AppendReplyIgnored, TypeOK
  <2>3. QED
    BY Zenon, <1>1, <2>1, <2>2, SteadyLeads DEF Steady
<1>5. CASE sendInstallSnapshotToServer(m)
  <2>1. UNCHANGED <<log, lastIncludedIndex>>
    BY Zenon, <1>5 DEF sendInstallSnapshotToServer, logVars
  <2>2. \A s \in Server : role'[s] = role[s] \/ role'[s] # "Leader"
    BY Zenon, <1>1, <1>5 DEF sendInstallSnapshotToServer, TypeOK
  <2>3. QED
    BY Zenon, <1>1, <2>1, <2>2, SteadyLeads DEF Steady
<1>6. CASE AppendEntries(m)
  <2>1. CASE AppendRefused(m)
    <3>1. UNCHANGED <<log, lastIncludedIndex>>
      BY Zenon, <2>1 DEF AppendRefused, logVars
    <3>2. \A s \in Server : role'[s] = role[s] \/ role'[s] # "Leader"
      BY Zenon, <1>1, <2>1 DEF AppendRefused, TypeOK
    <3>3. QED
      BY Zenon, <1>1, <3>1, <3>2, SteadyLeads DEF Steady
  <2>2. CASE AppendAccepted(m)
    <3>1. \A s \in Server : s # m.to => role'[s] = role[s] /\ log'[s] = log[s]
      BY Zenon, <1>1, <2>2 DEF AppendAccepted, TypeOK
    <3>2. role'[m.to] = (IF m.term > currentTerm[m.to] THEN "Follower" ELSE role[m.to])
      BY Zenon, <1>1, <2>2 DEF AppendAccepted, TypeOK
    <3>3. log'[m.to] = (IF role[m.to] = "Leader" /\ ~(m.term > currentTerm[m.to]) THEN log[m.to]
                        ELSE Merge(m.to, m.prev, m.entries))
      BY Zenon, <1>1, <2>2 DEF AppendAccepted, TypeOK
    <3>4. UNCHANGED lastIncludedIndex
      BY Zenon, <2>2 DEF AppendAccepted
    <3>5. \A s \in Server : Steady(s)
      BY Zenon, <1>1, <3>1, <3>2, <3>3, <3>4 DEF Steady
    <3>6. QED
      BY Zenon, <3>5, SteadyLeads
  <2>3. QED
    BY Zenon, <1>6, <2>1, <2>2 DEF AppendEntries
<1>7. CASE InstallSnapshot(m)
  <2>1. CASE InstallRefused(m)
    <3>1. UNCHANGED <<log, lastIncludedIndex>>
      BY Zenon, <2>1 DEF InstallRefused, logVars
    <3>2. \A s \in Server : role'[s] = role[s] \/ role'[s] # "Leader"
      BY Zenon, <1>1, <2>1 DEF InstallRefused, TypeOK
    <3>3. QED
      BY Zenon, <1>1, <3>1, <3>2, SteadyLeads DEF Steady
  <2>2. CASE InstallTaken(m)
    <3>1. \A s \in Server : s # m.to => /\ role'[s] = role[s] /\ log'[s] = log[s]
                                        /\ lastIncludedIndex'[s] = lastIncludedIndex[s]
      BY Zenon, <1>1, <2>2 DEF InstallTaken, TypeOK
    <3>2. role'[m.to] = "Follower"
      BY Zenon, <1>1, <2>2 DEF InstallTaken, TypeOK
    <3>3. \A s \in Server : Steady(s)
      BY Zenon, <1>1, <3>1, <3>2 DEF Steady
    <3>4. QED
      BY Zenon, <3>3, SteadyLeads
  <2>3. QED
    BY Zenon, <1>7, <2>1, <2>2 DEF InstallSnapshot
<1>8. QED
  BY Zenon, <1>2, <1>3, <1>4, <1>5, <1>6, <1>7

\* A vote that makes a leader is counted by a node that runs.
LEMMA CollectVoteLeads ==
  ASSUME TypeInv, LeadersRun, NEW m \in rpcs, NEW outTime \in BOOLEAN, collectVote(m, outTime)
  PROVE  LeaderStep
<1>1. m.from \in Server /\ phase[m.from] = "run" /\ TypeOK
  BY Zenon, RpcType DEF TypeInv, TypeOK, Alive, collectVote
<1>2. UNCHANGED <<phase, log, lastIncludedIndex>>
  BY Zenon DEF collectVote, logVars
<1>3. \A s \in Server : s # m.from => role'[s] = role[s]
  BY Zenon, <1>1 DEF collectVote, TypeOK
<1>4. ASSUME NEW s \in Server PROVE Leads(s)
  <2>1. LogGrows(s)
    BY Zenon, <1>1, <1>2, SameLogGrows
  <2>2. QED
    BY Zenon, <1>1, <1>2, <1>3, <2>1 DEF Leads, LeadersRun
<1>5. QED
  BY Zenon, <1>4 DEF LeaderStep

\* The other steps write no log and make no leader.
LEMMA OtherLeads ==
  ASSUME TypeInv, LeadersRun,
         \/ \E s \in Server :
              \/ ticker(s) \/ StartElection(s) \/ AskRead(s) \/ GetCommitIndex(s) \/ ReadFails(s)
              \/ SendCommitIndex(s)
              \/ \E p \in Server : \/ StartSendAppendEntries(s, p) \/ SingleHeartBeat(s, p)
                                   \/ sendInstallSnapshot(s, p)
         \/ \E m \in rpcs : Lose(m)
         \/ \E m \in installing : InstallDone(m)
         \/ UNCHANGED vars
  PROVE  LeaderStep
<1>1. UNCHANGED <<phase, log, lastIncludedIndex>>
  <2>1. CASE \/ \E m \in rpcs : Lose(m)
             \/ \E m \in installing : InstallDone(m)
             \/ UNCHANGED vars
    BY Zenon, <2>1 DEF Lose, InstallDone, vars, logVars
  <2>2. ASSUME NEW s \in Server,
               \/ ticker(s) \/ StartElection(s) \/ AskRead(s) \/ GetCommitIndex(s)
               \/ ReadFails(s) \/ SendCommitIndex(s)
        PROVE  UNCHANGED <<phase, log, lastIncludedIndex>>
    BY Zenon, <2>2 DEF ticker, StartElection, AskRead, GetCommitIndex, ReadFails, SendCommitIndex,
       logVars
  <2>3. ASSUME NEW s \in Server, NEW p \in Server,
               StartSendAppendEntries(s, p) \/ SingleHeartBeat(s, p) \/ sendInstallSnapshot(s, p)
        PROVE  UNCHANGED <<phase, log, lastIncludedIndex>>
    BY Zenon, <2>3 DEF StartSendAppendEntries, SingleHeartBeat, sendInstallSnapshot, logVars
  <2>4. QED
    BY Zenon, <2>1, <2>2, <2>3
<1>2. \A s \in Server : role'[s] = role[s] \/ role'[s] # "Leader"
  <2>1. TypeOK
    BY Zenon DEF TypeInv
  <2>2. CASE \E s \in Server : StartElection(s)
    <3>1. PICK s \in Server : role' = [role EXCEPT ![s] = "Candidate"]
      BY Zenon, <2>2 DEF StartElection
    <3>2. role \in [Server -> Role]
      BY Zenon, <2>1 DEF TypeOK
    <3>3. QED
      BY Zenon, <3>1, <3>2
  <2>3. CASE UNCHANGED role
    BY Zenon, <2>3
  <2>4. ASSUME NEW s \in Server,
               ticker(s) \/ AskRead(s) \/ GetCommitIndex(s) \/ ReadFails(s) \/ SendCommitIndex(s)
        PROVE  UNCHANGED role
    BY Zenon, <2>4 DEF ticker, AskRead, GetCommitIndex, ReadFails, SendCommitIndex, nodeVars
  <2>5. ASSUME NEW s \in Server, NEW p \in Server,
               StartSendAppendEntries(s, p) \/ SingleHeartBeat(s, p) \/ sendInstallSnapshot(s, p)
        PROVE  UNCHANGED role
    BY Zenon, <2>5 DEF StartSendAppendEntries, SingleHeartBeat, sendInstallSnapshot, nodeVars
  <2>6. CASE \/ \E m \in rpcs : Lose(m)
             \/ \E m \in installing : InstallDone(m)
             \/ UNCHANGED vars
    BY Zenon, <2>6 DEF Lose, InstallDone, vars, nodeVars
  <2>7. QED
    BY Zenon, <2>2, <2>3, <2>4, <2>5, <2>6
<1>3. QED
  BY Zenon, <1>1, <1>2, SteadyLeads DEF Steady

\* Every step.
LEMMA NextLeads ==
  ASSUME TypeInv, LeadersRun, [Next]_vars
  PROVE  LeaderStep
BY Zenon, RestartLeads, StartLeads, SnapshotLeads, CallLeads, CollectVoteLeads, OtherLeads DEF Next

\* A leader's log only grows, for any number of servers, whatever calls, answers,
\* snapshots and elections of its own goroutines arrive while it leads: StartElection
\* does not look at the role again, and AppendEntries and InstallSnapshot of others
\* reach it, but each of them that writes the log ends the lead.
THEOREM LeaderAppendOnlyHolds == Spec => LeaderAppendOnly
<1> DEFINE Inv == TypeInv /\ LeadersRun
<1>1. Init => Inv
  BY Zenon, InitType DEF Init, LeadersRun
<1>2. Inv /\ [Next]_vars => Inv'
  BY Zenon, NextType, NextLeads DEF LeaderStep, Leads, LeadersRun
<1>3. Inv /\ [Next]_vars =>
        [\A s \in Server : role[s] = "Leader" /\ role'[s] = "Leader" => LogGrows(s)]_vars
  BY Zenon, NextLeads DEF LeaderStep, Leads
<1>4. QED
  BY <1>1, <1>2, <1>3, PTL DEF Spec, LeaderAppendOnly, LogGrows
=============================================================================
