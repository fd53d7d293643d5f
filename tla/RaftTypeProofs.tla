--------------------------- MODULE RaftTypeProofs ---------------------------
(***************************************************************************)
(* Type correctness of Raft, for any finite set of servers and any bounds, *)
(* and what the proofs about Raft share: the invariant about the shape of  *)
(* the state, and the types of the parts of a state that has it.           *)
(***************************************************************************)
EXTENDS Raft, OrderLemmas

\* Goroutines and awaited calls belong to nodes that run, and a node that runs
\* has a placeholder entry.  Without it TypeOK is not inductive: StartElection
\* and the commit loop read the last entry.
Alive ==
  /\ \A s \in Server : phase[s] = "run" => log[s] # << >>
  /\ \A s \in electionDue : phase[s] = "run"
  /\ \A d \in snapDue : phase[d[1]] = "run"
  /\ \A m \in rpcs \cup installing : /\ m.live => phase[m.from] = "run"
                                     /\ m.stage # "call" => m.live
TypeInv == TypeOK /\ Alive
-----------------------------------------------------------------------------
\* A term is not newer than itself.
LEMMA LeqRefl == \A a \in Nat : a <= a
OBVIOUS

\* No term is older than itself.
LEMMA LessIrrefl == \A a \in Nat : ~(a < a)
OBVIOUS

\* A call of a past or the current term is older than the next election.
LEMMA LeqSucc == \A a, b \in Nat : a <= b => a < b + 1
OBVIOUS

\* A term that was raised has not gone back.
LEMMA GreaterGeq == \A a, b \in Nat : a > b => a >= b
OBVIOUS

\* A term that has not gone back is the same or was raised.
LEMMA GeqCases == \A a, b \in Nat : a >= b => a = b \/ a > b
OBVIOUS

\* A call stays no newer than a term that does not go back.
LEMMA LeqGeq == \A a, b, c \in Nat : a <= b /\ c >= b => a <= c
OBVIOUS

\* The greater of two terms, as the comparison of the handlers has it.
LEMMA MaxOfCases == \A a, b \in Nat : MaxOf(a, b) = IF b > a THEN b ELSE a
BY DEF MaxOf

\* The greater of two terms is no step back.
LEMMA MaxOfGeq == \A a, b \in Nat : MaxOf(a, b) >= a /\ MaxOf(a, b) \in Nat
BY DEF MaxOf

\* A node that hears of term t: its term does not fall, and it is a follower if the
\* term rises; the other nodes are not concerned.
LEMMA Raised ==
  ASSUME NEW f \in [Server -> Nat], NEW g \in [Server -> Role], NEW s \in Server, NEW t \in Nat,
         NEW f2, f2 = [f EXCEPT ![s] = IF t > f[s] THEN t ELSE f[s]],
         NEW g2, g2 = [g EXCEPT ![s] = IF t > f[s] THEN "Follower" ELSE g[s]]
  PROVE  /\ \A r \in Server : r # s => g2[r] = g[r] /\ f2[r] = f[r]
         /\ (g2[s] = g[s] /\ f2[s] = f[s]) \/ (g2[s] = "Follower" /\ f2[s] >= f[s])
<1>1. \A r \in Server : r # s => g2[r] = g[r] /\ f2[r] = f[r]
  BY Zenon
<1>2. f2[s] = (IF t > f[s] THEN t ELSE f[s]) /\ g2[s] = (IF t > f[s] THEN "Follower" ELSE g[s])
  BY Zenon
<1>3. f[s] \in Nat
  BY Zenon
<1>4. (g2[s] = g[s] /\ f2[s] = f[s]) \/ (g2[s] = "Follower" /\ f2[s] >= f[s])
  BY <1>2, <1>3
<1>5. QED
  BY <1>1, <1>4

\* A call is of one of seven kinds, known by its kind and stage.
LEMMA RpcType ==
  ASSUME NEW m \in Rpc
  PROVE  /\ m.from \in Server /\ m.to \in Server /\ m.live \in BOOLEAN
         /\ m.kind \in {"vote", "append", "install"} /\ m.stage \in {"call", "reply", "tally"}
         /\ m.kind = "vote" /\ m.stage = "call" => m \in VoteCall
         /\ m.kind = "vote" /\ m.stage = "reply" => m \in VoteReply
         /\ m.kind = "vote" /\ m.stage = "tally" => m \in VoteTally
         /\ m.kind = "append" /\ m.stage = "call" => m \in AppendRequest
         /\ m.kind = "append" /\ m.stage = "reply" => m \in AppendAnswer
         /\ m.kind = "install" /\ m.stage = "call" => m \in InstallCall
         /\ m.kind = "install" /\ m.stage = "reply" => m \in InstallAnswer
         /\ m.kind = "vote" => m.term \in Nat
BY DEF Rpc, VoteCall, VoteReply, VoteTally, AppendRequest, AppendAnswer, InstallCall, InstallAnswer

\* A log and its indexes.
LEMMA LogType ==
  ASSUME TypeOK, NEW s \in Server
  PROVE  /\ log[s] \in Seq(Entry) /\ Len(log[s]) \in Nat
         /\ lastIncludedIndex[s] \in Nat /\ LogEnd(s) \in Nat /\ LastIndex(s) \in Int
         /\ \A i \in Int : InLog(s, i) => At(s, i) \in Entry /\ At(s, i).term \in Int
         /\ log[s] # << >> => /\ Len(log[s]) >= 1 /\ LastIndex(s) \in Nat
                              /\ LastTerm(s) \in Int /\ log[s][1] \in Entry
                              /\ Tail(log[s]) \in Seq(Entry)
<1>1. log[s] \in Seq(Entry) /\ Len(log[s]) \in Nat /\ lastIncludedIndex[s] \in Nat
  BY DEF TypeOK
<1>2. LogEnd(s) \in Nat /\ LastIndex(s) \in Int
  BY <1>1 DEF LogEnd, LastIndex
<1>3. \A k \in 1..Len(log[s]) : log[s][k] \in Entry /\ log[s][k].term \in Int
  <2>1. TAKE k \in 1..Len(log[s])
  <2>2. log[s][k] \in Entry
    BY <1>1, ElementOfSeq
  <2>3. QED
    BY <2>2 DEF Entry
<1>4. ASSUME NEW i \in Int, InLog(s, i)
      PROVE  At(s, i) \in Entry /\ At(s, i).term \in Int
  <2>1. i - lastIncludedIndex[s] + 1 \in 1..Len(log[s])
    BY SMTT(30), <1>1, <1>4 DEF InLog, LogEnd
  <2>2. QED
    BY <1>3, <2>1 DEF At
<1>5. ASSUME log[s] # << >>
      PROVE  /\ Len(log[s]) >= 1 /\ LastIndex(s) \in Nat
             /\ LastTerm(s) \in Int /\ log[s][1] \in Entry /\ Tail(log[s]) \in Seq(Entry)
  <2>1. Len(log[s]) >= 1
    BY <1>1, <1>5, EmptySeq
  <2>2. QED
    BY SMTT(30), <1>1, <1>3, <1>5, <2>1, HeadTailProperties DEF LastIndex, LogEnd, LastTerm
<1>6. QED
  BY <1>1, <1>2, <1>4, <1>5

\* What a leader keeps per peer.
LEMMA PeerType ==
  ASSUME TypeOK, NEW s \in Server, NEW p \in Server
  PROVE  NextOf(s, p) \in Int /\ MatchOf(s, p) \in Int
BY DEF TypeOK, NextOf, MatchOf, Absent

\* The calls left when the process of s has died keep their types, and none of
\* them is awaited by s.
LEMMA OrphanedType ==
  ASSUME NEW calls \in SUBSET Rpc, NEW s \in Server
  PROVE  /\ Orphaned(calls, s) \subseteq Rpc
         /\ calls \subseteq InstallCall => Orphaned(calls, s) \subseteq InstallCall
         /\ \A m \in Orphaned(calls, s) :
              \/ m \in calls /\ m.from # s
              \/ m.from = s /\ m.stage = "call" /\ m.live = FALSE
<1> DEFINE Kept == {x \in calls : ~(x.from = s /\ x.stage # "call")}
           Orphan(m) == IF m.from = s THEN [m EXCEPT !.live = FALSE] ELSE m
<1>1. Orphaned(calls, s) = {Orphan(m) : m \in Kept}
  BY DEF Orphaned
<1>2. ASSUME NEW m \in Kept
      PROVE  /\ Orphan(m) \in Rpc
             /\ m \in InstallCall => Orphan(m) \in InstallCall
             /\ \/ Orphan(m) \in calls /\ Orphan(m).from # s
                \/ Orphan(m).from = s /\ Orphan(m).stage = "call" /\ Orphan(m).live = FALSE
  <2>1. CASE m.from # s
    BY <2>1
  <2>2. CASE m.from = s
    <3>1. m.stage = "call" /\ m \in Rpc
      BY <2>2
    <3>2. m \in VoteCall \/ m \in AppendRequest \/ m \in InstallCall
      BY <3>1, RpcType
    <3>3. Orphan(m) = [m EXCEPT !.live = FALSE]
      BY <2>2
    <3>4. CASE m \in VoteCall
      BY Zenon, <2>2, <3>1, <3>3, <3>4 DEF VoteCall, InstallCall, Rpc
    <3>5. CASE m \in AppendRequest
      BY Zenon, <2>2, <3>1, <3>3, <3>5 DEF AppendRequest, InstallCall, Rpc
    <3>6. CASE m \in InstallCall
      BY Zenon, <2>2, <3>1, <3>3, <3>6 DEF InstallCall, Rpc
    <3>7. QED
      BY Zenon, <3>2, <3>4, <3>5, <3>6
  <2>3. QED
    BY Zenon, <2>1, <2>2
<1>3. ASSUME NEW n \in Orphaned(calls, s)
      PROVE  /\ n \in Rpc
             /\ calls \subseteq InstallCall => n \in InstallCall
             /\ \/ n \in calls /\ n.from # s
                \/ n.from = s /\ n.stage = "call" /\ n.live = FALSE
  <2>1. PICK m \in Kept : n = Orphan(m)
    BY <1>1
  <2>2. m \in calls
    OBVIOUS
  <2> HIDE DEF Orphan, Kept
  <2>3. QED
    BY Zenon, <1>2, <2>1, <2>2
<1>4. QED
  BY Zenon, <1>3

\* AppendEntries panics after it has saved a newer term only if it has a log.
LEMMA PanicLog ==
  ASSUME TypeOK, NEW m \in rpcs, HandlerPanics(m), m.kind = "append",
         m.term > currentTerm[m.to]
  PROVE  log[m.to] # << >>
<1>1. m \in AppendRequest
  BY SMTT(30), RpcType DEF HandlerPanics, TypeOK
<1>2. m.to \in Server /\ currentTerm[m.to] \in Nat /\ m.term \in Nat /\ m.prev \in Int
  BY <1>1 DEF TypeOK, AppendRequest
<1>3. ~AppendMissing(m) /\ ~AppendInSnapshot(m)
  BY <1>2 DEF HandlerPanics, AppendPanics
<1>4. Len(log[m.to]) # 0
  BY <1>2, <1>3, LogType DEF AppendMissing, AppendInSnapshot, LogEnd
<1>5. QED
  BY <1>4

\* No step takes back that a step of Flaw has been taken.
LEMMA FlawsStay == Next => flaws \subseteq flaws'
<1>1. SUFFICES ASSUME Next PROVE flaws \subseteq flaws'
  OBVIOUS
<1>2. ASSUME NEW s \in Server,
             \/ Crash(s) \/ CrashInside(s) \/ Panic(s) \/ Make(s) \/ startWork(s) \/ ticker(s)
             \/ StartElection(s) \/ AskRead(s) \/ GetCommitIndex(s) \/ ReadFails(s)
             \/ SendCommitIndex(s)
      PROVE  flaws \subseteq flaws'
  BY Zenon, <1>2 DEF Crash, CrashInside, Panic, Make, startWork, ticker, StartElection, AskRead, GetCommitIndex,
              ReadFails, SendCommitIndex, ghostVars
<1>3. ASSUME NEW s \in Server,
             \/ \E v \in Value : Start(s, v)
             \/ \E i \in SnapshotAt : Snapshot(s, i)
             \/ \E p \in Server : \/ StartSendAppendEntries(s, p) \/ SingleHeartBeat(s, p)
                                  \/ sendInstallSnapshot(s, p)
      PROVE  flaws \subseteq flaws'
  BY Zenon, <1>3 DEF Start, Snapshot, StartSendAppendEntries, SingleHeartBeat, sendInstallSnapshot,
              ghostVars
<1>4. ASSUME NEW m \in rpcs,
             \/ RequestVote(m) \/ procVoteAnswer(m)
             \/ \E outTime \in BOOLEAN : collectVote(m, outTime)
             \/ AppendEntries(m) \/ sendAppendEntriesToServer(m)
             \/ InstallSnapshot(m) \/ sendInstallSnapshotToServer(m)
             \/ Lose(m)
      PROVE  flaws \subseteq flaws'
  <2>1. CASE RequestVote(m) \/ procVoteAnswer(m) \/ \E outTime \in BOOLEAN : collectVote(m, outTime)
    BY Zenon, <2>1 DEF RequestVote, procVoteAnswer, collectVote, ghostVars
  <2>2. CASE AppendEntries(m)
    BY Zenon, <2>2 DEF AppendEntries, AppendRefused, AppendAccepted
  <2>3. CASE InstallSnapshot(m)
    BY SMTT(30), <2>3 DEF InstallSnapshot, InstallRefused, InstallTaken
  <2>4. CASE sendAppendEntriesToServer(m) \/ sendInstallSnapshotToServer(m) \/ Lose(m)
    BY <2>4 DEF sendAppendEntriesToServer, sendInstallSnapshotToServer, Lose, ghostVars
  <2>5. QED
    BY <1>4, <2>1, <2>2, <2>3, <2>4
<1>5. ASSUME NEW m \in installing, InstallDone(m)
      PROVE  flaws \subseteq flaws'
  BY <1>5 DEF InstallDone, ghostVars
<1>6. QED
  BY <1>1, <1>2, <1>3, <1>4, <1>5 DEF Next

-----------------------------------------------------------------------------
(* Types of the parts *)

\* An answer to AppendEntries built from integers is a well-typed answer to its caller.
LEMMA AppendAnswerType ==
  ASSUME NEW m \in AppendRequest, NEW t \in Nat, NEW ok \in BOOLEAN,
         NEW xt \in Int, NEW xi \in Int, NEW xl \in Int
  PROVE  LET r == AppendReply(m, t, ok, xt, xi, xl)
         IN  r \in AppendAnswer /\ r.from = m.from /\ r.live = TRUE
<1>1. /\ m.from \in Server /\ m.to \in Server /\ m.term \in Nat /\ m.prev \in Int
      /\ m.entries \in Seq(Entry)
  BY Zenon DEF AppendRequest
<1>2. m.prev + Len(m.entries) \in Int
  BY <1>1
<1>3. QED
  BY Zenon, <1>1, <1>2 DEF AppendReply, AppendAnswer

\* AppendEntries leaves a log, and never an empty one.
LEMMA MergeType ==
  ASSUME TypeOK, NEW s \in Server, NEW prev \in Int, NEW entries \in Seq(Entry)
  PROVE  /\ Merge(s, prev, entries) \in Seq(Entry)
         /\ log[s] # << >> => Merge(s, prev, entries) # << >>
<1> DEFINE place(k) == prev - lastIncludedIndex[s] + k
           differs == {k \in 1..Len(entries) : \/ place(k) = Len(log[s])
                                               \/ /\ place(k) < Len(log[s])
                                                  /\ log[s][place(k) + 1].term # entries[k].term}
           first == CHOOSE k \in differs : \A j \in differs : k <= j
<1>1. Merge(s, prev, entries) =
        IF differs = {} THEN log[s]
        ELSE SubSeq(log[s], 1, place(first)) \o SubSeq(entries, first, Len(entries))
  BY Zenon DEF Merge
<1>2. log[s] \in Seq(Entry) /\ Len(log[s]) \in Nat /\ lastIncludedIndex[s] \in Nat
      /\ Len(entries) \in Nat
  BY LogType
<1>3. CASE differs = {}
  BY Zenon, <1>1, <1>2, <1>3
<1>4. CASE differs # {}
  <2>1. differs \in SUBSET Nat
    BY <1>2
  <2>2. \E k \in differs : \A j \in differs : k <= j
    <3> HIDE DEF differs
    <3>1. QED
      BY Zenon, <1>4, <2>1, LeastNat
  <2>3. first \in differs
    <3> HIDE DEF differs
    <3>1. QED
      BY Zenon, <2>2
  <2>4. first \in 1..Len(entries) /\ place(first) <= Len(log[s]) /\ place(first) \in Int
    <3> HIDE DEF first
    <3>1. first \in 1..Len(entries)
      BY Zenon, <2>3
    <3>2. place(first) = Len(log[s]) \/ place(first) < Len(log[s])
      BY Zenon, <2>3
    <3>3. QED
      BY <1>2, <3>1, <3>2
  <2> HIDE DEF first, differs
  <2>5. SubSeq(log[s], 1, place(first)) \in Seq(Entry)
    BY <1>2, <2>4, SubSeqType
  <2>6. SubSeq(entries, first, Len(entries)) \in Seq(Entry)
        /\ Len(SubSeq(entries, first, Len(entries))) >= 1
    BY <1>2, <2>4, SubSeqType
  <2>7. Merge(s, prev, entries) = SubSeq(log[s], 1, place(first)) \o SubSeq(entries, first, Len(entries))
    BY Zenon, <1>1, <1>4
  <2>8. QED
    BY Zenon, <2>5, <2>6, <2>7, ConcatType
<1>5. QED
  BY Zenon, <1>3, <1>4

\* The search for the start of the conflicting term ends.
LEMMA FirstOfTermType ==
  ASSUME TypeOK, NEW s \in Server, NEW i \in Int, lastIncludedIndex[s] <= i
  PROVE  FirstOfTerm(s, i) \in Int
<1> DEFINE base == lastIncludedIndex[s]
           Run(j) == \A k \in j..i : At(s, k).term = At(s, i).term
           S == {j \in (base + 1)..(i + 1) : Run(j)}
<1>1. base \in Nat
  BY Zenon, LogType
<1>2. S \in SUBSET Int /\ (\A j \in S : base <= j)
  BY <1>1
<1>3. i + 1 \in S
  BY <1>1
<1>4. PICK j \in S : \A k \in S : j <= k
  <2> HIDE DEF S
  <2>1. QED
    BY SMTT(30), <1>1, <1>2, <1>3, LeastInt
<1>5. j \in (base + 1)..(i + 1) /\ Run(j)
  BY Zenon, <1>4
<1>6. j = base + 1 \/ At(s, j - 1).term # At(s, i).term
  <2>1. SUFFICES ASSUME j # base + 1, At(s, j - 1).term = At(s, i).term
                 PROVE  FALSE
    BY Zenon
  <2>2. j - 1 \in (base + 1)..(i + 1)
    BY <1>1, <1>5, <2>1
  <2>3. Run(j - 1)
    BY <1>1, <1>5, <2>1
  <2>4. QED
    BY <1>1, <1>4, <1>5, <2>2, <2>3
<1>7. \E n \in (base + 1)..(i + 1) :
         /\ \A k \in n..i : At(s, k).term = At(s, i).term
         /\ n = base + 1 \/ At(s, n - 1).term # At(s, i).term
  BY Zenon, <1>5, <1>6
<1>8. FirstOfTerm(s, i) \in (base + 1)..(i + 1)
  BY Zenon, <1>7 DEF FirstOfTerm
<1>9. QED
  BY <1>1, <1>8

\* The commit loop stops at an index of the log or at commitIndex.
LEMMA CommitPointType ==
  ASSUME TypeOK, NEW s \in Server, log[s] # << >>, NEW match
  PROVE  CommitPoint(s, match) \in Nat
<1> DEFINE votes(n) == 1 + Cardinality({p \in Peers(s) : /\ match[p] >= n
                                                         /\ At(s, n).term = currentTerm[s]})
           enough == {n \in (commitIndex[s] + 1)..LastIndex(s) : votes(n) > Half}
<1>1. CommitPoint(s, match) =
        IF LastIndex(s) <= commitIndex[s] THEN LastIndex(s)
        ELSE IF enough = {} THEN commitIndex[s]
        ELSE CHOOSE n \in enough : \A k \in enough : n >= k
  BY Zenon DEF CommitPoint
<1>2. LastIndex(s) \in Nat /\ commitIndex[s] \in Nat
  BY Zenon, LogType DEF TypeOK
<1>3. enough \in SUBSET Nat /\ \A n \in enough : n <= LastIndex(s)
  BY <1>2
<1> HIDE DEF enough
<1>4. CASE enough # {}
  <2>0. enough \in SUBSET Int /\ LastIndex(s) \in Int
    BY <1>2, <1>3
  <2>1. \E n \in enough : \A k \in enough : n >= k
    BY Zenon, <1>3, <1>4, <2>0, GreatestInt
  <2>2. (CHOOSE n \in enough : \A k \in enough : n >= k) \in enough
    BY Zenon, <2>1
  <2>3. QED
    BY Zenon, <1>1, <1>2, <1>3, <2>2
<1>5. QED
  BY Zenon, <1>1, <1>2, <1>4

\* The search of a leader after a conflict ends at an index of its log.
LEMMA ConflictSearchType ==
  ASSUME TypeOK, NEW s \in Server, log[s] # << >>, NEW m \in AppendAnswer,
         m.to \in Server, MaxOf(NextOf(s, m.to) - 1, lastIncludedIndex[s]) <= LastIndex(s)
  PROVE  ConflictSearch(s, m) \in Nat /\ InLog(s, ConflictSearch(s, m))
<1> DEFINE base == lastIncludedIndex[s]
           from == MaxOf(NextOf(s, m.to) - 1, base)
           Stop(i) == i = base \/ At(s, i).term <= m.rterm
           S == {i \in base..from : Stop(i)}
<1>1. base \in Nat /\ LastIndex(s) \in Nat /\ m.rterm \in Nat
  BY Zenon, LogType DEF AppendAnswer
<1>2. from \in Int /\ from >= base /\ from <= LastIndex(s)
  BY SMTT(30), <1>1, PeerType DEF MaxOf
<1> HIDE DEF from
<1>3. S \in SUBSET Int /\ (\A i \in S : i <= from) /\ base \in S
  BY <1>1, <1>2
<1>4. PICK i \in S : \A k \in S : i >= k
  <2> HIDE DEF S
  <2>1. QED
    BY Zenon, <1>2, <1>3, GreatestInt
<1>5. i \in base..from /\ Stop(i)
  BY Zenon, <1>4
<1>6. ASSUME NEW k \in (i + 1)..from PROVE At(s, k).term > m.rterm
  <2>1. k \in base..from /\ k # base /\ k > i
    BY <1>1, <1>2, <1>5
  <2>2. InLog(s, k)
    BY SMTT(30), <1>1, <1>2, <2>1 DEF InLog, LastIndex, LogEnd
  <2>3. At(s, k).term \in Int
    BY SMTT(30), <1>1, <1>2, <2>1, <2>2, LogType
  <2>4. ~(At(s, k).term <= m.rterm)
    BY <1>4, <2>1
  <2>5. QED
    BY <1>1, <2>3, <2>4
<1>7. ConflictSearch(s, m) \in base..from
  <2>1. \E n \in base..from : /\ n = base \/ At(s, n).term <= m.rterm
                              /\ \A k \in (n + 1)..from : At(s, k).term > m.rterm
    BY Zenon, <1>5, <1>6
  <2>2. QED
    BY Zenon, <2>1 DEF ConflictSearch, from
<1>8. QED
  BY SMTT(30), <1>1, <1>2, <1>7, LogType DEF InLog, LastIndex, LogEnd

\* What persist() saves has the type of the disk.
LEMMA PersistType ==
  ASSUME disk \in [Server -> DiskImage], NEW s \in Server, NEW c \in Nat, Persist(s, c),
         currentTerm'[s] \in Nat, votedFor'[s] \in Server \cup {NoVote},
         log'[s] \in Seq(Entry), lastIncludedIndex'[s] \in Nat, lastIncludedTerm'[s] \in Int
  PROVE  disk' \in [Server -> DiskImage]
<1>1. CASE log'[s] = << >>
  BY Zenon, <1>1 DEF Persist
<1>2. CASE log'[s] # << >>
  <2>1. Tail(log'[s]) \in Seq(Entry)
    BY Zenon, <1>2, HeadTailProperties
  <2>2. [term |-> currentTerm'[s], vote |-> votedFor'[s], commit |-> c,
         lastIndex |-> lastIncludedIndex'[s], lastTerm |-> lastIncludedTerm'[s],
         base |-> lastIncludedIndex'[s], entries |-> Tail(log'[s])] \in DiskImage
    BY Zenon, <2>1 DEF DiskImage
  <2>3. QED
    BY Zenon, <1>2, <2>2 DEF Persist
<1>3. QED
  BY Zenon, <1>1, <1>2

-----------------------------------------------------------------------------
(* Type correctness *)

\* The process of s ends, with any of the calls and any disk left.
LEMMA DieType ==
  ASSUME TypeInv, NEW s \in Server, NEW calls \in SUBSET rpcs, Die(s),
         rpcs' = Orphaned(calls, s), disk' \in [Server -> DiskImage], flaws' \subseteq Flaw,
         UNCHANGED restarts
  PROVE  TypeInv'
<1>1. TypeOK /\ calls \subseteq Rpc /\ installing \subseteq InstallCall
  BY Zenon DEF TypeInv, TypeOK
<1>2. /\ rpcs' \subseteq Rpc
      /\ \A m \in rpcs' : \/ m \in rpcs /\ m.from # s
                          \/ m.from = s /\ m.stage = "call" /\ m.live = FALSE
  BY Zenon, <1>1, OrphanedType
<1>3. /\ installing' \subseteq InstallCall
      /\ \A m \in installing' : \/ m \in installing /\ m.from # s
                                \/ m.from = s /\ m.stage = "call" /\ m.live = FALSE
  <2>1. {m \in installing : m.to # s} \in SUBSET Rpc /\ {m \in installing : m.to # s} \subseteq InstallCall
    BY Zenon, <1>1 DEF Rpc
  <2>2. installing' = Orphaned({m \in installing : m.to # s}, s)
    BY Zenon DEF Die
  <2>3. QED
    BY Zenon, <2>1, <2>2, OrphanedType
<1>4. TypeOK'
  <2>1. /\ phase' \in [Server -> {"down", "boot", "run"}]
        /\ currentTerm' \in [Server -> Nat] /\ votedFor' \in [Server -> Server \cup {NoVote}]
        /\ role' \in [Server -> Role] /\ voteCount' \in [Server -> Nat]
        /\ leaderIdx' \in [Server -> Nat]
    BY Zenon, <1>1 DEF TypeOK, Die, Role
  <2>2. /\ log' \in [Server -> Seq(Entry)] /\ lastIncludedIndex' \in [Server -> Nat]
        /\ lastIncludedTerm' \in [Server -> Int] /\ commitIndex' \in [Server -> Nat]
    BY <1>1, EmptySeq DEF TypeOK, Die
  <2>3. nextIndex' \in [Server -> [Server -> Int]] /\ matchIndex' \in [Server -> [Server -> Int]]
    BY SMTT(30), <1>1 DEF TypeOK, Die, Absent
  <2>4. reading' \in [Server -> ReadState]
    BY Zenon, <1>1 DEF TypeOK, Die, NoRead, ReadState
  <2>5. /\ electionDue' \subseteq Server /\ snapDue' \subseteq Server \X Server
        /\ counted' \in [Server -> SUBSET Server]
        /\ ballots' \subseteq Ballot /\ elected' \subseteq [term : Nat, leader : Server]
        /\ restarts' \in Nat
    BY Zenon, <1>1 DEF TypeOK, Die
  <2>6. QED
    BY Zenon, <1>2, <1>3, <2>1, <2>2, <2>3, <2>4, <2>5 DEF TypeOK
<1>5. Alive'
  <2>1. phase' = [phase EXCEPT ![s] = "down"] /\ phase \in [Server -> {"down", "boot", "run"}]
    BY Zenon, <1>1 DEF Die, TypeOK
  <2>2. ASSUME NEW r \in Server, phase'[r] = "run" PROVE log'[r] # << >>
    BY Zenon, <1>1, <2>1, <2>2 DEF Die, TypeInv, Alive, TypeOK
  <2>3. (\A r \in electionDue' : phase'[r] = "run") /\ (\A d \in snapDue' : phase'[d[1]] = "run")
    BY Zenon, <1>1, <2>1 DEF Die, TypeInv, Alive, TypeOK
  <2>4. ASSUME NEW m \in rpcs' \cup installing'
        PROVE  (m.live => phase'[m.from] = "run") /\ (m.stage # "call" => m.live)
    <3>1. m.from \in Server
      BY Zenon, <1>2, <1>3, RpcType DEF Rpc
    <3>2. QED
      BY Zenon, <1>2, <1>3, <2>1, <3>1 DEF TypeInv, Alive
  <2>5. QED
    BY Zenon, <2>2, <2>3, <2>4 DEF Alive
<1>6. QED
  BY Zenon, <1>4, <1>5 DEF TypeInv

\* A step of nodes that go on running keeps Alive if the logs it writes, the
\* goroutines it starts and the calls it adds are as Alive wants them.
LEMMA AliveKept ==
  ASSUME Alive, UNCHANGED phase,
         \A s \in Server : phase[s] = "run" => log'[s] = log[s] \/ log'[s] # << >>,
         \A s \in electionDue' : s \in electionDue \/ phase[s] = "run",
         \A d \in snapDue' : d \in snapDue \/ phase[d[1]] = "run",
         \A m \in rpcs' \cup installing' :
           \/ m \in rpcs \cup installing
           \/ (m.live => phase[m.from] = "run") /\ (m.stage # "call" => m.live)
  PROVE  Alive'
BY Zenon DEF Alive

\* A crash resets the memory of one node to values of their types.
LEMMA CrashType ==
  ASSUME TypeInv, NEW s \in Server, Crash(s)
  PROVE  TypeInv'
<1>1. disk \in [Server -> DiskImage] /\ disk[s] \in DiskImage /\ disk[s].entries \in Seq(Entry)
  BY Zenon DEF TypeInv, TypeOK, DiskImage
<1>2. PICK n \in 0..Len(disk[s].entries) :
        /\ disk' = [disk EXCEPT ![s].entries = SubSeq(@, 1, n)]
        /\ flaws' = IF n < Len(disk[s].entries) THEN flaws \cup {"lostEntries"} ELSE flaws
  BY Zenon DEF Crash
<1>3. disk' \in [Server -> DiskImage]
  <2>1. SubSeq(disk[s].entries, 1, n) \in Seq(Entry)
    BY <1>1, SubSeqProperties
  <2>2. [disk[s] EXCEPT !.entries = SubSeq(@, 1, n)] \in DiskImage
    BY Zenon, <1>1, <2>1 DEF DiskImage
  <2>3. QED
    BY Zenon, <1>1, <1>2, <2>2
<1>4. flaws' \subseteq Flaw
  BY Zenon, <1>2 DEF TypeInv, TypeOK, Flaw
<1>5. QED
  BY Zenon, <1>3, <1>4, DieType DEF Crash

\* So does one inside a write of the state file, which leaves an empty disk image.
LEMMA CrashInsideType ==
  ASSUME TypeInv, NEW s \in Server, CrashInside(s)
  PROVE  TypeInv'
<1>1. disk \in [Server -> DiskImage] /\ disk[s].lastIndex \in Nat /\ disk[s].lastTerm \in Int
  BY Zenon DEF TypeInv, TypeOK, DiskImage
<1>2. Torn(disk[s]) \in DiskImage
  BY <1>1 DEF Torn, DiskImage
<1>3. disk' \in [Server -> DiskImage]
  BY Zenon, <1>1, <1>2 DEF CrashInside
<1>4. flaws' \subseteq Flaw
  BY Zenon DEF TypeInv, TypeOK, Flaw, CrashInside
<1>5. QED
  BY Zenon, <1>3, <1>4, DieType DEF CrashInside

\* So does a panic, and the record that AppendEntries saved before it is a disk image.
LEMMA PanicType ==
  ASSUME TypeInv, NEW s \in Server, Panic(s)
  PROVE  TypeInv'
<1>1. disk \in [Server -> DiskImage] /\ TypeOK /\ flaws' \subseteq Flaw
  BY Zenon DEF TypeInv, TypeOK, Panic
<1>2. ASSUME NEW m \in rpcs, m.to = s, HandlerPanics(m),
             rpcs' = Orphaned(rpcs \ {m}, s),
             disk' = IF m.kind = "append" /\ m.term > currentTerm[s]
                     THEN [disk EXCEPT ![s] = Saved(s, m.term, NoVote)] ELSE disk
      PROVE  TypeInv'
  <2>1. CASE ~(m.kind = "append" /\ m.term > currentTerm[s])
    <3>1. disk' \in [Server -> DiskImage]
      BY Zenon, <1>1, <1>2, <2>1
    <3>2. QED
      BY Zenon, <1>1, <1>2, <3>1, DieType DEF Panic
  <2>2. CASE m.kind = "append" /\ m.term > currentTerm[s]
    <3>1. m \in AppendRequest
      BY Zenon, <1>1, <1>2, <2>2, RpcType DEF HandlerPanics, TypeOK
    <3>2. log[s] # << >>
      BY Zenon, <1>1, <1>2, <2>2, PanicLog
    <3>3. Saved(s, m.term, NoVote) \in DiskImage
      <4>1. Tail(log[s]) \in Seq(Entry)
        BY Zenon, <1>1, <3>2, LogType
      <4>2. /\ m.term \in Nat /\ commitIndex[s] \in Nat /\ lastIncludedIndex[s] \in Nat
            /\ lastIncludedTerm[s] \in Int
        BY Zenon, <1>1, <3>1 DEF TypeOK, AppendRequest
      <4>3. QED
        BY Zenon, <4>1, <4>2 DEF Saved, DiskImage
    <3>4. disk' \in [Server -> DiskImage]
      BY Zenon, <1>1, <1>2, <2>2, <3>3
    <3>5. QED
      BY Zenon, <1>1, <1>2, <3>4, DieType DEF Panic
  <2>3. QED
    BY Zenon, <2>1, <2>2
<1>3. CASE rpcs' = Orphaned(rpcs, s) /\ UNCHANGED disk
  BY Zenon, <1>1, <1>3, DieType DEF Panic
<1>4. QED
  BY Zenon, <1>2, <1>3 DEF Panic

\* Make only moves a node that is down to its boot phase.
LEMMA MakeType ==
  ASSUME TypeInv, NEW s \in Server, Make(s)
  PROVE  TypeInv'
<1>1. TypeOK'
  <2>1. phase' \in [Server -> {"down", "boot", "run"}] /\ restarts' \in Nat
    BY DEF TypeInv, TypeOK, Make
  <2>2. QED
    BY Zenon, <2>1 DEF TypeInv, TypeOK, Make, nodeVars, logVars, peerVars, callVars, ghostVars
<1>2. Alive'
  <2>1. phase' = [phase EXCEPT ![s] = "boot"] /\ phase[s] = "down"
    BY Zenon DEF Make
  <2>2. \A r \in Server : phase'[r] = "run" <=> phase[r] = "run"
    BY Zenon, <2>1 DEF TypeInv, TypeOK
  <2>3. UNCHANGED <<log, electionDue, snapDue, rpcs, installing>>
    BY Zenon DEF Make, logVars, callVars
  <2>4. \A m \in rpcs \cup installing : m.from \in Server
    BY Zenon, RpcType DEF TypeInv, TypeOK, Rpc
  <2>5. electionDue \subseteq Server /\ snapDue \subseteq Server \X Server
    BY Zenon DEF TypeInv, TypeOK
  <2>6. QED
    BY Zenon, <2>2, <2>3, <2>4, <2>5 DEF TypeInv, Alive
<1>3. QED
  BY Zenon, <1>1, <1>2 DEF TypeInv

\* startWork loads a disk image, which has the types of the variables it fills; the
\* log it builds has a placeholder, so it is not empty.
LEMMA StartWorkType ==
  ASSUME TypeInv, NEW s \in Server, startWork(s)
  PROVE  TypeInv'
<1>1. TypeOK /\ disk[s] \in DiskImage /\ BootBase(s) \in Nat
  BY Zenon DEF TypeInv, TypeOK, BootBase, DiskImage
<1>2. /\ disk[s].term \in Nat /\ disk[s].vote \in Server \cup {NoVote} /\ disk[s].commit \in Nat
      /\ disk[s].lastIndex \in Nat /\ disk[s].lastTerm \in Int /\ disk[s].base \in Nat
      /\ disk[s].entries \in Seq(Entry)
  BY Zenon, <1>1 DEF DiskImage
<1>3. /\ <<Placeholder(disk[s].base)>> \o disk[s].entries \in Seq(Entry)
      /\ <<Placeholder(disk[s].base)>> \o disk[s].entries # << >>
  <2>1. Placeholder(disk[s].base) \in Entry
    BY <1>2 DEF Placeholder, Entry
  <2>2. QED
    BY <1>2, <2>1, ConcatProperties, EmptySeq, LenProperties
<1>4. TypeOK'
  <2>1. /\ phase' \in [Server -> {"down", "boot", "run"}]
        /\ votedFor' \in [Server -> Server \cup {NoVote}] /\ currentTerm' \in [Server -> Nat]
        /\ commitIndex' \in [Server -> Nat] /\ log' \in [Server -> Seq(Entry)]
        /\ lastIncludedIndex' \in [Server -> Nat] /\ lastIncludedTerm' \in [Server -> Int]
    BY Zenon, <1>1, <1>2, <1>3 DEF TypeOK, startWork
  <2>2. flaws' \subseteq Flaw
    BY Zenon, <1>1 DEF TypeOK, startWork, Flaw
  <2>3. QED
    BY Zenon, <1>1, <2>1, <2>2 DEF TypeOK, startWork, peerVars, callVars
<1>5. Alive'
  <2>1. phase' = [phase EXCEPT ![s] = "run"] /\ phase \in [Server -> {"down", "boot", "run"}]
    BY Zenon, <1>1 DEF startWork, TypeOK
  <2>2. \A r \in Server : phase'[r] = "run" => log'[r] # << >>
    BY Zenon, <1>1, <1>3, <2>1 DEF startWork, TypeInv, Alive, TypeOK
  <2>3. UNCHANGED <<electionDue, snapDue, rpcs, installing>>
    BY Zenon DEF startWork, callVars
  <2>4. \A m \in rpcs \cup installing : m.from \in Server
    BY Zenon, RpcType DEF TypeInv, TypeOK, Rpc
  <2>5. electionDue \subseteq Server /\ snapDue \subseteq Server \X Server
    BY Zenon DEF TypeInv, TypeOK
  <2>6. QED
    BY Zenon, <2>1, <2>2, <2>3, <2>4, <2>5 DEF TypeInv, Alive
<1>6. QED
  BY Zenon, <1>4, <1>5 DEF TypeInv

\* The timer only starts a goroutine.
LEMMA TickerType ==
  ASSUME TypeInv, NEW s \in Server, ticker(s)
  PROVE  TypeInv'
<1>1. electionDue' = electionDue \cup {s} /\ phase[s] = "run"
  BY Zenon DEF ticker
<1>2. TypeOK'
  <2>1. electionDue' \subseteq Server
    BY Zenon, <1>1 DEF TypeInv, TypeOK
  <2>2. QED
    BY Zenon, <2>1 DEF TypeInv, TypeOK, ticker, nodeVars, logVars, peerVars, ghostVars
<1>3. Alive'
  BY Zenon, <1>1, AliveKept DEF TypeInv, ticker, logVars
<1>4. QED
  BY Zenon, <1>2, <1>3 DEF TypeInv

\* StartElection raises the term and sends well-typed calls: the log it reads the
\* last entry of is not empty.
LEMMA StartElectionType ==
  ASSUME TypeInv, NEW s \in Server, StartElection(s)
  PROVE  TypeInv'
<1>0. TypeOK /\ Alive
  BY Zenon DEF TypeInv
<1>1. phase[s] = "run" /\ log[s] # << >>
  BY Zenon, <1>0 DEF StartElection, Alive
<1>2. /\ currentTerm' \in [Server -> Nat] /\ role' \in [Server -> Role]
      /\ votedFor' \in [Server -> Server \cup {NoVote}] /\ voteCount' \in [Server -> Nat]
      /\ electionDue' \subseteq Server /\ counted' \in [Server -> SUBSET Server]
  <2>1. currentTerm' \in [Server -> Nat] /\ voteCount' \in [Server -> Nat]
    BY <1>0 DEF TypeOK, StartElection
  <2>2. role' \in [Server -> Role] /\ votedFor' \in [Server -> Server \cup {NoVote}]
    BY Zenon, <1>0 DEF TypeOK, StartElection, Role
  <2>3. electionDue' \subseteq Server /\ counted' \in [Server -> SUBSET Server]
    BY Zenon, <1>0 DEF TypeOK, StartElection
  <2>4. QED
    BY Zenon, <2>1, <2>2, <2>3
<1>3. ballots' \subseteq Ballot
  <2>1. [term |-> currentTerm[s] + 1, voter |-> s, cand |-> s] \in Ballot
    BY <1>0 DEF TypeOK, Ballot
  <2>2. QED
    BY Zenon, <1>0, <2>1 DEF TypeOK, StartElection
<1>4. disk' \in [Server -> DiskImage]
  <2>1. UNCHANGED logVars /\ Persist(s, commitIndex[s])
    BY Zenon DEF StartElection
  <2>2. QED
    BY Zenon, <1>0, <1>1, <1>2, <2>1, PersistType DEF logVars, TypeOK
<1>5. ASSUME NEW m \in rpcs', m \notin rpcs
      PROVE  m \in VoteCall /\ m.live /\ m.from = s /\ m.stage = "call"
  <2>1. PICK p \in Peers(s) :
          m = [kind |-> "vote", stage |-> "call", from |-> s, to |-> p, live |-> TRUE,
               term |-> currentTerm[s] + 1, lastIndex |-> LastIndex(s), lastTerm |-> LastTerm(s)]
    BY Zenon, <1>5 DEF StartElection
  <2>2. LastIndex(s) \in Int /\ LastTerm(s) \in Int
    BY Zenon, <1>0, <1>1, LogType
  <2>3. p \in Server /\ currentTerm[s] + 1 \in Nat
    <3>1. p \in Server
      BY Zenon, <2>1 DEF Peers
    <3>2. currentTerm[s] + 1 \in Nat
      BY <1>0 DEF TypeOK
    <3>3. QED
      BY Zenon, <3>1, <3>2
  <2>4. QED
    BY Zenon, <2>1, <2>2, <2>3 DEF VoteCall
<1>6. rpcs' \subseteq Rpc
  BY Zenon, <1>0, <1>5 DEF TypeOK, Rpc
<1>7. TypeOK'
  BY Zenon, <1>0, <1>2, <1>3, <1>4, <1>6 DEF TypeOK, StartElection, logVars, peerVars
<1>8. Alive'
  BY Zenon, <1>0, <1>1, <1>5, AliveKept DEF StartElection, logVars
<1>9. QED
  BY Zenon, <1>7, <1>8 DEF TypeInv

\* The three steps of the read-index call that leave the node as it is keep TypeInv.
LEMMA AskReadType ==
  ASSUME TypeInv, NEW s \in Server, AskRead(s) \/ GetCommitIndex(s) \/ ReadFails(s)
  PROVE  TypeInv'
<1>0. TypeOK /\ Alive /\ reading[s] \in ReadState
  BY Zenon DEF TypeInv, TypeOK
<1>1. UNCHANGED <<phase, nodeVars, logVars, peerVars, disk, electionDue, snapDue, installing,
                  rpcs, restarts, ghostVars>>
  BY Zenon DEF AskRead, GetCommitIndex, ReadFails
<1>2. reading' \in [Server -> ReadState]
  <2>1. CASE AskRead(s)
    <3>1. {commitIndex[t] : t \in Server} \in SUBSET Nat
      BY <1>0 DEF TypeOK
    <3>2. [reading[s] EXCEPT !.stage = "asked", !.floor = {commitIndex[t] : t \in Server}] \in ReadState
      BY Zenon, <1>0, <3>1 DEF ReadState
    <3>3. reading' = [reading EXCEPT ![s] =
            [reading[s] EXCEPT !.stage = "asked", !.floor = {commitIndex[t] : t \in Server}]]
      BY Zenon, <1>0, <2>1 DEF AskRead, TypeOK
    <3>4. QED
      BY Zenon, <1>0, <3>2, <3>3 DEF TypeOK
  <2>2. CASE GetCommitIndex(s)
    <3> DEFINE l == leaderIdx[s]
    <3>1. l \in Server /\ currentTerm[l] \in Nat /\ commitIndex[l] \in Nat
      BY Zenon, <1>0, <2>2 DEF TypeOK, GetCommitIndex, Peers
    <3>2. CurrentLeader(l) \in BOOLEAN
      BY Zenon DEF CurrentLeader
    <3> HIDE DEF l
    <3>3. [reading[s] EXCEPT !.stage = "answered", !.term = currentTerm[l],
                             !.commit = commitIndex[l], !.current = CurrentLeader(l)] \in ReadState
      BY Zenon, <1>0, <3>1, <3>2 DEF ReadState
    <3>4. reading' = [reading EXCEPT ![s] =
            [reading[s] EXCEPT !.stage = "answered", !.term = currentTerm[l],
                               !.commit = commitIndex[l], !.current = CurrentLeader(l)]]
      BY Zenon, <1>0, <2>2 DEF GetCommitIndex, TypeOK, l
    <3>5. QED
      BY Zenon, <1>0, <3>3, <3>4 DEF TypeOK
  <2>3. CASE ReadFails(s)
    BY Zenon, <1>0, <2>3 DEF TypeOK, ReadFails, NoRead, ReadState
  <2>4. QED
    BY Zenon, <2>1, <2>2, <2>3
<1>3. TypeOK'
  BY Zenon, <1>0, <1>1, <1>2 DEF TypeOK, nodeVars, logVars, peerVars, ghostVars
<1>4. Alive'
  BY Zenon, <1>0, <1>1, AliveKept DEF logVars
<1>5. QED
  BY Zenon, <1>3, <1>4 DEF TypeInv

\* SendCommitIndex takes over a term that an answer carried.
LEMMA SendCommitIndexType ==
  ASSUME TypeInv, NEW s \in Server, SendCommitIndex(s)
  PROVE  TypeInv'
<1>0. TypeOK /\ Alive /\ reading[s] \in ReadState
  BY Zenon DEF TypeInv, TypeOK
<1>1. currentTerm' \in [Server -> Nat] /\ reading' \in [Server -> ReadState] /\ flaws' \subseteq Flaw
  BY Zenon, <1>0 DEF TypeOK, SendCommitIndex, NoRead, ReadState, Flaw
<1>2. TypeOK'
  BY Zenon, <1>0, <1>1 DEF TypeOK, SendCommitIndex, logVars, peerVars
<1>3. Alive'
  BY Zenon, <1>0, AliveKept DEF SendCommitIndex, logVars
<1>4. QED
  BY Zenon, <1>2, <1>3 DEF TypeInv

\* Start appends one entry.
LEMMA StartType ==
  ASSUME TypeInv, NEW s \in Server, NEW v \in Value, Start(s, v)
  PROVE  TypeInv'
<1>0. TypeOK /\ Alive
  BY Zenon DEF TypeInv
<1>1. Append(log[s], [term |-> currentTerm[s], cmd |-> v]) \in Seq(Entry)
      /\ Append(log[s], [term |-> currentTerm[s], cmd |-> v]) # << >>
  <2>1. log[s] \in Seq(Entry) /\ currentTerm[s] \in Nat
    BY Zenon, <1>0 DEF TypeOK
  <2>2. [term |-> currentTerm[s], cmd |-> v] \in Entry
    BY <2>1 DEF Entry
  <2>3. QED
    BY <2>1, <2>2, AppendProperties
<1>2. log' \in [Server -> Seq(Entry)] /\ log'[s] # << >>
      /\ \A r \in Server : r # s => log'[r] = log[r]
  BY Zenon, <1>0, <1>1 DEF TypeOK, Start
<1>3. disk' \in [Server -> DiskImage]
  BY Zenon, <1>0, <1>2, PersistType DEF Start, TypeOK, nodeVars
<1>4. TypeOK'
  BY Zenon, <1>0, <1>2, <1>3 DEF TypeOK, Start, nodeVars, peerVars, callVars, ghostVars
<1>5. Alive'
  BY Zenon, <1>0, <1>2, AliveKept DEF Start, callVars
<1>6. QED
  BY Zenon, <1>4, <1>5 DEF TypeInv

\* Snapshot cuts the log at an index it contains, so at least the placeholder is left.
LEMMA SnapshotType ==
  ASSUME TypeInv, NEW s \in Server, NEW i \in SnapshotAt, Snapshot(s, i)
  PROVE  TypeInv'
<1>0. TypeOK /\ Alive /\ i \in Nat
  BY Zenon, BoundAssumption DEF TypeInv
<1>1. phase[s] = "run" /\ log[s] # << >> /\ lastIncludedIndex[s] < i /\ i <= LastIndex(s)
  <2>1. phase[s] = "run" /\ log[s] # << >> /\ lastIncludedIndex[s] < i /\ ~(i > LastIndex(s))
    BY Zenon, <1>0 DEF Snapshot, SnapshotPanics, Alive
  <2>2. LastIndex(s) \in Int
    BY Zenon, <1>0, LogType
  <2>3. QED
    BY <1>0, <2>1, <2>2
<1>2. InLog(s, i)
  BY <1>0, <1>1, LogType DEF InLog, LastIndex, LogEnd
<1> DEFINE kept == SubSeq(log[s], i - lastIncludedIndex[s] + 1, Len(log[s]))
<1>3. kept \in Seq(Entry) /\ kept # << >>
  <2>1. /\ log[s] \in Seq(Entry) /\ i - lastIncludedIndex[s] + 1 \in 1..Len(log[s])
        /\ Len(log[s]) \in Nat
    BY SMTT(30), <1>0, <1>1, LogType DEF LastIndex, LogEnd
  <2>2. kept \in Seq(Entry) /\ Len(kept) >= 1
    BY <2>1, SubSeqType
  <2> HIDE DEF kept
  <2>3. QED
    BY <2>2, EmptySeq
<1>4. log' = [log EXCEPT ![s] = kept]
  BY Zenon DEF Snapshot
<1> HIDE DEF kept
<1>5. /\ log' \in [Server -> Seq(Entry)] /\ log'[s] # << >>
      /\ \A r \in Server : r # s => log'[r] = log[r]
  BY Zenon, <1>0, <1>3, <1>4 DEF TypeOK
<1>6. lastIncludedIndex' \in [Server -> Nat] /\ lastIncludedTerm' \in [Server -> Int]
  <2>1. At(s, i).term \in Int
    BY <1>0, <1>2, LogType
  <2>2. QED
    BY Zenon, <1>0, <2>1 DEF TypeOK, Snapshot
<1>7. disk' \in [Server -> DiskImage]
  BY Zenon, <1>0, <1>5, <1>6, PersistType DEF Snapshot, TypeOK, nodeVars
<1>8. TypeOK'
  BY Zenon, <1>0, <1>5, <1>6, <1>7 DEF TypeOK, Snapshot, nodeVars, peerVars, callVars, ghostVars
<1>9. Alive'
  BY Zenon, <1>0, <1>5, AliveKept DEF Snapshot, callVars
<1>10. QED
  BY Zenon, <1>8, <1>9 DEF TypeInv

\* The call of a leader whose previous index is in its log.
LEMMA AppendCallType ==
  ASSUME TypeOK, NEW s \in Server, NEW p \in Server, NEW entries \in Seq(Entry),
         NEW awaited \in BOOLEAN, InLog(s, NextOf(s, p) - 1)
  PROVE  AppendCall(s, p, entries, awaited) \in AppendRequest
<1>1. NextOf(s, p) - 1 \in Int
  BY PeerType
<1>2. At(s, NextOf(s, p) - 1).term \in Int
  BY Zenon, <1>1, LogType
<1>3. currentTerm[s] \in Nat /\ commitIndex[s] \in Nat
  BY Zenon DEF TypeOK
<1>4. QED
  BY Zenon, <1>1, <1>2, <1>3 DEF AppendCall, AppendRequest

\* A heartbeat carries an entry's term that exists, or asks for a snapshot to be sent.
LEMMA StartSendAppendEntriesType ==
  ASSUME TypeInv, NEW s \in Server, NEW p \in Server, StartSendAppendEntries(s, p)
  PROVE  TypeInv'
<1>0. TypeOK /\ Alive /\ phase[s] = "run" /\ log[s] # << >>
  BY Zenon DEF TypeInv, Alive, StartSendAppendEntries
<1>1. UNCHANGED <<phase, nodeVars, logVars, peerVars, disk, electionDue, installing, reading,
                  restarts, ghostVars>>
  BY Zenon DEF StartSendAppendEntries
<1>2. /\ snapDue' \subseteq snapDue \cup {<<s, p>>}
      /\ \A m \in rpcs' : m \in rpcs \/ (m \in AppendRequest /\ m.from = s /\ m.stage = "call")
  <2>1. CASE snapDue' = snapDue \cup {<<s, p>>} /\ UNCHANGED rpcs
    BY Zenon, <2>1
  <2>2. CASE /\ NextOf(s, p) - 1 >= lastIncludedIndex[s] /\ ~HeartbeatPanics(s, p)
             /\ Send(AppendCall(s, p, SubSeq(log[s], NextOf(s, p) - lastIncludedIndex[s] + 1,
                                             Len(log[s])), TRUE))
             /\ UNCHANGED snapDue
    <3>1. InLog(s, NextOf(s, p) - 1)
      BY Zenon, <2>2 DEF HeartbeatPanics, BadIndex
    <3> DEFINE first == NextOf(s, p) - lastIncludedIndex[s] + 1
               entries == SubSeq(log[s], first, Len(log[s]))
    <3>2. first >= 1 /\ first \in Int /\ log[s] \in Seq(Entry) /\ Len(log[s]) \in Nat
      <4>1. NextOf(s, p) \in Int
        BY Zenon, <1>0, PeerType
      <4>2. lastIncludedIndex[s] \in Nat /\ log[s] \in Seq(Entry) /\ Len(log[s]) \in Nat
        BY Zenon, <1>0, LogType
      <4>3. QED
        BY <2>2, <4>1, <4>2
    <3> HIDE DEF first
    <3>3. entries \in Seq(Entry)
      BY <3>2, SubSeqType
    <3> HIDE DEF entries
    <3>4. AppendCall(s, p, entries, TRUE) \in AppendRequest
      BY Zenon, <1>0, <3>1, <3>3, AppendCallType
    <3>5. rpcs' = rpcs \cup {AppendCall(s, p, entries, TRUE)}
      BY Zenon, <2>2 DEF Send, entries, first
    <3>6. AppendCall(s, p, entries, TRUE).from = s /\ AppendCall(s, p, entries, TRUE).stage = "call"
      BY Zenon DEF AppendCall
    <3>7. QED
      BY Zenon, <2>2, <3>4, <3>5, <3>6
  <2>3. QED
    BY Zenon, <2>1, <2>2 DEF StartSendAppendEntries
<1>3. TypeOK'
  <2>1. snapDue' \subseteq Server \X Server
    <3>1. snapDue \subseteq Server \X Server /\ <<s, p>> \in Server \X Server
      BY Zenon, <1>0 DEF TypeOK
    <3>2. QED
      BY Zenon, <1>2, <3>1
  <2>2. rpcs' \subseteq Rpc
    BY Zenon, <1>0, <1>2 DEF TypeOK, Rpc
  <2>3. QED
    BY Zenon, <1>0, <1>1, <2>1, <2>2 DEF TypeOK, nodeVars, logVars, peerVars, ghostVars
<1>4. Alive'
  BY <1>0, <1>1, <1>2, AliveKept DEF logVars
<1>5. QED
  BY Zenon, <1>3, <1>4 DEF TypeInv

\* So does the heartbeat before a read.
LEMMA SingleHeartBeatType ==
  ASSUME TypeInv, NEW s \in Server, NEW p \in Server, SingleHeartBeat(s, p)
  PROVE  TypeInv'
<1>0. TypeOK /\ Alive /\ InLog(s, NextOf(s, p) - 1)
  BY Zenon DEF TypeInv, SingleHeartBeat, BeatPanics, BadIndex
<1>1. rpcs' = rpcs \cup {AppendCall(s, p, << >>, FALSE)}
  BY Zenon DEF SingleHeartBeat, Send
<1>2. AppendCall(s, p, << >>, FALSE) \in AppendRequest
  BY Zenon, <1>0, AppendCallType, EmptySeq
<1>3. /\ AppendCall(s, p, << >>, FALSE).live = FALSE
      /\ AppendCall(s, p, << >>, FALSE).stage = "call"
  BY Zenon DEF AppendCall
<1>4. TypeOK'
  <2>1. rpcs' \subseteq Rpc
    BY Zenon, <1>0, <1>1, <1>2 DEF TypeOK, Rpc
  <2>2. QED
    BY Zenon, <1>0, <2>1 DEF TypeOK, SingleHeartBeat, nodeVars, logVars, peerVars, callVars, ghostVars
<1>5. Alive'
  BY Zenon, <1>0, <1>1, <1>3, AliveKept DEF SingleHeartBeat, logVars, callVars
<1>6. QED
  BY Zenon, <1>4, <1>5 DEF TypeInv

\* sendInstallSnapshotToServer sends the snapshot with the command of the placeholder.
LEMMA SendInstallType ==
  ASSUME TypeInv, NEW s \in Server, NEW p \in Server, sendInstallSnapshot(s, p)
  PROVE  TypeInv'
<1>0. TypeOK /\ Alive /\ phase[s] = "run" /\ log[s] # << >>
  <2>1. <<s, p>> \in snapDue
    BY Zenon DEF sendInstallSnapshot
  <2>2. QED
    BY Zenon, <2>1 DEF TypeInv, Alive
<1>1. \A m \in rpcs' : m \in rpcs \/ (m \in InstallCall /\ m.from = s /\ m.stage = "call")
  <2> DEFINE call == [kind |-> "install", stage |-> "call", from |-> s, to |-> p, live |-> TRUE,
                      term |-> currentTerm[s], lastIndex |-> lastIncludedIndex[s],
                      lastTerm |-> lastIncludedTerm[s], cmd |-> log[s][1].cmd]
  <2>1. log[s][1].cmd \in Command
    <3>1. log[s][1] \in Entry
      BY Zenon, <1>0, LogType
    <3>2. QED
      BY Zenon, <3>1 DEF Entry, Command
  <2>2. currentTerm[s] \in Nat /\ lastIncludedIndex[s] \in Nat /\ lastIncludedTerm[s] \in Int
    BY Zenon, <1>0 DEF TypeOK
  <2>3. call \in InstallCall /\ call.from = s /\ call.stage = "call"
    BY Zenon, <2>1, <2>2 DEF InstallCall
  <2>4. rpcs' = rpcs \cup {call} \/ rpcs' = rpcs
    BY Zenon DEF sendInstallSnapshot, Send
  <2>5. QED
    BY Zenon, <2>3, <2>4
<1>2. TypeOK'
  <2>1. snapDue' \subseteq Server \X Server /\ rpcs' \subseteq Rpc
    BY Zenon, <1>0, <1>1 DEF TypeOK, Rpc, sendInstallSnapshot
  <2>2. QED
    BY Zenon, <1>0, <2>1 DEF TypeOK, sendInstallSnapshot, nodeVars, logVars, peerVars, ghostVars
<1>3. Alive'
  BY Zenon, <1>0, <1>1, AliveKept DEF sendInstallSnapshot, logVars
<1>4. QED
  BY Zenon, <1>2, <1>3 DEF TypeInv

\* A lost call only leaves rpcs.
LEMMA LoseType ==
  ASSUME TypeInv, NEW m \in rpcs, Lose(m)
  PROVE  TypeInv'
<1>1. rpcs' \subseteq rpcs
  BY Zenon DEF Lose
<1>2. TypeOK'
  <2>1. rpcs' \subseteq Rpc
    BY Zenon, <1>1 DEF TypeInv, TypeOK
  <2>2. QED
    BY Zenon, <2>1 DEF TypeInv, TypeOK, Lose, nodeVars, logVars, peerVars, callVars, ghostVars
<1>3. Alive'
  BY Zenon, <1>1, AliveKept DEF TypeInv, Lose, logVars, callVars
<1>4. QED
  BY Zenon, <1>2, <1>3 DEF TypeInv

\* A reply is added only for a caller that still runs.
LEMMA AnsweredType ==
  ASSUME TypeInv, NEW m \in rpcs \cup installing, NEW reply \in Rpc,
         reply.from = m.from, reply.live
  PROVE  /\ Answered(m, reply) \subseteq Rpc
         /\ \A n \in Answered(m, reply) :
              \/ n \in rpcs
              \/ (n.live => phase[n.from] = "run") /\ (n.stage # "call" => n.live)
<1>1. Answered(m, reply) \subseteq Rpc
  BY Zenon DEF TypeInv, TypeOK, Answered
<1>2. ASSUME NEW n \in Answered(m, reply), n \notin rpcs
      PROVE  n = reply /\ m.live
  BY Zenon, <1>2 DEF Answered
<1>3. m.live => phase[m.from] = "run"
  BY Zenon DEF TypeInv, Alive
<1>4. QED
  BY Zenon, <1>1, <1>2, <1>3

\* RequestVote answers with a term no lower than the voter's.
LEMMA RequestVoteType ==
  ASSUME TypeInv, NEW m \in rpcs, RequestVote(m)
  PROVE  TypeInv'
<1> DEFINE s == m.to
           newer == m.term > currentTerm[s]
           grant == VoteFree(m) /\ UpToDate(m)
           reply == [kind |-> "vote", stage |-> "reply", from |-> m.from, to |-> s,
                     live |-> TRUE, term |-> m.term,
                     rterm |-> MaxOf(currentTerm[s], m.term), granted |-> grant]
<1>0. TypeOK /\ Alive /\ m \in Rpc /\ m \in VoteCall
  BY Zenon, RpcType DEF TypeInv, TypeOK, RequestVote
<1>1. s \in Server /\ m.from \in Server /\ m.term \in Nat
  BY Zenon, <1>0 DEF VoteCall
<1>2. grant \in BOOLEAN
  BY Zenon DEF VoteFree, UpToDate
<1>3. reply \in VoteReply /\ reply.from = m.from /\ reply.live
  <2> HIDE DEF grant
  <2>1. MaxOf(currentTerm[s], m.term) \in Nat
    BY Zenon, <1>0, <1>1 DEF TypeOK, MaxOf
  <2>2. QED
    BY Zenon, <1>1, <1>2, <2>1 DEF VoteReply
<1>4. /\ currentTerm' = [currentTerm EXCEPT ![s] = MaxOf(@, m.term)]
      /\ votedFor' = [votedFor EXCEPT ![s] = IF grant THEN m.from ELSE IF newer THEN NoVote ELSE @]
      /\ role' = [role EXCEPT ![s] = IF grant \/ newer THEN "Follower" ELSE @]
      /\ rpcs' = Answered(m, reply)
      /\ ballots' = IF grant
                    THEN ballots \cup {[term |-> m.term, voter |-> s, cand |-> m.from]}
                    ELSE ballots
      /\ UNCHANGED <<phase, voteCount, leaderIdx, logVars, peerVars, callVars, restarts,
                     elected, counted, flaws>>
      /\ IF grant \/ newer THEN Persist(s, commitIndex[s]) ELSE UNCHANGED disk
  BY Zenon DEF RequestVote
<1> HIDE DEF grant, newer, reply
<1>5. /\ currentTerm' \in [Server -> Nat] /\ votedFor' \in [Server -> Server \cup {NoVote}]
      /\ role' \in [Server -> Role]
  BY Zenon, <1>0, <1>1, <1>4 DEF TypeOK, MaxOf, Role
<1>6. ballots' \subseteq Ballot
  <2>1. [term |-> m.term, voter |-> s, cand |-> m.from] \in Ballot
    BY Zenon, <1>1 DEF Ballot
  <2>2. QED
    BY Zenon, <1>0, <1>4, <2>1 DEF TypeOK
<1>7. rpcs' \subseteq Rpc
      /\ \A n \in rpcs' :
           \/ n \in rpcs
           \/ (n.live => phase[n.from] = "run") /\ (n.stage # "call" => n.live)
  BY Zenon, <1>3, <1>4, AnsweredType DEF Rpc
<1>8. disk' \in [Server -> DiskImage]
  BY Zenon, <1>0, <1>1, <1>4, <1>5, PersistType DEF TypeOK, logVars
<1>9. TypeOK'
  BY Zenon, <1>0, <1>4, <1>5, <1>6, <1>7, <1>8 DEF TypeOK, logVars, peerVars, callVars
<1>10. Alive'
  BY Zenon, <1>0, <1>4, <1>7, AliveKept DEF logVars, callVars
<1>11. QED
  BY Zenon, <1>9, <1>10 DEF TypeInv

\* procVoteAnswer takes over the term of the answer, or passes the vote on to be counted.
LEMMA ProcVoteAnswerType ==
  ASSUME TypeInv, NEW m \in rpcs, procVoteAnswer(m)
  PROVE  TypeInv'
<1> DEFINE s == m.from
           tally == [kind |-> "vote", stage |-> "tally", from |-> s, to |-> m.to,
                     live |-> TRUE, term |-> m.term]
<1>0. TypeOK /\ Alive /\ m \in Rpc /\ m \in VoteReply /\ m.stage = "reply"
  BY Zenon, RpcType DEF TypeInv, TypeOK, procVoteAnswer
<1>1. s \in Server /\ m.to \in Server /\ m.term \in Nat /\ m.rterm \in Nat
  BY Zenon, <1>0 DEF VoteReply
<1>2. /\ currentTerm' \in [Server -> Nat] /\ votedFor' \in [Server -> Server \cup {NoVote}]
      /\ role' \in [Server -> Role]
  BY Zenon, <1>0, <1>1 DEF TypeOK, procVoteAnswer, Role
<1>3. tally \in VoteTally /\ tally.from = s /\ tally.live
  BY Zenon, <1>1 DEF VoteTally
<1>4. rpcs' \subseteq rpcs \cup {tally}
  BY Zenon DEF procVoteAnswer
<1>5. phase[s] = "run"
  BY Zenon, <1>0 DEF Alive
<1> HIDE DEF tally
<1>6. disk' \in [Server -> DiskImage]
  <2>1. UNCHANGED logVars /\ (Persist(s, commitIndex[s]) \/ UNCHANGED disk)
    BY Zenon DEF procVoteAnswer
  <2>2. QED
    BY Zenon, <1>0, <1>1, <1>2, <2>1, PersistType DEF TypeOK, logVars
<1>7. TypeOK'
  <2>1. rpcs' \subseteq Rpc
    BY Zenon, <1>0, <1>3, <1>4 DEF TypeOK, Rpc
  <2>2. QED
    BY Zenon, <1>0, <1>2, <1>6, <2>1 DEF TypeOK, procVoteAnswer, logVars, peerVars, callVars, ghostVars
<1>8. Alive'
  BY Zenon, <1>0, <1>3, <1>4, <1>5, AliveKept DEF procVoteAnswer, logVars, callVars
<1>9. QED
  BY Zenon, <1>7, <1>8 DEF TypeInv

\* collectVote counts one vote and, for a winner, fills the maps of the peers.
LEMMA CollectVoteType ==
  ASSUME TypeInv, NEW m \in rpcs, NEW outTime \in BOOLEAN, collectVote(m, outTime)
  PROVE  TypeInv'
<1> DEFINE s == m.from
<1>0. TypeOK /\ Alive /\ m \in Rpc /\ m \in VoteTally
  BY Zenon, RpcType DEF TypeInv, TypeOK, collectVote
<1>1. s \in Server /\ m.to \in Server
  BY Zenon, <1>0 DEF VoteTally
<1>2. rpcs' \subseteq rpcs
  BY Zenon DEF collectVote
<1>3. /\ voteCount' \in [Server -> Nat] /\ counted' \in [Server -> SUBSET Server]
      /\ flaws' \subseteq Flaw
  <2>1. voteCount' \in [Server -> Nat]
    <3>1. PICK late \in BOOLEAN : voteCount' = [voteCount EXCEPT ![s] = IF late THEN @ ELSE @ + 1]
      BY Zenon DEF collectVote
    <3>2. voteCount \in [Server -> Nat]
      BY Zenon, <1>0 DEF TypeOK
    <3>3. QED
      BY <1>1, <3>1, <3>2
  <2>2. counted' \in [Server -> SUBSET Server]
    BY Zenon, <1>0, <1>1 DEF TypeOK, collectVote
  <2>3. flaws' \subseteq Flaw
    BY Zenon, <1>0 DEF TypeOK, collectVote, Flaw
  <2>4. QED
    BY Zenon, <2>1, <2>2, <2>3
<1>4. role' \in [Server -> Role] /\ leaderIdx' \in [Server -> Nat]
  BY Zenon, <1>0, <1>1, ServerAssumption DEF TypeOK, collectVote, Role
<1>5. nextIndex' \in [Server -> [Server -> Int]] /\ matchIndex' \in [Server -> [Server -> Int]]
  <2>1. LogEnd(s) \in Nat /\ lastIncludedIndex[s] \in Nat
    BY Zenon, <1>0, <1>1, LogType
  <2>2. PICK wins \in BOOLEAN :
          /\ nextIndex' = [nextIndex EXCEPT ![s] =
               [p \in Server |-> IF wins /\ p \in ResetKeys(s) THEN LogEnd(s) ELSE @[p]]]
          /\ matchIndex' = [matchIndex EXCEPT ![s] =
               [p \in Server |-> IF wins /\ p \in ResetKeys(s) THEN lastIncludedIndex[s] ELSE @[p]]]
    BY Zenon DEF collectVote
  <2>3. nextIndex \in [Server -> [Server -> Int]] /\ matchIndex \in [Server -> [Server -> Int]]
    BY Zenon, <1>0 DEF TypeOK
  <2>4. QED
    BY <1>1, <2>1, <2>2, <2>3
<1>6. elected' \subseteq [term : Nat, leader : Server]
  <2>1. [term |-> currentTerm[s], leader |-> s] \in [term : Nat, leader : Server]
    BY Zenon, <1>0, <1>1 DEF TypeOK
  <2>2. elected' \subseteq elected \cup {[term |-> currentTerm[s], leader |-> s]}
    BY Zenon DEF collectVote
  <2>3. QED
    BY Zenon, <1>0, <2>1, <2>2 DEF TypeOK
<1>7. TypeOK'
  <2>1. rpcs' \subseteq Rpc
    BY Zenon, <1>0, <1>2 DEF TypeOK
  <2>2. UNCHANGED <<phase, currentTerm, votedFor, logVars, disk, callVars, restarts, ballots>>
    BY Zenon DEF collectVote
  <2>3. QED
    BY Zenon, <1>0, <1>3, <1>4, <1>5, <1>6, <2>1, <2>2 DEF TypeOK, logVars, callVars
<1>8. Alive'
  BY Zenon, <1>0, <1>2, AliveKept DEF collectVote, logVars, callVars
<1>9. QED
  BY Zenon, <1>7, <1>8 DEF TypeInv

\* AppendEntries, refused or accepted, leaves a well-typed log with its placeholder.
LEMMA AppendEntriesType ==
  ASSUME TypeInv, NEW m \in rpcs, AppendEntries(m)
  PROVE  TypeInv'
<1> DEFINE s == m.to
<1>0. TypeOK /\ Alive /\ m \in Rpc /\ m \in AppendRequest
  BY Zenon, RpcType DEF TypeInv, TypeOK, AppendEntries
<1>1. /\ s \in Server /\ m.from \in Server /\ m.term \in Nat /\ m.prev \in Int /\ m.commit \in Nat
      /\ m.entries \in Seq(Entry) /\ Len(m.entries) \in Nat
  BY <1>0 DEF AppendRequest
<1>2. /\ currentTerm[s] \in Nat /\ commitIndex[s] \in Nat /\ lastIncludedIndex[s] \in Nat
      /\ LogEnd(s) \in Nat
  BY Zenon, <1>0, <1>1, LogType DEF TypeOK
<1>3. UNCHANGED <<phase, voteCount, peerVars, callVars, restarts, ballots, elected, counted>>
  BY Zenon DEF AppendEntries
<1> DEFINE Fits(r) == r \in AppendAnswer /\ r.from = m.from /\ r.live = TRUE
<1>4. m.prev + Len(m.entries) \in Int
  BY <1>1
<1> HIDE DEF Fits
<1>5. CASE AppendRefused(m)
  <2> DEFINE stale == m.term < currentTerm[s]
             reply == IF stale THEN AppendReply(m, currentTerm[s], FALSE, 0, 0, 0)
                      ELSE IF AppendMissing(m) THEN AppendReply(m, m.term, FALSE, -1, 0, LogEnd(s))
                      ELSE IF AppendInSnapshot(m)
                        THEN AppendReply(m, m.term, FALSE, -1, 0, lastIncludedIndex[s] + 1)
                      ELSE AppendReply(m, m.term, FALSE, At(s, m.prev).term,
                                       FirstOfTerm(s, m.prev), LogEnd(s))
  <2>1. Fits(reply)
    <3>0. FALSE \in BOOLEAN /\ 0 \in Int /\ -1 \in Int /\ LogEnd(s) \in Int
          /\ lastIncludedIndex[s] + 1 \in Int
      BY <1>2
    <3>1. CASE stale
      <4>1. Fits(AppendReply(m, currentTerm[s], FALSE, 0, 0, 0))
        BY Zenon, <1>0, <1>2, <3>0, AppendAnswerType DEF Fits
      <4>2. QED
        BY Zenon, <3>1, <4>1
    <3>2. CASE ~stale /\ AppendMissing(m)
      <4>1. Fits(AppendReply(m, m.term, FALSE, -1, 0, LogEnd(s)))
        BY Zenon, <1>0, <1>1, <3>0, AppendAnswerType DEF Fits
      <4>2. QED
        BY Zenon, <3>2, <4>1
    <3>3. CASE ~stale /\ ~AppendMissing(m) /\ AppendInSnapshot(m)
      <4>1. Fits(AppendReply(m, m.term, FALSE, -1, 0, lastIncludedIndex[s] + 1))
        BY Zenon, <1>0, <1>1, <3>0, AppendAnswerType DEF Fits
      <4>2. QED
        BY Zenon, <3>3, <4>1
    <3>4. CASE ~stale /\ ~AppendMissing(m) /\ ~AppendInSnapshot(m)
      <4>1. lastIncludedIndex[s] <= m.prev /\ m.prev < LogEnd(s)
        BY <1>1, <1>2, <3>4 DEF AppendMissing, AppendInSnapshot
      <4>2. At(s, m.prev).term \in Int
        BY Zenon, <1>0, <1>1, <4>1, LogType DEF InLog
      <4>3. FirstOfTerm(s, m.prev) \in Int
        BY Zenon, <1>0, <1>1, <4>1, FirstOfTermType
      <4>4. Fits(AppendReply(m, m.term, FALSE, At(s, m.prev).term, FirstOfTerm(s, m.prev), LogEnd(s)))
        BY Zenon, <1>0, <1>1, <3>0, <4>2, <4>3, AppendAnswerType DEF Fits
      <4>5. QED
        BY Zenon, <3>4, <4>4
    <3>5. QED
      BY Zenon, <3>1, <3>2, <3>3, <3>4
  <2>2. rpcs' = Answered(m, reply) /\ UNCHANGED <<leaderIdx, logVars, flaws>>
    BY Zenon, <1>5 DEF AppendRefused
  <2> HIDE DEF reply
  <2>3. rpcs' \subseteq Rpc
        /\ \A n \in rpcs' :
             \/ n \in rpcs
             \/ (n.live => phase[n.from] = "run") /\ (n.stage # "call" => n.live)
    BY Zenon, <2>1, <2>2, AnsweredType DEF Rpc, Fits
  <2>4. /\ currentTerm' \in [Server -> Nat] /\ votedFor' \in [Server -> Server \cup {NoVote}]
        /\ role' \in [Server -> Role]
    BY Zenon, <1>0, <1>1, <1>5 DEF TypeOK, AppendRefused, MaxOf, Role
  <2>5. disk' \in [Server -> DiskImage]
    <3>1. Persist(s, commitIndex[s]) \/ UNCHANGED disk
      BY Zenon, <1>5 DEF AppendRefused
    <3>2. QED
      BY Zenon, <1>0, <1>1, <2>2, <2>4, <3>1, PersistType DEF TypeOK, logVars
  <2>6. TypeOK'
    BY Zenon, <1>0, <1>3, <2>2, <2>3, <2>4, <2>5 DEF TypeOK, logVars, peerVars, callVars
  <2>7. Alive'
    BY Zenon, <1>0, <1>3, <2>2, <2>3, AliveKept DEF logVars, callVars
  <2>8. QED
    BY Zenon, <2>6, <2>7 DEF TypeInv
<1>6. CASE AppendAccepted(m)
  <2> DEFINE reply == AppendReply(m, m.term, TRUE, 0, lastIncludedIndex[s], 0)
  <2>1. Fits(reply)
    <3>1. TRUE \in BOOLEAN /\ 0 \in Int /\ lastIncludedIndex[s] \in Int
      BY <1>2
    <3>2. QED
      BY Zenon, <1>0, <1>1, <3>1, AppendAnswerType DEF Fits
  <2>2. rpcs' = Answered(m, reply) /\ UNCHANGED <<lastIncludedIndex, lastIncludedTerm>>
    BY Zenon, <1>6 DEF AppendAccepted
  <2> HIDE DEF reply
  <2>3. rpcs' \subseteq Rpc
        /\ \A n \in rpcs' :
             \/ n \in rpcs
             \/ (n.live => phase[n.from] = "run") /\ (n.stage # "call" => n.live)
    BY Zenon, <2>1, <2>2, AnsweredType DEF Rpc, Fits
  <2>4. /\ currentTerm' \in [Server -> Nat] /\ votedFor' \in [Server -> Server \cup {NoVote}]
        /\ role' \in [Server -> Role] /\ leaderIdx' \in [Server -> Nat]
    <3>1. currentTerm' \in [Server -> Nat] /\ votedFor' \in [Server -> Server \cup {NoVote}]
      BY Zenon, <1>0, <1>1, <1>6 DEF TypeOK, AppendAccepted
    <3>2. role' \in [Server -> Role] /\ leaderIdx' \in [Server -> Nat]
      BY Zenon, <1>0, <1>1, <1>6, ServerAssumption DEF TypeOK, AppendAccepted, Role
    <3>3. QED
      BY Zenon, <3>1, <3>2
  <2>5. /\ log' \in [Server -> Seq(Entry)] /\ Len(log'[s]) \in Nat
        /\ \A r \in Server : log'[r] = log[r] \/ (log[r] # << >> => log'[r] # << >>)
    <3>1. /\ Merge(s, m.prev, m.entries) \in Seq(Entry)
          /\ log[s] # << >> => Merge(s, m.prev, m.entries) # << >>
      BY Zenon, <1>0, <1>1, MergeType
    <3>2. log' = [log EXCEPT ![s] = Merge(s, m.prev, m.entries)] \/ log' = [log EXCEPT ![s] = @]
      BY Zenon, <1>6 DEF AppendAccepted
    <3>3. log \in [Server -> Seq(Entry)]
      BY Zenon, <1>0 DEF TypeOK
    <3>4. CASE log' = [log EXCEPT ![s] = Merge(s, m.prev, m.entries)]
      <4>1. log' \in [Server -> Seq(Entry)] /\ log'[s] = Merge(s, m.prev, m.entries)
            /\ \A r \in Server : r # s => log'[r] = log[r]
        BY Zenon, <1>1, <3>1, <3>3, <3>4
      <4>2. Len(log'[s]) \in Nat
        BY Zenon, <1>1, <4>1, LenProperties
      <4>3. QED
        BY Zenon, <3>1, <4>1, <4>2
    <3>5. CASE log' = [log EXCEPT ![s] = @]
      <4>1. log' = log
        BY Zenon, <3>3, <3>5
      <4>2. Len(log'[s]) \in Nat
        BY Zenon, <1>1, <3>3, <4>1, LenProperties
      <4>3. QED
        BY Zenon, <3>3, <4>1, <4>2
    <3>6. QED
      BY Zenon, <3>2, <3>4, <3>5
  <2>6. commitIndex' \in [Server -> Nat]
    <3> DEFINE top == MaxOf(m.commit, lastIncludedIndex[s] + Len(log'[s]) - 1)
    <3>1. top \in Nat
      BY <1>1, <1>2, <2>5 DEF MaxOf
    <3>2. commitIndex' = [commitIndex EXCEPT ![s] = top] \/ commitIndex' = [commitIndex EXCEPT ![s] = @]
      BY Zenon, <1>6 DEF AppendAccepted
    <3> HIDE DEF top
    <3>3. QED
      BY ZenonT(30), <1>0, <1>1, <3>1, <3>2 DEF TypeOK
  <2>7. flaws' \subseteq Flaw
    <3>1. flaws' \subseteq flaws \cup {"overCommit"}
      BY Zenon, <1>6 DEF AppendAccepted
    <3>2. QED
      BY Zenon, <1>0, <3>1 DEF TypeOK, Flaw
  <2>8. disk' \in [Server -> DiskImage]
    <3>1. Persist(s, commitIndex[s])
      BY Zenon, <1>6 DEF AppendAccepted
    <3>2. QED
      BY ZenonT(30), <1>0, <1>1, <1>2, <2>2, <2>4, <2>5, <3>1, PersistType DEF TypeOK
  <2>9. TypeOK'
    BY Zenon, <1>0, <1>3, <2>2, <2>3, <2>4, <2>5, <2>6, <2>7, <2>8 DEF TypeOK, peerVars, callVars
  <2>10. Alive'
    <3>1. \A r \in Server : phase[r] = "run" => log'[r] = log[r] \/ log'[r] # << >>
      BY Zenon, <1>0, <2>5 DEF Alive
    <3>2. QED
      BY Zenon, <1>0, <1>3, <2>3, <3>1, AliveKept DEF callVars
  <2>11. QED
    BY Zenon, <2>9, <2>10 DEF TypeInv
<1>7. QED
  BY Zenon, <1>5, <1>6 DEF AppendEntries

\* The four outcomes of an AppendEntries answer keep TypeInv; the commit index stays
\* a natural number because the leader's log is not empty.
LEMMA AppendReplyType ==
  ASSUME TypeInv, NEW m \in rpcs, sendAppendEntriesToServer(m)
  PROVE  TypeInv'
<1> DEFINE s == m.from
<1>0. TypeOK /\ Alive /\ m \in Rpc /\ m \in AppendAnswer
  BY Zenon, RpcType DEF TypeInv, TypeOK, sendAppendEntriesToServer
<1>1. /\ s \in Server /\ m.to \in Server /\ m.term \in Nat /\ m.match \in Int /\ m.rterm \in Nat
      /\ m.success \in BOOLEAN /\ m.xterm \in Int /\ m.xindex \in Int /\ m.xlen \in Int
  BY Zenon, <1>0 DEF AppendAnswer
<1>2. phase[s] = "run" /\ log[s] # << >>
  BY Zenon, <1>0, <1>1 DEF Alive, sendAppendEntriesToServer
<1>3. /\ currentTerm[s] \in Nat /\ commitIndex[s] \in Nat /\ lastIncludedIndex[s] \in Nat
      /\ lastIncludedTerm[s] \in Int
  BY Zenon, <1>0, <1>1 DEF TypeOK
<1>4. /\ rpcs' \subseteq rpcs
      /\ UNCHANGED <<phase, voteCount, leaderIdx, log, lastIncludedIndex, lastIncludedTerm,
                     electionDue, installing, reading, restarts, ghostVars>>
  BY Zenon DEF sendAppendEntriesToServer
<1>5. /\ currentTerm' \in [Server -> Nat] /\ votedFor' \in [Server -> Server \cup {NoVote}]
      /\ role' \in [Server -> Role]
  <2>0. /\ currentTerm \in [Server -> Nat] /\ votedFor \in [Server -> Server \cup {NoVote}]
        /\ role \in [Server -> Role]
    BY Zenon, <1>0 DEF TypeOK
  <2>1. CASE UNCHANGED <<currentTerm, votedFor, role>>
    BY Zenon, <2>0, <2>1
  <2>2. CASE AppendReplyOutdated(m)
    BY Zenon, <1>1, <2>0, <2>2 DEF AppendReplyOutdated, Role
  <2>3. QED
    BY Zenon, <2>1, <2>2 DEF sendAppendEntriesToServer, AppendReplySuccess, AppendReplyConflict,
                      AppendReplyIgnored
<1>6. disk' \in [Server -> DiskImage]
  <2>1. Persist(s, commitIndex[s]) \/ UNCHANGED disk
    BY Zenon DEF sendAppendEntriesToServer, AppendReplySuccess, AppendReplyConflict, AppendReplyIgnored
  <2>2. QED
    BY Zenon, <1>0, <1>1, <1>4, <1>5, <2>1, PersistType DEF TypeOK
<1>7. snapDue' \subseteq snapDue \cup {<<s, m.to>>}
  BY Zenon DEF sendAppendEntriesToServer, AppendReplySuccess, AppendReplyOutdated,
         AppendReplyConflict, AppendReplyIgnored
<1>8. /\ nextIndex' \in [Server -> [Server -> Int]] /\ matchIndex' \in [Server -> [Server -> Int]]
      /\ commitIndex' \in [Server -> Nat]
  <2>0. /\ nextIndex \in [Server -> [Server -> Int]] /\ matchIndex \in [Server -> [Server -> Int]]
        /\ commitIndex \in [Server -> Nat]
    BY Zenon, <1>0 DEF TypeOK
  <2>1. CASE AppendReplySuccess(m)
    <3> DEFINE match == [p \in Server |-> IF p = m.to THEN MaxOf(MatchOf(s, p), m.match)
                                          ELSE MatchOf(s, p)]
    <3>1. match[m.to] \in Int
      <4>1. match[m.to] = MaxOf(MatchOf(s, m.to), m.match)
        BY Zenon, <1>1
      <4>2. MatchOf(s, m.to) \in Int
        BY Zenon, <1>0, <1>1, PeerType
      <4> HIDE DEF match
      <4>3. QED
        BY Zenon, <1>1, <4>1, <4>2 DEF MaxOf
    <3>2. /\ matchIndex' = [matchIndex EXCEPT ![s][m.to] = match[m.to]]
          /\ nextIndex' = [nextIndex EXCEPT ![s][m.to] = match[m.to] + 1]
          /\ commitIndex' = [commitIndex EXCEPT ![s] = CommitPoint(s, match)]
      BY Zenon, <2>1 DEF AppendReplySuccess
    <3> HIDE DEF match
    <3>3. CommitPoint(s, match) \in Nat
      BY Zenon, <1>0, <1>1, <1>2, CommitPointType
    <3>4. QED
      BY <1>1, <2>0, <3>1, <3>2, <3>3
  <2>2. CASE AppendReplyConflict(m)
    <3>1. NextAfterConflict(s, m) \in Int
      <4>1. CASE m.xterm = -1
        BY <1>1, <1>3, <4>1 DEF NextAfterConflict
      <4>2. CASE m.xterm # -1
        <5> DEFINE from == MaxOf(NextOf(s, m.to) - 1, lastIncludedIndex[s])
        <5>1. from <= LastIndex(s)
          BY Zenon, <2>2, <4>2 DEF AppendReplyConflict, sendAppendEntriesToServer, AppendReplyPanics
        <5>2. ConflictSearch(s, m) \in Nat
          BY Zenon, <1>0, <1>1, <1>2, <5>1, ConflictSearchType
        <5>3. ConflictSearch(s, m) + 1 \in Int /\ lastIncludedIndex[s] \in Int
          BY <1>3, <5>2
        <5>4. QED
          BY Zenon, <1>1, <4>2, <5>3 DEF NextAfterConflict
      <4>3. QED
        BY Zenon, <4>1, <4>2
    <3>2. /\ nextIndex' = [nextIndex EXCEPT ![s][m.to] = NextAfterConflict(s, m)]
          /\ UNCHANGED <<matchIndex, commitIndex>>
      BY Zenon, <2>2 DEF AppendReplyConflict
    <3>3. QED
      BY Zenon, <1>1, <2>0, <3>1, <3>2
  <2>3. CASE AppendReplyOutdated(m) \/ AppendReplyIgnored(m)
    BY Zenon, <2>0, <2>3 DEF AppendReplyOutdated, AppendReplyIgnored, peerVars
  <2>4. QED
    BY Zenon, <2>1, <2>2, <2>3 DEF sendAppendEntriesToServer
<1>9. TypeOK'
  <2>1. snapDue' \subseteq Server \X Server
    <3>1. snapDue \subseteq Server \X Server /\ <<s, m.to>> \in Server \X Server
      BY Zenon, <1>0, <1>1 DEF TypeOK
    <3>2. QED
      BY Zenon, <1>7, <3>1
  <2>2. rpcs' \subseteq Rpc
    BY Zenon, <1>0, <1>4 DEF TypeOK
  <2>3. QED
    BY Zenon, <1>0, <1>4, <1>5, <1>6, <1>8, <2>1, <2>2 DEF TypeOK, ghostVars
<1>10. Alive'
  BY <1>0, <1>2, <1>4, <1>7, AliveKept
<1>11. QED
  BY Zenon, <1>9, <1>10 DEF TypeInv

\* InstallSnapshot leaves either the tail of the log or the two-entry log.
LEMMA InstallSnapshotType ==
  ASSUME TypeInv, NEW m \in rpcs, InstallSnapshot(m)
  PROVE  TypeInv'
<1> DEFINE s == m.to
<1>0. TypeOK /\ Alive /\ m \in Rpc /\ m \in InstallCall
  BY Zenon, RpcType DEF TypeInv, TypeOK, InstallSnapshot
<1>1. /\ s \in Server /\ m.from \in Server /\ m.term \in Nat /\ m.lastIndex \in Nat
      /\ m.lastTerm \in Int /\ m.cmd \in Command
  BY Zenon, <1>0 DEF InstallCall
<1>2. currentTerm[s] \in Nat /\ commitIndex[s] \in Nat /\ lastIncludedIndex[s] \in Nat
  BY Zenon, <1>0, <1>1 DEF TypeOK
<1>3. UNCHANGED <<phase, voteCount, leaderIdx, peerVars, disk, electionDue, snapDue, reading,
                  restarts, ballots, elected, counted>>
  BY Zenon DEF InstallSnapshot
<1>4. /\ currentTerm' \in [Server -> Nat] /\ votedFor' \in [Server -> Server \cup {NoVote}]
      /\ role' \in [Server -> Role]
  <2>0. /\ currentTerm \in [Server -> Nat] /\ votedFor \in [Server -> Server \cup {NoVote}]
        /\ role \in [Server -> Role]
    BY Zenon, <1>0 DEF TypeOK
  <2>1. CASE InstallRefused(m)
    BY Zenon, <1>1, <2>0, <2>1 DEF InstallRefused, MaxOf, Role
  <2>2. CASE InstallTaken(m)
    BY Zenon, <1>1, <2>0, <2>2 DEF InstallTaken, Role
  <2>3. QED
    BY Zenon, <2>1, <2>2 DEF InstallSnapshot
<1>5. CASE InstallRefused(m)
  <2> DEFINE reply == InstallReply(m, MaxOf(currentTerm[s], m.term))
  <2>1. reply \in InstallAnswer /\ reply.from = m.from /\ reply.live = TRUE
    <3>1. MaxOf(currentTerm[s], m.term) \in Nat
      BY Zenon, <1>1, <1>2 DEF MaxOf
    <3>2. QED
      BY Zenon, <1>1, <3>1 DEF InstallReply, InstallAnswer
  <2>2. rpcs' = Answered(m, reply) /\ UNCHANGED <<logVars, installing, flaws>>
    BY Zenon, <1>5 DEF InstallRefused
  <2> HIDE DEF reply
  <2>3. rpcs' \subseteq Rpc
        /\ \A n \in rpcs' :
             \/ n \in rpcs
             \/ (n.live => phase[n.from] = "run") /\ (n.stage # "call" => n.live)
    BY Zenon, <2>1, <2>2, AnsweredType DEF Rpc
  <2>4. TypeOK'
    BY Zenon, <1>0, <1>3, <1>4, <2>2, <2>3 DEF TypeOK, logVars, peerVars
  <2>5. Alive'
    BY Zenon, <1>0, <1>3, <2>2, <2>3, AliveKept DEF logVars
  <2>6. QED
    BY Zenon, <2>4, <2>5 DEF TypeInv
<1>6. CASE InstallTaken(m)
  <2> DEFINE has == InLog(s, m.lastIndex) /\ At(s, m.lastIndex).term = m.lastTerm
             kept == SubSeq(log[s], m.lastIndex - lastIncludedIndex[s] + 1, Len(log[s]))
             fresh == <<NilEntry, [term |-> m.lastTerm, cmd |-> m.cmd]>>
  <2>1. has => kept \in Seq(Entry) /\ kept # << >>
    <3>1. SUFFICES ASSUME has PROVE kept \in Seq(Entry) /\ kept # << >>
      BY Zenon
    <3>2. log[s] \in Seq(Entry) /\ Len(log[s]) \in Nat
      BY Zenon, <1>0, <1>1, LogType
    <3>3. m.lastIndex - lastIncludedIndex[s] + 1 \in 1..Len(log[s])
      <4>1. lastIncludedIndex[s] <= m.lastIndex /\ m.lastIndex < lastIncludedIndex[s] + Len(log[s])
        BY Zenon, <3>1 DEF InLog, LogEnd
      <4>2. QED
        BY SMTT(30), <1>1, <1>2, <3>2, <4>1
    <3>4. kept \in Seq(Entry) /\ Len(kept) >= 1
      BY <3>2, <3>3, SubSeqType
    <3> HIDE DEF kept
    <3>5. QED
      BY <3>4, EmptySeq
  <2>2. fresh \in Seq(Entry) /\ fresh # << >>
    <3>1. NilEntry \in Entry /\ [term |-> m.lastTerm, cmd |-> m.cmd] \in Entry
      BY <1>1 DEF NilEntry, Entry, Command
    <3>2. QED
      BY <3>1
  <2>3. log' = [log EXCEPT ![s] = IF has THEN kept ELSE fresh]
    BY Zenon, <1>6 DEF InstallTaken
  <2> HIDE DEF has, kept, fresh
  <2>4. /\ log' \in [Server -> Seq(Entry)] /\ log'[s] # << >>
        /\ \A r \in Server : r # s => log'[r] = log[r]
    BY Zenon, <1>0, <1>1, <2>1, <2>2, <2>3 DEF TypeOK
  <2>5. /\ lastIncludedIndex' \in [Server -> Nat] /\ lastIncludedTerm' \in [Server -> Int]
        /\ commitIndex' \in [Server -> Nat]
    <3>0. /\ lastIncludedIndex \in [Server -> Nat] /\ lastIncludedTerm \in [Server -> Int]
          /\ commitIndex \in [Server -> Nat]
      BY Zenon, <1>0 DEF TypeOK
    <3>1. QED
      BY Zenon, <1>1, <1>6, <3>0 DEF InstallTaken, MaxOf
  <2>6. installing' = installing \cup {m} /\ rpcs' \subseteq rpcs
    BY Zenon, <1>6 DEF InstallTaken
  <2>7. flaws' \subseteq Flaw
    <3>1. flaws' \subseteq flaws \cup {"shift", "bootInstall"}
      BY Zenon, <1>6 DEF InstallTaken
    <3>2. QED
      BY Zenon, <1>0, <3>1 DEF TypeOK, Flaw
  <2>8. TypeOK'
    <3>1. installing' \subseteq InstallCall /\ rpcs' \subseteq Rpc
      BY Zenon, <1>0, <2>6 DEF TypeOK
    <3>2. QED
      BY Zenon, <1>0, <1>3, <1>4, <2>4, <2>5, <2>7, <3>1 DEF TypeOK, peerVars
  <2>9. Alive'
    <3>1. \A r \in Server : phase[r] = "run" => log'[r] = log[r] \/ log'[r] # << >>
      BY Zenon, <2>4
    <3>2. QED
      BY Zenon, <1>0, <1>3, <2>6, <3>1, AliveKept
  <2>10. QED
    BY Zenon, <2>8, <2>9 DEF TypeInv
<1>7. QED
  BY Zenon, <1>5, <1>6 DEF InstallSnapshot

\* The end of InstallSnapshot saves the node's state and answers.
LEMMA InstallDoneType ==
  ASSUME TypeInv, NEW m \in installing, InstallDone(m)
  PROVE  TypeInv'
<1>0. TypeOK /\ Alive /\ m \in InstallCall
  BY Zenon DEF TypeInv, TypeOK
<1>1. m.to \in Server /\ m.from \in Server /\ m.term \in Nat
  BY Zenon, <1>0 DEF InstallCall
<1>2. /\ InstallReply(m, m.term) \in InstallAnswer
      /\ InstallReply(m, m.term).from = m.from /\ InstallReply(m, m.term).live = TRUE
  BY Zenon, <1>1 DEF InstallReply, InstallAnswer
<1>3. \A n \in rpcs' :
        \/ n \in rpcs
        \/ n \in InstallAnswer /\ n.live = TRUE /\ n.from = m.from /\ m.live
  BY Zenon, <1>2 DEF InstallDone
<1>4. m.live => phase[m.from] = "run"
  BY Zenon, <1>0 DEF Alive
<1>5. disk' \in [Server -> DiskImage]
  <2>1. Persist(m.to, commitIndex[m.to]) /\ UNCHANGED <<nodeVars, logVars>>
    BY Zenon DEF InstallDone
  <2>2. QED
    BY Zenon, <1>0, <1>1, <2>1, PersistType DEF TypeOK, nodeVars, logVars
<1>6. TypeOK'
  <2>1. rpcs' \subseteq Rpc /\ installing' \subseteq InstallCall
    BY Zenon, <1>0, <1>3 DEF TypeOK, Rpc, InstallDone
  <2>2. QED
    BY Zenon, <1>0, <1>5, <2>1 DEF TypeOK, InstallDone, nodeVars, logVars, peerVars, ghostVars
<1>7. Alive'
  BY Zenon, <1>0, <1>3, <1>4, AliveKept DEF InstallDone, logVars
<1>8. QED
  BY Zenon, <1>6, <1>7 DEF TypeInv

\* The answer of an InstallSnapshot moves nextIndex or makes the sender a follower.
LEMMA InstallReplyType ==
  ASSUME TypeInv, NEW m \in rpcs, sendInstallSnapshotToServer(m)
  PROVE  TypeInv'
<1> DEFINE s == m.from
<1>0. TypeOK /\ Alive /\ m \in Rpc /\ m \in InstallAnswer
  BY Zenon, RpcType DEF TypeInv, TypeOK, sendInstallSnapshotToServer
<1>1. s \in Server /\ m.to \in Server /\ m.rterm \in Nat
  BY Zenon, <1>0 DEF InstallAnswer
<1>2. /\ currentTerm' \in [Server -> Nat] /\ votedFor' \in [Server -> Server \cup {NoVote}]
      /\ role' \in [Server -> Role]
  <2>0. /\ currentTerm \in [Server -> Nat] /\ votedFor \in [Server -> Server \cup {NoVote}]
        /\ role \in [Server -> Role]
    BY Zenon, <1>0 DEF TypeOK
  <2>1. QED
    BY Zenon, <1>1, <2>0 DEF sendInstallSnapshotToServer, MaxOf, Role
<1>3. nextIndex' \in [Server -> [Server -> Int]]
  <2>1. nextIndex \in [Server -> [Server -> Int]] /\ lastIncludedIndex[s] \in Nat
    BY Zenon, <1>0, <1>1 DEF TypeOK
  <2>2. MaxOf(lastIncludedIndex[s] + 1, NextOf(s, m.to)) \in Int
    <3>1. NextOf(s, m.to) \in Int
      BY Zenon, <1>0, <1>1, PeerType
    <3>2. QED
      BY <2>1, <3>1 DEF MaxOf
  <2>3. PICK outdated \in BOOLEAN :
          nextIndex' = [nextIndex EXCEPT ![s][m.to] =
            IF outdated THEN @ ELSE MaxOf(lastIncludedIndex[s] + 1, NextOf(s, m.to))]
    BY Zenon DEF sendInstallSnapshotToServer
  <2>4. QED
    BY Zenon, <1>1, <2>1, <2>2, <2>3
<1>4. disk' \in [Server -> DiskImage]
  <2>1. UNCHANGED logVars /\ (Persist(s, commitIndex[s]) \/ UNCHANGED disk)
    BY Zenon DEF sendInstallSnapshotToServer
  <2>2. QED
    BY Zenon, <1>0, <1>1, <1>2, <2>1, PersistType DEF TypeOK, logVars
<1>5. rpcs' \subseteq rpcs
  BY Zenon DEF sendInstallSnapshotToServer
<1>6. TypeOK'
  <2>1. rpcs' \subseteq Rpc
    BY Zenon, <1>0, <1>5 DEF TypeOK
  <2>2. QED
    BY Zenon, <1>0, <1>2, <1>3, <1>4, <2>1 DEF TypeOK, sendInstallSnapshotToServer, logVars, callVars,
                                        ghostVars
<1>7. Alive'
  BY Zenon, <1>0, <1>5, AliveKept DEF sendInstallSnapshotToServer, logVars, callVars
<1>8. QED
  BY Zenon, <1>6, <1>7 DEF TypeInv
-----------------------------------------------------------------------------
(* Type correctness *)

\* The initial state satisfies TypeInv.
LEMMA InitType == Init => TypeInv
<1>1. SUFFICES ASSUME Init PROVE TypeInv
  BY Zenon
<1>2. Placeholder(0) \in Entry /\ <<Placeholder(0)>> \in Seq(Entry) /\ <<Placeholder(0)>> # << >>
  BY DEF Placeholder, Entry
<1>3. NewDisk \in DiskImage /\ NoRead \in ReadState
  BY DEF NewDisk, DiskImage, NoRead, ReadState
<1>4. TypeOK
  BY <1>1, <1>2, <1>3 DEF Init, TypeOK, Role, Absent
<1>5. Alive
  BY Zenon, <1>1, <1>2 DEF Init, Alive
<1>6. QED
  BY Zenon, <1>4, <1>5 DEF TypeInv

\* Every step keeps the types: no handler writes a value of the wrong sort.
LEMMA NextType == TypeInv /\ [Next]_vars => TypeInv'
<1>1. SUFFICES ASSUME TypeInv, [Next]_vars PROVE TypeInv'
  BY Zenon
<1>2. CASE UNCHANGED vars
  <2>1. TypeOK'
    BY Zenon, <1>1, <1>2 DEF TypeInv, TypeOK, vars, nodeVars, logVars, peerVars, callVars, ghostVars
  <2>2. Alive'
    BY Zenon, <1>1, <1>2 DEF TypeInv, Alive, vars, logVars, callVars
  <2>3. QED
    BY Zenon, <2>1, <2>2 DEF TypeInv
<1>3. ASSUME NEW s \in Server,
             \/ Crash(s) \/ CrashInside(s) \/ Panic(s) \/ Make(s) \/ startWork(s) \/ ticker(s)
             \/ StartElection(s) \/ AskRead(s) \/ GetCommitIndex(s) \/ ReadFails(s)
             \/ SendCommitIndex(s)
      PROVE  TypeInv'
  BY Zenon, <1>1, <1>3, CrashType, CrashInsideType, PanicType, MakeType, StartWorkType, TickerType, StartElectionType,
     AskReadType, SendCommitIndexType
<1>4. ASSUME NEW s \in Server,
             \/ \E v \in Value : Start(s, v)
             \/ \E i \in SnapshotAt : Snapshot(s, i)
             \/ \E p \in Server : \/ StartSendAppendEntries(s, p) \/ SingleHeartBeat(s, p)
                                  \/ sendInstallSnapshot(s, p)
      PROVE  TypeInv'
  BY Zenon, <1>1, <1>4, StartType, SnapshotType, StartSendAppendEntriesType, SingleHeartBeatType,
     SendInstallType
<1>5. ASSUME NEW m \in rpcs,
             \/ RequestVote(m) \/ procVoteAnswer(m)
             \/ \E outTime \in BOOLEAN : collectVote(m, outTime)
             \/ AppendEntries(m) \/ sendAppendEntriesToServer(m)
             \/ InstallSnapshot(m) \/ sendInstallSnapshotToServer(m)
             \/ Lose(m)
      PROVE  TypeInv'
  BY Zenon, <1>1, <1>5, RequestVoteType, ProcVoteAnswerType, CollectVoteType, AppendEntriesType,
     AppendReplyType, InstallSnapshotType, InstallReplyType, LoseType
<1>6. ASSUME NEW m \in installing, InstallDone(m)
      PROVE  TypeInv'
  BY Zenon, <1>1, <1>6, InstallDoneType
<1>7. QED
  BY Zenon, <1>1, <1>2, <1>3, <1>4, <1>5, <1>6 DEF Next

\* In every behaviour, for any finite set of servers, every variable keeps its
\* type: terms, indexes and counters never go below zero, the log of a running
\* node is never empty, and calls carry the fields their handlers read.
THEOREM TypeCorrect == Spec => [](TypeOK /\ Alive)
<1>1. Init => TypeInv
  BY Zenon, InitType
<1>2. TypeInv /\ [Next]_vars => TypeInv'
  BY Zenon, NextType
<1>3. TypeInv => TypeOK /\ Alive
  BY Zenon DEF TypeInv
<1>4. QED
  BY <1>1, <1>2, <1>3, PTL DEF Spec
=============================================================================
