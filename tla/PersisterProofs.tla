-------------------------- MODULE PersisterProofs --------------------------
(***************************************************************************)
(* Persister, for any log, any lengths of queue and checksums and any      *)
(* number of calls and crashes: its types, that a crash between two calls  *)
(* leaves files that can be read together, and that nothing is stored or   *)
(* read back at an index at which Raft never had it.                       *)
(***************************************************************************)
EXTENDS Persister, OrderLemmas, FiniteSetTheorems

-----------------------------------------------------------------------------
(* The inductive invariant *)

IndexState == [first : Nat, last : Nat, commit : Nat]
LogState == [first : Nat \ {0}, entries : Seq(Entry), flushed : Nat, broken : {FALSE}]
Item == [index : Nat \ {0}, entry : Entry]
RaftState == [log : Seq(Entry), base : Nat, commit : Nat]
Saving == [who : {"save"}, todo : Seq(Item) \ {<< >>}]
Cutting == [who : {"writer", "clock"}, at : {"cut", "snapState"}]
AtCut(h) == h \in Cutting /\ h.at = "cut"
Quiet(h) == h \in {Free, Writer("write")} \cup Saving
Events == {"replaced", "crashed", "exited", "torn"}

PersisterType ==
  /\ wal \in LogState /\ wal.flushed = walLast
  /\ stateFile \in Seq(IndexState) /\ Len(stateFile) <= 1
  /\ snapFile \in Nat /\ phase \in {"run", "down"} /\ history \subseteq Events
  /\ state \in IndexState /\ snapshot \in Nat /\ snapIdx \in Nat
  /\ checkSum \in Seq(Entry \cup {zero})
  /\ entryCh \in Seq(Item) /\ Len(entryCh) <= QueueCap
  /\ item = NoItem \/ item \in Item
  /\ holder \in {Free, Writer("write"), Writer("state")} \cup Saving \cup Cutting
  /\ raft \in RaftState

\* A process that has ended holds nothing.
Down == holder = Free /\ entryCh = << >> /\ item = NoItem /\ raft.log = << >>

\* The first index of a state is never ahead of the snapshot files, nor these of
\* the snapshot that Raft has.
Bounds ==
  /\ loadState.first <= snapFile + 1
  /\ phase = "down" => Down
  /\ phase = "run" => /\ state.first <= snapFile + 1 /\ snapFile <= snapshot
                      /\ snapshot = raft.base /\ stateFile # << >>
                      /\ AtCut(holder) => snapFile = snapshot

\* A state names what log and snapshot files hold.
Names(st) == st.last = walLast /\ wal.first <= st.first

\* The state file is as ps.state: always while nobody writes, before the write of
\* an entry unless the log was cut for it.
Agrees ==
  /\ loadState.first = state.first
  /\ loadState.last = state.last \/ (holder = Writer("write") /\ item.index = walLast + 1)

\* Before its first write the state file is empty and nothing else has happened.
Unused ==
  /\ stateFile = <<Blank>> /\ snapshot = snapIdx
  /\ holder = Free /\ entryCh = << >> /\ item = NoItem

\* How the files, the memory and the checksums fit while no write was torn.
Fits ==
  /\ phase = "down" => Names(loadState) /\ loadState.first = snapFile + 1
  /\ phase = "run" =>
       /\ Names(state) /\ state.first > 0
       /\ state.last - state.first + 1 <= Len(checkSum)
       /\ ~AtCut(holder) => state.first = snapFile + 1
       /\ Quiet(holder) => Agrees \/ Unused

\* What is stored, queued, received or about to be queued was given to Save.
Given(x) == <<x.index, x.entry>> \in saved
Kept ==
  /\ \A i \in wal.first..walLast : <<i, WalEntry(i)>> \in saved
  /\ \A k \in 1..Len(entryCh) : Given(entryCh[k])
  /\ item # NoItem => Given(item)
  /\ holder \in Saving => \A k \in 1..Len(holder.todo) : Given(holder.todo[k])
  /\ "torn" \notin history =>
       \A i \in raft.base + 1..RaftLast(raft) : <<i, raft.log[i - raft.base]>> \in saved

PersisterInv == PersisterType /\ Bounds /\ ("torn" \notin history => Fits) /\ Kept

-----------------------------------------------------------------------------
(* The operators *)

\* The bounds and lengths are numbers.
LEMMA Lengths == MaxIndex \in Nat /\ QueueCap \in Nat /\ QueueCap > 0 /\ Sums \in Nat /\ Sums > 0
BY PersisterAssumption

\* The last index of a log.
LEMMA LastOf ==
  ASSUME NEW w \in LogState
  PROVE  /\ w.first \in Nat /\ w.first > 0 /\ w.entries \in Seq(Entry) /\ Len(w.entries) \in Nat
         /\ W!Last(w) \in Nat /\ W!Last(w) = w.first + Len(w.entries) - 1
BY DEF LogState, W!Last

\* TruncateBack leaves the entries up to index i.
LEMMA CutBackKeeps ==
  ASSUME NEW w \in LogState, NEW i \in Nat, w.first <= i, i <= W!Last(w)
  PROVE  /\ W!CutBack(w, i) \in LogState /\ W!CutBack(w, i).first = w.first
         /\ W!CutBack(w, i).flushed = i /\ W!Last(W!CutBack(w, i)) = i
         /\ \A j \in w.first..i : W!CutBack(w, i).entries[j - w.first + 1] = w.entries[j - w.first + 1]
<1> DEFINE n == i - w.first + 1
<1>1. /\ w.first \in Nat /\ w.first > 0 /\ w.entries \in Seq(Entry) /\ Len(w.entries) \in Nat
      /\ W!Last(w) = w.first + Len(w.entries) - 1
  BY Zenon, LastOf
<1>2. n \in Nat /\ n >= 1 /\ n <= Len(w.entries) /\ w.first - w.first + 1 = 1
  BY <1>1
<1> DEFINE q == SubSeq(w.entries, 1, n)
<1>3. W!CutBack(w, i) = [w EXCEPT !.entries = q, !.flushed = i]
  BY Zenon, <1>2 DEF W!CutBack, W!Slice
<1>4. q \in Seq(Entry) /\ Len(q) = n
  BY <1>1, <1>2, SubSeqType
<1>5. \A k \in 1..n : q[k] = w.entries[k]
  BY <1>1, <1>2, SubSeqAt
<1> HIDE DEF q
<1>6. /\ [w EXCEPT !.entries = q, !.flushed = i] \in LogState
      /\ [w EXCEPT !.entries = q, !.flushed = i].first = w.first
      /\ [w EXCEPT !.entries = q, !.flushed = i].flushed = i
      /\ [w EXCEPT !.entries = q, !.flushed = i].entries = q
  BY Zenon, <1>4 DEF LogState
<1>7. w.first + n - 1 = i
  BY <1>1
<1>8. \A j \in w.first..i : j - w.first + 1 \in 1..n
  BY <1>1
<1> HIDE DEF n
<1>9. W!Last([w EXCEPT !.entries = q, !.flushed = i]) = i
  BY Zenon, <1>4, <1>6, <1>7 DEF W!Last
<1>10. \A j \in w.first..i : q[j - w.first + 1] = w.entries[j - w.first + 1]
  BY Zenon, <1>5, <1>8
<1>11. QED
  BY Zenon, <1>3, <1>6, <1>9, <1>10

\* TruncateFront leaves the entries from index i on.
LEMMA CutFrontKeeps ==
  ASSUME NEW w \in LogState, NEW i \in Nat, w.first <= i, i <= W!Last(w)
  PROVE  /\ W!CutFront(w, i) \in LogState /\ W!CutFront(w, i).first = i
         /\ W!CutFront(w, i).flushed = w.flushed /\ W!Last(W!CutFront(w, i)) = W!Last(w)
         /\ \A j \in i..W!Last(w) : W!CutFront(w, i).entries[j - i + 1] = w.entries[j - w.first + 1]
<1> DEFINE a == i - w.first + 1
           n == Len(w.entries)
<1>1. /\ w.first \in Nat /\ w.first > 0 /\ w.entries \in Seq(Entry) /\ n \in Nat
      /\ W!Last(w) = w.first + n - 1
  BY Zenon, LastOf
<1> HIDE DEF n
<1>2. /\ a \in Nat /\ a >= 1 /\ a <= n /\ W!Last(w) - w.first + 1 = n
      /\ i > 0 /\ i + (n - a + 1) - 1 = W!Last(w)
  <2>1. a \in Nat /\ a >= 1 
    BY <1>1
  <2>2. a <= n 
    BY <1>1
  <2>3. W!Last(w) - w.first + 1 = n
    BY <1>1
  <2>4. i > 0
    BY <1>1
  <2>5. i + (n - a + 1) - 1 = W!Last(w)
    BY SMTT(30), <1>1
  <2>6. QED
    BY Zenon, <2>1, <2>2, <2>3, <2>4, <2>5
<1>6. \A j \in i..W!Last(w) : /\ j - i + 1 \in 1..(n - a + 1)
                               /\ a + (j - i + 1) - 1 = j - w.first + 1
  BY SMTT(30), <1>1
<1> HIDE DEF a
<1> DEFINE q == SubSeq(w.entries, a, n)
<1>3. W!CutFront(w, i) = [w EXCEPT !.first = i, !.entries = q]
  BY Zenon, <1>2 DEF W!CutFront, W!Slice, a
<1>4. q \in Seq(Entry) /\ Len(q) = n - a + 1
  BY <1>1, <1>2, SubSeqType DEF n
<1>5. \A k \in 1..(n - a + 1) : q[k] = w.entries[a + k - 1]
  BY <1>1, <1>2, SubSeqAt DEF n
<1> HIDE DEF q
<1>7. i # 0 /\ q \in Seq(Entry)
  BY <1>2, <1>4
<1> DEFINE t == [w EXCEPT !.first = i, !.entries = q]
<1>8. t \in LogState /\ t.first = i /\ t.flushed = w.flushed /\ t.entries = q
  BY Zenon, <1>7 DEF LogState
<1> HIDE DEF t
<1>9. \A j \in i..W!Last(w) : t.entries[j - i + 1] = w.entries[j - w.first + 1]
  <2>1. TAKE j \in i..W!Last(w)
  <2>2. q[j - i + 1] = w.entries[a + (j - i + 1) - 1]
    BY Zenon, <1>5, <1>6
  <2>3. QED
    BY Zenon, <1>6, <1>8, <2>2
<1>10. W!Last(t) = W!Last(w)
  <2>1. W!Last(t) = i + (n - a + 1) - 1
    BY Zenon, <1>4, <1>8 DEF W!Last
  <2>2. QED
    BY Zenon, <1>2, <2>1
<1>11. W!CutFront(w, i) = t
  BY Zenon, <1>3 DEF t
<1>12. QED
  BY Zenon, <1>8, <1>9, <1>10, <1>11

\* Write puts an entry after the last one and flushes it.
LEMMA WriteAdds ==
  ASSUME NEW w \in LogState, NEW e \in Entry
  PROVE  LET t == W!Flushed([w EXCEPT !.entries = Append(@, e)])
         IN  /\ t \in LogState /\ t.first = w.first /\ t.flushed = W!Last(t)
             /\ W!Last(t) = W!Last(w) + 1
             /\ \A j \in w.first..W!Last(w) : t.entries[j - w.first + 1] = w.entries[j - w.first + 1]
             /\ t.entries[W!Last(t) - w.first + 1] = e
<1> DEFINE u == [w EXCEPT !.entries = Append(@, e)]
           t == [u EXCEPT !.flushed = W!Last(u)]
           n == Len(w.entries)
           q == Append(w.entries, e)
<1>1. /\ w.first \in Nat /\ w.first > 0 /\ w.entries \in Seq(Entry) /\ n \in Nat
      /\ W!Last(w) = w.first + n - 1
  BY Zenon, LastOf
<1>2. q \in Seq(Entry) /\ Len(q) = n + 1 /\ q[n + 1] = e /\ \A k \in 1..n : q[k] = w.entries[k]
  BY <1>1
<1> HIDE DEF q
<1>3. u = [w EXCEPT !.entries = q] /\ u.entries = q /\ u.first = w.first
  BY DEF q, LogState
<1>4. W!Last(u) = w.first + (n + 1) - 1
  BY Zenon, <1>2, <1>3 DEF W!Last
<1>5. W!Last(u) \in Nat /\ W!Last(u) = W!Last(w) + 1
  BY <1>1, <1>4
<1>6. t \in LogState /\ t.first = w.first /\ t.flushed = W!Last(u) /\ t.entries = q
  BY Zenon, <1>2, <1>3, <1>5 DEF LogState
<1>7. W!Last(t) = W!Last(u)
  BY Zenon, <1>3, <1>6 DEF W!Last
<1> HIDE DEF n, t, u
<1>8. /\ \A j \in w.first..W!Last(w) : j - w.first + 1 \in 1..n
      /\ W!Last(u) - w.first + 1 = n + 1
  BY SMTT(30), <1>1, <1>5
<1>9. W!Flushed(u) = t
  BY Zenon DEF W!Flushed, t
<1>10. QED
  BY Zenon, <1>2, <1>5, <1>6, <1>7, <1>8, <1>9 DEF u

\* filter queues a subset of the entries in memory.
LEMMA QueuedIn ==
  ASSUME NEW r \in RaftState
  PROVE  /\ Queued(r) \in SUBSET (r.base + 1..RaftLast(r))
         /\ Queued(r) \in SUBSET Nat /\ IsFiniteSet(Queued(r))
<1>1. r.base \in Nat /\ r.commit \in Nat /\ r.log \in Seq(Entry) /\ Len(r.log) \in Nat
  BY DEF RaftState
<1>2. RaftLast(r) \in Nat
  BY <1>1 DEF RaftLast
<1>3. Queued(r) \in SUBSET (r.base + 1..RaftLast(r))
  BY <1>1, <1>2 DEF Queued, MaxOf
<1>4. IsFiniteSet(r.base + 1..RaftLast(r)) /\ r.base + 1..RaftLast(r) \subseteq Nat
  <2>1. r.base + 1 \in Int /\ RaftLast(r) \in Int /\ r.base + 1..RaftLast(r) \subseteq Nat
    BY <1>1, <1>2
  <2>2. QED
    BY Zenon, <2>1, FS_Interval
<1>5. QED
  BY Zenon, <1>3, <1>4, FS_Subset

\* The members of a finite set of indexes, in order, are members of it.
LEMMA InOrderIn ==
  ASSUME NEW S \in SUBSET Nat, IsFiniteSet(S)
  PROVE  /\ Cardinality(S) \in Nat
         /\ \A k \in 1..Cardinality(S) : InOrder(S)[k] \in S
<1> DEFINE Below(i) == {j \in S : j < i}
           n == Cardinality(S)
           f == [i \in S |-> Cardinality(Below(i))]
<1>1. n \in Nat
  BY Zenon, FS_CardinalityType
<1>2. ASSUME NEW i \in S
      PROVE  /\ IsFiniteSet(Below(i)) /\ Cardinality(Below(i)) \in 0..n - 1
  <2>1. Below(i) \in SUBSET S /\ Below(i) # S
    OBVIOUS
  <2>2. IsFiniteSet(Below(i)) /\ Cardinality(Below(i)) <= n /\ n # Cardinality(Below(i))
    BY Zenon, <2>1, FS_Subset
  <2>3. Cardinality(Below(i)) \in Nat
    BY Zenon, <2>2, FS_CardinalityType
  <2>4. QED
    BY <1>1, <2>2, <2>3
<1>3. ASSUME NEW i \in S, NEW j \in S, i < j
      PROVE  Cardinality(Below(i)) # Cardinality(Below(j))
  <2>1. Below(i) \in SUBSET Below(j) /\ Below(i) # Below(j)
    <3>1. i \in Below(j) /\ i \notin Below(i)
      BY <1>3
    <3>2. \A k \in Below(i) : k \in Below(j)
      BY <1>3
    <3>3. QED
      BY Zenon, <3>1, <3>2
  <2>2. IsFiniteSet(Below(j))
    BY Zenon, <1>2
  <2> HIDE DEF Below
  <2>3. QED
    BY Zenon, <2>1, <2>2, FS_Subset
<1>4. \A i, j \in S : Cardinality(Below(i)) = Cardinality(Below(j)) => i = j
  <2>1. \A i, j \in S : i = j \/ i < j \/ j < i
    OBVIOUS
  <2> HIDE DEF Below
  <2>2. QED
    BY Zenon, <1>3, <2>1
<1> HIDE DEF Below, n
<1>5. f \in Injection(S, 0..n - 1)
  <2>1. f \in [S -> 0..n - 1]
    BY Zenon, <1>2
  <2>2. \A i, j \in S : f[i] = f[j] => i = j
    BY Zenon, <1>4
  <2>3. QED
    BY Zenon, <2>1, <2>2 DEF Injection, IsInjective
<1>6. IsFiniteSet(0..n - 1) /\ Cardinality(0..n - 1) = n
  <2>1. 0 \in Int /\ n - 1 \in Int /\ (IF 0 > n - 1 THEN 0 ELSE (n - 1) - 0 + 1) = n
    BY <1>1
  <2>2. QED
    BY Zenon, <2>1, FS_Interval
<1>7. f \in Surjection(S, 0..n - 1)
  BY Zenon, <1>5, <1>6, FS_Injection DEF n
<1>8. ASSUME NEW k \in 1..n PROVE InOrder(S)[k] \in S
  <2>1. k - 1 \in 0..n - 1
    BY <1>1
  <2>2. \E i \in S : Cardinality(Below(i)) = k - 1
    BY Zenon, <1>7, <2>1 DEF Surjection
  <2>3. InOrder(S)[k] = CHOOSE i \in S : Cardinality(Below(i)) = k - 1
    BY Zenon DEF InOrder, Below, n
  <2>4. QED
    BY Zenon, <2>2, <2>3
<1>9. QED
  BY Zenon, <1>1, <1>8 DEF n

\* What Save queues are entries of the log, each at its index.
LEMMA FilterGives ==
  ASSUME NEW r \in RaftState
  PROVE  /\ filter(r) \in Seq(Item)
         /\ \A k \in 1..Len(filter(r)) :
              /\ filter(r)[k].index \in r.base + 1..RaftLast(r)
              /\ filter(r)[k].entry = r.log[filter(r)[k].index - r.base]
<1> DEFINE is == InOrder(Queued(r))
           n == Cardinality(Queued(r))
           q == [k \in 1..n |-> [index |-> is[k], entry |-> r.log[is[k] - r.base]]]
<1>1. r.base \in Nat /\ r.log \in Seq(Entry) /\ Len(r.log) \in Nat
      /\ RaftLast(r) = r.base + Len(r.log)
  BY DEF RaftState, RaftLast
<1>2. n \in Nat /\ \A k \in 1..n : is[k] \in r.base + 1..RaftLast(r)
  BY Zenon, QueuedIn, InOrderIn
<1>3. filter(r) = q
  BY Zenon DEF filter, InOrder
<1> HIDE DEF is, n
<1>4. \A i \in r.base + 1..RaftLast(r) : i \in Nat \ {0} /\ r.log[i - r.base] \in Entry
  BY <1>1
<1>5. \A k \in 1..n : q[k] \in Item
  BY Zenon, <1>2, <1>4 DEF Item
<1>6. q \in [1..n -> Item]
  BY Zenon, <1>5
<1>7. q \in Seq(Item) /\ Len(q) = n
  BY <1>2, <1>6
<1>8. \A k \in 1..n : q[k].index = is[k] /\ q[k].entry = r.log[is[k] - r.base]
  BY Zenon
<1> HIDE DEF q
<1>9. QED
  BY Zenon, <1>2, <1>3, <1>7, <1>8

-----------------------------------------------------------------------------
(* Parts of the state *)

\* Who holds ps.mu can be told apart.
LEMMA Holders ==
  /\ Free.who = "nobody" /\ Free \notin Saving /\ Free \notin Cutting
  /\ \A a \in {"write", "state"} : /\ Writer(a).who = "writer" /\ Writer(a).at = a /\ Writer(a) # Free
                                   /\ Writer(a) \notin Saving /\ Writer(a) \notin Cutting
  /\ Writer("write") # Writer("state") /\ ~Quiet(Writer("state"))
  /\ \A h \in Saving : /\ h.who = "save" /\ h \notin Cutting /\ h # Free /\ h # Writer("write")
                       /\ h.todo \in Seq(Item) /\ h.todo # << >>
  /\ \A h \in Cutting : /\ h.who \in {"writer", "clock"} /\ h.at \in {"cut", "snapState"}
                        /\ h \notin Saving /\ h # Free /\ ~Quiet(h)
<1>1. Free.who = "nobody" /\ Free \notin Saving /\ Free \notin Cutting
  BY DEF Free, Saving, Cutting
<1>2. ASSUME NEW a \in {"write", "state"}
      PROVE  /\ Writer(a).who = "writer" /\ Writer(a).at = a /\ Writer(a) # Free
             /\ Writer(a) \notin Saving /\ Writer(a) \notin Cutting
  <2>1. Writer(a).who = "writer" /\ Writer(a).at = a
    BY DEF Writer
  <2>2. Writer(a) # Free /\ Writer(a) \notin Saving
    BY <2>1 DEF Free, Saving
  <2>3. Writer(a) \notin Cutting
    BY <2>1 DEF Cutting
  <2>4. QED
    BY Zenon, <2>1, <2>2, <2>3
<1>3. Writer("write") # Writer("state")
  BY <1>2
<1>4. ~Quiet(Writer("state"))
  BY Zenon, <1>2, <1>3 DEF Quiet
<1>5. \A h \in Saving : h.who = "save" /\ h \notin Cutting /\ h # Free
  BY DEF Saving, Cutting, Free
<1>6. \A h \in Saving : h.todo \in Seq(Item) /\ h.todo # << >> /\ h # Writer("write")
  BY Zenon, <1>2 DEF Saving
<1>7. \A h \in Cutting : h.who \in {"writer", "clock"} /\ h.at \in {"cut", "snapState"}
  BY DEF Cutting
<1>8. \A h \in Cutting : h \notin Saving /\ h # Free /\ h # Writer("write")
  BY Zenon, <1>1, <1>2, <1>5
<1>9. \A h \in Cutting : ~Quiet(h)
  BY Zenon, <1>8 DEF Quiet
<1>10. QED
  BY Zenon, <1>1, <1>2, <1>3, <1>4, <1>5, <1>6, <1>7, <1>8, <1>9

\* The parts of an IndexState, and of one with another commitIndex, last or first.
LEMMA StateParts ==
  ASSUME NEW st \in IndexState, NEW n \in Nat
  PROVE  /\ st.first \in Nat /\ st.last \in Nat /\ st.commit \in Nat
         /\ [st EXCEPT !.commit = n] \in IndexState /\ [st EXCEPT !.last = n] \in IndexState
         /\ [st EXCEPT !.first = n] \in IndexState
         /\ [st EXCEPT !.commit = n].first = st.first /\ [st EXCEPT !.commit = n].last = st.last
         /\ [st EXCEPT !.last = n].first = st.first /\ [st EXCEPT !.last = n].last = n
         /\ [st EXCEPT !.first = n].first = n /\ [st EXCEPT !.first = n].last = st.last
BY DEF IndexState

\* What loadState reads.
LEMMA LoadParts ==
  ASSUME PersisterType
  PROVE  /\ loadState \in IndexState
         /\ \A st \in IndexState : stateFile = <<st>> => loadState = st
         /\ stateFile # << >> => stateFile = <<loadState>>
         /\ stateFile = << >> => loadState.first = 1 /\ loadState.last = 0
<1>1. CASE stateFile = << >>
  BY <1>1 DEF loadState, Blank, IndexState
<1>2. CASE stateFile # << >>
  <2>1. PICK f \in IndexState : stateFile = <<f>>
    <3>1. stateFile \in Seq(IndexState) /\ Len(stateFile) <= 1
      BY Zenon DEF PersisterType
    <3>2. Len(stateFile) = 1 /\ stateFile[1] \in IndexState
      <4>1. Len(stateFile) \in Nat \ {0}
        BY Zenon, <1>2, <3>1, EmptySeq
      <4>2. Len(stateFile) = 1 /\ 1 \in 1..Len(stateFile)
        BY SMT, <3>1, <4>1
      <4>3. QED
        BY Zenon, <3>1, <4>2, ElementOfSeq
    <3>3. <<stateFile[1]>> \in Seq(IndexState) /\ Len(<<stateFile[1]>>) = 1
      BY <3>2
    <3>4. \A k \in 1..1 : stateFile[k] = <<stateFile[1]>>[k]
      OBVIOUS
    <3>5. stateFile = <<stateFile[1]>>
      BY Zenon, <3>1, <3>2, <3>3, <3>4, SeqEqual
    <3>6. QED
      BY Zenon, <3>2, <3>5
  <2>2. loadState = f
    BY <1>2, <2>1 DEF loadState
  <2>3. \A st \in IndexState : <<f>> = <<st>> => f = st
    OBVIOUS
  <2>4. QED
    BY Zenon, <1>2, <2>1, <2>2, <2>3
<1>3. QED
  BY Zenon, <1>1, <1>2

\* What a written state file is read as.
LEMMA LoadSaved ==
  ASSUME NEW st \in IndexState, saveState(st)
  PROVE  /\ stateFile' = <<st>> /\ stateFile' # << >> /\ loadState' = st
         /\ stateFile' \in Seq(IndexState) /\ Len(stateFile') <= 1
BY DEF saveState, loadState

\* A file with a first index is not an empty file.
LEMMA NotBlank ==
  ASSUME NEW st \in IndexState, st.first > 0
  PROVE  <<st>> # <<Blank>>
BY DEF Blank, IndexState

\* The parts of the rest of the state.
LEMMA Parts ==
  ASSUME PersisterType
  PROVE  /\ wal \in LogState /\ wal.first \in Nat /\ wal.first > 0 /\ walLast \in Nat
         /\ walLast = W!Last(wal)
         /\ state.first \in Nat /\ state.last \in Nat /\ state.commit \in Nat
         /\ raft.base \in Nat /\ raft.commit \in Nat /\ raft.log \in Seq(Entry)
         /\ Len(checkSum) \in Nat /\ snapFile \in Nat /\ snapshot \in Nat
<1>1. wal \in LogState /\ state \in IndexState /\ raft \in RaftState
      /\ checkSum \in Seq(Entry \cup {zero}) /\ snapFile \in Nat /\ snapshot \in Nat
  BY Zenon DEF PersisterType
<1>2. wal.first \in Nat /\ wal.first > 0 /\ walLast \in Nat /\ walLast = W!Last(wal)
  BY Zenon, <1>1, LastOf DEF walLast
<1>3. state.first \in Nat /\ state.last \in Nat /\ state.commit \in Nat
  BY <1>1 DEF IndexState
<1>4. raft.base \in Nat /\ raft.commit \in Nat /\ raft.log \in Seq(Entry)
  BY <1>1 DEF RaftState
<1>5. Len(checkSum) \in Nat
  BY <1>1
<1>6. QED
  BY Zenon, <1>1, <1>2, <1>3, <1>4, <1>5

\* The last index and the entries change with the log only.
LEMMA SameLog ==
  ASSUME UNCHANGED wal
  PROVE  /\ walLast' = walLast /\ \A i : InWal(i)' = InWal(i) /\ WalEntry(i)' = WalEntry(i)
BY DEF walLast, InWal, WalEntry, W!Last

\* What loadState reads changes with the file only.
LEMMA SameFile ==
  ASSUME UNCHANGED stateFile
  PROVE  loadState' = loadState
BY DEF loadState

\* Who holds ps.mu, from what it does.
LEMMA HolderIs ==
  ASSUME PersisterType
  PROVE  /\ holder.who = "save" => holder \in Saving
         /\ holder.who \in {"writer", "clock"} /\ holder.at \in {"cut", "snapState"} => holder \in Cutting
<1>1. holder \in {Free, Writer("write"), Writer("state")} \cup Saving \cup Cutting
  BY Zenon DEF PersisterType
<1>2. QED
  BY <1>1, Holders

-----------------------------------------------------------------------------
(* Steps that write nothing *)

\* Save puts an entry into the queue.
LEMMA SendKeeps ==
  ASSUME PersisterInv, Send
  PROVE  PersisterInv'
<1>1. holder \in Saving /\ phase = "run"
  BY Zenon, HolderIs, Holders DEF PersisterInv, PersisterType, Bounds, Down, Send
<1> DEFINE todo == holder.todo
<1>2. /\ entryCh \in Seq(Item) /\ Len(entryCh) < QueueCap /\ todo \in Seq(Item) /\ todo # << >>
      /\ entryCh' = Append(entryCh, Head(todo))
      /\ holder' = IF Len(todo) = 1 THEN Free ELSE [holder EXCEPT !.todo = Tail(@)]
  BY Zenon, <1>1, Holders DEF PersisterInv, PersisterType, Send
<1> HIDE DEF todo
<1>3. /\ Head(todo) \in Item /\ Head(todo) = todo[1] /\ 1 \in 1..Len(todo)
      /\ Tail(todo) \in Seq(Item) /\ Len(Tail(todo)) = Len(todo) - 1
      /\ \A k \in 1..Len(Tail(todo)) : k + 1 \in 1..Len(todo) /\ Tail(todo)[k] = todo[k + 1]
  BY Zenon, <1>2, TakenOff
<1>4. /\ entryCh' \in Seq(Item) /\ Len(entryCh') = Len(entryCh) + 1
      /\ \A k \in 1..Len(entryCh') :
           (k \in 1..Len(entryCh) /\ entryCh'[k] = entryCh[k]) \/ entryCh'[k] = Head(todo)
  <2> DEFINE q == Append(entryCh, Head(todo))
  <2>1. /\ q \in Seq(Item) /\ Len(q) = Len(entryCh) + 1
        /\ \A k \in 1..Len(q) : (k \in 1..Len(entryCh) /\ q[k] = entryCh[k]) \/ q[k] = Head(todo)
    BY SMT, <1>2, <1>3, Appended
  <2>2. entryCh' = q
    BY Zenon, <1>2
  <2> HIDE DEF q
  <2>3. QED
    BY Zenon, <2>1, <2>2
<1>5. Len(entryCh') <= QueueCap
  <2>1. Len(entryCh) \in Nat
    BY Zenon, <1>2, LenProperties
  <2>2. QED
    BY SMT, <1>2, <1>4, <2>1, Lengths
<1>6. holder' = Free \/ (holder' \in Saving /\ holder'.todo = Tail(todo))
  <2>1. CASE Len(todo) = 1
    BY Zenon, <1>2, <2>1
  <2>2. CASE Len(todo) # 1
    <3>1. Tail(todo) # << >>
      BY <1>2, <1>3, <2>2
    <3>2. QED
      BY Zenon, <1>1, <1>2, <1>3, <2>2, <3>1 DEF Saving, todo
  <2>3. QED
    BY Zenon, <2>1, <2>2
<1>7. UNCHANGED <<wal, stateFile, snapFile, phase, state, snapshot, snapIdx, checkSum, item,
                  raft, saved, history>>
  BY Zenon DEF Send, disk
<1>8. PersisterType'
  BY Zenon, <1>4, <1>5, <1>6, <1>7, SameLog DEF PersisterInv, PersisterType
<1>9. Bounds'
  BY Zenon, <1>1, <1>6, <1>7, SameFile, Holders DEF PersisterInv, Bounds, AtCut
<1>10. "torn" \notin history' => Fits'
  <2>1. ASSUME "torn" \notin history PROVE Agrees /\ Fits
    BY Zenon, <1>1, <2>1, Holders DEF PersisterInv, Fits, Quiet, Unused
  <2>2. QED
    BY Zenon, <1>1, <1>6, <1>7, <2>1, SameFile, SameLog, Holders DEF Fits, Names, Agrees, AtCut, Quiet
<1>11. Kept'
  <2>1. Kept /\ \A k \in 1..Len(todo) : Given(todo[k])
    BY Zenon, <1>1 DEF PersisterInv, Kept, todo
  <2>2. \A k \in 1..Len(entryCh') : Given(entryCh'[k])
    BY Zenon, <1>3, <1>4, <2>1 DEF Kept
  <2>3. \A k \in 1..Len(Tail(todo)) : Given(Tail(todo)[k])
    BY Zenon, <1>3, <2>1
  <2>4. QED
    BY Zenon, <1>6, <1>7, <2>1, <2>2, <2>3, SameLog, Holders DEF Kept, Given, RaftLast
<1>12. QED
  BY Zenon, <1>8, <1>9, <1>10, <1>11 DEF PersisterInv

\* saveLogToDisk takes an entry from the queue.
LEMMA ReceiveKeeps ==
  ASSUME PersisterInv, Receive
  PROVE  PersisterInv'
<1>1. /\ phase = "run" /\ item = NoItem /\ entryCh # << >> /\ entryCh \in Seq(Item)
      /\ item' = Head(entryCh) /\ entryCh' = Tail(entryCh)
  BY Zenon DEF PersisterInv, PersisterType, Receive
<1>2. /\ item' \in Item /\ item' = entryCh[1] /\ 1 \in 1..Len(entryCh)
      /\ entryCh' \in Seq(Item) /\ Len(entryCh') = Len(entryCh) - 1
      /\ \A k \in 1..Len(entryCh') : k + 1 \in 1..Len(entryCh) /\ entryCh'[k] = entryCh[k + 1]
  BY SMT, <1>1, TakenOff
<1>3. Len(entryCh') <= QueueCap
  <2>1. Len(entryCh) \in Nat /\ Len(entryCh) <= QueueCap
    BY Zenon, <1>1, LenProperties DEF PersisterInv, PersisterType
  <2>2. QED
    BY SMT, <1>2, <2>1, Lengths
<1>4. UNCHANGED <<wal, stateFile, snapFile, phase, state, snapshot, snapIdx, checkSum, holder,
                  raft, saved, history>>
  BY Zenon DEF Receive, disk
<1>5. PersisterType'
  BY Zenon, <1>2, <1>3, <1>4, SameLog DEF PersisterInv, PersisterType
<1>6. Bounds'
  BY Zenon, <1>1, <1>4, SameFile DEF PersisterInv, Bounds, AtCut
<1>7. "torn" \notin history' => Fits'
  <2>1. item.index # walLast + 1
    <3>1. walLast \in Nat
      BY Zenon, Parts DEF PersisterInv
    <3>2. QED
      BY <1>1, <3>1 DEF NoItem
  <2>2. ASSUME "torn" \notin history, Quiet(holder)
        PROVE  loadState.first = state.first /\ loadState.last = state.last
    BY Zenon, <1>1, <2>1, <2>2 DEF PersisterInv, Fits, Agrees, Unused
  <2>3. QED
    BY Zenon, <1>1, <1>4, <2>2, SameFile, SameLog DEF PersisterInv, Fits, Names, Agrees, AtCut, Quiet
<1>8. Kept'
  <2>1. Kept
    BY Zenon DEF PersisterInv
  <2>2. Given(item') /\ \A k \in 1..Len(entryCh') : Given(entryCh'[k])
    BY Zenon, <1>2, <2>1 DEF Kept
  <2>3. QED
    BY Zenon, <1>4, <2>1, <2>2, SameLog DEF Kept, Given, RaftLast
<1>9. QED
  BY Zenon, <1>5, <1>6, <1>7, <1>8 DEF PersisterInv

\* The part of the state that steps of the lock alone leave as it is.
Lasting == <<wal, stateFile, snapFile, phase, state, snapshot, snapIdx, checkSum, entryCh, raft,
             saved, history>>

\* The lock passes from nobody, or from the writer that gives up, to the writer or to nobody.
LEMMA LockKeeps ==
  ASSUME PersisterInv, phase = "run", UNCHANGED Lasting,
         holder' = Free \/ holder' = Writer("write"), item' = item \/ item' = NoItem,
         ~AtCut(holder),
         "torn" \notin history => loadState.first = state.first /\ loadState.last = state.last
  PROVE  PersisterInv'
<1>1. UNCHANGED <<wal, stateFile, snapFile, phase, state, snapshot, snapIdx, checkSum, entryCh, raft,
                  saved, history>>
  BY Zenon DEF Lasting
<1>2. ~AtCut(holder') /\ holder' \notin Saving
  BY Zenon, Holders DEF AtCut
<1>3. PersisterType'
  BY Zenon, <1>1, SameLog DEF PersisterInv, PersisterType
<1>4. Bounds'
  BY Zenon, <1>1, <1>2, SameFile DEF PersisterInv, Bounds
<1>5. "torn" \notin history' => Fits'
  BY Zenon, <1>1, <1>2, SameFile, SameLog DEF PersisterInv, Fits, Names, Agrees
<1>6. Kept'
  BY Zenon, <1>1, <1>2, SameLog DEF PersisterInv, Kept, Given, RaftLast
<1>7. QED
  BY Zenon, <1>3, <1>4, <1>5, <1>6 DEF PersisterInv

\* saveLogToDisk holds an entry and takes the lock: the state file is as ps.state.
LEMMA LockedFits ==
  ASSUME PersisterInv, Locked
  PROVE  /\ phase = "run" /\ holder = Free /\ item # NoItem /\ item \in Item /\ ~AtCut(holder)
         /\ "torn" \notin history => loadState.first = state.first /\ loadState.last = state.last
<1>1. phase = "run" /\ holder = Free /\ item # NoItem
  BY Zenon DEF Locked
<1>2. item \in Item
  BY Zenon, <1>1 DEF PersisterInv, PersisterType
<1>3. ~AtCut(holder) /\ Quiet(holder) /\ holder # Writer("write")
  BY Zenon, <1>1, Holders DEF AtCut, Quiet
<1>4. ASSUME "torn" \notin history PROVE loadState.first = state.first /\ loadState.last = state.last
  BY Zenon, <1>1, <1>3, <1>4 DEF PersisterInv, Fits, Agrees, Unused
<1>5. QED
  BY Zenon, <1>1, <1>2, <1>3, <1>4

\* The entry needs no truncation.
LEMMA NoTruncateKeeps ==
  ASSUME PersisterInv, NoTruncate
  PROVE  PersisterInv'
<1>1. Locked /\ holder' = Writer("write") /\ item' = item /\ UNCHANGED Lasting
  BY Zenon DEF NoTruncate, Lasting, disk
<1>2. QED
  BY Zenon, <1>1, LockedFits, LockKeeps

\* The log refuses the entry.
LEMMA WriteRefusedKeeps ==
  ASSUME PersisterInv, WriteRefused
  PROVE  PersisterInv'
<1>1. /\ holder = Writer("write") /\ item.index # walLast + 1
      /\ holder' = Free /\ item' = NoItem /\ UNCHANGED Lasting
  BY Zenon DEF WriteRefused, Lasting, disk
<1>2. ~AtCut(holder) /\ Quiet(holder) /\ holder # Free
  BY Zenon, <1>1, Holders DEF AtCut, Quiet
<1>3. phase = "run"
  BY Zenon, <1>2 DEF PersisterInv, PersisterType, Bounds, Down
<1>4. ASSUME "torn" \notin history PROVE loadState.first = state.first /\ loadState.last = state.last
  BY Zenon, <1>1, <1>2, <1>3, <1>4 DEF PersisterInv, Fits, Agrees, Unused
<1>5. QED
  BY Zenon, <1>1, <1>2, <1>3, <1>4, LockKeeps

\* The snapshot is on disk already.
LEMMA SnapUnchangedKeeps ==
  ASSUME PersisterInv, NEW who \in {"writer", "clock"}, SnapUnchanged(who)
  PROVE  PersisterInv'
<1>1. CASE who = "writer"
  <2>1. Locked /\ holder' = Writer("write") /\ item' = item /\ UNCHANGED Lasting
    BY <1>1 DEF SnapUnchanged, SnapCaller, AfterSnap, Lasting, disk
  <2>2. QED
    BY Zenon, <2>1, LockedFits, LockKeeps
<1>2. CASE who = "clock"
  <2>1. holder' = holder /\ item' = item /\ UNCHANGED Lasting
    BY <1>2 DEF SnapUnchanged, SnapCaller, AfterSnap, Lasting, disk
  <2>2. UNCHANGED <<wal, stateFile, snapFile, phase, state, snapshot, snapIdx, checkSum, entryCh, raft,
                    saved, history, holder, item>>
    BY Zenon, <2>1 DEF Lasting
  <2>3. QED
    BY ZenonT(30), <2>2, SameFile, SameLog DEF PersisterInv, PersisterType, Bounds, Down, AtCut, Fits,
       Names, Agrees, Unused, Quiet, Kept, Given, RaftLast
<1>3. QED
  BY Zenon, <1>1, <1>2

-----------------------------------------------------------------------------
(* Steps that write a file *)

\* The snapshot is written before the log is cut and the state file follows.
LEMMA SaveSnapKeeps ==
  ASSUME PersisterInv, NEW who \in {"writer", "clock"}, SaveSnap(who)
  PROVE  PersisterInv'
<1>1. /\ phase = "run" /\ snapFile' = snapshot /\ snapIdx' = snapshot
      /\ holder' = [who |-> who, at |-> "cut"]
      /\ UNCHANGED <<wal, stateFile, phase, state, snapshot, checkSum, entryCh, item, raft,
                     saved, history>>
  BY Zenon DEF SaveSnap, SnapCaller, Locked
<1>2. holder' \in Cutting /\ holder' \notin Saving /\ AtCut(holder') /\ ~Quiet(holder')
  <2>1. holder' \in Cutting /\ holder'.at = "cut"
    BY <1>1 DEF Cutting
  <2>2. QED
    BY Zenon, <2>1, Holders DEF AtCut
<1>3. PersisterType'
  BY Zenon, <1>1, <1>2, SameLog DEF PersisterInv, PersisterType
<1>4. loadState.first <= snapshot + 1 /\ state.first <= snapshot + 1 /\ snapshot <= snapshot
  <2>1. /\ loadState.first <= snapFile + 1 /\ state.first <= snapFile + 1 /\ snapFile <= snapshot
        /\ loadState \in IndexState /\ state \in IndexState /\ snapFile \in Nat /\ snapshot \in Nat
    BY Zenon, <1>1, LoadParts DEF PersisterInv, PersisterType, Bounds
  <2>2. loadState.first \in Nat /\ state.first \in Nat
    BY Zenon, <2>1, StateParts
  <2>3. QED
    BY SMT, <2>1, <2>2
<1>5. Bounds'
  BY Zenon, <1>1, <1>4, SameFile DEF PersisterInv, Bounds
<1>6. "torn" \notin history' => Fits'
  BY Zenon, <1>1, <1>2, SameLog DEF PersisterInv, Fits, Names
<1>7. Kept'
  BY Zenon, <1>1, <1>2, SameLog DEF PersisterInv, Kept, Given, RaftLast
<1>8. QED
  BY Zenon, <1>3, <1>5, <1>6, <1>7 DEF PersisterInv

\* A write of the state file from ps.state, with which a writer or the clock ends.
LEMMA StateWriteKeeps ==
  ASSUME PersisterInv, phase = "run", saveState(state), ~AtCut(holder),
         holder' = Free \/ holder' = Writer("write"), item' = item \/ item' = NoItem,
         UNCHANGED <<wal, snapFile, phase, state, snapshot, snapIdx, checkSum, entryCh, raft,
                     saved, history>>
  PROVE  PersisterInv'
<1>1. state \in IndexState
  BY Zenon DEF PersisterInv, PersisterType
<1>2. /\ stateFile' # << >> /\ loadState' = state
      /\ stateFile' \in Seq(IndexState) /\ Len(stateFile') <= 1
  BY Zenon, <1>1, LoadSaved
<1>3. ~AtCut(holder') /\ holder' \notin Saving
  BY Zenon, Holders DEF AtCut
<1>4. PersisterType'
  BY Zenon, <1>2, SameLog DEF PersisterInv, PersisterType
<1>5. Bounds'
  BY Zenon, <1>2, <1>3 DEF PersisterInv, Bounds
<1>6. "torn" \notin history' => Fits'
  BY Zenon, <1>2, <1>3, SameLog DEF PersisterInv, Fits, Names, Agrees
<1>7. Kept'
  BY Zenon, <1>3, SameLog DEF PersisterInv, Kept, Given, RaftLast
<1>8. QED
  BY Zenon, <1>4, <1>5, <1>6, <1>7 DEF PersisterInv

\* A holder that writes belongs to a process that runs.
LEMMA HeldRuns ==
  ASSUME PersisterInv, holder # Free
  PROVE  phase = "run"
BY Zenon DEF PersisterInv, PersisterType, Bounds, Down

\* saveLogToDisk ends with the state file.
LEMMA SaveStateOfWriterKeeps ==
  ASSUME PersisterInv, SaveStateOfWriter
  PROVE  PersisterInv'
<1>1. /\ holder = Writer("state") /\ saveState(state) /\ holder' = Free /\ item' = NoItem
      /\ UNCHANGED <<wal, snapFile, phase, state, snapshot, snapIdx, checkSum, entryCh, raft,
                     saved, history>>
  BY Zenon DEF SaveStateOfWriter
<1>2. phase = "run" /\ ~AtCut(holder)
  BY Zenon, <1>1, Holders, HeldRuns DEF AtCut
<1>3. QED
  BY Zenon, <1>1, <1>2, StateWriteKeeps

\* saveSnapToDisk ends with the state file.
LEMMA SaveStateOfSnapKeeps ==
  ASSUME PersisterInv, SaveStateOfSnap
  PROVE  PersisterInv'
<1>1. /\ holder.who \in {"writer", "clock"} /\ holder.at = "snapState" /\ saveState(state)
      /\ holder' = Free \/ holder' = Writer("write")
      /\ UNCHANGED <<wal, snapFile, phase, state, snapshot, snapIdx, checkSum, entryCh, item, raft,
                     saved, history>>
  BY Zenon DEF SaveStateOfSnap, AfterSnap
<1>2. holder \in Cutting
  BY <1>1, HolderIs DEF PersisterInv
<1>3. phase = "run" /\ ~AtCut(holder)
  <2>1. holder # Free
    BY Zenon, <1>2, Holders
  <2>2. holder.at # "cut"
    BY <1>1
  <2>3. QED
    BY Zenon, <2>1, <2>2, HeldRuns DEF AtCut
<1>4. QED
  BY Zenon, <1>1, <1>3, StateWriteKeeps

-----------------------------------------------------------------------------
(* The process ends *)

\* What a process leaves behind: files that a start can read unless a write was torn.
LEMMA StopKeeps ==
  ASSUME PersisterInv, NEW why \in {"crashed", "exited", "torn"}, Stop(why),
         wal' \in LogState, wal'.flushed = walLast', snapFile' = snapFile,
         stateFile' \in Seq(IndexState), Len(stateFile') <= 1,
         loadState'.first <= snapFile + 1,
         \A i \in wal'.first..walLast' : <<i, WalEntry(i)'>> \in saved',
         "torn" \notin history /\ why # "torn" =>
           loadState'.last = walLast' /\ wal'.first <= loadState'.first /\ loadState'.first = snapFile + 1
  PROVE  PersisterInv'
<1>1. /\ phase' = "down" /\ history' = history \cup {why} /\ state' = loadState /\ snapshot' = 0
      /\ snapIdx' = 0 /\ checkSum' = << >> /\ entryCh' = << >> /\ holder' = Free /\ item' = NoItem
      /\ raft' = [log |-> << >>, base |-> 0, commit |-> 0]
  BY Zenon DEF Stop
<1>2. /\ raft' \in RaftState /\ raft'.log = << >> /\ raft'.base = 0
      /\ raft'.base + 1..RaftLast(raft') = {}
  BY <1>1 DEF RaftState, RaftLast
<1>3. /\ << >> \in Seq(Item) /\ << >> \in Seq(Entry \cup {zero}) /\ Len(entryCh') <= QueueCap /\ 0 \in Nat
      /\ 1..Len(entryCh') = {}
  BY <1>1, Lengths
<1>4. history' \subseteq Events
  BY <1>1 DEF PersisterInv, PersisterType, Events
<1>5. loadState \in IndexState /\ snapFile \in Nat
  BY Zenon, LoadParts DEF PersisterInv, PersisterType
<1>6. PersisterType'
  BY Zenon, <1>1, <1>2, <1>3, <1>4, <1>5 DEF PersisterType
<1>7. Bounds'
  BY Zenon, <1>1, <1>2 DEF Bounds, Down
<1>8. "torn" \notin history' => Fits'
  BY Zenon, <1>1 DEF Fits, Names
<1>9. Kept'
  BY Zenon, <1>1, <1>2, <1>3, Holders DEF Kept
<1>10. QED
  BY Zenon, <1>6, <1>7, <1>8, <1>9 DEF PersisterInv

\* The same when the files are as they were.
LEMMA StopSameKeeps ==
  ASSUME PersisterInv, NEW why \in {"crashed", "exited"}, Stop(why), UNCHANGED <<disk, saved>>,
         phase = "run", ~AtCut(holder),
         "torn" \notin history => loadState.first = state.first /\ loadState.last = state.last
  PROVE  PersisterInv'
<1>1. UNCHANGED wal /\ UNCHANGED stateFile /\ UNCHANGED snapFile /\ UNCHANGED saved
  BY Zenon DEF disk
<1>2. /\ wal' \in LogState /\ wal'.flushed = walLast' /\ stateFile' \in Seq(IndexState)
      /\ Len(stateFile') <= 1 /\ loadState'.first <= snapFile + 1
  BY Zenon, <1>1, SameLog, SameFile DEF PersisterInv, PersisterType, Bounds
<1>3. \A i \in wal'.first..walLast' : <<i, WalEntry(i)'>> \in saved'
  BY Zenon, <1>1, SameLog DEF PersisterInv, Kept
<1>4. "torn" \notin history =>
        loadState'.last = walLast' /\ wal'.first <= loadState'.first /\ loadState'.first = snapFile + 1
  BY Zenon, <1>1, SameLog, SameFile DEF PersisterInv, Fits, Names
<1>5. why \in {"crashed", "exited", "torn"}
  BY Zenon
<1>6. QED
  BY Zenon, <1>1, <1>2, <1>3, <1>4, <1>5, StopKeeps

\* A crash between two calls.
LEMMA CrashKeeps ==
  ASSUME PersisterInv, Crash
  PROVE  PersisterInv'
<1>1. /\ phase = "run" /\ holder.who \notin {"writer", "clock"} /\ stateFile # <<Blank>>
      /\ Stop("crashed") /\ UNCHANGED <<disk, saved>>
  BY Zenon DEF Crash
<1>2. holder = Free \/ holder \in Saving
  <2>1. holder \in {Free, Writer("write"), Writer("state")} \cup Saving \cup Cutting
    BY Zenon DEF PersisterInv, PersisterType
  <2>2. QED
    BY <1>1, <2>1, Holders
<1>3. ~AtCut(holder) /\ Quiet(holder) /\ holder # Writer("write")
  BY Zenon, <1>2, Holders DEF AtCut, Quiet
<1>4. ASSUME "torn" \notin history PROVE loadState.first = state.first /\ loadState.last = state.last
  BY Zenon, <1>1, <1>3, <1>4 DEF PersisterInv, Fits, Agrees, Unused
<1>5. QED
  BY Zenon, <1>1, <1>3, <1>4, StopSameKeeps

\* A crash between or within writes that belong together.
LEMMA CrashInsideKeeps ==
  ASSUME PersisterInv, CrashInside
  PROVE  PersisterInv'
<1>1. /\ stateFile' = <<Blank>> \/ stateFile' = stateFile
      /\ Stop("torn") /\ UNCHANGED wal /\ UNCHANGED snapFile /\ UNCHANGED saved
  BY DEF CrashInside
<1>2. /\ wal' \in LogState /\ wal'.flushed = walLast'
      /\ \A i \in wal'.first..walLast' : <<i, WalEntry(i)'>> \in saved'
  BY Zenon, <1>1, SameLog DEF PersisterInv, PersisterType, Kept
<1>3. /\ stateFile' \in Seq(IndexState) /\ Len(stateFile') <= 1 /\ loadState'.first <= snapFile + 1
  <2>1. CASE stateFile' = stateFile
    BY Zenon, <2>1, SameFile DEF PersisterInv, PersisterType, Bounds
  <2>2. CASE stateFile' = <<Blank>>
    <3>1. Blank \in IndexState /\ Blank.first = 0
      BY DEF Blank, IndexState
    <3>2. /\ stateFile' \in Seq(IndexState) /\ Len(stateFile') <= 1 /\ loadState' = Blank
      BY Zenon, <2>2, <3>1, LoadSaved DEF saveState
    <3>3. 0 <= snapFile + 1
      BY Parts DEF PersisterInv
    <3>4. QED
      BY Zenon, <3>1, <3>2, <3>3
  <2>3. QED
    BY Zenon, <1>1, <2>1, <2>2
<1>4. QED
  BY Zenon, <1>1, <1>2, <1>3, StopKeeps

\* The index before the entry is not in the log.
LEMMA TruncateBackFailsKeeps ==
  ASSUME PersisterInv, TruncateBackFails
  PROVE  PersisterInv'
<1>1. Locked /\ Stop("exited") /\ UNCHANGED <<disk, saved>>
  BY Zenon DEF TruncateBackFails
<1>2. QED
  BY Zenon, <1>1, LockedFits, StopSameKeeps

-----------------------------------------------------------------------------
(* Steps that write the log *)

\* What TruncateBack leaves was given to Save.
LEMMA CutBackStep ==
  ASSUME PersisterInv, NEW i \in Nat, InWal(i), wal' = W!CutBack(wal, i)
  PROVE  /\ wal' \in LogState /\ wal'.first = wal.first /\ walLast' = i /\ wal'.flushed = walLast'
         /\ \A j \in wal'.first..walLast' : <<j, WalEntry(j)'>> \in saved
<1> DEFINE t == W!CutBack(wal, i)
<1>1. /\ wal \in LogState /\ wal.first \in Nat /\ walLast \in Nat /\ walLast = W!Last(wal)
      /\ \A j \in wal.first..walLast : <<j, WalEntry(j)>> \in saved
  BY Zenon, Parts DEF PersisterInv, Kept
<1>2. wal.first <= i /\ i <= W!Last(wal)
  BY Zenon, <1>1 DEF InWal
<1>3. /\ t \in LogState /\ t.first = wal.first /\ t.flushed = i /\ W!Last(t) = i
      /\ \A j \in wal.first..i : t.entries[j - wal.first + 1] = wal.entries[j - wal.first + 1]
  BY Zenon, <1>1, <1>2, CutBackKeeps
<1> HIDE DEF t
<1>4. wal' = t
  BY Zenon DEF t
<1>5. walLast' = W!Last(t)
  BY Zenon, <1>4 DEF walLast, W!Last
<1>6. \A j \in wal.first..i : j \in wal.first..walLast
  BY <1>1, <1>2
<1>7. \A j \in wal.first..i : <<j, t.entries[j - wal.first + 1]>> \in saved
  BY Zenon, <1>1, <1>3, <1>6 DEF WalEntry
<1>8. QED
  BY Zenon, <1>3, <1>4, <1>5, <1>7 DEF WalEntry

\* What TruncateFront leaves was given to Save.
LEMMA CutFrontStep ==
  ASSUME PersisterInv, NEW i \in Nat, InWal(i), wal' = W!CutFront(wal, i)
  PROVE  /\ wal' \in LogState /\ wal'.first = i /\ walLast' = walLast /\ wal'.flushed = walLast'
         /\ \A j \in wal'.first..walLast' : <<j, WalEntry(j)'>> \in saved
<1> DEFINE t == W!CutFront(wal, i)
<1>1. /\ wal \in LogState /\ wal.first \in Nat /\ walLast \in Nat /\ walLast = W!Last(wal)
      /\ wal.flushed = walLast
      /\ \A j \in wal.first..walLast : <<j, WalEntry(j)>> \in saved
  BY Zenon, Parts DEF PersisterInv, PersisterType, Kept
<1>2. wal.first <= i /\ i <= W!Last(wal)
  BY Zenon, <1>1 DEF InWal
<1>3. /\ t \in LogState /\ t.first = i /\ t.flushed = wal.flushed /\ W!Last(t) = W!Last(wal)
      /\ \A j \in i..W!Last(wal) : t.entries[j - i + 1] = wal.entries[j - wal.first + 1]
  BY Zenon, <1>1, <1>2, CutFrontKeeps
<1> HIDE DEF t
<1>4. wal' = t
  BY Zenon DEF t
<1>5. walLast' = W!Last(t)
  BY Zenon, <1>4 DEF walLast, W!Last
<1>6. \A j \in i..walLast : j \in wal.first..walLast
  BY <1>1, <1>2
<1>7. \A j \in i..walLast : <<j, t.entries[j - i + 1]>> \in saved
  BY Zenon, <1>1, <1>3, <1>6 DEF WalEntry
<1>8. QED
  BY Zenon, <1>1, <1>3, <1>4, <1>5, <1>7 DEF WalEntry

\* The log is cut before the entry, with the checksums.
LEMMA TruncateBackKeeps ==
  ASSUME PersisterInv, TruncateBack
  PROVE  PersisterInv'
<1> DEFINE i == item.index - 1
           n == item.index - state.first
<1>1. /\ Locked /\ InWal(i) /\ item.index > 1 /\ wal' = W!CutBack(wal, i)
      /\ item.index >= state.first /\ checkSum' \in Resliced(n)
      /\ state' = [state EXCEPT !.last = i] /\ holder' = Writer("write")
      /\ UNCHANGED <<stateFile, snapFile, phase, snapshot, snapIdx, entryCh, item, raft,
                     saved, history>>
  BY Zenon DEF TruncateBack, CutBackFits
<1>2. /\ phase = "run" /\ item # NoItem /\ item \in Item /\ ~AtCut(holder)
      /\ "torn" \notin history => loadState.first = state.first /\ loadState.last = state.last
  BY Zenon, <1>1, LockedFits
<1>3. item.index \in Nat /\ state \in IndexState /\ state.first \in Nat
  BY Zenon, <1>2, Parts DEF Item, PersisterInv, PersisterType
<1>4. i \in Nat /\ n \in Nat /\ item.index = i + 1 /\ i - state.first + 1 <= n
  BY SMT, <1>1, <1>3
<1>5. /\ state' \in IndexState /\ state'.first = state.first /\ state'.last = i
  BY Zenon, <1>1, <1>3, <1>4, StateParts
<1> HIDE DEF i
<1>6. /\ wal' \in LogState /\ wal'.first = wal.first /\ walLast' = i /\ wal'.flushed = walLast'
      /\ \A j \in wal'.first..walLast' : <<j, WalEntry(j)'>> \in saved
  BY Zenon, <1>1, <1>4, CutBackStep
<1>7. checkSum' \in Seq(Entry \cup {zero}) /\ Len(checkSum') = n
  <2>1. checkSum' \in [1..n -> Entry \cup {zero}]
    BY Zenon, <1>1 DEF Resliced
  <2> HIDE DEF n
  <2>2. QED
    BY <1>4, <2>1
<1>8. ~AtCut(holder') /\ holder' \notin Saving
  BY Zenon, <1>1, Holders DEF AtCut
<1>9. PersisterType'
  BY Zenon, <1>1, <1>5, <1>6, <1>7 DEF PersisterInv, PersisterType
<1>10. Bounds'
  BY Zenon, <1>1, <1>2, <1>5, <1>8, SameFile DEF PersisterInv, Bounds
<1>11. "torn" \notin history' => Fits'
  <2>1. ASSUME "torn" \notin history
        PROVE  /\ wal.first <= state.first /\ state.first > 0 /\ state.first = snapFile + 1
               /\ loadState.first = state.first
    BY Zenon, <1>2, <2>1 DEF PersisterInv, Fits, Names
  <2>2. state'.last - state'.first + 1 <= Len(checkSum')
    BY Zenon, <1>4, <1>5, <1>7
  <2>3. QED
    BY Zenon, <1>1, <1>2, <1>4, <1>5, <1>6, <1>8, <2>1, <2>2, SameFile DEF Fits, Names, Agrees
<1>12. Kept'
  BY Zenon, <1>1, <1>2, <1>6, <1>8 DEF PersisterInv, Kept, Given, RaftLast
<1>13. QED
  BY Zenon, <1>9, <1>10, <1>11, <1>12 DEF PersisterInv

\* The log is cut, the checksums cannot be.
LEMMA TruncateBackPanicsKeeps ==
  ASSUME PersisterInv, TruncateBackPanics
  PROVE  PersisterInv'
<1> DEFINE i == item.index - 1
<1>1. /\ Locked /\ InWal(i) /\ item.index > 1 /\ wal' = W!CutBack(wal, i) /\ Stop("torn")
      /\ UNCHANGED stateFile /\ UNCHANGED snapFile /\ UNCHANGED saved
  BY Zenon DEF TruncateBackPanics, CutBackFits
<1>2. item.index \in Nat
  BY Zenon, <1>1, LockedFits DEF Item
<1>3. i \in Nat
  BY SMT, <1>1, <1>2
<1> HIDE DEF i
<1>4. /\ wal' \in LogState /\ wal'.flushed = walLast'
      /\ \A j \in wal'.first..walLast' : <<j, WalEntry(j)'>> \in saved
  BY Zenon, <1>1, <1>3, CutBackStep
<1>5. /\ stateFile' \in Seq(IndexState) /\ Len(stateFile') <= 1 /\ loadState'.first <= snapFile + 1
  BY Zenon, <1>1, SameFile DEF PersisterInv, PersisterType, Bounds
<1>6. QED
  BY Zenon, <1>1, <1>4, <1>5, StopKeeps

\* The entry follows the last one of the log and is written, with its checksum.
LEMMA WriteEntryKeeps ==
  ASSUME PersisterInv, WriteEntry
  PROVE  PersisterInv'
<1>1. /\ holder = Writer("write") /\ item.index = walLast + 1
      /\ wal' = W!Flushed([wal EXCEPT !.entries = Append(@, item.entry)])
      /\ checkSum' = Append(checkSum, item.entry)
      /\ state' = [state EXCEPT !.last = item.index] /\ holder' = Writer("state")
      /\ UNCHANGED <<stateFile, snapFile, phase, snapshot, snapIdx, entryCh, item, raft,
                     saved, history>>
  BY Zenon DEF WriteEntry
<1>2. /\ wal \in LogState /\ wal.first \in Nat /\ walLast \in Nat /\ walLast = W!Last(wal)
      /\ state.first \in Nat /\ state.last \in Nat /\ Len(checkSum) \in Nat /\ state \in IndexState
      /\ checkSum \in Seq(Entry \cup {zero})
  BY Zenon, Parts DEF PersisterInv, PersisterType
<1>3. item # NoItem /\ item \in Item /\ item.entry \in Entry /\ item.index \in Nat
  <2>1. item # NoItem
    BY <1>1, <1>2 DEF NoItem
  <2>2. QED
    BY Zenon, <2>1 DEF PersisterInv, PersisterType, Item
<1>4. phase = "run" /\ ~AtCut(holder) /\ ~AtCut(holder') /\ holder' \notin Saving /\ ~Quiet(holder')
  BY Zenon, <1>1, Holders, HeldRuns DEF AtCut
<1> DEFINE t == W!Flushed([wal EXCEPT !.entries = Append(@, item.entry)])
<1>5. /\ t \in LogState /\ t.first = wal.first /\ t.flushed = W!Last(t) /\ W!Last(t) = W!Last(wal) + 1
      /\ \A j \in wal.first..W!Last(wal) :
           t.entries[j - wal.first + 1] = wal.entries[j - wal.first + 1]
      /\ t.entries[W!Last(t) - wal.first + 1] = item.entry
  BY Zenon, <1>2, <1>3, WriteAdds
<1> HIDE DEF t
<1>6. wal' = t
  BY Zenon, <1>1 DEF t
<1>7. walLast' = W!Last(t) /\ walLast' = item.index
  BY Zenon, <1>1, <1>2, <1>5, <1>6 DEF walLast, W!Last
<1>8. \A j \in wal'.first..walLast' : <<j, WalEntry(j)'>> \in saved
  <2>1. Given(item) /\ \A j \in wal.first..walLast : <<j, WalEntry(j)>> \in saved
    BY Zenon, <1>3 DEF PersisterInv, Kept
  <2>2. \A j \in wal.first..item.index : j \in wal.first..walLast \/ j = item.index
    BY SMT, <1>1, <1>2
  <2>3. \A j \in wal.first..walLast : <<j, t.entries[j - wal.first + 1]>> \in saved
    BY Zenon, <1>2, <1>5, <2>1 DEF WalEntry
  <2>4. <<item.index, t.entries[item.index - wal.first + 1]>> \in saved
    BY Zenon, <1>5, <1>7, <2>1 DEF Given
  <2>5. \A j \in wal.first..item.index : <<j, t.entries[j - wal.first + 1]>> \in saved
    BY Zenon, <2>2, <2>3, <2>4
  <2>6. QED
    BY Zenon, <1>5, <1>6, <1>7, <2>5 DEF WalEntry
<1>9. checkSum' \in Seq(Entry \cup {zero}) /\ Len(checkSum') = Len(checkSum) + 1
  BY <1>1, <1>2, <1>3
<1>10. state' \in IndexState /\ state'.first = state.first /\ state'.last = item.index
  BY Zenon, <1>1, <1>2, <1>3, StateParts
<1>11. PersisterType'
  BY Zenon, <1>1, <1>5, <1>6, <1>7, <1>9, <1>10 DEF PersisterInv, PersisterType
<1>12. Bounds'
  BY Zenon, <1>1, <1>4, <1>10, SameFile DEF PersisterInv, Bounds
<1>13. "torn" \notin history' => Fits'
  <2>1. ASSUME "torn" \notin history
        PROVE  /\ state.last = walLast /\ wal.first <= state.first /\ state.first > 0
               /\ state.first = snapFile + 1 /\ state.last - state.first + 1 <= Len(checkSum)
    BY Zenon, <1>4, <2>1 DEF PersisterInv, Fits, Names
  <2>2. ASSUME "torn" \notin history PROVE item.index - state.first + 1 <= Len(checkSum) + 1
    BY SMT, <1>1, <1>2, <2>1, <2>2
  <2>3. QED
    BY Zenon, <1>1, <1>4, <1>5, <1>6, <1>7, <1>9, <1>10, <2>1, <2>2 DEF Fits, Names
<1>14. Kept'
  BY Zenon, <1>1, <1>4, <1>8 DEF PersisterInv, Kept, Given, RaftLast
<1>15. QED
  BY Zenon, <1>11, <1>12, <1>13, <1>14 DEF PersisterInv

\* The log is cut after the snapshot, and the checksums are.
LEMMA TruncateFrontKeeps ==
  ASSUME PersisterInv, TruncateFront
  PROVE  PersisterInv'
<1> DEFINE a == snapshot - state.first + 2
           n == Len(checkSum)
<1>1. /\ holder.who \in {"writer", "clock"} /\ holder.at = "cut" /\ InWal(cutIndex)
      /\ snapshot - state.first + 1 <= n /\ wal' = W!CutFront(wal, cutIndex)
      /\ checkSum' = SubSeq(checkSum, a, n)
      /\ state' = [state EXCEPT !.first = snapshot + 1]
      /\ holder' = [holder EXCEPT !.at = "snapState"]
      /\ UNCHANGED <<stateFile, snapFile, phase, snapshot, snapIdx, entryCh, item, raft,
                     saved, history>>
  BY Zenon DEF TruncateFront, CutFits
<1>2. holder \in Cutting
  BY <1>1, HolderIs DEF PersisterInv
<1>3. phase = "run" /\ AtCut(holder)
  BY Zenon, <1>1, <1>2, Holders, HeldRuns DEF AtCut
<1>4. /\ walLast \in Nat /\ state.first \in Nat /\ state.last \in Nat /\ state \in IndexState
      /\ checkSum \in Seq(Entry \cup {zero}) /\ n \in Nat /\ snapshot \in Nat
      /\ snapFile = snapshot /\ state.first <= snapFile + 1
  BY Zenon, <1>3, Parts DEF PersisterInv, PersisterType, Bounds
<1> HIDE DEF n
<1>5. a \in Nat /\ a >= 1 /\ snapshot + 1 \in Nat /\ snapshot + 1 > 0 /\ snapshot + 1 <= snapFile + 1
  BY SMT, <1>4
<1>6. cutIndex \in Nat /\ cutIndex <= snapshot + 1
  BY SMT, <1>4 DEF cutIndex, MinOf
<1>7. /\ wal' \in LogState /\ wal'.first = cutIndex /\ walLast' = walLast /\ wal'.flushed = walLast'
      /\ \A j \in wal'.first..walLast' : <<j, WalEntry(j)'>> \in saved
  BY Zenon, <1>1, <1>6, CutFrontStep
<1>8. /\ checkSum' \in Seq(Entry \cup {zero})
      /\ Len(checkSum') = IF a <= n THEN n - a + 1 ELSE 0
  <2>1. n <= Len(checkSum) /\ n \in Int /\ a \in Int
    BY <1>4, <1>5 DEF n
  <2> HIDE DEF a
  <2>2. QED
    BY ZenonT(30), <1>1, <1>4, <1>5, <2>1, SubSeqType
<1>9. state' \in IndexState /\ state'.first = snapshot + 1 /\ state'.last = state.last
  BY Zenon, <1>1, <1>4, <1>5, StateParts
<1>10. holder' \in Cutting /\ ~AtCut(holder') /\ holder' \notin Saving /\ ~Quiet(holder')
  <2>1. holder' \in Cutting /\ holder'.at = "snapState"
    BY <1>1, <1>2 DEF Cutting
  <2>2. holder'.at # "cut"
    BY <2>1
  <2>3. QED
    BY Zenon, <2>1, <2>2, Holders DEF AtCut
<1>11. PersisterType'
  BY Zenon, <1>1, <1>7, <1>8, <1>9, <1>10 DEF PersisterInv, PersisterType
<1>12. Bounds'
  BY Zenon, <1>1, <1>3, <1>5, <1>9, <1>10, SameFile DEF PersisterInv, Bounds
<1>13. "torn" \notin history' => Fits'
  <2>1. ASSUME "torn" \notin history
        PROVE  state.last = walLast /\ state.last - state.first + 1 <= n
    BY Zenon, <1>3, <2>1 DEF PersisterInv, Fits, Names, n
  <2>2. ASSUME "torn" \notin history PROVE state'.last - state'.first + 1 <= Len(checkSum')
    <3>1. /\ state.first \in Nat /\ state.last \in Nat /\ n \in Nat /\ snapshot \in Nat
          /\ snapshot - state.first + 1 <= n /\ state.last - state.first + 1 <= n
      BY Zenon, <1>1, <1>4, <2>1, <2>2
    <3>2. state.last - (snapshot + 1) + 1 <= IF a <= n THEN n - a + 1 ELSE 0
      BY SMT, <3>1
    <3>3. QED
      BY Zenon, <1>8, <1>9, <3>2
  <2>3. QED
    BY Zenon, <1>1, <1>3, <1>4, <1>5, <1>6, <1>7, <1>9, <1>10, <2>1, <2>2 DEF Fits, Names
<1>14. Kept'
  BY Zenon, <1>1, <1>7, <1>10 DEF PersisterInv, Kept, Given, RaftLast
<1>15. QED
  BY Zenon, <1>11, <1>12, <1>13, <1>14 DEF PersisterInv

\* The log cannot be cut there, or the checksums cannot be.
LEMMA TruncateFrontFailsKeeps ==
  ASSUME PersisterInv, TruncateFrontFails
  PROVE  PersisterInv'
<1>1. /\ wal' = IF InWal(cutIndex) THEN W!CutFront(wal, cutIndex) ELSE wal
      /\ Stop("torn") /\ UNCHANGED stateFile /\ UNCHANGED snapFile /\ UNCHANGED saved
  BY Zenon DEF TruncateFrontFails
<1>2. cutIndex \in Nat
  <2>1. snapshot \in Nat /\ walLast \in Nat
    BY Zenon, Parts DEF PersisterInv
  <2>2. QED
    BY SMT, <2>1 DEF cutIndex, MinOf
<1>3. /\ wal' \in LogState /\ wal'.flushed = walLast'
      /\ \A j \in wal'.first..walLast' : <<j, WalEntry(j)'>> \in saved
  <2>1. CASE InWal(cutIndex)
    BY Zenon, <1>1, <1>2, <2>1, CutFrontStep
  <2>2. CASE ~InWal(cutIndex)
    BY Zenon, <1>1, <2>2, SameLog DEF PersisterInv, PersisterType, Kept
  <2>3. QED
    BY Zenon, <2>1, <2>2
<1>4. /\ stateFile' \in Seq(IndexState) /\ Len(stateFile') <= 1 /\ loadState'.first <= snapFile + 1
  BY Zenon, <1>1, SameFile DEF PersisterInv, PersisterType, Bounds
<1>5. QED
  BY Zenon, <1>1, <1>3, <1>4, StopKeeps

-----------------------------------------------------------------------------
(* Save *)

\* Save writes the state file, then queues what filter picks or panics.
LEMMA SaveKeeps ==
  ASSUME PersisterInv, NEW r \in RaftState, r.base >= raft.base, NEW events \in SUBSET {"replaced"},
         Save(r, events)
  PROVE  PersisterInv'
<1> DEFINE st == [state EXCEPT !.commit = r.commit]
           pairs == {<<i, r.log[i - r.base]>> : i \in r.base + 1..RaftLast(r)}
<1>1. /\ phase = "run" /\ holder = Free /\ saveState(st) /\ saved' = saved \cup pairs
      /\ UNCHANGED wal /\ UNCHANGED snapFile
      /\ SaveReturns(r, events) \/ Stop("exited")
  BY Zenon DEF Save
<1>2. /\ state \in IndexState /\ state.first \in Nat /\ snapFile \in Nat /\ snapshot \in Nat
      /\ raft.base \in Nat /\ state.first <= snapFile + 1 /\ snapFile <= snapshot
      /\ snapshot = raft.base
  BY Zenon, <1>1, Parts DEF PersisterInv, PersisterType, Bounds
<1>3. r.base \in Nat /\ r.commit \in Nat
  BY Zenon DEF RaftState
<1>4. st \in IndexState /\ st.first = state.first /\ st.last = state.last
  BY Zenon, <1>2, <1>3, StateParts
<1> HIDE DEF st
<1>5. /\ stateFile' # << >> /\ loadState' = st /\ stateFile' \in Seq(IndexState) /\ Len(stateFile') <= 1
  BY Zenon, <1>1, <1>4, LoadSaved
<1>6. /\ wal' \in LogState /\ wal'.flushed = walLast'
      /\ \A i \in wal'.first..walLast' : <<i, WalEntry(i)'>> \in saved'
  BY Zenon, <1>1, SameLog DEF PersisterInv, PersisterType, Kept
<1>7. ~AtCut(holder)
  BY Zenon, <1>1, Holders DEF AtCut
<1>8. "torn" \notin history =>
        st.last = walLast /\ wal.first <= st.first /\ st.first = snapFile + 1
  BY Zenon, <1>1, <1>4, <1>7 DEF PersisterInv, Fits, Names
<1>9. CASE Stop("exited")
  <2>1. "torn" \notin history =>
          loadState'.last = walLast' /\ wal'.first <= loadState'.first /\ loadState'.first = snapFile + 1
    BY Zenon, <1>1, <1>5, <1>8, SameLog
  <2>2. QED
    BY Zenon, <1>1, <1>2, <1>4, <1>5, <1>6, <1>9, <2>1, StopKeeps
<1>10. CASE SaveReturns(r, events)
  <2>1. /\ raft' = r /\ state' = st /\ snapshot' = r.base /\ history' = history \cup events
        /\ holder' = IF filter(r) = << >> THEN Free ELSE [who |-> "save", todo |-> filter(r)]
        /\ UNCHANGED <<phase, snapIdx, checkSum, entryCh, item>>
    BY Zenon, <1>10 DEF SaveReturns, st
  <2>2. PICK f \in Seq(Item) :
          /\ f = filter(r)
          /\ \A k \in 1..Len(f) : /\ f[k].index \in r.base + 1..RaftLast(r)
                                 /\ f[k].entry = r.log[f[k].index - r.base]
    BY Zenon, FilterGives
  <2>3. holder' = Free \/ (holder' \in Saving /\ holder'.todo = f)
    <3>1. CASE filter(r) = << >>
      BY Zenon, <2>1, <3>1
    <3>2. CASE filter(r) # << >>
      BY Zenon, <2>1, <2>2, <3>2 DEF Saving
    <3>3. QED
      BY Zenon, <3>1, <3>2
  <2>4. history' \subseteq Events /\ ("torn" \notin history' => "torn" \notin history)
    BY <2>1 DEF PersisterInv, PersisterType, Events
  <2>5. ~AtCut(holder') /\ holder' # Writer("write")
    BY Zenon, <2>3, Holders DEF AtCut
  <2>6. PersisterType'
    BY Zenon, <1>1, <1>3, <1>4, <1>5, <1>6, <2>1, <2>3, <2>4 DEF PersisterInv, PersisterType
  <2>7. snapFile <= r.base
    BY SMT, <1>2, <1>3
  <2>8. Bounds'
    BY Zenon, <1>1, <1>2, <1>4, <1>5, <2>1, <2>5, <2>7 DEF Bounds
  <2>9. "torn" \notin history' => Fits'
    <3>1. ASSUME "torn" \notin history
          PROVE  state.first > 0 /\ state.last - state.first + 1 <= Len(checkSum)
      BY Zenon, <1>1, <3>1 DEF PersisterInv, Fits
    <3>2. QED
      BY Zenon, <1>1, <1>4, <1>5, <1>8, <2>1, <2>4, <2>5, <3>1, SameLog DEF Fits, Names, Agrees
  <2>10. Kept'
    <3>1. \A k \in 1..Len(f) : Given(f[k])'
      <4>1. TAKE k \in 1..Len(f)
      <4>2. <<f[k].index, f[k].entry>> \in pairs
        BY Zenon, <2>2
      <4>3. QED
        BY Zenon, <1>1, <4>2 DEF Given
    <3>2. /\ \A k \in 1..Len(entryCh') : Given(entryCh[k])'
          /\ item' # NoItem => Given(item)'
      BY Zenon, <1>1, <2>1 DEF PersisterInv, Kept, Given
    <3>3. \A i \in raft'.base + 1..RaftLast(raft)' : <<i, raft'.log[i - raft'.base]>> \in saved'
      BY Zenon, <1>1, <2>1 DEF RaftLast
    <3>4. QED
      BY Zenon, <1>6, <2>1, <2>3, <3>1, <3>2, <3>3, Holders DEF Kept, Given
  <2>11. QED
    BY Zenon, <2>6, <2>8, <2>9, <2>10 DEF PersisterInv
<1>11. QED
  BY Zenon, <1>1, <1>9, <1>10

\* The entries that Raft appends are entries.
LEMMA ContentIn ==
  ASSUME NEW i \in 1..MaxIndex, NEW e \in Contents[i]
  PROVE  e \in Entry
BY Zenon DEF Entry

\* Every call of Raft is a Save of a state whose snapshot has not gone back.
LEMMA CallIsSave ==
  ASSUME PersisterInv, RaftStep
  PROVE  \E r \in RaftState, events \in SUBSET {"replaced"} : r.base >= raft.base /\ Save(r, events)
<1> DEFINE b == raft.base
           q == raft.log
           n == Len(raft.log)
<1>1. raft \in RaftState /\ b \in Nat /\ raft.commit \in Nat /\ q \in Seq(Entry) /\ n \in Nat
      /\ RaftLast(raft) = b + n
  BY Parts DEF PersisterInv, PersisterType, RaftLast
<1>2. {} \in SUBSET {"replaced"} /\ {"replaced"} \in SUBSET {"replaced"}
  BY Zenon
<1>3. \A l \in Seq(Entry), c, d \in Nat : [log |-> l, base |-> c, commit |-> d] \in RaftState
  BY Zenon DEF RaftState
<1>4. \A r \in Commits(raft) : r \in RaftState /\ r.base = b /\ r.log = q
  <2>1. TAKE r \in Commits(raft)
  <2>2. PICK m \in raft.commit..MaxOf(RaftLast(raft), raft.commit) : r = [raft EXCEPT !.commit = m]
    BY Zenon DEF Commits
  <2>3. m \in Nat
    BY <1>1 DEF MaxOf
  <2>4. QED
    BY <1>1, <2>2, <2>3 DEF RaftState
<1>5. b >= b
  BY SMT, <1>1
<1>6. CASE Start
  <2>1. PICK r \in Commits(raft), e \in Contents[RaftLast(raft) + 1] :
          Save([r EXCEPT !.log = Append(@, e)], {})
    BY Zenon, <1>6 DEF Start
  <2>2. RaftLast(raft) + 1 \in 1..MaxIndex
    BY <1>1, <1>6, Lengths DEF Start
  <2>3. e \in Entry
    BY Zenon, <2>2, ContentIn
  <2>4. Append(q, e) \in Seq(Entry)
    BY <1>1, <2>3
  <2>5. [r EXCEPT !.log = Append(@, e)] \in RaftState /\ [r EXCEPT !.log = Append(@, e)].base = b
    BY Zenon, <1>4, <2>4 DEF RaftState
  <2>6. QED
    BY Zenon, <1>2, <1>5, <2>1, <2>5
<1>7. CASE Vote
  BY Zenon, <1>2, <1>4, <1>5, <1>7 DEF Vote
<1>8. ASSUME NEW i \in 1..MaxIndex, Compact(i)
      PROVE  \E r \in RaftState, events \in SUBSET {"replaced"} : r.base >= raft.base /\ Save(r, events)
  <2>1. b < i /\ Save([raft EXCEPT !.base = i, !.log = SubSeq(@, i - b + 1, Len(@))], {})
    BY Zenon, <1>8 DEF Compact
  <2>2. i \in Nat /\ i >= b /\ i - b + 1 \in Int /\ i - b + 1 >= 1 /\ n <= n
    BY <1>1, <2>1, Lengths
  <2>3. SubSeq(q, i - b + 1, n) \in Seq(Entry)
    BY <1>1, <2>2, SubSeqType
  <2>4. [raft EXCEPT !.base = i, !.log = SubSeq(@, i - b + 1, Len(@))] \in RaftState
        /\ [raft EXCEPT !.base = i, !.log = SubSeq(@, i - b + 1, Len(@))].base = i
    BY Zenon, <1>1, <2>2, <2>3 DEF RaftState
  <2>5. QED
    BY Zenon, <1>2, <2>1, <2>2, <2>4
<1>9. ASSUME NEW i \in 1..MaxIndex, NEW e \in Contents[i], Replace(i, e)
      PROVE  \E r \in RaftState, events \in SUBSET {"replaced"} : r.base >= raft.base /\ Save(r, events)
  <2>1. /\ MaxOf(b, raft.commit) < i /\ i <= b + n
        /\ Save([raft EXCEPT !.log = Append(SubSeq(@, 1, i - b - 1), e)], {"replaced"})
    BY Zenon, <1>1, <1>9 DEF Replace
  <2>2. i - b - 1 \in Int /\ i - b - 1 <= n
    BY <1>1, <2>1
  <2>3. SubSeq(q, 1, i - b - 1) \in Seq(Entry)
    BY <1>1, <2>2, SubSeqType
  <2>4. Append(SubSeq(q, 1, i - b - 1), e) \in Seq(Entry)
    BY <2>3, ContentIn
  <2>5. [raft EXCEPT !.log = Append(SubSeq(@, 1, i - b - 1), e)] \in RaftState
        /\ [raft EXCEPT !.log = Append(SubSeq(@, 1, i - b - 1), e)].base = b
    BY Zenon, <1>1, <2>4 DEF RaftState
  <2>6. QED
    BY Zenon, <1>2, <1>5, <2>1, <2>5
<1>10. ASSUME NEW i \in 1..MaxIndex, NEW e \in Contents[i], Install(i, e)
       PROVE  \E r \in RaftState, events \in SUBSET {"replaced"} : r.base >= raft.base /\ Save(r, events)
  <2> DEFINE l == IF Has(i, e) THEN SubSeq(q, i - b + 1, n) ELSE <<e>>
  <2>1. b < i /\ Save([base |-> i, commit |-> i, log |-> l], {"replaced"})
    BY Zenon, <1>10 DEF Install
  <2>2. i \in Nat /\ i >= b /\ i - b + 1 \in Int /\ i - b + 1 >= 1 /\ n <= n
    BY <1>1, <2>1, Lengths
  <2>3. l \in Seq(Entry)
    <3>1. SubSeq(q, i - b + 1, n) \in Seq(Entry)
      BY <1>1, <2>2, SubSeqType
    <3>2. <<e>> \in Seq(Entry)
      BY ContentIn
    <3>3. QED
      BY Zenon, <3>1, <3>2
  <2> HIDE DEF l
  <2>4. [base |-> i, commit |-> i, log |-> l] \in RaftState /\ [base |-> i, commit |-> i, log |-> l].base = i
    BY Zenon, <2>2, <2>3 DEF RaftState
  <2>5. QED
    BY Zenon, <1>2, <2>1, <2>2, <2>4
<1>11. QED
  BY Zenon, <1>6, <1>7, <1>8, <1>9, <1>10 DEF RaftStep

-----------------------------------------------------------------------------
(* Starting *)

\* An entry of the log is an entry.
LEMMA WalEntryIn ==
  ASSUME PersisterType, NEW i \in Int, InWal(i)
  PROVE  WalEntry(i) \in Entry
<1> DEFINE q == wal.entries
           k == i - wal.first + 1
<1>1. /\ wal.first \in Nat /\ q \in Seq(Entry) /\ Len(q) \in Nat /\ walLast = wal.first + Len(q) - 1
      /\ WalEntry(i) = q[k] /\ wal.first <= i /\ i <= walLast
  BY Zenon, LastOf DEF PersisterType, walLast, WalEntry, InWal
<1> HIDE DEF q
<1>2. k \in 1..Len(q)
  BY SMT, <1>1
<1> HIDE DEF k
<1>3. q[k] \in Entry
  BY <1>1, <1>2
<1>4. QED
  BY Zenon, <1>1, <1>3

\* What Raft and the checksums start with: the entries of the range of the state file.
LEMMA ReadGives ==
  ASSUME PersisterType, Readable(loadState)
  PROVE  /\ initFromDisk(loadState) \in Seq(Entry \cup {zero})
         /\ loadState.last - loadState.first + 1 <= Len(initFromDisk(loadState))
         /\ ReadRaftState(loadState) \in RaftState /\ ReadRaftState(loadState).base = snapFile
         /\ \A k \in 1..Len(ReadRaftState(loadState).log) :
              /\ loadState.first + k - 1 \in wal.first..walLast
              /\ ReadRaftState(loadState).log[k] = WalEntry(loadState.first + k - 1)
<1> DEFINE st == loadState
           f == st.first
           l == st.last
           n == Cardinality(Range0(st))
           log == [k \in 1..n |-> WalEntry(f + k - 1)]
           m == MaxOf(Sums, l - f + 1)
           sums == [k \in 1..m |-> IF f + k - 1 \in Range0(st) THEN WalEntry(f + k - 1) ELSE zero]
<1>1. /\ st \in IndexState /\ f \in Nat /\ l \in Nat /\ st.commit \in Nat /\ snapFile \in Nat
      /\ wal.first \in Nat /\ walLast \in Nat
  BY Zenon, LoadParts, StateParts, Parts
<1>2. /\ initFromDisk(st) = sums
      /\ ReadRaftState(st) = [log |-> log, base |-> snapFile, commit |-> st.commit]
  BY Zenon DEF initFromDisk, ReadRaftState, Load
<1>3. n \in Nat /\ \A k \in 1..n : f + k - 1 \in Range0(st)
  <2>1. CASE l > 0
    <3>1. Range0(st) = f..l
      BY Zenon, <2>1 DEF Range0
    <3> HIDE DEF f, l, st
    <3>2. f \in Int /\ l \in Int
      BY <1>1
    <3>3. n = IF f > l THEN 0 ELSE l - f + 1
      BY Zenon, <3>1, <3>2, FS_Interval
    <3> HIDE DEF n
    <3>4. n \in Nat /\ \A k \in 1..n : f + k - 1 \in f..l
      BY SMT, <1>1, <3>3
    <3>5. QED
      BY Zenon, <3>1, <3>4
  <2>2. CASE ~(l > 0)
    <3>1. Range0(st) = {}
      BY Zenon, <2>2 DEF Range0
    <3>2. n = 0
      BY Zenon, <3>1, FS_EmptySet
    <3> HIDE DEF n
    <3>3. n \in Nat /\ 1..n = {}
      BY <3>2
    <3>4. QED
      BY Zenon, <3>3
  <2>3. QED
    BY Zenon, <2>1, <2>2
<1>4. \A i \in Range0(st) : i \in Int /\ InWal(i) /\ WalEntry(i) \in Entry
  <2>1. TAKE i \in Range0(st)
  <2>2. i \in f..l
    BY Zenon DEF Range0
  <2>3. i \in Int
    BY <1>1, <2>2
  <2>4. QED
    BY Zenon, <2>3, WalEntryIn DEF Readable
<1> HIDE DEF st, f, l, n
<1>5. m \in Nat /\ l - f + 1 <= m
  BY <1>1, Lengths DEF MaxOf
<1> HIDE DEF m
<1>6. sums \in Seq(Entry \cup {zero}) /\ Len(sums) = m
  <2>1. \A k \in 1..m : (IF f + k - 1 \in Range0(st) THEN WalEntry(f + k - 1) ELSE zero) \in Entry \cup {zero}
    BY Zenon, <1>4
  <2>2. QED
    BY <1>5, <2>1
<1>7. log \in Seq(Entry) /\ Len(log) = n
  <2>1. \A k \in 1..n : WalEntry(f + k - 1) \in Entry
    BY Zenon, <1>3, <1>4
  <2>2. QED
    BY <1>3, <2>1
<1>8. \A k \in 1..n : f + k - 1 \in wal.first..walLast /\ log[k] = WalEntry(f + k - 1)
  <2>1. TAKE k \in 1..n
  <2>2. f + k - 1 \in Int /\ InWal(f + k - 1)
    BY Zenon, <1>3, <1>4
  <2>3. f + k - 1 \in wal.first..walLast
    BY <1>1, <2>2 DEF InWal
  <2>4. QED
    BY Zenon, <2>3
<1> HIDE DEF log, sums
<1>9. /\ ReadRaftState(st).log = log /\ ReadRaftState(st).base = snapFile /\ ReadRaftState(st) \in RaftState
  <2>1. \A c \in Nat : LET r == [log |-> log, base |-> snapFile, commit |-> c]
                      IN  r.log = log /\ r.base = snapFile /\ r \in RaftState
    BY <1>1, <1>7 DEF RaftState
  <2>2. QED
    BY Zenon, <1>1, <1>2, <2>1
<1>10. /\ initFromDisk(st) \in Seq(Entry \cup {zero})
       /\ l - f + 1 <= Len(initFromDisk(st))
       /\ \A k \in 1..Len(ReadRaftState(st).log) :
            f + k - 1 \in wal.first..walLast /\ ReadRaftState(st).log[k] = WalEntry(f + k - 1)
  BY Zenon, <1>2, <1>5, <1>6, <1>7, <1>8, <1>9
<1>11. QED
  BY Zenon, <1>9, <1>10 DEF st, f, l

\* The state file after the start, which creates a missing one.
LEMMA BootFile ==
  ASSUME PersisterType, Boot
  PROVE  /\ stateFile' \in Seq(IndexState) /\ Len(stateFile') <= 1 /\ stateFile' # << >>
         /\ stateFile = << >> => stateFile' = <<Blank>> /\ loadState'.first = 0
         /\ stateFile # << >> => loadState' = loadState
<1>1. stateFile' = IF stateFile = << >> THEN <<Blank>> ELSE stateFile
  BY Zenon DEF Boot
<1>2. CASE stateFile = << >>
  <2>1. Blank \in IndexState /\ Blank.first = 0
    BY DEF Blank, IndexState
  <2>2. saveState(Blank)
    BY Zenon, <1>1, <1>2 DEF saveState
  <2>3. QED
    BY Zenon, <1>2, <2>1, <2>2, LoadSaved
<1>3. CASE stateFile # << >>
  <2>1. UNCHANGED stateFile
    BY Zenon, <1>1, <1>3
  <2>2. QED
    BY Zenon, <1>3, <2>1, SameFile DEF PersisterType
<1>4. QED
  BY Zenon, <1>2, <1>3

\* A node that starts reads files that fit together, unless they were torn apart.
LEMMA BootKeeps ==
  ASSUME PersisterInv, Boot
  PROVE  PersisterInv'
<1>1. /\ phase = "down" /\ Readable(loadState)
      /\ state' = loadState /\ snapshot' = snapFile /\ snapIdx' = 0
      /\ checkSum' = initFromDisk(loadState) /\ raft' = ReadRaftState(loadState)
      /\ entryCh' = << >> /\ holder' = Free /\ item' = NoItem /\ phase' = "run"
      /\ UNCHANGED wal /\ UNCHANGED snapFile /\ UNCHANGED saved /\ UNCHANGED history
  BY Zenon DEF Boot, Load
<1>2. PersisterType /\ Bounds
  BY Zenon DEF PersisterInv
<1>3. /\ stateFile' \in Seq(IndexState) /\ Len(stateFile') <= 1 /\ stateFile' # << >>
      /\ stateFile = << >> => stateFile' = <<Blank>> /\ loadState'.first = 0
      /\ stateFile # << >> => loadState' = loadState
  BY Zenon, <1>2, BootFile
<1>4. /\ loadState \in IndexState /\ loadState.first \in Nat /\ snapFile \in Nat
      /\ loadState.first <= snapFile + 1
      /\ stateFile = << >> => loadState.first = 1 /\ loadState.last = 0
  BY Zenon, <1>2, LoadParts, StateParts DEF Bounds, PersisterType
<1>5. /\ << >> \in Seq(Item) /\ Len(<< >>) <= QueueCap /\ 0 \in Nat /\ 1..Len(<< >>) = {}
      /\ 0 <= snapFile + 1 /\ snapFile <= snapFile
  BY <1>4, Lengths
<1>6. ~AtCut(Free) /\ Free \notin Saving /\ Free # Writer("write")
  BY Zenon, Holders DEF AtCut
<1>7. /\ checkSum' \in Seq(Entry \cup {zero})
      /\ state'.last - state'.first + 1 <= Len(checkSum')
      /\ raft' \in RaftState /\ raft'.base = snapFile
      /\ \A k \in 1..Len(raft'.log) : /\ loadState.first + k - 1 \in wal.first..walLast
                                      /\ raft'.log[k] = WalEntry(loadState.first + k - 1)
  BY Zenon, <1>1, <1>2, ReadGives
<1>8. PersisterType'
  BY Zenon, <1>1, <1>2, <1>3, <1>4, <1>5, <1>7, SameLog DEF PersisterType
<1>9. loadState'.first <= snapFile + 1
  BY Zenon, <1>3, <1>4, <1>5
<1>10. Bounds'
  BY Zenon, <1>1, <1>3, <1>4, <1>5, <1>6, <1>7, <1>9 DEF Bounds
<1>11. ASSUME "torn" \notin history
       PROVE  loadState.last = walLast /\ wal.first <= loadState.first /\ loadState.first = snapFile + 1
  BY Zenon, <1>1, <1>11 DEF PersisterInv, Fits, Names
<1>12. "torn" \notin history' => Fits'
  <2>1. SUFFICES ASSUME "torn" \notin history  PROVE  Fits'
    BY Zenon, <1>1
  <2>2. state'.last = walLast' /\ wal'.first <= state'.first /\ state'.first = snapFile' + 1
    BY Zenon, <1>1, <1>11, <2>1, SameLog
  <2>3. state'.first > 0
    BY SMT, <1>1, <1>4, <2>2
  <2>4. (Agrees \/ Unused)'
    <3>1. CASE stateFile = << >>
      <4>1. snapFile = 0
        BY SMT, <1>4, <1>11, <2>1, <3>1
      <4>2. QED
        BY Zenon, <1>1, <1>3, <3>1, <4>1 DEF Unused
    <3>2. CASE stateFile # << >>
      BY Zenon, <1>1, <1>3, <3>2 DEF Agrees
    <3>3. QED
      BY Zenon, <3>1, <3>2
  <2>5. phase' # "down"
    BY <1>1
  <2>6. QED
    BY Zenon, <1>7, <2>2, <2>3, <2>4, <2>5 DEF Fits, Names
<1>13. Kept'
  <2>1. ASSUME "torn" \notin history, NEW i \in raft'.base + 1..RaftLast(raft')
        PROVE  <<i, raft'.log[i - raft'.base]>> \in saved'
    <3> DEFINE q == raft'.log
               k == i - snapFile
    <3>1. raft'.base = snapFile /\ RaftLast(raft') = snapFile + Len(q) /\ q \in Seq(Entry)
      BY Zenon, <1>7 DEF RaftLast, RaftState
    <3>2. i \in snapFile + 1..snapFile + Len(q) /\ loadState.first = snapFile + 1
      BY Zenon, <1>11, <2>1, <3>1
    <3>3. Len(q) \in Nat
      BY <3>1
    <3> HIDE DEF q
    <3>4. k \in 1..Len(q) /\ loadState.first + k - 1 = i
      BY SMT, <1>4, <3>2, <3>3
    <3> HIDE DEF k
    <3>5. i \in wal.first..walLast /\ q[k] = WalEntry(i)
      BY Zenon, <1>7, <3>4 DEF q
    <3>6. <<i, WalEntry(i)>> \in saved
      BY Zenon, <3>5 DEF PersisterInv, Kept
    <3>7. QED
      BY Zenon, <1>1, <3>1, <3>5, <3>6 DEF q, k
  <2>2. \A i \in wal'.first..walLast' : <<i, WalEntry(i)'>> \in saved'
    BY Zenon, <1>1, SameLog DEF PersisterInv, Kept
  <2>3. \A k \in 1..Len(entryCh') : Given(entryCh[k])'
    BY Zenon, <1>1, <1>5
  <2>4. QED
    BY Zenon, <1>1, <1>6, <2>1, <2>2, <2>3 DEF Kept, RaftLast
<1>14. QED
  BY Zenon, <1>8, <1>10, <1>12, <1>13 DEF PersisterInv

\* A node that was never started has no files.
LEMMA InitInv == Init => PersisterInv
<1> SUFFICES ASSUME Init  PROVE  PersisterInv
  OBVIOUS
<1>1. /\ wal = W!Empty /\ stateFile = << >> /\ snapFile = 0 /\ phase = "down"
      /\ state = loadState /\ snapshot = 0 /\ snapIdx = 0 /\ checkSum = << >>
      /\ entryCh = << >> /\ holder = Free /\ item = NoItem /\ saved = {} /\ history = {}
      /\ raft = [log |-> << >>, base |-> 0, commit |-> 0]
  BY Zenon DEF Init
<1>2. wal \in LogState /\ wal.first = 1 /\ walLast = 0 /\ wal.flushed = 0 /\ wal.first..walLast = {}
  BY <1>1 DEF W!Empty, LogState, walLast, W!Last
<1>3. loadState \in IndexState /\ loadState.first = 1 /\ loadState.last = 0
  BY <1>1 DEF loadState, Blank, IndexState
<1>4. /\ << >> \in Seq(IndexState) /\ << >> \in Seq(Item) /\ << >> \in Seq(Entry \cup {zero})
      /\ Len(stateFile) <= 1 /\ Len(entryCh) <= QueueCap /\ 0 \in Nat /\ 1..Len(entryCh) = {}
  BY <1>1, Lengths
<1>5. raft \in RaftState /\ raft.log = << >> /\ raft.base + 1..RaftLast(raft) = {}
  BY <1>1 DEF RaftState, RaftLast
<1>6. PersisterType
  BY Zenon, <1>1, <1>2, <1>3, <1>4, <1>5 DEF PersisterType
<1>7. phase # "run" /\ 1 <= 0 + 1 /\ 0 + 1 = 1 /\ 1 <= 1
  BY <1>1
<1>8. Bounds
  BY Zenon, <1>1, <1>3, <1>5, <1>7 DEF Bounds, Down
<1>9. Fits
  BY Zenon, <1>1, <1>2, <1>3, <1>7 DEF Fits, Names
<1>10. Kept
  BY Zenon, <1>1, <1>2, <1>4, <1>5, Holders DEF Kept
<1>11. QED
  BY Zenon, <1>6, <1>8, <1>9, <1>10 DEF PersisterInv

-----------------------------------------------------------------------------
(* The theorems *)

\* Every step keeps the invariant.
LEMMA NextKeeps ==
  ASSUME PersisterInv, [Next]_vars
  PROVE  PersisterInv'
<1>1. CASE Boot
  BY Zenon, <1>1, BootKeeps
<1>2. CASE Crash
  BY Zenon, <1>2, CrashKeeps
<1>3. CASE CrashInside
  BY Zenon, <1>3, CrashInsideKeeps
<1>4. CASE RaftStep
  BY Zenon, <1>4, CallIsSave, SaveKeeps
<1>5. CASE Send
  BY Zenon, <1>5, SendKeeps
<1>6. CASE WriterStep
  <2>1. Receive \/ TruncateBack \/ TruncateBackFails \/ TruncateBackPanics \/ NoTruncate => PersisterInv'
    BY Zenon, ReceiveKeeps, TruncateBackKeeps, TruncateBackFailsKeeps, TruncateBackPanicsKeeps,
       NoTruncateKeeps
  <2>2. WriteEntry \/ WriteRefused \/ SaveStateOfWriter => PersisterInv'
    BY Zenon, WriteEntryKeeps, WriteRefusedKeeps, SaveStateOfWriterKeeps
  <2>3. SnapUnchanged("writer") \/ SaveSnap("writer") => PersisterInv'
    BY Zenon, SnapUnchangedKeeps, SaveSnapKeeps
  <2>4. QED
    BY Zenon, <1>6, <2>1, <2>2, <2>3 DEF WriterStep
<1>7. CASE SnapStep
  BY Zenon, <1>7, TruncateFrontKeeps, TruncateFrontFailsKeeps, SaveStateOfSnapKeeps DEF SnapStep
<1>8. CASE ClockStep
  BY Zenon, <1>8, SnapUnchangedKeeps, SaveSnapKeeps DEF ClockStep
<1>9. CASE UNCHANGED vars
  <2>1. UNCHANGED wal /\ UNCHANGED stateFile
    BY <1>9 DEF vars, disk
  <2>2. UNCHANGED <<snapFile, phase, state, snapshot, snapIdx, checkSum, entryCh, holder, item, raft,
                    saved, history>>
    BY <1>9 DEF vars, disk, memory
  <2>3. walLast' = walLast /\ loadState' = loadState /\ \A i : WalEntry(i)' = WalEntry(i)
    BY Zenon, <2>1, SameLog, SameFile
  <2>4. PersisterType'
    BY Zenon, <2>1, <2>2, <2>3 DEF PersisterInv, PersisterType
  <2>5. Bounds'
    BY Zenon, <2>1, <2>2, <2>3 DEF PersisterInv, Bounds, Down
  <2>6. "torn" \notin history' => Fits'
    BY Zenon, <2>1, <2>2, <2>3 DEF PersisterInv, Fits, Names, Agrees, Unused
  <2>7. Kept'
    BY Zenon, <2>1, <2>2, <2>3 DEF PersisterInv, Kept, Given, RaftLast
  <2>8. QED
    BY Zenon, <2>4, <2>5, <2>6, <2>7 DEF PersisterInv
<1>10. QED
  BY Zenon, <1>1, <1>2, <1>3, <1>4, <1>5, <1>6, <1>7, <1>8, <1>9 DEF Next

\* The invariant holds throughout.
LEMMA PersisterInvariant == Spec => []PersisterInv
<1>1. Init => PersisterInv
  BY InitInv
<1>2. PersisterInv /\ [Next]_vars => PersisterInv'
  BY NextKeeps
<1>3. QED
  BY <1>1, <1>2, PTL DEF Spec

\* For any log, queue and checksum array: entries are flushed as they are written,
\* the queue keeps to its capacity, and filter finds the checksum of every stored
\* index unless a write was torn.
THEOREM PersisterTypeCorrect == Spec => []TypeOK
<1>1. PersisterInv => TypeOK
  <2> SUFFICES ASSUME PersisterInv  PROVE  TypeOK
    OBVIOUS
  <2>1. phase = "run" /\ "torn" \notin history => state.last - state.first + 1 <= Len(checkSum)
    BY Zenon DEF PersisterInv, Fits
  <2>2. QED
    BY Zenon, <2>1 DEF PersisterInv, PersisterType, Events, TypeOK
<1>2. QED
  BY <1>1, PersisterInvariant, PTL

\* However Save, saveLogToDisk, saveSnapToDisk and its clock take turns, a crash
\* outside the writes that belong together leaves log, state file and snapshot files
\* that initFromDisk and ReadRaftState can read, the range in the state file following
\* the snapshot.  Whether QuickApply then finds the entries up to commitIndex is not said.
THEOREM StartReadsHolds == Spec => []StartReads
<1>1. PersisterInv => StartReads
  <2> SUFFICES ASSUME PersisterInv, phase = "run", holder.who \notin {"writer", "clock"},
                      "torn" \notin history
               PROVE  Readable(loadState) /\ (stateFile # <<Blank>> => Load = loadState.first - 1)
    BY Zenon DEF StartReads
  <2>1. PersisterType /\ Fits
    BY Zenon DEF PersisterInv
  <2>2. Quiet(holder) /\ holder # Writer("write") /\ ~AtCut(holder)
    BY Zenon, <2>1, Holders DEF PersisterType, Quiet, AtCut
  <2>3. /\ state.last = walLast /\ wal.first <= state.first /\ state.first > 0
        /\ state.first = snapFile + 1 /\ (Agrees \/ Unused)
    BY Zenon, <2>1, <2>2 DEF Fits, Names
  <2>4. /\ snapFile \in Nat /\ wal.first \in Nat /\ walLast \in Nat /\ state.first \in Nat
        /\ loadState \in IndexState
    BY Zenon, <2>1, Parts, LoadParts
  <2>5. CASE Agrees
    <3>1. loadState.first = state.first /\ loadState.last = walLast
      BY Zenon, <2>2, <2>3, <2>5 DEF Agrees
    <3>2. snapFile = loadState.first - 1
      BY SMT, <2>3, <2>4, <3>1
    <3>3. \A i \in state.first..walLast : i > 0 /\ wal.first <= i /\ i <= walLast
      BY SMT, <2>3, <2>4
    <3>4. Readable(loadState)
      BY Zenon, <3>1, <3>3 DEF Readable, Range0, InWal
    <3>5. QED
      BY Zenon, <3>2, <3>4 DEF Load
  <2>6. CASE Unused
    <3>1. stateFile = <<Blank>>
      BY Zenon, <2>6 DEF Unused
    <3>2. loadState.last = 0
      BY <3>1 DEF loadState, Blank
    <3>3. Range0(loadState) = {}
      BY <3>2 DEF Range0
    <3>4. QED
      BY Zenon, <3>1, <3>3 DEF Readable
  <2>7. QED
    BY Zenon, <2>3, <2>5, <2>6
<1>2. QED
  BY <1>1, PersisterInvariant, PTL

\* No entry is ever stored at an index at which Raft did not have it, not even after
\* a torn write; and no start gives Raft one, unless a write was torn.
THEOREM StoredWasSavedHolds == Spec => []StoredWasSaved
<1>1. PersisterInv => StoredWasSaved
  BY Zenon DEF PersisterInv, Kept, StoredWasSaved
<1>2. QED
  BY <1>1, PersisterInvariant, PTL
=============================================================================
