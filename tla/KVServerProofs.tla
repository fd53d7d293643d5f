--------------------------- MODULE KVServerProofs ---------------------------
(***************************************************************************)
(* Proofs about module KVServer, for any servers, requests, elections and  *)
(* capacities: an acknowledged write is committed; and while the log has   *)
(* the requests of each clerk once and in order, replicas agree, and a     *)
(* read with an index that covers what is committed sees the writes that   *)
(* were acknowledged before it was sent.                                   *)
(***************************************************************************)
EXTENDS KVServer, OrderLemmas

Response == [clerk : Nat, id : Nat, value : Seq(Nat),
             err : {"OK", "NoKey", "LeaderChanged", "HandleTimeout", "none"}]
Reads == {o \in sent : ~IsWrite(o)}
Writes == {o \in sent : IsWrite(o)}

Queue(S) == {q \in [Server -> Seq(S)] : \A s \in Server : Len(q[s]) <= QueueCap}

\* The log and the queues hold requests that clerks sent: the log writes, readQue
\* and the hand of handleReadQue reads.
RaftTyped ==
  /\ log \in Seq([op : Writes, term : Nat]) /\ commit \in Nat /\ commit <= Len(log)
  /\ term \in Nat /\ sterm \in [Server -> Nat]
  /\ leader \in Server \cup {"none"} /\ believes \subseteq Server
  /\ commitIndex \in [Server -> Nat] /\ lastApplied \in [Server -> Nat]
  /\ \A s \in Server : lastApplied[s] <= commitIndex[s] /\ commitIndex[s] <= commit
QueuesTyped ==
  /\ processQue \in Queue(sent) /\ readQue \in Queue(Reads)
  /\ sendQueues \in Queue(Response) /\ answers \subseteq Response
TablesTyped ==
  /\ db \in [Server -> Seq(Nat)]
  /\ DOMAIN incrMapLogIdx = Server /\ DOMAIN history = Server
HandsTyped ==
  /\ started \in [Server -> {<< >>} \cup (Writes \X Nat)]
  /\ readOp \in [Server -> {<< >>} \cup [{1} -> [op : Reads, idx : Int]]]
ClientsTyped ==
  /\ sent \subseteq Op /\ inexact \subseteq Nat
  /\ DOMAIN ackedBefore = {o.id : o \in Op}
Typed == RaftTyped /\ QueuesTyped /\ TablesTyped /\ HandsTyped /\ ClientsTyped

\* What is committed stays so.
Committed(w) == \E i \in 1..commit : log[i].op.id = w

\* The value that a read returns has every write acknowledged before it was sent.
Seen(r) ==
  \E n \in 0..commit :
    /\ r.value = Value(n)
    /\ \A w \in ackedBefore[r.id] \cap Written : \E i \in 1..n : log[i].op.id = w

\* What every response owes, from the moment it is in a queue.
Good(r) ==
  /\ r.err = "OK" /\ r.id \in Written => Committed(r.id)
  /\ r = NoResp \/ \E o \in sent : o.id = r.id
  /\ Ascending /\ r.id \notin Written \cup inexact /\ r.err \in {"OK", "NoKey"} => Seen(r)
Responses == answers \cup UNION {Range(sendQueues[s]) : s \in Server}
Promised == \A r \in Responses : Good(r)

\* The history of a server has answers to entries that it has applied.
Recorded ==
  \A s \in Server : \A c \in DOMAIN history[s] :
    /\ history[s][c] \in Response
    /\ \E i \in 1..lastApplied[s] : /\ log[i].op.clerk = c
                                    /\ log[i].op.id = history[s][c].id

\* The index that handleReadQue has fixed for a read covers the writes that were
\* acknowledged before the read was sent.
Covers(s, o) ==
  /\ o \in sent
  /\ o.id \notin inexact =>
       /\ incrMapLogIdx[s][o.id] \in 0..commit
       /\ \A w \in ackedBefore[o.id] \cap Written :
            \E i \in 1..incrMapLogIdx[s][o.id] : log[i].op.id = w
IndexSound ==
  \A s \in Server, o \in Op : ~IsWrite(o) /\ o.id \in DOMAIN incrMapLogIdx[s] => Covers(s, o)

\* What was acknowledged before a read was sent is committed.
AckedSound == \A id \in DOMAIN ackedBefore : \A w \in ackedBefore[id] \cap Written : Committed(w)

\* While no request is in the log twice, the value of a server is that of the entries
\* it has applied.
Replayed == Ascending => \A s \in Server : db[s] = Value(lastApplied[s])

KVInv == Typed /\ Promised /\ Recorded /\ IndexSound /\ AckedSound /\ Replayed

-----------------------------------------------------------------------------
(* The value after the first entries of a log *)

Step(l, f, k) == IF k = 0 THEN << >> ELSE DBExecute(l[k].op, f[k - 1])
Run(l, n, f) == f = [k \in 0..n |-> Step(l, f, k)]
SameFirst(l, m, n) == \A i \in 1..n : l[i] = m[i]

\* The entries of a log can be executed one after the other, up to any.
LEMMA RunExists ==
  ASSUME NEW l, NEW n \in Nat
  PROVE  \E f : Run(l, n, f)
<1> DEFINE S == {k \in Nat : ~\E f : Run(l, k, f)}
<1>1. SUFFICES ASSUME S # {} PROVE FALSE
  BY Zenon
<1>2. PICK m \in S : \A k \in S : m <= k
  <2>1. S \in SUBSET Nat
    BY Zenon
  <2> HIDE DEF S
  <2>2. QED
    BY Zenon, <1>1, <2>1, LeastNat
<1>3. m # 0
  <2> DEFINE f == [k \in 0..0 |-> << >>]
  <2>1. f = [k \in 0..0 |-> Step(l, f, k)]
    BY DEF Step
  <2>2. Run(l, 0, f)
    BY Zenon, <2>1 DEF Run
  <2>3. QED
    BY Zenon, <2>2
<1>4. m - 1 \in Nat /\ ~(m <= m - 1)
  BY <1>3
<1>5. PICK g : Run(l, m - 1, g)
  BY Zenon, <1>2, <1>4
<1> DEFINE f == [k \in 0..m |-> IF k = m THEN DBExecute(l[m].op, g[m - 1]) ELSE g[k]]
<1>6. ASSUME NEW k \in 0..m PROVE f[k] = Step(l, f, k)
  <2>1. CASE k = m
    <3>1. f[k - 1] = g[m - 1]
      BY <1>4, <2>1
    <3>2. QED
      BY <1>3, <2>1, <3>1 DEF Step
  <2>2. CASE k # m
    <3>1. k \in 0..m - 1
      BY <2>2
    <3>2. g[k] = Step(l, g, k)
      BY Zenon, <1>5, <3>1 DEF Run
    <3>3. k # 0 => f[k - 1] = g[k - 1]
      BY <1>4, <2>2
    <3>4. f[k] = g[k]
      BY <2>2
    <3>5. QED
      BY Zenon, <3>2, <3>3, <3>4 DEF Step
  <2>3. QED
    BY Zenon, <2>1, <2>2
<1>7. f = [k \in 0..m |-> Step(l, f, k)]
  <2> DEFINE h == [k \in 0..m |-> Step(l, f, k)]
  <2>1. \A k \in 0..m : f[k] = h[k]
    BY Zenon, <1>6
  <2>2. QED
    BY Zenon, <2>1
<1>8. Run(l, m, f)
  BY Zenon, <1>7 DEF Run
<1>9. QED
  BY Zenon, <1>2, <1>8

\* Two logs with the same first entries execute alike.
LEMMA RunAgree ==
  ASSUME NEW l, NEW m, NEW n \in Nat, NEW p \in Nat, n <= p, NEW f, NEW g,
         SameFirst(l, m, n), Run(l, n, f), Run(m, p, g)
  PROVE  f[n] = g[n]
<1> DEFINE S == {k \in 0..n : f[k] # g[k]}
<1>1. SUFFICES ASSUME S # {} PROVE FALSE
  OBVIOUS
<1>2. PICK j \in S : \A k \in S : j <= k
  <2>1. S \in SUBSET Nat
    OBVIOUS
  <2> HIDE DEF S
  <2>2. QED
    BY Zenon, <1>1, <2>1, LeastNat
<1>3. j \in 0..n /\ j \in 0..p
  OBVIOUS
<1>4. f[j] = Step(l, f, j) /\ g[j] = Step(m, g, j)
  BY Zenon, <1>3 DEF Run
<1>5. j # 0
  BY Zenon, <1>2, <1>4 DEF Step
<1>6. j - 1 \in 0..n /\ ~(j <= j - 1) /\ j \in 1..n
  BY <1>5
<1>7. f[j - 1] = g[j - 1]
  BY Zenon, <1>2, <1>6
<1>8. l[j] = m[j]
  BY Zenon, <1>6 DEF SameFirst
<1>9. QED
  BY Zenon, <1>2, <1>4, <1>7, <1>8 DEF Step

\* What After is.
LEMMA AfterRun ==
  ASSUME NEW l, NEW n \in Nat
  PROVE  \E f : Run(l, n, f) /\ After(l, n) = f[n]
<1> DEFINE value == CHOOSE f : f = [k \in 0..n |-> Step(l, f, k)]
<1>1. value = [k \in 0..n |-> Step(l, value, k)]
  BY Zenon, RunExists DEF Run
<1>2. After(l, n) = value[n]
  BY Zenon DEF After, Step
<1>3. QED
  BY Zenon, <1>1, <1>2 DEF Run

\* Before the first entry the key has no value.
LEMMA AfterZero ==
  ASSUME NEW l
  PROVE  After(l, 0) = << >>
<1>1. PICK f : Run(l, 0, f) /\ After(l, 0) = f[0]
  BY AfterRun
<1>2. 0 \in 0..0
  OBVIOUS
<1>3. QED
  BY Zenon, <1>1, <1>2 DEF Run, Step

\* One more entry is executed on the value before it.
LEMMA AfterNext ==
  ASSUME NEW l, NEW n \in Nat
  PROVE  After(l, n + 1) = DBExecute(l[n + 1].op, After(l, n))
<1>1. n + 1 \in Nat /\ n <= n + 1 /\ n + 1 \in 0..n + 1 /\ n + 1 # 0 /\ n + 1 - 1 = n
  OBVIOUS
<1>2. PICK f : Run(l, n, f) /\ After(l, n) = f[n]
  BY Zenon, AfterRun
<1>3. PICK g : Run(l, n + 1, g) /\ After(l, n + 1) = g[n + 1]
  BY Zenon, <1>1, AfterRun
<1>4. f[n] = g[n]
  <2>1. SameFirst(l, l, n)
    BY Zenon DEF SameFirst
  <2>2. QED
    BY <1>1, <1>2, <1>3, <2>1, RunAgree
<1>5. g[n + 1] = Step(l, g, n + 1)
  BY Zenon, <1>1, <1>3 DEF Run
<1>6. g[n + 1] = DBExecute(l[n + 1].op, g[n])
  BY <1>1, <1>5 DEF Step
<1>7. QED
  BY Zenon, <1>2, <1>3, <1>4, <1>6

\* The value depends on the entries executed and on no other.
LEMMA AfterSame ==
  ASSUME NEW l, NEW m, NEW n \in Nat, SameFirst(l, m, n)
  PROVE  After(l, n) = After(m, n)
<1>1. PICK f : Run(l, n, f) /\ After(l, n) = f[n]
  BY Zenon, AfterRun
<1>2. PICK g : Run(m, n, g) /\ After(m, n) = g[n]
  BY Zenon, AfterRun
<1>3. n <= n
  OBVIOUS
<1>4. QED
  BY <1>1, <1>2, <1>3, RunAgree

-----------------------------------------------------------------------------
(* What no step takes back *)

\* What is committed stays, requests stay sent, and what a request owes does not
\* grow after it was sent.
Onward ==
  /\ commit <= commit' /\ commit' \in Nat /\ SameFirst(log', log, commit)
  /\ sent \subseteq sent' /\ inexact \subseteq inexact'
  /\ \A o \in sent : ackedBefore'[o.id] = ackedBefore[o.id]

\* A prefix of what is committed is the prefix of any later log.
LEMMA PrefixKept ==
  ASSUME Typed, Onward, NEW n \in 0..commit
  PROVE  /\ n \in Nat /\ n \in 0..commit' /\ SameFirst(log', log, n)
         /\ \A i \in 1..n : i \in 1..commit' /\ log'[i] = log[i]
BY DEF Typed, RaftTyped, Onward, SameFirst

\* A committed request stays committed.
LEMMA CommittedKept ==
  ASSUME Typed, Onward, NEW w, Committed(w)
  PROVE  Committed(w)'
<1>1. commit \in 0..commit
  BY DEF Typed, RaftTyped
<1>2. QED
  BY Zenon, <1>1, PrefixKept DEF Committed

\* A log whose requests are in order has been so before.
LEMMA AscendingKept ==
  ASSUME Typed, Onward, Ascending'
  PROVE  Ascending
<1>1. commit \in 0..commit
  BY DEF Typed, RaftTyped
<1>2. \A i \in 1..commit : i \in 1..commit' /\ log'[i] = log[i]
  BY Zenon, <1>1, PrefixKept
<1>3. QED
  BY Zenon, <1>2 DEF Ascending

\* The value after committed entries does not change.
LEMMA ValueKept ==
  ASSUME Typed, Onward, NEW n \in 0..commit
  PROVE  Value(n)' = Value(n)
BY Zenon, PrefixKept, AfterSame DEF Value

\* A read that has seen what it owes has done so for good.
LEMMA SeenKept ==
  ASSUME Typed, Onward, NEW r, Seen(r), \E o \in sent : o.id = r.id
  PROVE  Seen(r)'
<1>1. PICK n \in 0..commit :
        /\ r.value = Value(n)
        /\ \A w \in ackedBefore[r.id] \cap Written : \E i \in 1..n : log[i].op.id = w
  BY Zenon DEF Seen
<1>2. n \in 0..commit' /\ \A i \in 1..n : log'[i] = log[i]
  BY Zenon, PrefixKept
<1>3. r.value = Value(n)'
  BY Zenon, <1>1, ValueKept
<1>4. ackedBefore'[r.id] = ackedBefore[r.id]
  <2>1. PICK o \in sent : o.id = r.id
    OBVIOUS
  <2>2. ackedBefore'[o.id] = ackedBefore[o.id]
    BY Zenon DEF Onward
  <2>3. QED
    BY Zenon, <2>1, <2>2
<1>5. \A w \in ackedBefore'[r.id] \cap Written : \E i \in 1..n : log'[i].op.id = w
  BY Zenon, <1>1, <1>2, <1>4
<1>6. QED
  BY Zenon, <1>2, <1>3, <1>5 DEF Seen

\* What a response promises is kept.
LEMMA GoodKept ==
  ASSUME Typed, Onward, NEW r, Good(r)
  PROVE  Good(r)'
<1>1. r.err = "OK" /\ r.id \in Written => Committed(r.id)'
  BY Zenon, CommittedKept DEF Good
<1>2. r = NoResp \/ \E o \in sent' : o.id = r.id
  BY Zenon DEF Good, Onward
<1>3. ASSUME Ascending', r.id \notin Written \cup inexact', r.err \in {"OK", "NoKey"}
      PROVE  Seen(r)'
  <2>1. Ascending /\ r.id \notin Written \cup inexact
    BY Zenon, <1>3, AscendingKept DEF Onward
  <2>2. Seen(r)
    BY Zenon, <1>3, <2>1 DEF Good
  <2>3. r # NoResp
    BY <1>3 DEF NoResp
  <2>4. QED
    BY Zenon, <2>2, <2>3, SeenKept DEF Good
<1>4. QED
  BY Zenon, <1>1, <1>2, <1>3 DEF Good

-----------------------------------------------------------------------------
(* Queues, requests and responses *)

\* A queue that had room holds what it held and the element pushed.
LEMMA Pushed ==
  ASSUME NEW S, NEW q \in Queue(S), NEW s \in Server, NEW x \in S, Room(q[s])
  PROVE  /\ Push(q, s, x) \in Queue(S)
         /\ \A t \in Server : Range(Push(q, s, x)[t]) \subseteq Range(q[t]) \cup {x}
<1>1. q[s] \in Seq(S) /\ q \in [Server -> Seq(S)]
  BY Zenon DEF Queue
<1>2. Append(q[s], x) \in Seq(S) /\ Len(Append(q[s], x)) = Len(q[s]) + 1
  BY Zenon, <1>1, Appended
<1>3. Len(q[s]) + 1 <= QueueCap
  <2>1. Len(q[s]) \in Nat /\ QueueCap \in Nat
    BY <1>1, KVServerAssumption
  <2>2. QED
    BY <2>1 DEF Room
<1>4. Push(q, s, x) \in [Server -> Seq(S)]
  BY Zenon, <1>1, <1>2 DEF Push
<1>5. \A t \in Server : Push(q, s, x)[t] = IF t = s THEN Append(q[s], x) ELSE q[t]
  BY Zenon, <1>1 DEF Push
<1>6. \A t \in Server : Len(Push(q, s, x)[t]) <= QueueCap
  BY Zenon, <1>2, <1>3, <1>5 DEF Queue
<1>7. Range(Append(q[s], x)) \subseteq Range(q[s]) \cup {x}
  <2>1. ASSUME NEW k \in 1..Len(Append(q[s], x))
        PROVE  Append(q[s], x)[k] \in {q[s][i] : i \in 1..Len(q[s])} \cup {x}
    BY Zenon, <1>1, Appended
  <2>2. DOMAIN q[s] = 1..Len(q[s]) /\ DOMAIN Append(q[s], x) = 1..Len(Append(q[s], x))
    BY Zenon, <1>1, <1>2, LenProperties
  <2>3. QED
    BY Zenon, <2>1, <2>2 DEF Range
<1>8. \A t \in Server : Range(Push(q, s, x)[t]) \subseteq Range(q[t]) \cup {x}
  BY Zenon, <1>5, <1>7
<1>9. QED
  BY Zenon, <1>4, <1>6, <1>8 DEF Queue

\* A queue of which the first element was taken holds nothing new.
LEMMA Popped ==
  ASSUME NEW S, NEW q \in Queue(S), NEW s \in Server, q[s] # << >>
  PROVE  /\ Pop(q, s) \in Queue(S) /\ Head(q[s]) \in S /\ Head(q[s]) \in Range(q[s])
         /\ \A t \in Server : Range(Pop(q, s)[t]) \subseteq Range(q[t])
<1>1. q[s] \in Seq(S) /\ q \in [Server -> Seq(S)] /\ Len(q[s]) <= QueueCap
  BY Zenon DEF Queue
<1>2. /\ Tail(q[s]) \in Seq(S) /\ Len(Tail(q[s])) = Len(q[s]) - 1
      /\ Head(q[s]) \in S /\ Head(q[s]) = q[s][1] /\ 1 \in 1..Len(q[s])
  BY Zenon, <1>1, TakenOff
<1>3. Len(q[s]) - 1 <= QueueCap
  <2>1. Len(q[s]) \in Nat /\ QueueCap \in Nat
    BY <1>1, KVServerAssumption
  <2>2. QED
    BY <1>1, <2>1
<1>4. Pop(q, s) \in [Server -> Seq(S)]
  BY Zenon, <1>1, <1>2 DEF Pop
<1>5. \A t \in Server : Pop(q, s)[t] = IF t = s THEN Tail(q[s]) ELSE q[t]
  BY Zenon, <1>1 DEF Pop
<1>6. \A t \in Server : Len(Pop(q, s)[t]) <= QueueCap
  BY Zenon, <1>2, <1>3, <1>5 DEF Queue
<1>7. DOMAIN q[s] = 1..Len(q[s]) /\ DOMAIN Tail(q[s]) = 1..Len(Tail(q[s]))
  BY Zenon, <1>1, <1>2, LenProperties
<1>8. Range(Tail(q[s])) \subseteq Range(q[s])
  <2>1. ASSUME NEW k \in 1..Len(Tail(q[s])) PROVE Tail(q[s])[k] \in {q[s][i] : i \in 1..Len(q[s])}
    BY SMT, <1>1, TakenOff
  <2>2. QED
    BY Zenon, <1>7, <2>1 DEF Range
<1>9. \A t \in Server : Range(Pop(q, s)[t]) \subseteq Range(q[t])
  BY Zenon, <1>5, <1>8
<1>10. Head(q[s]) \in Range(q[s])
  BY Zenon, <1>2, <1>7 DEF Range
<1>11. QED
  BY Zenon, <1>2, <1>4, <1>6, <1>9, <1>10 DEF Queue

\* The parts of a request, and what tells a read from a write.
LEMMA OpParts ==
  ASSUME NEW o \in Op
  PROVE  /\ o.clerk \in Nat /\ o.id \in Nat /\ o.id # 0
         /\ IsWrite(o) => o.id \in Written
         /\ ~IsWrite(o) => o.id \notin Written
<1>1. o.clerk \in Nat /\ o.id \in Nat /\ o.id # 0
  BY KVServerAssumption
<1>2. IsWrite(o) => o.id \in Written
  BY Zenon DEF Written
<1>3. ASSUME o.id \in Written PROVE IsWrite(o)
  <2>1. PICK w \in Op : IsWrite(w) /\ w.id = o.id
    BY Zenon, <1>3 DEF Written
  <2>2. w = o
    BY Zenon, <2>1, KVServerAssumption
  <2>3. QED
    BY Zenon, <2>1, <2>2
<1>4. QED
  BY Zenon, <1>1, <1>2, <1>3

\* The parts of a response.
LEMMA RespParts ==
  ASSUME NEW o \in Op, NEW v \in Seq(Nat),
         NEW err \in {"OK", "NoKey", "LeaderChanged", "HandleTimeout"}
  PROVE  /\ OpToResp(o, err, v) \in Response
         /\ OpToResp(o, err, v).id = o.id /\ OpToResp(o, err, v).err = err
         /\ OpToResp(o, err, v).value = v
<1>1. o.clerk \in Nat /\ o.id \in Nat
  BY Zenon, OpParts
<1>2. QED
  BY <1>1 DEF OpToResp, Response

\* The same for an empty value.
LEMMA EmptyParts ==
  ASSUME NEW o \in Op, NEW err \in {"OK", "NoKey", "LeaderChanged", "HandleTimeout"}
  PROVE  /\ OpToResp(o, err, << >>) \in Response
         /\ OpToResp(o, err, << >>).id = o.id /\ OpToResp(o, err, << >>).err = err
<1>0. << >> \in Seq(Nat)
  OBVIOUS
<1>1. PICK v \in Seq(Nat) : v = << >>
  BY Zenon, <1>0
<1>2. /\ OpToResp(o, err, v) \in Response
      /\ OpToResp(o, err, v).id = o.id /\ OpToResp(o, err, v).err = err
  BY SMT, RespParts
<1>3. QED
  BY Zenon, <1>1, <1>2

\* A response without content.
LEMMA NoRespParts == NoResp \in Response /\ NoResp.id = 0 /\ NoResp.err = "none"
<1>1. << >> \in Seq(Nat)
  OBVIOUS
<1>2. QED
  BY <1>1 DEF NoResp, Response

\* It promises nothing.
LEMMA NoRespGood == Good(NoResp)
BY NoRespParts DEF Good

\* An error promises nothing either, except that the request was sent.
LEMMA ErrorGood ==
  ASSUME Typed, NEW o \in sent, NEW err \in {"LeaderChanged", "HandleTimeout"}
  PROVE  /\ OpToResp(o, err, << >>) \in Response
         /\ Good(OpToResp(o, err, << >>))
<1>1. /\ o \in Op /\ << >> \in Seq(Nat)
      /\ err \in {"OK", "NoKey", "LeaderChanged", "HandleTimeout"}
  BY DEF Typed, ClientsTyped
<1>2. /\ OpToResp(o, err, << >>) \in Response
      /\ OpToResp(o, err, << >>).id = o.id /\ OpToResp(o, err, << >>).err = err
  BY Zenon, <1>1, EmptyParts
<1>3. err # "OK" /\ err # "NoKey"
  OBVIOUS
<1>4. QED
  BY Zenon, <1>2, <1>3 DEF Good

\* An entry of the log that is committed.
LEMMA EntryParts ==
  ASSUME Typed, NEW i \in 1..commit
  PROVE  /\ log[i].op \in sent /\ log[i].op \in Op /\ IsWrite(log[i].op)
         /\ Committed(log[i].op.id)
<1>1. i \in 1..Len(log)
  <2>1. commit \in Nat /\ Len(log) \in Nat /\ commit <= Len(log)
    BY Zenon, LenProperties DEF Typed, RaftTyped
  <2>2. QED
    BY <2>1
<1>2. log[i] \in [op : Writes, term : Nat]
  BY Zenon, <1>1, ElementOfSeq DEF Typed, RaftTyped
<1>3. log[i].op \in Writes
  BY Zenon, <1>2
<1>4. QED
  BY Zenon, <1>3 DEF Writes, Typed, ClientsTyped, Committed

\* The answer to a committed write.
LEMMA AckGood ==
  ASSUME Typed, NEW i \in 1..commit, NEW r, r.id = log[i].op.id
  PROVE  Good(r)
<1>1. log[i].op \in sent /\ Committed(r.id) /\ r.id \in Written
  BY Zenon, EntryParts, OpParts
<1>2. QED
  BY Zenon, <1>1 DEF Good

\* What a server has applied is committed.
LEMMA AppliedParts ==
  ASSUME Typed, NEW s \in Server
  PROVE  /\ lastApplied[s] \in 0..commit /\ lastApplied[s] + 1 \in Nat
         /\ \A i \in 1..lastApplied[s] : i \in 1..commit
BY DEF Typed, RaftTyped

\* An answer of the history.
LEMMA HistoryGood ==
  ASSUME Typed, Recorded, NEW s \in Server, NEW c \in DOMAIN history[s]
  PROVE  history[s][c] \in Response /\ Good(history[s][c])
<1>1. PICK i \in 1..lastApplied[s] : log[i].op.id = history[s][c].id
  BY Zenon DEF Recorded
<1>2. i \in 1..commit
  BY Zenon, AppliedParts
<1>3. QED
  BY Zenon, <1>1, <1>2, AckGood DEF Recorded

-----------------------------------------------------------------------------
(* The parts of the invariant over a step *)

\* Responses that are new must be good when they are made.
LEMMA PromisedStep ==
  ASSUME Typed, Onward, Promised, \A r \in Responses' : r \in Responses \/ Good(r)
  PROVE  Promised'
<1>1. ASSUME NEW r \in Responses' PROVE Good(r)'
  <2>1. Good(r)
    BY Zenon DEF Promised
  <2>2. QED
    BY Zenon, <2>1, GoodKept
<1>2. QED
  BY Zenon, <1>1 DEF Promised

\* One response is sent, or none.
LEMMA ResponsesPush ==
  ASSUME Typed, NEW s \in Server, NEW x \in Response, Room(sendQueues[s]), Good(x),
         sendQueues' = Push(sendQueues, s, x), answers' = answers
  PROVE  sendQueues' \in Queue(Response) /\ \A r \in Responses' : r \in Responses \/ Good(r)
<1>1. sendQueues \in Queue(Response)
  BY Zenon DEF Typed, QueuesTyped
<1>2. /\ sendQueues' \in Queue(Response)
      /\ \A t \in Server : Range(sendQueues'[t]) \subseteq Range(sendQueues[t]) \cup {x}
  BY Zenon, <1>1, Pushed
<1>3. QED
  BY Zenon, <1>2 DEF Responses

LEMMA ResponsesSame ==
  ASSUME UNCHANGED <<sendQueues, answers>>
  PROVE  \A r \in Responses' : r \in Responses \/ Good(r)
BY Zenon DEF Responses

\* A history that does not change refers to entries that do not change.
LEMMA RecordedStep ==
  ASSUME Typed, Onward, Recorded, UNCHANGED <<history, lastApplied>>
  PROVE  Recorded'
<1>1. ASSUME NEW s \in Server, NEW c \in DOMAIN history[s]
      PROVE  \E i \in 1..lastApplied[s] : /\ log'[i].op.clerk = c
                                          /\ log'[i].op.id = history[s][c].id
  <2>1. \A i \in 1..lastApplied[s] : log'[i] = log[i]
    BY Zenon, AppliedParts, PrefixKept
  <2>2. PICK i \in 1..lastApplied[s] : log[i].op.clerk = c /\ log[i].op.id = history[s][c].id
    BY Zenon DEF Recorded
  <2>3. log'[i].op.clerk = c /\ log'[i].op.id = history[s][c].id
    BY <2>1, <2>2
  <2>4. QED
    BY Zenon, <2>3
<1>2. history' = history /\ lastApplied' = lastApplied
  OBVIOUS
<1>3. \A s \in Server : \A c \in DOMAIN history[s] : history[s][c] \in Response
  BY Zenon DEF Recorded
<1>4. QED
  BY <1>1, <1>2, <1>3 DEF Recorded

\* An index that covers what was acknowledged goes on to do so.
LEMMA CoversKept ==
  ASSUME Typed, Onward, NEW s \in Server, NEW o, Covers(s, o),
         incrMapLogIdx'[s][o.id] = incrMapLogIdx[s][o.id]
  PROVE  Covers(s, o)'
<1>1. ASSUME o.id \notin inexact' PROVE
        /\ incrMapLogIdx'[s][o.id] \in 0..commit'
        /\ \A w \in ackedBefore'[o.id] \cap Written :
             \E i \in 1..incrMapLogIdx'[s][o.id] : log'[i].op.id = w
  <2> DEFINE n == incrMapLogIdx[s][o.id]
  <2>1. /\ n \in 0..commit /\ ackedBefore'[o.id] = ackedBefore[o.id]
        /\ \A w \in ackedBefore[o.id] \cap Written : \E i \in 1..n : log[i].op.id = w
    BY Zenon, <1>1 DEF Covers, Onward
  <2>2. n \in 0..commit' /\ \A i \in 1..n : log'[i] = log[i]
    BY Zenon, <2>1, PrefixKept
  <2>3. QED
    BY Zenon, <2>1, <2>2
<1>2. o \in sent'
  BY Zenon DEF Covers, Onward
<1>3. QED
  BY Zenon, <1>1, <1>2 DEF Covers

\* What is in the table after a step was there before.
Kept(t, x) == x \in DOMAIN incrMapLogIdx[t] /\ incrMapLogIdx'[t][x] = incrMapLogIdx[t][x]

\* The table of indices changes for a read only where the new index covers.
LEMMA IndexStep ==
  ASSUME Typed, Onward, IndexSound,
         \A s \in Server, o \in Op : ~IsWrite(o) /\ o.id \in DOMAIN incrMapLogIdx'[s] =>
           Kept(s, o.id) \/ Covers(s, o)'
  PROVE  IndexSound'
<1>1. ASSUME NEW s \in Server, NEW o \in Op, ~IsWrite(o), o.id \in DOMAIN incrMapLogIdx'[s]
      PROVE  Covers(s, o)'
  <2>1. CASE Kept(s, o.id)
    <3>1. Covers(s, o)
      BY Zenon, <1>1, <2>1 DEF IndexSound, Kept
    <3>2. QED
      BY Zenon, <2>1, <3>1, CoversKept DEF Kept
  <2>2. QED
    BY Zenon, <1>1, <2>1
<1>2. QED
  BY Zenon, <1>1 DEF IndexSound

LEMMA IndexSame ==
  ASSUME Typed, Onward, IndexSound, UNCHANGED incrMapLogIdx
  PROVE  IndexSound'
BY Zenon, IndexStep DEF Kept

LEMMA AckedStep ==
  ASSUME Typed, Onward, AckedSound, UNCHANGED ackedBefore
  PROVE  AckedSound'
BY Zenon, CommittedKept DEF AckedSound

\* A server that applies nothing keeps the value of what it has applied.
LEMMA ReplayedStep ==
  ASSUME Typed, Onward, Replayed, UNCHANGED <<db, lastApplied>>
  PROVE  Replayed'
<1>1. ASSUME Ascending', NEW s \in Server PROVE db[s] = Value(lastApplied[s])'
  <2>1. Ascending
    BY Zenon, <1>1, AscendingKept
  <2>2. PICK n : n = lastApplied[s]
    BY Zenon
  <2>3. n \in 0..commit
    BY Zenon, <2>2, AppliedParts
  <2>4. Value(n)' = Value(n)
    BY Zenon, <2>3, ValueKept
  <2>5. db[s] = Value(n)
    BY Zenon, <2>1, <2>2 DEF Replayed
  <2>6. QED
    BY Zenon, <2>2, <2>4, <2>5 DEF Value
<1>2. QED
  BY Zenon, <1>1 DEF Replayed, Value

\* A step that does not touch the log, what is committed and what was sent.
LEMMA OnwardCalm ==
  ASSUME Typed, UNCHANGED <<log, commit, sent, inexact, ackedBefore>>
  PROVE  Onward
<1>1. commit \in Nat /\ commit <= commit
  BY DEF Typed, RaftTyped
<1>2. /\ log' = log /\ commit' = commit /\ sent' = sent /\ inexact' = inexact
      /\ ackedBefore' = ackedBefore
  OBVIOUS
<1>3. QED
  BY Zenon, <1>1, <1>2 DEF Onward, SameFirst

\* A step that leaves the tables alone and makes good responses only.
LEMMA RestInv ==
  ASSUME KVInv, Typed', Onward, UNCHANGED tables, UNCHANGED ackedBefore,
         \A r \in Responses' : r \in Responses \/ Good(r)
  PROVE  KVInv'
<1>1. /\ Typed /\ Promised /\ Recorded /\ IndexSound /\ AckedSound /\ Replayed
  BY Zenon DEF KVInv
<1>2. /\ UNCHANGED <<history, lastApplied>> /\ UNCHANGED incrMapLogIdx
      /\ UNCHANGED <<db, lastApplied>>
  BY DEF tables
<1>3. Promised' /\ AckedSound'
  BY Zenon, <1>1, PromisedStep, AckedStep
<1>4. Recorded' /\ IndexSound' /\ Replayed'
  BY Zenon, <1>1, <1>2, RecordedStep, IndexSame, ReplayedStep
<1>5. QED
  BY Zenon, <1>3, <1>4 DEF KVInv

\* Such a step of a goroutine.
LEMMA CalmInv ==
  ASSUME KVInv, UNCHANGED <<raftVars, tables, sent, inexact, ackedBefore>>,
         QueuesTyped', HandsTyped', \A r \in Responses' : r \in Responses \/ Good(r)
  PROVE  KVInv'
<1>1. Typed
  BY Zenon DEF KVInv
<1>2. /\ UNCHANGED <<log, commit, sent, inexact, ackedBefore>> /\ UNCHANGED ackedBefore
      /\ UNCHANGED tables
  BY DEF raftVars
<1>3. Onward
  BY Zenon, <1>1, <1>2, OnwardCalm
<1>4. /\ log' = log /\ commit' = commit /\ term' = term /\ leader' = leader
      /\ believes' = believes /\ sterm' = sterm /\ commitIndex' = commitIndex
      /\ db' = db /\ incrMapLogIdx' = incrMapLogIdx /\ history' = history
      /\ lastApplied' = lastApplied
      /\ sent' = sent /\ inexact' = inexact /\ ackedBefore' = ackedBefore
  BY DEF raftVars, tables
<1>5. RaftTyped' /\ TablesTyped' /\ ClientsTyped'
  <2>1. RaftTyped'
    BY Zenon, <1>1, <1>4 DEF Typed, RaftTyped, Writes
  <2>2. TablesTyped' /\ ClientsTyped'
    BY Zenon, <1>1, <1>4 DEF Typed, TablesTyped, ClientsTyped
  <2>3. QED
    BY Zenon, <2>1, <2>2
<1>6. Typed'
  BY Zenon, <1>5 DEF Typed
<1>7. QED
  BY Zenon, <1>2, <1>3, <1>6, RestInv

-----------------------------------------------------------------------------
(* handleOpQue *)

\* The request that handleOpQue takes, and the queue without it.
LEMMA TakenParts ==
  ASSUME Typed, NEW s \in Server, processQue[s] # << >>
  PROVE  Pop(processQue, s) \in Queue(sent) /\ Head(processQue[s]) \in sent
BY Zenon, Popped DEF Typed, QueuesTyped

LEMMA RepeatInv ==
  ASSUME KVInv, NEW s \in Server, Repeat(s)
  PROVE  KVInv'
<1> DEFINE o == Head(processQue[s])
           x == history[s][o.clerk]
<1>1. Typed /\ Recorded
  BY Zenon DEF KVInv
<1>2. /\ processQue[s] # << >> /\ Known(s, o) /\ Room(sendQueues[s])
      /\ sendQueues' = Push(sendQueues, s, x) /\ processQue' = Pop(processQue, s)
      /\ readQue' = readQue /\ answers' = answers /\ sent' = sent
      /\ started' = started /\ readOp' = readOp
      /\ UNCHANGED <<raftVars, tables, sent, inexact, ackedBefore>>
  BY DEF Repeat, Taken, clients
<1>3. x \in Response /\ Good(x)
  BY Zenon, <1>1, <1>2, HistoryGood DEF Known
<1>4. sendQueues' \in Queue(Response) /\ \A r \in Responses' : r \in Responses \/ Good(r)
  BY Zenon, <1>1, <1>2, <1>3, ResponsesPush
<1>5. QueuesTyped' /\ HandsTyped'
  BY Zenon, <1>1, <1>2, <1>4, TakenParts DEF Typed, QueuesTyped, HandsTyped, Reads, Writes
<1>6. QED
  BY Zenon, <1>2, <1>4, <1>5, CalmInv

LEMMA QueueReadInv ==
  ASSUME KVInv, NEW s \in Server, QueueRead(s)
  PROVE  KVInv'
<1> DEFINE o == Head(processQue[s])
<1>1. Typed
  BY Zenon DEF KVInv
<1>2. /\ processQue[s] # << >> /\ Room(readQue[s]) /\ ~IsWrite(o)
      /\ readQue' = Push(readQue, s, o) /\ processQue' = Pop(processQue, s)
      /\ sendQueues' = sendQueues /\ answers' = answers /\ sent' = sent
      /\ started' = started /\ readOp' = readOp /\ UNCHANGED <<sendQueues, answers>>
      /\ UNCHANGED <<raftVars, tables, sent, inexact, ackedBefore>>
  BY DEF QueueRead, Taken, clients
<1>3. o \in Reads
  BY Zenon, <1>1, <1>2, TakenParts DEF Reads
<1>4. readQue' \in Queue(Reads)
  BY Zenon, <1>1, <1>2, <1>3, Pushed DEF Typed, QueuesTyped
<1>5. QueuesTyped' /\ HandsTyped'
  BY Zenon, <1>1, <1>2, <1>4, TakenParts DEF Typed, QueuesTyped, HandsTyped, Reads, Writes
<1>6. QED
  BY Zenon, <1>2, <1>5, ResponsesSame, CalmInv

LEMMA NotLeaderInv ==
  ASSUME KVInv, NEW s \in Server, NotLeader(s)
  PROVE  KVInv'
<1> DEFINE o == Head(processQue[s])
           x == OpToResp(o, "LeaderChanged", << >>)
<1>1. Typed
  BY Zenon DEF KVInv
<1>2. /\ processQue[s] # << >> /\ Room(sendQueues[s])
      /\ sendQueues' = Push(sendQueues, s, x) /\ processQue' = Pop(processQue, s)
      /\ readQue' = readQue /\ answers' = answers /\ sent' = sent
      /\ started' = started /\ readOp' = readOp
      /\ UNCHANGED <<raftVars, tables, sent, inexact, ackedBefore>>
  BY DEF NotLeader, Taken, clients
<1>3. x \in Response /\ Good(x)
  <2>1. o \in sent
    BY Zenon, <1>1, <1>2, TakenParts
  <2>2. QED
    BY Zenon, <1>1, <2>1, ErrorGood
<1>4. sendQueues' \in Queue(Response) /\ \A r \in Responses' : r \in Responses \/ Good(r)
  BY Zenon, <1>1, <1>2, <1>3, ResponsesPush
<1>5. QueuesTyped' /\ HandsTyped'
  BY Zenon, <1>1, <1>2, <1>4, TakenParts DEF Typed, QueuesTyped, HandsTyped, Reads, Writes
<1>6. QED
  BY Zenon, <1>2, <1>4, <1>5, CalmInv

\* The log has one more write, or is the same.
LEMMA StartInv ==
  ASSUME KVInv, NEW s \in Server, Start(s)
  PROVE  KVInv'
<1> DEFINE o == Head(processQue[s])
           E == [op : Writes, term : Nat]
           e == [op |-> o, term |-> term]
<1>1. Typed
  BY Zenon DEF KVInv
<1>2. /\ processQue[s] # << >> /\ IsWrite(o) /\ processQue' = Pop(processQue, s)
      /\ log' = IF s = leader THEN Append(log, e) ELSE log
      /\ started' = [started EXCEPT ![s] = <<o, sterm[s]>>]
      /\ commit' = commit /\ term' = term /\ leader' = leader /\ believes' = believes
      /\ sterm' = sterm /\ commitIndex' = commitIndex /\ lastApplied' = lastApplied
      /\ sendQueues' = sendQueues /\ readQue' = readQue /\ answers' = answers /\ sent' = sent
      /\ inexact' = inexact /\ ackedBefore' = ackedBefore /\ readOp' = readOp
      /\ db' = db /\ incrMapLogIdx' = incrMapLogIdx /\ history' = history
      /\ UNCHANGED <<sendQueues, answers>> /\ UNCHANGED tables /\ UNCHANGED ackedBefore
  BY DEF Start, Taken, clients, tables
<1>3. o \in Writes /\ Pop(processQue, s) \in Queue(sent)
  BY Zenon, <1>1, <1>2, TakenParts DEF Writes
<1>4. e \in E /\ log \in Seq(E) /\ commit \in Nat /\ commit <= Len(log)
  BY <1>1, <1>3 DEF Typed, RaftTyped
<1>5. /\ log' \in Seq(E) /\ commit <= Len(log')
      /\ \A i \in 1..commit : log'[i] = log[i]
  <2> HIDE DEF E, e
  <2>1. CASE s = leader
    BY <1>2, <1>4, <2>1, AppendProperties
  <2>2. CASE s # leader
    BY Zenon, <1>2, <1>4, <2>2
  <2>3. QED
    BY Zenon, <2>1, <2>2
<1>6. Onward
  <2>1. commit <= commit
    BY <1>4
  <2>2. QED
    BY Zenon, <1>2, <1>4, <1>5, <2>1 DEF Onward, SameFirst
<1>7. <<o, sterm[s]>> \in Writes \X Nat
  BY Zenon, <1>1, <1>3 DEF Typed, RaftTyped
<1>8. RaftTyped'
  BY Zenon, <1>1, <1>2, <1>5 DEF Typed, RaftTyped, Writes
<1>9. HandsTyped'
  BY Zenon, <1>1, <1>2, <1>7 DEF Typed, HandsTyped, Writes, Reads
<1>10. QueuesTyped' /\ TablesTyped' /\ ClientsTyped'
  BY Zenon, <1>1, <1>2, <1>3 DEF Typed, QueuesTyped, TablesTyped, ClientsTyped, Reads
<1>11. Typed'
  BY Zenon, <1>8, <1>9, <1>10 DEF Typed
<1>12. QED
  BY Zenon, <1>2, <1>6, <1>11, ResponsesSame, RestInv

\* The other entries of the table are kept when one is written or deleted.
TablePut(s, k, v) == incrMapLogIdx' = [incrMapLogIdx EXCEPT ![s] = Put(@, k, v)]
TableDelete(s, k) == incrMapLogIdx' = [incrMapLogIdx EXCEPT ![s] = Delete(@, k)]

LEMMA PutOther ==
  ASSUME NEW s \in Server, DOMAIN incrMapLogIdx = Server, NEW k, NEW v, TablePut(s, k, v)
  PROVE  \A t \in Server : \A x \in DOMAIN incrMapLogIdx'[t] : (t = s /\ x = k) \/ Kept(t, x)
<1> USE DEF Kept, TablePut, TableDelete
<1> SUFFICES ASSUME NEW t \in Server, NEW x \in DOMAIN incrMapLogIdx'[t], t # s \/ x # k
             PROVE  Kept(t, x)
  BY Zenon
<1>1. CASE t = s
  <2>1. incrMapLogIdx'[t] = Put(incrMapLogIdx[t], k, v)
    BY Zenon, <1>1
  <2>2. QED
    BY Zenon, <1>1, <2>1 DEF Put
<1>2. CASE t # s
  BY Zenon, <1>2
<1>3. QED
  BY Zenon, <1>1, <1>2

LEMMA DeleteOther ==
  ASSUME NEW s \in Server, DOMAIN incrMapLogIdx = Server, NEW k, TableDelete(s, k)
  PROVE  \A t \in Server : \A x \in DOMAIN incrMapLogIdx'[t] : Kept(t, x)
<1> USE DEF Kept, TablePut, TableDelete
<1> SUFFICES ASSUME NEW t \in Server, NEW x \in DOMAIN incrMapLogIdx'[t]
             PROVE  Kept(t, x)
  BY Zenon
<1>1. CASE t = s
  <2>1. incrMapLogIdx'[t] = Delete(incrMapLogIdx[t], k)
    BY Zenon, <1>1
  <2>2. QED
    BY Zenon, <2>1 DEF Delete
<1>2. CASE t # s
  BY Zenon, <1>2
<1>3. QED
  BY Zenon, <1>1, <1>2

\* A step that changes the table of indices, for a read only to one that covers.
LEMMA IndexInv ==
  ASSUME KVInv, Typed', Onward, UNCHANGED <<history, db, lastApplied, ackedBefore>>,
         \A r \in Responses' : r \in Responses \/ Good(r),
         \A s \in Server, o \in Op : ~IsWrite(o) /\ o.id \in DOMAIN incrMapLogIdx'[s] =>
           Kept(s, o.id) \/ Covers(s, o)'
  PROVE  KVInv'
<1>1. Typed /\ Promised /\ Recorded /\ IndexSound /\ AckedSound /\ Replayed
  BY Zenon DEF KVInv
<1>2. /\ UNCHANGED <<history, lastApplied>> /\ UNCHANGED ackedBefore
      /\ UNCHANGED <<db, lastApplied>>
  OBVIOUS
<1>3. Promised' /\ AckedSound' /\ Recorded' /\ Replayed'
  BY Zenon, <1>1, <1>2, PromisedStep, AckedStep, RecordedStep, ReplayedStep
<1>4. IndexSound'
  BY Zenon, <1>1, IndexStep
<1>5. QED
  BY Zenon, <1>3, <1>4 DEF KVInv

\* The term of a write is recorded under its id, which is no id of a read.
LEMMA RegisterInv ==
  ASSUME KVInv, NEW s \in Server, Register(s)
  PROVE  KVInv'
<1> DEFINE w == started[s][1].id
<1>1. Typed
  BY Zenon DEF KVInv
<1>2. /\ started[s] # << >> /\ started' = [started EXCEPT ![s] = << >>]
      /\ TablePut(s, w, started[s][2])
      /\ processQue' = processQue /\ sendQueues' = sendQueues /\ readQue' = readQue
      /\ answers' = answers /\ sent' = sent /\ inexact' = inexact /\ ackedBefore' = ackedBefore
      /\ readOp' = readOp /\ db' = db /\ history' = history /\ lastApplied' = lastApplied
      /\ UNCHANGED raftVars
      /\ UNCHANGED <<history, db, lastApplied, ackedBefore>> /\ UNCHANGED <<sendQueues, answers>>
      /\ UNCHANGED <<log, commit, sent, inexact, ackedBefore>>
  BY DEF Register, queues, clients, raftVars, TablePut
<1>3. w \in Written
  <2>1. started[s] \in Writes \X Nat
    BY Zenon, <1>1, <1>2 DEF Typed, HandsTyped
  <2>2. started[s][1] \in Writes
    BY <2>1
  <2>3. QED
    BY Zenon, <1>1, <2>2, OpParts DEF Writes, Typed, ClientsTyped
<1>4. ASSUME NEW t \in Server, NEW o \in Op, ~IsWrite(o), o.id \in DOMAIN incrMapLogIdx'[t]
      PROVE  Kept(t, o.id)
  <2>1. o.id # w
    BY Zenon, <1>3, <1>4, OpParts
  <2>2. DOMAIN incrMapLogIdx = Server
    BY Zenon, <1>1 DEF Typed, TablesTyped
  <2>3. \A x \in DOMAIN incrMapLogIdx'[t] : (t = s /\ x = w) \/ Kept(t, x)
    BY SMT, <1>2, <2>2, PutOther
  <2>4. QED
    BY Zenon, <1>4, <2>1, <2>3
<1>5. DOMAIN incrMapLogIdx' = Server
  BY Zenon, <1>1, <1>2 DEF Typed, TablesTyped, TablePut
<1>6. HandsTyped'
  BY Zenon, <1>1, <1>2 DEF Typed, HandsTyped, Writes, Reads
<1>7. RaftTyped'
  BY Zenon, <1>1, <1>2 DEF Typed, RaftTyped, Writes, raftVars
<1>8. QueuesTyped' /\ TablesTyped' /\ ClientsTyped'
  BY Zenon, <1>1, <1>2, <1>5 DEF Typed, QueuesTyped, TablesTyped, ClientsTyped, Reads
<1>9. Typed'
  BY Zenon, <1>6, <1>7, <1>8 DEF Typed
<1>10. Onward
  BY Zenon, <1>1, <1>2, OnwardCalm
<1>11. QED
  BY Zenon, <1>2, <1>4, <1>9, <1>10, ResponsesSame, IndexInv

-----------------------------------------------------------------------------
(* handleReadQue *)

Hand == [{1} -> [op : Reads, idx : Int]]

\* The read in the hand of handleReadQue.
LEMMA HandParts ==
  ASSUME Typed, NEW s \in Server, readOp[s] # << >>
  PROVE  /\ readOp[s] \in Hand /\ readOp[s][1].op \in sent /\ readOp[s][1].op \in Op
         /\ ~IsWrite(readOp[s][1].op) /\ readOp[s][1].idx \in Int
<1>1. readOp[s] \in Hand
  BY Zenon DEF Typed, HandsTyped, Hand
<1>2. readOp[s][1].op \in Reads /\ readOp[s][1].idx \in Int
  BY <1>1 DEF Hand
<1>3. QED
  BY Zenon, <1>1, <1>2 DEF Reads, Typed, ClientsTyped

\* The read put down, and the read with another index.
LEMMA HandDown ==
  ASSUME Typed, NEW s \in Server, sent' = sent, started' = started,
         readOp' = [readOp EXCEPT ![s] = << >>]
  PROVE  HandsTyped'
BY Zenon DEF Typed, HandsTyped, Writes, Reads

LEMMA HandIndex ==
  ASSUME Typed, NEW s \in Server, NEW i \in Int, sent' = sent, started' = started,
         readOp[s] # << >>, readOp' = [readOp EXCEPT ![s][1].idx = i]
  PROVE  HandsTyped'
<1>1. readOp[s] \in [{1} -> [op : Reads, idx : Int]]
  BY Zenon, HandParts DEF Hand
<1>2. [readOp[s] EXCEPT ![1].idx = i] \in [{1} -> [op : Reads, idx : Int]]
  BY <1>1
<1>3. readOp' = [readOp EXCEPT ![s] = [readOp[s] EXCEPT ![1].idx = i]]
  BY Zenon
<1>4. QED
  BY Zenon, <1>2, <1>3 DEF Typed, HandsTyped, Writes, Reads

LEMMA TakeReadInv ==
  ASSUME KVInv, NEW s \in Server, TakeRead(s)
  PROVE  KVInv'
<1> DEFINE o == Head(readQue[s])
<1>1. Typed
  BY Zenon DEF KVInv
<1>2. /\ readQue[s] # << >> /\ readQue' = Pop(readQue, s)
      /\ readOp' = [readOp EXCEPT ![s] = <<[op |-> o, idx |-> NoIndex]>>]
      /\ processQue' = processQue /\ sendQueues' = sendQueues /\ answers' = answers
      /\ sent' = sent /\ started' = started /\ UNCHANGED <<sendQueues, answers>>
      /\ UNCHANGED <<raftVars, tables, sent, inexact, ackedBefore>>
  BY DEF TakeRead, clients
<1>3. readQue' \in Queue(Reads) /\ o \in Reads
  BY Zenon, <1>1, <1>2, Popped DEF Typed, QueuesTyped
<1>4. <<[op |-> o, idx |-> NoIndex]>> \in [{1} -> [op : Reads, idx : Int]]
  <2>1. [op |-> o, idx |-> NoIndex] \in [op : Reads, idx : Int]
    BY <1>3 DEF NoIndex
  <2>2. QED
    BY <2>1
<1>5. HandsTyped'
  BY Zenon, <1>1, <1>2, <1>4 DEF Typed, HandsTyped, Writes, Reads
<1>6. QueuesTyped'
  BY Zenon, <1>1, <1>2, <1>3 DEF Typed, QueuesTyped, Reads
<1>7. QED
  BY Zenon, <1>2, <1>5, <1>6, ResponsesSame, CalmInv

LEMMA GetStateInv ==
  ASSUME KVInv, NEW s \in Server, GetState(s)
  PROVE  KVInv'
<1>1. Typed
  BY Zenon DEF KVInv
<1>2. /\ readOp[s] # << >> /\ readOp' = [readOp EXCEPT ![s][1].idx = commitIndex[s]]
      /\ processQue' = processQue /\ sendQueues' = sendQueues /\ answers' = answers
      /\ readQue' = readQue
      /\ sent' = sent /\ started' = started /\ UNCHANGED <<sendQueues, answers>>
      /\ UNCHANGED <<raftVars, tables, sent, inexact, ackedBefore>>
  BY DEF GetState, Reading, clients, queues
<1>3. commitIndex[s] \in Int
  BY <1>1 DEF Typed, RaftTyped
<1>4. HandsTyped'
  BY Zenon, <1>1, <1>2, <1>3, HandIndex
<1>5. QueuesTyped'
  BY Zenon, <1>1, <1>2 DEF Typed, QueuesTyped, Reads
<1>6. QED
  BY Zenon, <1>2, <1>4, <1>5, ResponsesSame, CalmInv

LEMMA FailReadInv ==
  ASSUME KVInv, NEW s \in Server, NEW err \in {"LeaderChanged", "HandleTimeout"},
         Reading(s), FailRead(s, err)
  PROVE  KVInv'
<1> DEFINE x == OpToResp(readOp[s][1].op, err, << >>)
<1>1. Typed
  BY Zenon DEF KVInv
<1>2. /\ readOp[s] # << >> /\ Room(sendQueues[s]) /\ readOp' = [readOp EXCEPT ![s] = << >>]
      /\ sendQueues' = Push(sendQueues, s, x)
      /\ processQue' = processQue /\ answers' = answers /\ readQue' = readQue
      /\ sent' = sent /\ started' = started
      /\ UNCHANGED <<raftVars, tables, sent, inexact, ackedBefore>>
  BY DEF FailRead, Reading, clients
<1>3. x \in Response /\ Good(x)
  <2>1. readOp[s][1].op \in sent
    BY Zenon, <1>1, <1>2, HandParts
  <2>2. QED
    BY Zenon, <1>1, <2>1, ErrorGood
<1>4. sendQueues' \in Queue(Response) /\ \A r \in Responses' : r \in Responses \/ Good(r)
  BY Zenon, <1>1, <1>2, <1>3, ResponsesPush
<1>5. HandsTyped'
  BY Zenon, <1>1, <1>2, HandDown
<1>6. QueuesTyped'
  BY Zenon, <1>1, <1>2, <1>4 DEF Typed, QueuesTyped, Reads
<1>7. QED
  BY Zenon, <1>2, <1>4, <1>5, <1>6, CalmInv

LEMMA SendRetryInv ==
  ASSUME KVInv, NEW s \in Server, NEW l \in Server, SendRetry(s, l)
  PROVE  KVInv'
<1>1. Typed
  BY Zenon DEF KVInv
<1>2. /\ readOp' = readOp /\ started' = started /\ sent' = sent
      /\ processQue' = processQue /\ sendQueues' = sendQueues /\ readQue' = readQue
      /\ answers' = answers /\ UNCHANGED <<sendQueues, answers>>
      /\ UNCHANGED <<raftVars, tables, sent, inexact, ackedBefore>>
  BY DEF SendRetry, clients, queues
<1>3. QueuesTyped' /\ HandsTyped'
  BY Zenon, <1>1, <1>2 DEF Typed, QueuesTyped, HandsTyped, Writes, Reads
<1>4. QED
  BY Zenon, <1>2, <1>3, ResponsesSame, CalmInv

\* An index that is all that is committed covers every write acknowledged so far.
LEMMA RecordIndexInv ==
  ASSUME KVInv, NEW s \in Server, NEW l \in Server, NEW idx \in Int, Reading(s),
         RecordIndex(s, l, idx)
  PROVE  KVInv'
<1>1. Typed /\ AckedSound
  BY Zenon DEF KVInv
<1>2. PICK o : o = readOp[s][1].op
  BY Zenon
<1>3. /\ readOp[s] # << >> /\ TablePut(s, o.id, idx)
      /\ readOp' = [readOp EXCEPT ![s][1].idx = NoIndex]
      /\ sterm' = [sterm EXCEPT ![s] = IF sterm[l] > @ THEN sterm[l] ELSE @]
      /\ inexact' = IF idx = commit THEN inexact ELSE inexact \cup {o.id}
      /\ log' = log /\ commit' = commit /\ term' = term /\ leader' = leader
      /\ believes' = believes /\ commitIndex' = commitIndex /\ lastApplied' = lastApplied
      /\ processQue' = processQue /\ sendQueues' = sendQueues /\ readQue' = readQue
      /\ answers' = answers /\ sent' = sent /\ ackedBefore' = ackedBefore
      /\ started' = started /\ db' = db /\ history' = history
      /\ UNCHANGED <<history, db, lastApplied, ackedBefore>> /\ UNCHANGED <<sendQueues, answers>>
  BY <1>2 DEF RecordIndex, Reading, queues, TablePut
<1>4. o \in sent /\ o \in Op /\ ~IsWrite(o) /\ o.id \in Nat
  BY Zenon, <1>1, <1>2, <1>3, HandParts, OpParts
<1>5. inexact \subseteq inexact' /\ inexact' \subseteq Nat
  BY Zenon, <1>1, <1>3, <1>4 DEF Typed, ClientsTyped
<1>6. Onward
  <2>1. commit \in Nat /\ commit <= commit
    BY <1>1 DEF Typed, RaftTyped
  <2>2. QED
    BY Zenon, <1>3, <1>5, <2>1 DEF Onward, SameFirst
<1>7. DOMAIN incrMapLogIdx = Server /\ DOMAIN incrMapLogIdx' = Server
  BY Zenon, <1>1, <1>3 DEF Typed, TablesTyped, TablePut
<1>8. Covers(s, o)'
  <2>1. ASSUME o.id \notin inexact' PROVE
          /\ incrMapLogIdx'[s][o.id] \in 0..commit'
          /\ \A w \in ackedBefore'[o.id] \cap Written :
               \E i \in 1..incrMapLogIdx'[s][o.id] : log'[i].op.id = w
    <3>1. idx = commit
      BY Zenon, <1>3, <2>1
    <3>2. incrMapLogIdx'[s][o.id] = idx
      <4>1. incrMapLogIdx'[s] = Put(incrMapLogIdx[s], o.id, idx)
        BY Zenon, <1>3, <1>7 DEF TablePut
      <4>2. QED
        BY Zenon, <4>1 DEF Put
    <3>3. commit \in 0..commit
      BY <1>1 DEF Typed, RaftTyped
    <3>4. o.id \in DOMAIN ackedBefore
      BY Zenon, <1>1, <1>4 DEF Typed, ClientsTyped
    <3>5. \A w \in ackedBefore[o.id] \cap Written : \E i \in 1..commit : log[i].op.id = w
      BY Zenon, <1>1, <3>4 DEF AckedSound, Committed
    <3>6. QED
      BY Zenon, <1>3, <3>1, <3>2, <3>3, <3>5
  <2>2. QED
    BY Zenon, <1>3, <1>4, <2>1 DEF Covers
<1>9. ASSUME NEW t \in Server, NEW p \in Op, ~IsWrite(p), p.id \in DOMAIN incrMapLogIdx'[t]
      PROVE  Kept(t, p.id) \/ Covers(t, p)'
  <2>1. CASE t = s /\ p.id = o.id
    <3>1. p = o
      BY Zenon, <1>4, <2>1, KVServerAssumption
    <3>2. QED
      BY Zenon, <1>8, <2>1, <3>1
  <2>2. CASE ~(t = s /\ p.id = o.id)
    <3>1. \A x \in DOMAIN incrMapLogIdx'[t] : (t = s /\ x = o.id) \/ Kept(t, x)
      BY Zenon, <1>3, <1>7, PutOther
    <3>2. QED
      BY Zenon, <1>9, <2>2, <3>1
  <2>3. QED
    BY Zenon, <2>1, <2>2
<1>10. HandsTyped'
  <2>1. NoIndex \in Int
    BY DEF NoIndex
  <2>2. QED
    BY Zenon, <1>1, <1>3, <2>1, HandIndex
<1>11. RaftTyped'
  <2>1. sterm' \in [Server -> Nat]
    BY Zenon, <1>1, <1>3 DEF Typed, RaftTyped
  <2>2. QED
    BY Zenon, <1>1, <1>3, <2>1 DEF Typed, RaftTyped, Writes
<1>12. QueuesTyped' /\ TablesTyped' /\ ClientsTyped'
  BY Zenon, <1>1, <1>3, <1>5, <1>7 DEF Typed, QueuesTyped, TablesTyped, ClientsTyped, Reads
<1>13. Typed'
  BY Zenon, <1>10, <1>11, <1>12 DEF Typed
<1>14. QED
  BY Zenon, <1>3, <1>6, <1>9, <1>13, ResponsesSame, IndexInv

\* A read is executed on the value of the entries applied, among which are those that
\* its index covers.
LEMMA ExecuteReadInv ==
  ASSUME KVInv, NEW s \in Server, ExecuteRead(s)
  PROVE  KVInv'
<1>1. Typed /\ IndexSound /\ Replayed
  BY Zenon DEF KVInv
<1>2. PICK o : o = readOp[s][1].op
  BY Zenon
<1> DEFINE x == DBRead(o, db[s])
<1>3. /\ readOp[s] # << >> /\ o.id \in DOMAIN incrMapLogIdx[s] /\ Room(sendQueues[s])
      /\ Due(s, o) /\ sendQueues' = Push(sendQueues, s, x)
      /\ TableDelete(s, o.id) /\ readOp' = [readOp EXCEPT ![s] = << >>]
      /\ processQue' = processQue /\ readQue' = readQue /\ answers' = answers /\ sent' = sent
      /\ inexact' = inexact /\ ackedBefore' = ackedBefore
      /\ started' = started /\ db' = db /\ history' = history /\ lastApplied' = lastApplied
      /\ UNCHANGED raftVars /\ UNCHANGED <<history, db, lastApplied, ackedBefore>>
      /\ UNCHANGED <<log, commit, sent, inexact, ackedBefore>>
  BY <1>2 DEF ExecuteRead, Reading, clients, raftVars, TableDelete
<1>4. o \in sent /\ o \in Op /\ ~IsWrite(o) /\ o.id \notin Written
  BY Zenon, <1>1, <1>2, <1>3, HandParts, OpParts
<1>5. db[s] \in Seq(Nat)
  BY Zenon, <1>1 DEF Typed, TablesTyped
<1>6. x \in Response /\ x.id = o.id /\ x.value = db[s]
  <2>1. CASE db[s] = << >>
    BY Zenon, <1>4, <1>5, <2>1, RespParts DEF DBRead
  <2>2. CASE db[s] # << >>
    BY <1>4, <1>5, <2>2, RespParts DEF DBRead
  <2>3. QED
    BY Zenon, <2>1, <2>2
<1>7. ASSUME Ascending, o.id \notin inexact PROVE Seen(x)
  <2>1. PICK n : n = lastApplied[s]
    BY Zenon
  <2>2. n \in 0..commit
    BY Zenon, <1>1, <2>1, AppliedParts
  <2>3. db[s] = Value(n)
    BY Zenon, <1>1, <1>7, <2>1 DEF Replayed
  <2>4. PICK i : i = incrMapLogIdx[s][o.id]
    BY Zenon
  <2>5. /\ i \in 0..commit /\ i <= n
        /\ \A w \in ackedBefore[o.id] \cap Written : \E j \in 1..i : log[j].op.id = w
    <3>1. Covers(s, o)
      BY Zenon, <1>1, <1>3, <1>4 DEF IndexSound
    <3>2. i <= n
      BY Zenon, <1>3, <2>1, <2>4 DEF Due
    <3>3. QED
      BY Zenon, <1>7, <2>4, <3>1, <3>2 DEF Covers
  <2>6. \A j \in 1..i : j \in 1..n
    BY <2>2, <2>5
  <2>7. \A w \in ackedBefore[o.id] \cap Written : \E j \in 1..n : log[j].op.id = w
    BY Zenon, <2>5, <2>6
  <2>8. QED
    BY Zenon, <1>6, <2>2, <2>3, <2>7 DEF Seen
<1>8. Good(x)
  BY Zenon, <1>4, <1>6, <1>7 DEF Good
<1>9. sendQueues' \in Queue(Response) /\ \A r \in Responses' : r \in Responses \/ Good(r)
  BY Zenon, <1>1, <1>3, <1>6, <1>8, ResponsesPush
<1>10. DOMAIN incrMapLogIdx = Server /\ DOMAIN incrMapLogIdx' = Server
  BY Zenon, <1>1, <1>3 DEF Typed, TablesTyped, TableDelete
<1>11. \A t \in Server : \A k \in DOMAIN incrMapLogIdx'[t] : Kept(t, k)
  BY Zenon, <1>3, <1>10, DeleteOther
<1>12. RaftTyped'
  BY Zenon, <1>1, <1>3 DEF Typed, RaftTyped, Writes, raftVars
<1>13. HandsTyped'
  BY Zenon, <1>1, <1>3, HandDown
<1>14. QueuesTyped' /\ TablesTyped' /\ ClientsTyped'
  BY Zenon, <1>1, <1>3, <1>9, <1>10 DEF Typed, QueuesTyped, TablesTyped, ClientsTyped, Reads
<1>15. Typed'
  BY Zenon, <1>12, <1>13, <1>14 DEF Typed
<1>16. Onward
  BY Zenon, <1>1, <1>3, OnwardCalm
<1>17. QED
  BY Zenon, <1>3, <1>9, <1>11, <1>15, <1>16, IndexInv

-----------------------------------------------------------------------------
(* ApplyHandler *)

\* While no request is in the log twice, every entry is executed: the history has
\* none but earlier requests of the clerk.
LEMMA NeededAlways ==
  ASSUME Typed, Recorded, Ascending, NEW s \in Server, NEW n \in 1..commit,
         n = lastApplied[s] + 1
  PROVE  Needed(s, log[n].op)
<1>1. PICK c : c = log[n].op.clerk
  BY Zenon
<1>2. ASSUME c \in DOMAIN history[s] PROVE history[s][c].id < log[n].op.id
  <2>1. PICK i \in 1..lastApplied[s] : log[i].op.clerk = c /\ log[i].op.id = history[s][c].id
    BY Zenon, <1>2 DEF Recorded
  <2>2. i \in 1..commit /\ i < n
    <3>1. lastApplied[s] \in Nat /\ i \in 1..commit
      BY Zenon, AppliedParts DEF Typed, RaftTyped
    <3>2. QED
      BY <3>1
  <2>3. log[i].op.id < log[n].op.id
    BY Zenon, <1>1, <2>1, <2>2 DEF Ascending
  <2>4. QED
    BY Zenon, <2>1, <2>3
<1>3. QED
  BY Zenon, <1>1, <1>2 DEF Needed

\* What ApplyHandler sends: the answer to the entry, or nothing of use.
LEMMA AnswerGood ==
  ASSUME Typed, NEW s \in Server, NEW n \in 1..commit
  PROVE  /\ Answer(s, log[n].op, log[n].term) \in Response
         /\ Good(Answer(s, log[n].op, log[n].term))
         /\ Answer(s, log[n].op, log[n].term).id \in {0, log[n].op.id}
         /\ Needed(s, log[n].op) => Answer(s, log[n].op, log[n].term).id = log[n].op.id
<1>1. PICK o, t : o = log[n].op /\ t = log[n].term
  BY Zenon
<1>2. PICK r : r = Answer(s, o, t)
  BY Zenon
<1>3. o \in Op
  BY Zenon, <1>1, EntryParts
<1>4. CASE Known(s, o) \/ Needed(s, o)
  <2>1. PICK err \in {"OK", "LeaderChanged"} : r = OpToResp(o, err, << >>)
    BY Zenon, <1>2, <1>4 DEF Answer
  <2>2. << >> \in Seq(Nat) /\ err \in {"OK", "NoKey", "LeaderChanged", "HandleTimeout"}
    OBVIOUS
  <2>3. r \in Response /\ r.id = o.id
    BY Zenon, <1>3, <2>1, <2>2, EmptyParts
  <2>4. Good(r)
    BY Zenon, <1>1, <2>3, AckGood
  <2>5. QED
    BY Zenon, <1>1, <1>2, <2>3, <2>4
<1>5. CASE ~(Known(s, o) \/ Needed(s, o))
  <2>1. r = NoResp
    BY Zenon, <1>2, <1>5 DEF Answer
  <2>2. QED
    BY Zenon, <1>1, <1>2, <1>5, <2>1, NoRespParts, NoRespGood
<1>6. QED
  BY Zenon, <1>4, <1>5

\* The value after one more entry.
LEMMA ExecuteType ==
  ASSUME NEW o \in Op, NEW v \in Seq(Nat)
  PROVE  DBExecute(o, v) \in Seq(Nat)
<1>1. o.id \in Nat
  BY Zenon, OpParts
<1>2. <<o.id>> \in Seq(Nat) /\ Append(v, o.id) \in Seq(Nat)
  BY <1>1
<1>3. QED
  BY Zenon, <1>2 DEF DBExecute

\* The history of the server that applies an entry has the answer to that entry added,
\* or is as it was.
LEMMA ApplyRecorded ==
  ASSUME Typed, Recorded, NEW s \in Server, NEW n \in 1..commit, n = lastApplied[s] + 1,
         NEW r \in Response, log' = log, lastApplied' = [lastApplied EXCEPT ![s] = @ + 1],
         \/ /\ r.id = log[n].op.id
            /\ history' = [history EXCEPT ![s] = Put(@, log[n].op.clerk, r)]
         \/ history' = history
  PROVE  Recorded'
<1> DEFINE Old(t, c) == \E i \in 1..lastApplied[t] : /\ log[i].op.clerk = c
                                                     /\ log[i].op.id = history[t][c].id
           New(t, c) == \E i \in 1..lastApplied'[t] : /\ log'[i].op.clerk = c
                                                      /\ log'[i].op.id = history'[t][c].id
<1>1. /\ lastApplied \in [Server -> Nat] /\ DOMAIN history = Server
      /\ \A t \in Server : lastApplied[t] \in Nat
  BY Zenon DEF Typed, RaftTyped, TablesTyped
<1>2. \A t \in Server : lastApplied'[t] = IF t = s THEN n ELSE lastApplied[t]
  BY Zenon, <1>1
<1>3. \A t \in Server : \A i \in 1..lastApplied[t] : i \in 1..lastApplied'[t]
  BY <1>1, <1>2
<1>4. ASSUME NEW t \in Server, NEW c \in DOMAIN history[t], history'[t][c] = history[t][c]
      PROVE  history'[t][c] \in Response /\ New(t, c)
  <2>1. history[t][c] \in Response /\ Old(t, c)
    BY Zenon DEF Recorded
  <2>2. PICK i \in 1..lastApplied[t] : log[i].op.clerk = c /\ log[i].op.id = history[t][c].id
    BY Zenon, <2>1
  <2>3. QED
    BY Zenon, <1>3, <1>4, <2>1, <2>2
<1>5. ASSUME NEW t \in Server, NEW c \in DOMAIN history'[t]
      PROVE  history'[t][c] \in Response /\ New(t, c)
  <2>1. CASE history' = history
    BY Zenon, <1>4, <2>1
  <2>2. CASE history' # history
    <3>1. PICK k : k = log[n].op.clerk
      BY Zenon
    <3>2. history'[t] = IF t = s THEN Put(history[s], k, r) ELSE history[t]
      BY Zenon, <1>1, <2>2, <3>1
    <3>3. CASE t = s /\ c = k
      <4>1. history'[t] = Put(history[s], k, r)
        BY Zenon, <3>2, <3>3
      <4>2. history'[t][c] = r
        BY Zenon, <3>3, <4>1 DEF Put
      <4>3. n \in 1..lastApplied'[t]
        BY <1>2, <3>3
      <4>4. log'[n].op.clerk = c /\ log'[n].op.id = history'[t][c].id
        BY Zenon, <2>2, <3>1, <3>3, <4>2
      <4>5. QED
        BY Zenon, <4>2, <4>3, <4>4
    <3>4. CASE t = s /\ c # k
      <4>1. history'[t] = Put(history[t], k, r)
        BY Zenon, <3>2, <3>4
      <4>2. c \in DOMAIN history[t] /\ history'[t][c] = history[t][c]
        BY Zenon, <3>4, <4>1 DEF Put
      <4>3. QED
        BY Zenon, <1>4, <4>2
    <3>5. CASE t # s
      <4>1. c \in DOMAIN history[t] /\ history'[t][c] = history[t][c]
        BY Zenon, <3>2, <3>5
      <4>2. QED
        BY Zenon, <1>4, <4>1
    <3>6. QED
      BY Zenon, <3>3, <3>4, <3>5
  <2>3. QED
    BY Zenon, <2>1, <2>2
<1>6. QED
  BY Zenon, <1>5 DEF Recorded

\* The server that applies an entry executes it on the value before.
LEMMA ApplyReplayed ==
  ASSUME Typed, Recorded, Replayed, NEW s \in Server, NEW n \in 1..commit,
         n = lastApplied[s] + 1, UNCHANGED <<log, commit>>,
         lastApplied' = [lastApplied EXCEPT ![s] = @ + 1],
         db' = IF Needed(s, log[n].op) THEN [db EXCEPT ![s] = DBExecute(log[n].op, @)] ELSE db
  PROVE  Replayed'
<1>0. log' = log /\ commit' = commit
  OBVIOUS
<1> SUFFICES ASSUME Ascending', NEW t \in Server PROVE db'[t] = Value(lastApplied[t])'
  BY Zenon DEF Replayed
<1>1. Ascending
  BY Zenon, <1>0 DEF Ascending
<1>2. /\ db'[t] = IF t = s THEN DBExecute(log[n].op, db[s]) ELSE db[t]
      /\ lastApplied'[t] = IF t = s THEN n ELSE lastApplied[t]
  BY Zenon, <1>1, NeededAlways DEF Typed, TablesTyped, RaftTyped
<1>3. \A p \in Server : db[p] = After(log, lastApplied[p])
  BY Zenon, <1>1 DEF Replayed, Value
<1>4. CASE t = s
  <2>1. lastApplied[s] \in Nat
    BY Zenon DEF Typed, RaftTyped
  <2>2. After(log, n) = DBExecute(log[n].op, After(log, lastApplied[s]))
    BY Zenon, <2>1, AfterNext
  <2>3. QED
    BY Zenon, <1>0, <1>2, <1>3, <1>4, <2>2 DEF Value
<1>5. CASE t # s
  BY Zenon, <1>0, <1>2, <1>3, <1>5 DEF Value
<1>6. QED
  BY Zenon, <1>4, <1>5

LEMMA ApplyInv ==
  ASSUME KVInv, NEW s \in Server, Apply(s)
  PROVE  KVInv'
<1>1. Typed /\ Promised /\ Recorded /\ IndexSound /\ AckedSound /\ Replayed
  BY Zenon DEF KVInv
<1>2. PICK n : n = lastApplied[s] + 1
  BY Zenon
<1>3. PICK o, r : o = log[n].op /\ r = Answer(s, log[n].op, log[n].term)
  BY Zenon
<1>4. /\ lastApplied[s] < commitIndex[s] /\ Room(sendQueues[s])
      /\ db' = IF Needed(s, o) THEN [db EXCEPT ![s] = DBExecute(o, @)] ELSE db
      /\ \/ Needed(s, o) /\ history' = [history EXCEPT ![s] = Put(@, o.clerk, r)]
         \/ history' = history
      /\ TableDelete(s, r.id) /\ sendQueues' = Push(sendQueues, s, r)
      /\ lastApplied' = [lastApplied EXCEPT ![s] = @ + 1]
  BY Zenon, <1>2, <1>3 DEF Apply, Delivered, TableDelete
<1>5. /\ processQue' = processQue /\ readQue' = readQue /\ answers' = answers /\ sent' = sent
      /\ inexact' = inexact /\ ackedBefore' = ackedBefore
      /\ started' = started /\ readOp' = readOp
      /\ log' = log /\ commit' = commit /\ term' = term /\ leader' = leader
      /\ believes' = believes /\ sterm' = sterm /\ commitIndex' = commitIndex
      /\ UNCHANGED <<log, commit, sent, inexact, ackedBefore>> /\ UNCHANGED ackedBefore
      /\ UNCHANGED <<log, commit>>
  BY DEF Apply, clients, raftVars
<1>6. n \in 1..commit /\ n \in Nat /\ n <= commitIndex[s]
  BY SMTT(30), <1>1, <1>2, <1>4 DEF Typed, RaftTyped
<1>7. /\ r \in Response /\ Good(r) /\ r.id \in {0, o.id} /\ (Needed(s, o) => r.id = o.id)
      /\ o \in Op
  BY Zenon, <1>1, <1>3, <1>6, AnswerGood, EntryParts
<1>8. sendQueues' \in Queue(Response) /\ \A x \in Responses' : x \in Responses \/ Good(x)
  BY Zenon, <1>1, <1>4, <1>5, <1>7, ResponsesPush
<1>9. DOMAIN incrMapLogIdx = Server /\ DOMAIN incrMapLogIdx' = Server
  BY Zenon, <1>1, <1>4 DEF Typed, TablesTyped, TableDelete
<1>10. \A t \in Server : \A k \in DOMAIN incrMapLogIdx'[t] : Kept(t, k)
  BY Zenon, <1>4, <1>9, DeleteOther
<1>11. Onward
  BY Zenon, <1>1, <1>5, OnwardCalm
<1>12. Promised' /\ AckedSound'
  BY Zenon, <1>1, <1>5, <1>8, <1>11, PromisedStep, AckedStep
<1>13. IndexSound'
  BY Zenon, <1>1, <1>10, <1>11, IndexStep
<1>14. Replayed'
  BY Zenon, <1>1, <1>2, <1>3, <1>4, <1>5, <1>6, ApplyReplayed
<1>15. Recorded'
  <2>1. \/ /\ r.id = log[n].op.id
           /\ history' = [history EXCEPT ![s] = Put(@, log[n].op.clerk, r)]
        \/ history' = history
    BY Zenon, <1>3, <1>4, <1>7
  <2>2. QED
    BY ZenonT(30), <1>1, <1>2, <1>4, <1>5, <1>6, <1>7, <2>1, ApplyRecorded
<1>16. Typed'
  <2>1. RaftTyped'
    <3>1. /\ lastApplied \in [Server -> Nat] /\ commitIndex \in [Server -> Nat]
          /\ \A t \in Server : lastApplied[t] <= commitIndex[t] /\ commitIndex[t] <= commit
      BY Zenon, <1>1 DEF Typed, RaftTyped
    <3>2. \A t \in Server : lastApplied'[t] = IF t = s THEN n ELSE lastApplied[t]
      BY Zenon, <1>2, <1>4, <3>1
    <3>3. lastApplied' \in [Server -> Nat]
      BY Zenon, <1>2, <1>4, <1>6, <3>1
    <3>4. \A t \in Server : lastApplied'[t] <= commitIndex[t]
      BY Zenon, <1>6, <3>1, <3>2
    <3>5. QED
      BY Zenon, <1>1, <1>5, <3>1, <3>3, <3>4 DEF Typed, RaftTyped, Writes
  <2>2. db' \in [Server -> Seq(Nat)] /\ DOMAIN history' = Server
    <3>1. db \in [Server -> Seq(Nat)] /\ DOMAIN history = Server
      BY Zenon, <1>1 DEF Typed, TablesTyped
    <3>2. DBExecute(o, db[s]) \in Seq(Nat)
      BY Zenon, <1>7, <3>1, ExecuteType
    <3>3. QED
      BY Zenon, <1>4, <3>1, <3>2
  <2>3. HandsTyped' /\ ClientsTyped'
    BY Zenon, <1>1, <1>5 DEF Typed, HandsTyped, ClientsTyped, Writes, Reads
  <2>4. QueuesTyped' /\ TablesTyped'
    BY Zenon, <1>1, <1>5, <1>8, <1>9, <2>2 DEF Typed, QueuesTyped, TablesTyped, Reads
  <2>5. QED
    BY Zenon, <2>1, <2>3, <2>4 DEF Typed
<1>17. QED
  BY Zenon, <1>12, <1>13, <1>14, <1>15, <1>16 DEF KVInv

-----------------------------------------------------------------------------
(* The clients *)

\* A response that leaves its queue reaches a clerk or nobody.
LEMMA ResponsesPop ==
  ASSUME Typed, NEW s \in Server, sendQueues[s] # << >>, sendQueues' = Pop(sendQueues, s),
         answers' \subseteq answers \cup {Head(sendQueues[s])}
  PROVE  /\ sendQueues' \in Queue(Response) /\ answers' \subseteq Response
         /\ \A r \in Responses' : r \in Responses \/ Good(r)
<1>1. sendQueues \in Queue(Response) /\ answers \subseteq Response
  BY Zenon DEF Typed, QueuesTyped
<1>2. /\ sendQueues' \in Queue(Response) /\ Head(sendQueues[s]) \in Response
      /\ Head(sendQueues[s]) \in Range(sendQueues[s])
      /\ \A t \in Server : Range(sendQueues'[t]) \subseteq Range(sendQueues[t])
  BY Zenon, <1>1, Popped
<1>3. \A r \in Responses' : r \in Responses
  BY Zenon, <1>2 DEF Responses
<1>4. QED
  BY Zenon, <1>1, <1>2, <1>3

LEMMA ResponseInv ==
  ASSUME KVInv, NEW s \in Server, handleClientResponse(s) \/ ResponseFails(s)
  PROVE  KVInv'
<1>1. Typed
  BY Zenon DEF KVInv
<1>2. /\ sendQueues[s] # << >> /\ sendQueues' = Pop(sendQueues, s)
      /\ answers' \subseteq answers \cup {Head(sendQueues[s])}
  BY DEF handleClientResponse, ResponseFails, clients
<1>3. /\ processQue' = processQue /\ readQue' = readQue /\ sent' = sent
      /\ started' = started /\ readOp' = readOp
      /\ UNCHANGED <<raftVars, tables, sent, inexact, ackedBefore>>
  BY DEF handleClientResponse, ResponseFails, clients
<1>4. /\ sendQueues' \in Queue(Response) /\ answers' \subseteq Response
      /\ \A r \in Responses' : r \in Responses \/ Good(r)
  BY Zenon, <1>1, <1>2, ResponsesPop
<1>5. QueuesTyped' /\ HandsTyped'
  BY Zenon, <1>1, <1>3, <1>4 DEF Typed, QueuesTyped, HandsTyped, Writes, Reads
<1>6. QED
  BY Zenon, <1>3, <1>4, <1>5, CalmInv

\* A request that arrives again has been sent.
LEMMA ResendInv ==
  ASSUME KVInv, NEW s \in Server, NEW o \in Op, Resend(s, o)
  PROVE  KVInv'
<1>1. Typed /\ Promised
  BY Zenon DEF KVInv
<1>2. /\ Room(processQue[s]) /\ processQue' = Push(processQue, s, o)
      /\ sendQueues' = sendQueues /\ readQue' = readQue /\ answers' = answers /\ sent' = sent
      /\ started' = started /\ readOp' = readOp /\ UNCHANGED <<sendQueues, answers>>
      /\ UNCHANGED <<raftVars, tables, sent, inexact, ackedBefore>>
  BY DEF Resend, handleClientConnection
<1>3. o \in sent
  <2>1. PICK a \in answers : a.id = o.id
    BY Zenon DEF Resend
  <2>2. Good(a)
    BY Zenon, <1>1 DEF Promised, Responses
  <2>3. a # NoResp
    BY Zenon, <2>1, NoRespParts, OpParts
  <2>4. PICK p \in sent : p.id = o.id
    BY Zenon, <2>1, <2>2, <2>3 DEF Good
  <2>5. p = o
    BY Zenon, <1>1, <2>4, KVServerAssumption DEF Typed, ClientsTyped
  <2>6. QED
    BY Zenon, <2>5
<1>4. processQue' \in Queue(sent)
  BY Zenon, <1>1, <1>2, <1>3, Pushed DEF Typed, QueuesTyped
<1>5. QueuesTyped' /\ HandsTyped'
  BY Zenon, <1>1, <1>2, <1>4 DEF Typed, QueuesTyped, HandsTyped, Writes, Reads
<1>6. QED
  BY Zenon, <1>2, <1>5, ResponsesSame, CalmInv

\* A queue of some requests is one of more.
LEMMA QueueGrows ==
  ASSUME NEW S, NEW T, S \subseteq T, NEW q \in Queue(S)
  PROVE  q \in Queue(T)
<1>1. q \in [Server -> Seq(S)]
  BY Zenon DEF Queue
<1>2. \A s \in Server : q[s] \in Seq(T)
  BY Zenon, <1>1, SeqMonotonic
<1>3. q \in [Server -> Seq(T)]
  BY Zenon, <1>1, <1>2
<1>4. QED
  BY Zenon, <1>3 DEF Queue

\* A request is sent once, so what it owes is fixed when it is sent.
LEMMA RequestInv ==
  ASSUME KVInv, NEW s \in Server, NEW o \in Op, Request(s, o)
  PROVE  KVInv'
<1>1. Typed /\ Promised /\ AckedSound /\ Recorded /\ IndexSound /\ Replayed
  BY Zenon DEF KVInv
<1>2. /\ o \notin sent /\ Room(processQue[s]) /\ processQue' = Push(processQue, s, o)
      /\ sent' = sent \cup {o} /\ ackedBefore' = [ackedBefore EXCEPT ![o.id] = Acked]
  BY Zenon DEF Request, handleClientConnection
<1>3. /\ log' = log /\ commit' = commit /\ term' = term /\ leader' = leader
      /\ believes' = believes /\ sterm' = sterm /\ commitIndex' = commitIndex
      /\ lastApplied' = lastApplied /\ inexact' = inexact
      /\ sendQueues' = sendQueues /\ readQue' = readQue /\ answers' = answers
      /\ started' = started /\ readOp' = readOp /\ UNCHANGED <<sendQueues, answers>>
      /\ db' = db /\ incrMapLogIdx' = incrMapLogIdx /\ history' = history
      /\ UNCHANGED <<history, lastApplied>> /\ UNCHANGED incrMapLogIdx
      /\ UNCHANGED <<db, lastApplied>>
  BY DEF Request, handleClientConnection, raftVars, tables
<1>4. DOMAIN ackedBefore' = DOMAIN ackedBefore /\ o.id \in DOMAIN ackedBefore
  BY Zenon, <1>1, <1>2 DEF Typed, ClientsTyped
<1>5. Onward
  <2>1. commit \in Nat /\ commit <= commit
    BY <1>1 DEF Typed, RaftTyped
  <2>2. ASSUME NEW p \in sent PROVE ackedBefore'[p.id] = ackedBefore[p.id]
    <3>1. p.id # o.id /\ p.id \in DOMAIN ackedBefore
      BY Zenon, <1>1, <1>2, KVServerAssumption DEF Typed, ClientsTyped
    <3>2. QED
      BY Zenon, <1>2, <3>1
  <2>3. QED
    BY Zenon, <1>2, <1>3, <2>1, <2>2 DEF Onward, SameFirst
<1>6. AckedSound'
  <2>1. \A w : Committed(w)' <=> Committed(w)
    BY Zenon, <1>3 DEF Committed
  <2>2. \A w \in Acked \cap Written : Committed(w)
    BY Zenon, <1>1 DEF Acked, Promised, Responses, Good
  <2>3. \A id \in DOMAIN ackedBefore :
          ackedBefore'[id] = IF id = o.id THEN Acked ELSE ackedBefore[id]
    BY Zenon, <1>2
  <2>4. ASSUME NEW id \in DOMAIN ackedBefore, NEW w \in ackedBefore'[id] \cap Written
        PROVE  Committed(w)
    <3>1. CASE id = o.id
      BY Zenon, <2>2, <2>3, <2>4, <3>1
    <3>2. CASE id # o.id
      BY Zenon, <1>1, <2>3, <2>4, <3>2 DEF AckedSound
    <3>3. QED
      BY Zenon, <3>1, <3>2
  <2>5. QED
    BY Zenon, <1>4, <2>1, <2>4 DEF AckedSound
<1>7. Promised' /\ Recorded' /\ IndexSound' /\ Replayed'
  BY Zenon, <1>1, <1>3, <1>5, ResponsesSame, PromisedStep, RecordedStep, IndexSame, ReplayedStep
<1>8. sent \subseteq sent' /\ Writes \subseteq Writes' /\ Reads \subseteq Reads' /\ sent' \subseteq Op
  BY Zenon, <1>1, <1>2 DEF Writes, Reads, Typed, ClientsTyped
<1>9. RaftTyped'
  <2>1. [op : Writes, term : Nat] \subseteq [op : Writes', term : Nat]
    BY <1>8
  <2>2. log \in Seq([op : Writes', term : Nat])
    BY Zenon, <1>1, <2>1, SeqMonotonic DEF Typed, RaftTyped
  <2>3. QED
    BY Zenon, <1>1, <1>3, <2>2 DEF Typed, RaftTyped
<1>10. QueuesTyped'
  <2>1. processQue \in Queue(sent') /\ readQue \in Queue(Reads')
    BY Zenon, <1>1, <1>8, QueueGrows DEF Typed, QueuesTyped
  <2>2. processQue' \in Queue(sent')
    <3>1. o \in sent'
      BY Zenon, <1>2
    <3>2. QED
      BY Zenon, <1>2, <2>1, <3>1, Pushed
  <2>3. QED
    BY Zenon, <1>1, <1>3, <2>1, <2>2 DEF Typed, QueuesTyped
<1>11. HandsTyped'
  <2>1. \A t \in Server : started[t] \in {<< >>} \cup (Writes' \X Nat)
    BY <1>1, <1>8 DEF Typed, HandsTyped
  <2>2. \A t \in Server : readOp[t] \in {<< >>} \cup [{1} -> [op : Reads', idx : Int]]
    BY <1>1, <1>8 DEF Typed, HandsTyped
  <2>3. QED
    BY Zenon, <1>1, <1>3, <2>1, <2>2 DEF Typed, HandsTyped
<1>12. TablesTyped' /\ ClientsTyped'
  BY Zenon, <1>1, <1>3, <1>4, <1>8 DEF Typed, TablesTyped, ClientsTyped
<1>13. Typed'
  BY Zenon, <1>9, <1>10, <1>11, <1>12 DEF Typed
<1>14. QED
  BY Zenon, <1>6, <1>7, <1>13 DEF KVInv

-----------------------------------------------------------------------------
(* Raft *)

\* A new leader has what is committed.
LEMMA ElectInv ==
  ASSUME KVInv, NEW s \in Server, Elect(s)
  PROVE  KVInv'
<1> DEFINE E == [op : Writes, term : Nat]
<1>1. Typed
  BY Zenon DEF KVInv
<1>2. PICK n \in commit..Len(log) : log' = SubSeq(log, 1, n)
  BY Zenon DEF Elect
<1>3. /\ term' = term + 1 /\ leader' = s /\ believes' = believes \cup {s}
      /\ sterm' = [sterm EXCEPT ![s] = term + 1]
      /\ commit' = commit /\ commitIndex' = commitIndex /\ lastApplied' = lastApplied
      /\ processQue' = processQue /\ sendQueues' = sendQueues /\ readQue' = readQue
      /\ answers' = answers /\ sent' = sent /\ inexact' = inexact
      /\ ackedBefore' = ackedBefore /\ started' = started /\ readOp' = readOp
      /\ db' = db /\ incrMapLogIdx' = incrMapLogIdx /\ history' = history
      /\ UNCHANGED <<sendQueues, answers>> /\ UNCHANGED tables /\ UNCHANGED ackedBefore
  BY DEF Elect, queues, tables, clients
<1>4. log \in Seq(E) /\ commit \in Nat /\ commit <= Len(log) /\ term \in Nat
  BY Zenon, <1>1 DEF Typed, RaftTyped
<1>5. /\ log' \in Seq(E) /\ Len(log') = n
      /\ \A i \in 1..n : log'[i] = log[i]
  <2> HIDE DEF E
  <2>1. Len(log) \in Nat /\ \A i \in 1..Len(log) : log[i] \in E
    BY Zenon, <1>4, LenProperties, ElementOfSeq
  <2>2. n \in Nat /\ \A i \in 1..n : log[i] \in E
    BY <1>4, <2>1
  <2>3. /\ SubSeq(log, 1, n) \in Seq(E)
        /\ Len(SubSeq(log, 1, n)) = IF 1 <= n THEN n - 1 + 1 ELSE 0
        /\ \A i \in 1..n - 1 + 1 : SubSeq(log, 1, n)[i] = log[1 + i - 1]
    BY <2>2, SubSeqProperties
  <2>4. QED
    BY <1>2, <2>2, <2>3
<1>6. /\ commit <= commit /\ commit <= Len(log') /\ term + 1 \in Nat
      /\ \A i \in 1..commit : log'[i] = log[i]
  BY <1>2, <1>4, <1>5
<1>7. Onward
  BY Zenon, <1>3, <1>4, <1>6 DEF Onward, SameFirst
<1>8. RaftTyped'
  <2>1. sterm' \in [Server -> Nat] /\ believes' \subseteq Server /\ leader' \in Server
    BY Zenon, <1>1, <1>3, <1>6 DEF Typed, RaftTyped
  <2>2. QED
    BY Zenon, <1>1, <1>3, <1>5, <1>6, <2>1 DEF Typed, RaftTyped, Writes
<1>9. HandsTyped' /\ QueuesTyped' /\ TablesTyped' /\ ClientsTyped'
  BY Zenon, <1>1, <1>3
     DEF Typed, HandsTyped, QueuesTyped, TablesTyped, ClientsTyped, Reads, Writes
<1>10. Typed'
  BY Zenon, <1>8, <1>9 DEF Typed
<1>11. QED
  BY Zenon, <1>3, <1>7, <1>10, ResponsesSame, RestInv

LEMMA FollowInv ==
  ASSUME KVInv, NEW s \in Server, Follow(s)
  PROVE  KVInv'
<1>1. Typed
  BY Zenon DEF KVInv
<1>2. /\ leader \in Server /\ sterm' = [sterm EXCEPT ![s] = term]
      /\ believes' = believes \ {s}
      /\ commitIndex' = [commitIndex EXCEPT ![s] = commitIndex[leader]]
      /\ commitIndex[leader] >= commitIndex[s]
      /\ log' = log /\ commit' = commit /\ term' = term /\ leader' = leader
      /\ lastApplied' = lastApplied
      /\ processQue' = processQue /\ sendQueues' = sendQueues /\ readQue' = readQue
      /\ answers' = answers /\ sent' = sent /\ inexact' = inexact
      /\ ackedBefore' = ackedBefore /\ started' = started /\ readOp' = readOp
      /\ db' = db /\ incrMapLogIdx' = incrMapLogIdx /\ history' = history
      /\ UNCHANGED <<sendQueues, answers>> /\ UNCHANGED tables /\ UNCHANGED ackedBefore
      /\ UNCHANGED <<log, commit, sent, inexact, ackedBefore>>
  BY DEF Follow, queues, tables, clients
<1>3. RaftTyped'
  <2>1. /\ commitIndex \in [Server -> Nat] /\ lastApplied \in [Server -> Nat]
        /\ \A t \in Server : lastApplied[t] <= commitIndex[t] /\ commitIndex[t] <= commit
    BY Zenon, <1>1 DEF Typed, RaftTyped
  <2>2. /\ commitIndex' \in [Server -> Nat]
        /\ \A t \in Server : commitIndex'[t] = IF t = s THEN commitIndex[leader] ELSE commitIndex[t]
    BY Zenon, <1>2, <2>1
  <2>3. lastApplied[s] <= commitIndex[leader] /\ commitIndex[leader] <= commit
    <3>1. /\ lastApplied[s] \in Nat /\ commitIndex[s] \in Nat /\ commitIndex[leader] \in Nat
          /\ lastApplied[s] <= commitIndex[s]
      BY Zenon, <1>2, <2>1
    <3>2. lastApplied[s] <= commitIndex[leader]
      BY <1>2, <3>1
    <3>3. QED
      BY Zenon, <1>2, <2>1, <3>2
  <2>4. \A t \in Server : lastApplied[t] <= commitIndex'[t] /\ commitIndex'[t] <= commit
    BY Zenon, <2>1, <2>2, <2>3
  <2>5. sterm' \in [Server -> Nat] /\ believes' \subseteq Server
    BY Zenon, <1>1, <1>2 DEF Typed, RaftTyped
  <2>6. QED
    BY Zenon, <1>1, <1>2, <2>2, <2>4, <2>5 DEF Typed, RaftTyped, Writes
<1>4. HandsTyped' /\ QueuesTyped' /\ TablesTyped' /\ ClientsTyped'
  BY Zenon, <1>1, <1>2
     DEF Typed, HandsTyped, QueuesTyped, TablesTyped, ClientsTyped, Reads, Writes
<1>5. Typed'
  BY Zenon, <1>3, <1>4 DEF Typed
<1>6. Onward
  BY Zenon, <1>1, <1>2, OnwardCalm
<1>7. QED
  BY Zenon, <1>2, <1>5, <1>6, ResponsesSame, RestInv

LEMMA CommitEntryInv ==
  ASSUME KVInv, CommitEntry
  PROVE  KVInv'
<1>1. Typed
  BY Zenon DEF KVInv
<1>2. PICK n \in commit + 1..Len(log) :
        commit' = n /\ commitIndex' = [commitIndex EXCEPT ![leader] = n]
  BY Zenon DEF CommitEntry
<1>3. /\ log' = log /\ term' = term /\ leader' = leader /\ believes' = believes
      /\ sterm' = sterm /\ lastApplied' = lastApplied
      /\ processQue' = processQue /\ sendQueues' = sendQueues /\ readQue' = readQue
      /\ answers' = answers /\ sent' = sent /\ inexact' = inexact
      /\ ackedBefore' = ackedBefore /\ started' = started /\ readOp' = readOp
      /\ db' = db /\ incrMapLogIdx' = incrMapLogIdx /\ history' = history
      /\ UNCHANGED <<sendQueues, answers>> /\ UNCHANGED tables /\ UNCHANGED ackedBefore
  BY DEF CommitEntry, queues, tables, clients
<1>4. commit \in Nat /\ Len(log) \in Nat
  BY Zenon, <1>1, LenProperties DEF Typed, RaftTyped
<1>5. n \in Nat /\ commit <= n /\ n <= Len(log)
  BY <1>2, <1>4
<1>6. Onward
  BY Zenon, <1>2, <1>3, <1>5 DEF Onward, SameFirst
<1>7. RaftTyped'
  <2>1. /\ commitIndex \in [Server -> Nat] /\ lastApplied \in [Server -> Nat]
        /\ \A t \in Server : lastApplied[t] <= commitIndex[t] /\ commitIndex[t] <= commit
    BY Zenon, <1>1 DEF Typed, RaftTyped
  <2>2. /\ commitIndex' \in [Server -> Nat]
        /\ \A t \in Server : commitIndex'[t] = IF t = leader THEN n ELSE commitIndex[t]
    BY Zenon, <1>2, <1>5, <2>1
  <2>3. ASSUME NEW t \in Server PROVE lastApplied[t] <= commitIndex'[t] /\ commitIndex'[t] <= n
    <3>1. /\ lastApplied[t] \in Nat /\ commitIndex[t] \in Nat
          /\ lastApplied[t] <= commitIndex[t] /\ commitIndex[t] <= commit
          /\ commitIndex'[t] = IF t = leader THEN n ELSE commitIndex[t]
      BY Zenon, <2>1, <2>2
    <3>2. QED
      BY <1>4, <1>5, <3>1
  <2>4. QED
    BY Zenon, <1>1, <1>2, <1>3, <1>5, <2>2, <2>3 DEF Typed, RaftTyped, Writes
<1>8. HandsTyped' /\ QueuesTyped' /\ TablesTyped' /\ ClientsTyped'
  BY Zenon, <1>1, <1>3
     DEF Typed, HandsTyped, QueuesTyped, TablesTyped, ClientsTyped, Reads, Writes
<1>9. Typed'
  BY Zenon, <1>7, <1>8 DEF Typed
<1>10. QED
  BY Zenon, <1>3, <1>6, <1>9, ResponsesSame, RestInv

-----------------------------------------------------------------------------
(* The invariant *)

LEMMA InitInv == Init => KVInv
<1> SUFFICES ASSUME Init PROVE KVInv
  OBVIOUS
<1>1. /\ log = << >> /\ commit = 0 /\ term = 0 /\ leader = "none" /\ believes = {}
      /\ sterm = [s \in Server |-> 0] /\ commitIndex = [s \in Server |-> 0]
      /\ processQue = [s \in Server |-> << >>] /\ readQue = [s \in Server |-> << >>]
      /\ sendQueues = [s \in Server |-> << >>] /\ started = [s \in Server |-> << >>]
      /\ readOp = [s \in Server |-> << >>] /\ incrMapLogIdx = [s \in Server |-> << >>]
      /\ history = [s \in Server |-> << >>] /\ db = [s \in Server |-> << >>]
      /\ lastApplied = [s \in Server |-> 0] /\ sent = {} /\ answers = {}
      /\ ackedBefore = [i \in {o.id : o \in Op} |-> {}] /\ inexact = {}
  BY Zenon DEF Init
<1>2. \A S : << >> \in Seq(S) /\ Len(<< >>) = 0 /\ 0 <= QueueCap
  BY EmptySeq, KVServerAssumption
<1>3. \A S : [s \in Server |-> << >>] \in Queue(S)
  BY Zenon, <1>2 DEF Queue
<1>4. RaftTyped
  <2>1. 0 \in Nat /\ 0 <= 0 /\ 0 <= Len(<< >>)
    BY <1>2
  <2>2. QED
    BY Zenon, <1>1, <1>2, <2>1 DEF RaftTyped
<1>5. QueuesTyped /\ TablesTyped /\ HandsTyped /\ ClientsTyped
  BY Zenon, <1>1, <1>2, <1>3 DEF QueuesTyped, TablesTyped, HandsTyped, ClientsTyped
<1>6. DOMAIN << >> = {}
  BY <1>2, LenProperties
<1>7. Promised
  BY Zenon, <1>1, <1>6 DEF Promised, Responses, Range
<1>8. Recorded /\ IndexSound /\ AckedSound
  BY Zenon, <1>1, <1>6 DEF Recorded, IndexSound, AckedSound
<1>9. Replayed
  BY Zenon, <1>1, AfterZero DEF Replayed, Value
<1>10. QED
  BY Zenon, <1>4, <1>5, <1>7, <1>8, <1>9 DEF KVInv, Typed

LEMMA ReadQueInv ==
  ASSUME KVInv, NEW s \in Server, ReadQue(s)
  PROVE  KVInv'
<1>1. CASE TakeRead(s) \/ GetState(s)
  BY Zenon, <1>1, TakeReadInv, GetStateInv
<1>2. CASE Confirmed(s)
  <2>1. PICK i : i = readOp[s][1].idx
    BY Zenon
  <2>2. i \in Int
    BY Zenon, <1>2, <2>1, HandParts DEF KVInv, Confirmed, Reading
  <2>3. QED
    BY Zenon, <1>2, <2>1, <2>2, RecordIndexInv DEF Confirmed
<1>3. CASE NotConfirmed(s)
  BY Zenon, <1>3, FailReadInv DEF NotConfirmed
<1>4. CASE ExecuteRead(s)
  BY Zenon, <1>4, ExecuteReadInv
<1>5. ASSUME NEW l \in Server, SendCommitIndex(s, l) PROVE KVInv'
  <2>1. PICK i : i = commitIndex[l]
    BY Zenon
  <2>2. commitIndex \in [Server -> Nat]
    BY Zenon DEF KVInv, Typed, RaftTyped
  <2>3. i \in Int
    BY <2>1, <2>2
  <2>4. QED
    BY Zenon, <1>5, <2>1, <2>3, RecordIndexInv DEF SendCommitIndex, Asks
<1>6. ASSUME NEW l \in Server, SendWrongLeader(s, l) \/ SendGivesUp(s, l) PROVE KVInv'
  BY Zenon, <1>6, FailReadInv DEF SendWrongLeader, SendGivesUp, Asks
<1>7. ASSUME NEW l \in Server, SendRetry(s, l) PROVE KVInv'
  BY Zenon, <1>7, SendRetryInv
<1>8. QED
  BY Zenon, <1>1, <1>2, <1>3, <1>4, <1>5, <1>6, <1>7 DEF ReadQue, AskLeader

LEMMA NextInv == KVInv /\ [Next]_vars => KVInv'
<1> SUFFICES ASSUME KVInv, [Next]_vars PROVE KVInv'
  OBVIOUS
<1>1. CASE RaftNext
  BY Zenon, <1>1, CommitEntryInv, ElectInv, FollowInv DEF RaftNext
<1>2. CASE ClientNext
  BY Zenon, <1>2, RequestInv, ResendInv DEF ClientNext
<1>3. ASSUME NEW s \in Server, OpQue(s) PROVE KVInv'
  BY Zenon, <1>3, RepeatInv, QueueReadInv, NotLeaderInv, StartInv, RegisterInv DEF OpQue
<1>4. ASSUME NEW s \in Server, Goroutines(s) \/ ResponseFails(s) PROVE KVInv'
  BY Zenon, <1>3, <1>4, ReadQueInv, ApplyInv, ResponseInv DEF Goroutines
<1>5. CASE UNCHANGED vars
  <2>1. Typed
    BY Zenon DEF KVInv
  <2>2. /\ processQue' = processQue /\ readQue' = readQue /\ sendQueues' = sendQueues
        /\ answers' = answers /\ sent' = sent /\ started' = started /\ readOp' = readOp
        /\ UNCHANGED <<sendQueues, answers>>
        /\ UNCHANGED <<raftVars, tables, sent, inexact, ackedBefore>>
    BY <1>5 DEF vars, queues, clients
  <2>3. QueuesTyped' /\ HandsTyped'
    BY Zenon, <2>1, <2>2 DEF Typed, QueuesTyped, HandsTyped, Writes, Reads
  <2>4. QED
    BY Zenon, <2>2, <2>3, ResponsesSame, CalmInv
<1>6. QED
  BY Zenon, <1>1, <1>2, <1>4, <1>5 DEF Next

\* The inductive invariant holds in every reachable state.
THEOREM KVInvariant == Spec => []KVInv
<1>1. QED
  BY InitInv, NextInv, PTL DEF Spec

\* No server applies more than it knows to be committed, and no channel of handleOpQue,
\* handleReadQue or handleClientResponse holds more than its capacity.
THEOREM KVTypeCorrect == Spec => []TypeOK
<1>1. KVInv => TypeOK
  BY Zenon DEF KVInv, Typed, RaftTyped, QueuesTyped, Queue, TypeOK
<1>2. QED
  BY <1>1, KVInvariant, PTL

\* Servers that have applied as many entries hold the same value, as long as the log has
\* the requests of each clerk once and in the order of their ids: ApplyHandler then
\* skips no entry for what its history has.
THEOREM ReplicasAgreeHolds == Spec => []ReplicasAgree
<1>1. KVInv => ReplicasAgree
  BY Zenon DEF KVInv, Replayed, ReplicasAgree
<1>2. QED
  BY <1>1, KVInvariant, PTL

\* A write that was answered with OK is committed, whether ApplyHandler or the history
\* gave the answer and whoever leads.
THEOREM AckCommittedHolds == Spec => []AckCommitted
<1>1. KVInv => AckCommitted
  <2> SUFFICES ASSUME KVInv, NEW a \in answers, a.err = "OK",
                      NEW o \in Op, o.id = a.id, IsWrite(o)
               PROVE  Committed(a.id)
    BY Zenon DEF AckCommitted, Committed
  <2>1. Good(a)
    BY Zenon DEF KVInv, Promised, Responses
  <2>2. a.id \in Written
    BY Zenon, OpParts
  <2>3. QED
    BY Zenon, <2>1, <2>2 DEF Good
<1>2. QED
  BY <1>1, KVInvariant, PTL

\* A read whose index covers what is committed when handleReadQue records it returns the
\* value after some number of committed entries, with every write acknowledged before
\* the read was sent, as long as the log has the requests of each clerk once and in the
\* order of their ids.
THEOREM ReadSeesHolds == Spec => []ReadSees
<1>1. KVInv => ReadSees
  BY Zenon DEF KVInv, Promised, Responses, Good, Seen, ReadSees
<1>2. QED
  BY <1>1, KVInvariant, PTL
=============================================================================
