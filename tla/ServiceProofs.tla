--------------------------- MODULE ServiceProofs ---------------------------
(***************************************************************************)
(* Proofs about module Service, for any calls of any number of clerks, any *)
(* nodes and any bounds: there is one attempt at a request at a time, a    *)
(* write is executed at most once, and a write that returns without an     *)
(* error has been executed.                                                *)
(***************************************************************************)
EXTENDS Service, OrderLemmas, FiniteSetTheorems

Reply == [msg : Messages, err : {"OK", "NoKey"}]
Failure == [msg : Messages, err : {"LeaderChanged", "HandleTimeout"}]
Hands == {<< >>} \cup {<<m>> : m \in Messages} \cup (Messages \X Node)
Errors == {"OK", "NoKey", "LeaderChanged", "HandleTimeout"}

\* The queues hold requests, good answers and failed answers; what procSendQue has in
\* hand is a request, with a node or without; call, channel and executed are known for every id.
Typed ==
  /\ call \in [Ids -> {"idle", "send", "wait", "ok", "error"}]
  /\ channel \in [Ids -> {"empty", "OK", "NoKey"}]
  /\ executed \in [Ids -> Nat]
  /\ sendQue \in Seq(Messages) /\ respQue \in Seq(Reply) /\ failQue \in Seq(Failure)
  /\ hand \in Hands /\ weights \subseteq Node /\ LeaderId \in Node
  /\ IsFiniteSet(working) /\ working \subseteq Messages \X Node /\ resending \subseteq Messages

\* Every write that a node has yet to answer is executed.
OwedExecuted ==
  \A w \in owed : w[1] \in Messages /\ w[3] \in {"OK", "LeaderChanged"} /\ executed[w[1].id] = 1

\* A request that was not sent is nowhere, and nothing happened to it.
Unsent ==
  \A id \in Ids : call[id] \in {"idle", "send"} => Attempts(Call[id]) = 0 /\ ~Done(Call[id])

\* An answer OK to a write, in the queue or at the clerk, follows its execution.
OkFollows ==
  /\ \A k \in 1..Len(respQue) : respQue[k].err = "OK" /\ ~IsRead(respQue[k].msg) =>
                                  executed[respQue[k].msg.id] = 1
  /\ \A id \in Ids : channel[id] = "OK" /\ ~IsRead(Call[id]) => executed[id] = 1

\* The inductive invariant.
ServiceInv == Typed /\ OwedExecuted /\ OneAttempt /\ Unsent /\ OkFollows /\ WriteOnce /\ OkExecuted

-----------------------------------------------------------------------------
(* Counting *)

Hits(q, P) == {k \in 1..Len(q) : q[k] \in P}

\* A queue holds a request finitely often.
LEMMA HitsFinite ==
  ASSUME NEW S, NEW q \in Seq(S), NEW P
  PROVE  IsFiniteSet(Hits(q, P)) /\ Cardinality(Hits(q, P)) \in Nat
<1>1. IsFiniteSet(1..Len(q))
  BY FS_Interval
<1>2. Hits(q, P) \in SUBSET (1..Len(q))
  BY Zenon DEF Hits
<1>3. QED
  BY Zenon, <1>1, <1>2, FS_Subset, FS_CardinalityType

\* What is appended to a queue counts once more.
LEMMA HitsAppend ==
  ASSUME NEW S, NEW q \in Seq(S), NEW x \in S, NEW P
  PROVE  Cardinality(Hits(Append(q, x), P)) =
           Cardinality(Hits(q, P)) + (IF x \in P THEN 1 ELSE 0)
<1>1. Len(q) + 1 \notin Hits(q, P)
  BY DEF Hits
<1>2. CASE x \in P
  <2>1. Hits(Append(q, x), P) = Hits(q, P) \cup {Len(q) + 1}
    BY <1>2 DEF Hits
  <2>2. QED
    BY Zenon, <1>1, <1>2, <2>1, HitsFinite, FS_AddElement
<1>3. CASE x \notin P
  <2>1. Hits(Append(q, x), P) = Hits(q, P)
    BY <1>3 DEF Hits
  <2>2. QED
    BY <1>3, <2>1, HitsFinite
<1>4. QED
  BY Zenon, <1>2, <1>3

\* What is taken from a queue counts once less.
LEMMA HitsTail ==
  ASSUME NEW S, NEW q \in Seq(S), q # << >>, NEW P
  PROVE  Cardinality(Hits(Tail(q), P)) =
           Cardinality(Hits(q, P)) - (IF Head(q) \in P THEN 1 ELSE 0)
<1> DEFINE A == Hits(Tail(q), P)
           B == Hits(q, P) \ {1}
           f == [k \in A |-> k + 1]
<1>1. /\ Tail(q) \in Seq(S) /\ Len(Tail(q)) = Len(q) - 1 /\ Len(q) \in Nat /\ Len(q) >= 1
      /\ \A k \in 1..Len(q) - 1 : Tail(q)[k] = q[k + 1]
      /\ Head(q) = q[1]
  OBVIOUS
<1>2. A \subseteq Int /\ B \subseteq Int
  BY DEF Hits
<1>3. \A k \in A : k + 1 \in B
  BY <1>1 DEF Hits
<1>4. \A k \in B : k - 1 \in A
  BY <1>1 DEF Hits
<1>5. f \in Bijection(A, B)
  <2>1. f \in Injection(A, B)
    BY <1>2, <1>3 DEF Injection, IsInjective
  <2>2. f \in Surjection(A, B)
    BY <1>2, <1>3, <1>4 DEF Surjection
  <2>3. QED
    BY Zenon, <2>1, <2>2 DEF Bijection
<1>6. Cardinality(A) = Cardinality(B)
  <2>1. IsFiniteSet(A)
    BY Zenon, <1>1, HitsFinite
  <2>2. ExistsBijection(A, B)
    BY Zenon, <1>5 DEF ExistsBijection
  <2>3. QED
    BY Zenon, <2>1, <2>2, FS_Bijection
<1>7. 1 \in Hits(q, P) <=> Head(q) \in P
  BY <1>1 DEF Hits
<1>8. /\ Cardinality(B) = IF 1 \in Hits(q, P) THEN Cardinality(Hits(q, P)) - 1
                                            ELSE Cardinality(Hits(q, P))
      /\ Cardinality(Hits(q, P)) \in Nat
  BY Zenon, HitsFinite, FS_RemoveElement
<1>9. Cardinality(Hits(Tail(q), P)) = Cardinality(B)
  BY Zenon, <1>6
<1> HIDE DEF B
<1>10. QED
  BY <1>7, <1>8, <1>9

\* The requests of a queue, counted.
LEMMA CountQueue ==
  ASSUME NEW S, NEW q \in Seq(S), NEW m
  PROVE  /\ Count(q, m) \in Nat
         /\ \A k \in 1..Len(q) : q[k] = m => Count(q, m) >= 1
         /\ \A x \in S : Count(Append(q, x), m) = Count(q, m) + (IF x = m THEN 1 ELSE 0)
         /\ q # << >> => Count(Tail(q), m) = Count(q, m) - (IF Head(q) = m THEN 1 ELSE 0)
<1>1. ASSUME NEW r \in Seq(S) PROVE Count(r, m) = Cardinality(Hits(r, {m}))
  <2>2. {k \in DOMAIN r : r[k] = m} = Hits(r, {m})
    BY DEF Hits
  <2>3. QED
    BY Zenon, <2>2 DEF Count
<1>2. Count(q, m) \in Nat
  BY Zenon, <1>1, HitsFinite
<1>3. ASSUME NEW k \in 1..Len(q), q[k] = m PROVE Count(q, m) >= 1
  <2>1. Hits(q, {m}) # {}
    BY Zenon, <1>3 DEF Hits
  <2>2. Cardinality(Hits(q, {m})) # 0
    BY Zenon, <2>1, HitsFinite, FS_EmptySet
  <2>3. QED
    BY <1>1, <1>2, <2>2
<1>4. ASSUME NEW x \in S PROVE Count(Append(q, x), m) = Count(q, m) + (IF x = m THEN 1 ELSE 0)
  <2>1. Append(q, x) \in Seq(S)
    OBVIOUS
  <2>2. Cardinality(Hits(Append(q, x), {m})) = Cardinality(Hits(q, {m})) + (IF x \in {m} THEN 1 ELSE 0)
    BY Zenon, HitsAppend
  <2>3. Count(Append(q, x), m) = Cardinality(Hits(Append(q, x), {m})) /\ Count(q, m) = Cardinality(Hits(q, {m}))
    BY Zenon, <1>1, <2>1
  <2>4. QED
    BY Zenon, <2>2, <2>3
<1>5. ASSUME q # << >> PROVE Count(Tail(q), m) = Count(q, m) - (IF Head(q) = m THEN 1 ELSE 0)
  <2>1. Tail(q) \in Seq(S)
    BY <1>5
  <2>2. Cardinality(Hits(Tail(q), {m})) = Cardinality(Hits(q, {m})) - (IF Head(q) \in {m} THEN 1 ELSE 0)
    BY Zenon, <1>5, HitsTail
  <2>3. Count(Tail(q), m) = Cardinality(Hits(Tail(q), {m})) /\ Count(q, m) = Cardinality(Hits(q, {m}))
    BY Zenon, <1>1, <2>1
  <2>4. QED
    BY Zenon, <2>2, <2>3
<1>6. QED
  BY Zenon, <1>2, <1>3, <1>4, <1>5

\* The nodes that have a request, counted.
LEMMA CountPairs ==
  ASSUME NEW pairs, IsFiniteSet(pairs), NEW m
  PROVE  /\ CountAt(pairs, m) \in Nat
         /\ \A w \in pairs : w[1] = m => CountAt(pairs, m) >= 1
         /\ \A w : w \notin pairs =>
              CountAt(pairs \cup {w}, m) = CountAt(pairs, m) + (IF w[1] = m THEN 1 ELSE 0)
         /\ \A w \in pairs :
              CountAt(pairs \ {w}, m) = CountAt(pairs, m) - (IF w[1] = m THEN 1 ELSE 0)
<1> DEFINE At(ps) == {w \in ps : w[1] = m}
<1>1. \A ps : CountAt(ps, m) = Cardinality(At(ps))
  BY Zenon DEF CountAt
<1>2. IsFiniteSet(At(pairs)) /\ Cardinality(At(pairs)) \in Nat
  <2>1. At(pairs) \in SUBSET pairs
    BY Zenon
  <2> HIDE DEF At
  <2>2. QED
    BY Zenon, <2>1, FS_Subset, FS_CardinalityType
<1>3. ASSUME NEW w \in pairs, w[1] = m PROVE Cardinality(At(pairs)) >= 1
  <2>1. At(pairs) # {}
    BY Zenon, <1>3
  <2> HIDE DEF At
  <2>2. Cardinality(At(pairs)) # 0
    BY Zenon, <1>2, <2>1, FS_EmptySet
  <2>3. QED
    BY <1>2, <2>2
<1>4. ASSUME NEW w, w \notin pairs
      PROVE  Cardinality(At(pairs \cup {w})) = Cardinality(At(pairs)) + (IF w[1] = m THEN 1 ELSE 0)
  <2>1. w \notin At(pairs)
    BY Zenon, <1>4
  <2>2. At(pairs \cup {w}) = IF w[1] = m THEN At(pairs) \cup {w} ELSE At(pairs)
    BY Zenon
  <2> HIDE DEF At
  <2>3. Cardinality(At(pairs) \cup {w}) = Cardinality(At(pairs)) + 1
    BY Zenon, <1>2, <2>1, FS_AddElement
  <2>4. QED
    BY <1>2, <2>2, <2>3
<1>5. ASSUME NEW w \in pairs
      PROVE  Cardinality(At(pairs \ {w})) = Cardinality(At(pairs)) - (IF w[1] = m THEN 1 ELSE 0)
  <2>1. w[1] = m => w \in At(pairs)
    BY Zenon
  <2>2. /\ w[1] = m => At(pairs \ {w}) = At(pairs) \ {w}
        /\ w[1] # m => At(pairs \ {w}) = At(pairs)
    OBVIOUS
  <2> HIDE DEF At
  <2>3. w[1] = m => Cardinality(At(pairs) \ {w}) = Cardinality(At(pairs)) - 1
    BY Zenon, <1>2, <2>1, FS_RemoveElement
  <2>4. QED
    BY <1>2, <2>2, <2>3
<1> HIDE DEF At
<1>6. QED
  BY Zenon, <1>1, <1>2, <1>3, <1>4, <1>5

\* A request is named by its id.
LEMMA MessageIds ==
  /\ \A id \in Ids : Call[id] \in Messages /\ Call[id].id = id
  /\ \A m \in Messages : m.id \in Ids /\ Call[m.id] = m
BY Zenon, ClerkAssumption DEF Ids, Messages

\* The attempts at a request, in numbers.
LEMMA AttemptsAdd ==
  ASSUME Typed, NEW m \in Messages
  PROVE  /\ Count(sendQue, m) \in Nat /\ CountAt(working, m) \in Nat
         /\ Count(failQue, TimedOut(m)) \in Nat
         /\ Held(m) \in {0, 1} /\ Resent(m) \in {0, 1} /\ Attempts(m) \in Nat
<1>1. Count(sendQue, m) \in Nat /\ Count(failQue, TimedOut(m)) \in Nat
  BY Zenon, CountQueue DEF Typed
<1>2. CountAt(working, m) \in Nat
  BY Zenon, CountPairs DEF Typed
<1>3. Held(m) \in {0, 1} /\ Resent(m) \in {0, 1}
  BY Zenon DEF Held, Resent
<1>4. QED
  BY <1>1, <1>2, <1>3 DEF Attempts

\* The same after a step.
LEMMA AttemptsAddNext ==
  ASSUME Typed', NEW m \in Messages
  PROVE  /\ Count(sendQue', m) \in Nat /\ CountAt(working', m) \in Nat
         /\ Count(failQue', TimedOut(m)) \in Nat
         /\ Held(m)' \in {0, 1} /\ Resent(m)' \in {0, 1} /\ Attempts(m)' \in Nat
<1>1. Count(sendQue', m) \in Nat /\ Count(failQue', TimedOut(m)) \in Nat
  BY Zenon, CountQueue DEF Typed
<1>2. CountAt(working', m) \in Nat
  BY Zenon, CountPairs DEF Typed
<1>3. Held(m)' \in {0, 1} /\ Resent(m)' \in {0, 1}
  BY Zenon DEF Held, Resent
<1>4. QED
  BY <1>1, <1>2, <1>3 DEF Attempts

-----------------------------------------------------------------------------
(* Steps *)

\* What a step that hands requests on does with one request.
HandedOn(x) ==
  /\ Attempts(x)' <= Attempts(x)
  /\ Done(x)' => Attempts(x)' = 0 /\ (Done(x) \/ Attempts(x) # 0)
  /\ executed[x.id] <= executed'[x.id] /\ executed'[x.id] <= 1

\* A step that hands requests on, or drops them, keeps the invariant if it makes no
\* second attempt and executes nothing twice.
LEMMA MoveInv ==
  ASSUME ServiceInv, Typed', OwedExecuted', OkFollows', UNCHANGED call,
         \A x \in Messages : HandedOn(x)
  PROVE  ServiceInv'
<1>1. \A x \in Messages : Attempts(x)' \in Nat /\ Attempts(x) \in Nat
  BY AttemptsAdd, AttemptsAddNext DEF ServiceInv
<1>2. OneAttempt'
  <2>1. ASSUME NEW x \in Messages PROVE Attempts(x)' <= 1 /\ (Done(x)' => Attempts(x)' = 0)
    <3>1. Attempts(x) <= 1 /\ HandedOn(x)
      BY Zenon DEF ServiceInv, OneAttempt
    <3>2. QED
      BY <1>1, <3>1 DEF HandedOn
  <2>2. QED
    BY Zenon, <2>1 DEF OneAttempt
<1>3. Unsent'
  <2>1. ASSUME NEW id \in Ids, call'[id] \in {"idle", "send"}
        PROVE  Attempts(Call[id])' = 0 /\ ~Done(Call[id])'
    <3>1. Call[id] \in Messages /\ Attempts(Call[id]) = 0 /\ ~Done(Call[id]) /\ HandedOn(Call[id])
      BY Zenon, <2>1, MessageIds DEF ServiceInv, Unsent
    <3>2. QED
      BY <1>1, <3>1 DEF HandedOn
  <2>2. QED
    BY Zenon, <2>1 DEF Unsent
<1>4. WriteOnce'
  BY Zenon, MessageIds DEF WriteOnce, HandedOn
<1>5. OkExecuted'
  <2>1. \A id \in Ids : executed[id] \in Nat /\ executed'[id] \in Nat
    BY Zenon DEF ServiceInv, Typed
  <2>2. QED
    BY <2>1, MessageIds DEF ServiceInv, OkExecuted, HandedOn
<1>6. QED
  BY Zenon, <1>2, <1>3, <1>4, <1>5 DEF ServiceInv

\* A step that leaves every request where it is.
LEMMA QuietInv ==
  ASSUME ServiceInv, call' \in [Ids -> {"idle", "send", "wait", "ok", "error"}],
         UNCHANGED <<channel, executed, sendQue, respQue, failQue, working, resending>>,
         hand' \in Hands, weights' \subseteq Node, LeaderId' \in Node, owed' \subseteq owed,
         \A x \in Messages : Held(x)' = Held(x),
         \A id \in Ids :
           /\ call'[id] \in {"idle", "send"} => call[id] \in {"idle", "send"}
           /\ call'[id] = "ok" => call[id] = "ok" \/ channel[id] = "OK"
  PROVE  ServiceInv'
<1>1. Typed'
  BY Zenon DEF ServiceInv, Typed
<1>2. \A x \in Messages : Attempts(x)' = Attempts(x) /\ (Done(x)' <=> Done(x))
  <2>1. TAKE x \in Messages
  <2>2. Resent(x)' = Resent(x)
    BY Zenon DEF Resent
  <2>3. Attempts(x)' = Attempts(x)
    BY Zenon, <2>2 DEF Attempts
  <2>4. Done(x)' <=> Done(x)
    BY Zenon DEF Done
  <2>5. QED
    BY Zenon, <2>3, <2>4
<1>3. OneAttempt' /\ OwedExecuted'
  BY Zenon, <1>2 DEF ServiceInv, OneAttempt, OwedExecuted
<1>4. Unsent'
  <2>1. ASSUME NEW id \in Ids, call'[id] \in {"idle", "send"}
        PROVE  Attempts(Call[id])' = 0 /\ ~Done(Call[id])'
    <3>1. Call[id] \in Messages /\ Attempts(Call[id]) = 0 /\ ~Done(Call[id])
      BY Zenon, <2>1, MessageIds DEF ServiceInv, Unsent
    <3>2. QED
      BY Zenon, <1>2, <3>1
  <2>2. QED
    BY Zenon, <2>1 DEF Unsent
<1>5. OkFollows' /\ WriteOnce'
  BY Zenon DEF ServiceInv, OkFollows, WriteOnce
<1>6. OkExecuted'
  BY Zenon DEF ServiceInv, OkFollows, OkExecuted
<1>7. QED
  BY Zenon, <1>1, <1>3, <1>4, <1>5, <1>6 DEF ServiceInv

\* A step that changes the attempts alone.
LEMMA AttemptInv ==
  ASSUME ServiceInv, Typed', UNCHANGED <<call, channel, executed, respQue, owed>>,
         \A x \in Messages : Attempts(x)' <= Attempts(x)
  PROVE  ServiceInv'
<1>1. OwedExecuted' /\ OkFollows'
  BY Zenon DEF ServiceInv, OwedExecuted, OkFollows
<1>2. ASSUME NEW x \in Messages PROVE HandedOn(x)
  <2>1. Done(x)' <=> Done(x)
    BY Zenon DEF Done
  <2>2. Attempts(x) \in Nat /\ Attempts(x)' \in Nat /\ (Done(x) => Attempts(x) = 0)
    BY Zenon, AttemptsAdd, AttemptsAddNext DEF ServiceInv, OneAttempt
  <2>3. executed' = executed /\ executed[x.id] \in Nat /\ executed[x.id] <= 1
    BY Zenon, MessageIds DEF ServiceInv, Typed, WriteOnce
  <2>4. QED
    BY <2>1, <2>2, <2>3 DEF HandedOn
<1>3. QED
  BY Zenon, <1>1, <1>2, MoveInv

\* serve queues a request at which there was no attempt.
LEMMA SendInv ==
  ASSUME ServiceInv, NEW id \in Ids, sendRequest(id), serve(Call[id])
  PROVE  ServiceInv'
<1> DEFINE m == Call[id]
<1>1. m \in Messages /\ m.id = id
  BY Zenon, MessageIds
<1>2. /\ call[id] = "send" /\ call' = [call EXCEPT ![id] = "wait"] /\ sendQue' = Append(sendQue, m)
      /\ UNCHANGED <<channel, respQue, failQue, hand, resending, weights, LeaderId, working, owed,
                     executed>>
  BY Zenon DEF sendRequest, serve, nodeVars, envVars
<1>3. Typed'
  <2>1. sendQue' \in Seq(Messages)
    BY Zenon, <1>1, <1>2, Appended DEF ServiceInv, Typed
  <2>2. QED
    BY Zenon, <1>1, <1>2, <2>1 DEF ServiceInv, Typed
<1>4. Attempts(m) = 0 /\ ~Done(m)
  BY Zenon, <1>1, <1>2 DEF ServiceInv, Unsent
<1>5. ASSUME NEW x \in Messages
      PROVE  /\ Attempts(x)' = Attempts(x) + (IF x = m THEN 1 ELSE 0) /\ Attempts(x) \in Nat
             /\ Done(x)' <=> Done(x)
  <2>1. Count(sendQue', x) = Count(sendQue, x) + (IF m = x THEN 1 ELSE 0)
    BY <1>1, <1>2, CountQueue DEF ServiceInv, Typed
  <2>2. /\ Held(x)' = Held(x) /\ Resent(x)' = Resent(x) /\ CountAt(working', x) = CountAt(working, x)
        /\ Count(failQue', TimedOut(x)) = Count(failQue, TimedOut(x))
    BY Zenon, <1>2 DEF Held, Resent
  <2>3. Done(x)' <=> Done(x)
    BY Zenon, <1>2 DEF Done
  <2>4. Typed
    BY Zenon DEF ServiceInv
  <2>5. QED
    BY <2>1, <2>2, <2>3, <2>4, AttemptsAdd DEF Attempts
<1> HIDE DEF m
<1>6. OneAttempt'
  <2>1. ASSUME NEW x \in Messages PROVE Attempts(x)' <= 1 /\ (Done(x)' => Attempts(x)' = 0)
    <3>1. Attempts(x) <= 1 /\ (Done(x) => Attempts(x) = 0)
      BY Zenon DEF ServiceInv, OneAttempt
    <3>2. QED
      BY <1>4, <1>5, <3>1
  <2>2. QED
    BY Zenon, <2>1 DEF OneAttempt
<1>7. Unsent'
  <2>1. \A i \in Ids : call'[i] \in {"idle", "send"} => i # id /\ call[i] = call'[i]
    BY Zenon, <1>2 DEF ServiceInv, Typed
  <2>2. \A i \in Ids : i # id => Call[i] # m /\ Call[i] \in Messages
    BY Zenon, <1>1, MessageIds
  <2>3. QED
    BY <1>5, <2>1, <2>2 DEF ServiceInv, Unsent
<1>8. OkFollows' /\ WriteOnce' /\ OwedExecuted'
  BY Zenon, <1>2 DEF ServiceInv, OkFollows, WriteOnce, OwedExecuted
<1>9. OkExecuted'
  BY Zenon, <1>2 DEF ServiceInv, Typed, OkExecuted
<1>10. QED
  BY Zenon, <1>3, <1>6, <1>7, <1>8, <1>9 DEF ServiceInv

\* procSendQue takes a request from the queue.
LEMMA TakeInv ==
  ASSUME ServiceInv, Take, UNCHANGED clerkVars
  PROVE  ServiceInv'
<1>1. /\ hand = << >> /\ sendQue # << >> /\ hand' = <<Head(sendQue)>> /\ sendQue' = Tail(sendQue)
      /\ UNCHANGED <<call, channel, respQue, failQue, resending, weights, LeaderId, working, owed,
                     executed>>
  BY Zenon DEF Take, clerkVars, nodeVars, envVars
<1>2. Head(sendQue) \in Messages /\ Tail(sendQue) \in Seq(Messages)
  BY Zenon, <1>1, TakenOff DEF ServiceInv, Typed
<1>3. Typed'
  BY Zenon, <1>1, <1>2 DEF ServiceInv, Typed, Hands
<1>4. ASSUME NEW x \in Messages PROVE Attempts(x)' <= Attempts(x)
  <2>1. Count(sendQue', x) = Count(sendQue, x) - (IF Head(sendQue) = x THEN 1 ELSE 0)
    BY Zenon, <1>1, CountQueue DEF ServiceInv, Typed
  <2>2. Held(x) = 0 /\ Held(x)' = (IF Head(sendQue) = x THEN 1 ELSE 0) /\ Resent(x)' = Resent(x)
    BY Zenon, <1>1 DEF Held, Resent
  <2>3. /\ CountAt(working', x) = CountAt(working, x)
        /\ Count(failQue', TimedOut(x)) = Count(failQue, TimedOut(x))
    BY Zenon, <1>1
  <2>4. Typed
    BY Zenon DEF ServiceInv
  <2>5. QED
    BY <2>1, <2>2, <2>3, <2>4, AttemptsAdd DEF Attempts
<1>5. QED
  BY Zenon, <1>1, <1>3, <1>4, AttemptInv

\* procSendQue writes the request to a connection, which may be a closed one.
LEMMA ForwardInv ==
  ASSUME ServiceInv, Forward, UNCHANGED clerkVars
  PROVE  ServiceInv'
<1>0. Typed /\ IsFiniteSet(working)
  BY Zenon DEF ServiceInv, Typed
<1>1. /\ Len(hand) = 2 /\ weights' = weights \cup {hand[2]} /\ hand' = << >>
      /\ working' = working \/ working' = working \cup {hand}
      /\ UNCHANGED <<call, channel, sendQue, respQue, failQue, resending, LeaderId, owed, executed>>
  BY Zenon DEF Forward, adjustWeight, clerkVars
<1>2. hand \in Messages \X Node
  <2>1. hand \in Hands
    BY Zenon DEF ServiceInv, Typed
  <2>2. Len(<< >>) = 0 /\ \A m \in Messages : Len(<<m>>) = 1
    BY Zenon
  <2>3. QED
    BY <1>1, <2>1, <2>2 DEF Hands
<1>3. PICK m \in Messages, n \in Node : hand = <<m, n>>
  BY <1>2
<1>4. Held(m) = 1 /\ hand[1] = m /\ hand[2] = n
  BY Zenon, <1>3 DEF Held
<1>5. CountAt(working, m) = 0
  <2>1. Attempts(m) <= 1
    BY Zenon DEF ServiceInv, OneAttempt
  <2>2. QED
    BY <1>0, <1>4, <2>1, AttemptsAdd DEF Attempts
<1>6. hand \notin working
  BY <1>0, <1>4, <1>5, CountPairs
<1>7. Typed'
  <2>1. IsFiniteSet(working')
    <3>1. IsFiniteSet(working \cup {hand})
      BY Zenon, <1>0, FS_AddElement
    <3>2. QED
      BY Zenon, <1>0, <1>1, <3>1
  <2>2. working' \subseteq Messages \X Node
    BY Zenon, <1>0, <1>1, <1>2 DEF Typed
  <2>3. QED
    BY Zenon, <1>0, <1>1, <1>4, <2>1, <2>2 DEF Typed, Hands
<1>8. ASSUME NEW x \in Messages PROVE Attempts(x)' <= Attempts(x)
  <2>1. Held(x) = (IF m = x THEN 1 ELSE 0) /\ Held(x)' = 0 /\ Resent(x)' = Resent(x)
    BY Zenon, <1>1, <1>3, <1>4 DEF Held, Resent
  <2>2. \/ CountAt(working', x) = CountAt(working, x)
        \/ CountAt(working', x) = CountAt(working, x) + (IF m = x THEN 1 ELSE 0)
    <3>1. CountAt(working \cup {hand}, x) = CountAt(working, x) + (IF hand[1] = x THEN 1 ELSE 0)
      BY Zenon, <1>0, <1>6, CountPairs
    <3>2. QED
      BY Zenon, <1>1, <1>4, <3>1
  <2>3. /\ Count(sendQue', x) = Count(sendQue, x)
        /\ Count(failQue', TimedOut(x)) = Count(failQue, TimedOut(x))
    BY Zenon, <1>1
  <2>4. QED
    BY <1>0, <2>1, <2>2, <2>3, AttemptsAdd DEF Attempts
<1>9. QED
  BY Zenon, <1>1, <1>7, <1>8, AttemptInv

\* What serveServ does to the queues.
LEMMA Served ==
  ASSUME ServiceInv, NEW m \in Messages, NEW err \in Errors, serveServ(m, err)
  PROVE  /\ UNCHANGED <<sendQue, hand, resending, LeaderId>> /\ weights' \subseteq Node
         /\ respQue' \in Seq(Reply) /\ failQue' \in Seq(Failure)
         /\ \A k \in 1..Len(respQue') :
              \/ k \in 1..Len(respQue) /\ respQue'[k] = respQue[k]
              \/ respQue'[k].msg = m /\ respQue'[k].err = err
         /\ \A x \in Messages :
              Count(failQue', TimedOut(x)) =
                Count(failQue, TimedOut(x)) + (IF x = m /\ err = "HandleTimeout" THEN 1 ELSE 0)
<1> DEFINE r == [msg |-> m, err |-> err]
<1>0. Typed /\ respQue \in Seq(Reply) /\ failQue \in Seq(Failure)
  BY Zenon DEF ServiceInv, Typed
<1>1. /\ UNCHANGED <<sendQue, hand, resending, LeaderId>>
      /\ weights' = weights \/ weights' = weights \cup {0}
  BY Zenon DEF serveServ, adjustWeight
<1>2. weights' \subseteq Node
  BY Zenon, <1>0, <1>1, ClusterAssumption DEF Typed
<1>3. /\ r.msg = m /\ r.err = err
      /\ \/ r \in Reply /\ err # "HandleTimeout" /\ respQue' = Append(respQue, r) /\ failQue' = failQue
         \/ r \in Failure /\ failQue' = Append(failQue, r) /\ respQue' = respQue
  BY Zenon DEF serveServ, Reply, Failure, Errors
<1>4. \A x \in Messages : r = TimedOut(x) <=> x = m /\ err = "HandleTimeout"
  BY DEF TimedOut
<1> HIDE DEF r
<1>5. CASE r \in Reply /\ err # "HandleTimeout" /\ respQue' = Append(respQue, r) /\ failQue' = failQue
  <2>1. /\ Append(respQue, r) \in Seq(Reply)
        /\ \A k \in 1..Len(Append(respQue, r)) :
             (k \in 1..Len(respQue) /\ Append(respQue, r)[k] = respQue[k]) \/ Append(respQue, r)[k] = r
    BY Zenon, <1>0, <1>5, Appended
  <2>2. /\ respQue' \in Seq(Reply)
        /\ \A k \in 1..Len(respQue') :
              \/ k \in 1..Len(respQue) /\ respQue'[k] = respQue[k]
              \/ respQue'[k].msg = m /\ respQue'[k].err = err
    BY Zenon, <1>3, <1>5, <2>1
  <2>3. ASSUME NEW x \in Messages
        PROVE  Count(failQue', TimedOut(x)) =
                 Count(failQue, TimedOut(x)) + (IF x = m /\ err = "HandleTimeout" THEN 1 ELSE 0)
    BY <1>0, <1>5, AttemptsAdd
  <2>4. QED
    BY Zenon, <1>0, <1>1, <1>2, <1>5, <2>2, <2>3
<1>6. CASE r \in Failure /\ failQue' = Append(failQue, r) /\ respQue' = respQue
  <2>1. Append(failQue, r) \in Seq(Failure)
    BY Zenon, <1>0, <1>6, Appended
  <2>2. ASSUME NEW x \in Messages
        PROVE  Count(failQue', TimedOut(x)) =
                 Count(failQue, TimedOut(x)) + (IF x = m /\ err = "HandleTimeout" THEN 1 ELSE 0)
    <3>1. Count(Append(failQue, r), TimedOut(x)) =
            Count(failQue, TimedOut(x)) + (IF r = TimedOut(x) THEN 1 ELSE 0)
      BY <1>0, <1>6, CountQueue
    <3>2. QED
      BY Zenon, <1>4, <1>6, <3>1
  <2>3. QED
    BY Zenon, <1>0, <1>1, <1>2, <1>6, <2>1, <2>2
<1>7. QED
  BY Zenon, <1>3, <1>5, <1>6

\* A good answer to a write that is executed keeps OkFollows.
LEMMA ServedFollows ==
  ASSUME ServiceInv, NEW m \in Messages, NEW err \in Errors, serveServ(m, err),
         UNCHANGED <<channel, executed>>, err = "OK" /\ ~IsRead(m) => executed[m.id] = 1
  PROVE  OkFollows'
<1>1. ASSUME NEW k \in 1..Len(respQue'), respQue'[k].err = "OK", ~IsRead(respQue'[k].msg)
      PROVE  executed[respQue'[k].msg.id] = 1
  <2>1. CASE k \in 1..Len(respQue) /\ respQue'[k] = respQue[k]
    BY Zenon, <1>1, <2>1 DEF ServiceInv, OkFollows
  <2>2. CASE respQue'[k].msg = m /\ respQue'[k].err = err
    BY Zenon, <1>1, <2>2
  <2>3. QED
    BY Zenon, <2>1, <2>2, Served
<1>2. QED
  BY Zenon, <1>1 DEF ServiceInv, OkFollows

\* What is done after serveServ.
LEMMA ServedDone ==
  ASSUME ServiceInv, NEW m \in Messages, NEW err \in Errors, serveServ(m, err),
         UNCHANGED <<channel, executed>>, NEW x \in Messages, Done(x)'
  PROVE  Done(x) \/ (x = m /\ err # "HandleTimeout")
<1>1. CASE executed[x.id] > 0 \/ channel[x.id] # "empty"
  BY Zenon, <1>1 DEF Done
<1>2. ASSUME NEW k \in 1..Len(respQue'), respQue'[k].msg = x
      PROVE  Done(x) \/ (x = m /\ err # "HandleTimeout")
  <2>1. CASE k \in 1..Len(respQue) /\ respQue'[k] = respQue[k]
    BY Zenon, <1>2, <2>1 DEF Done
  <2>2. CASE respQue'[k].msg = m /\ respQue'[k].err = err
    <3>1. respQue'[k] \in Reply
      BY <1>2, Served
    <3>2. respQue'[k].err # "HandleTimeout"
      BY Zenon, <3>1 DEF Reply
    <3>3. QED
      BY Zenon, <1>2, <2>2, <3>2
  <2>3. QED
    BY Zenon, <2>1, <2>2, Served
<1>3. QED
  BY Zenon, <1>1, <1>2 DEF Done

\* The attempts when a request leaves a node.
LEMMA Leaves ==
  ASSUME ServiceInv, NEW w \in working, working' = working \ {w}
  PROVE  /\ w[1] \in Messages /\ Attempts(w[1]) = 1 /\ ~Done(w[1])
         /\ IsFiniteSet(working') /\ working' \subseteq Messages \X Node
         /\ \A x \in Messages :
              CountAt(working', x) = CountAt(working, x) - (IF w[1] = x THEN 1 ELSE 0)
<1>0. Typed /\ IsFiniteSet(working) /\ working \subseteq Messages \X Node
  BY Zenon DEF ServiceInv, Typed
<1>1. w[1] \in Messages
  BY <1>0
<1>2. CountAt(working, w[1]) >= 1
  BY Zenon, <1>0, CountPairs
<1>3. Attempts(w[1]) <= 1 /\ (Done(w[1]) => Attempts(w[1]) = 0)
  BY Zenon, <1>1 DEF ServiceInv, OneAttempt
<1>4. Attempts(w[1]) = 1 /\ ~Done(w[1])
  BY <1>0, <1>1, <1>2, <1>3, AttemptsAdd DEF Attempts
<1>5. IsFiniteSet(working') /\ working' \subseteq Messages \X Node
  BY Zenon, <1>0, FS_RemoveElement
<1>6. ASSUME NEW x \in Messages
      PROVE  CountAt(working', x) = CountAt(working, x) - (IF w[1] = x THEN 1 ELSE 0)
  BY Zenon, <1>0, CountPairs
<1>7. QED
  BY Zenon, <1>1, <1>4, <1>5, <1>6

\* A node answers a read, or refuses a write.
LEMMA AnswerInv ==
  ASSUME ServiceInv, NEW w \in working, NEW err \in Errors,
         working' = working \ {w}, serveServ(w[1], err),
         err = "OK" => IsRead(w[1]), UNCHANGED <<executed, owed, clerkVars>>
  PROVE  ServiceInv'
<1> DEFINE m == w[1]
<1>0. Typed
  BY Zenon DEF ServiceInv
<1>1. UNCHANGED <<call, channel>>
  BY Zenon DEF clerkVars
<1>2. m \in Messages /\ Attempts(m) = 1 /\ ~Done(m) /\ serveServ(m, err)
  BY Zenon, Leaves
<1>3. Typed'
  BY Zenon, <1>0, <1>1, <1>2, Served, Leaves DEF Typed
<1>4. OkFollows'
  BY Zenon, <1>1, <1>2, ServedFollows
<1>5. OwedExecuted'
  BY Zenon DEF ServiceInv, OwedExecuted
<1>6. ASSUME NEW x \in Messages PROVE HandedOn(x)
  <2>1. /\ CountAt(working', x) = CountAt(working, x) - (IF m = x THEN 1 ELSE 0)
        /\ Count(failQue', TimedOut(x)) =
             Count(failQue, TimedOut(x)) + (IF x = m /\ err = "HandleTimeout" THEN 1 ELSE 0)
        /\ Count(sendQue', x) = Count(sendQue, x)
    <3>1. CountAt(working', x) = CountAt(working, x) - (IF m = x THEN 1 ELSE 0)
      BY Zenon, Leaves
    <3>2. Count(failQue', TimedOut(x)) =
             Count(failQue, TimedOut(x)) + (IF x = m /\ err = "HandleTimeout" THEN 1 ELSE 0)
      <4>1. m \in Messages /\ serveServ(m, err)
        BY Zenon, <1>2
      <4> HIDE DEF m
      <4>2. QED
        BY <4>1, Served
    <3>3. sendQue' = sendQue
      BY Zenon, <1>2, Served
    <3>4. QED
      BY Zenon, <3>1, <3>2, <3>3
  <2>2. Held(x)' = Held(x) /\ Resent(x)' = Resent(x)
    BY Zenon, <1>2, Served DEF Held, Resent
  <2> HIDE DEF m
  <2>3. Attempts(x)' = Attempts(x) - (IF x = m /\ err # "HandleTimeout" THEN 1 ELSE 0)
        /\ Attempts(x) \in Nat
    BY <1>0, <2>1, <2>2, AttemptsAdd DEF Attempts
  <2>4. Done(x)' => Done(x) \/ (x = m /\ err # "HandleTimeout")
    BY Zenon, <1>1, <1>2, ServedDone
  <2>5. executed' = executed /\ executed[x.id] \in Nat /\ executed[x.id] <= 1
        /\ (Done(x) => Attempts(x) = 0)
    BY Zenon, MessageIds DEF ServiceInv, Typed, WriteOnce, OneAttempt
  <2>6. QED
    BY <1>2, <2>3, <2>4, <2>5 DEF HandedOn
<1>7. QED
  BY Zenon, <1>1, <1>3, <1>4, <1>5, <1>6, MoveInv

\* A write of a node is committed.
LEMMA CommitInv ==
  ASSUME ServiceInv, NEW m \in Messages, NEW n \in Node, NEW err \in {"OK", "LeaderChanged"},
         CommitWrite(m, n, err), UNCHANGED clerkVars
  PROVE  ServiceInv'
<1> DEFINE w == <<m, n>>
<1>0. Typed /\ executed \in [Ids -> Nat]
  BY Zenon DEF ServiceInv, Typed
<1>1. /\ w \in working /\ working' = working \ {w} /\ executed' = [executed EXCEPT ![m.id] = @ + 1]
      /\ owed' = owed \cup {<<m, q, IF q = n THEN err ELSE "OK">> : q \in Node}
      /\ UNCHANGED <<call, channel, sendQue, respQue, failQue, hand, resending, weights, LeaderId>>
  BY Zenon DEF CommitWrite, Execute, clerkVars, queueVars, nodeVars
<1>2. w[1] = m /\ m.id \in Ids
  BY Zenon, MessageIds
<1> HIDE DEF w
<1>3. Attempts(m) = 1 /\ ~Done(m)
  BY Zenon, <1>1, <1>2, Leaves
<1>4. executed[m.id] = 0 /\ executed[m.id] \in Nat
  <2>1. executed[m.id] \in Nat /\ ~(executed[m.id] > 0)
    BY Zenon, <1>0, <1>2, <1>3 DEF Done
  <2>2. QED
    BY <2>1
<1>5. executed'[m.id] = 1 /\ executed' \in [Ids -> Nat] /\ \A id \in Ids : id # m.id => executed'[id] = executed[id]
  BY <1>0, <1>1, <1>2, <1>4
<1>6. \A id \in Ids : executed[id] = 1 => executed'[id] = 1
  BY Zenon, <1>5
<1>7. Typed'
  BY Zenon, <1>0, <1>1, <1>5, Leaves DEF Typed
<1>8. OwedExecuted'
  <2>1. ASSUME NEW v \in owed
        PROVE  v[1] \in Messages /\ v[3] \in {"OK", "LeaderChanged"} /\ executed'[v[1].id] = 1
    BY Zenon, <1>6, MessageIds DEF ServiceInv, OwedExecuted
  <2>2. ASSUME NEW q \in Node, NEW v, v = <<m, q, IF q = n THEN err ELSE "OK">>
        PROVE  v[1] \in Messages /\ v[3] \in {"OK", "LeaderChanged"} /\ executed'[v[1].id] = 1
    <3>1. v[1] = m /\ v[3] = IF q = n THEN err ELSE "OK"
      BY <2>2
    <3>2. QED
      BY Zenon, <1>5, <3>1
  <2>3. QED
    BY Zenon, <1>1, <2>1, <2>2 DEF OwedExecuted
<1>9. OkFollows'
  <2>1. \A k \in 1..Len(respQue) : respQue[k].msg.id \in Ids
    <3>1. ASSUME NEW k \in 1..Len(respQue) PROVE respQue[k] \in Reply
      BY <1>0 DEF Typed
    <3>2. QED
      BY Zenon, <3>1, MessageIds DEF Reply
  <2>2. QED
    BY Zenon, <1>1, <1>6, <2>1 DEF ServiceInv, OkFollows
<1>10. ASSUME NEW x \in Messages PROVE HandedOn(x)
  <2>1. CountAt(working', x) = CountAt(working, x) - (IF m = x THEN 1 ELSE 0)
    BY Zenon, <1>1, <1>2, Leaves
  <2>2. /\ Held(x)' = Held(x) /\ Resent(x)' = Resent(x) /\ Count(sendQue', x) = Count(sendQue, x)
        /\ Count(failQue', TimedOut(x)) = Count(failQue, TimedOut(x))
    BY Zenon, <1>1 DEF Held, Resent
  <2>3. Attempts(x)' = Attempts(x) - (IF m = x THEN 1 ELSE 0) /\ Attempts(x) \in Nat
    BY <1>0, <2>1, <2>2, AttemptsAdd DEF Attempts
  <2>4. x # m => x.id # m.id /\ x.id \in Ids
    BY Zenon, <1>2, MessageIds
  <2>5. x # m => (Done(x)' <=> Done(x)) /\ executed'[x.id] = executed[x.id]
    BY Zenon, <1>1, <1>5, <2>4 DEF Done
  <2>6. executed[x.id] \in Nat /\ executed[x.id] <= 1 /\ (Done(x) => Attempts(x) = 0)
    BY Zenon, MessageIds DEF ServiceInv, Typed, WriteOnce, OneAttempt
  <2>7. QED
    BY <1>3, <1>4, <1>5, <2>3, <2>5, <2>6 DEF HandedOn
<1>11. QED
  BY Zenon, <1>1, <1>7, <1>8, <1>9, <1>10, MoveInv

\* A node drops a request.
LEMMA UnansweredInv ==
  ASSUME ServiceInv, NEW w \in working, working' = working \ {w},
         UNCHANGED <<queueVars, nodeVars, owed, executed, clerkVars>>
  PROVE  ServiceInv'
<1>0. Typed
  BY Zenon DEF ServiceInv
<1>1. UNCHANGED <<call, channel, executed, sendQue, respQue, failQue, hand, resending, weights,
                  LeaderId, owed>>
  BY Zenon DEF clerkVars, queueVars, nodeVars
<1>2. Typed'
  BY Zenon, <1>0, <1>1, Leaves DEF Typed
<1>3. ASSUME NEW x \in Messages PROVE Attempts(x)' <= Attempts(x)
  <2>1. CountAt(working', x) = CountAt(working, x) - (IF w[1] = x THEN 1 ELSE 0)
    BY Zenon, Leaves
  <2>2. /\ Held(x)' = Held(x) /\ Resent(x)' = Resent(x) /\ Count(sendQue', x) = Count(sendQue, x)
        /\ Count(failQue', TimedOut(x)) = Count(failQue, TimedOut(x))
    BY Zenon, <1>1 DEF Held, Resent
  <2>3. QED
    BY <1>0, <2>1, <2>2, AttemptsAdd DEF Attempts
<1>4. QED
  BY Zenon, <1>1, <1>2, <1>3, AttemptInv

\* A node that knows the clerk answers a write that it applies.
LEMMA AnswerWriteInv ==
  ASSUME ServiceInv, NEW w \in owed, AnswerWrite(w), UNCHANGED clerkVars
  PROVE  ServiceInv'
<1> DEFINE m == w[1]
           err == w[3]
<1>0. Typed
  BY Zenon DEF ServiceInv
<1>1. /\ serveServ(m, err) /\ owed' = owed \ {w}
      /\ UNCHANGED <<call, channel, working, executed>>
  BY Zenon DEF AnswerWrite, clerkVars
<1>2. m \in Messages /\ err \in Errors /\ err # "HandleTimeout" /\ executed[m.id] = 1
  BY Zenon DEF ServiceInv, OwedExecuted, Errors
<1> HIDE DEF m, err
<1>3. Typed'
  BY Zenon, <1>0, <1>1, <1>2, Served DEF Typed
<1>4. OkFollows'
  BY Zenon, <1>1, <1>2, ServedFollows
<1>5. OwedExecuted'
  BY Zenon, <1>1 DEF ServiceInv, OwedExecuted
<1>6. Done(m)
  BY <1>2 DEF Done
<1>7. ASSUME NEW x \in Messages PROVE HandedOn(x)
  <2>1. Count(failQue', TimedOut(x)) =
          Count(failQue, TimedOut(x)) + (IF x = m /\ err = "HandleTimeout" THEN 1 ELSE 0)
    BY Zenon, <1>1, <1>2, Served
  <2>2. UNCHANGED <<sendQue, hand, resending>>
    BY Zenon, <1>1, <1>2, Served
  <2>3. /\ Held(x)' = Held(x) /\ Resent(x)' = Resent(x) /\ Count(sendQue', x) = Count(sendQue, x)
        /\ CountAt(working', x) = CountAt(working, x)
    BY Zenon, <1>1, <2>2 DEF Held, Resent
  <2>4. Attempts(x)' = Attempts(x) /\ Attempts(x) \in Nat
    BY <1>0, <1>2, <2>1, <2>3, AttemptsAdd DEF Attempts
  <2>5. Done(x)' => Done(x)
    BY Zenon, <1>1, <1>2, <1>6, ServedDone
  <2>6. executed' = executed /\ executed[x.id] \in Nat /\ executed[x.id] <= 1
        /\ (Done(x) => Attempts(x) = 0)
    BY Zenon, <1>1, MessageIds DEF ServiceInv, Typed, WriteOnce, OneAttempt
  <2>7. QED
    BY <2>4, <2>5, <2>6 DEF HandedOn
<1>8. QED
  BY Zenon, <1>1, <1>3, <1>4, <1>5, <1>7, MoveInv

\* A node that does not know the clerk answers nothing.
LEMMA SkipInv ==
  ASSUME ServiceInv, NEW w, SkipWrite(w), UNCHANGED clerkVars
  PROVE  ServiceInv'
<1>1. /\ owed' \subseteq owed
      /\ UNCHANGED <<call, channel, executed, sendQue, respQue, failQue, working, resending,
                     hand, weights, LeaderId>>
  BY Zenon DEF SkipWrite, clerkVars, queueVars, nodeVars
<1>2. /\ call \in [Ids -> {"idle", "send", "wait", "ok", "error"}]
      /\ hand \in Hands /\ weights \subseteq Node /\ LeaderId \in Node
  BY Zenon DEF ServiceInv, Typed
<1>3. \A x \in Messages : Held(x)' = Held(x)
  BY Zenon, <1>1 DEF Held
<1>4. QED
  BY Zenon, <1>1, <1>2, <1>3, QuietInv

\* The steps of the nodes.
LEMMA NodeInv ==
  ASSUME ServiceInv, NodeStep
  PROVE  ServiceInv'
<1>1. UNCHANGED clerkVars
  BY Zenon DEF NodeStep
<1>2. ASSUME NEW w \in working, Answer(w[1], w[2]) PROVE ServiceInv'
  <2>1. PICK m \in Messages, n \in Node : w = <<m, n>>
    <3>1. w \in Messages \X Node
      BY Zenon DEF ServiceInv, Typed
    <3>2. QED
      BY <3>1
  <2>2. w[1] = m /\ w[2] = n
    BY Zenon, <2>1
  <2>3. Answer(m, n)
    BY Zenon, <1>2, <2>2
  <2>4. CASE \E err \in {"OK", "NoKey", "LeaderChanged", "HandleTimeout"} : AnswerRead(m, n, err)
    <3>1. PICK err \in Errors : AnswerRead(m, n, err)
      BY Zenon, <2>4 DEF Errors
    <3>2. /\ working' = working \ {w} /\ serveServ(w[1], err) /\ IsRead(w[1])
          /\ UNCHANGED <<executed, owed>>
      BY Zenon, <2>1, <2>2, <3>1 DEF AnswerRead
    <3>3. QED
      BY Zenon, <1>1, <3>2, AnswerInv
  <2>5. CASE \E err \in {"OK", "LeaderChanged"} : CommitWrite(m, n, err)
    BY Zenon, <1>1, <2>5, CommitInv
  <2>6. CASE RejectWrite(m, n)
    <3>1. /\ working' = working \ {w} /\ serveServ(w[1], "LeaderChanged")
          /\ UNCHANGED <<executed, owed>>
      BY Zenon, <2>1, <2>2, <2>6 DEF RejectWrite
    <3>2. "LeaderChanged" \in Errors /\ "LeaderChanged" # "OK"
      BY Zenon DEF Errors
    <3>3. QED
      BY Zenon, <1>1, <3>1, <3>2, AnswerInv
  <2>7. CASE Unanswered(m, n)
    <3>1. working' = working \ {w} /\ UNCHANGED <<queueVars, nodeVars, owed, executed>>
      BY Zenon, <2>1, <2>7 DEF Unanswered
    <3>2. QED
      BY Zenon, <1>1, <3>1, UnansweredInv
  <2>8. QED
    BY Zenon, <2>3, <2>4, <2>5, <2>6, <2>7 DEF Answer
<1>3. ASSUME NEW w \in owed, AnswerWrite(w) \/ SkipWrite(w) PROVE ServiceInv'
  BY Zenon, <1>1, <1>3, AnswerWriteInv, SkipInv
<1>4. QED
  BY Zenon, <1>2, <1>3 DEF NodeStep

\* procRespQue delivers an answer, or drops it.
LEMMA ReceiverInv ==
  ASSUME ServiceInv, Receiver
  PROVE  ServiceInv'
<1> DEFINE m == Head(respQue).msg
           err == Head(respQue).err
<1>0. Typed /\ respQue \in Seq(Reply) /\ channel \in [Ids -> {"empty", "OK", "NoKey"}]
  BY Zenon DEF ServiceInv, Typed
<1>1. /\ respQue # << >> /\ respQue' = Tail(respQue)
      /\ UNCHANGED <<call, sendQue, failQue, hand, resending, weights, LeaderId, working, owed,
                     executed>>
  BY Zenon DEF Receiver, procRespQue, processResponse, nodeVars, envVars, clerkVars
<1>2. channel' = channel \/ channel' = [channel EXCEPT ![m.id] = err]
  BY Zenon DEF Receiver, procRespQue, processResponse, clerkVars
<1>3. /\ Head(respQue) \in Reply /\ Head(respQue) = respQue[1] /\ 1 \in 1..Len(respQue)
      /\ respQue' \in Seq(Reply)
      /\ \A k \in 1..Len(respQue') : k + 1 \in 1..Len(respQue) /\ respQue'[k] = respQue[k + 1]
  BY Zenon, <1>0, <1>1, TakenOff
<1>4. m \in Messages /\ err \in {"OK", "NoKey"} /\ m.id \in Ids
  BY Zenon, <1>3, MessageIds DEF Reply
<1> HIDE DEF m, err
<1>5. /\ channel' \in [Ids -> {"empty", "OK", "NoKey"}]
      /\ \A id \in Ids : id # m.id => channel'[id] = channel[id]
      /\ channel'[m.id] = channel[m.id] \/ channel'[m.id] = err
  BY Zenon, <1>0, <1>2, <1>4
<1>6. Typed'
  BY Zenon, <1>0, <1>1, <1>3, <1>5 DEF Typed
<1>7. OkFollows'
  <2>1. \A k \in 1..Len(respQue') : respQue'[k].err = "OK" /\ ~IsRead(respQue'[k].msg) =>
                                       executed[respQue'[k].msg.id] = 1
    BY ZenonT(30), <1>3 DEF ServiceInv, OkFollows
  <2>2. err = "OK" /\ ~IsRead(m) => executed[m.id] = 1
    BY Zenon, <1>3 DEF ServiceInv, OkFollows, m, err
  <2>3. ASSUME NEW id \in Ids, channel'[id] = "OK", ~IsRead(Call[id]) PROVE executed[id] = 1
    <3>1. CASE channel'[id] = channel[id]
      BY Zenon, <2>3, <3>1 DEF ServiceInv, OkFollows
    <3>2. CASE id = m.id /\ channel'[id] = err
      BY Zenon, <1>4, <2>2, <2>3, <3>2, MessageIds
    <3>3. QED
      BY <1>5, <3>1, <3>2
  <2>4. QED
    BY Zenon, <1>1, <2>1, <2>3 DEF OkFollows
<1>8. OwedExecuted'
  BY Zenon, <1>1 DEF ServiceInv, OwedExecuted
<1>9. Done(m)
  BY Zenon, <1>3 DEF Done, m
<1>10. ASSUME NEW x \in Messages PROVE HandedOn(x)
  <2>1. Held(x)' = Held(x) /\ Resent(x)' = Resent(x)
    BY Zenon, <1>1 DEF Held, Resent
  <2>2. Attempts(x)' = Attempts(x)
    BY Zenon, <1>1, <2>1 DEF Attempts
  <2>3. Attempts(x) \in Nat
    BY Zenon, <1>0, AttemptsAdd
  <2>4. Done(x)' => Done(x)
    <3>1. CASE x = m
      BY Zenon, <1>9, <3>1
    <3>2. CASE x # m
      <4>1. x.id \in Ids /\ x.id # m.id
        BY Zenon, <1>4, <3>2, MessageIds
      <4>2. executed'[x.id] = executed[x.id] /\ channel'[x.id] = channel[x.id]
        BY Zenon, <1>1, <1>5, <4>1
      <4>3. QED
        BY Zenon, <1>3, <4>2 DEF Done
    <3>3. QED
      BY Zenon, <3>1, <3>2
  <2>5. executed' = executed /\ executed[x.id] \in Nat /\ executed[x.id] <= 1
        /\ (Done(x) => Attempts(x) = 0)
    BY Zenon, <1>1, MessageIds DEF ServiceInv, Typed, WriteOnce, OneAttempt
  <2>6. QED
    BY <2>2, <2>3, <2>4, <2>5 DEF HandedOn
<1>11. QED
  BY Zenon, <1>1, <1>6, <1>7, <1>8, <1>10, MoveInv

\* procFailedReq gives a request up, or hands it to a goroutine.
LEMMA FailedInv ==
  ASSUME ServiceInv, procFailedReq, UNCHANGED clerkVars
  PROVE  ServiceInv'
<1> DEFINE r == Head(failQue)
<1>0. Typed /\ failQue \in Seq(Failure) /\ resending \subseteq Messages
  BY Zenon DEF ServiceInv, Typed
<1>1. /\ failQue # << >> /\ failQue' = Tail(failQue) /\ weights' = weights \cup {0}
      /\ UNCHANGED <<call, channel, sendQue, respQue, hand, LeaderId, working, owed, executed>>
  BY Zenon DEF procFailedReq, adjustWeight, envVars, clerkVars
<1>2. \/ r.err = "HandleTimeout" /\ resending' = resending \cup {r.msg}
      \/ resending' = resending
  BY Zenon DEF procFailedReq
<1>3. r \in Failure /\ r = failQue[1] /\ 1 \in 1..Len(failQue) /\ failQue' \in Seq(Failure)
  BY Zenon, <1>0, <1>1, TakenOff
<1>4. r.msg \in Messages
  BY Zenon, <1>3 DEF Failure
<1>5. r.err = "HandleTimeout" => r = TimedOut(r.msg)
  BY <1>3 DEF Failure, TimedOut
<1> HIDE DEF r
<1>6. Typed'
  <2>1. weights' \subseteq Node
    BY Zenon, <1>0, <1>1, ClusterAssumption DEF Typed
  <2>2. resending' \subseteq Messages
    BY Zenon, <1>0, <1>2, <1>4
  <2>3. QED
    BY Zenon, <1>0, <1>1, <1>3, <2>1, <2>2 DEF Typed
<1>7. ASSUME NEW x \in Messages PROVE Attempts(x)' <= Attempts(x)
  <2>1. Count(failQue', TimedOut(x)) = Count(failQue, TimedOut(x)) - (IF r = TimedOut(x) THEN 1 ELSE 0)
    BY Zenon, <1>0, <1>1, CountQueue DEF r
  <2>2. /\ Held(x)' = Held(x) /\ Count(sendQue', x) = Count(sendQue, x)
        /\ CountAt(working', x) = CountAt(working, x)
    BY Zenon, <1>1 DEF Held
  <2>3. Resent(x)' <= Resent(x) + (IF r = TimedOut(x) THEN 1 ELSE 0)
    <3>1. CASE x \in resending \/ x \notin resending'
      BY <3>1 DEF Resent
    <3>2. CASE x \notin resending /\ x \in resending'
      <4>1. r = TimedOut(x)
        BY Zenon, <1>2, <1>5, <3>2
      <4>2. QED
        BY <3>2, <4>1 DEF Resent
    <3>3. QED
      BY Zenon, <3>1, <3>2
  <2>4. /\ Count(failQue, TimedOut(x)) \in Nat /\ Resent(x) \in {0, 1} /\ Resent(x)' \in {0, 1}
        /\ Count(sendQue, x) \in Nat /\ CountAt(working, x) \in Nat /\ Held(x) \in {0, 1}
    BY Zenon, <1>0, <1>6, AttemptsAdd, AttemptsAddNext
  <2>5. QED
    BY <2>1, <2>2, <2>3, <2>4 DEF Attempts
<1>8. QED
  BY Zenon, <1>1, <1>6, <1>7, AttemptInv

\* The goroutine of procFailedReq queues the request again.
LEMMA ResendInv ==
  ASSUME ServiceInv, NEW m \in resending, RespToReq(m), UNCHANGED clerkVars
  PROVE  ServiceInv'
<1>0. Typed /\ sendQue \in Seq(Messages) /\ m \in Messages
  BY Zenon DEF ServiceInv, Typed
<1>1. /\ resending' = resending \ {m} /\ sendQue' = Append(sendQue, m)
      /\ UNCHANGED <<call, channel, respQue, failQue, hand, weights, LeaderId, working, owed,
                     executed>>
  BY Zenon DEF RespToReq, nodeVars, envVars, clerkVars
<1>2. Typed'
  <2>1. sendQue' \in Seq(Messages)
    BY Zenon, <1>0, <1>1, Appended
  <2>2. QED
    BY Zenon, <1>0, <1>1, <2>1 DEF Typed
<1>3. ASSUME NEW x \in Messages PROVE Attempts(x)' <= Attempts(x)
  <2>1. Count(sendQue', x) = Count(sendQue, x) + (IF m = x THEN 1 ELSE 0)
    BY <1>0, <1>1, CountQueue
  <2>2. /\ Held(x)' = Held(x) /\ CountAt(working', x) = CountAt(working, x)
        /\ Count(failQue', TimedOut(x)) = Count(failQue, TimedOut(x))
    BY Zenon, <1>1 DEF Held
  <2>3. Resent(x)' = Resent(x) - (IF m = x THEN 1 ELSE 0)
    BY <1>1 DEF Resent
  <2>4. /\ Count(failQue, TimedOut(x)) \in Nat /\ Resent(x) \in {0, 1}
        /\ Count(sendQue, x) \in Nat /\ CountAt(working, x) \in Nat /\ Held(x) \in {0, 1}
    BY Zenon, <1>0, AttemptsAdd
  <2>5. QED
    BY <2>1, <2>2, <2>3, <2>4 DEF Attempts
<1>4. QED
  BY Zenon, <1>1, <1>2, <1>3, AttemptInv

\* The steps of the clerks, of which only Return ends a call well.
LEMMA ClerkInv ==
  ASSUME ServiceInv, ClerkStep
  PROVE  ServiceInv'
<1>0. Typed /\ call \in [Ids -> {"idle", "send", "wait", "ok", "error"}]
  BY Zenon DEF ServiceInv, Typed
<1>1. UNCHANGED <<channel, executed, owed, sendQue, respQue, failQue, working, resending, hand,
                  weights, LeaderId>>
  BY Zenon DEF ClerkStep, prepareData, SendFails, Timeout, Return, GiveUp, Disconnect, clusterVars,
         queueVars, nodeVars, envVars
<1>2. /\ call' \in [Ids -> {"idle", "send", "wait", "ok", "error"}]
      /\ \A id \in Ids :
           /\ call'[id] \in {"idle", "send"} => call[id] \in {"idle", "send"}
           /\ call'[id] = "ok" => call[id] = "ok" \/ channel[id] = "OK"
  <2>1. CASE \E conn \in Breaking : Disconnect(conn)
    BY Zenon, <1>0, <2>1 DEF Disconnect
  <2>2. ASSUME NEW id \in Ids, prepareData(id) \/ SendFails(id) \/ Timeout(id) \/ Return(id)
        PROVE  \/ call[id] = "idle" /\ call' = [call EXCEPT ![id] = "send"]
               \/ call' = [call EXCEPT ![id] = "error"]
               \/ channel[id] = "OK" /\ call' = [call EXCEPT ![id] = "ok"]
    BY Zenon, <2>2 DEF prepareData, SendFails, Timeout, Return, GiveUp
  <2>3. QED
    BY Zenon, <1>0, <2>1, <2>2 DEF ClerkStep
<1>3. /\ hand' \in Hands /\ weights' \subseteq Node /\ LeaderId' \in Node
      /\ \A x \in Messages : Held(x)' = Held(x)
  BY Zenon, <1>0, <1>1 DEF Typed, Held
<1>4. QED
  BY Zenon, <1>1, <1>2, <1>3, QuietInv

\* The steps of the manager that move no request.
LEMMA ManagerInv ==
  ASSUME ServiceInv, UNCHANGED clerkVars,
         \/ pick \/ PickPanics \/ NotConnected
         \/ \E m \in serving : Register(m)
         \/ \E n \in Node : Close(n)
         \/ \E n \in Node, isLeader \in BOOLEAN : SyncAddr(n, isLeader) \/ SyncState(n, isLeader)
  PROVE  ServiceInv'
<1>0. /\ Typed /\ call \in [Ids -> {"idle", "send", "wait", "ok", "error"}]
      /\ hand \in Hands /\ weights \subseteq Node /\ LeaderId \in Node
  BY Zenon DEF ServiceInv, Typed
<1>1. UNCHANGED <<call, channel, executed, owed, sendQue, respQue, failQue, working, resending>>
  BY Zenon DEF pick, PickPanics, NotConnected, Register, Close, SyncAddr, SyncState, clerkVars, queueVars,
         nodeVars, envVars
<1>2. weights' \subseteq Node /\ LeaderId' \in Node
  BY Zenon, <1>0 DEF pick, PickPanics, NotConnected, Register, Close, SyncAddr, SyncState, adjustWeight,
              nodeVars
<1>3. \/ hand' = hand
      \/ Len(hand) = 1 /\ \E n \in Node : hand' = Append(hand, n)
      \/ Len(hand) = 2 /\ hand' = <<hand[1]>>
  BY Zenon, <1>0 DEF pick, PickPanics, NotConnected, Register, Close, SyncAddr, SyncState, queueVars
<1>4. hand' \in Hands /\ \A x \in Messages : Held(x)' = Held(x)
  <2>1. CASE hand' = hand
    BY Zenon, <1>0, <2>1 DEF Held
  <2>2. CASE Len(hand) = 1 /\ \E n \in Node : hand' = Append(hand, n)
    <3>1. PICK m \in Messages : hand = <<m>>
      BY <1>0, <2>2 DEF Hands
    <3>2. PICK n \in Node : hand' = <<m, n>>
      <4>1. ASSUME NEW n \in Node PROVE Append(<<m>>, n) = <<m, n>>
        <5> DEFINE S == Messages \cup Node
        <5>1. <<m>> \in Seq(S) /\ Len(<<m>>) = 1 /\ <<m>>[1] = m /\ n \in S
          OBVIOUS
        <5>2. <<m, n>> \in Seq(S) /\ Len(<<m, n>>) = 2 /\ <<m, n>>[1] = m /\ <<m, n>>[2] = n
          OBVIOUS
        <5> HIDE DEF S
        <5>3. /\ Append(<<m>>, n) \in Seq(S) /\ Len(Append(<<m>>, n)) = 2
              /\ Append(<<m>>, n)[1] = m /\ Append(<<m>>, n)[2] = n
          BY <5>1, AppendProperties
        <5>4. \A i \in 1..Len(<<m, n>>) : Append(<<m>>, n)[i] = <<m, n>>[i]
          BY <5>2, <5>3
        <5>5. QED
          BY Zenon, <5>2, <5>3, <5>4, SeqEqual
      <4>2. QED
        BY Zenon, <2>2, <3>1, <4>1
    <3>3. QED
      BY Zenon, <3>1, <3>2 DEF Hands, Held
  <2>3. CASE Len(hand) = 2 /\ hand' = <<hand[1]>>
    <3>1. PICK m \in Messages, n \in Node : hand = <<m, n>>
      <4>1. Len(<< >>) = 0 /\ \A x \in Messages : Len(<<x>>) = 1
        BY Zenon
      <4>2. hand \in Messages \X Node
        BY <1>0, <2>3, <4>1 DEF Hands
      <4>3. QED
        BY <4>2
    <3>2. QED
      BY Zenon, <2>3, <3>1 DEF Hands, Held
  <2>4. QED
    BY Zenon, <1>3, <2>1, <2>2, <2>3
<1>5. QED
  BY Zenon, <1>0, <1>1, <1>2, <1>4, QuietInv

-----------------------------------------------------------------------------
(* The theorems *)

\* Nothing was sent at first.
LEMMA InitInv == Init => ServiceInv
<1> SUFFICES ASSUME Init PROVE ServiceInv
  BY Zenon
<1> USE DEF Init, ClerkInit, ClusterInit
<1>1. Typed
  <2>1. IsFiniteSet(working)
    BY Zenon, FS_EmptySet
  <2>2. << >> \in Hands
    BY Zenon DEF Hands
  <2>3. QED
    BY <2>1, <2>2, ClusterAssumption DEF Typed
<1>2. ASSUME NEW m \in Messages PROVE Attempts(m) = 0 /\ ~Done(m)
  <2>1. \A x : {k \in DOMAIN << >> : << >>[k] = x} = {}
    OBVIOUS
  <2>2. \A x : Count(<< >>, x) = 0
    BY Zenon, <2>1, FS_EmptySet DEF Count
  <2>3. {w \in {} : w[1] = m} = {}
    BY Zenon
  <2>4. CountAt(working, m) = 0
    BY Zenon, <2>3, FS_EmptySet DEF CountAt
  <2>5. Attempts(m) = 0
    BY <2>2, <2>4 DEF Attempts, Held, Resent
  <2>6. executed[m.id] = 0 /\ channel[m.id] = "empty"
    BY Zenon, MessageIds
  <2>7. QED
    BY <2>5, <2>6 DEF Done
<1>3. \A id \in Ids : call[id] = "idle" /\ channel[id] = "empty" /\ executed[id] = 0
  BY Zenon
<1>4. OneAttempt /\ OwedExecuted
  BY <1>2 DEF OneAttempt, OwedExecuted
<1>5. Unsent /\ WriteOnce /\ OkExecuted
  BY <1>2, <1>3, MessageIds DEF Unsent, WriteOnce, OkExecuted
<1>6. OkFollows
  BY <1>3 DEF OkFollows
<1>7. QED
  BY Zenon, <1>1, <1>4, <1>5, <1>6 DEF ServiceInv

\* Every step keeps the invariant.
LEMMA NextInv == ServiceInv /\ [Next]_vars => ServiceInv'
<1> SUFFICES ASSUME ServiceInv, [Next]_vars PROVE ServiceInv'
  BY Zenon
<1>1. CASE ClerkStep
  BY Zenon, <1>1, ClerkInv
<1>2. CASE SendStep
  BY Zenon, <1>2, SendInv DEF SendStep
<1>3. CASE NodeStep
  BY Zenon, <1>3, NodeInv DEF NodeStep
<1>4. CASE Sender
  BY Zenon, <1>4, TakeInv, ForwardInv, ManagerInv DEF Sender
<1>5. CASE Receiver
  BY Zenon, <1>5, ReceiverInv
<1>6. CASE FailStep
  BY Zenon, <1>6, FailedInv DEF FailStep
<1>7. CASE ResendStep
  BY Zenon, <1>7, ResendInv DEF ResendStep
<1>8. CASE RegisterStep
  BY Zenon, <1>8, ManagerInv DEF RegisterStep
<1>9. CASE CloseStep
  BY Zenon, <1>9, ManagerInv DEF CloseStep
<1>10. CASE \E n \in Node : SyncStep(n)
  BY Zenon, <1>10, ManagerInv DEF SyncStep
<1>11. CASE UNCHANGED vars
  <2>1. /\ UNCHANGED <<call, channel, executed, owed, sendQue, respQue, failQue, working, resending,
                       hand, weights, LeaderId>>
    BY Zenon, <1>11 DEF vars, clerkVars, clusterVars, queueVars, nodeVars, envVars
  <2>2. /\ call \in [Ids -> {"idle", "send", "wait", "ok", "error"}]
        /\ hand \in Hands /\ weights \subseteq Node /\ LeaderId \in Node
    BY Zenon DEF ServiceInv, Typed
  <2>3. \A x \in Messages : Held(x)' = Held(x)
    BY Zenon, <2>1 DEF Held
  <2>4. QED
    BY Zenon, <2>1, <2>2, <2>3, QuietInv
<1>12. QED
  BY Zenon, <1>1, <1>2, <1>3, <1>4, <1>5, <1>6, <1>7, <1>8, <1>9, <1>10, <1>11 DEF Next

\* The inductive invariant holds.
THEOREM ServiceInvariant == Spec => []ServiceInv
<1>1. QED
  BY InitInv, NextInv, PTL DEF Spec

\* The manager makes one attempt at a request at a time, and none at one that is
\* executed or has a good answer: procSendQue, serveServ and procFailedReq hand it on.
THEOREM OneAttemptHolds == Spec => []OneAttempt
<1>1. ServiceInv => OneAttempt
  BY Zenon DEF ServiceInv
<1>2. QED
  BY <1>1, ServiceInvariant, PTL

\* No write is executed twice, however many clerks, requests and nodes there are: of
\* what fails, procFailedReq sends only reads again.
THEOREM WriteOnceHolds == Spec => []WriteOnce
<1>1. ServiceInv => WriteOnce
  BY Zenon DEF ServiceInv
<1>2. QED
  BY <1>1, ServiceInvariant, PTL

\* A write that returns to the clerk without an error has been executed.
THEOREM OkExecutedHolds == Spec => []OkExecuted
<1>1. ServiceInv => OkExecuted
  BY Zenon DEF ServiceInv
<1>2. QED
  BY <1>1, ServiceInvariant, PTL
=============================================================================
