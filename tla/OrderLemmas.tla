---------------------------- MODULE OrderLemmas ----------------------------
(***************************************************************************)
(* Facts about numbers and sequences that the proofs about the components  *)
(* share: the least and the greatest element that a CHOOSE picks, and      *)
(* slices of a log.                                                        *)
(***************************************************************************)
EXTENDS Integers, Sequences, SequenceTheorems, WellFoundedInduction, TLAPS

\* The order of the natural numbers as a set of pairs.
LEMMA NatOrder ==
  OpToRel(<, Nat) = {ss \in Nat \X Nat : ss[1] < ss[2]}
BY Zenon DEF OpToRel

\* A nonempty set of natural numbers has a least element: what the CHOOSE of
\* a search through a log picks exists.
LEMMA LeastNat ==
  ASSUME NEW S \in SUBSET Nat, S # {}
  PROVE  \E n \in S : \A k \in S : n <= k
<1> DEFINE R == {ss \in Nat \X Nat : ss[1] < ss[2]}
<1>1. IsWellFoundedOn(R, Nat)
  BY Zenon, NatLessThanWellFounded, NatOrder
<1> HIDE DEF R
<1>2. PICK n \in S : \A k \in S : ~(<<k, n>> \in R)
  BY Zenon, <1>1, WFMin
<1>3. ASSUME NEW k \in S PROVE n <= k
  <2>1. <<k, n>> \in Nat \X Nat /\ <<k, n>>[1] = k /\ <<k, n>>[2] = n
    OBVIOUS
  <2>2. ~(k < n)
    BY <1>2, <2>1 DEF R
  <2>3. QED
    BY <2>2
<1>4. QED
  BY <1>3

\* A nonempty set of integers with an upper bound has a greatest element.
LEMMA GreatestInt ==
  ASSUME NEW S \in SUBSET Int, NEW top \in Int, S # {}, \A n \in S : n <= top
  PROVE  \E n \in S : \A k \in S : n >= k
<1> DEFINE D == {d \in Nat : \E n \in S : d = top - n}
<1>1. \A k \in S : top - k \in D
  <2>1. TAKE k \in S
  <2>2. top - k \in Nat
    OBVIOUS
  <2>3. QED
    BY <2>2
<1>2. D \in SUBSET Nat /\ D # {}
  BY Zenon, <1>1
<1>3. PICK d \in D : \A k \in D : d <= k
  <2> HIDE DEF D
  <2>1. QED
    BY <1>2, LeastNat
<1>4. PICK n \in S : d = top - n
  OBVIOUS
<1>5. ASSUME NEW k \in S PROVE n >= k
  <2>1. d <= top - k
    BY Zenon, <1>1, <1>3
  <2>2. n \in Int /\ k \in Int
    OBVIOUS
  <2>3. QED
    BY <2>1, <2>2, <1>4
<1>6. QED
  BY <1>5

\* A nonempty set of integers with a lower bound has a least element.
LEMMA LeastInt ==
  ASSUME NEW S \in SUBSET Int, NEW low \in Int, S # {}, \A n \in S : low <= n
  PROVE  \E n \in S : \A k \in S : n <= k
<1> DEFINE D == {d \in Nat : \E n \in S : d = n - low}
<1>1. \A k \in S : k - low \in D
  <2>1. TAKE k \in S
  <2>2. k - low \in Nat
    OBVIOUS
  <2>3. QED
    BY <2>2
<1>2. D \in SUBSET Nat /\ D # {}
  BY Zenon, <1>1
<1>3. PICK d \in D : \A k \in D : d <= k
  <2> HIDE DEF D
  <2>1. QED
    BY <1>2, LeastNat
<1>4. PICK n \in S : d = n - low
  OBVIOUS
<1>5. ASSUME NEW k \in S PROVE n <= k
  <2>1. d <= k - low
    BY <1>1, <1>3
  <2>2. n \in Int /\ k \in Int
    OBVIOUS
  <2>3. QED
    BY <2>1, <2>2, <1>4
<1>6. QED
  BY <1>5

\* A part of a sequence, as the code slices the log.
LEMMA SubSeqType ==
  ASSUME NEW S, NEW q \in Seq(S), NEW a \in Int, NEW b \in Int, a >= 1, b <= Len(q)
  PROVE  /\ SubSeq(q, a, b) \in Seq(S)
         /\ Len(SubSeq(q, a, b)) = IF a <= b THEN b - a + 1 ELSE 0
<1>1. \A i \in a..b : q[i] \in S
  BY ElementOfSeq, LenProperties
<1>2. QED
  BY <1>1, SubSeqProperties

\* The elements of a part of a sequence.
LEMMA SubSeqAt ==
  ASSUME NEW S, NEW q \in Seq(S), NEW a \in Int, NEW b \in Int, a >= 1, b <= Len(q)
  PROVE  \A k \in 1..(b - a + 1) : SubSeq(q, a, b)[k] = q[a + k - 1]
<1>1. \A i \in a..b : q[i] \in S
  BY ElementOfSeq, LenProperties
<1>2. QED
  BY <1>1, SubSeqProperties

\* Appending something leaves a nonempty sequence.
LEMMA ConcatType ==
  ASSUME NEW S, NEW q \in Seq(S), NEW r \in Seq(S), Len(r) >= 1
  PROVE  q \o r \in Seq(S) /\ q \o r # << >>
<1>1. q \o r \in Seq(S) /\ Len(q \o r) = Len(q) + Len(r)
  BY ConcatProperties
<1>2. Len(q) \in Nat /\ Len(r) \in Nat
  BY LenProperties
<1>3. Len(q \o r) # 0
  BY <1>1, <1>2
<1>4. QED
  BY <1>1, <1>3, EmptySeq

\* What a queue holds after something was appended.
LEMMA Appended ==
  ASSUME NEW S, NEW q \in Seq(S), NEW x \in S
  PROVE  /\ Append(q, x) \in Seq(S) /\ Len(Append(q, x)) = Len(q) + 1
         /\ \A k \in 1..Len(Append(q, x)) :
              (k \in 1..Len(q) /\ Append(q, x)[k] = q[k]) \/ Append(q, x)[k] = x
OBVIOUS

\* What a queue holds after something was taken from it.
LEMMA TakenOff ==
  ASSUME NEW S, NEW q \in Seq(S), q # << >>
  PROVE  /\ Head(q) \in S /\ Head(q) = q[1] /\ 1 \in 1..Len(q)
         /\ Tail(q) \in Seq(S) /\ Len(Tail(q)) = Len(q) - 1
         /\ \A k \in 1..Len(Tail(q)) : k + 1 \in 1..Len(q) /\ Tail(q)[k] = q[k + 1]
OBVIOUS
=============================================================================
