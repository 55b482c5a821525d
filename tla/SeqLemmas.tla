------------------------------ MODULE SeqLemmas -----------------------------
(***************************************************************************)
(* What the proofs need of sequences and natural numbers, whatever they    *)
(* are about.                                                              *)
(***************************************************************************)
EXTENDS Integers, Sequences, SequenceTheorems, WellFoundedInduction, TLAPS

(* A nonempty set of natural numbers has a least element, so that CHOOSE   *)
(* finds the position at which a filter stops.                             *)
LEMMA LeastNatural ==
  ASSUME NEW T \in SUBSET Nat, T # {}
  PROVE  \E i \in T : \A j \in T : i <= j
<1>1. \E i \in T : \A j \in T : ~ (<<j, i>> \in OpToRel(<, Nat))
  BY NatLessThanWellFounded, WFMin, Zenon
<1>2. PICK i \in T : \A j \in T : ~ (<<j, i>> \in OpToRel(<, Nat))
  BY <1>1, Zenon
<1>3. \A j \in T : <<j, i>> \in OpToRel(<, Nat) <=> j < i
  BY DEF OpToRel
<1>4. \A j \in T : ~ (j < i)
  BY <1>2, <1>3, Zenon
<1>5. \A j \in T : i <= j
  BY <1>4
<1> QED
  BY <1>5

(* A bounded one has a greatest.                                           *)
LEMMA GreatestNatural ==
  ASSUME NEW T \in SUBSET Nat, T # {}, NEW b \in Nat, \A i \in T : i <= b
  PROVE  \E i \in T : \A j \in T : j <= i
<1> DEFINE U == {u \in Nat : \A j \in T : j <= u}
<1>1. U \in SUBSET Nat /\ U # {}
  OBVIOUS
<1>2. PICK u \in U : \A v \in U : u <= v
  <2> HIDE DEF U
  <2> QED BY <1>1, LeastNatural
<1>3. u \in Nat /\ \A j \in T : j <= u
  BY <1>2
<1>4. u \in T
  <2> SUFFICES ASSUME u \notin T PROVE FALSE
    OBVIOUS
  <2>1. \A j \in T : j \in Nat /\ j < u
    BY <1>3
  <2>2. u > 0
    <3>1. PICK j : j \in T
      OBVIOUS
    <3>2. j \in Nat /\ j < u
      BY <2>1, <3>1
    <3> QED BY <1>3, <3>2
  <2>3. u - 1 \in U
    BY <1>3, <2>1, <2>2
  <2> QED BY <1>2, <1>3, <2>3
<1> QED BY <1>3, <1>4

(* A function on 1..n is a sequence.                                       *)
LEMMA FunctionIsSeq ==
  ASSUME NEW S, NEW n \in Nat, NEW f \in [1..n -> S]
  PROVE  f \in Seq(S) /\ Len(f) = n
BY IsASeq

(* The elements of a sequence.                                             *)
LEMMA SeqElements ==
  ASSUME NEW S, NEW s \in Seq(S)
  PROVE  /\ Len(s) \in Nat /\ DOMAIN s = 1..Len(s)
         /\ \A i \in DOMAIN s : s[i] \in S
         /\ s = <<>> <=> Len(s) = 0
<1>1. Len(s) \in Nat /\ DOMAIN s = 1..Len(s)
  BY LenProperties
<1>2. \A i \in 1..Len(s) : s[i] \in S
  BY ElementOfSeq
<1>3. s = <<>> <=> Len(s) = 0
  BY EmptySeq
<1> QED BY <1>1, <1>2, <1>3

(* One more element: the old ones stay where they are.                     *)
LEMMA SeqAppended ==
  ASSUME NEW S, NEW s \in Seq(S), NEW e \in S
  PROVE  /\ Append(s, e) \in Seq(S) /\ Len(Append(s, e)) = Len(s) + 1
         /\ DOMAIN Append(s, e) = 1..(Len(s) + 1)
         /\ \A i \in 1..Len(s) : Append(s, e)[i] = s[i]
         /\ Append(s, e)[Len(s) + 1] = e
         /\ \A i \in DOMAIN Append(s, e) : i \in DOMAIN s \/ i = Len(s) + 1
<1>1. /\ Append(s, e) \in Seq(S) /\ Len(Append(s, e)) = Len(s) + 1
      /\ \A i \in 1..Len(s) : Append(s, e)[i] = s[i]
      /\ Append(s, e)[Len(s) + 1] = e
  BY AppendProperties
<1>2. DOMAIN Append(s, e) = 1..(Len(s) + 1)
  BY <1>1, LenProperties
<1>3. \A i \in 1..(Len(s) + 1) : i \in DOMAIN s \/ i = Len(s) + 1
  BY SeqElements
<1> QED BY <1>1, <1>2, <1>3

(* The first k elements.                                                   *)
LEMMA SeqPrefix ==
  ASSUME NEW S, NEW s \in Seq(S), NEW k \in 0..Len(s)
  PROVE  /\ SubSeq(s, 1, k) \in Seq(S)
         /\ Len(SubSeq(s, 1, k)) = k /\ DOMAIN SubSeq(s, 1, k) = 1..k
         /\ \A i \in 1..k : i \in DOMAIN s /\ SubSeq(s, 1, k)[i] = s[i]
<1>1. Len(s) \in Nat /\ DOMAIN s = 1..Len(s) /\ k \in Nat
  BY LenProperties
<1>2. \A i \in 1..k : s[i] \in S /\ i \in DOMAIN s
  BY <1>1, ElementOfSeq
<1>3. /\ SubSeq(s, 1, k) \in Seq(S)
      /\ Len(SubSeq(s, 1, k)) = IF 1 <= k THEN k - 1 + 1 ELSE 0
      /\ \A i \in 1..(k - 1 + 1) : SubSeq(s, 1, k)[i] = s[1 + i - 1]
  BY <1>1, <1>2, SubSeqProperties
<1>4. Len(SubSeq(s, 1, k)) = k
  BY <1>1, <1>3
<1>5. \A i \in 1..k : SubSeq(s, 1, k)[i] = s[i]
  BY <1>1, <1>3
<1> QED BY <1>2, <1>3, <1>4, <1>5, LenProperties

(* The others.                                                             *)
LEMMA SeqSuffix ==
  ASSUME NEW S, NEW s \in Seq(S), NEW k \in 0..Len(s)
  PROVE  /\ SubSeq(s, k + 1, Len(s)) \in Seq(S)
         /\ Len(SubSeq(s, k + 1, Len(s))) = Len(s) - k
         /\ DOMAIN SubSeq(s, k + 1, Len(s)) = 1..(Len(s) - k)
         /\ \A i \in 1..(Len(s) - k) :
              k + i \in DOMAIN s /\ SubSeq(s, k + 1, Len(s))[i] = s[k + i]
<1> DEFINE n == Len(s)
<1>1. n \in Nat /\ DOMAIN s = 1..n /\ k \in 0..n
  BY LenProperties
<1>2. \A i \in 1..n : s[i] \in S
  BY ElementOfSeq
<1> HIDE DEF n
<1>3. \A i \in (k + 1)..n : s[i] \in S
  BY <1>1, <1>2
<1>4. k + 1 \in Int /\ n \in Int
  BY <1>1
<1>5. /\ SubSeq(s, k + 1, n) \in Seq(S)
      /\ Len(SubSeq(s, k + 1, n)) = IF k + 1 <= n THEN n - (k + 1) + 1 ELSE 0
      /\ \A i \in 1..(n - (k + 1) + 1) :
           SubSeq(s, k + 1, n)[i] = s[(k + 1) + i - 1]
  BY <1>3, <1>4, SubSeqProperties
<1>6. Len(SubSeq(s, k + 1, n)) = n - k
  BY <1>1, <1>5
<1>7. \A i \in 1..(n - k) : SubSeq(s, k + 1, n)[i] = s[k + i]
  BY <1>1, <1>5
<1>8. \A i \in 1..(n - k) : k + i \in DOMAIN s
  BY <1>1
<1>9. DOMAIN SubSeq(s, k + 1, n) = 1..(n - k)
  BY <1>5, <1>6, LenProperties
<1> QED BY <1>5, <1>6, <1>7, <1>8, <1>9 DEF n
=============================================================================
