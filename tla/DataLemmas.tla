----------------------------- MODULE DataLemmas -----------------------------
(***************************************************************************)
(* Facts about sequences and sets of numbers that the proofs about several *)
(* modules rest on.                                                        *)
(***************************************************************************)
EXTENDS Integers, FiniteSetsExt, SequencesExt, SequenceTheorems,
        FiniteSetTheorems, WellFoundedInduction, TLAPS

-----------------------------------------------------------------------------
(* A set of numbers up to n has a last one.                                *)
LEMMA LastExists ==
  ASSUME NEW n \in Nat, NEW U, U \subseteq 0 .. n, U # {}
  PROVE  \E m \in U : \A i \in U : i <= m
<1> DEFINE T == {n - i : i \in U}
           R == {p \in Nat \X Nat : p[1] < p[2]}
<1>1. IsWellFoundedOn(R, Nat)
  <2>1. R = OpToRel(<, Nat)
    BY DEF OpToRel
  <2> QED
    BY <2>1, NatLessThanWellFounded
<1>2. T \subseteq Nat /\ T # {}
  <2>1. ASSUME NEW i \in U PROVE n - i \in Nat
    OBVIOUS
  <2> QED
    BY <2>1
<1>3. PICK x \in T : \A y \in T : <<y, x>> \notin R
  <2> HIDE DEF T, R
  <2> QED
    BY <1>1, <1>2, WFMin
<1>4. PICK m \in U : x = n - m
  OBVIOUS
<1>5. ASSUME NEW i \in U PROVE i <= m
  <2>1. n - i \in T /\ n - i \in Nat /\ x \in Nat /\ ~(n - i < x)
    BY <1>2, <1>3
  <2> QED
    BY <2>1, <1>4
<1> QED
  BY <1>5

LEMMA MaxIsLast ==
  ASSUME NEW n \in Nat, NEW U, U \subseteq 0 .. n, U # {}
  PROVE  Max(U) \in U /\ \A i \in U : i <= Max(U)
<1>1. PICK m \in U : \A i \in U : m >= i
  BY LastExists
<1>2. Max(U) \in U /\ \A i \in U : Max(U) >= i
  BY <1>1 DEF Max
<1> QED
  BY <1>2

LEMMA MinIsFirst ==
  ASSUME NEW U, U \subseteq Nat, U # {}
  PROVE  Min(U) \in U /\ \A i \in U : Min(U) <= i
<1> DEFINE R == {p \in Nat \X Nat : p[1] < p[2]}
<1>1. IsWellFoundedOn(R, Nat)
  <2>1. R = OpToRel(<, Nat)
    BY DEF OpToRel
  <2> QED
    BY <2>1, NatLessThanWellFounded
<1>2. PICK m \in U : \A i \in U : <<i, m>> \notin R
  <2> HIDE DEF R
  <2> QED
    BY <1>1, WFMin
<1>3. ASSUME NEW i \in U PROVE m <= i
  <2>1. <<i, m>> \in Nat \X Nat /\ ~(i < m)
    BY <1>2
  <2> QED
    BY <2>1
<1> QED
  BY <1>3 DEF Min

-----------------------------------------------------------------------------
(* Sequences, whatever their entries are made of.                          *)
IsSequence(s) == \E T : s \in Seq(T)

LEMMA LenOfSequence ==
  ASSUME NEW s, IsSequence(s)
  PROVE  Len(s) \in Nat /\ DOMAIN s = 1 .. Len(s) /\ (s # << >> <=> Len(s) > 0)
<1>1. PICK T : s \in Seq(T)
  BY DEF IsSequence
<1> QED
  BY <1>1, LenProperties, EmptySeq

LEMMA AppendSequence ==
  ASSUME NEW s, IsSequence(s), NEW x
  PROVE  /\ IsSequence(Append(s, x)) /\ Len(Append(s, x)) = Len(s) + 1
         /\ \A i \in 1 .. Len(s) : Append(s, x)[i] = s[i]
         /\ Append(s, x)[Len(s) + 1] = x
<1>1. PICK T : s \in Seq(T)
  BY DEF IsSequence
<1>2. s \in Seq(T \cup {x}) /\ x \in T \cup {x}
  BY <1>1, SeqMonotonic
<1> QED
  BY <1>2, AppendProperties DEF IsSequence

LEMMA ReplaceInSequence ==
  ASSUME NEW s, IsSequence(s), NEW i, NEW x
  PROVE  IsSequence([s EXCEPT ![i] = x]) /\ Len([s EXCEPT ![i] = x]) = Len(s)
<1>1. PICK T : s \in Seq(T)
  BY DEF IsSequence
<1>2. s \in Seq(T \cup {x})
  BY <1>1, SeqMonotonic
<1>3. CASE i \in 1 .. Len(s)
  BY <1>2, <1>3, ExceptSeq DEF IsSequence
<1>4. CASE i \notin 1 .. Len(s)
  <2>1. [s EXCEPT ![i] = x] = s
    BY <1>1, <1>4
  <2> QED
    BY <2>1
<1> QED
  BY <1>3, <1>4

LEMMA RemoveFromSequence ==
  ASSUME NEW s, IsSequence(s), NEW i \in 1 .. Len(s)
  PROVE  /\ IsSequence(RemoveAt(s, i)) /\ Len(RemoveAt(s, i)) = Len(s) - 1
         /\ \A j \in 1 .. Len(s) - 1 : RemoveAt(s, i)[j] = IF j < i THEN s[j] ELSE s[j + 1]
<1>1. PICK T : s \in Seq(T)
  BY DEF IsSequence
<1> DEFINE f == SubSeq(s, 1, i - 1)
           b == SubSeq(s, i + 1, Len(s))
<1>2. Len(s) \in Nat /\ i \in Nat
  BY <1>1
<1>3. f \in Seq(T) /\ Len(f) = i - 1 /\ \A j \in 1 .. i - 1 : f[j] = s[j]
  BY <1>1, <1>2, SubSeqProperties
<1>4. /\ b \in Seq(T) /\ Len(b) = Len(s) - i
      /\ \A j \in 1 .. Len(s) - i : b[j] = s[i + j]
  BY <1>1, <1>2, SubSeqProperties
<1> HIDE DEF f, b
<1>5. /\ f \o b \in Seq(T) /\ Len(f \o b) = Len(f) + Len(b)
      /\ \A j \in 1 .. Len(f) + Len(b) : (f \o b)[j] = IF j <= Len(f) THEN f[j] ELSE b[j - Len(f)]
  BY <1>3, <1>4, ConcatProperties
<1>6. RemoveAt(s, i) = f \o b
  BY DEF RemoveAt, f, b
<1>7. ASSUME NEW j \in 1 .. Len(s) - 1
      PROVE  (f \o b)[j] = IF j < i THEN s[j] ELSE s[j + 1]
  <2>1. CASE j < i
    BY <1>2, <1>3, <1>4, <1>5, <2>1
  <2>2. CASE ~(j < i)
    <3> DEFINE k == j - Len(f)
    <3>1. k \in 1 .. Len(s) - i /\ i + k = j + 1 /\ ~(j <= Len(f))
      BY <1>2, <1>3, <2>2
    <3>2. j \in 1 .. Len(f) + Len(b)
      BY <1>2, <1>3, <1>4
    <3>3. (f \o b)[j] = b[k]
      BY <1>5, <3>1, <3>2
    <3>4. b[k] = s[i + k]
      BY <1>4, <3>1
    <3> QED
      BY <2>2, <3>1, <3>3, <3>4
  <2> QED
    BY <2>1, <2>2
<1>8. Len(f \o b) = Len(s) - 1
  BY <1>2, <1>3, <1>4, <1>5
<1>9. IsSequence(f \o b)
  BY <1>5 DEF IsSequence
<1> QED
  BY <1>6, <1>7, <1>8, <1>9

LEMMA MappedSequence ==
  ASSUME NEW s, IsSequence(s), NEW f, f = [i \in DOMAIN s |-> f[i]]
  PROVE  IsSequence(f) /\ Len(f) = Len(s)
<1> DEFINE R == {f[i] : i \in DOMAIN s}
<1>1. Len(s) \in Nat /\ DOMAIN s = 1 .. Len(s)
  BY LenOfSequence
<1>2. f = [i \in 1 .. Len(s) |-> f[i]] /\ \A i \in 1 .. Len(s) : f[i] \in R
  BY <1>1
<1> HIDE DEF R
<1>3. f \in Seq(R)
  BY <1>1, <1>2
<1>4. DOMAIN f = 1 .. Len(s)
  BY <1>2
<1> QED
  BY <1>1, <1>3, <1>4, LenProperties DEF IsSequence

(* A sequence is one over the set its entries are in.                      *)
LEMMA SequenceOver ==
  ASSUME NEW s, IsSequence(s), NEW S, \A i \in 1 .. Len(s) : s[i] \in S
  PROVE  s \in Seq(S)
<1>1. PICK T : s \in Seq(T)
  BY DEF IsSequence
<1>2. Len(s) \in Nat /\ s \in [1 .. Len(s) -> T]
  BY <1>1, LenProperties
<1>3. s \in [1 .. Len(s) -> S]
  BY <1>2
<1> QED
  BY <1>2, <1>3, SeqDef

(* Without repetitions it is no longer than the set is large.              *)
LEMMA DistinctAreFew ==
  ASSUME NEW S, IsFiniteSet(S), NEW n \in Nat, NEW f \in [1 .. n -> S],
         \A i, j \in 1 .. n : f[i] = f[j] => i = j
  PROVE  Cardinality(S) \in Nat /\ n <= Cardinality(S)
<1>1. f \in Injection(1 .. n, S)
  BY DEF Injection, IsInjective
<1>2. Cardinality(1 .. n) = n
  BY FS_Interval
<1>3. Cardinality(1 .. n) <= Cardinality(S)
  BY <1>1, FS_Injection
<1> QED
  BY <1>2, <1>3, FS_CardinalityType
=============================================================================
