----------------------------- MODULE SlicesProofs -----------------------------
(***************************************************************************)
(* For any number of threads the slices of a job are disjoint and cover    *)
(* it.  The last lemma, that the natural numbers are well-ordered, is what *)
(* the proofs about scalar functions use in place of induction.            *)
(***************************************************************************)
EXTENDS Slices, FiniteSetTheorems, TLAPS

LEMMA CoresType == Cores \in Nat \ {0} /\ Master \in Thread
  BY CoresAssumption DEF CoresAssumption, Master, Thread

LEMMA SliceLenType ==
  ASSUME NEW len \in Nat
  PROVE  SliceLen(len) \in Nat
  BY CoresType DEF SliceLen

LEMMA Multiples ==
  ASSUME NEW s \in Nat, NEW t \in Nat, NEW u \in Nat, t < u
  PROVE  t * s \in Nat /\ u * s \in Nat /\ t * s + s <= u * s
<1>1. u = t + 1 + (u - t - 1) /\ u - t - 1 \in Nat
  OBVIOUS
<1> DEFINE d == u - t - 1
<1>2. d \in Nat /\ u = t + 1 + d
  BY <1>1
<1> HIDE DEF d
<1>3. (t + 1 + d) * s = t * s + s + d * s
  BY <1>2
<1>4. d * s \in Nat /\ t * s \in Nat
  BY <1>2
<1> QED BY <1>2, <1>3, <1>4

\* A slice ends within the job, and two slices have no item in common.
LEMMA SlicesDisjoint ==
  ASSUME NEW len \in Nat, NEW t \in Thread
  PROVE  /\ SliceFirst(t, len) \in Nat /\ SliceLast(t, len) \in Nat
         /\ SliceLast(t, len) <= len
         /\ \A u \in Thread : t # u =>
              SliceLast(t, len) <= SliceFirst(u, len) \/ SliceLast(u, len) <= SliceFirst(t, len)
<1> DEFINE s == SliceLen(len)
<1>1. s \in Nat
  BY SliceLenType
<1>2. \A u \in Thread : u \in Nat
  BY CoresType DEF Thread
<1> HIDE DEF s
<1>3. \A u \in Thread :
        /\ u * s \in Nat
        /\ SliceFirst(u, len) = u * s
        /\ SliceLast(u, len) = IF u * s + s > len THEN len ELSE u * s + s
  BY <1>1, <1>2 DEF SliceFirst, SliceLast, s
<1>4. \A u, v \in Thread : u < v => u * s + s <= v * s
  BY <1>1, <1>2, Multiples
<1>5. \A u, v \in Thread : u < v => SliceLast(u, len) <= SliceFirst(v, len)
  <2> SUFFICES ASSUME NEW u \in Thread, NEW v \in Thread, u < v
               PROVE  SliceLast(u, len) <= SliceFirst(v, len)
    OBVIOUS
  <2>1. SliceLast(u, len) <= u * s + s
    BY <1>1, <1>3
  <2> QED BY <2>1, <1>1, <1>3, <1>4
<1>6. \A u \in Thread : t # u => t < u \/ u < t
  BY <1>2
<1> QED BY <1>1, <1>3, <1>5, <1>6

\* Every item of a job is in the slice of some thread.
LEMMA SlicesCover ==
  ASSUME NEW len \in Nat, NEW i \in 1 .. len
  PROVE  \E t \in Thread : SliceFirst(t, len) < i /\ i <= SliceLast(t, len)
<1> DEFINE s == SliceLen(len)
           t == (i - 1) \div s
<1>1. s \in Nat /\ Cores \in Nat \ {0}
  BY SliceLenType, CoresType
<1>2. s * Cores >= len
  <2>1. s = (len + Cores - 1) \div Cores
    BY DEF SliceLen
  <2>2. len + Cores - 1 < (s + 1) * Cores
    BY <1>1, <2>1
  <2> QED BY <1>1, <2>2
<1>3. s > 0
  BY <1>1, <1>2
<1>4. t \in Nat /\ t * s <= i - 1 /\ i - 1 < (t + 1) * s
  BY <1>1, <1>3
<1> HIDE DEF s, t
<1>5. t < Cores
  <2> SUFFICES ASSUME t >= Cores PROVE FALSE
    BY <1>1, <1>4
  <2>1. t = Cores \/ t * s >= Cores * s + s
    BY <1>1, <1>4, Multiples
  <2> QED BY <1>1, <1>2, <1>4, <2>1
<1>6. t \in Thread
  BY <1>1, <1>4, <1>5 DEF Thread
<1>7. SliceFirst(t, len) = t * s /\ SliceLast(t, len) = IF t * s + s > len THEN len ELSE t * s + s
  BY DEF SliceFirst, SliceLast, s
<1>8. i <= t * s + s
  BY <1>1, <1>4
<1> QED BY <1>1, <1>4, <1>6, <1>7, <1>8

\* A set of numbers has a least element.
LEMMA Least ==
  ASSUME NEW B \in SUBSET Nat, B # {}
  PROVE  \E n \in B : \A m \in B : ~(m < n)
<1> DEFINE T == {1 .. n : n \in B}
<1>1. IsWellFoundedOn(StrictSubsetOrdering(Nat), FiniteSubsetsOf(Nat))
  BY FS_StrictSubsetOrderingWellFounded
<1>2. \A n \in B : 1 .. n \in SUBSET Nat /\ IsFiniteSet(1 .. n)
  BY FS_Interval
<1>3. T \subseteq FiniteSubsetsOf(Nat) /\ T # {}
  BY <1>2 DEF FiniteSubsetsOf
<1>4. PICK x \in T : \A y \in T : ~(<<y, x>> \in StrictSubsetOrdering(Nat))
  <2> HIDE DEF T
  <2> QED BY <1>1, <1>3, WFMin
<1>5. PICK n \in B : x = 1 .. n
  OBVIOUS
<1>6. ASSUME NEW m \in B, m < n
      PROVE  FALSE
  <2>1. 1 .. m \subseteq 1 .. n /\ n \in 1 .. n /\ n \notin 1 .. m
    BY <1>6
  <2>2. <<1 .. m, 1 .. n>> \in StrictSubsetOrdering(Nat)
    BY <2>1, <1>2 DEF StrictSubsetOrdering
  <2>3. 1 .. m \in T
    OBVIOUS
  <2> QED BY <1>4, <1>5, <2>2, <2>3
<1> QED BY <1>6
=============================================================================
