------------------------------ MODULE Folding ------------------------------
(***************************************************************************)
(* Induction and folds, for the proofs about every other module.           *)
(*                                                                         *)
(* The induction theorems of the library are about an operator; those here *)
(* are about a set, which says the same: to show P(n) for every n, show    *)
(* that {n \in Nat : P(n)} has 0 and, with n, n + 1. A fold is over an     *)
(* operator Op of three arguments, the first a parameter that is the same  *)
(* all along the fold; a proof takes an instance with the operator it has. *)
(***************************************************************************)
EXTENDS FiniteSetsExt, SequenceTheorems, WellFoundedInduction, TLAPS

CONSTANT Op(_, _, _)

(* Induction over the natural numbers.                                     *)
LEMMA NatSet ==
    ASSUME NEW S \in SUBSET Nat, 0 \in S, \A n \in S : n + 1 \in S
    PROVE  S = Nat
<1> SUFFICES ASSUME Nat \ S # {} PROVE FALSE
  OBVIOUS
<1> DEFINE R == OpToRel(<, Nat)
<1>1. R = {ss \in Nat \X Nat : ss[1] < ss[2]}
  BY DEF OpToRel
<1>2. IsWellFoundedOn(R, Nat)
  BY NatLessThanWellFounded DEF OpToRel
<1> HIDE DEF R
<1>3. PICK x \in Nat \ S : \A y \in Nat \ S : <<y, x>> \notin R
  BY <1>2, WFMin
<1>4. x # 0 /\ x - 1 \in Nat /\ <<x - 1, x>> \in R
  BY <1>1
<1>5. x - 1 \in S
  BY <1>3, <1>4
<1> QED
  BY <1>3, <1>5

(* Induction over sequences: a set that has the empty one, and each that   *)
(* is one of its own with an element more, has them all.                   *)
LEMMA SeqSet ==
    ASSUME NEW T, NEW S \in SUBSET Seq(T), <<>> \in S,
           \A s \in S : \A x \in T : Append(s, x) \in S
    PROVE  S = Seq(T)
<1> DEFINE N == {n \in Nat : \A s \in Seq(T) : Len(s) = n => s \in S}
<1>1. 0 \in N
  BY EmptySeq
<1>2. ASSUME NEW n \in N PROVE n + 1 \in N
  <2> SUFFICES ASSUME NEW s \in Seq(T), Len(s) = n + 1 PROVE s \in S
    OBVIOUS
  <2> s # <<>>
    BY EmptySeq
  <2>1. PICK r \in Seq(T), x \in T : s = Append(r, x)
    BY SequenceEmptyOrAppend
  <2>2. Len(r) = n
    BY <2>1, AppendProperties, LenProperties
  <2> QED
    BY <2>1, <2>2
<1>3. N = Nat
  <2> HIDE DEF N
  <2>1. N \in SUBSET Nat
    BY DEF N
  <2> QED
    BY <1>1, <1>2, <2>1, NatSet
<1> QED
  BY <1>3, LenProperties

-----------------------------------------------------------------------------
(* What MapThenFoldSet computes, as the value that meets its equation.     *)
IsFold(it, p, base, seq, n) ==
    it = [s \in SUBSET (1..n) |->
             IF s = {} THEN base
             ELSE Op(p, it[s \ {Max(s)}], seq[Max(s)])]

(* FoldLeft of SequencesExt, with its definition expanded: every instance  *)
(* of this module takes along all that it extends.                         *)
FoldOf(p, base, seq) ==
    MapThenFoldSet(LAMBDA y, x : Op(p, x, y), base, LAMBDA i : seq[i],
                   LAMBDA s : Max(s), DOMAIN seq)

(* The greatest number of a set that has the end of its interval.          *)
LEMMA MaxIsLast ==
    ASSUME NEW n \in Nat, NEW s \in SUBSET (1..n + 1), n + 1 \in s
    PROVE  Max(s) = n + 1 /\ s \ {n + 1} \in SUBSET (1..n)
<1>1. \A x \in s : (\A y \in s : x >= y) <=> x = n + 1
  OBVIOUS
<1>2. Max(s) = n + 1
  BY <1>1 DEF Max
<1>3. s \ {n + 1} \in SUBSET (1..n)
  OBVIOUS
<1> QED
  BY <1>2, <1>3

(* The equation of a fold has a solution.                                  *)
LEMMA FoldExists ==
    ASSUME NEW p, NEW base, NEW seq
    PROVE  \A n \in Nat : \E it : IsFold(it, p, base, seq, n)
<1> DEFINE N == {n \in Nat : \E it : IsFold(it, p, base, seq, n)}
<1>1. 0 \in N
  <2> DEFINE it == [s \in SUBSET (1..0) |-> base]
  <2>1. it = [s \in SUBSET (1..0) |->
             IF s = {} THEN base
             ELSE Op(p, it[s \ {Max(s)}], seq[Max(s)])]
     OBVIOUS
  <2> QED
    BY <2>1 DEF IsFold
<1>2. ASSUME NEW n \in N PROVE n + 1 \in N
  <2>1. PICK it : IsFold(it, p, base, seq, n)
    OBVIOUS
  <2> DEFINE D  == SUBSET (1..n + 1)
             jt == [s \in D |-> IF n + 1 \in s
                                THEN Op(p, it[s \ {n + 1}], seq[n + 1])
                                ELSE it[s]]
  <2>2. ASSUME NEW s \in D
        PROVE  jt[s] = IF s = {} THEN base
                       ELSE Op(p, jt[s \ {Max(s)}], seq[Max(s)])
    <3>1. CASE n + 1 \in s
      <4>1. Max(s) = n + 1 /\ s \ {n + 1} \in SUBSET (1..n)
        BY <3>1, MaxIsLast
      <4>2. s \ {n + 1} \in D /\ n + 1 \notin s \ {n + 1}
        BY <4>1
      <4>3. jt[s \ {n + 1}] = it[s \ {n + 1}]
        BY <4>2
      <4> QED
        BY <3>1, <4>1, <4>3
    <3>2. CASE n + 1 \notin s
      <4>1. s \in SUBSET (1..n)
        BY <3>2
      <4>2. it[s] = IF s = {} THEN base
                    ELSE Op(p, it[s \ {Max(s)}], seq[Max(s)])
        BY <4>1, <2>1 DEF IsFold
      <4>3. jt[s] = it[s]
        BY <3>2
      <4>4. jt[s \ {Max(s)}] = it[s \ {Max(s)}]
        BY <3>2
      <4> QED
        BY <4>2, <4>3, <4>4
    <3> QED
      BY <3>1, <3>2
  <2>3. IsFold(jt, p, base, seq, n + 1)
    <3> HIDE DEF jt
    <3>1. jt = [s \in D |-> jt[s]]
      BY DEF jt
    <3> QED
      BY <3>1, <2>2 DEF IsFold
  <2> QED
    BY <2>3
<1>3. N = Nat
  <2> HIDE DEF N
  <2>1. N \in SUBSET Nat
    BY DEF N
  <2> QED
    BY <1>1, <1>2, <2>1, NatSet
<1> QED
  BY <1>3

(* It has one solution, whatever is beyond the interval.                   *)
LEMMA FoldUnique ==
    ASSUME NEW p, NEW base, NEW seq, NEW seq2, NEW m \in Nat, NEW n \in Nat, n <= m,
           \A i \in 1..n : seq[i] = seq2[i],
           NEW it, IsFold(it, p, base, seq, n),
           NEW jt, IsFold(jt, p, base, seq2, m)
    PROVE  it[1..n] = jt[1..n]
<1> DEFINE N == {k \in Nat : k <= n => \A s \in SUBSET (1..k) : it[s] = jt[s]}
<1>0. /\ \A s \in SUBSET (1..n) :
            it[s] = IF s = {} THEN base ELSE Op(p, it[s \ {Max(s)}], seq[Max(s)])
      /\ \A s \in SUBSET (1..m) :
            jt[s] = IF s = {} THEN base ELSE Op(p, jt[s \ {Max(s)}], seq2[Max(s)])
  BY DEF IsFold
<1>1. 0 \in N
  <2>1. {} \in SUBSET (1..n) /\ {} \in SUBSET (1..m) /\ \A s \in SUBSET (1..0) : s = {}
    OBVIOUS
  <2>2. it[{}] = base /\ jt[{}] = base
    BY <1>0, <2>1
  <2> QED
    BY <2>1, <2>2
<1>2. ASSUME NEW k \in N PROVE k + 1 \in N
  <2> SUFFICES ASSUME k + 1 <= n, NEW s \in SUBSET (1..k + 1) PROVE it[s] = jt[s]
    OBVIOUS
  <2>1. s \in SUBSET (1..n) /\ s \in SUBSET (1..m)
    OBVIOUS
  <2>2. CASE k + 1 \in s
    <3>1. Max(s) = k + 1 /\ s \ {k + 1} \in SUBSET (1..k)
      BY <2>2, MaxIsLast
    <3>2. it[s \ {k + 1}] = jt[s \ {k + 1}]
      BY <3>1
    <3>3. it[s] = Op(p, it[s \ {k + 1}], seq[k + 1])
      BY <1>0, <2>1, <2>2, <3>1
    <3>4. jt[s] = Op(p, jt[s \ {k + 1}], seq2[k + 1])
      BY <1>0, <2>1, <2>2, <3>1
    <3> QED
      BY <3>2, <3>3, <3>4
  <2>3. CASE k + 1 \notin s
    <3>1. s \in SUBSET (1..k)
      BY <2>3
    <3> QED
      BY <3>1
  <2> QED
    BY <2>2, <2>3
<1>3. N = Nat
  <2> HIDE DEF N
  <2>1. N \in SUBSET Nat
    BY DEF N
  <2> QED
    BY <1>1, <1>2, <2>1, NatSet
<1>4. n \in N /\ 1..n \in SUBSET (1..n)
  BY <1>3
<1> QED
  BY <1>4

(* A fold over a sequence is what any solution gives for all its places.   *)
LEMMA FoldValue ==
    ASSUME NEW p, NEW base, NEW T, NEW seq \in Seq(T), NEW m \in Nat, Len(seq) <= m,
           NEW jt, NEW seq2, IsFold(jt, p, base, seq2, m),
           \A i \in 1..Len(seq) : seq[i] = seq2[i]
    PROVE  FoldOf(p, base, seq) = jt[1..Len(seq)]
<1> DEFINE n  == Len(seq)
           it == CHOOSE it : IsFold(it, p, base, seq, n)
<1>1. n \in Nat /\ DOMAIN seq = 1..n
  BY LenProperties
<1>2. FoldOf(p, base, seq) = it[1..n]
  BY <1>1 DEF FoldOf, MapThenFoldSet, IsFold
<1>3. IsFold(it, p, base, seq, n)
  BY <1>1, FoldExists
<1> HIDE DEF it
<1>4. it[1..n] = jt[1..n]
  BY <1>1, <1>3, FoldUnique
<1> QED
  BY <1>2, <1>4

(* The fold of nothing is the base ...                                     *)
LEMMA FoldEmpty ==
    ASSUME NEW p, NEW base
    PROVE  FoldOf(p, base, <<>>) = base
<1> DEFINE e  == <<>>
           it == CHOOSE it : IsFold(it, p, base, e, 0)
<1>1. e \in Seq({}) /\ Len(e) = 0 /\ DOMAIN e = 1..0
  BY EmptySeq
<1>2. IsFold(it, p, base, e, 0)
  BY FoldExists
<1> HIDE DEF e
<1>3. FoldOf(p, base, e) = it[1..0]
  BY <1>1 DEF FoldOf, MapThenFoldSet, IsFold
<1> HIDE DEF it
<1>4. {} \in SUBSET (1..0) /\ 1..0 = {}
  OBVIOUS
<1>5. it[{}] = base
  BY <1>2, <1>4 DEF IsFold
<1> QED
  BY <1>3, <1>4, <1>5 DEF e

(* ... and an element more is a step more.                                 *)
LEMMA FoldAppend ==
    ASSUME NEW p, NEW base, NEW T, NEW seq \in Seq(T), NEW x \in T
    PROVE  FoldOf(p, base, Append(seq, x)) = Op(p, FoldOf(p, base, seq), x)
<1> DEFINE n == Len(seq)
           r == Append(seq, x)
<1>1. /\ n \in Nat /\ r \in Seq(T) /\ Len(r) = n + 1
      /\ \A i \in 1..n : seq[i] = r[i]
      /\ r[n + 1] = x
  BY LenProperties, AppendProperties
<1> HIDE DEF r, n
<1>0. n + 1 \in Nat /\ n \in 0..n + 1 /\ n <= n + 1 /\ n + 1 <= n + 1
  BY <1>1
<1>2. PICK it : IsFold(it, p, base, r, n + 1)
  BY <1>0, FoldExists
<1>3. FoldOf(p, base, r) = it[1..n + 1]
  BY <1>0, <1>1, <1>2, FoldValue
<1>4. FoldOf(p, base, seq) = it[1..n]
  BY <1>0, <1>1, <1>2, FoldValue DEF n
<1>5. Max(1..n + 1) = n + 1 /\ (1..n + 1) \ {n + 1} = 1..n
  BY <1>1, MaxIsLast
<1>6. it[1..n + 1] = Op(p, it[(1..n + 1) \ {Max(1..n + 1)}], r[Max(1..n + 1)])
  <2>1. 1..n + 1 \in SUBSET (1..n + 1) /\ 1..n + 1 # {}
    BY <1>1
  <2> QED
    BY <2>1, <1>2 DEF IsFold
<1> QED
  BY <1>1, <1>3, <1>4, <1>5, <1>6 DEF r
=============================================================================
