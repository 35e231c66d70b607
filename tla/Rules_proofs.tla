---------------------------- MODULE Rules_proofs ----------------------------
(***************************************************************************)
(* What the operators of Splits, LedgerRules and Mempool compute, for      *)
(* every list of lines, every pool and every block: the lemmas that the    *)
(* proofs about the machines made of them rest on.                         *)
(***************************************************************************)
EXTENDS Mempool, FiniteSetsExt, FiniteSetTheorems, SequenceTheorems, TLAPS

-----------------------------------------------------------------------------
(***************************************************************************)
(* Sums over a sequence.                                                   *)
(***************************************************************************)
Sums == INSTANCE Folding WITH Op <- LAMBDA f, sum, x : sum + f[x]

(* The sum of the model is a fold of Folding.                              *)
LEMMA SumIsFold ==
    ASSUME NEW f, NEW seq
    PROVE  SumOf(f, seq) = Sums!FoldOf(f, 0, seq)
BY DEF SumOf, Sums!FoldOf, FoldLeft, MapThenFoldSet,
       Sums!MapThenFoldSet, Max, Sums!Max

(* Nothing adds up to 0 ...                                                *)
LEMMA SumEmpty ==
    ASSUME NEW f
    PROVE  SumOf(f, <<>>) = 0
BY SumIsFold, Sums!FoldEmpty

(* ... and an element more adds what it counts for.                        *)
LEMMA SumAppend ==
    ASSUME NEW f, NEW T, NEW seq \in Seq(T), NEW x \in T
    PROVE  SumOf(f, Append(seq, x)) = SumOf(f, seq) + f[x]
<1>1. Sums!FoldOf(f, 0, Append(seq, x)) = Sums!FoldOf(f, 0, seq) + f[x]
  BY Sums!FoldAppend
<1> QED
  BY <1>1, SumIsFold

(* A sequence over any set is one over its own elements.                   *)
LEMMA OwnElements ==
    ASSUME NEW T, NEW seq \in Seq(T)
    PROVE  seq \in Seq(ToSet(seq)) /\ ToSet(seq) \subseteq T
<1>1. Len(seq) \in Nat /\ seq \in [1..Len(seq) -> T] /\ DOMAIN seq = 1..Len(seq)
  BY LenProperties
<1>2. seq \in [1..Len(seq) -> ToSet(seq)]
  BY <1>1 DEF ToSet
<1>3. seq \in Seq(ToSet(seq))
  BY <1>1, <1>2, SeqDef
<1>4. ToSet(seq) \subseteq T
  BY <1>1 DEF ToSet
<1> QED
  BY <1>3, <1>4

(* The elements of a sequence that is one longer.                          *)
LEMMA ElementsAppend ==
    ASSUME NEW T, NEW seq \in Seq(T), NEW x \in T
    PROVE  ToSet(Append(seq, x)) = ToSet(seq) \cup {x}
<1>1. /\ Len(seq) \in Nat /\ DOMAIN seq = 1..Len(seq)
      /\ DOMAIN Append(seq, x) = 1..Len(seq) + 1
      /\ \A i \in 1..Len(seq) : Append(seq, x)[i] = seq[i]
      /\ Append(seq, x)[Len(seq) + 1] = x
  BY LenProperties, AppendProperties
<1> QED
  BY <1>1 DEF ToSet

(* Integers add up to an integer.                                          *)
LEMMA SumInt ==
    ASSUME NEW T, NEW f, \A x \in T : f[x] \in Int, NEW seq \in Seq(T)
    PROVE  SumOf(f, seq) \in Int
<1> DEFINE S == {s \in Seq(T) : SumOf(f, s) \in Int}
<1>1. <<>> \in S
  BY EmptySeq, SumEmpty
<1>2. ASSUME NEW s \in S, NEW x \in T PROVE Append(s, x) \in S
  BY SumAppend, AppendProperties
<1> HIDE DEF S
<1>3. S \in SUBSET Seq(T)
  BY DEF S
<1>4. S = Seq(T)
  BY <1>1, <1>2, <1>3, Sums!SeqSet
<1> QED
  BY <1>4 DEF S

(* What counts for nothing adds up to 0.                                   *)
LEMMA SumZero ==
    ASSUME NEW T, NEW f, \A x \in T : f[x] = 0, NEW seq \in Seq(T)
    PROVE  SumOf(f, seq) = 0
<1> DEFINE S == {s \in Seq(T) : SumOf(f, s) = 0}
<1>1. <<>> \in S
  BY EmptySeq, SumEmpty
<1>2. ASSUME NEW s \in S, NEW x \in T PROVE Append(s, x) \in S
  BY SumAppend, AppendProperties
<1> HIDE DEF S
<1>3. S \in SUBSET Seq(T)
  BY DEF S
<1>4. S = Seq(T)
  BY <1>1, <1>2, <1>3, Sums!SeqSet
<1> QED
  BY <1>4 DEF S

(* Of two sums, the one whose every part is at most the other's is.        *)
LEMMA SumLeq ==
    ASSUME NEW T, NEW f, NEW g,
           \A x \in T : f[x] \in Int /\ g[x] \in Int /\ f[x] <= g[x],
           NEW seq \in Seq(T)
    PROVE  SumOf(f, seq) <= SumOf(g, seq)
<1> DEFINE S == {s \in Seq(T) : SumOf(f, s) <= SumOf(g, s)}
<1>1. <<>> \in S
  BY EmptySeq, SumEmpty
<1>2. ASSUME NEW s \in S, NEW x \in T PROVE Append(s, x) \in S
  <2>1. SumOf(f, s) \in Int /\ SumOf(g, s) \in Int
    BY SumInt
  <2> QED
    BY <2>1, SumAppend, AppendProperties
<1> HIDE DEF S
<1>3. S \in SUBSET Seq(T)
  BY DEF S
<1>4. S = Seq(T)
  BY <1>1, <1>2, <1>3, Sums!SeqSet
<1> QED
  BY <1>4 DEF S

(* Numbers add up to a number, and each of them is at most their sum.      *)
LEMMA SumNat ==
    ASSUME NEW T, NEW f, \A x \in T : f[x] \in Nat, NEW seq \in Seq(T)
    PROVE  SumOf(f, seq) \in Nat /\ \A x \in ToSet(seq) : f[x] <= SumOf(f, seq)
<1> DEFINE S == {s \in Seq(T) : /\ SumOf(f, s) \in Nat
                                /\ \A x \in ToSet(s) : f[x] <= SumOf(f, s)}
<1>1. <<>> \in S
  <2>1. ToSet(<<>>) = {}
    BY DEF ToSet
  <2> QED
    BY <2>1, EmptySeq, SumEmpty
<1>2. ASSUME NEW s \in S, NEW x \in T PROVE Append(s, x) \in S
  <2>1. SumOf(f, Append(s, x)) = SumOf(f, s) + f[x]
    BY SumAppend
  <2>2. ToSet(s) \subseteq T
    BY OwnElements
  <2> QED
    BY <2>1, <2>2, ElementsAppend, AppendProperties
<1> HIDE DEF S
<1>3. S \in SUBSET Seq(T)
  BY DEF S
<1>4. S = Seq(T)
  BY <1>1, <1>2, <1>3, Sums!SeqSet
<1> QED
  BY <1>4 DEF S

(* On S, h counts what f and g count together.                             *)
AddsUp(h, f, g, S) ==
    \A x \in S : f[x] \in Int /\ g[x] \in Int /\ h[x] = f[x] + g[x]

(* The sum of a sum is the sum of the sums.                                *)
LEMMA SumAdd ==
    ASSUME NEW T, NEW f, NEW g, NEW h, AddsUp(h, f, g, T), NEW seq \in Seq(T)
    PROVE  SumOf(h, seq) = SumOf(f, seq) + SumOf(g, seq)
<1> DEFINE S == {s \in Seq(T) : SumOf(h, s) = SumOf(f, s) + SumOf(g, s)}
<1>1. <<>> \in S
  BY EmptySeq, SumEmpty
<1>2. ASSUME NEW s \in S, NEW x \in T PROVE Append(s, x) \in S
  <2>1. SumOf(f, s) \in Int /\ SumOf(g, s) \in Int
    BY SumInt DEF AddsUp
  <2>2. f[x] \in Int /\ g[x] \in Int /\ h[x] = f[x] + g[x]
    BY DEF AddsUp
  <2>3. /\ SumOf(f, Append(s, x)) = SumOf(f, s) + f[x]
        /\ SumOf(g, Append(s, x)) = SumOf(g, s) + g[x]
        /\ SumOf(h, Append(s, x)) = SumOf(h, s) + h[x]
    BY SumAppend
  <2> QED
    BY <2>1, <2>2, <2>3, AppendProperties
<1> HIDE DEF S
<1>3. S \in SUBSET Seq(T)
  BY DEF S
<1>4. S = Seq(T)
  BY <1>1, <1>2, <1>3, Sums!SeqSet
<1> QED
  BY <1>4 DEF S

(* A sum depends on what its elements count for, and on nothing else.      *)
LEMMA SumSame ==
    ASSUME NEW T, NEW f, NEW g, NEW seq \in Seq(T),
           \A x \in ToSet(seq) : f[x] = g[x]
    PROVE  SumOf(f, seq) = SumOf(g, seq)
<1> DEFINE R == ToSet(seq)
           S == {s \in Seq(R) : SumOf(f, s) = SumOf(g, s)}
<1>1. <<>> \in S
  BY EmptySeq, SumEmpty
<1>2. ASSUME NEW s \in S, NEW x \in R PROVE Append(s, x) \in S
  BY SumAppend, AppendProperties
<1>4. seq \in Seq(R)
  BY OwnElements
<1> HIDE DEF S, R
<1>3. S \in SUBSET Seq(R)
  BY DEF S
<1>5. S = Seq(R)
  BY <1>1, <1>2, <1>3, Sums!SeqSet
<1> QED
  BY <1>4, <1>5 DEF S

-----------------------------------------------------------------------------
(***************************************************************************)
(* Sums over a finite set.                                                 *)
(***************************************************************************)
SumOver(f, S) == MapThenSumSet(LAMBDA a : f[a], S)

Some(s) == CHOOSE x \in s : TRUE

(* it[s] is the sum over each part s of S.                                 *)
IsSetSum(it, f, S) ==
    it = [s \in SUBSET S |->
             IF s = {} THEN 0 ELSE f[Some(s)] + it[s \ {Some(s)}]]

(* Induction over the parts of a finite set.                               *)
LEMMA PartsSet ==
    ASSUME NEW S, IsFiniteSet(S), NEW P \in SUBSET (SUBSET S), {} \in P,
           \A s \in SUBSET S : s # {} /\ s \ {Some(s)} \in P => s \in P
    PROVE  P = SUBSET S
<1> DEFINE N == {n \in Nat : \A s \in SUBSET S : Cardinality(s) = n => s \in P}
<1>1. 0 \in N
  <2> SUFFICES ASSUME NEW s \in SUBSET S, Cardinality(s) = 0 PROVE s \in P
    OBVIOUS
  <2>1. IsFiniteSet(s)
    BY FS_Subset
  <2>2. s = {}
    BY <2>1, FS_EmptySet
  <2> QED
    BY <2>2
<1>2. ASSUME NEW n \in N PROVE n + 1 \in N
  <2> SUFFICES ASSUME NEW s \in SUBSET S, Cardinality(s) = n + 1 PROVE s \in P
    OBVIOUS
  <2>1. IsFiniteSet(s)
    BY FS_Subset
  <2>2. s # {}
    BY FS_EmptySet
  <2>3. Some(s) \in s
    BY <2>2 DEF Some
  <2>4. Cardinality(s \ {Some(s)}) = Cardinality(s) - 1
    BY <2>1, <2>3, FS_RemoveElement
  <2>5. Cardinality(s \ {Some(s)}) = n
    BY <2>4
  <2>6. s \ {Some(s)} \in P
    BY <2>5
  <2> QED
    BY <2>2, <2>6
<1>3. N = Nat
  <2> HIDE DEF N
  <2>1. N \in SUBSET Nat
    BY DEF N
  <2> QED
    BY <1>1, <1>2, <2>1, Sums!NatSet
<1>4. ASSUME NEW s \in SUBSET S PROVE s \in P
  <2>1. Cardinality(s) \in Nat
    BY FS_Subset, FS_CardinalityType
  <2> QED
    BY <1>3, <2>1
<1> QED
  BY <1>4

(* The equation of a sum has a solution.                                   *)
LEMMA SetSumExists ==
    ASSUME NEW f, NEW S, IsFiniteSet(S)
    PROVE  \E it : IsSetSum(it, f, S)
<1> DEFINE Small(n) == {s \in SUBSET S : Cardinality(s) <= n}
           Solves(it, n) ==
               \A s \in Small(n) :
                   it[s] = IF s = {} THEN 0 ELSE f[Some(s)] + it[s \ {Some(s)}]
           N == {n \in Nat : \E it : Solves(it, n)}
<1>0. \A s \in SUBSET S : IsFiniteSet(s) /\ Cardinality(s) \in Nat
  BY FS_Subset, FS_CardinalityType
<1>4. \A s \in SUBSET S :
         s # {} => /\ Cardinality(s \ {Some(s)}) = Cardinality(s) - 1
                   /\ s \ {Some(s)} \in SUBSET S
  <2> SUFFICES ASSUME NEW s \in SUBSET S, s # {}
               PROVE  Cardinality(s \ {Some(s)}) = Cardinality(s) - 1
    OBVIOUS
  <2>1. Some(s) \in s
    BY DEF Some
  <2> QED
    BY <1>0, <2>1, FS_RemoveElement
<1>1. 0 \in N
  <2> DEFINE it == [s \in SUBSET S |-> 0]
  <2>1. \A s \in Small(0) : s = {}
    BY <1>0, FS_EmptySet
  <2>2. Solves(it, 0)
    BY <2>1
  <2> QED
    BY <2>2
<1>2. ASSUME NEW n \in N PROVE n + 1 \in N
  <2>1. PICK it : Solves(it, n)
    OBVIOUS
  <2> DEFINE jt == [s \in SUBSET S |->
                       IF Cardinality(s) <= n THEN it[s]
                       ELSE f[Some(s)] + it[s \ {Some(s)}]]
  <2>2. ASSUME NEW s \in Small(n + 1)
        PROVE  jt[s] = IF s = {} THEN 0 ELSE f[Some(s)] + jt[s \ {Some(s)}]
    <3>1. CASE s = {}
      <4>1. Cardinality(s) <= n
        BY <3>1, FS_EmptySet
      <4> QED
        BY <2>1, <3>1, <4>1
    <3>2. CASE s # {}
      <4>1. Cardinality(s \ {Some(s)}) <= n /\ s \ {Some(s)} \in SUBSET S
        BY <1>0, <1>4, <3>2
      <4>2. jt[s \ {Some(s)}] = it[s \ {Some(s)}]
        BY <4>1
      <4>3. CASE Cardinality(s) <= n
        <5>1. it[s] = f[Some(s)] + it[s \ {Some(s)}]
          BY <2>1, <3>2, <4>3
        <5> QED
          BY <3>2, <4>2, <4>3, <5>1
      <4>4. CASE ~(Cardinality(s) <= n)
        BY <3>2, <4>2, <4>4
      <4> QED
        BY <4>3, <4>4
    <3> QED
      BY <3>1, <3>2
  <2>3. Solves(jt, n + 1)
    BY <2>2
  <2> HIDE DEF Solves, jt
  <2>4. n + 1 \in Nat
    OBVIOUS
  <2> QED
    BY <2>3, <2>4
<1>3. N = Nat
  <2> HIDE DEF N
  <2>1. N \in SUBSET Nat
    BY DEF N
  <2> QED
    BY <1>1, <1>2, <2>1, Sums!NatSet
<1>5. PICK jt : Solves(jt, Cardinality(S))
  BY <1>0, <1>3
<1>6. \A s \in SUBSET S : s \in Small(Cardinality(S))
  BY <1>0, FS_Subset
<1> DEFINE it == [s \in SUBSET S |-> jt[s]]
<1>7. ASSUME NEW s \in SUBSET S
      PROVE  it[s] = IF s = {} THEN 0 ELSE f[Some(s)] + it[s \ {Some(s)}]
  BY <1>4, <1>5, <1>6
<1>8. IsSetSum(it, f, S)
  <2> HIDE DEF it
  <2>1. it = [s \in SUBSET S |-> it[s]]
    BY DEF it
  <2> QED
    BY <1>7, <2>1 DEF IsSetSum
<1> QED
  BY <1>8

SumTable(it, f, S) ==
    /\ SumOver(f, S) = it[S]
    /\ it[{}] = 0
    /\ \A s \in SUBSET S : s # {} => it[s] = f[Some(s)] + it[s \ {Some(s)}]

(* What a sum over a set is, and over its parts.                           *)
LEMMA SetSumTable ==
    ASSUME NEW f, NEW S, IsFiniteSet(S)
    PROVE  \E it : SumTable(it, f, S)
<1> DEFINE it == CHOOSE it : IsSetSum(it, f, S)
<1>1. IsSetSum(it, f, S)
  BY SetSumExists
<1>2. SumOver(f, S) = it[S]
  BY DEF SumOver, MapThenSumSet, MapThenFoldSet, IsSetSum, Some
<1> HIDE DEF it
<1>3. \A s \in SUBSET S :
         it[s] = IF s = {} THEN 0 ELSE f[Some(s)] + it[s \ {Some(s)}]
  BY <1>1 DEF IsSetSum
<1> QED
  BY <1>2, <1>3 DEF SumTable

(* Integers add up to an integer, one that is 0 when all of them are.      *)
LEMMA SetSumInt ==
    ASSUME NEW S, IsFiniteSet(S), NEW f, \A a \in S : f[a] \in Int
    PROVE  /\ SumOver(f, S) \in Int
           /\ (\A a \in S : f[a] = 0) => SumOver(f, S) = 0
<1>1. PICK it : SumTable(it, f, S)
  BY SetSumTable
<1> DEFINE P == {s \in SUBSET S : /\ it[s] \in Int
                                  /\ (\A a \in S : f[a] = 0) => it[s] = 0}
<1>2. {} \in P
  BY <1>1 DEF SumTable
<1>3. ASSUME NEW s \in SUBSET S, s # {}, s \ {Some(s)} \in P PROVE s \in P
  <2>1. Some(s) \in S
    BY <1>3 DEF Some
  <2>2. it[s] = f[Some(s)] + it[s \ {Some(s)}]
    BY <1>1, <1>3 DEF SumTable
  <2> QED
    BY <1>3, <2>1, <2>2
<1> HIDE DEF P
<1>4. P \in SUBSET (SUBSET S)
  BY DEF P
<1>5. P = SUBSET S
  BY <1>2, <1>3, <1>4, PartsSet
<1> QED
  BY <1>1, <1>5 DEF P, SumTable

(* The sum of a sum is the sum of the sums.                                *)
LEMMA SetSumAdd ==
    ASSUME NEW S, IsFiniteSet(S), NEW f, NEW g, NEW h, AddsUp(h, f, g, S)
    PROVE  SumOver(h, S) = SumOver(f, S) + SumOver(g, S)
<1>1. PICK it : SumTable(it, f, S)
  BY SetSumTable
<1>2. PICK jt : SumTable(jt, g, S)
  BY SetSumTable
<1>3. PICK kt : SumTable(kt, h, S)
  BY SetSumTable
<1> DEFINE P == {s \in SUBSET S : /\ it[s] \in Int /\ jt[s] \in Int
                                  /\ kt[s] = it[s] + jt[s]}
<1>4. {} \in P
  BY <1>1, <1>2, <1>3 DEF SumTable
<1>5. ASSUME NEW s \in SUBSET S, s # {}, s \ {Some(s)} \in P PROVE s \in P
  <2>1. Some(s) \in S
    BY <1>5 DEF Some
  <2>2. /\ it[s] = f[Some(s)] + it[s \ {Some(s)}]
        /\ jt[s] = g[Some(s)] + jt[s \ {Some(s)}]
        /\ kt[s] = h[Some(s)] + kt[s \ {Some(s)}]
    BY <1>1, <1>2, <1>3, <1>5 DEF SumTable
  <2> QED
    BY <1>5, <2>1, <2>2 DEF AddsUp
<1> HIDE DEF P
<1>6. P \in SUBSET (SUBSET S)
  BY DEF P
<1>7. P = SUBSET S
  BY <1>4, <1>5, <1>6, PartsSet
<1> QED
  BY <1>1, <1>2, <1>3, <1>7 DEF P, SumTable

(* Of numbers, none is more than the sum.                                  *)
LEMMA SetSumNat ==
    ASSUME NEW S, IsFiniteSet(S), NEW f, \A a \in S : f[a] \in Nat
    PROVE  \A a \in S : f[a] <= SumOver(f, S)
<1>1. PICK it : SumTable(it, f, S)
  BY SetSumTable
<1> DEFINE P == {s \in SUBSET S : /\ it[s] \in Nat
                                  /\ \A a \in s : f[a] <= it[s]}
<1>2. {} \in P
  BY <1>1 DEF SumTable
<1>3. ASSUME NEW s \in SUBSET S, s # {}, s \ {Some(s)} \in P PROVE s \in P
  <2>1. Some(s) \in s /\ f[Some(s)] \in Nat
    BY <1>3 DEF Some
  <2>2. it[s] = f[Some(s)] + it[s \ {Some(s)}]
    BY <1>1, <1>3 DEF SumTable
  <2>3. it[s] \in Nat
    BY <1>3, <2>1, <2>2
  <2>4. ASSUME NEW a \in s PROVE f[a] <= it[s]
    BY <1>3, <2>1, <2>2
  <2> QED
    BY <2>3, <2>4
<1> HIDE DEF P
<1>4. P \in SUBSET (SUBSET S)
  BY DEF P
<1>5. P = SUBSET S
  BY <1>2, <1>3, <1>4, PartsSet
<1> QED
  BY <1>1, <1>5 DEF P, SumTable

(* What only one element counts for is the sum.                            *)
LEMMA SetSumPoint ==
    ASSUME NEW S, IsFiniteSet(S), NEW b \in S, NEW v \in Int, NEW f,
           \A a \in S : f[a] = IF a = b THEN v ELSE 0
    PROVE  SumOver(f, S) = v
<1>1. PICK it : SumTable(it, f, S)
  BY SetSumTable
<1> DEFINE P == {s \in SUBSET S : it[s] = IF b \in s THEN v ELSE 0}
<1>2. {} \in P
  BY <1>1 DEF SumTable
<1>3. ASSUME NEW s \in SUBSET S, s # {}, s \ {Some(s)} \in P PROVE s \in P
  <2>1. Some(s) \in s /\ Some(s) \in S
    BY <1>3 DEF Some
  <2>2. it[s] = f[Some(s)] + it[s \ {Some(s)}]
    BY <1>1, <1>3 DEF SumTable
  <2>3. CASE Some(s) = b
    BY <1>3, <2>1, <2>2, <2>3
  <2>4. CASE Some(s) # b
    BY <1>3, <2>1, <2>2, <2>4
  <2> QED
    BY <2>3, <2>4
<1> HIDE DEF P
<1>4. P \in SUBSET (SUBSET S)
  BY DEF P
<1>5. P = SUBSET S
  BY <1>2, <1>3, <1>4, PartsSet
<1> QED
  BY <1>1, <1>5 DEF P, SumTable

(* A sum depends on what its elements count for, and on nothing else.      *)
LEMMA SetSumSame ==
    ASSUME NEW S, IsFiniteSet(S), NEW f, NEW g, \A a \in S : f[a] = g[a]
    PROVE  SumOver(f, S) = SumOver(g, S)
<1>1. PICK it : SumTable(it, f, S)
  BY SetSumTable
<1>2. PICK jt : SumTable(jt, g, S)
  BY SetSumTable
<1> DEFINE P == {s \in SUBSET S : it[s] = jt[s]}
<1>3. {} \in P
  BY <1>1, <1>2 DEF SumTable
<1>4. ASSUME NEW s \in SUBSET S, s # {}, s \ {Some(s)} \in P PROVE s \in P
  <2>1. Some(s) \in S
    BY <1>4 DEF Some
  <2>2. /\ it[s] = f[Some(s)] + it[s \ {Some(s)}]
        /\ jt[s] = g[Some(s)] + jt[s \ {Some(s)}]
    BY <1>1, <1>2, <1>4 DEF SumTable
  <2> QED
    BY <1>4, <2>1, <2>2
<1> HIDE DEF P
<1>5. P \in SUBSET (SUBSET S)
  BY DEF P
<1>6. P = SUBSET S
  BY <1>3, <1>4, <1>5, PartsSet
<1> QED
  BY <1>1, <1>2, <1>6 DEF P, SumTable

(* What x is to each a of S.                                               *)
Shares(part, x, S) == [a \in S |-> part[a][x]]

(* all[x] is what x is to all of S together. *)
HandsOut(part, all, S, T) ==
    \A x \in T : /\ \A a \in S : part[a][x] \in Int
                 /\ SumOver(Shares(part, x, S), S) = all[x]

(* What all x are to each of S adds up to what they are to all of S.       *)
LEMMA SumsSwap ==
    ASSUME NEW S, IsFiniteSet(S), NEW T, NEW part, NEW all, NEW got,
           HandsOut(part, all, S, T), NEW seq \in Seq(T),
           \A a \in S : got[a] = SumOf(part[a], seq)
    PROVE  SumOver(got, S) = SumOf(all, seq)
<1> DEFINE sums(s) == [a \in S |-> SumOf(part[a], s)]
           P == {s \in Seq(T) : SumOver(sums(s), S) = SumOf(all, s)}
<1>1. <<>> \in P
  <2> DEFINE none == sums(<<>>)
  <2>1. \A a \in S : none[a] = 0 /\ none[a] \in Int
    BY SumEmpty
  <2>2. SumOver(none, S) = 0
    <3> HIDE DEF none
    <3> QED
      BY <2>1, SetSumInt
  <2> QED
    BY <2>2, EmptySeq, SumEmpty
<1>2. ASSUME NEW s \in P, NEW x \in T PROVE Append(s, x) \in P
  <2> DEFINE before == sums(s)
             added  == Shares(part, x, S)
             after  == sums(Append(s, x))
  <2>1. \A a \in S : before[a] \in Int
    BY SumInt DEF HandsOut
  <2>2. \A a \in S : after[a] = before[a] + added[a] /\ added[a] \in Int
    <3>1. \A a \in S : SumOf(part[a], Append(s, x)) = SumOf(part[a], s) + part[a][x]
      BY SumAppend
    <3>2. \A a \in S : part[a][x] \in Int
      BY DEF HandsOut
    <3> QED
      BY <3>1, <3>2 DEF Shares
  <2>3. AddsUp(after, before, added, S)
    BY <2>1, <2>2 DEF AddsUp
  <2>4. SumOver(after, S) = SumOver(before, S) + SumOver(added, S)
    BY <2>3, SetSumAdd
  <2>5. SumOf(all, Append(s, x)) = SumOf(all, s) + all[x]
    BY SumAppend
  <2> QED
    BY <2>4, <2>5, AppendProperties DEF HandsOut
<1>3. P = Seq(T)
  <2> HIDE DEF P
  <2>1. P \in SUBSET Seq(T)
    BY DEF P
  <2> QED
    BY <1>1, <1>2, <2>1, Sums!SeqSet
<1>4. SumOver(sums(seq), S) = SumOf(all, seq)
  BY <1>3
<1>5. SumOver(got, S) = SumOver(sums(seq), S)
  <2> DEFINE f == sums(seq)
  <2>1. \A a \in S : got[a] = f[a]
    OBVIOUS
  <2> HIDE DEF f
  <2> QED
    BY <2>1, SetSumSame
<1> QED
  BY <1>4, <1>5

-----------------------------------------------------------------------------
(***************************************************************************)
(* The arithmetic of a payment.                                            *)
(***************************************************************************)
(* A word holds an integer, and what fits into it as it is.                *)
LEMMA WrapFits ==
    ASSUME NEW n \in Int
    PROVE  /\ Wrap(n) \in Int
           /\ -HalfWord <= n /\ n < HalfWord => Wrap(n) = n
<1>1. HalfWord \in Nat \ {0}
  BY SplitsAssumption
<1> DEFINE h == HalfWord
           m == 2 * h
           k == n + h
<1>2. m \in Nat \ {0} /\ k \in Int
  BY <1>1
<1>3. k % m \in Int
  <2> HIDE DEF k, m
  <2> QED
    BY <1>2
<1>4. 0 <= k /\ k < m => k % m = k
  <2> HIDE DEF k, m
  <2> QED
    BY <1>2
<1>5. Wrap(n) = (k % m) - h
  BY DEF Wrap
<1>6. -h <= n /\ n < h => 0 <= k /\ k < m
  BY <1>1
<1>7. k - h = n
  BY <1>1
<1> HIDE DEF k, m
<1> QED
  BY <1>1, <1>3, <1>4, <1>5, <1>6, <1>7

(* So it holds a number that is small enough.                              *)
LEMMA WrapNat ==
    ASSUME NEW n \in Nat, n < HalfWord
    PROVE  Wrap(n) = n
BY WrapFits, SplitsAssumption

(* Dividing a number by a number gives a number.                           *)
LEMMA QuotientNat ==
    ASSUME NEW n \in Nat, NEW d \in Nat \ {0}
    PROVE  Quotient(n, d) \in Nat
BY DEF Quotient

(* The gross amount is an integer, whatever the lines.                     *)
LEMMA GrossInt ==
    ASSUME NEW items \in Seq(LineItem)
    PROVE  GrossAmount(items) \in Int
<1> DEFINE T == ToSet(items)
           f == [item \in T |-> item.amount]
<1>1. items \in Seq(T) /\ T \subseteq LineItem
  BY OwnElements
<1>2. \A x \in T : f[x] \in Int
  BY <1>1 DEF LineItem
<1> HIDE DEF f, T
<1>3. SumOf(f, items) \in Int
  BY <1>1, <1>2, SumInt
<1>4. GrossAmount(items) = Wrap(SumOf(f, items))
  BY DEF GrossAmount, Total, f, T
<1> QED
  BY <1>3, <1>4, WrapFits

(* Lines whose sums are as they would be without bounds.                   *)
Sound(items) ==
    items \in Seq(LineItem) /\ ValidLines(items) /\ NothingOverflows(items)

(* What a line of such lines is made of.                                   *)
LEMMA LineParts ==
    ASSUME NEW items, Sound(items), NEW item \in ToSet(items)
    PROVE  /\ item \in LineItem
           /\ item.amount \in Nat
           /\ item.codes \in Seq(ToSet(item.codes))
           /\ item.discounts \in Seq(ToSet(item.discounts))
           /\ \A code \in ToSet(item.codes) :
                 /\ code \in TaxCodes
                 /\ TaxSplit[code].account \in AllowedTaxAccounts
                 /\ CodeTax(code, item.amount)
                       = Quotient(TaxSplit[code].rate * item.amount, BasisPoints)
                 /\ CodeTax(code, item.amount) \in Nat
           /\ \A d \in ToSet(item.discounts) :
                 d.amount \in Nat /\ d.account \in AllowedTaxAccounts
<1>1. item \in LineItem /\ ValidItem(item)
  BY OwnElements DEF Sound, ValidLines
<1>2. /\ item.amount \in Nat
      /\ item.codes \in Seq(STRING) /\ item.discounts \in Seq(LineDiscount)
  BY <1>1 DEF LineItem, ValidItem
<1>3. /\ item.codes \in Seq(ToSet(item.codes))
      /\ item.discounts \in Seq(ToSet(item.discounts))
      /\ ToSet(item.discounts) \subseteq LineDiscount
  BY <1>2, OwnElements
<1>4. ASSUME NEW code \in ToSet(item.codes)
      PROVE  /\ code \in TaxCodes
             /\ TaxSplit[code].account \in AllowedTaxAccounts
             /\ CodeTax(code, item.amount)
                   = Quotient(TaxSplit[code].rate * item.amount, BasisPoints)
             /\ CodeTax(code, item.amount) \in Nat
  <2> DEFINE p == TaxSplit[code].rate * item.amount
  <2>1. code \in TaxCodes /\ TaxSplit[code].account \in AllowedTaxAccounts
    BY <1>1 DEF ValidItem
  <2>2. TaxSplit[code].rate \in Nat /\ BasisPoints \in Nat \ {0} /\ HalfWord \in Nat \ {0}
    BY <2>1, SplitsAssumption DEF TaxCodes
  <2>3. p \in Nat
    BY <1>2, <2>2
  <2>4. p < HalfWord
    BY DEF Sound, NothingOverflows
  <2> HIDE DEF p
  <2>5. Wrap(p) = p
    BY <2>2, <2>3, <2>4, WrapFits
  <2>6. CodeTax(code, item.amount) = Quotient(p, BasisPoints)
    BY <2>5 DEF CodeTax, p
  <2>7. Quotient(p, BasisPoints) \in Nat
    BY <2>2, <2>3, QuotientNat
  <2> QED
    BY <2>1, <2>6, <2>7 DEF p
<1>5. ASSUME NEW d \in ToSet(item.discounts)
      PROVE  d.amount \in Nat /\ d.account \in AllowedTaxAccounts
  BY <1>1, <1>3 DEF ValidItem, LineDiscount
<1> QED
  BY <1>1, <1>2, <1>3, <1>4, <1>5

(* Taxes and discounts of such a line are numbers, and all of them together *)
(* fit into a word.                                                        *)
LEMMA LineTotals ==
    ASSUME NEW items, Sound(items)
    PROVE  /\ ExactTaken(items) \in Nat
           /\ \A item \in ToSet(items) :
                 /\ ExactTax(item) \in Nat
                 /\ ExactDiscount(item) \in Nat
                 /\ ExactTax(item) + ExactDiscount(item) <= ExactTaken(items)
<1> DEFINE T == ToSet(items)
           f == [item \in T |-> ExactTax(item) + ExactDiscount(item)]
<1>1. ASSUME NEW item \in ToSet(items)
      PROVE  ExactTax(item) \in Nat /\ ExactDiscount(item) \in Nat
  <2> DEFINE C == ToSet(item.codes)
             D == ToSet(item.discounts)
             c == [code \in C |->
                      Quotient(TaxSplit[code].rate * item.amount, BasisPoints)]
             d == [x \in D |-> x.amount]
  <2>1. \A x \in C : c[x] \in Nat
    <3> TAKE x \in C
    <3>1. c[x] = Quotient(TaxSplit[x].rate * item.amount, BasisPoints)
      OBVIOUS
    <3> HIDE DEF c
    <3> QED
      BY <3>1, LineParts
  <2>2. \A x \in D : d[x] \in Nat
    BY LineParts
  <2>3. item.codes \in Seq(C) /\ item.discounts \in Seq(D)
    BY LineParts
  <2>4. ExactTax(item) = SumOf(c, item.codes) /\ ExactDiscount(item) = SumOf(d, item.discounts)
    BY DEF ExactTax, ExactDiscount
  <2> HIDE DEF c, d, C, D
  <2>5. SumOf(c, item.codes) \in Nat
    BY <2>1, <2>3, SumNat
  <2>6. SumOf(d, item.discounts) \in Nat
    BY <2>2, <2>3, SumNat
  <2> QED
    BY <2>4, <2>5, <2>6
<1>2. \A item \in T : f[item] = ExactTax(item) + ExactDiscount(item) /\ f[item] \in Nat
  BY <1>1
<1>3. items \in Seq(T)
  BY OwnElements DEF Sound
<1>4. ExactTaken(items) = SumOf(f, items)
  BY DEF ExactTaken
<1> HIDE DEF f
<1>5. SumOf(f, items) \in Nat /\ \A item \in T : f[item] <= SumOf(f, items)
  BY <1>2, <1>3, SumNat
<1> QED
  BY <1>1, <1>2, <1>4, <1>5

(* What the getters return of such a line is what they add up.             *)
LEMMA LineGetters ==
    ASSUME NEW items, Sound(items), NEW item \in ToSet(items)
    PROVE  /\ ItemTaxTotal(item) = ExactTax(item)
           /\ ItemDiscountTotal(item) = ExactDiscount(item)
<1> DEFINE C == ToSet(item.codes)
           c == [code \in C |->
                    Quotient(TaxSplit[code].rate * item.amount, BasisPoints)]
           e == [code \in C |->
                    IF code \in TaxCodes THEN CodeTax(code, item.amount) ELSE 0]
           d == [x \in ToSet(item.discounts) |-> x.amount]
<1>0. HalfWord \in Nat \ {0}
  BY SplitsAssumption
<1>1. \A x \in C : e[x] = c[x]
  BY LineParts
<1>2. item.codes \in Seq(C)
  BY LineParts
<1>3. /\ ExactTax(item) \in Nat /\ ExactDiscount(item) \in Nat
      /\ ExactTax(item) < HalfWord /\ ExactDiscount(item) < HalfWord
  <2>1. ExactTaken(items) < HalfWord
    BY DEF Sound, NothingOverflows
  <2> QED
    BY <1>0, <2>1, LineTotals
<1>4. /\ ExactTax(item) = SumOf(c, item.codes)
      /\ ItemTaxTotal(item) = Wrap(SumOf(e, item.codes))
  BY DEF ExactTax, ItemTaxTotal, Total
<1>5. ItemDiscountTotal(item) = Wrap(ExactDiscount(item))
  BY DEF ItemDiscountTotal, ExactDiscount, Total
<1> HIDE DEF c, e, C
<1>6. SumOf(e, item.codes) = SumOf(c, item.codes)
  BY <1>1, <1>2, SumSame, OwnElements DEF C
<1>7. Wrap(ExactTax(item)) = ExactTax(item) /\ Wrap(ExactDiscount(item)) = ExactDiscount(item)
  BY <1>0, <1>3, WrapFits
<1> QED
  BY <1>4, <1>5, <1>6, <1>7

(* Gross, taxes, discounts and net of such lines are numbers, and the net  *)
(* is what taxes and discounts leave of the gross.                         *)
LEMMA Getters ==
    ASSUME NEW items, Sound(items)
    PROVE  /\ GrossAmount(items) = ExactGross(items)
           /\ GrossAmount(items) \in Nat \ {0}
           /\ NetToPayee(items) = ExactGross(items) - ExactTaken(items)
           /\ NetToPayee(items) \in Nat
<1> DEFINE T == ToSet(items)
           g == [item \in T |-> item.amount]
           t == [item \in T |-> ItemTaxTotal(item)]
           d == [item \in T |-> ItemDiscountTotal(item)]
           k == [item \in T |-> ExactTax(item) + ExactDiscount(item)]
<1>0. HalfWord \in Nat \ {0} /\ items \in Seq(T)
  BY SplitsAssumption, OwnElements DEF Sound
<1>1. /\ ExactGross(items) = SumOf(g, items)
      /\ GrossAmount(items) = Wrap(SumOf(g, items))
      /\ TaxTotal(items) = Wrap(SumOf(t, items))
      /\ DiscountTotal(items) = Wrap(SumOf(d, items))
      /\ ExactTaken(items) = SumOf(k, items)
  BY DEF ExactGross, GrossAmount, TaxTotal, DiscountTotal, ExactTaken, Total
<1>2. \A x \in T : g[x] \in Nat
  BY LineParts
<1>3. \A x \in T : t[x] \in Nat /\ d[x] \in Nat /\ k[x] = t[x] + d[x]
  BY LineGetters, LineTotals
<1> HIDE DEF g, t, d, k, T
<1>4. SumOf(g, items) \in Nat /\ SumOf(t, items) \in Nat /\ SumOf(d, items) \in Nat
  BY <1>0, <1>2, <1>3, SumNat
<1>5. SumOf(k, items) = SumOf(t, items) + SumOf(d, items)
  <2>1. AddsUp(k, t, d, T)
    BY <1>3 DEF AddsUp
  <2> QED
    BY <1>0, <2>1, SumAdd
<1>6. SumOf(g, items) < HalfWord /\ SumOf(k, items) < HalfWord
  BY <1>1 DEF Sound, NothingOverflows
<1>7. /\ GrossAmount(items) = SumOf(g, items)
      /\ TaxTotal(items) = SumOf(t, items)
      /\ DiscountTotal(items) = SumOf(d, items)
  <2>1. SumOf(t, items) < HalfWord /\ SumOf(d, items) < HalfWord
    BY <1>0, <1>4, <1>5, <1>6
  <2> QED
    BY <1>1, <1>4, <1>6, <2>1, WrapNat
<1> DEFINE n == SumOf(g, items) - SumOf(t, items) - SumOf(d, items)
<1>8. Wrap(n) = n
  <2>1. n \in Int /\ -HalfWord <= n /\ n < HalfWord
    BY <1>0, <1>4, <1>5, <1>6
  <2> HIDE DEF n
  <2> QED
    BY <2>1, WrapFits
<1>9. NetToPayee(items) = n
  BY <1>7, <1>8 DEF NetToPayee
<1>10. GrossAmount(items) > 0 /\ NetToPayee(items) >= 0
  BY DEF Sound, ValidLines
<1> QED
  BY <1>1, <1>4, <1>5, <1>7, <1>9, <1>10

(* What a line credits to the accounts: to each a number, to one that it   *)
(* does not write nothing, to all of them together its taxes and discounts. *)
LEMMA LineCredits ==
    ASSUME NEW items, Sound(items), NEW item \in ToSet(items),
           IsFiniteSet(AccountIDs), AllowedTaxAccounts \subseteq AccountIDs
    PROVE  /\ \A a \in AccountIDs :
                 /\ ItemCredit(item, a) \in Nat
                 /\ ItemCredit(item, a) <= ExactTax(item) + ExactDiscount(item)
                 /\ ItemCredit(item, a) # 0 => a \in WrittenTaxAccounts(items)
           /\ SumOver([a \in AccountIDs |-> ItemCredit(item, a)], AccountIDs)
                 = ExactTax(item) + ExactDiscount(item)
<1> DEFINE C == ToSet(item.codes)
           D == ToSet(item.discounts)
           A == AccountIDs
           tax == [x \in C |->
                      Quotient(TaxSplit[x].rate * item.amount, BasisPoints)]
           off == [x \in D |-> x.amount]
           taxTo == [a \in A |-> [x \in C |->
                        IF TaxSplit[x].account = a
                        THEN CodeTax(x, item.amount) ELSE 0]]
           offTo == [a \in A |-> [x \in D |->
                        IF x.account = a THEN x.amount ELSE 0]]
           gotTax == [a \in A |-> SumOf(taxTo[a], item.codes)]
           gotOff == [a \in A |-> SumOf(offTo[a], item.discounts)]
           got    == [a \in A |-> ItemCredit(item, a)]
<1>0. HalfWord \in Nat \ {0} /\ item.codes \in Seq(C) /\ item.discounts \in Seq(D)
  BY SplitsAssumption, LineParts
<1>1. /\ ExactTax(item) \in Nat /\ ExactDiscount(item) \in Nat
      /\ ExactTax(item) < HalfWord /\ ExactDiscount(item) < HalfWord
  <2>1. ExactTaken(items) < HalfWord
    BY DEF Sound, NothingOverflows
  <2> QED
    BY <1>0, <2>1, LineTotals
<1>2. /\ ExactTax(item) = SumOf(tax, item.codes)
      /\ ExactDiscount(item) = SumOf(off, item.discounts)
  BY DEF ExactTax, ExactDiscount
<1>3. \A a \in A : ItemCredit(item, a) = Wrap(gotTax[a]) + Wrap(gotOff[a])
  BY DEF ItemCredit, Total
<1>4. \A x \in C : /\ tax[x] = CodeTax(x, item.amount) /\ tax[x] \in Nat
                   /\ TaxSplit[x].account \in A
  BY LineParts
<1>5. \A x \in D : off[x] = x.amount /\ off[x] \in Nat /\ x.account \in A
  BY LineParts
<1>6. \A a \in A : \A x \in C :
         /\ taxTo[a][x] = IF TaxSplit[x].account = a THEN tax[x] ELSE 0
         /\ taxTo[a][x] \in Nat /\ taxTo[a][x] <= tax[x]
  BY <1>4
<1>7. \A a \in A : \A x \in D :
         /\ offTo[a][x] = IF x.account = a THEN off[x] ELSE 0
         /\ offTo[a][x] \in Nat /\ offTo[a][x] <= off[x]
  BY <1>5
<1>8. \A a \in A : /\ got[a] = ItemCredit(item, a)
                   /\ gotTax[a] = SumOf(taxTo[a], item.codes)
                   /\ gotOff[a] = SumOf(offTo[a], item.discounts)
  OBVIOUS
<1>9. /\ got = [a \in A |-> ItemCredit(item, a)]
      /\ \A d \in D : d.amount = off[d]
  OBVIOUS
<1> HIDE DEF tax, off, taxTo, offTo, gotTax, gotOff, got, C, D
<1>10. \A a \in A : gotTax[a] \in Nat /\ gotTax[a] <= ExactTax(item)
  <2> TAKE a \in A
  <2> DEFINE f == taxTo[a]
  <2>1. \A x \in C : f[x] \in Nat /\ f[x] \in Int /\ tax[x] \in Int /\ f[x] <= tax[x]
    BY <1>4, <1>6
  <2> HIDE DEF f
  <2>2. SumOf(f, item.codes) \in Nat
    BY <1>0, <2>1, SumNat
  <2>3. SumOf(f, item.codes) <= SumOf(tax, item.codes)
    BY <1>0, <2>1, SumLeq
  <2> QED
    BY <1>2, <1>8, <2>2, <2>3 DEF f
<1>11. \A a \in A : gotOff[a] \in Nat /\ gotOff[a] <= ExactDiscount(item)
  <2> TAKE a \in A
  <2> DEFINE f == offTo[a]
  <2>1. \A x \in D : f[x] \in Nat /\ f[x] \in Int /\ off[x] \in Int /\ f[x] <= off[x]
    BY <1>5, <1>7
  <2> HIDE DEF f
  <2>2. SumOf(f, item.discounts) \in Nat
    BY <1>0, <2>1, SumNat
  <2>3. SumOf(f, item.discounts) <= SumOf(off, item.discounts)
    BY <1>0, <2>1, SumLeq
  <2> QED
    BY <1>2, <1>8, <2>2, <2>3 DEF f
<1>12. \A a \in A : ItemCredit(item, a) = gotTax[a] + gotOff[a]
  <2> TAKE a \in A
  <2>1. Wrap(gotTax[a]) = gotTax[a] /\ Wrap(gotOff[a]) = gotOff[a]
    <3>1. gotTax[a] \in Nat /\ gotTax[a] < HalfWord
      BY <1>0, <1>1, <1>10
    <3>2. gotOff[a] \in Nat /\ gotOff[a] < HalfWord
      BY <1>0, <1>1, <1>11
    <3> QED
      BY <3>1, <3>2, WrapNat
  <2> QED
    BY <1>3, <2>1
<1>13. ASSUME NEW a \in A, a \notin WrittenTaxAccounts(items)
       PROVE  gotTax[a] = 0 /\ gotOff[a] = 0
  <2>1. \A x \in C : TaxSplit[x].account # a
    BY <1>13 DEF WrittenTaxAccounts, C
  <2>2. \A x \in D : x.account = a => x.amount = 0
    BY <1>13 DEF WrittenTaxAccounts, D
  <2> DEFINE f == taxTo[a]
             g == offTo[a]
  <2>3. (\A x \in C : f[x] = 0) /\ (\A x \in D : g[x] = 0)
    BY <1>6, <1>7, <1>9, <2>1, <2>2
  <2> HIDE DEF f, g
  <2>4. SumOf(f, item.codes) = 0 /\ SumOf(g, item.discounts) = 0
    BY <1>0, <2>3, SumZero
  <2> QED
    BY <1>8, <2>4 DEF f, g
<1>14. SumOver(gotTax, A) = ExactTax(item)
  <2>1. ASSUME NEW x \in C
        PROVE  SumOver(Shares(taxTo, x, A), A) = tax[x]
    <3> DEFINE f == Shares(taxTo, x, A)
               b == TaxSplit[x].account
    <3>1. \A a \in A : f[a] = IF a = b THEN tax[x] ELSE 0
      BY <1>6 DEF Shares
    <3>2. b \in A /\ tax[x] \in Int
      BY <1>4
    <3> HIDE DEF f, b
    <3>3. SumOver(f, A) = tax[x]
      BY <3>1, <3>2, SetSumPoint
    <3> QED
      BY <3>3 DEF f
  <2>2. \A x \in C : \A a \in A : taxTo[a][x] \in Int
    BY <1>6
  <2>3. HandsOut(taxTo, tax, A, C)
    BY <2>1, <2>2 DEF HandsOut
  <2> QED
    BY <1>0, <1>2, <1>8, <2>3, SumsSwap
<1>15. SumOver(gotOff, A) = ExactDiscount(item)
  <2>1. ASSUME NEW x \in D
        PROVE  SumOver(Shares(offTo, x, A), A) = off[x]
    <3> DEFINE f == Shares(offTo, x, A)
               b == x.account
    <3>1. \A a \in A : f[a] = IF a = b THEN off[x] ELSE 0
      BY <1>7 DEF Shares
    <3>2. b \in A /\ off[x] \in Int
      BY <1>5
    <3> HIDE DEF f, b
    <3>3. SumOver(f, A) = off[x]
      BY <3>1, <3>2, SetSumPoint
    <3> QED
      BY <3>3 DEF f
  <2>2. \A x \in D : \A a \in A : offTo[a][x] \in Int
    BY <1>7
  <2>3. HandsOut(offTo, off, A, D)
    BY <2>1, <2>2 DEF HandsOut
  <2> QED
    BY <1>0, <1>2, <1>8, <2>3, SumsSwap
<1>16. SumOver(got, A) = ExactTax(item) + ExactDiscount(item)
  <2>1. AddsUp(got, gotTax, gotOff, A)
    BY <1>8, <1>10, <1>11, <1>12 DEF AddsUp
  <2> QED
    BY <1>14, <1>15, <2>1, SetSumAdd
<1> QED
  BY <1>1, <1>9, <1>10, <1>11, <1>12, <1>13, <1>16

(* What a payment credits to the accounts: to each a number, to one that   *)
(* it does not write nothing, to all of them together what it takes from   *)
(* the payee.                                                              *)
LEMMA Credits ==
    ASSUME NEW items, Sound(items),
           IsFiniteSet(AccountIDs), AllowedTaxAccounts \subseteq AccountIDs
    PROVE  /\ \A a \in AccountIDs :
                 /\ Credit(items, a) \in Nat
                 /\ Credit(items, a) # 0 => a \in WrittenTaxAccounts(items)
           /\ SumOver([a \in AccountIDs |-> Credit(items, a)], AccountIDs)
                 = ExactTaken(items)
<1> DEFINE T == ToSet(items)
           A == AccountIDs
           all  == [item \in T |-> ExactTax(item) + ExactDiscount(item)]
           part == [a \in A |-> [item \in T |-> ItemCredit(item, a)]]
           got  == [a \in A |-> Credit(items, a)]
<1>0. items \in Seq(T) /\ ExactTaken(items) \in Nat /\ ExactTaken(items) < HalfWord
  BY OwnElements, LineTotals DEF Sound, NothingOverflows
<1>1. \A x \in T : \A a \in A : part[a][x] = ItemCredit(x, a)
  OBVIOUS
<1>2. \A x \in T : all[x] = ExactTax(x) + ExactDiscount(x) /\ all[x] \in Nat
  BY LineTotals
<1>3. ExactTaken(items) = SumOf(all, items)
  BY DEF ExactTaken
<1>4. \A a \in A : /\ got[a] = Credit(items, a)
                   /\ Credit(items, a) = Wrap(SumOf(part[a], items))
  BY DEF Credit, Total
<1>5. \A x \in T : Shares(part, x, A) = [a \in A |-> ItemCredit(x, a)]
  BY DEF Shares
<1> HIDE DEF all, part, got, T
<1>6. ASSUME NEW x \in T, NEW a \in A
      PROVE  /\ part[a][x] \in Nat /\ part[a][x] \in Int
             /\ all[x] \in Int /\ part[a][x] <= all[x]
  <2>1. /\ ItemCredit(x, a) \in Nat
        /\ ItemCredit(x, a) <= ExactTax(x) + ExactDiscount(x)
    BY LineCredits DEF T
  <2>2. part[a][x] = ItemCredit(x, a)
    BY <1>1
  <2>3. all[x] = ExactTax(x) + ExactDiscount(x) /\ all[x] \in Nat
    BY <1>2
  <2> QED
    BY <2>1, <2>2, <2>3
<1>7. ASSUME NEW a \in A
      PROVE  /\ SumOf(part[a], items) \in Nat
             /\ SumOf(part[a], items) < HalfWord
             /\ got[a] = SumOf(part[a], items)
  <2> DEFINE f == part[a]
  <2>1. \A x \in T : f[x] \in Nat /\ f[x] \in Int /\ all[x] \in Int /\ f[x] <= all[x]
    BY <1>6
  <2> HIDE DEF f
  <2>2. SumOf(f, items) \in Nat
    BY <1>0, <2>1, SumNat
  <2>3. SumOf(f, items) <= SumOf(all, items)
    BY <1>0, <2>1, SumLeq
  <2>4. HalfWord \in Nat
    BY SplitsAssumption
  <2>5. SumOf(f, items) < HalfWord
    BY <1>0, <1>3, <2>2, <2>3, <2>4
  <2> QED
    BY <1>4, <2>2, <2>5, WrapNat DEF f
<1>8. ASSUME NEW a \in A, a \notin WrittenTaxAccounts(items)
      PROVE  got[a] = 0
  <2> DEFINE f == part[a]
  <2>1. \A x \in T : f[x] = 0
    BY <1>1, <1>8, LineCredits DEF T
  <2> HIDE DEF f
  <2>2. SumOf(f, items) = 0
    BY <1>0, <2>1, SumZero
  <2> QED
    BY <1>7, <2>2 DEF f
<1>9. HandsOut(part, all, A, T)
  <2> SUFFICES ASSUME NEW x \in T
               PROVE  /\ \A a \in A : part[a][x] \in Int
                      /\ SumOver(Shares(part, x, A), A) = all[x]
    BY DEF HandsOut
  <2>1. SumOver([a \in A |-> ItemCredit(x, a)], A) = ExactTax(x) + ExactDiscount(x)
    BY LineCredits DEF T
  <2> QED
    BY <1>2, <1>5, <1>6, <2>1
<1>10. SumOver(got, A) = SumOf(all, items)
  BY <1>0, <1>7, <1>9, SumsSwap
<1>11. got = [a \in A |-> Credit(items, a)]
  BY DEF got
<1> QED
  BY <1>3, <1>4, <1>7, <1>8, <1>10, <1>11

(* A payment takes as much as it gives, whoever is payer, payee or holder  *)
(* of a tax account.                                                       *)
LEMMA PaymentMoves ==
    ASSUME NEW tx, Sound(tx.items), tx.payer \in AccountIDs, tx.payee \in AccountIDs,
           IsFiniteSet(AccountIDs), AllowedTaxAccounts \subseteq AccountIDs
    PROVE  /\ \A a \in AccountIDs : PaymentDelta(tx, a) \in Int
           /\ SumOver([a \in AccountIDs |-> PaymentDelta(tx, a)], AccountIDs) = 0
<1> DEFINE A == AccountIDs
           gross == GrossAmount(tx.items)
           net   == NetToPayee(tx.items)
           pays  == [a \in A |-> IF a = tx.payer THEN -gross ELSE 0]
           gets  == [a \in A |-> IF a = tx.payee THEN net ELSE 0]
           deal  == [a \in A |-> pays[a] + gets[a]]
           taxes == [a \in A |-> Credit(tx.items, a)]
           delta == [a \in A |-> PaymentDelta(tx, a)]
<1>1. /\ gross \in Nat /\ net \in Nat /\ ExactTaken(tx.items) \in Nat
      /\ gross = net + ExactTaken(tx.items)
  BY Getters, LineTotals
<1>2. /\ SumOver(taxes, A) = ExactTaken(tx.items)
      /\ \A a \in A : taxes[a] = Credit(tx.items, a) /\ taxes[a] \in Int
  BY Credits
<1> HIDE DEF taxes, gross, net
<1>3. \A a \in A : /\ pays[a] = IF a = tx.payer THEN -gross ELSE 0
                   /\ gets[a] = IF a = tx.payee THEN net ELSE 0
                   /\ deal[a] = pays[a] + gets[a]
                   /\ delta[a] = PaymentDelta(tx, a)
                   /\ pays[a] \in Int /\ gets[a] \in Int
  BY <1>1
<1>4. delta = [a \in A |-> PaymentDelta(tx, a)]
  OBVIOUS
<1> HIDE DEF pays, gets, deal, delta
<1>5. \A a \in A : /\ deal[a] \in Int
                   /\ delta[a] = deal[a] + taxes[a]
                   /\ delta[a] \in Int
  BY <1>2, <1>3 DEF PaymentDelta, gross, net
<1>6. SumOver(pays, A) = -gross
  <2>1. -gross \in Int /\ \A a \in A : pays[a] = IF a = tx.payer THEN -gross ELSE 0
    BY <1>1, <1>3
  <2> DEFINE m == -gross
  <2>2. m \in Int /\ \A a \in A : pays[a] = IF a = tx.payer THEN m ELSE 0
    BY <2>1
  <2> HIDE DEF m
  <2>3. SumOver(pays, A) = m
    BY <2>2, SetSumPoint
  <2> QED
    BY <2>3 DEF m
<1>7. SumOver(gets, A) = net
  <2>1. net \in Int /\ \A a \in A : gets[a] = IF a = tx.payee THEN net ELSE 0
    BY <1>1, <1>3
  <2> QED
    BY <2>1, SetSumPoint
<1>8. AddsUp(deal, pays, gets, A) /\ AddsUp(delta, deal, taxes, A)
  BY <1>2, <1>3, <1>5 DEF AddsUp
<1>9. /\ SumOver(deal, A) = SumOver(pays, A) + SumOver(gets, A)
      /\ SumOver(delta, A) = SumOver(deal, A) + SumOver(taxes, A)
  BY <1>8, SetSumAdd
<1>10. SumOver(delta, A) = 0
  BY <1>1, <1>2, <1>6, <1>7, <1>9
<1> QED
  BY <1>3, <1>4, <1>5, <1>10

-----------------------------------------------------------------------------
(***************************************************************************)
(* The pools.                                                              *)
(***************************************************************************)
Kept == INSTANCE Folding WITH
            Op <- LAMBDA S, kept, x : IF x \in S THEN Append(kept, x) ELSE kept

(* Only keeps nothing of nothing ...                                       *)
LEMMA OnlyEmpty ==
    ASSUME NEW S
    PROVE  Only(<<>>, S) = <<>>
<1>1. Only(<<>>, S) = Kept!FoldOf(S, <<>>, <<>>)
  BY DEF Only, Kept!FoldOf, FoldLeft, MapThenFoldSet,
         Kept!MapThenFoldSet, Max, Kept!Max
<1> QED
  BY <1>1, Kept!FoldEmpty

(* ... and of an element more, the element if it is in the set.            *)
LEMMA OnlyAppend ==
    ASSUME NEW S, NEW T, NEW seq \in Seq(T), NEW x \in T
    PROVE  Only(Append(seq, x), S)
              = IF x \in S THEN Append(Only(seq, S), x) ELSE Only(seq, S)
<1>1. \A q : Only(q, S) = Kept!FoldOf(S, <<>>, q)
  BY DEF Only, Kept!FoldOf, FoldLeft, MapThenFoldSet,
         Kept!MapThenFoldSet, Max, Kept!Max
<1>2. Kept!FoldOf(S, <<>>, Append(seq, x))
         = IF x \in S THEN Append(Kept!FoldOf(S, <<>>, seq), x)
           ELSE Kept!FoldOf(S, <<>>, seq)
  BY Kept!FoldAppend
<1> QED
  BY <1>1, <1>2

(* What it keeps is a sequence of the elements that are in the set.        *)
LEMMA OnlyElements ==
    ASSUME NEW S, NEW T, NEW seq \in Seq(T)
    PROVE  Only(seq, S) \in Seq(T) /\ ToSet(Only(seq, S)) = ToSet(seq) \cap S
<1> DEFINE P == {s \in Seq(T) : /\ Only(s, S) \in Seq(T)
                                /\ ToSet(Only(s, S)) = ToSet(s) \cap S}
<1>1. <<>> \in P
  <2>1. ToSet(<<>>) = {}
    BY DEF ToSet
  <2> QED
    BY <2>1, OnlyEmpty, EmptySeq
<1>2. ASSUME NEW s \in P, NEW x \in T PROVE Append(s, x) \in P
  <2>1. Append(s, x) \in Seq(T) /\ ToSet(Append(s, x)) = ToSet(s) \cup {x}
    BY ElementsAppend, AppendProperties
  <2>2. CASE x \in S
    <3>1. Only(Append(s, x), S) = Append(Only(s, S), x)
      BY <2>2, OnlyAppend
    <3>2. /\ Append(Only(s, S), x) \in Seq(T)
          /\ ToSet(Append(Only(s, S), x)) = ToSet(Only(s, S)) \cup {x}
      BY ElementsAppend, AppendProperties
    <3> QED
      BY <2>1, <2>2, <3>1, <3>2
  <2>3. CASE x \notin S
    <3>1. Only(Append(s, x), S) = Only(s, S)
      BY <2>3, OnlyAppend
    <3> QED
      BY <2>1, <2>3, <3>1
  <2> QED
    BY <2>2, <2>3
<1> HIDE DEF P
<1>3. P \in SUBSET Seq(T)
  BY DEF P
<1>4. P = Seq(T)
  BY <1>1, <1>2, <1>3, Kept!SeqSet
<1> QED
  BY <1>4 DEF P

(* What is kept and what is not add up to all.                             *)
LEMMA SumOnly ==
    ASSUME NEW T, NEW f, \A x \in T : f[x] \in Int, NEW seq \in Seq(T),
           NEW S, NEW R, \A x \in T : x \in S <=> x \notin R
    PROVE  SumOf(f, seq) = SumOf(f, Only(seq, S)) + SumOf(f, Only(seq, R))
<1> DEFINE P == {s \in Seq(T) :
                    SumOf(f, s) = SumOf(f, Only(s, S)) + SumOf(f, Only(s, R))}
<1>1. <<>> \in P
  BY EmptySeq, OnlyEmpty, SumEmpty
<1>2. ASSUME NEW s \in P, NEW x \in T PROVE Append(s, x) \in P
  <2> DEFINE r == Append(s, x)
  <2>1. r \in Seq(T) /\ SumOf(f, r) = SumOf(f, s) + f[x]
    BY SumAppend, AppendProperties
  <2> HIDE DEF r
  <2> SUFFICES r \in P
    BY DEF r
  <2>0. SumOf(f, s) = SumOf(f, Only(s, S)) + SumOf(f, Only(s, R))
    OBVIOUS
  <2>6. ASSUME r \in Seq(T), SumOf(f, r) = SumOf(f, Only(r, S)) + SumOf(f, Only(r, R))
        PROVE  r \in P
    BY <2>6
  <2>2. Only(s, S) \in Seq(T) /\ Only(s, R) \in Seq(T)
    BY OnlyElements
  <2>3. /\ SumOf(f, Only(s, S)) \in Int /\ SumOf(f, Only(s, R)) \in Int
        /\ f[x] \in Int
    BY <2>2, SumInt
  <2>4. CASE x \in S
    <3>1. Only(r, S) = Append(Only(s, S), x) /\ Only(r, R) = Only(s, R)
      BY <2>4, OnlyAppend DEF r
    <3>2. SumOf(f, Only(r, S)) = SumOf(f, Only(s, S)) + f[x]
      BY <2>2, <3>1, SumAppend
    <3>3. SumOf(f, Only(r, R)) = SumOf(f, Only(s, R))
      BY <3>1
    <3>4. SumOf(f, r) = SumOf(f, Only(r, S)) + SumOf(f, Only(r, R))
      BY <2>0, <2>1, <2>3, <3>2, <3>3
    <3> QED
      BY <2>1, <3>4, <2>6
  <2>5. CASE x \notin S
    <3>1. Only(r, R) = Append(Only(s, R), x) /\ Only(r, S) = Only(s, S)
      BY <2>5, OnlyAppend DEF r
    <3>2. SumOf(f, Only(r, R)) = SumOf(f, Only(s, R)) + f[x]
      BY <2>2, <3>1, SumAppend
    <3>3. SumOf(f, Only(r, S)) = SumOf(f, Only(s, S))
      BY <3>1
    <3>4. SumOf(f, r) = SumOf(f, Only(r, S)) + SumOf(f, Only(r, R))
      BY <2>0, <2>1, <2>3, <3>2, <3>3
    <3> QED
      BY <2>1, <3>4, <2>6
  <2> QED
    BY <2>4, <2>5
<1> HIDE DEF P
<1>3. P \in SUBSET Seq(T)
  BY DEF P
<1>4. P = Seq(T)
  BY <1>1, <1>2, <1>3, Kept!SeqSet
<1> QED
  BY <1>4 DEF P

(* What Without leaves of a pool and what it takes out.                    *)
LEMMA WithoutElements ==
    ASSUME NEW T, NEW order \in Seq(T), NEW txs
    PROVE  /\ Without(order, txs) \in Seq(T)
           /\ ToSet(Without(order, txs)) = {p \in ToSet(order) : NewIn(txs, p)}
           /\ Among(order, txs) \in Seq(T)
           /\ ToSet(Among(order, txs)) = {p \in ToSet(order) : ~NewIn(txs, p)}
<1> DEFINE S == {p \in ToSet(order) : NewIn(txs, p)}
           R == {p \in ToSet(order) : ~NewIn(txs, p)}
<1>1. Only(order, S) \in Seq(T) /\ ToSet(Only(order, S)) = ToSet(order) \cap S
  BY OnlyElements
<1>2. Only(order, R) \in Seq(T) /\ ToSet(Only(order, R)) = ToSet(order) \cap R
  BY OnlyElements
<1>3. Without(order, txs) = Only(order, S) /\ Among(order, txs) = Only(order, R)
  BY DEF Without, Among
<1> QED
  BY <1>1, <1>2, <1>3

-----------------------------------------------------------------------------
(* Payments that can be reserved for.                                      *)
Reservable(T) ==
    \A tx \in T : tx.payer \in AccountIDs /\ GrossAmount(tx.items) \in Nat

GrossBy(a, T) == [p \in T |-> IF p.payer = a THEN GrossAmount(p.items) ELSE 0]

(* What the payments of an account take is a sum, and a number.            *)
LEMMA GrossOfIsSum ==
    ASSUME NEW T, Reservable(T), NEW seq \in Seq(T), NEW a
    PROVE  /\ GrossOf(seq, a) = SumOf(GrossBy(a, T), seq)
           /\ GrossOf(seq, a) \in Nat
<1> DEFINE f == [p \in ToSet(seq) |->
                    IF p.payer = a THEN GrossAmount(p.items) ELSE 0]
           g == GrossBy(a, T)
<1>1. ToSet(seq) \subseteq T
  BY OwnElements
<1>2. \A x \in ToSet(seq) : f[x] = g[x]
  BY <1>1 DEF GrossBy
<1>3. \A x \in T : g[x] \in Nat
  BY DEF GrossBy, Reservable
<1>4. GrossOf(seq, a) = SumOf(f, seq)
  BY DEF GrossOf
<1> HIDE DEF f, g
<1>5. SumOf(f, seq) = SumOf(g, seq)
  BY <1>2, SumSame
<1>6. SumOf(g, seq) \in Nat
  BY <1>3, SumNat
<1> QED
  BY <1>4, <1>5, <1>6 DEF g

(* A payment more takes its gross from its payer, and nothing from others. *)
LEMMA GrossOfAppend ==
    ASSUME NEW T, Reservable(T), NEW seq \in Seq(T), NEW x \in T, NEW a
    PROVE  GrossOf(Append(seq, x), a)
              = GrossOf(seq, a) + IF x.payer = a THEN GrossAmount(x.items) ELSE 0
<1> DEFINE g == GrossBy(a, T)
<1>1. Append(seq, x) \in Seq(T)
  BY AppendProperties
<1>2. g[x] = IF x.payer = a THEN GrossAmount(x.items) ELSE 0
  BY DEF GrossBy
<1>3. SumOf(g, Append(seq, x)) = SumOf(g, seq) + g[x]
  BY SumAppend
<1> QED
  BY <1>1, <1>2, <1>3, GrossOfIsSum

(* What a pool keeps and what it lets go take together what it took.       *)
LEMMA GrossOfWithout ==
    ASSUME NEW T, Reservable(T), NEW order \in Seq(T), NEW txs, NEW a
    PROVE  GrossOf(order, a)
              = GrossOf(Without(order, txs), a) + GrossOf(Among(order, txs), a)
<1> DEFINE R == ToSet(order)
           g == GrossBy(a, R)
           K == {p \in R : NewIn(txs, p)}
           L == {p \in R : ~NewIn(txs, p)}
<1>1. order \in Seq(R) /\ R \subseteq T
  BY OwnElements
<1>2. Reservable(R)
  BY <1>1 DEF Reservable
<1>3. \A x \in R : g[x] \in Int
  BY <1>2 DEF GrossBy, Reservable
<1>4. \A x \in R : x \in K <=> x \notin L
  OBVIOUS
<1> HIDE DEF R, g, K, L
<1>5. SumOf(g, order) = SumOf(g, Only(order, K)) + SumOf(g, Only(order, L))
  BY <1>1, <1>3, <1>4, SumOnly
<1>6. Only(order, K) \in Seq(R) /\ Only(order, L) \in Seq(R)
  BY <1>1, OnlyElements
<1>7. Without(order, txs) = Only(order, K) /\ Among(order, txs) = Only(order, L)
  BY DEF Without, Among, K, L, R
<1> QED
  BY <1>1, <1>2, <1>5, <1>6, <1>7, GrossOfIsSum DEF g

Freed == INSTANCE Folding WITH Op <- LAMBDA p, reserved, tx : Release(reserved, tx)

(* Releasing payments that were reserved for takes off what they take, and *)
(* never has to stop at 0.                                                 *)
LEMMA ReleaseAll ==
    ASSUME NEW T, Reservable(T), NEW reserved \in [AccountIDs -> Nat],
           NEW seq \in Seq(T), \A a \in AccountIDs : GrossOf(seq, a) <= reserved[a]
    PROVE  FoldLeft(Release, reserved, seq)
              = [a \in AccountIDs |-> reserved[a] - GrossOf(seq, a)]
<1> DEFINE left(s) == [a \in AccountIDs |-> reserved[a] - GrossOf(s, a)]
           P == {s \in Seq(T) : (\A a \in AccountIDs : GrossOf(s, a) <= reserved[a])
                                   => Freed!FoldOf(0, reserved, s) = left(s)}
<1>1. <<>> \in P
  <2>1. \A a : GrossOf(<<>>, a) = 0
    BY SumEmpty DEF GrossOf
  <2>2. left(<<>>) = reserved
    BY <2>1
  <2> QED
    BY <2>2, Freed!FoldEmpty, EmptySeq
<1>2. ASSUME NEW s \in P, NEW x \in T PROVE Append(s, x) \in P
  <2> DEFINE r == Append(s, x)
  <2>1. r \in Seq(T)
    BY AppendProperties
  <2> SUFFICES ASSUME \A a \in AccountIDs : GrossOf(r, a) <= reserved[a]
               PROVE  Freed!FoldOf(0, reserved, r) = left(r)
    BY <2>1
  <2>2. x.payer \in AccountIDs /\ GrossAmount(x.items) \in Nat
    BY DEF Reservable
  <2>3. \A a \in AccountIDs :
           /\ GrossOf(r, a) = GrossOf(s, a)
                                 + IF x.payer = a THEN GrossAmount(x.items) ELSE 0
           /\ GrossOf(s, a) \in Nat
           /\ reserved[a] \in Nat
    BY GrossOfAppend, GrossOfIsSum
  <2>4. ASSUME NEW a \in AccountIDs PROVE GrossOf(s, a) <= reserved[a]
    <3> DEFINE more == IF x.payer = a THEN GrossAmount(x.items) ELSE 0
    <3>1. more \in Nat
      BY <2>2
    <3>2. GrossOf(r, a) = GrossOf(s, a) + more /\ GrossOf(s, a) \in Nat /\ reserved[a] \in Nat
      BY <2>3
    <3>3. GrossOf(r, a) <= reserved[a]
      OBVIOUS
    <3> HIDE DEF more, r, P
    <3> QED
      BY <3>1, <3>2, <3>3
  <2>5. Freed!FoldOf(0, reserved, s) = left(s)
    BY <2>4
  <2>6. Freed!FoldOf(0, reserved, r) = Release(Freed!FoldOf(0, reserved, s), x)
    BY Freed!FoldAppend
  <2>7. Release(left(s), x) = left(r)
    <3> DEFINE gross == GrossAmount(x.items)
               u == left(s)
               v == left(r)
    <3>1. u[x.payer] - gross = v[x.payer] /\ v[x.payer] \in Nat
      BY <2>2, <2>3
    <3>2. \A a \in AccountIDs : a # x.payer => v[a] = u[a]
      BY <2>2, <2>3
    <3>3. u = [a \in AccountIDs |-> u[a]] /\ v = [a \in AccountIDs |-> v[a]]
      OBVIOUS
    <3> HIDE DEF u, v
    <3>4. (IF u[x.payer] - gross > 0 THEN u[x.payer] - gross ELSE 0) = v[x.payer]
      BY <3>1
    <3>5. Release(u, x) = [u EXCEPT ![x.payer] = v[x.payer]]
      BY <3>4 DEF Release
    <3>6. Release(u, x) = v
      BY <2>2, <3>2, <3>3, <3>5
    <3> QED
      BY <3>6 DEF u, v
  <2> QED
    BY <2>5, <2>6, <2>7
<1>3. P = Seq(T)
  <2> HIDE DEF P
  <2>1. P \in SUBSET Seq(T)
    BY DEF P
  <2> QED
    BY <1>1, <1>2, <2>1, Freed!SeqSet
<1>4. FoldLeft(Release, reserved, seq) = Freed!FoldOf(0, reserved, seq)
  BY DEF Freed!FoldOf, FoldLeft, MapThenFoldSet,
         Freed!MapThenFoldSet, Max, Freed!Max
<1> QED
  BY <1>3, <1>4

(* A pool of payments of T that counts exactly what they take.             *)
ExactPool(pool, T) ==
    /\ pool.order \in Seq(T)
    /\ pool.reserved \in [AccountIDs -> Nat]
    /\ \A a \in AccountIDs : pool.reserved[a] = GrossOf(pool.order, a)

(* The empty pool does ...                                                 *)
LEMMA EmptyPoolExact ==
    ASSUME NEW T
    PROVE  ExactPool(EmptyPool, T)
<1>1. \A a : GrossOf(<<>>, a) = 0
  BY SumEmpty DEF GrossOf
<1> QED
  BY <1>1, EmptySeq DEF ExactPool, EmptyPool

(* ... and so does one with a payment more, ...                            *)
LEMMA AddPaymentExact ==
    ASSUME NEW T, Reservable(T), NEW pool, ExactPool(pool, T), NEW tx \in T
    PROVE  ExactPool(AddPayment(pool, tx), T)
<1> DEFINE gross == GrossAmount(tx.items)
           new == [pool.reserved EXCEPT ![tx.payer] = pool.reserved[tx.payer] + gross]
<1>1. /\ AddPayment(pool, tx).order = Append(pool.order, tx)
      /\ AddPayment(pool, tx).reserved = new
  BY DEF AddPayment
<1>2. tx.payer \in AccountIDs /\ gross \in Nat
  BY DEF Reservable
<1>3. pool.reserved \in [AccountIDs -> Nat] /\ pool.order \in Seq(T)
  BY DEF ExactPool
<1>4. new \in [AccountIDs -> Nat]
  BY <1>2, <1>3
<1>5. \A a \in AccountIDs :
         GrossOf(Append(pool.order, tx), a)
            = pool.reserved[a] + IF tx.payer = a THEN gross ELSE 0
  BY <1>3, GrossOfAppend DEF ExactPool
<1>6. \A a \in AccountIDs : new[a] = GrossOf(Append(pool.order, tx), a)
  BY <1>2, <1>3, <1>5
<1>7. Append(pool.order, tx) \in Seq(T)
  BY <1>3, AppendProperties
<1> QED
  BY <1>1, <1>4, <1>6, <1>7 DEF ExactPool

(* ... and one that lost any payments, those of a block that it never had  *)
(* included.                                                               *)
LEMMA RemovePaymentsExact ==
    ASSUME NEW T, Reservable(T), NEW pool, ExactPool(pool, T), NEW txs
    PROVE  ExactPool(RemovePayments(pool, txs), T)
<1> DEFINE kept == Without(pool.order, txs)
           gone == Among(pool.order, txs)
           new  == [a \in AccountIDs |-> pool.reserved[a] - GrossOf(gone, a)]
<1>1. /\ pool.reserved \in [AccountIDs -> Nat] /\ pool.order \in Seq(T)
      /\ \A a \in AccountIDs : pool.reserved[a] = GrossOf(pool.order, a)
  BY DEF ExactPool
<1>2. kept \in Seq(T) /\ gone \in Seq(T)
  BY <1>1, WithoutElements
<1>3. \A a \in AccountIDs :
         /\ pool.reserved[a] = GrossOf(kept, a) + GrossOf(gone, a)
         /\ GrossOf(kept, a) \in Nat /\ GrossOf(gone, a) \in Nat
  BY <1>1, <1>2, GrossOfWithout, GrossOfIsSum
<1>4. \A a \in AccountIDs : GrossOf(gone, a) <= pool.reserved[a]
  BY <1>3
<1>5. FoldLeft(Release, pool.reserved, gone) = new
  BY <1>1, <1>2, <1>4, ReleaseAll
<1>6. /\ RemovePayments(pool, txs).order = kept
      /\ RemovePayments(pool, txs).reserved = FoldLeft(Release, pool.reserved, gone)
  BY DEF RemovePayments
<1>7. new \in [AccountIDs -> Nat] /\ \A a \in AccountIDs : new[a] = GrossOf(kept, a)
  BY <1>3
<1> QED
  BY <1>2, <1>5, <1>6, <1>7 DEF ExactPool

-----------------------------------------------------------------------------
(***************************************************************************)
(* Blocks: what selectExecutable takes is valid, in the order it takes it, *)
(* and leads to the state it computed. The three kinds of transactions     *)
(* have one proof.                                                         *)
(***************************************************************************)
ValidAs(kind, tx, s) ==
    CASE kind = "create"  -> ValidCreate(tx, s)
      [] kind = "payment" -> ValidPayment(tx, s)
      [] kind = "close"   -> ValidClose(tx, s)

ApplyAs(kind, tx, s) ==
    CASE kind = "create"  -> ApplyCreate(tx, s)
      [] kind = "payment" -> ApplyPayment(tx, s)
      [] kind = "close"   -> ApplyClose(tx, s)

(* From the states base, h has the states after each sequence over T.      *)
IsRun(h, kind, base, T) ==
    /\ h[<<>>] = base
    /\ \A q \in Seq(T) : \A x \in T :
          h[Append(q, x)] =
             {ApplyAs(kind, x, s) : s \in {t \in h[q] : ValidAs(kind, x, t)}}

(* From s, g has what is selected of each sequence over T.                 *)
IsSelect(g, kind, max, s, T) ==
    /\ g[<<>>] = [state |-> s, taken |-> <<>>, dropped |-> <<>>]
    /\ \A q \in Seq(T) : \A x \in T :
          g[Append(q, x)] =
             IF Len(g[q].taken) >= max THEN g[q]
             ELSE IF ValidAs(kind, x, g[q].state)
                  THEN [g[q] EXCEPT !.state = ApplyAs(kind, x, g[q].state),
                                    !.taken = Append(g[q].taken, x)]
                  ELSE [g[q] EXCEPT !.dropped = Append(g[q].dropped, x)]

Creating == INSTANCE Folding WITH Op <- LAMBDA p, states, tx : CreateIn(states, tx)
Paying   == INSTANCE Folding WITH Op <- LAMBDA p, states, tx : PaymentIn(states, tx)
Closing  == INSTANCE Folding WITH Op <- LAMBDA p, states, tx : CloseIn(states, tx)

(* The states after the transactions of a kind.                            *)
AfterCreates(states, txs)  == FoldLeft(CreateIn, states, txs)
AfterPayments(states, txs) == FoldLeft(PaymentIn, states, txs)
AfterCloses(states, txs)   == FoldLeft(CloseIn, states, txs)

(* The transactions of a block run kind by kind.                           *)
LEMMA Runs ==
    ASSUME NEW T, NEW base
    PROVE  /\ IsRun([q \in Seq(T) |-> AfterCreates(base, q)], "create", base, T)
           /\ IsRun([q \in Seq(T) |-> AfterPayments(base, q)], "payment", base, T)
           /\ IsRun([q \in Seq(T) |-> AfterCloses(base, q)], "close", base, T)
<1> DEFINE c == [q \in Seq(T) |-> AfterCreates(base, q)]
           p == [q \in Seq(T) |-> AfterPayments(base, q)]
           e == [q \in Seq(T) |-> AfterCloses(base, q)]
<1>1. \A q \in Seq(T) : c[q] = Creating!FoldOf(0, base, q)
  BY DEF AfterCreates, Creating!FoldOf, FoldLeft, MapThenFoldSet,
         Creating!MapThenFoldSet, Max, Creating!Max
<1>2. \A q \in Seq(T) : p[q] = Paying!FoldOf(0, base, q)
  BY DEF AfterPayments, Paying!FoldOf, FoldLeft, MapThenFoldSet,
         Paying!MapThenFoldSet, Max, Paying!Max
<1>3. \A q \in Seq(T) : e[q] = Closing!FoldOf(0, base, q)
  BY DEF AfterCloses, Closing!FoldOf, FoldLeft, MapThenFoldSet,
         Closing!MapThenFoldSet, Max, Closing!Max
<1>4. /\ <<>> \in Seq(T)
      /\ \A q \in Seq(T) : \A x \in T : Append(q, x) \in Seq(T)
  BY EmptySeq, AppendProperties
<1> HIDE DEF c, p, e
<1>5. c[<<>>] = base /\ p[<<>>] = base /\ e[<<>>] = base
  BY <1>1, <1>2, <1>3, <1>4, Creating!FoldEmpty, Paying!FoldEmpty, Closing!FoldEmpty
<1>6. ASSUME NEW q \in Seq(T), NEW x \in T
      PROVE  /\ c[Append(q, x)] = CreateIn(c[q], x)
             /\ p[Append(q, x)] = PaymentIn(p[q], x)
             /\ e[Append(q, x)] = CloseIn(e[q], x)
  <2>1. Creating!FoldOf(0, base, Append(q, x)) = CreateIn(Creating!FoldOf(0, base, q), x)
    BY Creating!FoldAppend
  <2>2. Paying!FoldOf(0, base, Append(q, x)) = PaymentIn(Paying!FoldOf(0, base, q), x)
    BY Paying!FoldAppend
  <2>3. Closing!FoldOf(0, base, Append(q, x)) = CloseIn(Closing!FoldOf(0, base, q), x)
    BY Closing!FoldAppend
  <2> QED
    BY <1>1, <1>2, <1>3, <1>4, <2>1, <2>2, <2>3
<1>7. IsRun(c, "create", base, T)
  BY <1>5, <1>6 DEF IsRun, CreateIn, ValidAs, ApplyAs
<1>8. IsRun(p, "payment", base, T)
  BY <1>5, <1>6 DEF IsRun, PaymentIn, ValidAs, ApplyAs
<1>9. IsRun(e, "close", base, T)
  BY <1>5, <1>6 DEF IsRun, CloseIn, ValidAs, ApplyAs
<1> QED
  BY <1>7, <1>8, <1>9 DEF c, p, e

PickCreate(max, sel, tx) ==
    IF Len(sel.taken) >= max THEN sel
    ELSE IF ValidCreate(tx, sel.state)
         THEN [sel EXCEPT !.state = ApplyCreate(tx, @), !.taken = Append(@, tx)]
         ELSE [sel EXCEPT !.dropped = Append(@, tx)]

PickCreates == INSTANCE Folding WITH Op <- PickCreate

PickPayment(max, sel, tx) ==
    IF Len(sel.taken) >= max THEN sel
    ELSE IF ValidPayment(tx, sel.state)
         THEN [sel EXCEPT !.state = ApplyPayment(tx, @), !.taken = Append(@, tx)]
         ELSE [sel EXCEPT !.dropped = Append(@, tx)]

PickPayments == INSTANCE Folding WITH Op <- PickPayment

PickClose(max, sel, tx) ==
    IF Len(sel.taken) >= max THEN sel
    ELSE IF ValidClose(tx, sel.state)
         THEN [sel EXCEPT !.state = ApplyClose(tx, @), !.taken = Append(@, tx)]
         ELSE [sel EXCEPT !.dropped = Append(@, tx)]

PickCloses == INSTANCE Folding WITH Op <- PickClose


(* So does the selection.                                                  *)
LEMMA Selects ==
    ASSUME NEW T, NEW max, NEW s
    PROVE  /\ IsSelect([q \in Seq(T) |-> SelectCreate(q, max, s)], "create", max, s, T)
           /\ IsSelect([q \in Seq(T) |-> SelectPayment(q, max, s)], "payment", max, s, T)
           /\ IsSelect([q \in Seq(T) |-> SelectClose(q, max, s)], "close", max, s, T)
<1> DEFINE start == [state |-> s, taken |-> <<>>, dropped |-> <<>>]
           c == [q \in Seq(T) |-> SelectCreate(q, max, s)]
           p == [q \in Seq(T) |-> SelectPayment(q, max, s)]
           e == [q \in Seq(T) |-> SelectClose(q, max, s)]
<1>1. \A q \in Seq(T) : c[q] = PickCreates!FoldOf(max, start, q)
  BY DEF SelectCreate, Select, PickCreate, PickCreates!FoldOf, FoldLeft,
         MapThenFoldSet, PickCreates!MapThenFoldSet, Max, PickCreates!Max
<1>2. \A q \in Seq(T) : p[q] = PickPayments!FoldOf(max, start, q)
  BY DEF SelectPayment, Select, PickPayment, PickPayments!FoldOf, FoldLeft,
         MapThenFoldSet, PickPayments!MapThenFoldSet, Max, PickPayments!Max
<1>3. \A q \in Seq(T) : e[q] = PickCloses!FoldOf(max, start, q)
  BY DEF SelectClose, Select, PickClose, PickCloses!FoldOf, FoldLeft,
         MapThenFoldSet, PickCloses!MapThenFoldSet, Max, PickCloses!Max
<1>4. /\ <<>> \in Seq(T)
      /\ \A q \in Seq(T) : \A x \in T : Append(q, x) \in Seq(T)
  BY EmptySeq, AppendProperties
<1> HIDE DEF c, p, e
<1>5. c[<<>>] = start /\ p[<<>>] = start /\ e[<<>>] = start
  <2> HIDE DEF start
  <2> QED
    BY <1>1, <1>2, <1>3, <1>4, PickCreates!FoldEmpty, PickPayments!FoldEmpty,
       PickCloses!FoldEmpty
<1>6. IsSelect(c, "create", max, s, T)
  <2> HIDE DEF start
  <2>1. ASSUME NEW q \in Seq(T), NEW x \in T
        PROVE  c[Append(q, x)] = PickCreate(max, c[q], x)
    <3>1. PickCreates!FoldOf(max, start, Append(q, x))
             = PickCreate(max, PickCreates!FoldOf(max, start, q), x)
      BY PickCreates!FoldAppend
    <3> QED
      BY <1>1, <1>4, <3>1
  <2> QED
    BY <1>5, <2>1 DEF IsSelect, ValidAs, ApplyAs, PickCreate, start
<1>7. IsSelect(p, "payment", max, s, T)
  <2> HIDE DEF start
  <2>1. ASSUME NEW q \in Seq(T), NEW x \in T
        PROVE  p[Append(q, x)] = PickPayment(max, p[q], x)
    <3>1. PickPayments!FoldOf(max, start, Append(q, x))
             = PickPayment(max, PickPayments!FoldOf(max, start, q), x)
      BY PickPayments!FoldAppend
    <3> QED
      BY <1>2, <1>4, <3>1
  <2> QED
    BY <1>5, <2>1 DEF IsSelect, ValidAs, ApplyAs, PickPayment, start
<1>8. IsSelect(e, "close", max, s, T)
  <2> HIDE DEF start
  <2>1. ASSUME NEW q \in Seq(T), NEW x \in T
        PROVE  e[Append(q, x)] = PickClose(max, e[q], x)
    <3>1. PickCloses!FoldOf(max, start, Append(q, x))
             = PickClose(max, PickCloses!FoldOf(max, start, q), x)
      BY PickCloses!FoldAppend
    <3> QED
      BY <1>3, <1>4, <3>1
  <2> QED
    BY <1>5, <2>1 DEF IsSelect, ValidAs, ApplyAs, PickClose, start
<1> QED
  BY <1>6, <1>7, <1>8 DEF c, p, e

(* No id comes twice in a sequence of transactions.                        *)
Unrepeated(seq) ==
    \A i, j \in 1..Len(seq) : seq[i].id = seq[j].id => i = j

(* It is so of a sequence with an element more whose id is new ...         *)
LEMMA UnrepeatedAppend ==
    ASSUME NEW T, NEW seq \in Seq(T), NEW x \in T, Unrepeated(seq), NewIn(seq, x)
    PROVE  Unrepeated(Append(seq, x))
<1> DEFINE r == Append(seq, x)
<1>1. /\ Len(seq) \in Nat /\ Len(r) = Len(seq) + 1
      /\ \A i \in 1..Len(seq) : r[i] = seq[i]
      /\ r[Len(seq) + 1] = x
  BY AppendProperties, LenProperties
<1>2. \A i \in 1..Len(seq) : seq[i].id # x.id
  BY ElementOfSeq, LenProperties DEF NewIn, ToSet
<1> HIDE DEF r
<1> SUFFICES ASSUME NEW i \in 1..Len(r), NEW j \in 1..Len(r), r[i].id = r[j].id
             PROVE  i = j
  BY DEF Unrepeated, r
<1>3. CASE i \in 1..Len(seq) /\ j \in 1..Len(seq)
  BY <1>1, <1>3 DEF Unrepeated
<1>4. CASE i = Len(seq) + 1 /\ j \in 1..Len(seq)
  BY <1>1, <1>2, <1>4
<1>5. CASE j = Len(seq) + 1 /\ i \in 1..Len(seq)
  BY <1>1, <1>2, <1>5
<1> QED
  BY <1>1, <1>3, <1>4, <1>5

(* ... and of one with an element less, whose id is new to it.             *)
LEMMA UnrepeatedFront ==
    ASSUME NEW T, NEW seq \in Seq(T), NEW x \in T, Unrepeated(Append(seq, x))
    PROVE  Unrepeated(seq) /\ NewIn(seq, x)
<1> DEFINE r == Append(seq, x)
<1>1. /\ Len(seq) \in Nat /\ Len(r) = Len(seq) + 1
      /\ \A i \in 1..Len(seq) : r[i] = seq[i]
      /\ r[Len(seq) + 1] = x
  BY AppendProperties, LenProperties
<1>2. Unrepeated(r)
  OBVIOUS
<1> HIDE DEF r
<1>3. Unrepeated(seq)
  BY <1>1, <1>2 DEF Unrepeated
<1>4. ASSUME NEW i \in 1..Len(seq) PROVE seq[i].id # x.id
  BY <1>1, <1>2, <1>4 DEF Unrepeated
<1>5. \A p \in ToSet(seq) : \E i \in 1..Len(seq) : p = seq[i]
  BY LenProperties DEF ToSet
<1> QED
  BY <1>3, <1>4, <1>5 DEF NewIn

(* What is selected of a sequence is of the sequence.                      *)
Selection(sel, order, T) ==
    /\ sel = [state |-> sel.state, taken |-> sel.taken, dropped |-> sel.dropped]
    /\ sel.taken \in Seq(T) /\ ToSet(sel.taken) \subseteq ToSet(order)
    /\ sel.dropped \in Seq(T) /\ ToSet(sel.dropped) \subseteq ToSet(order)
    /\ Unrepeated(order) =>
          Unrepeated(sel.taken) /\ \A p \in ToSet(sel.dropped) : NewIn(sel.taken, p)

(* What is taken runs, and to the state that was computed.                 *)
LEMMA SelectSound ==
    ASSUME NEW T, NEW kind, NEW max, NEW s, NEW g, IsSelect(g, kind, max, s, T),
           NEW h, IsRun(h, kind, {s}, T), NEW order \in Seq(T)
    PROVE  Selection(g[order], order, T) /\ h[g[order].taken] = {g[order].state}
<1> DEFINE P == {q \in Seq(T) : Selection(g[q], q, T) /\ h[g[q].taken] = {g[q].state}}
<1>1. <<>> \in P
  <2> DEFINE sel == g[<<>>]
  <2>1. sel = [state |-> s, taken |-> <<>>, dropped |-> <<>>]
    BY DEF IsSelect
  <2>2. h[<<>>] = {s}
    BY DEF IsRun
  <2>3. <<>> \in Seq(T) /\ ToSet(<<>>) = {}
    BY EmptySeq DEF ToSet
  <2> HIDE DEF sel
  <2>4. Selection(sel, <<>>, T)
    BY <2>1, <2>3 DEF Selection
  <2> QED
    BY <2>1, <2>2, <2>3, <2>4 DEF sel
<1>2. ASSUME NEW q \in P, NEW x \in T PROVE Append(q, x) \in P
  <2> DEFINE r == Append(q, x)
             old == g[q]
             new == g[r]
  <2>1. q \in Seq(T) /\ Selection(old, q, T) /\ h[old.taken] = {old.state}
    OBVIOUS
  <2>2. r \in Seq(T) /\ ToSet(r) = ToSet(q) \cup {x}
    BY <2>1, ElementsAppend, AppendProperties
  <2>3. Unrepeated(r) => Unrepeated(q) /\ NewIn(q, x)
    BY <2>1, UnrepeatedFront
  <2>4. new = IF Len(old.taken) >= max THEN old
              ELSE IF ValidAs(kind, x, old.state)
                   THEN [old EXCEPT !.state = ApplyAs(kind, x, old.state),
                                    !.taken = Append(old.taken, x)]
                   ELSE [old EXCEPT !.dropped = Append(old.dropped, x)]
    BY <2>1 DEF IsSelect
  <2> SUFFICES Selection(new, r, T) /\ h[new.taken] = {new.state}
    BY <2>2
  <2> HIDE DEF r, old, new, P
  <2>5. CASE new = old
    BY <2>1, <2>2, <2>3, <2>5 DEF Selection
  <2>6. CASE /\ ValidAs(kind, x, old.state)
             /\ new = [old EXCEPT !.state = ApplyAs(kind, x, old.state),
                                  !.taken = Append(old.taken, x)]
    <3>1. new = [state   |-> ApplyAs(kind, x, old.state),
                 taken   |-> Append(old.taken, x),
                 dropped |-> old.dropped]
      BY <2>1, <2>6 DEF Selection
    <3>2. old.taken \in Seq(T) /\ ToSet(old.taken) \subseteq ToSet(q)
      BY <2>1 DEF Selection
    <3>3. /\ new.taken \in Seq(T)
          /\ ToSet(new.taken) = ToSet(old.taken) \cup {x}
      BY <3>1, <3>2, ElementsAppend, AppendProperties
    <3>4. Unrepeated(r) => Unrepeated(new.taken)
      <4>1. NewIn(q, x) => NewIn(old.taken, x)
        BY <3>2 DEF NewIn
      <4> QED
        BY <2>1, <2>3, <3>1, <3>2, <4>1, UnrepeatedAppend DEF Selection
    <3>7. Unrepeated(r) => \A p \in ToSet(new.dropped) : NewIn(new.taken, p)
      <4> SUFFICES ASSUME Unrepeated(r), NEW p \in ToSet(new.dropped)
                   PROVE  NewIn(new.taken, p)
        OBVIOUS
      <4>1. NewIn(q, x) /\ NewIn(old.taken, p) /\ p \in ToSet(q)
        BY <2>1, <2>3, <3>1 DEF Selection
      <4> QED
        BY <3>3, <4>1 DEF NewIn
    <3>5. Selection(new, r, T)
      BY <2>1, <2>2, <3>1, <3>2, <3>3, <3>4, <3>7 DEF Selection
    <3>6. h[new.taken] = {ApplyAs(kind, x, t) : t \in {u \in h[old.taken] :
                                                        ValidAs(kind, x, u)}}
      BY <3>1, <3>2 DEF IsRun
    <3> QED
      BY <2>1, <2>6, <3>1, <3>5, <3>6
  <2>7. CASE new = [old EXCEPT !.dropped = Append(old.dropped, x)]
    <3>1. new = [state   |-> old.state,
                 taken   |-> old.taken,
                 dropped |-> Append(old.dropped, x)]
      BY <2>1, <2>7 DEF Selection
    <3>2. old.dropped \in Seq(T) /\ ToSet(old.dropped) \subseteq ToSet(q)
      BY <2>1 DEF Selection
    <3>3. /\ new.dropped \in Seq(T)
          /\ ToSet(new.dropped) = ToSet(old.dropped) \cup {x}
      BY <3>1, <3>2, ElementsAppend, AppendProperties
    <3>4. Unrepeated(r) => \A p \in ToSet(new.dropped) : NewIn(new.taken, p)
      <4> SUFFICES ASSUME Unrepeated(r), NEW p \in ToSet(new.dropped)
                   PROVE  NewIn(new.taken, p)
        OBVIOUS
      <4>1. NewIn(q, x) /\ ToSet(old.taken) \subseteq ToSet(q)
        BY <2>1, <2>3 DEF Selection
      <4>2. CASE p = x
        BY <3>1, <4>1, <4>2 DEF NewIn
      <4>3. CASE p \in ToSet(old.dropped)
        BY <2>1, <2>3, <3>1, <4>3 DEF Selection
      <4> QED
        BY <3>3, <4>2, <4>3
    <3> QED
      BY <2>1, <2>2, <2>3, <3>1, <3>2, <3>3, <3>4 DEF Selection
  <2> QED
    BY <2>4, <2>5, <2>6, <2>7
<1> HIDE DEF P
<1>3. P \in SUBSET Seq(T)
  BY DEF P
<1>4. P = Seq(T)
  BY <1>1, <1>2, <1>3, Sums!SeqSet
<1> QED
  BY <1>4 DEF P

(* What was selected from state s runs to the state that was computed.     *)
CreatesLead(sel, s)  == AfterCreates({s}, sel.taken) = {sel.state}
PaymentsLead(sel, s) == AfterPayments({s}, sel.taken) = {sel.state}
ClosesLead(sel, s)   == AfterCloses({s}, sel.taken) = {sel.state}

(* So it is with what is taken from the pool of creations, ...             *)
LEMMA SelectedCreates ==
    ASSUME NEW T, NEW order \in Seq(T), NEW max, NEW s
    PROVE  /\ Selection(SelectCreate(order, max, s), order, T)
           /\ CreatesLead(SelectCreate(order, max, s), s)
<1> DEFINE g == [q \in Seq(T) |-> SelectCreate(q, max, s)]
           h == [q \in Seq(T) |-> AfterCreates({s}, q)]
<1>1. IsSelect(g, "create", max, s, T) /\ IsRun(h, "create", {s}, T)
  BY Selects, Runs
<1>2. /\ g[order] = SelectCreate(order, max, s)
      /\ \A q \in Seq(T) : h[q] = AfterCreates({s}, q)
  OBVIOUS
<1> HIDE DEF g, h
<1>3. Selection(g[order], order, T) /\ h[g[order].taken] = {g[order].state}
  BY <1>1, SelectSound
<1> QED
  BY <1>2, <1>3 DEF Selection, CreatesLead

(* ... from that of payments ...                                           *)
LEMMA SelectedPayments ==
    ASSUME NEW T, NEW order \in Seq(T), NEW max, NEW s
    PROVE  /\ Selection(SelectPayment(order, max, s), order, T)
           /\ PaymentsLead(SelectPayment(order, max, s), s)
<1> DEFINE g == [q \in Seq(T) |-> SelectPayment(q, max, s)]
           h == [q \in Seq(T) |-> AfterPayments({s}, q)]
<1>1. IsSelect(g, "payment", max, s, T) /\ IsRun(h, "payment", {s}, T)
  BY Selects, Runs
<1>2. /\ g[order] = SelectPayment(order, max, s)
      /\ \A q \in Seq(T) : h[q] = AfterPayments({s}, q)
  OBVIOUS
<1> HIDE DEF g, h
<1>3. Selection(g[order], order, T) /\ h[g[order].taken] = {g[order].state}
  BY <1>1, SelectSound
<1> QED
  BY <1>2, <1>3 DEF Selection, PaymentsLead

(* ... and from that of closures.                                          *)
LEMMA SelectedCloses ==
    ASSUME NEW T, NEW order \in Seq(T), NEW max, NEW s
    PROVE  /\ Selection(SelectClose(order, max, s), order, T)
           /\ ClosesLead(SelectClose(order, max, s), s)
<1> DEFINE g == [q \in Seq(T) |-> SelectClose(q, max, s)]
           h == [q \in Seq(T) |-> AfterCloses({s}, q)]
<1>1. IsSelect(g, "close", max, s, T) /\ IsRun(h, "close", {s}, T)
  BY Selects, Runs
<1>2. /\ g[order] = SelectClose(order, max, s)
      /\ \A q \in Seq(T) : h[q] = AfterCloses({s}, q)
  OBVIOUS
<1> HIDE DEF g, h
<1>3. Selection(g[order], order, T) /\ h[g[order].taken] = {g[order].state}
  BY <1>1, SelectSound
<1> QED
  BY <1>2, <1>3 DEF Selection, ClosesLead

-----------------------------------------------------------------------------
(***************************************************************************)
(* States: what valid transactions make of one is one.                     *)
(***************************************************************************)
(* A word holds an integer of every integer.                               *)
LEMMA WrapInt ==
    ASSUME NEW n \in Int
    PROVE  Wrap(n) \in Int
BY WrapFits

(* Every sum of integers fits into a word, somehow.                        *)
LEMMA TotalInt ==
    ASSUME NEW T, NEW f, \A x \in T : f[x] \in Int, NEW seq \in Seq(T)
    PROVE  Total(f, seq) \in Int
BY SumInt, WrapInt DEF Total

(* A tax is an integer, even one of an amount that overflows.              *)
LEMMA CodeTaxInt ==
    ASSUME NEW code \in TaxCodes, NEW amount \in Int
    PROVE  CodeTax(code, amount) \in Int
<1> DEFINE p == TaxSplit[code].rate * amount
           w == Wrap(p)
<1>1. p \in Int /\ BasisPoints \in Nat \ {0}
  BY SplitsAssumption DEF TaxCodes
<1>2. CodeTax(code, amount) = Quotient(w, BasisPoints)
  BY DEF CodeTax
<1> HIDE DEF p
<1>3. w \in Int
  BY <1>1, WrapInt
<1> HIDE DEF w
<1> QED
  BY <1>1, <1>2, <1>3 DEF Quotient

(* What a valid line holds back and credits is an integer.                 *)
LEMMA LineInts ==
    ASSUME NEW item \in LineItem, ValidItem(item)
    PROVE  /\ ItemTaxTotal(item) \in Int /\ ItemDiscountTotal(item) \in Int
           /\ \A a : ItemCredit(item, a) \in Int
<1> DEFINE C == ToSet(item.codes)
           D == ToSet(item.discounts)
           t == [code \in C |->
                    IF code \in TaxCodes THEN CodeTax(code, item.amount) ELSE 0]
           o == [d \in D |-> d.amount]
<1>1. item.amount \in Int /\ item.codes \in Seq(STRING) /\ item.discounts \in Seq(LineDiscount)
  BY DEF LineItem
<1>2. /\ item.codes \in Seq(C) /\ item.discounts \in Seq(D) /\ D \subseteq LineDiscount
  BY <1>1, OwnElements
<1>3. \A x \in C : x \in TaxCodes /\ CodeTax(x, item.amount) \in Int
  BY <1>1, CodeTaxInt DEF ValidItem
<1>4. \A x \in D : x.amount \in Int
  BY <1>2 DEF LineDiscount
<1>5. (\A x \in C : t[x] \in Int) /\ (\A x \in D : o[x] \in Int)
  BY <1>3, <1>4
<1>6. /\ ItemTaxTotal(item) = Total(t, item.codes)
      /\ ItemDiscountTotal(item) = Total(o, item.discounts)
  BY DEF ItemTaxTotal, ItemDiscountTotal
<1>7. ASSUME NEW a PROVE ItemCredit(item, a) \in Int
  <2> DEFINE f == [code \in C |-> IF TaxSplit[code].account = a
                                  THEN CodeTax(code, item.amount) ELSE 0]
             g == [d \in D |-> IF d.account = a THEN d.amount ELSE 0]
  <2>1. (\A x \in C : f[x] \in Int) /\ (\A x \in D : g[x] \in Int)
    BY <1>3, <1>4
  <2>2. ItemCredit(item, a) = Total(f, item.codes) + Total(g, item.discounts)
    BY DEF ItemCredit
  <2> HIDE DEF f, g, C, D
  <2>3. Total(f, item.codes) \in Int /\ Total(g, item.discounts) \in Int
    BY <1>2, <2>1, TotalInt
  <2> QED
    BY <2>2, <2>3
<1> HIDE DEF t, o, C, D
<1>8. Total(t, item.codes) \in Int /\ Total(o, item.discounts) \in Int
  BY <1>2, <1>5, TotalInt
<1> QED
  BY <1>6, <1>7, <1>8

(* So is what a valid payment adds to a balance.                           *)
LEMMA DeltaInt ==
    ASSUME NEW tx \in PaymentTransaction, ValidLines(tx.items), NEW a
    PROVE  PaymentDelta(tx, a) \in Int
<1> DEFINE T == ToSet(tx.items)
           t == [item \in T |-> ItemTaxTotal(item)]
           d == [item \in T |-> ItemDiscountTotal(item)]
           c == [item \in T |-> ItemCredit(item, a)]
<1>1. tx.items \in Seq(LineItem)
  BY DEF PaymentTransaction
<1>2. tx.items \in Seq(T) /\ T \subseteq LineItem
  BY <1>1, OwnElements
<1>3. \A x \in T : t[x] \in Int /\ d[x] \in Int /\ c[x] \in Int
  BY <1>2, LineInts DEF ValidLines
<1>4. /\ TaxTotal(tx.items) = Total(t, tx.items)
      /\ DiscountTotal(tx.items) = Total(d, tx.items)
      /\ Credit(tx.items, a) = Total(c, tx.items)
  BY DEF TaxTotal, DiscountTotal, Credit
<1> HIDE DEF t, d, c, T
<1>5. /\ Total(t, tx.items) \in Int /\ Total(d, tx.items) \in Int
      /\ Total(c, tx.items) \in Int
  BY <1>2, <1>3, TotalInt
<1>6. GrossAmount(tx.items) \in Int
  BY <1>1, GrossInt
<1>7. NetToPayee(tx.items) \in Int
  <2> DEFINE n == GrossAmount(tx.items) - TaxTotal(tx.items) - DiscountTotal(tx.items)
  <2>1. n \in Int
    BY <1>4, <1>5, <1>6
  <2>2. NetToPayee(tx.items) = Wrap(n)
    BY DEF NetToPayee
  <2> HIDE DEF n
  <2> QED
    BY <2>1, <2>2, WrapInt
<1> QED
  BY <1>4, <1>5, <1>6, <1>7 DEF PaymentDelta

(* What a valid payment, creation or closure makes of a state.             *)
LEMMA ApplyTyped ==
    ASSUME NEW s \in State
    PROVE  /\ \A tx \in PaymentTransaction :
                 ValidPayment(tx, s) => ApplyPayment(tx, s) \in State
           /\ \A tx \in AccountCreateTransaction :
                 ValidCreate(tx, s) => ApplyCreate(tx, s) \in State
           /\ \A tx \in AccountCloseTransaction :
                 ValidClose(tx, s) => ApplyClose(tx, s) \in State
<1>1. /\ s.type \in [AccountIDs -> AccountTypes]
      /\ s.balance \in [AccountIDs -> Int]
      /\ s.key \in [AccountIDs -> Keys \cup {NoKey}]
  BY DEF State
<1>2. Blank \in AccountTypes /\ Absent \in AccountTypes
  BY DEF AccountTypes
<1>3. ASSUME NEW tx \in PaymentTransaction, ValidPayment(tx, s)
      PROVE  ApplyPayment(tx, s) \in State
  <2>1. \A a \in AccountIDs : PaymentDelta(tx, a) \in Int
    BY <1>3, DeltaInt DEF ValidPayment
  <2> QED
    BY <1>1, <1>2, <2>1 DEF ApplyPayment, State
<1>4. ASSUME NEW tx \in AccountCreateTransaction, ValidCreate(tx, s)
      PROVE  ApplyCreate(tx, s) \in State
  <2>1. tx.account \in AccountIDs /\ tx.type \in AccountTypes /\ tx.key \in Keys \cup {NoKey}
    BY DEF AccountCreateTransaction
  <2> QED
    BY <1>1, <2>1 DEF ApplyCreate, State
<1>5. ASSUME NEW tx \in AccountCloseTransaction, ValidClose(tx, s)
      PROVE  ApplyClose(tx, s) \in State
  <2>1. tx.account \in AccountIDs
    BY DEF AccountCloseTransaction
  <2> QED
    BY <1>1, <1>2, <2>1 DEF ApplyClose, State
<1> QED
  BY <1>3, <1>4, <1>5

(* Valid transactions of T lead from I to I.                               *)
ClosedUnder(I, kind, T) ==
    \A x \in T : \A s \in I : ValidAs(kind, x, s) => ApplyAs(kind, x, s) \in I

(* Then so do any number of them.                                          *)
LEMMA RunWithin ==
    ASSUME NEW I, NEW T, NEW kind, ClosedUnder(I, kind, T),
           NEW base, base \subseteq I, NEW h, IsRun(h, kind, base, T), NEW seq \in Seq(T)
    PROVE  h[seq] \subseteq I
<1> DEFINE P == {q \in Seq(T) : h[q] \subseteq I}
<1>1. <<>> \in P
  BY EmptySeq DEF IsRun
<1>2. ASSUME NEW q \in P, NEW x \in T PROVE Append(q, x) \in P
  <2>1. h[Append(q, x)] =
           {ApplyAs(kind, x, s) : s \in {t \in h[q] : ValidAs(kind, x, t)}}
    BY DEF IsRun
  <2>2. Append(q, x) \in Seq(T)
    BY AppendProperties
  <2> QED
    BY <2>1, <2>2 DEF ClosedUnder
<1> HIDE DEF P
<1>3. P \in SUBSET Seq(T)
  BY DEF P
<1>4. P = Seq(T)
  BY <1>1, <1>2, <1>3, Sums!SeqSet
<1> QED
  BY <1>4 DEF P

(* A block leads from I to I when its transactions do.                     *)
LEMMA BlockWithin ==
    ASSUME NEW I, NEW C, NEW P, NEW E, ClosedUnder(I, "create", C),
           ClosedUnder(I, "payment", P), ClosedUnder(I, "close", E),
           NEW s \in I, NEW block, block.creates \in Seq(C),
           block.payments \in Seq(P), block.closes \in Seq(E)
    PROVE  /\ AfterCreates({s}, block.creates) \subseteq I
           /\ AfterPayments(AfterCreates({s}, block.creates), block.payments) \subseteq I
           /\ ApplyTransactions(block, s) \subseteq I
<1> DEFINE base == {s}
           c == [q \in Seq(C) |-> AfterCreates(base, q)]
           created == AfterCreates(base, block.creates)
           p == [q \in Seq(P) |-> AfterPayments(created, q)]
           paid == AfterPayments(created, block.payments)
           e == [q \in Seq(E) |-> AfterCloses(paid, q)]
           closed == AfterCloses(paid, block.closes)
<1>0. base \subseteq I
  OBVIOUS
<1>1. c[block.creates] = created /\ p[block.payments] = paid /\ e[block.closes] = closed
  OBVIOUS
<1>2. ApplyTransactions(block, s) = closed
  BY DEF ApplyTransactions, AfterCreates, AfterPayments, AfterCloses
<1> SUFFICES created \subseteq I /\ paid \subseteq I /\ closed \subseteq I
  BY <1>2
<1> HIDE DEF base
<1>3. IsRun(c, "create", base, C)
  BY Runs
<1> HIDE DEF c, created
<1>4. IsRun(p, "payment", created, P)
  BY Runs
<1> HIDE DEF p, paid
<1>5. IsRun(e, "close", paid, E)
  BY Runs
<1> HIDE DEF e, closed
<1>6. created \subseteq I
  BY <1>0, <1>1, <1>3, RunWithin
<1>7. paid \subseteq I
  BY <1>1, <1>4, <1>6, RunWithin
<1>8. closed \subseteq I
  BY <1>1, <1>5, <1>7, RunWithin
<1> QED
  BY <1>6, <1>7, <1>8

-----------------------------------------------------------------------------
(***************************************************************************)
(* Ids: of the transactions of a pool, of a block, of a chain.             *)
(***************************************************************************)
IdsIn(seq) == {tx.id : tx \in ToSet(seq)}

(* What is kept of a sequence has no id twice when the sequence has none.  *)
LEMMA UnrepeatedOnly ==
    ASSUME NEW T, NEW seq \in Seq(T), Unrepeated(seq), NEW S
    PROVE  Unrepeated(Only(seq, S))
<1> DEFINE P == {s \in Seq(T) : Unrepeated(s) => Unrepeated(Only(s, S))}
<1>1. <<>> \in P
  BY EmptySeq, OnlyEmpty DEF Unrepeated
<1>2. ASSUME NEW s \in P, NEW x \in T PROVE Append(s, x) \in P
  <2>1. Append(s, x) \in Seq(T)
    BY AppendProperties
  <2> SUFFICES ASSUME Unrepeated(Append(s, x))
               PROVE  Unrepeated(Only(Append(s, x), S))
    BY <2>1
  <2>2. Unrepeated(Only(s, S)) /\ NewIn(s, x)
    BY UnrepeatedFront
  <2>3. Only(s, S) \in Seq(T) /\ ToSet(Only(s, S)) = ToSet(s) \cap S
    BY OnlyElements
  <2>4. NewIn(Only(s, S), x)
    BY <2>2, <2>3 DEF NewIn
  <2>5. Unrepeated(Append(Only(s, S), x))
    BY <2>2, <2>3, <2>4, UnrepeatedAppend
  <2>6. \/ Only(Append(s, x), S) = Append(Only(s, S), x)
        \/ Only(Append(s, x), S) = Only(s, S)
    BY OnlyAppend
  <2> QED
    BY Zenon, <2>2, <2>5, <2>6
<1> HIDE DEF P
<1>3. P \in SUBSET Seq(T)
  BY DEF P
<1>4. P = Seq(T)
  BY <1>1, <1>2, <1>3, Kept!SeqSet
<1> QED
  BY <1>4 DEF P

(* What a pool has left after some transactions left it, and its ids.      *)
LEMMA UnrepeatedWithout ==
    ASSUME NEW T, NEW order \in Seq(T), Unrepeated(order), NEW txs
    PROVE  /\ Unrepeated(Without(order, txs))
           /\ IdsIn(Without(order, txs)) = IdsIn(order) \ IdsIn(txs)
<1>1. Unrepeated(Without(order, txs))
  BY UnrepeatedOnly DEF Without
<1>2. ToSet(Without(order, txs)) = {p \in ToSet(order) : NewIn(txs, p)}
  BY WithoutElements
<1>3. \A p : NewIn(txs, p) <=> p.id \notin IdsIn(txs)
  BY DEF NewIn, IdsIn
<1> QED
  BY <1>1, <1>2, <1>3 DEF IdsIn

(* The parts of a concatenation.                                           *)
LEMMA JoinElements ==
    ASSUME NEW T, NEW s \in Seq(T), NEW t \in Seq(T)
    PROVE  /\ s \o t \in Seq(T) /\ ToSet(s \o t) = ToSet(s) \cup ToSet(t)
           /\ Len(s) \in Nat /\ Len(t) \in Nat /\ Len(s \o t) = Len(s) + Len(t)
           /\ \A i \in 1..Len(s \o t) :
                 \/ i \in 1..Len(s) /\ (s \o t)[i] = s[i]
                 \/ i - Len(s) \in 1..Len(t) /\ (s \o t)[i] = t[i - Len(s)]
<1> DEFINE m == Len(s)
           n == Len(t)
           r == s \o t
<1>1. /\ r \in Seq(T) /\ m \in Nat /\ n \in Nat /\ Len(r) = m + n
      /\ \A i \in 1..m + n : r[i] = IF i <= m THEN s[i] ELSE t[i - m]
      /\ DOMAIN s = 1..m /\ DOMAIN t = 1..n /\ DOMAIN r = 1..Len(r)
  BY ConcatProperties, LenProperties
<1>2. ToSet(s) = {s[i] : i \in 1..m} /\ ToSet(t) = {t[i] : i \in 1..n}
      /\ ToSet(r) = {r[i] : i \in 1..m + n}
  BY <1>1 DEF ToSet
<1> SUFFICES /\ r \in Seq(T) /\ ToSet(r) = ToSet(s) \cup ToSet(t)
             /\ m \in Nat /\ n \in Nat /\ Len(r) = m + n
             /\ \A i \in 1..Len(r) : \/ i \in 1..m /\ r[i] = s[i]
                                     \/ i - m \in 1..n /\ r[i] = t[i - m]
  OBVIOUS
<1> HIDE DEF m, n, r
<1>3. \A i \in 1..m + n : \/ i \in 1..m /\ r[i] = s[i]
                          \/ i - m \in 1..n /\ r[i] = t[i - m]
  BY <1>1
<1>4. \A i \in 1..m : i \in 1..m + n /\ r[i] = s[i]
  BY <1>1
<1>5. ASSUME NEW i \in 1..n PROVE i + m \in 1..m + n /\ r[i + m] = t[i]
  <2>1. i + m \in 1..m + n /\ ~(i + m <= m) /\ (i + m) - m = i
    BY <1>1
  <2> QED
    BY <1>1, <2>1
<1>6. ToSet(r) \subseteq ToSet(s) \cup ToSet(t)
  BY <1>2, <1>3
<1>7. ToSet(s) \subseteq ToSet(r)
  BY <1>2, <1>4
<1>8. ToSet(t) \subseteq ToSet(r)
  BY <1>2, <1>5
<1>9. ToSet(r) = ToSet(s) \cup ToSet(t)
  BY <1>6, <1>7, <1>8
<1>10. \A i \in 1..Len(r) : \/ i \in 1..m /\ r[i] = s[i]
                            \/ i - m \in 1..n /\ r[i] = t[i - m]
  BY <1>1, <1>3
<1> QED
  BY <1>1, <1>9, <1>10

(* Sequences without a repetition that have nothing in common have none    *)
(* when they are joined, be it of ids ...                                  *)
LEMMA JoinInjective ==
    ASSUME NEW T, NEW s \in Seq(T), NEW t \in Seq(T), IsInjective(s), IsInjective(t),
           ToSet(s) \cap ToSet(t) = {}
    PROVE  IsInjective(s \o t)
<1> DEFINE m == Len(s)
           r == s \o t
<1>1. /\ m \in Nat /\ Len(t) \in Nat /\ Len(r) = m + Len(t)
      /\ \A i \in 1..Len(r) : \/ i \in 1..m /\ r[i] = s[i]
                              \/ i - m \in 1..Len(t) /\ r[i] = t[i - m]
  BY JoinElements
<1>2. DOMAIN s = 1..m /\ DOMAIN t = 1..Len(t) /\ DOMAIN r = 1..Len(r)
  BY JoinElements, LenProperties
<1> SUFFICES ASSUME NEW i \in 1..Len(r), NEW j \in 1..Len(r), r[i] = r[j]
             PROVE  i = j
  BY <1>2 DEF IsInjective
<1> HIDE DEF m, r
<1>3. \A k \in 1..m, l \in 1..Len(t) : s[k] # t[l]
  BY <1>2 DEF ToSet
<1>4. \A k, l \in 1..m : s[k] = s[l] => k = l
  BY <1>2 DEF IsInjective
<1>5. \A k, l \in 1..Len(t) : t[k] = t[l] => k = l
  BY <1>2 DEF IsInjective
<1> QED
  BY <1>1, <1>3, <1>4, <1>5

(* ... or of transactions.                                                 *)
LEMMA JoinUnrepeated ==
    ASSUME NEW T, NEW s \in Seq(T), NEW t \in Seq(T), Unrepeated(s), Unrepeated(t),
           IdsIn(s) \cap IdsIn(t) = {}
    PROVE  /\ s \o t \in Seq(T) /\ Unrepeated(s \o t)
           /\ IdsIn(s \o t) = IdsIn(s) \cup IdsIn(t)
<1> DEFINE m == Len(s)
           r == s \o t
<1>1. /\ m \in Nat /\ Len(t) \in Nat /\ Len(r) = m + Len(t)
      /\ \A i \in 1..Len(r) : \/ i \in 1..m /\ r[i] = s[i]
                              \/ i - m \in 1..Len(t) /\ r[i] = t[i - m]
      /\ r \in Seq(T) /\ ToSet(r) = ToSet(s) \cup ToSet(t)
  BY JoinElements
<1>2. DOMAIN s = 1..m /\ DOMAIN t = 1..Len(t)
  BY LenProperties
<1>3. IdsIn(r) = IdsIn(s) \cup IdsIn(t)
  BY <1>1 DEF IdsIn
<1> HIDE DEF m, r
<1>4. \A k \in 1..m, l \in 1..Len(t) : s[k].id # t[l].id
  BY <1>2 DEF IdsIn, ToSet
<1>5. \A k, l \in 1..m : s[k].id = s[l].id => k = l
  BY DEF Unrepeated, m
<1>6. \A k, l \in 1..Len(t) : t[k].id = t[l].id => k = l
  BY DEF Unrepeated
<1>7. ASSUME NEW i \in 1..Len(r), NEW j \in 1..Len(r), r[i].id = r[j].id
      PROVE  i = j
  <2>1. CASE i \in 1..m /\ r[i] = s[i]
    BY <1>1, <1>4, <1>5, <1>7, <2>1
  <2>2. CASE i - m \in 1..Len(t) /\ r[i] = t[i - m]
    <3>1. CASE j \in 1..m /\ r[j] = s[j]
      BY <1>4, <1>7, <2>2, <3>1
    <3>2. CASE j - m \in 1..Len(t) /\ r[j] = t[j - m]
      <4>1. i - m = j - m
        BY <1>6, <1>7, <2>2, <3>2
      <4>2. Len(r) \in Nat
        BY <1>1
      <4> QED
        BY <1>1, <4>1, <4>2
    <3> QED
      BY <1>1, <3>1, <3>2
  <2> QED
    BY <1>1, <2>1, <2>2
<1>8. Unrepeated(r)
  BY Zenon, <1>7 DEF Unrepeated
<1> QED
  BY <1>1, <1>3, <1>8 DEF r

(* A sequence without repetition of some elements of another adds up to no *)
(* more than it, when everything counts for a number.                      *)
LEMMA SumWithin ==
    ASSUME NEW T, NEW f, \A x \in T : f[x] \in Nat,
           NEW seq \in Seq(T), Unrepeated(seq),
           NEW all \in Seq(T), ToSet(seq) \subseteq ToSet(all)
    PROVE  SumOf(f, seq) <= SumOf(f, all)
<1> DEFINE P == {s \in Seq(T) : Unrepeated(s) =>
                    \A t \in Seq(T) : ToSet(s) \subseteq ToSet(t) =>
                        SumOf(f, s) <= SumOf(f, t)}
<1>1. <<>> \in P
  <2>1. ASSUME NEW t \in Seq(T) PROVE 0 <= SumOf(f, t)
    BY SumNat
  <2> QED
    BY <2>1, EmptySeq, SumEmpty
<1>2. ASSUME NEW s \in P, NEW x \in T PROVE Append(s, x) \in P
  <2>1. s \in Seq(T) /\ Append(s, x) \in Seq(T)
    BY AppendProperties
  <2> SUFFICES ASSUME Unrepeated(Append(s, x)), NEW t \in Seq(T),
                      ToSet(Append(s, x)) \subseteq ToSet(t)
               PROVE  SumOf(f, Append(s, x)) <= SumOf(f, t)
    BY <2>1
  <2> DEFINE K == {p \in T : p.id # x.id}
             L == {p \in T : p.id = x.id}
  <2>2. Unrepeated(s) /\ NewIn(s, x)
    BY <2>1, UnrepeatedFront
  <2>3. ToSet(s) \subseteq ToSet(t) /\ x \in ToSet(t) /\ ToSet(s) \subseteq T
    BY <2>1, ElementsAppend, OwnElements
  <2>4. \A p \in T : f[p] \in Int /\ (p \in K <=> p \notin L)
    OBVIOUS
  <2>5. ToSet(s) \subseteq K /\ x \in L
    BY <2>2, <2>3 DEF NewIn
  <2> HIDE DEF K, L, P
  <2>6. SumOf(f, t) = SumOf(f, Only(t, K)) + SumOf(f, Only(t, L))
    BY <2>4, SumOnly
  <2>7. /\ Only(t, K) \in Seq(T) /\ ToSet(Only(t, K)) = ToSet(t) \cap K
        /\ Only(t, L) \in Seq(T) /\ ToSet(Only(t, L)) = ToSet(t) \cap L
    BY OnlyElements
  <2>8. SumOf(f, s) <= SumOf(f, Only(t, K))
    BY <2>1, <2>2, <2>3, <2>5, <2>7 DEF P
  <2>9. f[x] <= SumOf(f, Only(t, L))
    BY <2>3, <2>5, <2>7, SumNat
  <2>10. SumOf(f, Append(s, x)) = SumOf(f, s) + f[x]
    BY <2>1, SumAppend
  <2>11. /\ SumOf(f, s) \in Int /\ f[x] \in Int
         /\ SumOf(f, Only(t, K)) \in Int /\ SumOf(f, Only(t, L)) \in Int
    BY <2>1, <2>4, <2>7, SumInt
  <2> QED
    BY <2>6, <2>8, <2>9, <2>10, <2>11
<1> HIDE DEF P
<1>3. P \in SUBSET Seq(T)
  BY DEF P
<1>4. P = Seq(T)
  BY <1>1, <1>2, <1>3, Sums!SeqSet
<1> QED
  BY <1>4 DEF P

(* A sum over a pool is one over what it keeps and one over what it lets   *)
(* go.                                                                     *)
LEMMA SumWithout ==
    ASSUME NEW T, NEW f, \A x \in T : f[x] \in Int, NEW order \in Seq(T), NEW txs
    PROVE  SumOf(f, order) = SumOf(f, Without(order, txs)) + SumOf(f, Among(order, txs))
<1> DEFINE R == ToSet(order)
           K == {p \in R : NewIn(txs, p)}
           L == {p \in R : ~NewIn(txs, p)}
<1>1. order \in Seq(R) /\ R \subseteq T
  BY OwnElements
<1>2. \A x \in R : f[x] \in Int /\ (x \in K <=> x \notin L)
  BY <1>1
<1>3. Without(order, txs) = Only(order, K) /\ Among(order, txs) = Only(order, L)
  BY DEF Without, Among
<1> HIDE DEF R, K, L
<1> QED
  BY <1>1, <1>2, <1>3, SumOnly

-----------------------------------------------------------------------------
(* What the payments take that k signed for a.                             *)
OwnedBy(a, k, T) ==
    [p \in T |-> IF p.payer = a /\ p.signer = k THEN GrossAmount(p.items) ELSE 0]

Owned(a, k, T, seq) == SumOf(OwnedBy(a, k, T), seq)

(* What they take is a number, which a payment more adds to.               *)
LEMMA OwnedNat ==
    ASSUME NEW T, Reservable(T), NEW seq \in Seq(T), NEW a, NEW k
    PROVE  /\ \A p \in T : OwnedBy(a, k, T)[p] \in Nat
           /\ Owned(a, k, T, seq) \in Nat
           /\ Owned(a, k, T, <<>>) = 0
           /\ \A x \in T : Owned(a, k, T, Append(seq, x))
                              = Owned(a, k, T, seq) + OwnedBy(a, k, T)[x]
           /\ Owned(a, k, T, seq) <= GrossOf(seq, a)
<1> DEFINE f == OwnedBy(a, k, T)
           g == GrossBy(a, T)
<1>1. \A p \in T : f[p] \in Nat /\ g[p] \in Nat /\ f[p] <= g[p]
  BY DEF OwnedBy, GrossBy, Reservable
<1>2. GrossOf(seq, a) = SumOf(g, seq)
  BY GrossOfIsSum
<1> HIDE DEF f, g
<1>3. SumOf(f, seq) \in Nat /\ SumOf(f, seq) <= SumOf(g, seq)
  <2>1. SumOf(f, seq) \in Nat
    BY <1>1, SumNat
  <2>2. \A p \in T : f[p] \in Int /\ g[p] \in Int /\ f[p] <= g[p]
    BY <1>1
  <2>3. SumOf(f, seq) <= SumOf(g, seq)
    BY <2>2, SumLeq
  <2> QED
    BY <2>1, <2>3
<1>4. SumOf(f, <<>>) = 0 /\ \A x \in T : SumOf(f, Append(seq, x)) = SumOf(f, seq) + f[x]
  BY SumEmpty, SumAppend
<1> QED
  BY <1>1, <1>2, <1>3, <1>4 DEF f, Owned

(* It is the gross of those payments.                                      *)
LEMMA OwnedIsGross ==
    ASSUME NEW T, Reservable(T), NEW seq \in Seq(T), NEW a, NEW k
    PROVE  GrossOf(Only(seq, {p \in ToSet(seq) : p.signer = k}), a) = Owned(a, k, T, seq)
<1> DEFINE R == ToSet(seq)
           K == {p \in R : p.signer = k}
           L == {p \in R : p.signer # k}
           f == OwnedBy(a, k, T)
           g == GrossBy(a, T)
<1>1. seq \in Seq(R) /\ R \subseteq T
  BY OwnElements
<1>2. \A x \in R : f[x] \in Int /\ (x \in K <=> x \notin L)
  BY <1>1 DEF OwnedBy, Reservable
<1>3. \A x \in R : (x \in K => f[x] = g[x]) /\ (x \in L => f[x] = 0)
  BY <1>1 DEF OwnedBy, GrossBy
<1> HIDE DEF R, K, L, f, g
<1>4. SumOf(f, seq) = SumOf(f, Only(seq, K)) + SumOf(f, Only(seq, L))
  BY <1>1, <1>2, SumOnly
<1>5. /\ Only(seq, K) \in Seq(R) /\ ToSet(Only(seq, K)) = ToSet(seq) \cap K
      /\ Only(seq, L) \in Seq(R) /\ ToSet(Only(seq, L)) = ToSet(seq) \cap L
  BY <1>1, OnlyElements
<1>6. SumOf(f, Only(seq, L)) = 0
  <2>1. Only(seq, L) \in Seq(ToSet(Only(seq, L)))
    BY <1>5, OwnElements
  <2>2. \A x \in ToSet(Only(seq, L)) : f[x] = 0
    BY <1>3, <1>5 DEF R
  <2> QED
    BY <2>1, <2>2, SumZero
<1>7. SumOf(f, Only(seq, K)) = SumOf(g, Only(seq, K))
  <2>1. \A x \in ToSet(Only(seq, K)) : f[x] = g[x]
    BY <1>3, <1>5 DEF R
  <2> QED
    BY <1>5, <2>1, SumSame
<1>8. Only(seq, K) \in Seq(T)
  BY <1>1, <1>5, OwnElements, OnlyElements
<1>9. GrossOf(Only(seq, K), a) = SumOf(g, Only(seq, K))
  BY <1>8, GrossOfIsSum DEF g
<1>10. SumOf(f, Only(seq, K)) \in Int
  BY <1>2, <1>5, SumInt
<1> QED
  BY <1>4, <1>6, <1>7, <1>9, <1>10 DEF K, R, f, Owned

-----------------------------------------------------------------------------
(***************************************************************************)
(* What a block does to an account: its key, whether it exists, and what   *)
(* its balance is at least.                                                *)
(***************************************************************************)
Solvent(s) == s \in State /\ \A a \in AccountIDs : s.balance[a] \in Nat

(* Payments that do not overflow, with accounts that are finitely many.    *)
Spendable(T) ==
    /\ T \subseteq PaymentTransaction /\ Reservable(T)
    /\ \A tx \in T : ValidLines(tx.items) => NothingOverflows(tx.items)
    /\ IsFiniteSet(AccountIDs) /\ AllowedTaxAccounts \subseteq AccountIDs

(* A payment takes from who signed it, and from nobody else.               *)
LEMMA PaymentTakes ==
    ASSUME NEW T, Spendable(T), NEW tx \in T, NEW s, Solvent(s), ValidPayment(tx, s)
    PROVE  LET t == ApplyPayment(tx, s)
           IN  /\ Solvent(t) /\ t.key = s.key
               /\ \A a \in AccountIDs :
                     /\ Exists(s, a) => t.type[a] = s.type[a]
                     /\ t.balance[a] >= s.balance[a] - OwnedBy(a, s.key[a], T)[tx]
<1> DEFINE t == ApplyPayment(tx, s)
           gross == GrossAmount(tx.items)
<1>1. /\ tx \in PaymentTransaction /\ Sound(tx.items) /\ s \in State
      /\ IsFiniteSet(AccountIDs) /\ AllowedTaxAccounts \subseteq AccountIDs
  BY DEF Spendable, ValidPayment, Sound, PaymentTransaction, Solvent
<1>2. /\ tx.payer \in AccountIDs /\ s.balance[tx.payer] >= gross
      /\ s.key[tx.payer] = tx.signer
  BY <1>1 DEF ValidPayment, PaymentTransaction
<1>3. /\ gross \in Nat /\ NetToPayee(tx.items) \in Nat
      /\ \A a \in AccountIDs : Credit(tx.items, a) \in Nat
  BY <1>1, Getters, Credits
<1>4. t \in State
  BY <1>1, ApplyTyped
<1>5. /\ \A a \in AccountIDs : t.balance[a] = s.balance[a] + PaymentDelta(tx, a)
      /\ t.key = s.key
      /\ \A a \in AccountIDs : s.type[a] # Absent => t.type[a] = s.type[a]
  BY DEF ApplyPayment
<1> HIDE DEF t
<1>6. ASSUME NEW a \in AccountIDs
      PROVE  /\ t.balance[a] \in Nat
             /\ t.balance[a] >= s.balance[a] - OwnedBy(a, s.key[a], T)[tx]
  <2>1. s.balance[a] \in Nat
    BY DEF Solvent
  <2>2. OwnedBy(a, s.key[a], T)[tx] = IF a = tx.payer THEN gross ELSE 0
    BY <1>2 DEF OwnedBy
  <2>3. PaymentDelta(tx, a) \in Int /\ PaymentDelta(tx, a) >= -(IF a = tx.payer THEN gross ELSE 0)
    BY <1>3 DEF PaymentDelta
  <2>4. t.balance[a] = s.balance[a] + PaymentDelta(tx, a)
    BY <1>5
  <2> QED
    BY <1>2, <1>3, <2>1, <2>2, <2>3, <2>4
<1> QED
  BY <1>4, <1>5, <1>6 DEF Solvent, Exists, t

(* So t comes from s by payments that take no more than q says.            *)
Spent(t, s, T, q) ==
    /\ Solvent(t) /\ t.key = s.key
    /\ \A a \in AccountIDs :
          /\ Exists(s, a) => t.type[a] = s.type[a]
          /\ t.balance[a] >= s.balance[a] - Owned(a, s.key[a], T, q)

(* A payment more, made or not, takes no more than it says.                *)
LEMMA SpentMore ==
    ASSUME NEW T, Spendable(T), NEW s, Solvent(s), NEW q \in Seq(T), NEW x \in T,
           NEW t, Spent(t, s, T, q)
    PROVE  /\ Spent(t, s, T, Append(q, x))
           /\ ValidPayment(x, t) => Spent(ApplyPayment(x, t), s, T, Append(q, x))
<1>1. Reservable(T)
  BY DEF Spendable
<1>2. ASSUME NEW a \in AccountIDs
      PROVE  /\ OwnedBy(a, s.key[a], T)[x] \in Nat /\ Owned(a, s.key[a], T, q) \in Nat
             /\ Owned(a, s.key[a], T, Append(q, x))
                   = Owned(a, s.key[a], T, q) + OwnedBy(a, s.key[a], T)[x]
  BY <1>1, OwnedNat
<1>3. \A a \in AccountIDs : s.balance[a] \in Nat /\ t.balance[a] \in Nat
  BY DEF Solvent, Spent
<1>4. Spent(t, s, T, Append(q, x))
  <2>1. ASSUME NEW a \in AccountIDs
        PROVE  t.balance[a] >= s.balance[a] - Owned(a, s.key[a], T, Append(q, x))
    BY <1>2, <1>3 DEF Spent
  <2> QED
    BY <2>1 DEF Spent
<1>5. ASSUME ValidPayment(x, t) PROVE Spent(ApplyPayment(x, t), s, T, Append(q, x))
  <2> DEFINE u == ApplyPayment(x, t)
  <2>1. /\ Solvent(u) /\ u.key = t.key
        /\ \A a \in AccountIDs :
              /\ Exists(t, a) => u.type[a] = t.type[a]
              /\ u.balance[a] >= t.balance[a] - OwnedBy(a, t.key[a], T)[x]
    BY <1>5, PaymentTakes DEF Spent
  <2> HIDE DEF u
  <2>2. ASSUME NEW a \in AccountIDs
        PROVE  /\ Exists(s, a) => u.type[a] = s.type[a]
               /\ u.balance[a] >= s.balance[a] - Owned(a, s.key[a], T, Append(q, x))
    <3>1. u.balance[a] \in Nat
      BY <2>1 DEF Solvent
    <3>2. u.balance[a] >= t.balance[a] - OwnedBy(a, s.key[a], T)[x]
      BY <2>1 DEF Spent
    <3>3. t.balance[a] >= s.balance[a] - Owned(a, s.key[a], T, q)
      BY DEF Spent
    <3>4. Exists(s, a) => u.type[a] = s.type[a]
      BY <2>1 DEF Spent, Exists
    <3> QED
      BY <1>2, <1>3, <3>1, <3>2, <3>3, <3>4
  <2>3. u.key = s.key
    BY <2>1 DEF Spent
  <2> QED
    BY <2>1, <2>2, <2>3 DEF Spent, u
<1> QED
  BY <1>4, <1>5

(* No payment takes nothing.                                               *)
LEMMA SpentNothing ==
    ASSUME NEW T, Spendable(T), NEW s, Solvent(s)
    PROVE  Spent(s, s, T, <<>>)
<1>1. Reservable(T) /\ <<>> \in Seq(T)
  BY EmptySeq DEF Spendable
<1>2. \A a \in AccountIDs : Owned(a, s.key[a], T, <<>>) = 0
  BY <1>1, OwnedNat
<1>3. \A a \in AccountIDs : s.balance[a] \in Nat
  BY DEF Solvent
<1> QED
  BY <1>2, <1>3 DEF Spent

(* Payments that ran took what they own.                                   *)
LEMMA PaymentsSpend ==
    ASSUME NEW T, Spendable(T), NEW s, Solvent(s), NEW seq \in Seq(T),
           NEW t \in AfterPayments({s}, seq)
    PROVE  Spent(t, s, T, seq)
<1> DEFINE h == [q \in Seq(T) |-> AfterPayments({s}, q)]
           P == {q \in Seq(T) : \A u \in h[q] : Spent(u, s, T, q)}
<1>1. IsRun(h, "payment", {s}, T)
  BY Runs
<1>2. h[seq] = AfterPayments({s}, seq)
  OBVIOUS
<1> HIDE DEF h
<1>3. <<>> \in P
  <2>1. h[<<>>] = {s} /\ <<>> \in Seq(T)
    BY <1>1, EmptySeq DEF IsRun
  <2> QED
    BY <2>1, SpentNothing
<1>4. ASSUME NEW q \in P, NEW x \in T PROVE Append(q, x) \in P
  <2>1. q \in Seq(T) /\ Append(q, x) \in Seq(T) /\ \A u \in h[q] : Spent(u, s, T, q)
    BY AppendProperties
  <2>2. h[Append(q, x)] = {ApplyPayment(x, u) : u \in {v \in h[q] : ValidPayment(x, v)}}
    BY <1>1, <2>1 DEF IsRun, ValidAs, ApplyAs
  <2>3. \A u \in h[Append(q, x)] : Spent(u, s, T, Append(q, x))
    BY <2>1, <2>2, SpentMore
  <2> QED
    BY <2>1, <2>3
<1> HIDE DEF P
<1>5. P \in SUBSET Seq(T)
  BY DEF P
<1>6. P = Seq(T)
  BY <1>3, <1>4, <1>5, Sums!SeqSet
<1> QED
  BY <1>2, <1>6 DEF P

-----------------------------------------------------------------------------
(* Payments that are valid as long as there is money, ...                  *)
Admissible(p, s) ==
    /\ ValidLines(p.items) /\ Exists(s, p.payer)
    /\ p.signer # NoKey /\ s.key[p.payer] = p.signer

(* ... and a pool of payments for which there is.                          *)
Affordable(q, s, T) ==
    \A a \in AccountIDs : Owned(a, s.key[a], T, q) <= s.balance[a]

(* From such a pool a block drops only what is not admissible.             *)
LEMMA SelectionKeeps ==
    ASSUME NEW T, Spendable(T), NEW s, Solvent(s), NEW order \in Seq(T),
           Affordable(order, s, T), NEW max,
           NEW p \in ToSet(SelectPayment(order, max, s).dropped)
    PROVE  ~Admissible(p, s)
<1> DEFINE g == [q \in Seq(T) |-> SelectPayment(q, max, s)]
           Fits(q) == /\ Selection(g[q], q, T) /\ Spent(g[q].state, s, T, q)
                      /\ \A r \in ToSet(g[q].dropped) : ~Admissible(r, s)
           P == {q \in Seq(T) : Affordable(q, s, T) => Fits(q)}
<1>1. IsSelect(g, "payment", max, s, T)
  BY Selects
<1>2. g[order] = SelectPayment(order, max, s)
  OBVIOUS
<1>0. \A q \in Seq(T) : Selection(g[q], q, T)
  BY SelectedPayments
<1> HIDE DEF g
<1>3. <<>> \in P
  <2>1. g[<<>>] = [state |-> s, taken |-> <<>>, dropped |-> <<>>]
    BY <1>1 DEF IsSelect
  <2>2. <<>> \in Seq(T) /\ ToSet(<<>>) = {}
    BY EmptySeq DEF ToSet
  <2>3. Spent(s, s, T, <<>>) /\ Selection(g[<<>>], <<>>, T)
    BY <1>0, <2>2, SpentNothing
  <2> QED
    BY <2>1, <2>2, <2>3
<1>4. ASSUME NEW q \in P, NEW x \in T PROVE Append(q, x) \in P
  <2> DEFINE r == Append(q, x)
             old == g[q]
             new == g[r]
  <2>1. q \in Seq(T) /\ r \in Seq(T)
    BY AppendProperties
  <2> SUFFICES ASSUME Affordable(r, s, T) PROVE Fits(r)
    BY <2>1
  <2>2. ASSUME NEW a \in AccountIDs
        PROVE  /\ Owned(a, s.key[a], T, r) <= s.balance[a]
               /\ Owned(a, s.key[a], T, r)
                     = Owned(a, s.key[a], T, q) + OwnedBy(a, s.key[a], T)[x]
               /\ Owned(a, s.key[a], T, q) \in Nat /\ OwnedBy(a, s.key[a], T)[x] \in Nat
               /\ s.balance[a] \in Nat
    BY <2>1, OwnedNat DEF Affordable, Spendable, Solvent
  <2>3. Affordable(q, s, T)
    BY <2>2 DEF Affordable
  <2>4. /\ Selection(old, q, T) /\ Spent(old.state, s, T, q)
        /\ \A y \in ToSet(old.dropped) : ~Admissible(y, s)
    BY <2>3
  <2>5. new = IF Len(old.taken) >= max THEN old
              ELSE IF ValidPayment(x, old.state)
                   THEN [old EXCEPT !.state = ApplyPayment(x, old.state),
                                    !.taken = Append(old.taken, x)]
                   ELSE [old EXCEPT !.dropped = Append(old.dropped, x)]
    BY <1>1, <2>1 DEF IsSelect, ValidAs, ApplyAs
  <2>6. Selection(new, r, T)
    BY <1>0, <2>1
  <2>7. /\ Spent(old.state, s, T, r)
        /\ ValidPayment(x, old.state) => Spent(ApplyPayment(x, old.state), s, T, r)
    BY <2>1, <2>4, SpentMore
  <2>8. Admissible(x, s) => ValidPayment(x, old.state)
    <3> SUFFICES ASSUME Admissible(x, s) PROVE ValidPayment(x, old.state)
      OBVIOUS
    <3> DEFINE a == x.payer
    <3>1. a \in AccountIDs /\ GrossAmount(x.items) \in Nat
      BY DEF Spendable, Reservable
    <3>2. OwnedBy(a, s.key[a], T)[x] = GrossAmount(x.items)
      BY DEF Admissible, OwnedBy
    <3>3. old.state.balance[a] >= s.balance[a] - Owned(a, s.key[a], T, q)
      BY <2>4, <3>1 DEF Spent
    <3>4. old.state.balance[a] \in Nat
      BY <2>4, <3>1 DEF Spent, Solvent
    <3>5. old.state.balance[a] >= GrossAmount(x.items)
      <4> HIDE DEF a, r
      <4> QED
        BY <2>2, <3>1, <3>2, <3>3, <3>4
    <3>6. Exists(old.state, a) /\ old.state.key = s.key
      BY <2>4, <3>1 DEF Spent, Exists, Admissible
    <3> QED
      BY <3>5, <3>6 DEF Admissible, ValidPayment
  <2> SUFFICES /\ Spent(new.state, s, T, r)
               /\ \A y \in ToSet(new.dropped) : ~Admissible(y, s)
    BY <2>6
  <2> HIDE DEF r, old, new, P, Fits
  <2>9. CASE new = old
    BY <2>4, <2>7, <2>9
  <2>10. CASE /\ ValidPayment(x, old.state)
              /\ new = [old EXCEPT !.state = ApplyPayment(x, old.state),
                                   !.taken = Append(old.taken, x)]
    <3>1. new.state = ApplyPayment(x, old.state) /\ new.dropped = old.dropped
      BY <2>4, <2>10 DEF Selection
    <3> QED
      BY <2>4, <2>7, <2>10, <3>1
  <2>11. CASE /\ ~ValidPayment(x, old.state)
              /\ new = [old EXCEPT !.dropped = Append(old.dropped, x)]
    <3>1. new.state = old.state /\ new.dropped = Append(old.dropped, x)
      BY <2>4, <2>11 DEF Selection
    <3>2. ToSet(new.dropped) = ToSet(old.dropped) \cup {x}
      BY <2>4, <3>1, ElementsAppend DEF Selection
    <3> QED
      BY <2>4, <2>7, <2>8, <2>11, <3>1, <3>2
  <2> QED
    BY <2>5, <2>9, <2>10, <2>11
<1> HIDE DEF P
<1>5. P \in SUBSET Seq(T)
  BY DEF P
<1>6. P = Seq(T)
  BY <1>3, <1>4, <1>5, Sums!SeqSet
<1>7. Fits(order)
  BY <1>6 DEF P
<1> QED
  BY <1>2, <1>7

(* A sequence is one over any set that its elements are in.                *)
LEMMA SeqWithin ==
    ASSUME NEW T, NEW U, NEW seq \in Seq(T), ToSet(seq) \subseteq U
    PROVE  seq \in Seq(U)
<1>1. seq \in Seq(ToSet(seq))
  BY OwnElements
<1> QED
  BY <1>1

(* Nothing is owned by who signed nothing.                                 *)
LEMMA OwnedNone ==
    ASSUME NEW T, Reservable(T), NEW seq \in Seq(T), NEW a, NEW k,
           \A p \in ToSet(seq) : ~(p.payer = a /\ p.signer = k)
    PROVE  Owned(a, k, T, seq) = 0
<1> DEFINE f == OwnedBy(a, k, T)
<1>1. seq \in Seq(ToSet(seq)) /\ ToSet(seq) \subseteq T
  BY OwnElements
<1>2. \A p \in ToSet(seq) : f[p] = 0
  BY <1>1 DEF OwnedBy
<1> HIDE DEF f
<1>3. SumOf(f, seq) = 0
  BY <1>1, <1>2, SumZero
<1> QED
  BY <1>3 DEF Owned, f

-----------------------------------------------------------------------------
(* So t comes from s by creations of C: accounts that are new have nothing *)
(* and the key of their creation, the others are what they were.           *)
Opened(t, s, C) ==
    /\ Solvent(t)
    /\ \A a \in AccountIDs :
          \/ t.key[a] = s.key[a] /\ t.type[a] = s.type[a] /\ t.balance[a] = s.balance[a]
          \/ /\ ~Exists(s, a) /\ Exists(t, a) /\ t.balance[a] = 0
             /\ \E tx \in C : tx.account = a /\ tx.key = t.key[a]

(* Creations open accounts that were not there, with nothing on them.      *)
LEMMA CreatesOpen ==
    ASSUME NEW s, Solvent(s), NEW C \in SUBSET AccountCreateTransaction,
           NEW seq \in Seq(C), NEW t \in AfterCreates({s}, seq)
    PROVE  Opened(t, s, C)
<1> DEFINE I == {u \in State : Opened(u, s, C)}
           h == [q \in Seq(C) |-> AfterCreates({s}, q)]
<1>1. h[seq] = AfterCreates({s}, seq)
  OBVIOUS
<1>2. IsRun(h, "create", {s}, C)
  BY Runs
<1> HIDE DEF h
<1>3. {s} \subseteq I
  BY DEF Opened, Solvent
<1>4. ASSUME NEW tx \in C, NEW u \in I, ValidCreate(tx, u)
      PROVE  ApplyCreate(tx, u) \in I
  <2> DEFINE v == ApplyCreate(tx, u)
  <2>1. v \in State /\ tx.account \in AccountIDs
    BY <1>4, ApplyTyped DEF AccountCreateTransaction
  <2>2. u \in State /\ Opened(u, s, C)
    OBVIOUS
  <2>3. \A a \in AccountIDs :
           /\ v.type[a] = IF a = tx.account THEN tx.type ELSE u.type[a]
           /\ v.balance[a] = IF a = tx.account THEN 0 ELSE u.balance[a]
           /\ v.key[a] = IF a = tx.account THEN tx.key ELSE u.key[a]
    BY <2>1, <2>2 DEF ApplyCreate, State
  <2>4. ~Exists(u, tx.account) /\ tx.type # Absent
    BY <1>4 DEF ValidCreate, Closable, Person, Merchant, Absent
  <2> HIDE DEF v, I
  <2>5. ASSUME NEW a \in AccountIDs
        PROVE  /\ v.balance[a] \in Nat
               /\ \/ /\ v.key[a] = s.key[a] /\ v.type[a] = s.type[a]
                     /\ v.balance[a] = s.balance[a]
                  \/ /\ ~Exists(s, a) /\ Exists(v, a) /\ v.balance[a] = 0
                     /\ \E x \in C : x.account = a /\ x.key = v.key[a]
    <3>1. CASE a = tx.account
      BY <2>2, <2>3, <2>4, <3>1 DEF Opened, Exists
    <3>2. CASE a # tx.account
      BY <2>2, <2>3, <3>2 DEF Opened, Exists, Solvent
    <3> QED
      BY <3>1, <3>2
  <2> QED
    BY <2>1, <2>5 DEF I, Opened, Solvent, v
<1>5. ClosedUnder(I, "create", C)
  BY <1>4 DEF ClosedUnder, ValidAs, ApplyAs
<1> HIDE DEF I
<1>6. h[seq] \subseteq I
  BY <1>2, <1>3, <1>5, RunWithin
<1> QED
  BY <1>1, <1>6 DEF I

(* So t comes from s by closures of E: an account that still has a key is  *)
(* what it was, with no less money; so is one that is not in E, whether it *)
(* has a key or not.                                                       *)
Shut(t, s, E) ==
    /\ Solvent(t)
    /\ \A a \in AccountIDs :
          \/ /\ t.key[a] = s.key[a] /\ t.type[a] = s.type[a]
             /\ t.balance[a] >= s.balance[a]
          \/ t.key[a] = NoKey /\ \E tx \in E : tx.account = a

(* Closures take nothing from the accounts that they leave open.           *)
LEMMA ClosesShut ==
    ASSUME NEW s, Solvent(s), NEW E \in SUBSET AccountCloseTransaction,
           NEW seq \in Seq(E), NEW t \in AfterCloses({s}, seq)
    PROVE  Shut(t, s, E)
<1> DEFINE I == {u \in State : Shut(u, s, E)}
           h == [q \in Seq(E) |-> AfterCloses({s}, q)]
<1>1. h[seq] = AfterCloses({s}, seq)
  OBVIOUS
<1>2. IsRun(h, "close", {s}, E)
  BY Runs
<1> HIDE DEF h
<1>3. {s} \subseteq I
  BY DEF Shut, Solvent
<1>4. ASSUME NEW tx \in E, NEW u \in I, ValidClose(tx, u)
      PROVE  ApplyClose(tx, u) \in I
  <2> DEFINE v == ApplyClose(tx, u)
             moved == IF u.type[tx.account] = Person THEN u.balance[tx.account] ELSE 0
  <2>1. v \in State /\ tx.account \in AccountIDs
    BY <1>4, ApplyTyped DEF AccountCloseTransaction
  <2>2. u \in State /\ Shut(u, s, E) /\ moved \in Nat
    BY <2>1 DEF Shut, Solvent
  <2>3. \A a \in AccountIDs :
           /\ v.type[a] = IF a = tx.account THEN Absent ELSE u.type[a]
           /\ v.balance[a] = IF a = tx.account THEN 0
                             ELSE IF moved > 0 /\ a = CloseDestination(tx)
                                  THEN u.balance[a] + moved ELSE u.balance[a]
           /\ v.key[a] = IF a = tx.account THEN NoKey ELSE u.key[a]
    BY <2>1, <2>2 DEF ApplyClose, State
  <2> HIDE DEF v, moved, I
  <2>5. ASSUME NEW a \in AccountIDs
        PROVE  /\ v.balance[a] \in Nat
               /\ \/ /\ v.key[a] = s.key[a] /\ v.type[a] = s.type[a]
                     /\ v.balance[a] >= s.balance[a]
                  \/ v.key[a] = NoKey /\ \E x \in E : x.account = a
    <3>1. CASE a = tx.account
      BY <2>3, <3>1
    <3>2. CASE a # tx.account
      <4>1. u.balance[a] \in Nat /\ s.balance[a] \in Nat
        BY <2>2 DEF Shut, Solvent
      <4>2. /\ v.type[a] = u.type[a] /\ v.key[a] = u.key[a] /\ v.balance[a] \in Nat
            /\ v.balance[a] >= u.balance[a]
        BY <2>2, <2>3, <3>2, <4>1
      <4> QED
        BY <2>2, <4>1, <4>2 DEF Shut
    <3> QED
      BY <3>1, <3>2
  <2> QED
    BY <2>1, <2>5 DEF I, Shut, Solvent, v
<1>5. ClosedUnder(I, "close", E)
  BY <1>4 DEF ClosedUnder, ValidAs, ApplyAs
<1> HIDE DEF I
<1>6. h[seq] \subseteq I
  BY <1>2, <1>3, <1>5, RunWithin
<1> QED
  BY <1>1, <1>6 DEF I

-----------------------------------------------------------------------------
(* Every state after some transactions is one after them from one state.   *)
LEMMA RunsApart ==
    ASSUME NEW T, NEW base, NEW seq \in Seq(T)
    PROVE  /\ \A u \in AfterPayments(base, seq) :
                 \E b \in base : u \in AfterPayments({b}, seq)
           /\ \A u \in AfterCloses(base, seq) :
                 \E b \in base : u \in AfterCloses({b}, seq)
<1> DEFINE p == [q \in Seq(T) |-> AfterPayments(base, q)]
           e == [q \in Seq(T) |-> AfterCloses(base, q)]
           ps(b) == [q \in Seq(T) |-> AfterPayments({b}, q)]
           es(b) == [q \in Seq(T) |-> AfterCloses({b}, q)]
           P == {q \in Seq(T) : /\ \A u \in p[q] : \E b \in base : u \in ps(b)[q]
                                /\ \A u \in e[q] : \E b \in base : u \in es(b)[q]}
<1>1. /\ p[seq] = AfterPayments(base, seq) /\ e[seq] = AfterCloses(base, seq)
      /\ \A b : ps(b)[seq] = AfterPayments({b}, seq) /\ es(b)[seq] = AfterCloses({b}, seq)
  OBVIOUS
<1>2. /\ IsRun(p, "payment", base, T) /\ IsRun(e, "close", base, T)
  BY Runs
<1>3. ASSUME NEW b
      PROVE  IsRun(ps(b), "payment", {b}, T) /\ IsRun(es(b), "close", {b}, T)
  BY Runs
<1> HIDE DEF p, e, ps, es
<1>4. <<>> \in P
  BY <1>2, <1>3, EmptySeq DEF IsRun
<1>5. ASSUME NEW q \in P, NEW x \in T PROVE Append(q, x) \in P
  <2>1. Append(q, x) \in Seq(T) /\ q \in Seq(T)
    BY AppendProperties
  <2>2. ASSUME NEW u \in p[Append(q, x)]
        PROVE  \E b \in base : u \in ps(b)[Append(q, x)]
    <3>1. PICK v \in p[q] : ValidAs("payment", x, v) /\ u = ApplyAs("payment", x, v)
      BY <1>2, <2>1 DEF IsRun
    <3>2. PICK b \in base : v \in ps(b)[q]
      OBVIOUS
    <3>3. u \in ps(b)[Append(q, x)]
      BY <1>3, <2>1, <3>1, <3>2 DEF IsRun
    <3> QED
      BY <3>3
  <2>3. ASSUME NEW u \in e[Append(q, x)]
        PROVE  \E b \in base : u \in es(b)[Append(q, x)]
    <3>1. PICK v \in e[q] : ValidAs("close", x, v) /\ u = ApplyAs("close", x, v)
      BY <1>2, <2>1 DEF IsRun
    <3>2. PICK b \in base : v \in es(b)[q]
      OBVIOUS
    <3>3. u \in es(b)[Append(q, x)]
      BY <1>3, <2>1, <3>1, <3>2 DEF IsRun
    <3> QED
      BY <3>3
  <2> QED
    BY <2>1, <2>2, <2>3
<1> HIDE DEF P
<1>6. P \in SUBSET Seq(T)
  BY DEF P
<1>7. P = Seq(T)
  BY <1>4, <1>5, <1>6, Sums!SeqSet
<1>8. /\ \A u \in p[seq] : \E b \in base : u \in ps(b)[seq]
      /\ \A u \in e[seq] : \E b \in base : u \in es(b)[seq]
  BY <1>7 DEF P
<1>9. \A u \in AfterPayments(base, seq) : \E b \in base : u \in AfterPayments({b}, seq)
  BY <1>1, <1>8
<1>10. \A u \in AfterCloses(base, seq) : \E b \in base : u \in AfterCloses({b}, seq)
  BY <1>1, <1>8
<1> QED
  BY <1>9, <1>10

(* The states between the kinds of transactions of a block.                *)
LEMMA BlockSteps ==
    ASSUME NEW block \in [creates  : Seq(AccountCreateTransaction),
                          payments : Seq(PaymentTransaction),
                          closes   : Seq(AccountCloseTransaction)],
           NEW s, NEW t \in ApplyTransactions(block, s)
    PROVE  \E c \in AfterCreates({s}, block.creates) :
               \E p \in AfterPayments({c}, block.payments) :
                   t \in AfterCloses({p}, block.closes)
<1> DEFINE created == AfterCreates({s}, block.creates)
           paid == AfterPayments(created, block.payments)
<1>1. t \in AfterCloses(paid, block.closes)
  BY DEF ApplyTransactions, AfterCreates, AfterPayments, AfterCloses
<1>2. PICK p \in paid : t \in AfterCloses({p}, block.closes)
  <2> HIDE DEF paid
  <2> QED
    BY <1>1, RunsApart
<1>3. PICK c \in created : p \in AfterPayments({c}, block.payments)
  <2> HIDE DEF created
  <2> QED
    BY RunsApart
<1> QED
  BY <1>2, <1>3

(* Payments that are signed, and by an owner who has the account.          *)
Funded(q, s) ==
    \A p \in ToSet(q) :
        /\ p.signer # NoKey /\ ValidLines(p.items)
        /\ s.key[p.payer] = p.signer => Exists(s, p.payer)

(* Payments that are not signed with the key of a new account.             *)
Unsigned(C, q) ==
    \A tx \in C : \A p \in ToSet(q) : ~(p.payer = tx.account /\ p.signer = tx.key)

(* New accounts change nothing about what pending payments can afford.     *)
LEMMA CreatesAfford ==
    ASSUME NEW T, Spendable(T), NEW s, Solvent(s), NEW order \in Seq(T),
           Affordable(order, s, T), Funded(order, s),
           NEW C, Unsigned(C, order), NEW t, Opened(t, s, C)
    PROVE  /\ Affordable(order, t, T) /\ Funded(order, t)
           /\ \A p \in ToSet(order) : s.key[p.payer] = p.signer <=> t.key[p.payer] = p.signer
<1>1. Reservable(T) /\ \A p \in ToSet(order) : p.payer \in AccountIDs
  BY OwnElements DEF Spendable, Reservable
<1>2. ASSUME NEW a \in AccountIDs PROVE Owned(a, t.key[a], T, order) <= t.balance[a]
  <2>1. CASE t.key[a] = s.key[a] /\ t.balance[a] = s.balance[a]
    BY <2>1 DEF Affordable
  <2>2. CASE \E tx \in C : tx.account = a /\ tx.key = t.key[a]
    <3>1. \A p \in ToSet(order) : ~(p.payer = a /\ p.signer = t.key[a])
      BY <2>2 DEF Unsigned
    <3>2. Owned(a, t.key[a], T, order) = 0
      BY <1>1, <3>1, OwnedNone
    <3>3. t.balance[a] \in Nat
      BY DEF Opened, Solvent
    <3> QED
      BY <3>2, <3>3
  <2> QED
    BY <2>1, <2>2 DEF Opened
<1>3. ASSUME NEW p \in ToSet(order)
      PROVE  /\ t.key[p.payer] = p.signer => Exists(t, p.payer)
             /\ s.key[p.payer] = p.signer <=> t.key[p.payer] = p.signer
  <2> DEFINE a == p.payer
  <2>0. a \in AccountIDs
    BY <1>1
  <2>1. CASE t.key[a] = s.key[a] /\ t.type[a] = s.type[a]
    BY <2>1 DEF Funded, Exists
  <2>2. CASE /\ ~Exists(s, a) /\ Exists(t, a)
             /\ \E tx \in C : tx.account = a /\ tx.key = t.key[a]
    BY <2>2 DEF Unsigned, Funded
  <2> QED
    BY <2>0, <2>1, <2>2 DEF Opened
<1> QED
  BY <1>2, <1>3 DEF Affordable, Funded

(* A block leaves every payer what its other payments will take.           *)
LEMMA BlockAffords ==
    ASSUME NEW T, Spendable(T), NEW s, Solvent(s), NEW order \in Seq(T),
           Affordable(order, s, T), Funded(order, s),
           NEW block \in [creates  : Seq(AccountCreateTransaction),
                          payments : Seq(PaymentTransaction),
                          closes   : Seq(AccountCloseTransaction)],
           Unsigned(ToSet(block.creates), order), Unrepeated(block.payments),
           ToSet(block.payments) \subseteq ToSet(order),
           NEW t \in ApplyTransactions(block, s)
    PROVE  /\ Solvent(t)
           /\ Affordable(Without(order, block.payments), t, T)
           /\ Funded(Without(order, block.payments), t)
           /\ \A a \in AccountIDs :
                 \/ t.key[a] \in {NoKey, s.key[a]}
                 \/ \E tx \in ToSet(block.creates) : tx.account = a /\ tx.key = t.key[a]
<1> DEFINE C == ToSet(block.creates)
           E == ToSet(block.closes)
           paid == block.payments
           rest == Without(order, paid)
           gone == Among(order, paid)
<1>1. /\ block.creates \in Seq(C) /\ C \subseteq AccountCreateTransaction
      /\ block.closes \in Seq(E) /\ E \subseteq AccountCloseTransaction
      /\ paid \in Seq(PaymentTransaction)
  BY OwnElements
<1>2. ToSet(order) \subseteq T /\ Reservable(T)
  BY OwnElements DEF Spendable
<1>3. paid \in Seq(T)
  BY <1>1, <1>2, SeqWithin
<1>4. PICK c \in AfterCreates({s}, block.creates) :
          \E p \in AfterPayments({c}, paid) : t \in AfterCloses({p}, block.closes)
  BY BlockSteps
<1>5. PICK p \in AfterPayments({c}, paid) : t \in AfterCloses({p}, block.closes)
  BY <1>4
<1>6. /\ rest \in Seq(T) /\ ToSet(rest) = {x \in ToSet(order) : NewIn(paid, x)}
      /\ gone \in Seq(T) /\ ToSet(gone) = {x \in ToSet(order) : ~NewIn(paid, x)}
  BY WithoutElements
<1>7. ToSet(paid) \subseteq ToSet(gone)
  BY <1>6 DEF NewIn
<1> HIDE DEF C, E
<1>8. Opened(c, s, C)
  BY <1>1, CreatesOpen
<1>9. Solvent(c)
  BY <1>8 DEF Opened
<1>10. Spent(p, c, T, paid)
  BY <1>3, <1>9, PaymentsSpend
<1>11. Solvent(p)
  BY <1>10 DEF Spent
<1>12. Shut(t, p, E)
  BY <1>1, <1>5, <1>11, ClosesShut
<1>13. /\ Affordable(order, c, T) /\ Funded(order, c)
       /\ \A x \in ToSet(order) : s.key[x.payer] = x.signer <=> c.key[x.payer] = x.signer
  BY <1>8, CreatesAfford DEF C
<1> HIDE DEF rest, gone, paid
<1>14. ASSUME NEW a \in AccountIDs PROVE Owned(a, t.key[a], T, rest) <= t.balance[a]
  <2>0. /\ t.balance[a] \in Nat /\ p.balance[a] \in Nat /\ c.balance[a] \in Nat
    BY <1>9, <1>11, <1>12 DEF Solvent, Shut
  <2>1. CASE t.key[a] = NoKey
    <3>1. \A x \in ToSet(rest) : ~(x.payer = a /\ x.signer = NoKey)
      BY <1>6 DEF Funded
    <3>2. Owned(a, NoKey, T, rest) = 0
      BY <1>2, <1>6, <3>1, OwnedNone
    <3> QED
      BY <2>0, <2>1, <3>2
  <2>2. CASE t.key[a] = p.key[a] /\ t.type[a] = p.type[a] /\ t.balance[a] >= p.balance[a]
    <3> DEFINE k == c.key[a]
               f == OwnedBy(a, k, T)
    <3>1. t.key[a] = k
      BY <1>10, <2>2 DEF Spent
    <3> HIDE DEF k
    <3>2. p.balance[a] >= c.balance[a] - Owned(a, k, T, paid)
      BY <1>10 DEF Spent, k
    <3>3. /\ \A x \in T : f[x] \in Nat
          /\ Owned(a, k, T, paid) \in Nat /\ Owned(a, k, T, rest) \in Nat
          /\ Owned(a, k, T, gone) \in Nat /\ Owned(a, k, T, order) \in Nat
      BY <1>2, <1>3, <1>6, OwnedNat
    <3> HIDE DEF f
    <3>4. SumOf(f, paid) <= SumOf(f, gone)
      BY <1>3, <1>6, <1>7, <3>3, SumWithin DEF paid
    <3>5. \A x \in T : f[x] \in Int
      BY <3>3
    <3>6. SumOf(f, order) = SumOf(f, rest) + SumOf(f, gone)
      BY <3>5, SumWithout DEF rest, gone
    <3>7. /\ Owned(a, k, T, paid) <= Owned(a, k, T, gone)
          /\ Owned(a, k, T, order) = Owned(a, k, T, rest) + Owned(a, k, T, gone)
      BY <3>4, <3>6 DEF Owned, f
    <3>8. Owned(a, k, T, order) <= c.balance[a]
      BY <1>13 DEF Affordable, k
    <3> QED
      BY <2>0, <2>2, <3>1, <3>2, <3>3, <3>7, <3>8
  <2> QED
    BY <1>12, <2>1, <2>2 DEF Shut
<1>15. ASSUME NEW x \in ToSet(rest)
       PROVE  /\ x.signer # NoKey /\ ValidLines(x.items)
              /\ t.key[x.payer] = x.signer => Exists(t, x.payer)
  <2>1. x \in ToSet(order) /\ x.payer \in AccountIDs
    BY <1>2, <1>6 DEF Reservable
  <2>2. x.signer # NoKey /\ ValidLines(x.items)
    BY <2>1 DEF Funded
  <2>3. ASSUME t.key[x.payer] = x.signer PROVE Exists(t, x.payer)
    <3>1. t.key[x.payer] = p.key[x.payer] /\ t.type[x.payer] = p.type[x.payer]
      BY <1>12, <2>1, <2>2, <2>3 DEF Shut
    <3>2. p.key = c.key /\ (Exists(c, x.payer) => p.type[x.payer] = c.type[x.payer])
      BY <1>10, <2>1 DEF Spent
    <3>3. Exists(c, x.payer)
      BY <1>13, <2>1, <2>3, <3>1, <3>2 DEF Funded
    <3> QED
      BY <3>1, <3>2, <3>3 DEF Exists
  <2> QED
    BY <2>2, <2>3
<1>16. ASSUME NEW a \in AccountIDs
       PROVE  \/ t.key[a] \in {NoKey, s.key[a]}
              \/ \E tx \in C : tx.account = a /\ tx.key = t.key[a]
  <2>1. t.key[a] \in {NoKey, p.key[a]}
    BY <1>12 DEF Shut
  <2>2. p.key[a] = c.key[a]
    BY <1>10 DEF Spent
  <2>3. c.key[a] = s.key[a] \/ \E tx \in C : tx.account = a /\ tx.key = c.key[a]
    BY <1>8 DEF Opened
  <2> QED
    BY <2>1, <2>2, <2>3
<1>17. Solvent(t)
  BY <1>12 DEF Shut
<1> QED
  BY <1>14, <1>15, <1>16, <1>17 DEF Affordable, Funded, C, rest, paid
=============================================================================
