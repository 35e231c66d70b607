------------------------ MODULE Node_replay_proofs ------------------------
(***************************************************************************)
(* What a node has in its database and in its memory is what its blocks    *)
(* lead to from the genesis, for any requests, and however often it died.  *)
(*                                                                         *)
(* The argument: the ledger differs from the state that the chain leads to *)
(* in keys only, and only of accounts that no block touches: the keystore  *)
(* file may have lost the key of an account of the genesis, or have one of *)
(* a creation that never got into a block. A key that is missing forbids,  *)
(* so that a block that was valid with it missing is valid in the state of *)
(* the chain (Follows); a key too many is of an account that does not      *)
(* exist and that no block pays. So every block that the node executes     *)
(* continues the chain, and leads both to the same again.                  *)
(***************************************************************************)
EXTENDS Node_proofs

-----------------------------------------------------------------------------
(***************************************************************************)
(* Replaying: a block that is valid in a state is valid, and does the      *)
(* same, in one that knows more keys.                                      *)
(***************************************************************************)
(* In t is all that is in s; t may have keys more, of accounts of X that   *)
(* are in neither.                                                         *)
Follows(t, s, X) ==
    /\ s \in State /\ t \in State
    /\ t.type = s.type /\ t.balance = s.balance
    /\ \A a \in AccountIDs :
          \/ s.key[a] # NoKey => t.key[a] = s.key[a]
          \/ a \in X /\ ~Exists(s, a)

(* What is valid in a state is valid in one that follows it, and leads to  *)
(* one that follows.                                                       *)
Simulated(kind, T, X) ==
    \A t, s, tx :
        tx \in T /\ Follows(t, s, X) /\ ValidAs(kind, tx, s) =>
            ValidAs(kind, tx, t) /\ Follows(ApplyAs(kind, tx, t), ApplyAs(kind, tx, s), X)

(* It is so of creations ...                                               *)
LEMMA CreateFollows ==
    ASSUME NEW X
    PROVE  Simulated("create", AccountCreateTransaction, X)
<1> SUFFICES ASSUME NEW t, NEW s, NEW tx \in AccountCreateTransaction,
                    Follows(t, s, X), ValidCreate(tx, s)
             PROVE  ValidCreate(tx, t) /\ Follows(ApplyCreate(tx, t), ApplyCreate(tx, s), X)
  BY DEF Simulated, ValidAs, ApplyAs
<1>1. s \in State /\ t \in State /\ t.type = s.type /\ t.balance = s.balance
  BY DEF Follows
<1>2. ValidCreate(tx, t)
  BY <1>1 DEF ValidCreate, Exists
<1> DEFINE u == ApplyCreate(tx, s)
           v == ApplyCreate(tx, t)
<1>3. u \in State /\ v \in State
  BY <1>1, <1>2, ApplyTyped
<1>4. v.type = u.type /\ v.balance = u.balance
  BY <1>1 DEF ApplyCreate
<1>5. tx.account \in AccountIDs /\ tx.type # Absent
  BY DEF AccountCreateTransaction, ValidCreate, Closable, Person, Merchant, Absent
<1>6. ASSUME NEW a \in AccountIDs
      PROVE  \/ u.key[a] # NoKey => v.key[a] = u.key[a]
             \/ a \in X /\ ~Exists(u, a)
  <2>1. CASE a = tx.account
    BY <1>1, <1>5, <2>1 DEF ApplyCreate, State
  <2>2. CASE a # tx.account
    <3>1. u.key[a] = s.key[a] /\ v.key[a] = t.key[a] /\ u.type[a] = s.type[a]
      BY <1>1, <1>5, <2>2 DEF ApplyCreate, State
    <3> QED
      BY <3>1 DEF Follows, Exists
  <2> QED
    BY <2>1, <2>2
<1> QED
  BY <1>2, <1>3, <1>4, <1>6 DEF Follows

(* A valid payment writes no tax accounts but the allowed ones.            *)
LEMMA WrittenAllowed ==
    ASSUME NEW tx, ValidLines(tx.items), NEW a \in WrittenTaxAccounts(tx.items)
    PROVE  a \in AllowedTaxAccounts
BY DEF WrittenTaxAccounts, ValidLines, ValidItem

(* ... of payments that leave the accounts of X alone ...                  *)
LEMMA PaymentFollows ==
    ASSUME NEW X, AllowedTaxAccounts \cap X = {}
    PROVE  Simulated("payment", {tx \in PaymentTransaction : tx.payee \notin X}, X)
<1> SUFFICES ASSUME NEW t, NEW s, NEW tx \in PaymentTransaction, tx.payee \notin X,
                    Follows(t, s, X), ValidPayment(tx, s)
             PROVE  ValidPayment(tx, t) /\ Follows(ApplyPayment(tx, t), ApplyPayment(tx, s), X)
  BY DEF Simulated, ValidAs, ApplyAs
<1>1. s \in State /\ t \in State /\ t.type = s.type /\ t.balance = s.balance
  BY DEF Follows
<1>2. t.key[tx.payer] = s.key[tx.payer]
  BY DEF Follows, ValidPayment, PaymentTransaction
<1>3. ValidPayment(tx, t)
  BY <1>1, <1>2 DEF ValidPayment, Exists
<1> DEFINE u == ApplyPayment(tx, s)
           v == ApplyPayment(tx, t)
<1>4. u \in State /\ v \in State
  BY <1>1, <1>3, ApplyTyped
<1>5. v.type = u.type /\ v.balance = u.balance /\ u.key = s.key /\ v.key = t.key
  BY <1>1 DEF ApplyPayment
<1>6. ASSUME NEW a \in AccountIDs, a \in X, ~Exists(s, a)
      PROVE  ~Exists(u, a)
  <2>1. a \notin WrittenTaxAccounts(tx.items)
    BY <1>6, WrittenAllowed DEF ValidPayment
  <2> QED
    BY <1>6, <2>1 DEF ApplyPayment, Exists
<1> HIDE DEF u, v
<1> QED
  BY <1>3, <1>4, <1>5, <1>6 DEF Follows, u, v

(* ... and of closures.                                                    *)
LEMMA CloseFollows ==
    ASSUME NEW X
    PROVE  Simulated("close", AccountCloseTransaction, X)
<1> SUFFICES ASSUME NEW t, NEW s, NEW tx \in AccountCloseTransaction,
                    Follows(t, s, X), ValidClose(tx, s)
             PROVE  ValidClose(tx, t) /\ Follows(ApplyClose(tx, t), ApplyClose(tx, s), X)
  BY DEF Simulated, ValidAs, ApplyAs
<1>1. s \in State /\ t \in State /\ t.type = s.type /\ t.balance = s.balance
  BY DEF Follows
<1>2. tx.account \in AccountIDs /\ Exists(s, tx.account) /\ s.key[tx.account] # NoKey
  BY DEF AccountCloseTransaction, ValidClose, ValidPersonClose, ValidMerchantClose,
         Exists, Person, Merchant, Absent
<1>3. t.key[tx.account] = s.key[tx.account]
  BY <1>2 DEF Follows
<1>4. ValidClose(tx, t)
  BY <1>1, <1>3 DEF ValidClose, ValidPersonClose, ValidMerchantClose, Exists
<1> DEFINE u == ApplyClose(tx, s)
           v == ApplyClose(tx, t)
<1>5. u \in State /\ v \in State
  BY <1>1, <1>4, ApplyTyped
<1>6. v.type = u.type /\ v.balance = u.balance
  BY <1>1 DEF ApplyClose
<1>7. ASSUME NEW a \in AccountIDs
      PROVE  \/ u.key[a] # NoKey => v.key[a] = u.key[a]
             \/ a \in X /\ ~Exists(u, a)
  <2>1. CASE a = tx.account
    BY <1>1, <1>2, <2>1 DEF ApplyClose, State
  <2>2. CASE a # tx.account
    <3>1. u.key[a] = s.key[a] /\ v.key[a] = t.key[a] /\ u.type[a] = s.type[a]
      BY <1>1, <1>2, <2>2 DEF ApplyClose, State
    <3> QED
      BY <3>1 DEF Follows, Exists
  <2> QED
    BY <2>1, <2>2
<1> QED
  BY <1>4, <1>5, <1>6, <1>7 DEF Follows

(* From s, g has what follows, in h, from t.                               *)
Runners(kind, T, X, g, h, s, t) ==
    /\ Simulated(kind, T, X) /\ Follows(t, s, X)
    /\ IsRun(g, kind, {s}, T) /\ IsRun(h, kind, {t}, T)

(* Then a sequence of such transactions that leads from s somewhere leads  *)
(* from t to one state, which follows it.                                  *)
LEMMA RunFollows ==
    ASSUME NEW kind, NEW T, NEW X, NEW g, NEW h, NEW s, NEW t,
           Runners(kind, T, X, g, h, s, t), NEW seq \in Seq(T), NEW u \in g[seq]
    PROVE  \E v : h[seq] = {v} /\ Follows(v, u, X)
<1> DEFINE P == {q \in Seq(T) : \A w \in g[q] : \E v : h[q] = {v} /\ Follows(v, w, X)}
<1>0. /\ Simulated(kind, T, X) /\ Follows(t, s, X)
      /\ IsRun(g, kind, {s}, T) /\ IsRun(h, kind, {t}, T)
  BY DEF Runners
<1>1. <<>> \in P
  BY <1>0, EmptySeq DEF IsRun
<1>2. ASSUME NEW q \in P, NEW x \in T PROVE Append(q, x) \in P
  <2>1. q \in Seq(T) /\ Append(q, x) \in Seq(T)
    BY AppendProperties
  <2> SUFFICES ASSUME NEW w \in g[Append(q, x)]
               PROVE  \E v : h[Append(q, x)] = {v} /\ Follows(v, w, X)
    BY <2>1
  <2>2. PICK y \in g[q] : ValidAs(kind, x, y) /\ w = ApplyAs(kind, x, y)
    BY <1>0, <2>1 DEF IsRun
  <2>3. PICK v : h[q] = {v} /\ Follows(v, y, X)
    BY <2>2
  <2>4. ValidAs(kind, x, v) /\ Follows(ApplyAs(kind, x, v), w, X)
    BY <1>0, <2>2, <2>3 DEF Simulated
  <2>5. h[Append(q, x)] = {ApplyAs(kind, x, z) : z \in {r \in h[q] : ValidAs(kind, x, r)}}
    BY <1>0, <2>1 DEF IsRun
  <2>6. h[Append(q, x)] = {ApplyAs(kind, x, v)}
    BY <2>3, <2>4, <2>5
  <2> QED
    BY <2>4, <2>6
<1> HIDE DEF P
<1>3. P \in SUBSET Seq(T)
  BY DEF P
<1>4. P = Seq(T)
  BY <1>1, <1>2, <1>3, Sums!SeqSet
<1> QED
  BY <1>4 DEF P

(* A block pays nobody of X.                                               *)
Spares(block, X) ==
    AllowedTaxAccounts \cap X = {} /\ \A tx \in ToSet(block.payments) : tx.payee \notin X

(* It leads from t to one state, which follows u.                          *)
Leads(block, t, u, X) == \E v : ApplyTransactions(block, t) = {v} /\ Follows(v, u, X)

(* So it is with a whole block that leaves the accounts of X alone.        *)
LEMMA BlockFollows ==
    ASSUME NEW X, NEW s, NEW t, Follows(t, s, X), NEW block \in Block, Spares(block, X),
           NEW u \in ApplyTransactions(block, s)
    PROVE  Leads(block, t, u, X)
<1> DEFINE C == AccountCreateTransaction
           P == {tx \in PaymentTransaction : tx.payee \notin X}
           E == AccountCloseTransaction
<1>1. block.creates \in Seq(C) /\ block.closes \in Seq(E)
  BY DEF Block
<1>2. block.payments \in Seq(P)
  <2>1. block.payments \in Seq(PaymentTransaction)
    BY DEF Block
  <2>2. ToSet(block.payments) \subseteq P
    BY <2>1, OwnElements DEF Spares
  <2> QED
    BY <2>1, <2>2, SeqWithin
<1>3. /\ Simulated("create", C, X) /\ Simulated("payment", P, X)
      /\ Simulated("close", E, X)
  BY CreateFollows, PaymentFollows, CloseFollows DEF Spares
<1>4. PICK c \in AfterCreates({s}, block.creates) :
          \E p \in AfterPayments({c}, block.payments) :
              u \in AfterCloses({p}, block.closes)
  BY BlockSteps DEF Block
<1>5. PICK p \in AfterPayments({c}, block.payments) :
          u \in AfterCloses({p}, block.closes)
  BY <1>4
<1> HIDE DEF C, P, E
<1>6. PICK d : AfterCreates({t}, block.creates) = {d} /\ Follows(d, c, X)
  <2> DEFINE g == [q \in Seq(C) |-> AfterCreates({s}, q)]
             h == [q \in Seq(C) |-> AfterCreates({t}, q)]
  <2>1. IsRun(g, "create", {s}, C) /\ IsRun(h, "create", {t}, C)
    BY Runs
  <2>2. /\ g[block.creates] = AfterCreates({s}, block.creates)
        /\ h[block.creates] = AfterCreates({t}, block.creates)
    BY <1>1
  <2> HIDE DEF g, h
  <2>3. c \in g[block.creates]
    BY <2>2
  <2>4. Runners("create", C, X, g, h, s, t)
    BY <1>3, <2>1 DEF Runners
  <2>5. \E v : h[block.creates] = {v} /\ Follows(v, c, X)
    BY <1>1, <1>2, <2>3, <2>4, RunFollows
  <2>6. \E v : AfterCreates({t}, block.creates) = {v} /\ Follows(v, c, X)
    BY <2>2, <2>5, Zenon
  <2> QED
    BY <2>6, Zenon
<1>7. PICK r : AfterPayments({d}, block.payments) = {r} /\ Follows(r, p, X)
  <2> DEFINE g == [q \in Seq(P) |-> AfterPayments({c}, q)]
             h == [q \in Seq(P) |-> AfterPayments({d}, q)]
  <2>1. IsRun(g, "payment", {c}, P) /\ IsRun(h, "payment", {d}, P)
    BY Runs
  <2>2. /\ g[block.payments] = AfterPayments({c}, block.payments)
        /\ h[block.payments] = AfterPayments({d}, block.payments)
    BY <1>2
  <2> HIDE DEF g, h
  <2>3. p \in g[block.payments]
    BY <2>2
  <2>4. Runners("payment", P, X, g, h, c, d)
    BY <1>3, <1>6, <2>1 DEF Runners
  <2>5. \E v : h[block.payments] = {v} /\ Follows(v, p, X)
    BY <1>1, <1>2, <2>3, <2>4, RunFollows
  <2>6. \E v : AfterPayments({d}, block.payments) = {v} /\ Follows(v, p, X)
    BY <2>2, <2>5, Zenon
  <2> QED
    BY <2>6, Zenon
<1>8. PICK v : AfterCloses({r}, block.closes) = {v} /\ Follows(v, u, X)
  <2> DEFINE g == [q \in Seq(E) |-> AfterCloses({p}, q)]
             h == [q \in Seq(E) |-> AfterCloses({r}, q)]
  <2>1. IsRun(g, "close", {p}, E) /\ IsRun(h, "close", {r}, E)
    BY Runs
  <2>2. /\ g[block.closes] = AfterCloses({p}, block.closes)
        /\ h[block.closes] = AfterCloses({r}, block.closes)
    BY <1>1
  <2> HIDE DEF g, h
  <2>3. u \in g[block.closes]
    BY <1>5, <2>2
  <2>4. Runners("close", E, X, g, h, p, r)
    BY <1>3, <1>7, <2>1 DEF Runners
  <2>5. \E v : h[block.closes] = {v} /\ Follows(v, u, X)
    BY <1>1, <1>2, <2>3, <2>4, RunFollows
  <2>6. \E v : AfterCloses({r}, block.closes) = {v} /\ Follows(v, u, X)
    BY <2>2, <2>5, Zenon
  <2> QED
    BY <2>6, Zenon
<1>9. ApplyTransactions(block, t) = {v}
  BY <1>6, <1>7, <1>8 DEF ApplyTransactions, AfterCreates, AfterPayments, AfterCloses
<1> QED
  BY <1>8, <1>9 DEF Leads

-----------------------------------------------------------------------------
(***************************************************************************)
(* The keys that a block leaves, which a start computes from the chain.    *)
(***************************************************************************)
(* What is kept depends on what the set says of the elements.              *)
LEMMA OnlySame ==
    ASSUME NEW T, NEW seq \in Seq(T), NEW S, NEW R,
           \A x \in ToSet(seq) : x \in S <=> x \in R
    PROVE  Only(seq, S) = Only(seq, R)
<1> DEFINE P == {q \in Seq(T) : (\A x \in ToSet(q) : x \in S <=> x \in R)
                                   => Only(q, S) = Only(q, R)}
<1>1. <<>> \in P
  BY EmptySeq, OnlyEmpty
<1>2. ASSUME NEW q \in P, NEW x \in T PROVE Append(q, x) \in P
  <2>1. q \in Seq(T) /\ Append(q, x) \in Seq(T) /\ ToSet(Append(q, x)) = ToSet(q) \cup {x}
    BY ElementsAppend, AppendProperties
  <2>2. /\ Only(Append(q, x), S) = IF x \in S THEN Append(Only(q, S), x) ELSE Only(q, S)
        /\ Only(Append(q, x), R) = IF x \in R THEN Append(Only(q, R), x) ELSE Only(q, R)
    BY <2>1, OnlyAppend
  <2>3. (\A y \in ToSet(q) : y \in S <=> y \in R) => Only(q, S) = Only(q, R)
    OBVIOUS
  <2> SUFFICES ASSUME \A y \in ToSet(Append(q, x)) : y \in S <=> y \in R
               PROVE  Only(Append(q, x), S) = Only(Append(q, x), R)
    BY <2>1
  <2>4. x \in S <=> x \in R
    BY <2>1
  <2>5. Only(q, S) = Only(q, R)
    BY <2>1, <2>3
  <2> QED
    BY <2>2, <2>4, <2>5
<1> HIDE DEF P
<1>3. P \in SUBSET Seq(T)
  BY DEF P
<1>4. P = Seq(T)
  BY <1>1, <1>2, <1>3, Sums!SeqSet
<1> QED
  BY <1>4 DEF P

(* The entries of an account, when there is an entry more.                 *)
LEMMA EntriesMore ==
    ASSUME NEW T, NEW seq \in Seq(T), NEW x \in T, NEW a
    PROVE  /\ EntriesOf(<<>>, a) = <<>>
           /\ x.account # a => EntriesOf(Append(seq, x), a) = EntriesOf(seq, a)
           /\ x.account = a => /\ EntriesOf(Append(seq, x), a) # <<>>
                               /\ Last(EntriesOf(Append(seq, x), a)) = x
<1> DEFINE S == {e \in ToSet(seq) : e.account = a}
           R == {e \in ToSet(Append(seq, x)) : e.account = a}
<1>1. ToSet(Append(seq, x)) = ToSet(seq) \cup {x}
  BY ElementsAppend
<1>2. \A e \in ToSet(seq) : e \in S <=> e \in R
  BY <1>1
<1>3. x \in R <=> x.account = a
  BY <1>1
<1>4. EntriesOf(seq, a) = Only(seq, S) /\ EntriesOf(Append(seq, x), a) = Only(Append(seq, x), R)
  BY DEF EntriesOf
<1>5. EntriesOf(<<>>, a) = <<>>
  BY OnlyEmpty DEF EntriesOf
<1> HIDE DEF S, R
<1>6. Only(Append(seq, x), R) = IF x \in R THEN Append(Only(seq, R), x) ELSE Only(seq, R)
  BY OnlyAppend
<1>7. Only(seq, R) = Only(seq, S) /\ Only(seq, R) \in Seq(T)
  <2>1. Only(seq, S) = Only(seq, R)
    BY <1>2, OnlySame
  <2> QED
    BY <2>1, OnlyElements
<1>8. CASE x.account # a
  BY <1>3, <1>4, <1>5, <1>6, <1>7, <1>8
<1>9. CASE x.account = a
  <2> DEFINE q == Only(seq, R)
  <2>1. EntriesOf(Append(seq, x), a) = Append(q, x) /\ q \in Seq(T)
    BY <1>3, <1>4, <1>6, <1>7, <1>9
  <2> HIDE DEF q
  <2>2. /\ Append(q, x) # <<>> /\ Len(Append(q, x)) = Len(q) + 1
        /\ Append(q, x)[Len(q) + 1] = x
    BY <2>1, AppendProperties
  <2> QED
    BY <1>5, <1>9, <2>1, <2>2 DEF Last
<1> QED
  BY <1>8, <1>9

(* The keys after some creations, ...                                      *)
LEMMA CreatesKeys ==
    ASSUME NEW s \in State, NEW seq \in Seq(AccountCreateTransaction),
           NEW t \in AfterCreates({s}, seq)
    PROVE  /\ t \in State
           /\ \A a \in AccountIDs :
                 t.key[a] = IF EntriesOf(seq, a) = <<>> THEN s.key[a]
                            ELSE Last(EntriesOf(seq, a)).key
<1> DEFINE C == AccountCreateTransaction
           keys(q) == [a \in AccountIDs |-> IF EntriesOf(q, a) = <<>> THEN s.key[a]
                                            ELSE Last(EntriesOf(q, a)).key]
           h == [q \in Seq(C) |-> AfterCreates({s}, q)]
           P == {q \in Seq(C) : \A u \in h[q] :
                    u \in State /\ \A a \in AccountIDs : u.key[a] = keys(q)[a]}
<1>1. IsRun(h, "create", {s}, C) /\ h[seq] = AfterCreates({s}, seq)
  BY Runs
<1> HIDE DEF h
<1>2. <<>> \in P
  <2>1. h[<<>>] = {s} /\ <<>> \in Seq(C)
    BY <1>1, EmptySeq DEF IsRun
  <2>2. \A a \in AccountIDs : EntriesOf(<<>>, a) = <<>>
    BY OnlyEmpty DEF EntriesOf
  <2>3. \A a \in AccountIDs : keys(<<>>)[a] = s.key[a]
    BY <2>2
  <2> QED
    BY <2>1, <2>3
<1>3. ASSUME NEW q \in P, NEW x \in C PROVE Append(q, x) \in P
  <2>1. q \in Seq(C) /\ Append(q, x) \in Seq(C)
    BY AppendProperties
  <2> SUFFICES ASSUME NEW u \in h[Append(q, x)]
               PROVE  u \in State /\ \A a \in AccountIDs : u.key[a] = keys(Append(q, x))[a]
    BY <2>1
  <2>2. PICK v \in h[q] : ValidCreate(x, v) /\ u = ApplyCreate(x, v)
    BY <1>1, <2>1 DEF IsRun, ValidAs, ApplyAs
  <2>3. v \in State /\ \A a \in AccountIDs : v.key[a] = keys(q)[a]
    BY <2>2
  <2>4. u \in State
    BY <2>2, <2>3, ApplyTyped
  <2>5. ASSUME NEW a \in AccountIDs PROVE u.key[a] = keys(Append(q, x))[a]
    <3>1. u.key[a] = IF a = x.account THEN x.key ELSE v.key[a]
      BY <2>2, <2>3 DEF ApplyCreate, State
    <3>2. /\ x.account # a => EntriesOf(Append(q, x), a) = EntriesOf(q, a)
          /\ x.account = a => /\ EntriesOf(Append(q, x), a) # <<>>
                              /\ Last(EntriesOf(Append(q, x), a)) = x
      BY <2>1, EntriesMore
    <3> QED
      BY <2>3, <3>1, <3>2
  <2> QED
    BY <2>4, <2>5
<1> HIDE DEF P
<1>4. P \in SUBSET Seq(C)
  BY DEF P
<1>5. P = Seq(C)
  BY <1>2, <1>3, <1>4, Sums!SeqSet
<1>6. t \in State /\ \A a \in AccountIDs : t.key[a] = keys(seq)[a]
  BY <1>1, <1>5 DEF P
<1> QED
  BY <1>6

(* ... some payments ...                                                   *)
LEMMA PaymentsKeys ==
    ASSUME NEW s \in State, NEW seq \in Seq(PaymentTransaction),
           NEW t \in AfterPayments({s}, seq)
    PROVE  t \in State /\ t.key = s.key
<1> DEFINE C == PaymentTransaction
           h == [q \in Seq(C) |-> AfterPayments({s}, q)]
           P == {q \in Seq(C) : \A u \in h[q] : u \in State /\ u.key = s.key}
<1>1. IsRun(h, "payment", {s}, C) /\ h[seq] = AfterPayments({s}, seq)
  BY Runs
<1> HIDE DEF h
<1>2. <<>> \in P
  BY <1>1, EmptySeq DEF IsRun
<1>3. ASSUME NEW q \in P, NEW x \in C PROVE Append(q, x) \in P
  <2>1. q \in Seq(C) /\ Append(q, x) \in Seq(C)
    BY AppendProperties
  <2> SUFFICES ASSUME NEW u \in h[Append(q, x)] PROVE u \in State /\ u.key = s.key
    BY <2>1
  <2>2. PICK v \in h[q] : ValidPayment(x, v) /\ u = ApplyPayment(x, v)
    BY <1>1, <2>1 DEF IsRun, ValidAs, ApplyAs
  <2>3. v \in State /\ v.key = s.key
    BY <2>2
  <2>4. u \in State
    BY <2>2, <2>3, ApplyTyped
  <2>5. u.key = v.key
    BY <2>2 DEF ApplyPayment
  <2> QED
    BY <2>3, <2>4, <2>5
<1> HIDE DEF P
<1>4. P \in SUBSET Seq(C)
  BY DEF P
<1>5. P = Seq(C)
  BY <1>2, <1>3, <1>4, Sums!SeqSet
<1> QED
  BY <1>1, <1>5 DEF P

(* ... and some closures.                                                  *)
LEMMA ClosesKeys ==
    ASSUME NEW s \in State, NEW seq \in Seq(AccountCloseTransaction),
           NEW t \in AfterCloses({s}, seq)
    PROVE  /\ t \in State
           /\ \A a \in AccountIDs :
                 t.key[a] = IF \E tx \in ToSet(seq) : tx.account = a THEN NoKey ELSE s.key[a]
<1> DEFINE C == AccountCloseTransaction
           keys(q) == [a \in AccountIDs |->
                          IF \E tx \in ToSet(q) : tx.account = a THEN NoKey ELSE s.key[a]]
           h == [q \in Seq(C) |-> AfterCloses({s}, q)]
           P == {q \in Seq(C) : \A u \in h[q] :
                    u \in State /\ \A a \in AccountIDs : u.key[a] = keys(q)[a]}
<1>1. IsRun(h, "close", {s}, C) /\ h[seq] = AfterCloses({s}, seq)
  BY Runs
<1> HIDE DEF h
<1>2. <<>> \in P
  <2>1. h[<<>>] = {s} /\ <<>> \in Seq(C)
    BY <1>1, EmptySeq DEF IsRun
  <2>2. ToSet(<<>>) = {}
    BY DEF ToSet
  <2>3. \A a \in AccountIDs : keys(<<>>)[a] = s.key[a]
    BY <2>2
  <2> QED
    BY <2>1, <2>3
<1>3. ASSUME NEW q \in P, NEW x \in C PROVE Append(q, x) \in P
  <2>1. q \in Seq(C) /\ Append(q, x) \in Seq(C) /\ ToSet(Append(q, x)) = ToSet(q) \cup {x}
    BY AppendProperties, ElementsAppend
  <2> SUFFICES ASSUME NEW u \in h[Append(q, x)]
               PROVE  u \in State /\ \A a \in AccountIDs : u.key[a] = keys(Append(q, x))[a]
    BY <2>1
  <2>2. PICK v \in h[q] : ValidClose(x, v) /\ u = ApplyClose(x, v)
    BY <1>1, <2>1 DEF IsRun, ValidAs, ApplyAs
  <2>3. v \in State /\ \A a \in AccountIDs : v.key[a] = keys(q)[a]
    BY <2>2
  <2>4. u \in State
    BY <2>2, <2>3, ApplyTyped
  <2>5. ASSUME NEW a \in AccountIDs PROVE u.key[a] = keys(Append(q, x))[a]
    <3>1. u.key[a] = IF a = x.account THEN NoKey ELSE v.key[a]
      BY <2>2, <2>3 DEF ApplyClose, State
    <3> QED
      BY <2>1, <2>3, <3>1
  <2> QED
    BY <2>4, <2>5
<1> HIDE DEF P
<1>4. P \in SUBSET Seq(C)
  BY DEF P
<1>5. P = Seq(C)
  BY <1>2, <1>3, <1>4, Sums!SeqSet
<1>6. t \in State /\ \A a \in AccountIDs : t.key[a] = keys(seq)[a]
  BY <1>1, <1>5 DEF P
<1> QED
  BY <1>6

(* So the keys after a block are what a start takes them to be.            *)
LEMMA BlockKeys ==
    ASSUME NEW s \in State, NEW block \in Block, NEW t \in ApplyTransactions(block, s)
    PROVE  t \in State /\ t.key = KeysAfterBlock(s.key, block)
<1>1. /\ block.creates \in Seq(AccountCreateTransaction)
      /\ block.payments \in Seq(PaymentTransaction)
      /\ block.closes \in Seq(AccountCloseTransaction)
  BY DEF Block
<1>2. PICK c \in AfterCreates({s}, block.creates) :
          \E p \in AfterPayments({c}, block.payments) :
              t \in AfterCloses({p}, block.closes)
  BY BlockSteps DEF Block
<1>3. PICK p \in AfterPayments({c}, block.payments) :
          t \in AfterCloses({p}, block.closes)
  BY <1>2
<1>4. /\ c \in State
      /\ \A a \in AccountIDs :
            c.key[a] = IF EntriesOf(block.creates, a) = <<>> THEN s.key[a]
                       ELSE Last(EntriesOf(block.creates, a)).key
  BY <1>1, CreatesKeys
<1>5. p \in State /\ p.key = c.key
  BY <1>1, <1>4, PaymentsKeys
<1>6. /\ t \in State
      /\ \A a \in AccountIDs :
            t.key[a] = IF \E tx \in ToSet(block.closes) : tx.account = a
                       THEN NoKey ELSE p.key[a]
  BY <1>1, <1>3, <1>5, ClosesKeys
<1>7. \A a : (\E tx \in ToSet(block.closes) : tx.account = a)
                <=> \E i \in DOMAIN block.closes : block.closes[i].account = a
  BY DEF ToSet
<1> DEFINE after == [a \in AccountIDs |->
              IF \E i \in DOMAIN block.closes : block.closes[i].account = a THEN NoKey
              ELSE IF EntriesOf(block.creates, a) = <<>> THEN s.key[a]
              ELSE Last(EntriesOf(block.creates, a)).key]
<1>8. KeysAfterBlock(s.key, block) = after
  BY DEF KeysAfterBlock
<1>9. ASSUME NEW a \in AccountIDs PROVE t.key[a] = after[a]
  <2>1. CASE \E tx \in ToSet(block.closes) : tx.account = a
    BY <1>6, <1>7, <2>1
  <2>2. CASE ~ \E tx \in ToSet(block.closes) : tx.account = a
    <3>1. t.key[a] = c.key[a]
      BY <1>5, <1>6, <2>2
    <3> QED
      BY <1>4, <1>7, <2>2, <3>1
  <2> QED
    BY <2>1, <2>2
<1>10. t.key \in [AccountIDs -> Keys \cup {NoKey}]
  BY <1>6 DEF State
<1> HIDE DEF after
<1>11. DOMAIN after = AccountIDs /\ after = [a \in AccountIDs |-> after[a]]
  BY DEF after
<1>12. t.key = after
  BY <1>9, <1>10, <1>11
<1> QED
  BY <1>6, <1>8, <1>12

-----------------------------------------------------------------------------
(***************************************************************************)
(* The accounts that a chain is about.                                     *)
(***************************************************************************)
Touches(block, a) ==
    \/ \E tx \in ToSet(block.creates) : tx.account = a
    \/ \E tx \in ToSet(block.closes) : tx.account = a

Touched(bs, a) == \E b \in ToSet(bs) : Touches(b, a)

(* A block gives the accounts it touches their keys, and the others none.  *)
LEMMA KeysTouched ==
    ASSUME NEW block \in Block, NEW a \in AccountIDs, NEW k1, NEW k2
    PROVE  /\ Touches(block, a) =>
                 KeysAfterBlock(k1, block)[a] = KeysAfterBlock(k2, block)[a]
           /\ ~Touches(block, a) => KeysAfterBlock(k1, block)[a] = k1[a]
<1>1. block.creates \in Seq(AccountCreateTransaction)
  BY DEF Block
<1>2. ToSet(EntriesOf(block.creates, a)) = {e \in ToSet(block.creates) : e.account = a}
  BY <1>1, EntriesAre
<1>3. /\ EntriesOf(block.creates, a) = <<>> => {e \in ToSet(block.creates) : e.account = a} = {}
      /\ EntriesOf(block.creates, a) # <<>> =>
            /\ Last(EntriesOf(block.creates, a)) \in ToSet(block.creates)
            /\ Last(EntriesOf(block.creates, a)).account = a
  <2>1. ToSet(<<>>) = {}
    BY DEF ToSet
  <2> QED
    BY <1>1, <1>2, <2>1, EntriesAre
<1>4. (\E i \in DOMAIN block.closes : block.closes[i].account = a)
         <=> \E tx \in ToSet(block.closes) : tx.account = a
  BY DEF ToSet
<1>5. \A k : KeysAfterBlock(k, block)[a] =
         IF \E i \in DOMAIN block.closes : block.closes[i].account = a THEN NoKey
         ELSE IF EntriesOf(block.creates, a) = <<>> THEN k[a]
         ELSE Last(EntriesOf(block.creates, a)).key
  BY DEF KeysAfterBlock
<1> QED
  BY <1>3, <1>4, <1>5 DEF Touches

(* A chain that is a block longer.                                         *)
LEMMA TouchedMore ==
    ASSUME NEW bs \in Seq(Block), NEW block \in Block, NEW a
    PROVE  Touched(Append(bs, block), a) <=> Touched(bs, a) \/ Touches(block, a)
<1>1. ToSet(Append(bs, block)) = ToSet(bs) \cup {block}
  BY ElementsAppend
<1> QED
  BY <1>1 DEF Touched

(* The genesis block touches nothing.                                      *)
LEMMA GenesisUntouched == \A a : ~Touched(<<>>, a) /\ ~Touched(<<EmptyBlock>>, a)
<1>1. ToSet(<<>>) = {} /\ ToSet(<<EmptyBlock>>) = {EmptyBlock}
  BY DEF ToSet
<1> QED
  BY <1>1 DEF Touched, Touches, EmptyBlock

(* A chain of keys forgets where it began, but for untouched accounts.     *)
LEMMA ChainForgets ==
    ASSUME NEW k1, NEW k2, NEW bs \in Seq(Block), NEW a \in AccountIDs
    PROVE  /\ Touched(bs, a) => FoldLeft(KeysAfterBlock, k1, bs)[a]
                                   = FoldLeft(KeysAfterBlock, k2, bs)[a]
           /\ ~Touched(bs, a) => FoldLeft(KeysAfterBlock, k1, bs)[a] = k1[a]
<1> DEFINE f == [q \in Seq(Block) |-> FoldLeft(KeysAfterBlock, k1, q)]
           g == [q \in Seq(Block) |-> FoldLeft(KeysAfterBlock, k2, q)]
           P == {q \in Seq(Block) : /\ Touched(q, a) => f[q][a] = g[q][a]
                                    /\ ~Touched(q, a) => f[q][a] = k1[a]}
<1>1. /\ f[<<>>] = k1
      /\ \A q \in Seq(Block) : \A block \in Block :
            f[Append(q, block)] = KeysAfterBlock(f[q], block)
  <2>1. /\ FoldLeft(KeysAfterBlock, k1, <<>>) = k1
        /\ \A q \in Seq(Block) : \A block \in Block :
              FoldLeft(KeysAfterBlock, k1, Append(q, block))
                  = KeysAfterBlock(FoldLeft(KeysAfterBlock, k1, q), block)
    BY KeyedMore
  <2>2. f[<<>>] = k1
    BY <2>1, EmptySeq
  <2>3. ASSUME NEW q \in Seq(Block), NEW block \in Block
        PROVE  f[Append(q, block)] = KeysAfterBlock(f[q], block)
    <3>1. Append(q, block) \in Seq(Block)
      BY AppendProperties
    <3> QED
      BY <2>1, <3>1
  <2> QED
    BY <2>2, <2>3
<1>2. \A q \in Seq(Block) : \A block \in Block :
            g[Append(q, block)] = KeysAfterBlock(g[q], block)
  <2>1. \A q \in Seq(Block) : \A block \in Block :
              FoldLeft(KeysAfterBlock, k2, Append(q, block))
                  = KeysAfterBlock(FoldLeft(KeysAfterBlock, k2, q), block)
    BY KeyedMore
  <2>2. ASSUME NEW q \in Seq(Block), NEW block \in Block
        PROVE  g[Append(q, block)] = KeysAfterBlock(g[q], block)
    <3>1. Append(q, block) \in Seq(Block)
      BY AppendProperties
    <3> QED
      BY <2>1, <3>1
  <2> QED
    BY <2>2
<1>3. f[bs] = FoldLeft(KeysAfterBlock, k1, bs) /\ g[bs] = FoldLeft(KeysAfterBlock, k2, bs)
  OBVIOUS
<1> HIDE DEF f, g
<1>4. <<>> \in P
  BY <1>1, EmptySeq, GenesisUntouched
<1>5. ASSUME NEW q \in P, NEW block \in Block PROVE Append(q, block) \in P
  <2>1. q \in Seq(Block) /\ Append(q, block) \in Seq(Block)
    BY AppendProperties
  <2>2. f[Append(q, block)] = KeysAfterBlock(f[q], block)
    BY <1>1, <2>1
  <2>3. g[Append(q, block)] = KeysAfterBlock(g[q], block)
    BY <1>2, <2>1
  <2>4. /\ Touches(block, a) => f[Append(q, block)][a] = g[Append(q, block)][a]
        /\ ~Touches(block, a) => f[Append(q, block)][a] = f[q][a]
    BY <2>2, <2>3, KeysTouched
  <2>5. ~Touches(block, a) => g[Append(q, block)][a] = g[q][a]
    BY <2>3, KeysTouched
  <2>6. Touched(Append(q, block), a) <=> Touched(q, a) \/ Touches(block, a)
    BY <2>1, TouchedMore
  <2> QED
    BY <2>1, <2>4, <2>5, <2>6
<1> HIDE DEF P
<1>6. P \in SUBSET Seq(Block)
  BY DEF P
<1>7. P = Seq(Block)
  BY <1>4, <1>5, <1>6, Sums!SeqSet
<1> QED
  BY <1>3, <1>7 DEF P

-----------------------------------------------------------------------------
(* An account that a block does not touch is still there after it; one     *)
(* that is not there, and that nobody pays, is not there after it either.  *)
LEMMA UntouchedStays ==
    ASSUME NEW s \in State, NEW block \in Block, NEW a \in AccountIDs, ~Touches(block, a),
           NEW t \in ApplyTransactions(block, s)
    PROVE  /\ Exists(s, a) => Exists(t, a)
           /\ a \notin AllowedTaxAccounts
              /\ (\A tx \in ToSet(block.payments) : tx.payee # a)
              /\ ~Exists(s, a) => ~Exists(t, a)
<1> DEFINE C == {tx \in AccountCreateTransaction : tx.account # a}
           E == {tx \in AccountCloseTransaction : tx.account # a}
           Q == {tx \in PaymentTransaction : tx.payee # a}
<1>1. block.creates \in Seq(C) /\ block.closes \in Seq(E)
  <2>1. ToSet(block.creates) \subseteq C /\ ToSet(block.closes) \subseteq E
    BY OwnElements DEF Block, Touches
  <2>2. block.creates \in Seq(C)
    BY <2>1, SeqWithin DEF Block
  <2>3. block.closes \in Seq(E)
    BY <2>1, SeqWithin DEF Block
  <2> QED
    BY <2>2, <2>3
<1>2. block.payments \in Seq(PaymentTransaction)
  BY DEF Block
<1>3. (\A tx \in ToSet(block.payments) : tx.payee # a) => block.payments \in Seq(Q)
  <2> SUFFICES ASSUME \A tx \in ToSet(block.payments) : tx.payee # a
               PROVE  block.payments \in Seq(Q)
    OBVIOUS
  <2>1. ToSet(block.payments) \subseteq Q
    BY <1>2, OwnElements
  <2> QED
    BY <1>2, <2>1, SeqWithin
<1>4. ASSUME Exists(s, a) PROVE Exists(t, a)
  <2> DEFINE I == {u \in State : Exists(u, a)}
  <2>1. ClosedUnder(I, "create", C)
    <3> SUFFICES ASSUME NEW x \in C, NEW u \in I, ValidCreate(x, u)
                 PROVE  ApplyCreate(x, u) \in I
      BY DEF ClosedUnder, ValidAs, ApplyAs
    <3>1. ApplyCreate(x, u) \in State
      BY ApplyTyped
    <3>2. ApplyCreate(x, u).type[a] = u.type[a]
      BY DEF ApplyCreate, State
    <3> QED
      BY <3>1, <3>2 DEF Exists
  <2>2. ClosedUnder(I, "payment", PaymentTransaction)
    <3> SUFFICES ASSUME NEW x \in PaymentTransaction, NEW u \in I, ValidPayment(x, u)
                 PROVE  ApplyPayment(x, u) \in I
      BY DEF ClosedUnder, ValidAs, ApplyAs
    <3>1. ApplyPayment(x, u) \in State
      BY ApplyTyped
    <3>2. ApplyPayment(x, u).type[a] = u.type[a]
      BY DEF ApplyPayment, Exists
    <3> QED
      BY <3>1, <3>2 DEF Exists
  <2>3. ClosedUnder(I, "close", E)
    <3> SUFFICES ASSUME NEW x \in E, NEW u \in I, ValidClose(x, u)
                 PROVE  ApplyClose(x, u) \in I
      BY DEF ClosedUnder, ValidAs, ApplyAs
    <3>1. ApplyClose(x, u) \in State
      BY ApplyTyped
    <3>2. ApplyClose(x, u).type[a] = u.type[a]
      BY DEF ApplyClose, State
    <3> QED
      BY <3>1, <3>2 DEF Exists
  <2>4. s \in I
    BY <1>4
  <2> HIDE DEF I, C, E
  <2>5. ApplyTransactions(block, s) \subseteq I
    BY <1>1, <1>2, <2>1, <2>2, <2>3, <2>4, BlockWithin
  <2> QED
    BY <2>5 DEF I
<1>5. ASSUME a \notin AllowedTaxAccounts,
             \A tx \in ToSet(block.payments) : tx.payee # a, ~Exists(s, a)
      PROVE  ~Exists(t, a)
  <2> DEFINE I == {u \in State : ~Exists(u, a)}
  <2>1. ClosedUnder(I, "create", C)
    <3> SUFFICES ASSUME NEW x \in C, NEW u \in I, ValidCreate(x, u)
                 PROVE  ApplyCreate(x, u) \in I
      BY DEF ClosedUnder, ValidAs, ApplyAs
    <3>1. ApplyCreate(x, u) \in State
      BY ApplyTyped
    <3>2. ApplyCreate(x, u).type[a] = u.type[a]
      BY DEF ApplyCreate, State
    <3> QED
      BY <3>1, <3>2 DEF Exists
  <2>2. ClosedUnder(I, "payment", Q)
    <3> SUFFICES ASSUME NEW x \in Q, NEW u \in I, ValidPayment(x, u)
                 PROVE  ApplyPayment(x, u) \in I
      BY DEF ClosedUnder, ValidAs, ApplyAs
    <3>1. ApplyPayment(x, u) \in State
      BY ApplyTyped
    <3>2. a \notin {x.payee} \cup WrittenTaxAccounts(x.items)
      BY <1>5, WrittenAllowed DEF ValidPayment
    <3>3. ApplyPayment(x, u).type[a] = u.type[a]
      BY <3>2 DEF ApplyPayment
    <3> QED
      BY <3>1, <3>3 DEF Exists
  <2>3. ClosedUnder(I, "close", E)
    <3> SUFFICES ASSUME NEW x \in E, NEW u \in I, ValidClose(x, u)
                 PROVE  ApplyClose(x, u) \in I
      BY DEF ClosedUnder, ValidAs, ApplyAs
    <3>1. ApplyClose(x, u) \in State
      BY ApplyTyped
    <3>2. ApplyClose(x, u).type[a] = u.type[a]
      BY DEF ApplyClose, State
    <3> QED
      BY <3>1, <3>2 DEF Exists
  <2>4. s \in I /\ block.payments \in Seq(Q)
    BY <1>3, <1>5
  <2> HIDE DEF I, C, E, Q
  <2>5. ApplyTransactions(block, s) \subseteq I
    BY <1>1, <2>1, <2>2, <2>3, <2>4, BlockWithin
  <2> QED
    BY <2>5 DEF I
<1> QED
  BY <1>4, <1>5

-----------------------------------------------------------------------------
(***************************************************************************)
(* The keystore.                                                           *)
(***************************************************************************)
(* The last entry of an account is the one that counts.                    *)
LEMMA HydratedMore ==
    ASSUME NEW ks \in Seq(KeystoreEntry), NEW x \in KeystoreEntry, NEW a \in AccountIDs
    PROVE  /\ HydratedKeys(<<>>)[a] = NoKey
           /\ HydratedKeys(Append(ks, x))[a] = IF x.account = a THEN x.key
                                               ELSE HydratedKeys(ks)[a]
<1>1. /\ EntriesOf(<<>>, a) = <<>>
      /\ x.account # a => EntriesOf(Append(ks, x), a) = EntriesOf(ks, a)
      /\ x.account = a => /\ EntriesOf(Append(ks, x), a) # <<>>
                          /\ Last(EntriesOf(Append(ks, x), a)) = x
  BY EntriesMore
<1>2. \A q : HydratedKeys(q)[a] = IF EntriesOf(q, a) = <<>> THEN NoKey
                                  ELSE Last(EntriesOf(q, a)).key
  BY DEF HydratedKeys
<1> QED
  BY <1>1, <1>2

(* An account that is removed has no key, and nobody else loses one.       *)
LEMMA HydratedLess ==
    ASSUME NEW ks \in Seq(KeystoreEntry), NEW b, NEW a \in AccountIDs
    PROVE  /\ RemoveEntry(ks, b) \in Seq(KeystoreEntry)
           /\ HydratedKeys(RemoveEntry(ks, b))[a] = IF a = b THEN NoKey
                                                    ELSE HydratedKeys(ks)[a]
<1> DEFINE T == KeystoreEntry
           P == {q \in Seq(T) : HydratedKeys(RemoveEntry(q, b))[a]
                                   = IF a = b THEN NoKey ELSE HydratedKeys(q)[a]}
<1>1. \A q \in Seq(T) : RemoveEntry(q, b) \in Seq(T)
  BY OnlyElements DEF RemoveEntry
<1>2. ASSUME NEW q \in Seq(T), NEW x \in T
      PROVE  RemoveEntry(Append(q, x), b) = IF x.account = b THEN RemoveEntry(q, b)
                                            ELSE Append(RemoveEntry(q, b), x)
  <2> DEFINE S == {e \in ToSet(q) : e.account # b}
             R == {e \in ToSet(Append(q, x)) : e.account # b}
  <2>1. ToSet(Append(q, x)) = ToSet(q) \cup {x}
    BY ElementsAppend
  <2>2. \A e \in ToSet(q) : e \in S <=> e \in R
    BY <2>1
  <2>3. x \in R <=> x.account # b
    BY <2>1
  <2>4. RemoveEntry(q, b) = Only(q, S) /\ RemoveEntry(Append(q, x), b) = Only(Append(q, x), R)
    BY DEF RemoveEntry
  <2> HIDE DEF S, R
  <2>5. Only(q, S) = Only(q, R)
    BY <2>2, OnlySame
  <2>6. Only(Append(q, x), R) = IF x \in R THEN Append(Only(q, R), x) ELSE Only(q, R)
    BY OnlyAppend
  <2> QED
    BY <2>3, <2>4, <2>5, <2>6
<1>3. <<>> \in P
  <2>1. RemoveEntry(<<>>, b) = <<>>
    BY OnlyEmpty DEF RemoveEntry
  <2>2. HydratedKeys(<<>>)[a] = NoKey
    BY OnlyEmpty DEF HydratedKeys, EntriesOf
  <2> QED
    BY <2>1, <2>2, EmptySeq
<1>4. ASSUME NEW q \in P, NEW x \in T PROVE Append(q, x) \in P
  <2>1. q \in Seq(T) /\ Append(q, x) \in Seq(T) /\ RemoveEntry(q, b) \in Seq(T)
    BY <1>1, AppendProperties
  <2>2. HydratedKeys(Append(q, x))[a] = IF x.account = a THEN x.key ELSE HydratedKeys(q)[a]
    BY <2>1, HydratedMore
  <2>3. HydratedKeys(Append(RemoveEntry(q, b), x))[a]
           = IF x.account = a THEN x.key ELSE HydratedKeys(RemoveEntry(q, b))[a]
    BY <2>1, HydratedMore
  <2>4. HydratedKeys(RemoveEntry(q, b))[a] = IF a = b THEN NoKey ELSE HydratedKeys(q)[a]
    OBVIOUS
  <2>5. RemoveEntry(Append(q, x), b) = IF x.account = b THEN RemoveEntry(q, b)
                                       ELSE Append(RemoveEntry(q, b), x)
    BY <1>2, <2>1
  <2>6. HydratedKeys(RemoveEntry(Append(q, x), b))[a]
           = IF a = b THEN NoKey ELSE HydratedKeys(Append(q, x))[a]
    <3>1. CASE x.account = b
      BY <2>2, <2>4, <2>5, <3>1
    <3>2. CASE x.account # b
      BY <2>2, <2>3, <2>4, <2>5, <3>2
    <3> QED
      BY <3>1, <3>2
  <2> QED
    BY <2>1, <2>6
<1> HIDE DEF P
<1>5. P \in SUBSET Seq(T)
  BY DEF P
<1>6. P = Seq(T)
  BY <1>3, <1>4, <1>5, Sums!SeqSet
<1> QED
  BY <1>1, <1>6 DEF P

-----------------------------------------------------------------------------
(***************************************************************************)
(* Replaying a chain.                                                      *)
(***************************************************************************)
Advance(states, block) == UNION {ApplyTransactions(block, t) : t \in states}

Replaying == INSTANCE Folding WITH Op <- LAMBDA p, states, block : Advance(states, block)

(* A chain that is a block longer leads further by that block.             *)
LEMMA ReplayMore ==
    ASSUME NEW s
    PROVE  /\ Replay(<<>>, s) = {s}
           /\ \A bs \in Seq(Block) : \A block \in Block :
                 Replay(Append(bs, block), s) = Advance(Replay(bs, s), block)
<1>1. \A bs : Replay(bs, s) = Replaying!FoldOf(0, {s}, bs)
  BY DEF Replay, Advance, Replaying!FoldOf, FoldLeft, MapThenFoldSet,
         Replaying!MapThenFoldSet, Max, Replaying!Max
<1>2. Replaying!FoldOf(0, {s}, <<>>) = {s}
  BY Replaying!FoldEmpty
<1>3. ASSUME NEW bs \in Seq(Block), NEW block \in Block
      PROVE  Replaying!FoldOf(0, {s}, Append(bs, block))
                = Advance(Replaying!FoldOf(0, {s}, bs), block)
  BY Replaying!FoldAppend
<1> QED
  BY Zenon, <1>1, <1>2, <1>3

(* A chain that leads to a state leads from one with more keys to one with *)
(* more keys.                                                              *)
LEMMA ReplayFollows ==
    ASSUME NEW s, NEW t, Follows(t, s, {}), NEW bs \in Seq(Block), NEW u \in Replay(bs, s)
    PROVE  \E v : Replay(bs, t) = {v} /\ Follows(v, u, {})
<1> DEFINE g == [q \in Seq(Block) |-> Replay(q, s)]
           h == [q \in Seq(Block) |-> Replay(q, t)]
           P == {q \in Seq(Block) : \A x \in g[q] : \E v : h[q] = {v} /\ Follows(v, x, {})}
<1>1. /\ g[<<>>] = {s} /\ h[<<>>] = {t}
      /\ g[bs] = Replay(bs, s) /\ h[bs] = Replay(bs, t)
  <2>1. Replay(<<>>, s) = {s} /\ Replay(<<>>, t) = {t}
    BY ReplayMore
  <2> QED
    BY <2>1, EmptySeq
<1>2. ASSUME NEW q \in Seq(Block), NEW block \in Block
      PROVE  /\ g[Append(q, block)] = Advance(g[q], block)
             /\ h[Append(q, block)] = Advance(h[q], block)
  <2>1. Append(q, block) \in Seq(Block)
    BY AppendProperties
  <2>2. Replay(Append(q, block), s) = Advance(Replay(q, s), block)
    BY ReplayMore
  <2>3. Replay(Append(q, block), t) = Advance(Replay(q, t), block)
    BY ReplayMore
  <2>4. /\ g[Append(q, block)] = Replay(Append(q, block), s) /\ g[q] = Replay(q, s)
        /\ h[Append(q, block)] = Replay(Append(q, block), t) /\ h[q] = Replay(q, t)
    BY <2>1
  <2> HIDE DEF g, h
  <2> QED
    BY <2>2, <2>3, <2>4
<1> HIDE DEF g, h
<1>3. <<>> \in P
  BY <1>1, EmptySeq
<1>4. ASSUME NEW q \in P, NEW block \in Block PROVE Append(q, block) \in P
  <2>1. q \in Seq(Block) /\ Append(q, block) \in Seq(Block)
    BY AppendProperties
  <2> SUFFICES ASSUME NEW x \in g[Append(q, block)]
               PROVE  \E v : h[Append(q, block)] = {v} /\ Follows(v, x, {})
    BY <2>1
  <2>2. PICK y \in g[q] : x \in ApplyTransactions(block, y)
    BY <1>2, <2>1 DEF Advance
  <2>3. PICK w : h[q] = {w} /\ Follows(w, y, {})
    BY <2>2
  <2>4. Spares(block, {})
    BY DEF Spares
  <2>5. Leads(block, w, x, {})
    BY <2>2, <2>3, <2>4, BlockFollows
  <2>6. PICK v : ApplyTransactions(block, w) = {v} /\ Follows(v, x, {})
    BY <2>5 DEF Leads
  <2> HIDE DEF P
  <2>7. h[Append(q, block)] = Advance({w}, block)
    BY <1>2, <2>1, <2>3
  <2>8. Advance({w}, block) = ApplyTransactions(block, w)
    BY DEF Advance
  <2> QED
    BY <2>6, <2>7, <2>8
<1> HIDE DEF P
<1>5. P \in SUBSET Seq(Block)
  BY DEF P
<1>6. P = Seq(Block)
  BY <1>3, <1>4, <1>5, Sums!SeqSet
<1> QED
  BY <1>1, <1>6 DEF P

(* What follows the genesis block, when a block is added.                  *)
LEMMA TailMore ==
    ASSUME NEW bs \in Seq(Block), bs # <<>>, NEW block \in Block
    PROVE  /\ Tail(bs) \in Seq(Block)
           /\ Tail(Append(bs, block)) = Append(Tail(bs), block)
           /\ Append(bs, block) \in Seq(Block) /\ Append(bs, block) # <<>>
           /\ Tail(<<block>>) = <<>>
<1>1. Tail(bs) \in Seq(Block)
  BY HeadTailProperties
<1>2. Tail(Append(bs, block)) = Append(Tail(bs), block)
  BY HeadTailAppend
<1>3. Append(bs, block) \in Seq(Block) /\ Append(bs, block) # <<>>
  BY AppendProperties
<1>4. Tail(<<block>>) = <<>>
  OBVIOUS
<1> QED
  BY <1>1, <1>2, <1>3, <1>4

-----------------------------------------------------------------------------
(***************************************************************************)
(* The ledger and what its chain leads to. Their keys may differ for an    *)
(* account that no block touches: the keystore lost the key of a genesis   *)
(* account, or kept one of a creation that no block has. The account of    *)
(* such a key does not exist and nobody can pay it, so that a block valid  *)
(* in the ledger is valid after the chain too.                             *)
(***************************************************************************)
Known(bs, a) == Exists(Genesis, a) \/ Touched(bs, a)

Unborn(bs) == {a \in AccountIDs : ~Known(bs, a)}

(* The blocks lead from the genesis to s.                                  *)
Chained(bs, s) ==
    /\ s \in State /\ bs # <<>>
    /\ Replay(Tail(bs), Genesis) = {s}
    /\ s.key = FoldLeft(KeysAfterBlock, Genesis.key, bs)
    /\ \A a \in AccountIDs : ~Touched(bs, a) => (Exists(s, a) <=> Exists(Genesis, a))

KeyMirrors(l, s, bs, a) ==
    \/ l.key[a] = s.key[a]
    \/ ~Touched(bs, a) /\ (l.key[a] = NoKey \/ ~Exists(Genesis, a))

(* The ledger l is s, but for some keys.                                   *)
Mirrors(l, s, bs) ==
    /\ l \in State /\ Persisted(l) = Persisted(s)
    /\ \A a \in AccountIDs : KeyMirrors(l, s, bs, a)

(* What no block but the genesis block leads to.                           *)
LEMMA GenesisChained ==
    Chained(<<EmptyBlock>>, Genesis) /\ EmptyBlock \in Block /\ Genesis \in State
<1>1. EmptyBlock \in Block /\ <<EmptyBlock>> \in Seq(Block) /\ Genesis \in State
  <2>1. <<>> \in Seq(AccountCreateTransaction) /\ <<>> \in Seq(PaymentTransaction)
        /\ <<>> \in Seq(AccountCloseTransaction)
    BY EmptySeq
  <2>2. EmptyBlock \in Block
    BY <2>1 DEF EmptyBlock, Block
  <2> QED
    BY <2>2, NodeAssumption
<1>2. Replay(Tail(<<EmptyBlock>>), Genesis) = {Genesis}
  <2>1. Tail(<<EmptyBlock>>) = <<>>
    OBVIOUS
  <2> QED
    BY <2>1, ReplayMore
<1>3. Genesis.key = FoldLeft(KeysAfterBlock, Genesis.key, <<EmptyBlock>>)
  <2> DEFINE k == FoldLeft(KeysAfterBlock, Genesis.key, <<EmptyBlock>>)
  <2>1. Genesis.key \in [AccountIDs -> Keys \cup {NoKey}]
    BY <1>1 DEF State
  <2>2. k \in [AccountIDs -> Keys \cup {NoKey}]
    BY <1>1, <2>1, ChainKeys
  <2>3. \A a \in AccountIDs : k[a] = Genesis.key[a]
    <3> SUFFICES ASSUME NEW a \in AccountIDs PROVE k[a] = Genesis.key[a]
      OBVIOUS
    <3>1. ~Touched(<<EmptyBlock>>, a)
      BY GenesisUntouched
    <3>2. \A bs \in Seq(Block) : ~Touched(bs, a) =>
             FoldLeft(KeysAfterBlock, Genesis.key, bs)[a] = Genesis.key[a]
      BY ChainForgets
    <3> QED
      BY <1>1, <3>1, <3>2
  <2> HIDE DEF k
  <2>4. Genesis.key = k
    BY <2>1, <2>2, <2>3
  <2> QED
    BY <2>4 DEF k
<1>4. \A a \in AccountIDs : ~Touched(<<EmptyBlock>>, a)
  BY GenesisUntouched
<1> QED
  BY <1>1, <1>2, <1>3 DEF Chained

(* What l mirrors follows it.                                              *)
LEMMA MirrorFollows ==
    ASSUME NEW bs, NEW s, Chained(bs, s), NEW l, Mirrors(l, s, bs)
    PROVE  /\ Follows(s, l, Unborn(bs)) /\ l.type = s.type /\ l.balance = s.balance
           /\ \A a \in AccountIDs : Exists(l, a) => Known(bs, a)
<1>1. s \in State /\ l \in State /\ l.type = s.type /\ l.balance = s.balance
  BY DEF Chained, Mirrors, Persisted
<1>2. \A a \in AccountIDs : Exists(l, a) <=> Exists(s, a)
  BY <1>1 DEF Exists
<1>3. ASSUME NEW a \in AccountIDs
      PROVE  \/ l.key[a] # NoKey => s.key[a] = l.key[a]
             \/ a \in Unborn(bs) /\ ~Exists(l, a)
  BY <1>2 DEF Mirrors, KeyMirrors, Chained, Unborn, Known
<1>4. Follows(s, l, Unborn(bs))
  BY <1>1, <1>3 DEF Follows
<1>5. \A a \in AccountIDs : Exists(l, a) => Known(bs, a)
  BY <1>2 DEF Chained, Known
<1> QED
  BY <1>1, <1>4, <1>5

(* A block that the ledger executes continues the chain.                   *)
LEMMA ChainedMore ==
    ASSUME NEW bs \in Seq(Block), NEW s, Chained(bs, s), NEW l, Mirrors(l, s, bs),
           NEW block \in Block, \A tx \in ToSet(block.payments) : Known(bs, tx.payee),
           NEW u \in ApplyTransactions(block, l)
    PROVE  \E v : Chained(Append(bs, block), v) /\ Mirrors(u, v, Append(bs, block))
<1> DEFINE more == Append(bs, block)
           X == Unborn(bs)
<1>1. s \in State /\ l \in State /\ bs # <<>>
  BY DEF Chained, Mirrors
<1>2. Follows(s, l, X)
  BY MirrorFollows
<1>3. Spares(block, X)
  <2>1. AllowedTaxAccounts \cap X = {}
    BY GenesisAssumption DEF Unborn, Known
  <2>2. \A tx \in ToSet(block.payments) : tx.payee \notin X
    BY DEF Unborn
  <2> QED
    BY <2>1, <2>2 DEF Spares
<1>4. Leads(block, s, u, X)
  BY <1>2, <1>3, BlockFollows
<1>5. PICK v : ApplyTransactions(block, s) = {v} /\ Follows(v, u, X)
  BY <1>4 DEF Leads
<1>6. v \in State /\ u \in State /\ v.type = u.type /\ v.balance = u.balance
  BY <1>5 DEF Follows
<1>7. v.key = KeysAfterBlock(s.key, block) /\ u.key = KeysAfterBlock(l.key, block)
  <2>1. v \in ApplyTransactions(block, s)
    BY <1>5
  <2>2. v.key = KeysAfterBlock(s.key, block)
    BY <1>1, <2>1, BlockKeys
  <2>3. u.key = KeysAfterBlock(l.key, block)
    BY <1>1, BlockKeys
  <2> QED
    BY <2>2, <2>3
<1>8. \A a : Touched(more, a) <=> Touched(bs, a) \/ Touches(block, a)
  BY TouchedMore
<1>9. Chained(more, v)
  <2>1. more # <<>> /\ Tail(bs) \in Seq(Block) /\ Tail(more) = Append(Tail(bs), block)
    BY <1>1, TailMore
  <2>2. Replay(Tail(bs), Genesis) = {s}
    BY DEF Chained
  <2>3. Replay(Tail(more), Genesis) = {v}
    <3>1. Replay(Append(Tail(bs), block), Genesis) = Advance(Replay(Tail(bs), Genesis), block)
      BY <2>1, ReplayMore
    <3>2. Advance({s}, block) = ApplyTransactions(block, s)
      BY DEF Advance
    <3> HIDE DEF more
    <3> QED
      BY <1>5, <2>1, <2>2, <3>1, <3>2
  <2>4. v.key = FoldLeft(KeysAfterBlock, Genesis.key, more)
    <3>1. FoldLeft(KeysAfterBlock, Genesis.key, more)
             = KeysAfterBlock(FoldLeft(KeysAfterBlock, Genesis.key, bs), block)
      BY KeyedMore
    <3>2. s.key = FoldLeft(KeysAfterBlock, Genesis.key, bs)
      BY DEF Chained
    <3> HIDE DEF more
    <3> QED
      BY <1>7, <3>1, <3>2
  <2>5. ASSUME NEW a \in AccountIDs, ~Touched(more, a)
        PROVE  Exists(v, a) <=> Exists(Genesis, a)
    <3>1. ~Touched(bs, a) /\ ~Touches(block, a)
      BY <1>8, <2>5
    <3>2. Exists(s, a) <=> Exists(Genesis, a)
      BY <3>1 DEF Chained
    <3>3. /\ Exists(s, a) => Exists(v, a)
          /\ a \notin AllowedTaxAccounts
             /\ (\A tx \in ToSet(block.payments) : tx.payee # a)
             /\ ~Exists(s, a) => ~Exists(v, a)
      <4>1. v \in ApplyTransactions(block, s)
        BY <1>5
      <4> QED
        BY <1>1, <3>1, <4>1, UntouchedStays
    <3>4. ~Exists(Genesis, a) => a \in X
      BY <3>1 DEF Unborn, Known
    <3>5. a \in X => /\ a \notin AllowedTaxAccounts
                     /\ \A tx \in ToSet(block.payments) : tx.payee # a
      BY <1>3 DEF Spares
    <3> QED
      BY <3>2, <3>3, <3>4, <3>5
  <2> QED
    BY <1>6, <2>1, <2>3, <2>4, <2>5 DEF Chained
<1>10. Mirrors(u, v, more)
  <2>1. Persisted(u) = Persisted(v)
    BY <1>6 DEF Persisted
  <2>2. ASSUME NEW a \in AccountIDs PROVE KeyMirrors(u, v, more, a)
    <3>1. CASE Touches(block, a)
      <4>1. KeysAfterBlock(l.key, block)[a] = KeysAfterBlock(s.key, block)[a]
        BY <3>1, KeysTouched
      <4> QED
        BY <1>7, <4>1 DEF KeyMirrors
    <3>2. CASE ~Touches(block, a)
      <4>1. KeysAfterBlock(l.key, block)[a] = l.key[a]
        BY <3>2, KeysTouched
      <4>2. KeysAfterBlock(s.key, block)[a] = s.key[a]
        BY <3>2, KeysTouched
      <4>3. KeyMirrors(l, s, bs, a)
        BY DEF Mirrors
      <4> HIDE DEF more
      <4> QED
        BY <1>7, <1>8, <3>2, <4>1, <4>2, <4>3 DEF KeyMirrors
    <3> QED
      BY <3>1, <3>2
  <2> QED
    BY <1>6, <2>1, <2>2 DEF Mirrors
<1> QED
  BY <1>9, <1>10

-----------------------------------------------------------------------------
(***************************************************************************)
(* What the database and the memory have is what the chain leads to.       *)
(***************************************************************************)
Replayed ==
    \E s : /\ Chained(disk.blocks, s)
           /\ disk.saved \in {{}, {Persisted(s)}}
           /\ disk.saved = {} => disk.blocks = <<EmptyBlock>>
           /\ Up => blocks = disk.blocks /\ Mirrors(ledger, s, disk.blocks)

ReplayOK ==
    /\ disk.blocks = <<>> => disk.saved = {}
    /\ status = "genesis" => disk.blocks = <<EmptyBlock>>
    /\ disk.blocks # <<>> => Replayed

(* Nobody is paid who has no account and of whom no block tells.           *)
PayeesOK ==
    /\ \A p \in ToSet(pool.order) : Known(disk.blocks, p.payee)
    /\ \A c \in calls : c.step = "admit" => Known(disk.blocks, c.tx.payee)

(* The key of an account of the genesis.                                   *)
KeyKept(a) ==
    /\ HydratedKeys(keystore)[a] \in {NoKey, Genesis.key[a]}
    /\ disk.keystore # Torn => HydratedKeys(disk.keystore)[a] \in {NoKey, Genesis.key[a]}
    /\ \A c \in calls : c.step \in {"queue create", "save key"} => c.tx.account # a
    /\ \A tx \in ToSet(createPool) : tx.account # a

(* As long as no block touches an account of the genesis, the keystore may *)
(* have lost its key but has no other for it, nor will a creation.         *)
KeystoreOK ==
    \A a \in AccountIDs : Exists(Genesis, a) /\ ~Touched(disk.blocks, a) => KeyKept(a)

(* The genesis has the keys of the first keystore.                         *)
LEMMA GenesisHydrated ==
    /\ HydratedKeys(GenesisKeystore) = Genesis.key
    /\ BuildInitialState(GenesisKeystore) = Genesis
    /\ \A ks : Persisted(BuildInitialState(ks)) = Persisted(Genesis)
<1>1. BuildInitialState(GenesisKeystore) = Genesis
  BY GenesisAssumption
<1>2. BuildInitialState(GenesisKeystore).key = HydratedKeys(GenesisKeystore)
  BY DEF BuildInitialState
<1>3. \A ks : Persisted(BuildInitialState(ks)) = Persisted(Genesis)
  BY DEF Persisted, BuildInitialState
<1> QED
  BY <1>1, <1>2, <1>3

(* A node that has not started is as the operator left it.                 *)
LEMMA InitReplay == Init => ReplayOK /\ PayeesOK /\ KeystoreOK
<1> SUFFICES ASSUME Init PROVE ReplayOK /\ PayeesOK /\ KeystoreOK
  OBVIOUS
<1>1. ReplayOK
  BY DEF Init, ReplayOK
<1>2. PayeesOK
  <2>1. ToSet(pool.order) = {} /\ calls = {}
    BY NothingPending DEF Init
  <2> QED
    BY <2>1 DEF PayeesOK
<1>3. KeystoreOK
  <2>1. ToSet(createPool) = {} /\ calls = {}
    BY NothingPending DEF Init
  <2>2. HydratedKeys(disk.keystore) = Genesis.key
    BY GenesisHydrated DEF Init
  <2>3. \A a \in AccountIDs : HydratedKeys(<<>>)[a] = NoKey
    BY OnlyEmpty DEF HydratedKeys, EntriesOf
  <2>4. keystore = <<>>
    BY DEF Init
  <2> QED
    BY <2>1, <2>2, <2>3, <2>4 DEF KeystoreOK, KeyKept
<1> QED
  BY <1>1, <1>2, <1>3

(* Steps that leave the database alone, and the memory or all of it gone.  *)
LEMMA ReplayKept ==
    ASSUME ReplayOK, disk'.blocks = disk.blocks, disk'.saved = disk.saved,
           \/ UNCHANGED <<status, ledger, blocks>>
           \/ status' \in {"down", "failed"}
    PROVE  ReplayOK'
<1>1. Up' => Up /\ UNCHANGED <<ledger, blocks>>
  BY DEF Up
<1>2. status' = "genesis" => status = "genesis"
  OBVIOUS
<1>3. ASSUME disk'.blocks # <<>> PROVE Replayed'
  <2>1. PICK s : /\ Chained(disk.blocks, s)
                 /\ disk.saved \in {{}, {Persisted(s)}}
                 /\ disk.saved = {} => disk.blocks = <<EmptyBlock>>
                 /\ Up => blocks = disk.blocks /\ Mirrors(ledger, s, disk.blocks)
    BY <1>3 DEF ReplayOK, Replayed
  <2>2. Up' => blocks' = disk'.blocks /\ Mirrors(ledger', s, disk'.blocks)
    BY <1>1, <2>1
  <2>3. Chained(disk'.blocks, s)
    BY <2>1
  <2> QED
    BY <2>1, <2>2, <2>3 DEF Replayed
<1> QED
  BY <1>2, <1>3 DEF ReplayOK

(* What a start loads is what the chain leads to.                          *)
LEMMA LoadedMirrors ==
    ASSUME DataOK, KeystoreOK, disk.keystore # Torn,
           NEW s, Chained(disk.blocks, s), disk.saved \in {{}, {Persisted(s)}},
           disk.saved = {} => disk.blocks = <<EmptyBlock>>
    PROVE  Mirrors(LoadedState(disk, disk.keystore), s, disk.blocks)
<1> DEFINE ks == disk.keystore
           l == LoadedState(disk, ks)
           s0 == BuildInitialState(ks)
           d == CHOOSE t \in disk.saved \cup {Persisted(s0)} :
                   disk.saved # {} => t \in disk.saved
           keys == FoldLeft(KeysAfterBlock, HydratedKeys(ks), disk.blocks)
           chain == FoldLeft(KeysAfterBlock, Genesis.key, disk.blocks)
<1>1. ks \in Seq(KeystoreEntry) /\ disk.blocks \in Seq(Block) /\ disk.saved \subseteq Balances
  BY DEF DataOK, DiskTyped
<1>2. l \in State
  BY <1>1, LoadedTyped
<1>3. l.type = d.type /\ l.balance = d.balance /\ l.key = keys
  BY DEF LoadedState
<1>4. d = Persisted(s)
  <2>1. \E t \in disk.saved \cup {Persisted(s0)} : disk.saved # {} => t \in disk.saved
    OBVIOUS
  <2>2. d \in disk.saved \cup {Persisted(s0)} /\ (disk.saved # {} => d \in disk.saved)
    BY <2>1
  <2>3. disk.saved = {} => s = Genesis
    BY GenesisChained DEF Chained
  <2>4. Persisted(s0) = Persisted(Genesis)
    BY GenesisHydrated
  <2> HIDE DEF d, s0
  <2> QED
    BY <2>2, <2>3, <2>4
<1> HIDE DEF l, d, s0
<1>5. Persisted(l) = Persisted(s)
  BY <1>3, <1>4 DEF Persisted
<1>6. s.key = chain
  BY DEF Chained
<1>7. ASSUME NEW a \in AccountIDs
      PROVE  KeyMirrors(l, s, disk.blocks, a)
  <2>1. Touched(disk.blocks, a) => keys[a] = chain[a]
    <3>1. \A bs \in Seq(Block) : \A k1, k2 : Touched(bs, a) =>
             FoldLeft(KeysAfterBlock, k1, bs)[a] = FoldLeft(KeysAfterBlock, k2, bs)[a]
      BY ChainForgets
    <3> QED
      BY <1>1, <3>1
  <2>2. ~Touched(disk.blocks, a) => keys[a] = HydratedKeys(ks)[a]
    BY Zenon, <1>1, ChainForgets
  <2>3. ~Touched(disk.blocks, a) => chain[a] = Genesis.key[a]
    <3>1. \A bs \in Seq(Block) : ~Touched(bs, a) =>
             FoldLeft(KeysAfterBlock, Genesis.key, bs)[a] = Genesis.key[a]
      BY ChainForgets
    <3> QED
      BY <1>1, <3>1
  <2>4. Exists(Genesis, a) /\ ~Touched(disk.blocks, a)
           => HydratedKeys(ks)[a] \in {NoKey, Genesis.key[a]}
    BY DEF KeystoreOK, KeyKept
  <2> HIDE DEF keys, chain, ks
  <2> QED
    BY <1>3, <1>6, <2>1, <2>2, <2>3, <2>4 DEF KeyMirrors
<1>8. Mirrors(l, s, disk.blocks)
  BY <1>2, <1>5, <1>7 DEF Mirrors
<1> QED
  BY <1>8 DEF l

(* A start, the first or a later one.                                      *)
LEMMA StartReplay ==
    ASSUME DataOK, ReplayOK, KeystoreOK, Start
    PROVE  ReplayOK'
<1>0. DiskTyped /\ StatusOK
  BY DEF DataOK
<1>1. CASE SaveGenesisBlock
  <2>1. /\ disk'.blocks = <<EmptyBlock>> /\ disk'.saved = disk.saved
        /\ status' = "genesis" /\ disk.blocks = <<>>
    BY <1>0, <1>1 DEF SaveGenesisBlock, DiskTyped
  <2>2. disk'.saved = {} /\ ~Up'
    BY <2>1 DEF ReplayOK, Up
  <2>3. Chained(disk'.blocks, Genesis)
    BY <2>1, GenesisChained
  <2>4. Replayed'
    BY <2>1, <2>2, <2>3 DEF Replayed
  <2> QED
    BY <2>1, <2>2, <2>4 DEF ReplayOK
<1>2. CASE SaveGenesisState
  <2>1. disk.keystore = GenesisKeystore /\ disk.blocks = <<EmptyBlock>>
    BY <1>0, <1>2 DEF SaveGenesisState, StatusOK, ReplayOK
  <2>2. /\ disk'.blocks = disk.blocks /\ disk'.saved = {Persisted(Genesis)}
        /\ ledger' = Genesis /\ blocks' = disk.blocks /\ status' = "up"
    BY <1>0, <1>2, <2>1, GenesisHydrated DEF SaveGenesisState, DiskTyped
  <2>3. Chained(disk'.blocks, Genesis)
    BY <2>1, <2>2, GenesisChained
  <2>4. Mirrors(ledger', Genesis, disk'.blocks)
    BY <2>2, GenesisChained DEF Mirrors, KeyMirrors
  <2>5. Replayed'
    BY <2>1, <2>2, <2>3, <2>4 DEF Replayed
  <2>6. disk'.blocks # <<>>
    BY <2>3 DEF Chained
  <2> QED
    BY <2>2, <2>5, <2>6 DEF ReplayOK
<1>3. CASE Restart
  <2>1. /\ disk' = disk /\ disk.blocks # <<>>
        /\ \/ /\ status' = "up" /\ disk.keystore # Torn /\ blocks' = disk.blocks
              /\ ledger' = LoadedState(disk, disk.keystore)
           \/ status' = "failed"
    BY Zenon, <1>3 DEF Restart
  <2>2. CASE status' = "failed"
    BY <2>1, <2>2, ReplayKept
  <2>3. CASE /\ status' = "up" /\ disk.keystore # Torn /\ blocks' = disk.blocks
             /\ ledger' = LoadedState(disk, disk.keystore)
    <3>1. PICK s : /\ Chained(disk.blocks, s)
                   /\ disk.saved \in {{}, {Persisted(s)}}
                   /\ disk.saved = {} => disk.blocks = <<EmptyBlock>>
      BY <2>1 DEF ReplayOK, Replayed
    <3>2. Mirrors(ledger', s, disk.blocks)
      BY <2>3, <3>1, LoadedMirrors
    <3>3. Replayed'
      BY <2>1, <2>3, <3>1, <3>2 DEF Replayed
    <3> QED
      BY <2>1, <2>3, <3>3 DEF ReplayOK
  <2> QED
    BY <2>1, <2>2, <2>3
<1> QED
  BY <1>1, <1>2, <1>3 DEF Start

(* A block that the database has taken, whether the memory shows it or the *)
(* process died.                                                           *)
LEMMA SavedReplay ==
    ASSUME DataOK, AskedOK, ReplayOK, PayeesOK, producer.step = "commit",
           NEW s \in ApplyTransactions(producer.block, ledger),
           disk' = Saved(producer.block, s),
           \/ status' = "down"
           \/ status' = status /\ ledger' = s /\ blocks' = Append(blocks, producer.block)
    PROVE  ReplayOK'
<1> DEFINE b == producer.block
           more == Append(disk.blocks, b)
<1>1. Up /\ disk.blocks # <<>> /\ disk.blocks \in Seq(Block) /\ b \in Block
  BY DEF DataOK, StatusOK, Up, DiskTyped, ProducerOK
<1>2. PICK r : Chained(disk.blocks, r) /\ blocks = disk.blocks /\ Mirrors(ledger, r, disk.blocks)
  BY <1>1 DEF ReplayOK, Replayed
<1>3. \A tx \in ToSet(b.payments) : Known(disk.blocks, tx.payee)
  BY DEF PayeesOK, AskedOK, BlockPending
<1>4. disk'.blocks = more /\ disk'.saved = {Persisted(s)}
  BY DEF Saved
<1> HIDE DEF b
<1>5. \E v : Chained(more, v) /\ Mirrors(s, v, more)
  BY <1>1, <1>2, <1>3, ChainedMore DEF b
<1>6. PICK v : Chained(more, v) /\ Mirrors(s, v, more)
  BY <1>5
<1>7. Persisted(s) = Persisted(v)
  BY <1>6 DEF Mirrors
<1>8. Up' => blocks' = more /\ ledger' = s
  BY <1>2 DEF Up, b
<1> HIDE DEF more
<1>9. Replayed'
  BY <1>4, <1>6, <1>7, <1>8 DEF Replayed
<1>10. disk'.blocks # <<>> /\ status' # "genesis"
  BY <1>1, <1>4, <1>6 DEF Chained, Up
<1> QED
  BY <1>9, <1>10 DEF ReplayOK

(* So it is after every step.                                              *)
LEMMA NextReplayOK ==
    ASSUME DataOK, AskedOK, ReplayOK, PayeesOK, KeystoreOK, [Next]_vars
    PROVE  ReplayOK'
<1>0. DiskTyped /\ CallsTyped /\ MemoryTyped
  BY DEF DataOK
<1>1. CASE Start
  BY Zenon, <1>1, StartReplay
<1>2. CASE Crash
  BY <1>2, ReplayKept DEF Crash, Forget
<1>3. CASE CrashInCommit
  <2>1. PICK s \in ApplyTransactions(producer.block, ledger) : disk' = Saved(producer.block, s)
    BY <1>3 DEF CrashInCommit
  <2>2. producer.step = "commit" /\ status' = "down"
    BY <1>3 DEF CrashInCommit, Forget
  <2> QED
    BY Zenon, <2>1, <2>2, SavedReplay
<1>4. CASE \E call \in calls : CrashInSave(call)
  <2>1. disk' = WithFile(Torn) /\ status' = "down"
    BY Zenon, <1>4 DEF CrashInSave, Forget
  <2>2. disk'.blocks = disk.blocks /\ disk'.saved = disk.saved
    BY <1>0, <2>1 DEF WithFile, DiskTyped
  <2> QED
    BY <2>1, <2>2, ReplayKept
<1>5. CASE \E call \in calls : Handle(call)
  <2>1. UNCHANGED <<status, ledger, blocks>>
    BY Zenon, <1>5 DEF Handle, AdmitPayment, QueueCreate, SaveKey, QueueClose, DropKey
  <2>2. UNCHANGED disk \/ \E ks : SetKeystore(ks)
    BY Zenon, <1>5 DEF Handle, AdmitPayment, QueueCreate, SaveKey, QueueClose, DropKey
  <2>3. disk'.blocks = disk.blocks /\ disk'.saved = disk.saved
    BY <1>0, <2>2 DEF SetKeystore, WithFile, DiskTyped
  <2> QED
    BY <2>1, <2>3, ReplayKept
<1>6. CASE Commit
  <2>1. producer.step = "commit" /\ UNCHANGED status
    BY Zenon, <1>6 DEF Commit
  <2>2. CASE UNCHANGED <<disk, ledger, blocks>>
    BY Zenon, <2>1, <2>2, ReplayKept
  <2>3. ASSUME NEW s \in ApplyTransactions(producer.block, ledger),
               disk' = Saved(producer.block, s), ledger' = s,
               blocks' = Append(blocks, producer.block)
        PROVE  ReplayOK'
    BY Zenon, <2>1, <2>3, SavedReplay
  <2> QED
    BY Zenon, <1>6, <2>2, <2>3 DEF Commit
<1>7. CASE \/ \E r \in PaymentRequests : BuildPayment(r)
           \/ \E r \in CreateRequests : CheckCreate(r)
           \/ \E r \in CloseRequests : CheckClose(r)
           \/ SelectCreates \/ SelectPayments \/ SelectCloses
           \/ CommitFails \/ UNCHANGED vars
  <2>1. UNCHANGED <<disk, status, ledger, blocks>>
    BY Zenon, <1>7 DEF BuildPayment, CheckCreate, CheckClose, SelectCreates, SelectPayments,
                       SelectCloses, CommitFails, vars, memory
  <2> QED
    BY Zenon, <2>1, ReplayKept
<1> QED
  BY Zenon, <1>1, <1>2, <1>3, <1>4, <1>5, <1>6, <1>7 DEF Next, Produce

-----------------------------------------------------------------------------
(***************************************************************************)
(* What a step adds to the chain, the pools and the handlers.              *)
(***************************************************************************)
(* The chain keeps its blocks.                                             *)
LEMMA NextBlocks ==
    ASSUME DataOK, [Next]_vars
    PROVE  /\ disk'.blocks = disk.blocks
              \/ (disk.blocks = <<>> /\ disk'.blocks = <<EmptyBlock>>)
              \/ disk'.blocks = Append(disk.blocks, producer.block)
           /\ \A a : Known(disk.blocks, a) => Known(disk'.blocks, a)
           /\ \A a : Touched(disk.blocks, a) => Touched(disk'.blocks, a)
<1>0. DiskTyped /\ producer.block \in Block
  BY Zenon DEF DataOK, ProducerOK
<1>00. disk.blocks \in Seq(Block)
  BY <1>0 DEF DiskTyped
<1>1. \/ disk'.blocks = disk.blocks
      \/ disk.blocks = <<>> /\ disk'.blocks = <<EmptyBlock>>
      \/ disk'.blocks = Append(disk.blocks, producer.block)
  <2>1. CASE SaveGenesisBlock
    BY <1>0, <2>1 DEF SaveGenesisBlock, DiskTyped
  <2>2. CASE SaveGenesisState
    BY <1>0, <2>2 DEF SaveGenesisState, DiskTyped
  <2>3. CASE \E s : disk' = Saved(producer.block, s)
    BY <2>3 DEF Saved
  <2>4. CASE UNCHANGED disk \/ disk' = WithFile(Torn) \/ \E ks : SetKeystore(ks)
    BY <1>0, <2>4 DEF SetKeystore, WithFile, DiskTyped
  <2>5. CASE Restart \/ Crash \/ CrashInCommit \/ CommitFails
    BY Zenon, <2>3, <2>4, <2>5 DEF Restart, Crash, CrashInCommit, CommitFails
  <2>6. CASE \/ \E r \in PaymentRequests : BuildPayment(r)
             \/ \E r \in CreateRequests : CheckCreate(r)
             \/ \E r \in CloseRequests : CheckClose(r)
             \/ UNCHANGED vars
    BY Zenon, <2>4, <2>6 DEF BuildPayment, CheckCreate, CheckClose, vars
  <2>7. CASE \E call \in calls : Handle(call) \/ CrashInSave(call)
    BY Zenon, <2>4, <2>7 DEF Handle, AdmitPayment, QueueCreate, SaveKey, QueueClose, DropKey,
                             CrashInSave
  <2>8. CASE Produce
    BY Zenon, <2>3, <2>4, <2>8 DEF Produce, SelectCreates, SelectPayments, SelectCloses, Commit
  <2> QED
    BY Zenon, <2>1, <2>2, <2>5, <2>6, <2>7, <2>8 DEF Next, Start
<1>2. \A a : Touched(disk.blocks, a) => Touched(disk'.blocks, a)
  <2>1. \A a : Touched(disk.blocks, a) => Touched(Append(disk.blocks, producer.block), a)
    BY Zenon, <1>0, <1>00, TouchedMore
  <2>2. \A a : ~Touched(<<>>, a)
    BY Zenon, GenesisUntouched
  <2> QED
    BY Zenon, <1>1, <2>1, <2>2
<1> QED
  BY Zenon, <1>1, <1>2 DEF Known

(* What is pending was pending before, or a handler had it.                *)
LEMMA NextPending ==
    ASSUME DataOK, [Next]_vars
    PROVE  /\ \A p \in ToSet(pool'.order) :
                 p \in ToSet(pool.order) \/ (\E c \in calls : c.step = "admit" /\ c.tx = p)
           /\ \A tx \in ToSet(createPool') :
                 \/ tx \in ToSet(createPool)
                 \/ \E c \in calls : c.step = "queue create" /\ c.tx = tx
<1> DEFINE Paid == \A p \in ToSet(pool'.order) :
                 p \in ToSet(pool.order) \/ (\E c \in calls : c.step = "admit" /\ c.tx = p)
           Created == \A tx \in ToSet(createPool') :
                 \/ tx \in ToSet(createPool)
                 \/ \E c \in calls : c.step = "queue create" /\ c.tx = tx
<1>0. /\ CallsTyped /\ pool.order \in Seq(Payable)
      /\ createPool \in Seq(AccountCreateTransaction)
  BY Zenon DEF DataOK, PoolsTyped, ExactPool
<1>1. ASSUME \E txs : pool' = RemovePayments(pool, txs)
      PROVE  Paid
  <2>1. PICK txs : pool' = RemovePayments(pool, txs)
    BY <1>1
  <2>2. pool'.order = Without(pool.order, txs)
    BY <2>1 DEF RemovePayments
  <2>3. ToSet(pool'.order) \subseteq ToSet(pool.order)
    BY <1>0, <2>2, WithoutElements
  <2> QED
    BY <2>3
<1>2. ASSUME \E txs : createPool' = Without(createPool, txs)
      PROVE  Created
  <2>1. ToSet(createPool') \subseteq ToSet(createPool)
    BY <1>0, <1>2, WithoutElements
  <2> QED
    BY <2>1
<1>3. ASSUME \E call \in calls : AdmitPayment(call)
      PROVE  Paid
  <2>1. PICK call \in calls : AdmitPayment(call)
    BY <1>3
  <2>2. call.step = "admit" /\ UNCHANGED createPool
    BY Zenon, <2>1 DEF AdmitPayment
  <2>3. CASE ValidPayment(call.tx, Available(ledger, pool, call.tx.payer))
             /\ pool' = AddPayment(pool, call.tx)
    <3>1. call.tx \in Payable
      BY Zenon, <1>0, <2>2, <2>3, CallSteps, ValidIsPayable
    <3>2. pool'.order = Append(pool.order, call.tx)
      BY <2>3 DEF AddPayment
    <3>3. ToSet(pool'.order) = ToSet(pool.order) \cup {call.tx}
      BY <1>0, <3>1, <3>2, ElementsAppend
    <3> QED
      BY <2>2, <3>3
  <2>4. CASE pool' = pool
    BY <2>2, <2>4
  <2> QED
    BY Zenon, <2>1, <2>3, <2>4 DEF AdmitPayment
<1>4. ASSUME \E call \in calls : QueueCreate(call)
      PROVE  Created
  <2>1. PICK call \in calls : QueueCreate(call)
    BY <1>4
  <2>2. /\ call.step = "queue create" /\ UNCHANGED pool
        /\ createPool' = Append(createPool, call.tx)
    BY Zenon, <2>1 DEF QueueCreate
  <2>3. call.tx \in AccountCreateTransaction
    BY Zenon, <1>0, <2>2, CallSteps
  <2> HIDE DEF Paid, Created
  <2>5. ToSet(Append(createPool, call.tx)) = ToSet(createPool) \cup {call.tx}
    BY <1>0, <2>3, ElementsAppend
  <2>4. ToSet(createPool') = ToSet(createPool) \cup {call.tx}
    BY <2>2, <2>5
  <2> QED
    BY <2>2, <2>4 DEF Created
<1>5. ASSUME Forget
      PROVE  Paid /\ Created
  <2>1. pool'.order = <<>> /\ createPool' = <<>>
    BY <1>5, NothingPending DEF Forget
  <2> QED
    BY <2>1, NothingPending
<1>6. (UNCHANGED pool => Paid) /\ (UNCHANGED createPool => Created)
  OBVIOUS
<1>7. /\ \/ Forget \/ UNCHANGED pool \/ \E txs : pool' = RemovePayments(pool, txs)
         \/ \E call \in calls : AdmitPayment(call)
      /\ \/ Forget \/ UNCHANGED createPool \/ \E txs : createPool' = Without(createPool, txs)
         \/ \E call \in calls : QueueCreate(call)
  <2>1. CASE Start \/ Crash \/ CrashInCommit \/ CommitFails
    BY Zenon, <2>1 DEF Start, SaveGenesisBlock, SaveGenesisState, Restart, Crash, CrashInCommit,
                       CommitFails, memory
  <2>2. CASE \/ \E r \in PaymentRequests : BuildPayment(r)
             \/ \E r \in CreateRequests : CheckCreate(r)
             \/ \E r \in CloseRequests : CheckClose(r)
             \/ UNCHANGED vars
    BY Zenon, <2>2 DEF BuildPayment, CheckCreate, CheckClose, vars, memory
  <2>3. CASE \E call \in calls : Handle(call) \/ CrashInSave(call)
    BY Zenon, <2>3 DEF Handle, AdmitPayment, QueueCreate, SaveKey, QueueClose, DropKey,
                             CrashInSave
  <2>4. CASE Produce
    BY Zenon, <2>4 DEF Produce, SelectCreates, SelectPayments, SelectCloses, Commit
  <2> QED
    BY Zenon, <2>1, <2>2, <2>3, <2>4 DEF Next
<1> HIDE DEF Paid, Created
<1>8. Paid /\ Created
  BY Zenon, <1>1, <1>2, <1>3, <1>4, <1>5, <1>6, <1>7
<1> QED
  BY <1>8 DEF Paid, Created

(* A handler is new, or goes on with what it had.                          *)
LEMMA NextCalls ==
    ASSUME DataOK, [Next]_vars, NEW c \in calls'
    PROVE  \/ c \in calls
           \/ /\ c.step = "admit"
              /\ \E r \in PaymentRequests : BuildPayment(r) /\ c.tx = ToPayment(r)
           \/ /\ c.step = "queue create"
              /\ \E r \in CreateRequests : CheckCreate(r) /\ c.tx = ToCreate(r)
           \/ /\ c.step = "save key"
              /\ \E d \in calls : d.step = "queue create" /\ c.tx = d.tx
           \/ c.step \in {"queue close", "drop key"}
<1>0. \A step, tx : /\ [step |-> step, tx |-> tx].step = step
                    /\ [step |-> step, tx |-> tx].tx = tx
  OBVIOUS
<1>1. CASE UNCHANGED calls \/ calls' = {} \/ \E call : Finish(call)
  BY Zenon, <1>1 DEF Finish
<1>2. CASE \E r \in PaymentRequests : BuildPayment(r)
  <2>1. PICK r \in PaymentRequests : BuildPayment(r)
    BY <1>2
  <2>2. c \in calls \/ c = [step |-> "admit", tx |-> ToPayment(r)]
    BY Zenon, <2>1 DEF BuildPayment, Begin
  <2>3. c \in calls \/ (c.step = "admit" /\ c.tx = ToPayment(r))
    BY Zenon, <1>0, <2>2
  <2> QED
    BY <2>1, <2>3
<1>3. CASE \E r \in CreateRequests : CheckCreate(r)
  <2>1. PICK r \in CreateRequests : CheckCreate(r)
    BY <1>3
  <2>2. c \in calls \/ c = [step |-> "queue create", tx |-> ToCreate(r)]
    BY Zenon, <2>1 DEF CheckCreate, Begin
  <2>3. c \in calls \/ (c.step = "queue create" /\ c.tx = ToCreate(r))
    BY Zenon, <1>0, <2>2
  <2> QED
    BY <2>1, <2>3
<1>4. CASE \E r \in CloseRequests : CheckClose(r)
  <2>1. PICK r \in CloseRequests : CheckClose(r)
    BY <1>4
  <2>2. c \in calls \/ c = [step |-> "queue close", tx |-> ToClose(r)]
    BY Zenon, <2>1 DEF CheckClose, Begin
  <2>3. c \in calls \/ (c.step = "queue close" /\ c.tx = ToClose(r))
    BY Zenon, <1>0, <2>2
  <2> QED
    BY <2>1, <2>3
<1>5. CASE \E call \in calls : QueueCreate(call)
  <2>1. PICK call \in calls : QueueCreate(call)
    BY <1>5
  <2>2. PICK tx : tx = call.tx
    OBVIOUS
  <2>3. c \in calls \/ c = [step |-> "save key", tx |-> tx]
    BY Zenon, <2>1, <2>2 DEF QueueCreate, Proceed
  <2>5. c \in calls \/ (c.step = "save key" /\ c.tx = tx)
    BY Zenon, <1>0, <2>3
  <2>4. call.step = "queue create"
    BY Zenon, <2>1 DEF QueueCreate
  <2> QED
    BY <2>2, <2>4, <2>5
<1>6. CASE \E call \in calls : QueueClose(call)
  <2>1. PICK call \in calls : QueueClose(call)
    BY <1>6
  <2>2. PICK tx : tx = call.tx
    OBVIOUS
  <2>3. c \in calls \/ c = [step |-> "drop key", tx |-> tx]
    BY Zenon, <2>1, <2>2 DEF QueueClose, Proceed
  <2>5. c \in calls \/ (c.step = "drop key" /\ c.tx = tx)
    BY Zenon, <1>0, <2>3
  <2>4. call.step = "queue close"
    BY Zenon, <2>1 DEF QueueClose
  <2> QED
    BY <2>2, <2>4, <2>5
<1>7. CASE \/ Start \/ Crash \/ CrashInCommit \/ CommitFails \/ Produce \/ UNCHANGED vars
           \/ \E call \in calls :
                 AdmitPayment(call) \/ SaveKey(call) \/ DropKey(call) \/ CrashInSave(call)
  <2>1. UNCHANGED calls \/ calls' = {} \/ \E call : Finish(call)
    BY Zenon, <1>7 DEF Start, SaveGenesisBlock, SaveGenesisState, Restart, Crash, CrashInCommit,
                       CommitFails, Produce, SelectCreates, SelectPayments, SelectCloses, Commit,
                       vars, memory, AdmitPayment, SaveKey, DropKey, CrashInSave, Forget
  <2> QED
    BY <1>1, <2>1
<1> QED
  BY Zenon, <1>2, <1>3, <1>4, <1>5, <1>6, <1>7 DEF Next, Handle

(* Whoever is paid still is known.                                         *)
LEMMA NextPayeesOK ==
    ASSUME DataOK, ReplayOK, PayeesOK, [Next]_vars
    PROVE  PayeesOK'
<1>1. \A a : Known(disk.blocks, a) => Known(disk'.blocks, a)
  BY Zenon, NextBlocks
<1>2. ASSUME NEW p \in ToSet(pool'.order)
      PROVE  Known(disk.blocks, p.payee)
  <2>1. p \in ToSet(pool.order) \/ \E c \in calls : c.step = "admit" /\ c.tx = p
    BY Zenon, NextPending
  <2> QED
    BY Zenon, <2>1 DEF PayeesOK
<1>3. ASSUME NEW r \in PaymentRequests, BuildPayment(r)
      PROVE  Known(disk.blocks, ToPayment(r).payee)
  <2>1. Up /\ Exists(ledger, r.payee) /\ disk.blocks # <<>>
    BY Zenon, <1>3 DEF BuildPayment, Begin, DataOK, StatusOK, Up
  <2>2. PICK s : Chained(disk.blocks, s) /\ Mirrors(ledger, s, disk.blocks)
    BY Zenon, <2>1 DEF ReplayOK, Replayed
  <2>3. r.payee \in AccountIDs /\ ToPayment(r).payee = r.payee
    BY RequestsAssumption DEF ToPayment
  <2>4. \A a \in AccountIDs : Exists(ledger, a) => Known(disk.blocks, a)
    BY Zenon, <2>2, MirrorFollows
  <2> QED
    BY Zenon, <2>1, <2>3, <2>4
<1>4. ASSUME NEW c \in calls', c.step = "admit"
      PROVE  Known(disk.blocks, c.tx.payee)
  <2>1. c \in calls \/ \E r \in PaymentRequests : BuildPayment(r) /\ c.tx = ToPayment(r)
    <3>1. c.step \notin {"queue create", "save key", "queue close", "drop key"}
      BY <1>4
    <3> QED
      BY Zenon, <3>1, NextCalls
  <2> QED
    BY Zenon, <1>3, <1>4, <2>1 DEF PayeesOK
<1> QED
  BY Zenon, <1>1, <1>2, <1>4 DEF PayeesOK

(* What a step does to the keystore and to its file.                       *)
KeystoreStep ==
    \/ ~Up' /\ keystore' \in {keystore, <<>>}
    \/ Up /\ keystore' = keystore
    \/ keystore' = disk.keystore /\ (disk.keystore # Torn \/ disk.keystore = GenesisKeystore)
    \/ \E c \in calls : c.step = "save key" /\ keystore' = AppendEntry(keystore, c.tx)
    \/ \E c \in calls : c.step = "drop key" /\ keystore' = RemoveEntry(keystore, c.tx.account)
FileStep ==
    \/ disk'.keystore \in {disk.keystore, Torn}
    \/ disk'.keystore = keystore' /\ Up'
(* Every step does one of these.                                           *)
LEMMA NextKeystore ==
    ASSUME DataOK, [Next]_vars
    PROVE  KeystoreStep /\ FileStep
<1>0. DiskTyped /\ StatusOK
  BY Zenon DEF DataOK
<1>1. CASE SaveGenesisBlock
  <2>1. disk'.keystore = disk.keystore /\ keystore' = keystore /\ status' = "genesis"
    BY <1>0, <1>1 DEF SaveGenesisBlock, DiskTyped, memory
  <2>2. ~Up'
    BY <2>1 DEF Up
  <2> QED
    BY <2>1, <2>2 DEF KeystoreStep, FileStep
<1>2. CASE SaveGenesisState
  <2>1. disk'.keystore = disk.keystore /\ keystore' = disk.keystore
    BY <1>0, <1>2 DEF SaveGenesisState, DiskTyped
  <2>2. disk.keystore = GenesisKeystore
    BY <1>0, <1>2 DEF SaveGenesisState, StatusOK
  <2> QED
    BY <2>1, <2>2 DEF KeystoreStep, FileStep
<1>3. CASE Restart
  <2>1. /\ disk' = disk
        /\ \/ keystore' = disk.keystore /\ disk.keystore # Torn
           \/ keystore' = keystore /\ status' = "failed"
    BY Zenon, <1>3 DEF Restart
  <2>2. status' = "failed" => ~Up'
    BY DEF Up
  <2> QED
    BY <2>1, <2>2 DEF KeystoreStep, FileStep
<1>4. ASSUME Forget, disk'.keystore \in {disk.keystore, Torn}
      PROVE  KeystoreStep /\ FileStep
  <2>1. keystore' = <<>> /\ status' = "down"
    BY Zenon, <1>4 DEF Forget
  <2>2. ~Up'
    BY <2>1 DEF Up
  <2> QED
    BY <1>4, <2>1, <2>2 DEF KeystoreStep, FileStep
<1>5. CASE Crash \/ CrashInCommit \/ \E call \in calls : CrashInSave(call)
  <2>1. \A s : Saved(producer.block, s).keystore = disk.keystore
    BY DEF Saved
  <2>2. disk' = WithFile(Torn) => disk'.keystore = Torn
    BY <1>0 DEF WithFile, DiskTyped
  <2>3. Forget
    BY Zenon, <1>5 DEF Crash, CrashInCommit, CrashInSave
  <2>4. disk'.keystore \in {disk.keystore, Torn}
    BY Zenon, <1>5, <2>1, <2>2 DEF Crash, CrashInCommit, CrashInSave
  <2> QED
    BY <1>4, <2>3, <2>4
<1>6. ASSUME UNCHANGED <<disk, keystore, status>>
      PROVE  KeystoreStep /\ FileStep
  BY Zenon, <1>6 DEF KeystoreStep, FileStep, Up
<1>7. ASSUME NEW ks, SetKeystore(ks), Up, UNCHANGED status
      PROVE  keystore' = ks /\ FileStep
  <2>1. keystore' = ks /\ (disk' = WithFile(ks) \/ disk' \in {disk, WithFile(Torn)})
    BY Zenon, <1>7 DEF SetKeystore
  <2>2. disk'.keystore = ks \/ disk'.keystore \in {disk.keystore, Torn}
    BY <1>0, <2>1 DEF WithFile, DiskTyped
  <2>3. Up'
    BY <1>7 DEF Up
  <2> QED
    BY <2>1, <2>2, <2>3 DEF FileStep
<1>8. CASE \E call \in calls : SaveKey(call) \/ DropKey(call)
  <2>1. PICK call \in calls : SaveKey(call) \/ DropKey(call)
    BY <1>8
  <2>2. Up /\ UNCHANGED status
    BY Zenon, <1>0, <2>1 DEF StatusOK, SaveKey, DropKey
  <2>3. CASE SaveKey(call)
    <3>1. call.step = "save key" /\ SetKeystore(AppendEntry(keystore, call.tx))
      BY Zenon, <2>3 DEF SaveKey
    <3>2. keystore' = AppendEntry(keystore, call.tx) /\ FileStep
      BY <1>7, <2>2, <3>1
    <3> QED
      BY Zenon, <3>1, <3>2 DEF KeystoreStep
  <2>4. CASE DropKey(call)
    <3>1. call.step = "drop key" /\ SetKeystore(RemoveEntry(keystore, call.tx.account))
      BY Zenon, <2>4 DEF DropKey
    <3>2. keystore' = RemoveEntry(keystore, call.tx.account) /\ FileStep
      BY <1>7, <2>2, <3>1
    <3> QED
      BY Zenon, <3>1, <3>2 DEF KeystoreStep
  <2> QED
    BY <2>1, <2>3, <2>4
<1>9. CASE Commit
  <2>1. Up /\ UNCHANGED keystore
    BY Zenon, <1>0, <1>9 DEF Commit, StatusOK
  <2>2. disk' = disk \/ \E s : disk' = Saved(producer.block, s)
    BY Zenon, <1>9 DEF Commit
  <2>3. disk'.keystore = disk.keystore
    BY <2>2 DEF Saved
  <2> QED
    BY <2>1, <2>3 DEF KeystoreStep, FileStep
<1>10. CASE \/ \E r \in PaymentRequests : BuildPayment(r)
            \/ \E r \in CreateRequests : CheckCreate(r)
            \/ \E r \in CloseRequests : CheckClose(r)
            \/ \E call \in calls : AdmitPayment(call) \/ QueueCreate(call) \/ QueueClose(call)
            \/ SelectCreates \/ SelectPayments \/ SelectCloses
            \/ CommitFails \/ UNCHANGED vars
  <2>1. UNCHANGED <<disk, keystore, status>>
    BY Zenon, <1>10 DEF BuildPayment, CheckCreate, CheckClose, AdmitPayment, QueueCreate,
                        QueueClose, SelectCreates, SelectPayments, SelectCloses, CommitFails,
                        vars, memory
  <2> QED
    BY <1>6, <2>1
<1> QED
  BY Zenon, <1>1, <1>2, <1>3, <1>5, <1>8, <1>9, <1>10 DEF Next, Start, Handle, Produce

(* A creation that is checked is of no account of the genesis, unless a    *)
(* block touched it.                                                       *)
LEMMA CheckedIsNew ==
    ASSUME DataOK, ReplayOK, NEW r \in CreateRequests, CheckCreate(r),
           NEW a \in AccountIDs, Exists(Genesis, a), ~Touched(disk.blocks, a)
    PROVE  r.account # a
<1>1. Up /\ ~Exists(ledger, r.account) /\ disk.blocks # <<>>
  <2>1. Up /\ ValidCreate(ToCreate(r), ledger)
    BY Zenon DEF CheckCreate, Begin
  <2>2. disk.blocks # <<>>
    <3>1. StatusOK
      BY DEF DataOK
    <3> QED
      BY <2>1, <3>1 DEF StatusOK, Up
  <2> QED
    BY <2>1, <2>2 DEF ValidCreate, ToCreate
<1>2. PICK s : Chained(disk.blocks, s) /\ Mirrors(ledger, s, disk.blocks)
  BY Zenon, <1>1 DEF ReplayOK, Replayed
<1>3. ledger.type = s.type
  BY Zenon, <1>2, MirrorFollows
<1>4. Exists(s, a)
  BY Zenon, <1>2 DEF Chained
<1> QED
  BY <1>1, <1>3, <1>4 DEF Exists

(* The keystore loses keys of the genesis, but gets no others.             *)
LEMMA NextKeystoreOK ==
    ASSUME DataOK, ReplayOK, KeystoreOK, [Next]_vars
    PROVE  KeystoreOK'
<1> SUFFICES ASSUME NEW a \in AccountIDs, Exists(Genesis, a), ~Touched(disk'.blocks, a)
             PROVE  KeyKept(a)'
  BY DEF KeystoreOK
<1> DEFINE Keeps(ks) == HydratedKeys(ks)[a] \in {NoKey, Genesis.key[a]}
<1>0. /\ keystore \in Seq(KeystoreEntry) /\ CallsTyped
      /\ createPool \in Seq(AccountCreateTransaction)
  BY Zenon DEF DataOK, MemoryTyped, PoolsTyped
<1>1. ~Touched(disk.blocks, a)
  BY Zenon, NextBlocks
<1>2. KeyKept(a)
  BY <1>1 DEF KeystoreOK
<1>3. KeystoreStep /\ FileStep
  BY NextKeystore
<1>4. Keeps(keystore) /\ Keeps(<<>>) /\ Keeps(GenesisKeystore)
  <2>1. HydratedKeys(<<>>)[a] = NoKey
    BY OnlyEmpty DEF HydratedKeys, EntriesOf
  <2> QED
    BY <1>2, <2>1, GenesisHydrated DEF KeyKept
<1>5. disk.keystore # Torn => Keeps(disk.keystore)
  BY <1>2 DEF KeyKept
<1>6. ASSUME NEW c \in calls, c.step = "save key"
      PROVE  Keeps(AppendEntry(keystore, c.tx))
  <2>1. c.tx \in AccountCreateTransaction /\ c.tx.account # a
    BY Zenon, <1>0, <1>2, <1>6, CallSteps DEF KeyKept
  <2>2. [account |-> c.tx.account, key |-> c.tx.key] \in KeystoreEntry
    BY <2>1 DEF AccountCreateTransaction, KeystoreEntry
  <2>3. HydratedKeys(AppendEntry(keystore, c.tx))[a] = HydratedKeys(keystore)[a]
    BY <1>0, <2>1, <2>2, HydratedMore DEF AppendEntry
  <2> QED
    BY <1>4, <2>3
<1>7. \A b : Keeps(RemoveEntry(keystore, b))
  BY <1>0, <1>4, HydratedLess
<1> HIDE DEF Keeps
<1>8. Keeps(keystore')
  BY <1>3, <1>4, <1>5, <1>6, <1>7 DEF KeystoreStep
<1>9. disk'.keystore # Torn => Keeps(disk'.keystore)
  BY <1>3, <1>5, <1>8 DEF FileStep
<1>10. ASSUME NEW tx \in ToSet(createPool')
       PROVE  tx.account # a
  <2>1. tx \in ToSet(createPool) \/ \E c \in calls : c.step = "queue create" /\ c.tx = tx
    BY Zenon, NextPending
  <2> QED
    BY <1>2, <2>1 DEF KeyKept
<1>11. ASSUME NEW c \in calls', c.step \in {"queue create", "save key"}
       PROVE  c.tx.account # a
  <2>1. \/ c \in calls
        \/ \E r \in CreateRequests : CheckCreate(r) /\ c.tx = ToCreate(r)
        \/ \E d \in calls : d.step = "queue create" /\ c.tx = d.tx
    <3>1. c.step # "admit" /\ c.step \notin {"queue close", "drop key"}
      BY <1>11
    <3> QED
      BY Zenon, <3>1, NextCalls
  <2>2. \A r \in CreateRequests : CheckCreate(r) => ToCreate(r).account # a
    <3>1. \A r : ToCreate(r).account = r.account
      BY DEF ToCreate
    <3>2. \A r \in CreateRequests : CheckCreate(r) => r.account # a
      BY Zenon, <1>1, CheckedIsNew
    <3> QED
      BY Zenon, <3>1, <3>2
  <2>3. \A d \in calls : d.step \in {"queue create", "save key"} => d.tx.account # a
    BY <1>2 DEF KeyKept
  <2> QED
    BY <1>11, <2>1, <2>2, <2>3
<1> QED
  BY <1>8, <1>9, <1>10, <1>11 DEF KeyKept, Keeps

-----------------------------------------------------------------------------
(***************************************************************************)
(* The accounts of the genesis, when nobody asks to close one: no block    *)
(* touches them, and their keys stay in the keystore and in the ledger.    *)
(***************************************************************************)
GenesisAccountsStay == \A r \in CloseRequests : ~Exists(Genesis, r.account)

Settled(a) ==
    /\ ~Touched(disk.blocks, a)
    /\ Up => HydratedKeys(keystore)[a] = Genesis.key[a] /\ ledger.key[a] = Genesis.key[a]
    /\ disk.keystore # Torn => HydratedKeys(disk.keystore)[a] = Genesis.key[a]
GenesisSettled == \A a \in AccountIDs : Exists(Genesis, a) => Settled(a)
SettledOK == GenesisAccountsStay => GenesisSettled /\ StartsAgain

(* They are at the start.                                                  *)
LEMMA InitSettled == Init => SettledOK
<1> SUFFICES ASSUME Init PROVE GenesisSettled /\ StartsAgain
  BY DEF SettledOK
<1>1. status = "down" /\ disk.blocks = <<>> /\ disk.keystore = GenesisKeystore
  BY DEF Init
<1>2. ~Up /\ status # "failed"
  BY <1>1 DEF Up
<1>3. \A a : ~Touched(disk.blocks, a)
  BY Zenon, <1>1, GenesisUntouched
<1>4. HydratedKeys(disk.keystore) = Genesis.key
  BY <1>1, GenesisHydrated
<1> QED
  BY <1>2, <1>3, <1>4 DEF GenesisSettled, Settled, StartsAgain

(* A block that is being made does not touch them.                         *)
LEMMA BlockUntouched ==
    ASSUME AskedOK, KeystoreOK, GenesisAccountsStay, NEW a \in AccountIDs,
           Exists(Genesis, a), ~Touched(disk.blocks, a)
    PROVE  ~Touches(producer.block, a)
<1>1. KeyKept(a)
  BY DEF KeystoreOK
<1>2. \A tx \in ToSet(producer.block.creates) : tx.account # a
  BY <1>1 DEF KeyKept, AskedOK, BlockPending
<1>3. ASSUME NEW tx \in ToSet(producer.block.closes)
      PROVE  tx.account # a
  <2>1. AskedClose(tx)
    BY DEF AskedOK, BlockPending, PoolsAsked
  <2> QED
    BY <2>1 DEF AskedClose, GenesisAccountsStay
<1> QED
  BY <1>2, <1>3 DEF Touches

(* What a step does to the state of a node that runs after it.             *)
LedgerStep ==
    \/ ~Up'
    \/ Up /\ ledger' = ledger
    \/ ledger' = Genesis
    \/ ledger' = LoadedState(disk, disk.keystore) /\ disk.keystore # Torn
    \/ Up /\ ledger' \in ApplyTransactions(producer.block, ledger)
(* Every step does one of these.                                           *)
LEMMA NextLedger ==
    ASSUME DataOK, [Next]_vars
    PROVE  LedgerStep
<1>0. DiskTyped /\ StatusOK
  BY Zenon DEF DataOK
<1>1. CASE SaveGenesisBlock
  <2>1. status' = "genesis"
    BY Zenon, <1>1 DEF SaveGenesisBlock
  <2> QED
    BY <2>1 DEF LedgerStep, Up
<1>2. CASE SaveGenesisState
  <2>1. disk.keystore = GenesisKeystore
    BY <1>0, <1>2 DEF SaveGenesisState, StatusOK
  <2>2. ledger' = BuildInitialState(disk.keystore)
    BY Zenon, <1>2 DEF SaveGenesisState
  <2> QED
    BY <2>1, <2>2, GenesisHydrated DEF LedgerStep
<1>3. CASE Restart
  <2>1. \/ ledger' = LoadedState(disk, disk.keystore) /\ disk.keystore # Torn
        \/ status' = "failed"
    BY Zenon, <1>3 DEF Restart
  <2> QED
    BY <2>1 DEF LedgerStep, Up
<1>4. CASE Crash \/ CrashInCommit \/ \E call \in calls : CrashInSave(call)
  <2>1. status' = "down"
    BY Zenon, <1>4 DEF Crash, CrashInCommit, CrashInSave, Forget
  <2> QED
    BY <2>1 DEF LedgerStep, Up
<1>5. CASE Commit
  <2>1. Up /\ UNCHANGED status
    BY Zenon, <1>0, <1>5 DEF Commit, StatusOK
  <2>2. ledger' = ledger \/ ledger' \in ApplyTransactions(producer.block, ledger)
    BY Zenon, <1>5 DEF Commit
  <2> QED
    BY Zenon, <2>1, <2>2 DEF LedgerStep
<1>6. CASE \/ \E r \in PaymentRequests : BuildPayment(r)
           \/ \E r \in CreateRequests : CheckCreate(r)
           \/ \E r \in CloseRequests : CheckClose(r)
           \/ \E call \in calls : Handle(call)
           \/ SelectCreates \/ SelectPayments \/ SelectCloses
           \/ CommitFails \/ UNCHANGED vars
  <2>1. UNCHANGED <<ledger, status>>
    BY Zenon, <1>6 DEF BuildPayment, CheckCreate, CheckClose, Handle, AdmitPayment, QueueCreate,
                       SaveKey, QueueClose, DropKey, SelectCreates, SelectPayments,
                       SelectCloses, CommitFails, vars, memory
  <2> QED
    BY Zenon, <2>1 DEF LedgerStep, Up
<1> QED
  BY Zenon, <1>1, <1>2, <1>3, <1>4, <1>5, <1>6 DEF Next, Start, Produce

(* No step disturbs them.                                                  *)
LEMMA NextSettled ==
    ASSUME DataOK, AskedOK, KeystoreOK, GenesisAccountsStay, GenesisSettled, [Next]_vars,
           NEW a \in AccountIDs, Exists(Genesis, a)
    PROVE  Settled(a)'
<1> DEFINE Keeps(ks) == HydratedKeys(ks)[a] = Genesis.key[a]
<1>0. /\ keystore \in Seq(KeystoreEntry) /\ CallsTyped /\ CallsAsked /\ ledger \in State
      /\ disk.blocks \in Seq(Block) /\ producer.block \in Block
  BY DEF DataOK, MemoryTyped, AskedOK, DiskTyped, ProducerOK
<1>1. Settled(a)
  BY DEF GenesisSettled
<1>2. ~Touched(disk.blocks, a)
  BY <1>1 DEF Settled
<1>3. ~Touches(producer.block, a)
  BY <1>2, BlockUntouched
<1>4. ~Touched(disk'.blocks, a)
  <2>1. \/ disk'.blocks = disk.blocks
        \/ disk.blocks = <<>> /\ disk'.blocks = <<EmptyBlock>>
        \/ disk'.blocks = Append(disk.blocks, producer.block)
    BY Zenon, NextBlocks
  <2>2. ~Touched(<<EmptyBlock>>, a)
    BY Zenon, GenesisUntouched
  <2>3. ~Touched(Append(disk.blocks, producer.block), a)
    BY Zenon, <1>0, <1>2, <1>3, TouchedMore
  <2> QED
    BY Zenon, <1>2, <2>1, <2>2, <2>3
<1>5. KeystoreStep /\ FileStep /\ LedgerStep
  BY NextKeystore, NextLedger
<1>6. Up => Keeps(keystore)
  BY <1>1 DEF Settled
<1>7. Keeps(GenesisKeystore) /\ (disk.keystore # Torn => Keeps(disk.keystore))
  BY <1>1, GenesisHydrated DEF Settled
<1>8. calls # {} => Up
  BY Zenon DEF DataOK, StatusOK
<1>9. ASSUME NEW c \in calls, c.step = "save key"
      PROVE  Keeps(AppendEntry(keystore, c.tx))
  <2>1. c.tx \in AccountCreateTransaction
    BY Zenon, <1>0, <1>9, CallSteps
  <2>2. c.tx.account # a
    BY <1>2, <1>9 DEF KeystoreOK, KeyKept
  <2>3. [account |-> c.tx.account, key |-> c.tx.key] \in KeystoreEntry
    BY <2>1 DEF AccountCreateTransaction, KeystoreEntry
  <2>4. HydratedKeys(AppendEntry(keystore, c.tx))[a] = HydratedKeys(keystore)[a]
    BY <1>0, <2>2, <2>3, HydratedMore DEF AppendEntry
  <2> QED
    BY <1>6, <1>8, <2>4
<1>10. ASSUME NEW c \in calls, c.step = "drop key"
       PROVE  Keeps(RemoveEntry(keystore, c.tx.account))
  <2>1. AskedClose(c.tx)
    BY <1>0, <1>10 DEF CallsAsked
  <2>2. c.tx.account # a
    BY <2>1 DEF AskedClose, GenesisAccountsStay
  <2>3. HydratedKeys(RemoveEntry(keystore, c.tx.account))[a] = HydratedKeys(keystore)[a]
    BY <1>0, <2>2, HydratedLess
  <2> QED
    BY <1>6, <1>8, <2>3
<1> HIDE DEF Keeps
<1>11. Up' => Keeps(keystore')
  BY <1>5, <1>6, <1>7, <1>9, <1>10 DEF KeystoreStep
<1>12. disk'.keystore # Torn => Keeps(disk'.keystore)
  BY <1>5, <1>7, <1>11 DEF FileStep
<1>13. Up' => ledger'.key[a] = Genesis.key[a]
  <2>1. Up => ledger.key[a] = Genesis.key[a]
    BY <1>1 DEF Settled
  <2>2. disk.keystore # Torn => LoadedState(disk, disk.keystore).key[a] = Genesis.key[a]
    <3>1. LoadedState(disk, disk.keystore).key
             = FoldLeft(KeysAfterBlock, HydratedKeys(disk.keystore), disk.blocks)
      BY DEF LoadedState
    <3>2. \A bs \in Seq(Block) : \A k : ~Touched(bs, a) =>
             FoldLeft(KeysAfterBlock, k, bs)[a] = k[a]
      BY Zenon, ChainForgets
    <3> QED
      BY <1>0, <1>2, <1>7, <3>1, <3>2 DEF Keeps
  <2>3. \A t \in ApplyTransactions(producer.block, ledger) : t.key[a] = ledger.key[a]
    <3>1. \A t \in ApplyTransactions(producer.block, ledger) :
             t.key = KeysAfterBlock(ledger.key, producer.block)
      BY <1>0, BlockKeys
    <3>2. KeysAfterBlock(ledger.key, producer.block)[a] = ledger.key[a]
      BY <1>0, <1>3, KeysTouched
    <3> QED
      BY <3>1, <3>2
  <2> QED
    BY <1>5, <2>1, <2>2, <2>3 DEF LedgerStep
<1> QED
  BY <1>4, <1>11, <1>12, <1>13 DEF Settled, Keeps

(* So a start finds nothing wrong with the chain.                          *)
LEMMA ChainIsValid ==
    ASSUME DataOK, ReplayOK, GenesisSettled, disk.blocks # <<>>, disk.keystore # Torn
    PROVE  ValidateChain(disk.blocks, disk.keystore)
<1> DEFINE t == BuildInitialState(disk.keystore)
           bs == Tail(disk.blocks)
<1>1. disk.keystore \in Seq(KeystoreEntry) /\ disk.blocks \in Seq(Block)
      /\ disk.saved \subseteq Balances
  BY DEF DataOK, DiskTyped
<1>2. t \in State /\ Genesis \in State
  BY <1>1, LoadedTyped, GenesisChained
<1>3. t.type = Genesis.type /\ t.balance = Genesis.balance
      /\ t.key = HydratedKeys(disk.keystore)
  BY DEF BuildInitialState
<1>4. ASSUME NEW a \in AccountIDs, Genesis.key[a] # NoKey
      PROVE  HydratedKeys(disk.keystore)[a] = Genesis.key[a]
  <2>1. Exists(Genesis, a)
    BY <1>4, GenesisAssumption
  <2> QED
    BY <2>1 DEF GenesisSettled, Settled
<1> HIDE DEF t
<1>5. Follows(t, Genesis, {})
  BY <1>2, <1>3, <1>4 DEF Follows
<1>6. PICK s : Chained(disk.blocks, s)
  BY DEF ReplayOK, Replayed
<1>7. s \in Replay(bs, Genesis)
  BY <1>6 DEF Chained
<1>8. bs \in Seq(Block)
  BY <1>1
<1> HIDE DEF bs
<1>9. Replay(bs, t) # {}
  <2>1. \A w, u : Follows(w, u, {}) => \A cs \in Seq(Block) : \A x \in Replay(cs, u) :
           \E v : Replay(cs, w) = {v} /\ Follows(v, x, {})
    BY Zenon, ReplayFollows
  <2>2. \E v : Replay(bs, t) = {v} /\ Follows(v, s, {})
    BY Zenon, <1>5, <1>7, <1>8, <2>1
  <2> QED
    BY <2>2
<1> QED
  BY <1>9 DEF ValidateChain, t, bs

(* So a start does not fail but on a torn file, nor changes one that did.  *)
LEMMA NextStarts ==
    ASSUME DataOK, ReplayOK, GenesisSettled, StartsAgain, [Next]_vars
    PROVE  StartsAgain'
<1>0. StatusOK
  BY DEF DataOK
<1>1. CASE Restart
  <2>1. CASE disk.keystore # Torn
    <3>1. disk.blocks # <<>>
      BY Zenon, <1>1 DEF Restart
    <3>2. ValidateChain(disk.blocks, disk.keystore)
      BY <2>1, <3>1, ChainIsValid
    <3>3. status' = "up"
      BY Zenon, <1>1, <2>1, <3>2 DEF Restart
    <3> QED
      BY <3>3 DEF StartsAgain
  <2>2. CASE disk.keystore = Torn
    <3>1. disk' = disk
      BY Zenon, <1>1 DEF Restart
    <3> QED
      BY <2>2, <3>1 DEF StartsAgain
  <2> QED
    BY <2>1, <2>2
<1>2. CASE UNCHANGED vars
  BY <1>2 DEF vars, StartsAgain
<1>3. CASE \/ SaveGenesisBlock \/ SaveGenesisState \/ Crash \/ CrashInCommit
           \/ \E call \in calls : CrashInSave(call)
  <2>1. status' \in {"genesis", "up", "down"}
    BY <1>3 DEF SaveGenesisBlock, SaveGenesisState, Crash, CrashInCommit, CrashInSave, Forget
  <2> QED
    BY <2>1 DEF StartsAgain
<1>4. ASSUME Up, UNCHANGED status
      PROVE  StartsAgain'
  BY <1>4 DEF Up, StartsAgain
<1>5. CASE \E call \in calls : Handle(call)
  <2>1. Up /\ UNCHANGED status
    BY Zenon, <1>0, <1>5 DEF StatusOK, Handle, AdmitPayment, QueueCreate, SaveKey, QueueClose,
                             DropKey
  <2> QED
    BY <1>4, <2>1
<1>6. CASE \/ \E r \in PaymentRequests : BuildPayment(r)
           \/ \E r \in CreateRequests : CheckCreate(r)
           \/ \E r \in CloseRequests : CheckClose(r)
           \/ SelectCreates
  <2>1. Up /\ UNCHANGED status
    BY Zenon, <1>6 DEF BuildPayment, CheckCreate, CheckClose, Begin, SelectCreates
  <2> QED
    BY <1>4, <2>1
<1>7. CASE SelectPayments \/ SelectCloses \/ Commit \/ CommitFails
  <2>1. producer.step # "idle" /\ UNCHANGED status
    BY <1>7 DEF SelectPayments, SelectCloses, Commit, CommitFails
  <2>2. Up
    BY <1>0, <2>1 DEF StatusOK
  <2> QED
    BY <1>4, <2>1, <2>2
<1> QED
  BY Zenon, <1>1, <1>2, <1>3, <1>5, <1>6, <1>7 DEF Next, Start, Produce

(* All this, always.                                                       *)
ReplayedOK == ReplayOK /\ PayeesOK /\ KeystoreOK /\ SettledOK

(* It holds in every state that the node can reach.                        *)
LEMMA SpecReplayedOK == Spec => []ReplayedOK
<1>1. Init => ReplayedOK
  BY InitReplay, InitSettled DEF ReplayedOK
<1>2. ASSUME FundsOK, ReplayedOK, [Next]_vars
      PROVE  ReplayedOK'
  <2>1. DataOK /\ AskedOK /\ ReplayOK /\ PayeesOK /\ KeystoreOK /\ SettledOK
    BY <1>2 DEF FundsOK, ReplayedOK
  <2>2. ReplayOK' /\ PayeesOK' /\ KeystoreOK'
    BY Zenon, <1>2, <2>1, NextReplayOK, NextPayeesOK, NextKeystoreOK
  <2>3. ASSUME GenesisAccountsStay
        PROVE  GenesisSettled' /\ StartsAgain'
    <3>1. GenesisSettled /\ StartsAgain
      BY <2>1, <2>3 DEF SettledOK
    <3>2. \A a \in AccountIDs : Exists(Genesis, a) => Settled(a)'
      BY Zenon, <1>2, <2>1, <2>3, <3>1, NextSettled
    <3>3. StartsAgain'
      BY Zenon, <1>2, <2>1, <3>1, NextStarts
    <3> QED
      BY Zenon, <3>2, <3>3 DEF GenesisSettled
  <2>4. SettledOK'
    BY Zenon, <2>3 DEF SettledOK, GenesisAccountsStay
  <2> QED
    BY Zenon, <2>2, <2>4 DEF ReplayedOK
<1>3. FundsOK /\ ReplayedOK /\ [Next]_vars => ReplayedOK'
  BY <1>2
<1> QED
  BY <1>1, <1>3, SpecFundsOK, PTL DEF Spec

(* The database is whole: whenever a crash comes, also between two steps   *)
(* of a commit or of the first start, the state that is saved is the one   *)
(* that the saved blocks lead to from the genesis (chain/blockchain.go,    *)
(* storage/bolt/store.go).                                                 *)
THEOREM NodeSavedStateIsReplay == Spec => []SavedStateIsReplay
<1>1. ReplayedOK => SavedStateIsReplay
  <2> SUFFICES ASSUME ReplayOK, disk.saved # {}
               PROVE  disk.saved = {Persisted(s) : s \in Replay(Tail(disk.blocks), Genesis)}
    BY DEF ReplayedOK, SavedStateIsReplay
  <2>1. PICK s : /\ Chained(disk.blocks, s)
                 /\ disk.saved \in {{}, {Persisted(s)}}
    BY DEF ReplayOK, Replayed
  <2>2. disk.saved = {Persisted(s)} /\ Replay(Tail(disk.blocks), Genesis) = {s}
    BY <2>1 DEF Chained
  <2> QED
    BY <2>2
<1> QED
  BY <1>1, SpecReplayedOK, PTL

(* When no account of the genesis is closed, the memory of a node that     *)
(* runs is what its blocks lead to, with the keys of all who can sign,     *)
(* however often the process died and started, and whatever it lost of the *)
(* keystore file (chain/blockchain.go, config.go).                         *)
THEOREM NodeMemoryIsReplay ==
    ASSUME GenesisAccountsStay
    PROVE  Spec => []MemoryIsReplay
<1>1. FundsOK /\ ReplayedOK => MemoryIsReplay
  <2> SUFFICES ASSUME DataOK, ReplayOK, GenesisSettled, Up
               PROVE  /\ blocks = disk.blocks
                      /\ \E s \in Replay(Tail(blocks), Genesis) :
                            /\ Persisted(ledger) = Persisted(s)
                            /\ \A a \in AccountIDs :
                                  s.type[a] \in Closable => ledger.key[a] = s.key[a]
    BY DEF FundsOK, ReplayedOK, SettledOK, MemoryIsReplay
  <2>1. disk.blocks # <<>> /\ disk.blocks \in Seq(Block)
    <3>1. StatusOK /\ DiskTyped
      BY DEF DataOK
    <3> QED
      BY <3>1 DEF StatusOK, DiskTyped, Up
  <2>2. PICK s : /\ Chained(disk.blocks, s) /\ blocks = disk.blocks
                 /\ Mirrors(ledger, s, disk.blocks)
    BY <2>1 DEF ReplayOK, Replayed
  <2>3. Persisted(ledger) = Persisted(s) /\ s \in Replay(Tail(blocks), Genesis)
    BY <2>2 DEF Mirrors, Chained
  <2>4. ASSUME NEW a \in AccountIDs, s.type[a] \in Closable, ledger.key[a] # s.key[a]
        PROVE  FALSE
    <3>1. ~Touched(disk.blocks, a)
      BY <2>2, <2>4 DEF Mirrors, KeyMirrors
    <3>2. Exists(Genesis, a)
      <4>1. Exists(s, a)
        BY <2>4 DEF Exists, Closable, Person, Merchant, Absent
      <4> QED
        BY <2>2, <3>1, <4>1 DEF Chained
    <3>3. ledger.key[a] = Genesis.key[a]
      BY <3>2 DEF GenesisSettled, Settled
    <3>4. s.key[a] = Genesis.key[a]
      <4>1. \A bs \in Seq(Block) : \A k : ~Touched(bs, a) =>
               FoldLeft(KeysAfterBlock, k, bs)[a] = k[a]
        BY Zenon, ChainForgets
      <4>2. s.key = FoldLeft(KeysAfterBlock, Genesis.key, disk.blocks)
        BY <2>2 DEF Chained
      <4> QED
        BY <2>1, <3>1, <4>1, <4>2
    <3> QED
      BY <2>4, <3>3, <3>4
  <2> QED
    BY <2>2, <2>3, <2>4
<1> QED
  BY <1>1, SpecFundsOK, SpecReplayedOK, PTL

(* When no account of the genesis is closed, a node that stopped, however  *)
(* it did, starts again on the files it left, unless the keystore file is  *)
(* torn (chain/blockchain.go, 85).                                         *)
THEOREM NodeStartsAgain ==
    ASSUME GenesisAccountsStay
    PROVE  Spec => []StartsAgain
<1>1. ReplayedOK => StartsAgain
  BY DEF ReplayedOK, SettledOK
<1> QED
  BY <1>1, SpecReplayedOK, PTL
=============================================================================
