--------------------------- MODULE Ledger_proofs ---------------------------
(***************************************************************************)
(* The safety of the ledger for every genesis, every set of accounts and   *)
(* every set of transactions that meet the assumptions of Ledger, those    *)
(* whose lines overflow included.                                          *)
(***************************************************************************)
EXTENDS Ledger, Rules_proofs

(* What the proofs carry from step to step. It needs all its parts: a      *)
(* payment adds to entries that may be absent, a closure deletes a balance *)
(* that must not be negative, and what keeps a blank entry from paying is  *)
(* that it has no key.                                                     *)
Inv == TypeOK /\ NonNegative /\ AbsentHoldsNothing /\ ClosedCannotSign

-----------------------------------------------------------------------------
(* Whatever is stored in a word fits it.                                   *)
LEMMA WrapWord ==
    ASSUME NEW n \in Int
    PROVE  Wrap(n) \in -HalfWord .. HalfWord - 1
<1>1. HalfWord \in Nat \ {0}
  BY SplitsAssumption
<1> DEFINE h == HalfWord
           m == 2 * h
           k == n + h
<1>2. m \in Nat \ {0} /\ k \in Int
  BY <1>1
<1>3. k % m \in 0 .. m - 1
  <2> HIDE DEF k, m
  <2> QED
    BY <1>2
<1>4. Wrap(n) = (k % m) - h
  BY DEF Wrap
<1>5. k % m \in Int /\ 0 <= k % m /\ k % m <= 2 * h - 1
  BY <1>1, <1>3
<1> HIDE DEF k, m
<1> QED
  BY <1>1, <1>4, <1>5

(* A state stored in words is a state with the same entries and keys.      *)
LEMMA InWordsState ==
    ASSUME NEW s \in State, NEW t, t = InWords(s)
    PROVE  /\ t \in State /\ t.type = s.type /\ t.key = s.key
           /\ \A a \in AccountIDs :
                 /\ t.balance[a] = Wrap(s.balance[a])
                 /\ t.balance[a] \in -HalfWord .. HalfWord - 1
<1>1. \A a \in AccountIDs : s.balance[a] \in Int
  BY DEF State
<1> DEFINE b == [a \in AccountIDs |-> Wrap(s.balance[a])]
<1>2. b \in [AccountIDs -> Int]
  BY <1>1, WrapInt
<1>3. \A a \in AccountIDs :
         b[a] = Wrap(s.balance[a]) /\ b[a] \in -HalfWord .. HalfWord - 1
  BY <1>1, WrapWord
<1>4. t = [s EXCEPT !.balance = b]
  BY DEF InWords
<1> HIDE DEF b
<1> QED
  BY <1>2, <1>3, <1>4 DEF State

(* Where the balances fit their words, storing changes nothing.            *)
LEMMA InWordsFits ==
    ASSUME NEW s \in State,
           \A a \in AccountIDs : s.balance[a] \in 0 .. HalfWord - 1
    PROVE  InWords(s) = s
<1>1. \A a \in AccountIDs : Wrap(s.balance[a]) = s.balance[a]
  BY WrapNat, SplitsAssumption
<1> DEFINE b == [a \in AccountIDs |-> Wrap(s.balance[a])]
<1>2. s.balance \in [AccountIDs -> Int]
  BY DEF State
<1>3. b = s.balance
  BY <1>1, <1>2
<1>4. InWords(s) = [s EXCEPT !.balance = b]
  BY DEF InWords
<1> HIDE DEF b
<1> QED
  BY <1>3, <1>4 DEF State

(* What counts for nothing adds up to a word that holds 0.                 *)
LEMMA TotalZero ==
    ASSUME NEW T, NEW f, \A x \in T : f[x] = 0, NEW seq \in Seq(T)
    PROVE  Total(f, seq) = 0
<1>1. SumOf(f, seq) = 0
  BY SumZero
<1>2. Total(f, seq) = Wrap(SumOf(f, seq))
  BY DEF Total
<1>3. Wrap(0) = 0
  BY WrapNat, SplitsAssumption
<1> QED
  BY <1>1, <1>2, <1>3

(* Whatever overflows, a payment credits nothing to an account it does not *)
(* write.                                                                  *)
LEMMA UnwrittenGetsNothing ==
    ASSUME NEW items \in Seq(LineItem), NEW a, a \notin WrittenTaxAccounts(items)
    PROVE  Credit(items, a) = 0
<1> DEFINE T == ToSet(items)
           got == [item \in T |-> ItemCredit(item, a)]
<1>1. items \in Seq(T) /\ T \subseteq LineItem
  BY OwnElements
<1>2. ASSUME NEW item \in T PROVE ItemCredit(item, a) = 0
  <2> DEFINE C == ToSet(item.codes)
             D == ToSet(item.discounts)
             taxTo == [code \in C |-> IF TaxSplit[code].account = a
                                      THEN CodeTax(code, item.amount) ELSE 0]
             offTo == [d \in D |-> IF d.account = a THEN d.amount ELSE 0]
  <2>1. item.codes \in Seq(STRING) /\ item.discounts \in Seq(LineDiscount)
    BY <1>1 DEF LineItem
  <2>2. item.codes \in Seq(C) /\ item.discounts \in Seq(D)
    BY <2>1, OwnElements
  <2>3. (\A code \in C : taxTo[code] = 0) /\ (\A d \in D : offTo[d] = 0)
    BY DEF WrittenTaxAccounts
  <2>4. ItemCredit(item, a) = Total(taxTo, item.codes) + Total(offTo, item.discounts)
    BY DEF ItemCredit
  <2> HIDE DEF taxTo, offTo, C, D
  <2>5. Total(taxTo, item.codes) = 0 /\ Total(offTo, item.discounts) = 0
    BY <2>2, <2>3, TotalZero
  <2> QED
    BY <2>4, <2>5
<1>3. Credit(items, a) = Total(got, items)
  BY DEF Credit
<1>4. \A item \in T : got[item] = 0
  BY <1>2
<1> HIDE DEF got, T
<1> QED
  BY <1>1, <1>3, <1>4, TotalZero

-----------------------------------------------------------------------------
(* What a payment that is valid and does not overflow adds to an account:  *)
(* nothing less than minus the gross to the payer, nothing less than 0 to  *)
(* the others.                                                             *)
LEMMA PaymentDeltaBounds ==
    ASSUME NEW tx \in Payments, ValidLines(tx.items), NothingOverflows(tx.items),
           NEW a \in AccountIDs
    PROVE  /\ PaymentDelta(tx, a) \in Int /\ GrossAmount(tx.items) \in Nat
           /\ a = tx.payer => PaymentDelta(tx, a) >= -GrossAmount(tx.items)
           /\ a # tx.payer => PaymentDelta(tx, a) >= 0
<1>1. Sound(tx.items)
  BY TransactionsAssumption DEF PaymentTransaction, Sound
<1>2. /\ GrossAmount(tx.items) \in Nat
      /\ NetToPayee(tx.items) \in Nat
      /\ Credit(tx.items, a) \in Nat
  BY <1>1, Getters, Credits, AccountsAssumption
<1> QED
  BY <1>2 DEF PaymentDelta

(* The genesis is such a state.                                            *)
THEOREM InitInv == Init => Inv
<1> SUFFICES ASSUME Init PROVE Inv
  OBVIOUS
<1>1. HalfWord \in Nat
  BY SplitsAssumption
<1>2. \A a \in AccountIDs : /\ Genesis.balance[a] \in -HalfWord .. HalfWord - 1
                            /\ Genesis.balance[a] >= 0
  BY <1>1, GenesisAssumption
<1>3. TypeOK /\ NonNegative
  BY <1>2, GenesisAssumption DEF Init, TypeOK, NonNegative
<1>4. AbsentHoldsNothing /\ ClosedCannotSign
  BY GenesisAssumption DEF Init, AbsentHoldsNothing, ClosedCannotSign
<1> QED
  BY <1>3, <1>4 DEF Inv

(* A payment keeps the invariant: the payer has the gross amount, nobody   *)
(* else loses anything unless something overflows, and who gets money gets *)
(* an entry.                                                               *)
LEMMA PaymentInv ==
    ASSUME Inv, NEW tx \in Payments, Payment(tx)
    PROVE  Inv'
<1> DEFINE s == ApplyPayment(tx, state)
<1>1. /\ tx \in PaymentTransaction /\ tx.items \in Seq(LineItem)
      /\ ValidPayment(tx, state) /\ ValidLines(tx.items)
      /\ Exists(state, tx.payer)
      /\ state.balance[tx.payer] >= GrossAmount(tx.items)
  BY TransactionsAssumption DEF PaymentTransaction, Payment, ValidPayment
<1>2. state \in State
  BY DEF Inv, TypeOK
<1>3. s \in State
  BY <1>1, <1>2, ApplyTyped
<1>4. /\ s.type = [a \in AccountIDs |->
                      IF /\ state.type[a] = Absent
                         /\ a \in {tx.payee} \cup WrittenTaxAccounts(tx.items)
                      THEN Blank ELSE state.type[a]]
      /\ s.key = state.key
      /\ \A a \in AccountIDs : s.balance[a] = state.balance[a] + PaymentDelta(tx, a)
  BY DEF ApplyPayment
<1>5. /\ state' = InWords(s)
      /\ exact' => exact /\ NothingOverflows(tx.items) /\ state' = s
      /\ exact' \in BOOLEAN
  BY DEF Payment
<1> HIDE DEF s
<1>6. /\ state' \in State /\ state'.type = s.type /\ state'.key = s.key
      /\ \A a \in AccountIDs : /\ state'.balance[a] = Wrap(s.balance[a])
                               /\ state'.balance[a] \in -HalfWord .. HalfWord - 1
  BY <1>3, <1>5, InWordsState
<1>7. TypeOK'
  BY <1>5, <1>6 DEF TypeOK
<1>8. NonNegative'
  <2> SUFFICES ASSUME exact', NEW a \in AccountIDs PROVE state'.balance[a] >= 0
    BY DEF NonNegative
  <2>1. /\ state.balance[a] \in Nat
        /\ state'.balance[a] = state.balance[a] + PaymentDelta(tx, a)
    BY <1>2, <1>4, <1>5 DEF Inv, NonNegative, State
  <2>2. /\ PaymentDelta(tx, a) \in Int /\ GrossAmount(tx.items) \in Nat
        /\ a = tx.payer => PaymentDelta(tx, a) >= -GrossAmount(tx.items)
        /\ a # tx.payer => PaymentDelta(tx, a) >= 0
    BY <1>1, <1>5, PaymentDeltaBounds
  <2> QED
    BY <1>1, <2>1, <2>2
<1>9. AbsentHoldsNothing'
  <2> SUFFICES ASSUME NEW a \in AccountIDs, state'.type[a] = Absent
               PROVE  state'.balance[a] = 0
    BY DEF AbsentHoldsNothing
  <2>1. /\ state.type[a] = Absent
        /\ a # tx.payee /\ a \notin WrittenTaxAccounts(tx.items)
    <3>1. state'.type[a] = IF /\ state.type[a] = Absent
                              /\ a \in {tx.payee} \cup WrittenTaxAccounts(tx.items)
                           THEN Blank ELSE state.type[a]
      BY <1>4, <1>6
    <3> QED
      BY <3>1 DEF Blank, Absent
  <2>2. a # tx.payer
    BY <1>1, <2>1 DEF Exists
  <2>3. Credit(tx.items, a) = 0
    BY <1>1, <2>1, UnwrittenGetsNothing
  <2>4. PaymentDelta(tx, a) = 0
    BY <2>1, <2>2, <2>3 DEF PaymentDelta
  <2>5. s.balance[a] = 0
    BY <1>4, <2>1, <2>4 DEF Inv, AbsentHoldsNothing
  <2> QED
    BY <1>6, <2>5, WrapNat, SplitsAssumption
<1>10. ClosedCannotSign'
  BY <1>4, <1>6 DEF Inv, ClosedCannotSign
<1> QED
  BY <1>7, <1>8, <1>9, <1>10 DEF Inv

(* A creation makes an empty account and its key together.                 *)
LEMMA CreateInv ==
    ASSUME Inv, NEW tx \in Creates, Create(tx)
    PROVE  Inv'
<1>1. tx.account \in AccountIDs /\ tx \in AccountCreateTransaction
  BY TransactionsAssumption DEF AccountCreateTransaction
<1>2. /\ tx.type \in Closable /\ ValidCreate(tx, state)
      /\ state' = ApplyCreate(tx, state) /\ exact' = exact
  BY DEF Create, ValidCreate
<1>3. state \in State /\ state' \in State
  BY <1>1, <1>2, ApplyTyped DEF Inv, TypeOK
<1>4. /\ state'.type = [state.type EXCEPT ![tx.account] = tx.type]
      /\ state'.balance = [state.balance EXCEPT ![tx.account] = 0]
      /\ state'.key = [state.key EXCEPT ![tx.account] = tx.key]
  BY <1>2 DEF ApplyCreate
<1>5. TypeOK'
  <2>1. ASSUME NEW a \in AccountIDs
        PROVE  state'.balance[a] \in -HalfWord .. HalfWord - 1
    <3>1. state'.balance[a] = state.balance[a] \/ state'.balance[a] = 0
      BY <1>3, <1>4 DEF State
    <3>2. 0 \in -HalfWord .. HalfWord - 1
      BY SplitsAssumption
    <3> QED
      BY <3>1, <3>2 DEF Inv, TypeOK
  <2> QED
    BY <1>2, <1>3, <2>1 DEF Inv, TypeOK
<1>6. NonNegative' /\ AbsentHoldsNothing'
  BY <1>2, <1>3, <1>4 DEF Inv, State, NonNegative, AbsentHoldsNothing
<1>7. ClosedCannotSign'
  BY <1>1, <1>2, <1>3, <1>4
  DEF Inv, State, ClosedCannotSign, Closable, Person, Merchant, Absent, Blank
<1> QED
  BY <1>5, <1>6, <1>7 DEF Inv

(* A closure deletes account and key together; its money goes to an        *)
(* account that exists.                                                    *)
LEMMA CloseInv ==
    ASSUME Inv, NEW tx \in Closes, Close(tx)
    PROVE  Inv'
<1> DEFINE s == ApplyClose(tx, state)
           a0 == tx.account
           moved == IF state.type[a0] = Person THEN state.balance[a0] ELSE 0
<1>1. /\ a0 \in AccountIDs /\ tx \in AccountCloseTransaction
      /\ ValidClose(tx, state)
  BY TransactionsAssumption DEF AccountCloseTransaction, Close
<1>2. state \in State
  BY DEF Inv, TypeOK
<1>3. s \in State
  BY <1>1, <1>2, ApplyTyped
<1>4. moved \in Int
  BY <1>1, <1>2 DEF State
<1>5. /\ s.type = [state.type EXCEPT ![a0] = Absent]
      /\ s.key = [state.key EXCEPT ![a0] = NoKey]
      /\ \A a \in AccountIDs :
            s.balance[a] = IF a = a0 THEN 0
                           ELSE IF moved > 0 /\ a = CloseDestination(tx)
                                THEN state.balance[a] + moved ELSE state.balance[a]
  BY DEF ApplyClose
<1>6. /\ state' = InWords(s)
      /\ exact' => exact /\ state' = s
      /\ exact' \in BOOLEAN
  BY DEF Close
<1> HIDE DEF s, a0, moved
<1>7. /\ state' \in State /\ state'.type = s.type /\ state'.key = s.key
      /\ \A a \in AccountIDs : /\ state'.balance[a] = Wrap(s.balance[a])
                               /\ state'.balance[a] \in -HalfWord .. HalfWord - 1
  BY <1>3, <1>6, InWordsState
<1>8. TypeOK'
  BY <1>6, <1>7 DEF TypeOK
<1>9. NonNegative'
  BY <1>2, <1>4, <1>5, <1>6 DEF Inv, State, NonNegative
<1>10. AbsentHoldsNothing'
  <2> SUFFICES ASSUME NEW a \in AccountIDs, state'.type[a] = Absent
               PROVE  state'.balance[a] = 0
    BY DEF AbsentHoldsNothing
  <2>1. moved > 0 => state.type[CloseDestination(tx)] # Absent
    <3> SUFFICES ASSUME moved > 0
                 PROVE  state.type[CloseDestination(tx)] # Absent
      OBVIOUS
    <3>1. state.type[tx.account] = Person
      BY DEF moved, a0
    <3>2. ValidPersonClose(tx, state)
      BY <1>1, <3>1 DEF ValidClose, ValidMerchantClose, Person, Merchant
    <3> QED
      BY <3>2 DEF ValidPersonClose, Exists
  <2>2. a = a0 \/ state.type[a] = Absent
    BY <1>1, <1>2, <1>5, <1>7 DEF State
  <2>3. s.balance[a] = 0
    BY <1>5, <2>1, <2>2 DEF Inv, AbsentHoldsNothing
  <2> QED
    BY <1>7, <2>3, WrapNat, SplitsAssumption
<1>11. ClosedCannotSign'
  BY <1>1, <1>2, <1>5, <1>7 DEF Inv, State, ClosedCannotSign
<1> QED
  BY <1>8, <1>9, <1>10, <1>11 DEF Inv

(* Every step of the ledger keeps the invariant. *)
THEOREM NextInv == Inv /\ [Next]_vars => Inv'
<1> SUFFICES ASSUME Inv, [Next]_vars PROVE Inv'
  OBVIOUS
<1>1. CASE \E tx \in Payments : Payment(tx)
  BY <1>1, PaymentInv
<1>2. CASE \E tx \in Creates : Create(tx)
  BY <1>2, CreateInv
<1>3. CASE \E tx \in Closes : Close(tx)
  BY <1>3, CloseInv
<1>4. CASE UNCHANGED vars
  BY <1>4 DEF vars, Inv, TypeOK, NonNegative, AbsentHoldsNothing, ClosedCannotSign
<1> QED
  BY <1>1, <1>2, <1>3, <1>4 DEF Next

-----------------------------------------------------------------------------
(* The ledger's entries, balances and keys keep their types forever,       *)
(* whatever overflows.                                                     *)
THEOREM LedgerTypeOK == Spec => []TypeOK
<1>1. Spec => []Inv
  BY InitInv, NextInv, PTL DEF Spec
<1>2. Inv => TypeOK
  BY DEF Inv
<1> QED
  BY <1>1, <1>2, PTL

(* No account ever holds less than nothing before something overflows, for *)
(* any genesis and any transactions, those of treasuries included.         *)
THEOREM LedgerNonNegative == Spec => []NonNegative
<1>1. Spec => []Inv
  BY InitInv, NextInv, PTL DEF Spec
<1>2. Inv => NonNegative
  BY DEF Inv
<1> QED
  BY <1>1, <1>2, PTL

(* No closure, and no payment or creation after it, leaves a key behind    *)
(* for an account that is not open.                                        *)
THEOREM LedgerClosedCannotSign == Spec => []ClosedCannotSign
<1>1. Spec => []Inv
  BY InitInv, NextInv, PTL DEF Spec
<1>2. Inv => ClosedCannotSign
  BY DEF Inv
<1> QED
  BY <1>1, <1>2, PTL

-----------------------------------------------------------------------------
BlankStep ==
    \A a \in AccountIDs :
        state.type[a] = Blank =>
            /\ state'.type[a] = Blank
            /\ exact' => state'.balance[a] >= state.balance[a]

(* A step leaves a blank account blank and takes nothing from it: it has   *)
(* no key to pay or to be closed with, and it exists, so it cannot be      *)
(* created.                                                                *)
LEMMA BlankStays == Inv /\ Next => BlankStep
<1> SUFFICES ASSUME Inv, Next, NEW a \in AccountIDs, state.type[a] = Blank
             PROVE  /\ state'.type[a] = Blank
                    /\ exact' => state'.balance[a] >= state.balance[a]
  BY DEF BlankStep
<1>1. state.key[a] = NoKey
  BY DEF Inv, ClosedCannotSign
<1>2. state \in State /\ state.balance[a] \in Int
  BY DEF Inv, TypeOK, State
<1>3. ASSUME NEW tx \in Payments, Payment(tx)
      PROVE  /\ state'.type[a] = Blank
             /\ exact' => state'.balance[a] >= state.balance[a]
  <2> DEFINE s == ApplyPayment(tx, state)
  <2>1. /\ tx \in PaymentTransaction /\ ValidLines(tx.items)
        /\ ValidPayment(tx, state) /\ a # tx.payer
    BY <1>1, <1>3, TransactionsAssumption DEF Payment, ValidPayment
  <2>2. s \in State
    BY <1>2, <2>1, ApplyTyped
  <2>3. /\ s.type[a] = Blank
        /\ s.balance[a] = state.balance[a] + PaymentDelta(tx, a)
    BY DEF ApplyPayment, Blank, Absent
  <2>4. /\ state' = InWords(s)
        /\ exact' => state' = s /\ NothingOverflows(tx.items)
    BY <1>3 DEF Payment
  <2> HIDE DEF s
  <2>5. state'.type[a] = Blank
    BY <2>2, <2>3, <2>4, InWordsState
  <2>6. ASSUME exact' PROVE state'.balance[a] >= state.balance[a]
    <3>1. PaymentDelta(tx, a) \in Int /\ PaymentDelta(tx, a) >= 0
      BY <2>1, <2>4, <2>6, PaymentDeltaBounds
    <3> QED
      BY <1>2, <2>3, <2>4, <2>6, <3>1
  <2> QED
    BY <2>5, <2>6
<1>4. ASSUME NEW tx \in Creates, Create(tx)
      PROVE  /\ state'.type[a] = Blank
             /\ exact' => state'.balance[a] >= state.balance[a]
  <2>1. a # tx.account
    BY <1>4 DEF Create, ValidCreate, Exists, Blank, Absent
  <2> QED
    BY <1>2, <1>4, <2>1 DEF Create, ApplyCreate, State
<1>5. ASSUME NEW tx \in Closes, Close(tx)
      PROVE  /\ state'.type[a] = Blank
             /\ exact' => state'.balance[a] >= state.balance[a]
  <2> DEFINE s == ApplyClose(tx, state)
             moved == IF state.type[tx.account] = Person
                      THEN state.balance[tx.account] ELSE 0
  <2>1. /\ tx.account \in AccountIDs /\ tx \in AccountCloseTransaction
        /\ ValidClose(tx, state) /\ a # tx.account
    BY <1>1, <1>5, TransactionsAssumption
    DEF AccountCloseTransaction, Close, ValidClose
  <2>2. s \in State
    BY <1>2, <2>1, ApplyTyped
  <2>3. /\ s.type = [state.type EXCEPT ![tx.account] = Absent]
        /\ s.balance[a] = IF moved > 0 /\ a = CloseDestination(tx)
                          THEN state.balance[a] + moved ELSE state.balance[a]
    BY <2>1 DEF ApplyClose
  <2>4. moved \in Int
    BY <1>2, <2>1 DEF State
  <2>5. state' = InWords(s) /\ (exact' => state' = s)
    BY <1>5 DEF Close
  <2> HIDE DEF s, moved
  <2>6. s.type[a] = Blank
    BY <1>2, <2>1, <2>3 DEF State
  <2>7. state'.type[a] = Blank
    BY <2>2, <2>5, <2>6, InWordsState
  <2>8. s.balance[a] >= state.balance[a]
    BY <1>2, <2>3, <2>4
  <2> QED
    BY <2>5, <2>7, <2>8
<1> QED
  BY <1>3, <1>4, <1>5 DEF Next

(* What reaches an account after its closure is lost for good, whatever    *)
(* anyone submits afterwards.                                              *)
THEOREM LedgerBlankIsStuck == Spec => BlankIsStuck
<1>1. Spec => []Inv
  BY InitInv, NextInv, PTL DEF Spec
<1>2. Inv /\ [Next]_vars => [BlankStep]_vars
  BY BlankStays
<1>3. Spec => [][BlankStep]_vars
  BY <1>1, <1>2, PTL DEF Spec
<1> QED
  BY <1>3 DEF BlankIsStuck, BlankStep

(* No account without an entry holds money, whatever overflows: what       *)
(* SupplyConserved rests on when a creation sets a balance to 0.           *)
THEOREM LedgerAbsentHoldsNothing == Spec => []AbsentHoldsNothing
<1>1. Inv => AbsentHoldsNothing
  BY DEF Inv
<1> QED
  BY <1>1, InitInv, NextInv, PTL DEF Spec

-----------------------------------------------------------------------------
(* The genesis has the default destination of closures, as an account that *)
(* nobody can close.                                                       *)
GenesisHasTreasury == Genesis.type[DefaultTreasury] \notin Closable \cup {Absent}

TreasuryStays == state.type[DefaultTreasury] = Genesis.type[DefaultTreasury]

(* A payment gives a type to nobody who has one, a creation is only for an *)
(* account that does not exist, a closure for a person or a merchant: that *)
(* a treasury has a key and pays does not change its type.                 *)
LEMMA TreasuryStep ==
    ASSUME GenesisHasTreasury, Inv, TreasuryStays, [Next]_vars
    PROVE  TreasuryStays'
<1> DEFINE d == DefaultTreasury
<1>1. d \in AccountIDs /\ state \in State
  BY TransactionsAssumption DEF Inv, TypeOK
<1>2. state.type[d] # Absent /\ state.type[d] \notin Closable
  BY DEF GenesisHasTreasury, TreasuryStays
<1>3. ASSUME NEW tx \in Payments, Payment(tx)
      PROVE  state'.type[d] = state.type[d]
  <2> DEFINE s == ApplyPayment(tx, state)
  <2>1. s \in State /\ state' = InWords(s)
    BY <1>1, <1>3, ApplyTyped, TransactionsAssumption DEF Payment
  <2>2. s.type[d] = state.type[d]
    BY <1>1, <1>2 DEF ApplyPayment
  <2> HIDE DEF s
  <2> QED
    BY <2>1, <2>2, InWordsState
<1>4. ASSUME NEW tx \in Creates, Create(tx)
      PROVE  state'.type[d] = state.type[d]
  <2>1. d # tx.account
    BY <1>2, <1>4 DEF Create, ValidCreate, Exists
  <2> QED
    BY <1>1, <1>4, <2>1 DEF Create, ApplyCreate, State
<1>5. ASSUME NEW tx \in Closes, Close(tx)
      PROVE  state'.type[d] = state.type[d]
  <2> DEFINE s == ApplyClose(tx, state)
  <2>1. d # tx.account
    BY <1>2, <1>5 DEF Close, ValidClose, ValidPersonClose, ValidMerchantClose, Closable
  <2>2. s \in State /\ state' = InWords(s)
    BY <1>1, <1>5, ApplyTyped, TransactionsAssumption DEF Close
  <2>3. s.type = [state.type EXCEPT ![tx.account] = Absent]
    BY DEF ApplyClose
  <2> HIDE DEF s
  <2> QED
    BY <1>1, <2>1, <2>2, <2>3, InWordsState DEF State
<1>6. CASE UNCHANGED vars
  BY <1>6 DEF vars, TreasuryStays
<1> QED
  BY <1>3, <1>4, <1>5, <1>6 DEF Next, TreasuryStays

(* Where the default destination is, a person with a key can be closed to  *)
(* it.                                                                     *)
LEMMA TreasuryReceives ==
    ASSUME GenesisHasTreasury, TreasuryStays
    PROVE  PersonsCanClose
<1>1. Exists(state, DefaultTreasury)
  BY DEF Exists, GenesisHasTreasury, TreasuryStays
<1> QED
  BY <1>1 DEF PersonsCanClose, ValidClose, ValidPersonClose, CloseDestination

(* Whatever happens before, a person's account can be closed to the        *)
(* default destination, in every genesis that has it.                      *)
THEOREM LedgerPersonsCanClose ==
    ASSUME GenesisHasTreasury
    PROVE  Spec => []PersonsCanClose
<1>1. Init => TreasuryStays
  BY DEF Init, TreasuryStays
<1>2. Inv /\ TreasuryStays /\ [Next]_vars => TreasuryStays'
  BY TreasuryStep
<1>3. TreasuryStays => PersonsCanClose
  BY TreasuryReceives
<1> QED
  BY <1>1, <1>2, <1>3, InitInv, NextInv, PTL DEF Spec

-----------------------------------------------------------------------------
(* The supply is a sum over a set, as Rules_proofs has it.                 *)
LEMMA SupplyIsSum ==
    ASSUME NEW s
    PROVE  Supply(s) = SumOver(s.balance, AccountIDs)
BY DEF Supply, SumOver

(* A payment that does not overflow hands out what it takes.               *)
LEMMA PaymentSupply ==
    ASSUME Inv, NEW tx \in Payments, ValidPayment(tx, state),
           NothingOverflows(tx.items)
    PROVE  Supply(ApplyPayment(tx, state)) = Supply(state)
<1> DEFINE delta == [a \in AccountIDs |-> PaymentDelta(tx, a)]
           t == ApplyPayment(tx, state)
           old == state.balance
           new == t.balance
<1>1. /\ Sound(tx.items) /\ tx.payer \in AccountIDs /\ tx.payee \in AccountIDs
  BY TransactionsAssumption DEF PaymentTransaction, Sound, ValidPayment
<1>2. /\ \A a \in AccountIDs : PaymentDelta(tx, a) \in Int
      /\ SumOver(delta, AccountIDs) = 0
  BY <1>1, PaymentMoves, AccountsAssumption
<1>3. \A a \in AccountIDs : /\ new[a] = old[a] + delta[a]
                            /\ old[a] \in Int /\ delta[a] \in Int
  BY <1>2 DEF ApplyPayment, Inv, TypeOK, State
<1>4. AddsUp(new, old, delta, AccountIDs)
  BY <1>3 DEF AddsUp
<1>5. Supply(t) = SumOver(new, AccountIDs) /\ Supply(state) = SumOver(old, AccountIDs)
  BY SupplyIsSum
<1> HIDE DEF old, new, delta, t
<1>6. SumOver(old, AccountIDs) \in Int
  BY <1>3, AccountsAssumption, SetSumInt
<1>7. SumOver(new, AccountIDs) = SumOver(old, AccountIDs) + SumOver(delta, AccountIDs)
  BY <1>4, AccountsAssumption, SetSumAdd
<1>8. Supply(t) = Supply(state)
  BY <1>2, <1>5, <1>6, <1>7
<1> QED
  BY <1>8 DEF t

(* A creation is of an account that held nothing before.                   *)
LEMMA CreateSupply ==
    ASSUME Inv, NEW tx \in Creates, Create(tx)
    PROVE  Supply(state') = Supply(state)
<1>1. tx.account \in AccountIDs
  BY TransactionsAssumption DEF AccountCreateTransaction
<1>2. state.balance[tx.account] = 0
  BY <1>1 DEF Create, ValidCreate, Exists, Inv, AbsentHoldsNothing
<1>3. state'.balance = [state.balance EXCEPT ![tx.account] = 0]
  BY DEF Create, ApplyCreate
<1>4. \A a \in AccountIDs : state'.balance[a] = state.balance[a]
  BY <1>2, <1>3 DEF Inv, TypeOK, State
<1>5. SumOver(state'.balance, AccountIDs) = SumOver(state.balance, AccountIDs)
  BY <1>4, AccountsAssumption, SetSumSame
<1> QED
  BY <1>5, SupplyIsSum

(* A closure moves what the account has, if it has anything: then it is a  *)
(* person's, and another account gets it.                                  *)
LEMMA CloseSupply ==
    ASSUME Inv, exact, NEW tx \in Closes, ValidClose(tx, state)
    PROVE  Supply(ApplyClose(tx, state)) = Supply(state)
<1> DEFINE A == AccountIDs
           t == ApplyClose(tx, state)
           a0 == tx.account
           m == state.balance[a0]
           dest == CloseDestination(tx)
           moved == IF state.type[a0] = Person THEN m ELSE 0
           old == state.balance
           new == t.balance
<1>1. a0 \in A /\ dest \in A
  BY TransactionsAssumption DEF AccountCloseTransaction, CloseDestination
<1>2. m \in Nat /\ \A a \in A : old[a] \in Int
  BY <1>1 DEF Inv, TypeOK, State, NonNegative
<1>3. /\ moved = m
      /\ m # 0 => dest # a0
  BY <1>1 DEF ValidClose, ValidPersonClose, ValidMerchantClose, Person, Merchant
<1>4. new = [a \in A |-> IF a = a0 THEN 0
                         ELSE IF moved > 0 /\ a = dest
                              THEN old[a] + moved ELSE old[a]]
  BY DEF ApplyClose
<1>5. \A a \in A : new[a] = IF a = a0 THEN 0
                            ELSE IF m > 0 /\ a = dest THEN old[a] + m ELSE old[a]
  BY <1>3, <1>4
<1>6. /\ old[a0] = m
      /\ Supply(t) = SumOver(new, A) /\ Supply(state) = SumOver(old, A)
  BY SupplyIsSum
<1> HIDE DEF m, dest, moved, old, new, a0, A, t
<1>7. ASSUME m = 0 PROVE Supply(t) = Supply(state)
  <2>1. \A a \in A : new[a] = old[a]
    BY <1>1, <1>2, <1>5, <1>6, <1>7
  <2>2. SumOver(new, A) = SumOver(old, A)
    BY <2>1, AccountsAssumption, SetSumSame DEF A
  <2> QED
    BY <1>6, <2>2
<1>8. ASSUME m # 0 PROVE Supply(t) = Supply(state)
  <2> DEFINE lost == [a \in A |-> IF a = a0 THEN -m ELSE 0]
             left == [a \in A |-> IF a = a0 THEN 0 ELSE old[a]]
             gain == [a \in A |-> IF a = dest THEN m ELSE 0]
  <2>1. \A a \in A : /\ lost[a] = IF a = a0 THEN -m ELSE 0
                     /\ left[a] = IF a = a0 THEN 0 ELSE old[a]
                     /\ gain[a] = IF a = dest THEN m ELSE 0
                     /\ lost[a] \in Int /\ left[a] \in Int /\ gain[a] \in Int
    BY <1>2
  <2> HIDE DEF lost, left, gain
  <2>2. AddsUp(left, old, lost, A)
    BY <1>2, <1>6, <2>1 DEF AddsUp
  <2>3. AddsUp(new, left, gain, A)
    BY <1>2, <1>3, <1>5, <1>8, <2>1 DEF AddsUp
  <2>4. IsFiniteSet(A)
    BY AccountsAssumption DEF A
  <2>5. SumOver(gain, A) = m
    <3>1. m \in Int /\ \A a \in A : gain[a] = IF a = dest THEN m ELSE 0
      BY <1>2, <2>1
    <3> QED
      BY <1>1, <2>4, <3>1, SetSumPoint
  <2>6. SumOver(lost, A) = -m
    <3> DEFINE k == -m
    <3>1. k \in Int /\ \A a \in A : lost[a] = IF a = a0 THEN k ELSE 0
      BY <1>2, <2>1
    <3> HIDE DEF k
    <3>2. SumOver(lost, A) = k
      BY <1>1, <2>4, <3>1, SetSumPoint
    <3> QED
      BY <3>2 DEF k
  <2>7. SumOver(left, A) = SumOver(old, A) + SumOver(lost, A)
    BY <2>2, <2>4, SetSumAdd
  <2>8. SumOver(new, A) = SumOver(left, A) + SumOver(gain, A)
    BY <2>3, <2>4, SetSumAdd
  <2>9. SumOver(old, A) \in Int
    BY <1>2, <2>4, SetSumInt
  <2>10. SumOver(new, A) = SumOver(old, A)
    BY <1>2, <2>5, <2>6, <2>7, <2>8, <2>9
  <2> QED
    BY <1>6, <2>10
<1> QED
  BY <1>7, <1>8 DEF t

(* Every step keeps the supply, unless it overflows.                       *)
LEMMA SupplyStep ==
    ASSUME Inv, SupplyConserved, [Next]_vars
    PROVE  SupplyConserved'
<1> SUFFICES ASSUME exact' PROVE exact /\ Supply(state') = Supply(state)
  BY DEF SupplyConserved
<1>1. ASSUME NEW tx \in Payments, Payment(tx)
      PROVE  exact /\ Supply(state') = Supply(state)
  <2>1. /\ exact /\ NothingOverflows(tx.items) /\ state' = ApplyPayment(tx, state)
        /\ ValidPayment(tx, state)
    BY <1>1 DEF Payment
  <2> QED
    BY <2>1, PaymentSupply
<1>2. ASSUME NEW tx \in Creates, Create(tx)
      PROVE  exact /\ Supply(state') = Supply(state)
  BY <1>2, CreateSupply DEF Create
<1>3. ASSUME NEW tx \in Closes, Close(tx)
      PROVE  exact /\ Supply(state') = Supply(state)
  <2>1. exact /\ state' = ApplyClose(tx, state) /\ ValidClose(tx, state)
    BY <1>3 DEF Close
  <2> QED
    BY <2>1, CloseSupply
<1>4. CASE UNCHANGED vars
  BY <1>4 DEF vars
<1> QED
  BY <1>1, <1>2, <1>3, <1>4 DEF Next

(* No payment, however its taxes are rounded and whoever its accounts are, *)
(* no creation and no closure makes money or loses any: for every genesis, *)
(* every table of taxes and all transactions, until a sum overflows.       *)
THEOREM LedgerSupplyConserved == Spec => []SupplyConserved
<1>1. Init => SupplyConserved
  BY DEF Init, SupplyConserved
<1>2. Inv /\ SupplyConserved /\ [Next]_vars => SupplyConserved'
  BY SupplyStep
<1> QED
  BY <1>1, <1>2, InitInv, NextInv, PTL DEF Spec

-----------------------------------------------------------------------------
(* Where the supply fits a word, storing a state that has no negative      *)
(* balance and adds up to it changes nothing.                              *)
LEMMA SupplyFits ==
    ASSUME NEW s \in State, \A a \in AccountIDs : s.balance[a] >= 0,
           Supply(s) < HalfWord
    PROVE  InWords(s) = s
<1> DEFINE f == s.balance
<1>1. \A a \in AccountIDs : f[a] \in Nat
  BY DEF State
<1>2. Supply(s) = SumOver(f, AccountIDs)
  BY SupplyIsSum
<1> HIDE DEF f
<1>3. \A a \in AccountIDs : f[a] <= SumOver(f, AccountIDs)
  BY <1>1, AccountsAssumption, SetSumNat
<1>4. SumOver(f, AccountIDs) \in Int
  BY <1>1, AccountsAssumption, SetSumInt
<1>5. \A a \in AccountIDs : s.balance[a] \in 0 .. HalfWord - 1
  BY <1>1, <1>2, <1>3, <1>4, SplitsAssumption DEF f
<1> QED
  BY <1>5, InWordsFits

(* A payment that does not overflow by itself is computed exactly ...      *)
LEMMA PaymentFits ==
    ASSUME Inv, SupplyConserved, exact, Supply(Genesis) < HalfWord,
           NEW tx \in Payments, Payment(tx), NothingOverflows(tx.items)
    PROVE  exact'
<1> DEFINE s == ApplyPayment(tx, state)
<1>1. /\ tx \in PaymentTransaction /\ ValidPayment(tx, state)
      /\ ValidLines(tx.items) /\ state.balance[tx.payer] >= GrossAmount(tx.items)
      /\ state' = InWords(s) /\ exact' = (state' = s)
  BY TransactionsAssumption DEF Payment, ValidPayment
<1>2. state \in State /\ \A a \in AccountIDs : state.balance[a] \in Nat
  BY DEF Inv, TypeOK, NonNegative, State
<1>3. s \in State
  BY <1>1, <1>2, ApplyTyped
<1>4. ASSUME NEW a \in AccountIDs PROVE s.balance[a] >= 0
  <2>1. s.balance[a] = state.balance[a] + PaymentDelta(tx, a)
    BY DEF ApplyPayment
  <2>2. /\ PaymentDelta(tx, a) \in Int /\ GrossAmount(tx.items) \in Nat
        /\ a = tx.payer => PaymentDelta(tx, a) >= -GrossAmount(tx.items)
        /\ a # tx.payer => PaymentDelta(tx, a) >= 0
    BY <1>1, PaymentDeltaBounds
  <2> HIDE DEF s
  <2> QED
    BY <1>1, <1>2, <2>1, <2>2
<1>5. Supply(s) < HalfWord
  BY <1>1, PaymentSupply DEF SupplyConserved
<1> HIDE DEF s
<1> QED
  BY <1>1, <1>3, <1>4, <1>5, SupplyFits

(* ... and so is every closure.                                            *)
LEMMA CloseFits ==
    ASSUME Inv, SupplyConserved, exact, Supply(Genesis) < HalfWord,
           NEW tx \in Closes, Close(tx)
    PROVE  exact'
<1> DEFINE s == ApplyClose(tx, state)
           moved == IF state.type[tx.account] = Person
                    THEN state.balance[tx.account] ELSE 0
<1>1. /\ tx \in AccountCloseTransaction /\ ValidClose(tx, state)
      /\ tx.account \in AccountIDs
      /\ state' = InWords(s) /\ exact' = (state' = s)
  BY TransactionsAssumption DEF AccountCloseTransaction, Close
<1>2. state \in State /\ \A a \in AccountIDs : state.balance[a] \in Nat
  BY DEF Inv, TypeOK, NonNegative, State
<1>3. s \in State
  BY <1>1, <1>2, ApplyTyped
<1>4. ASSUME NEW a \in AccountIDs PROVE s.balance[a] >= 0
  <2>1. moved \in Nat
    BY <1>1, <1>2
  <2>2. s.balance[a] = IF a = tx.account THEN 0
                       ELSE IF moved > 0 /\ a = CloseDestination(tx)
                            THEN state.balance[a] + moved ELSE state.balance[a]
    BY DEF ApplyClose
  <2> HIDE DEF s, moved
  <2> QED
    BY <1>2, <2>1, <2>2
<1>5. Supply(s) < HalfWord
  BY <1>1, CloseSupply DEF SupplyConserved
<1> HIDE DEF s
<1> QED
  BY <1>1, <1>3, <1>4, <1>5, SupplyFits

OverflowStep ==
    Supply(Genesis) < HalfWord /\ exact /\ ~exact' =>
        \E tx \in Payments : Payment(tx) /\ ~NothingOverflows(tx.items)

(* Balances never overflow by themselves: in every genesis whose money     *)
(* fits a word, the arithmetic of the ledger is exact until a payment is   *)
(* accepted whose own lines overflow.                                      *)
THEOREM LedgerOnlyLinesOverflow == Spec => OnlyLinesOverflow
<1>1. Inv /\ SupplyConserved /\ [Next]_vars => [OverflowStep]_vars
  <2> SUFFICES ASSUME Inv, SupplyConserved, Next, Supply(Genesis) < HalfWord,
                      exact, ~exact'
               PROVE  \E tx \in Payments : Payment(tx) /\ ~NothingOverflows(tx.items)
    BY DEF OverflowStep
  <2>1. ~\E tx \in Closes : Close(tx)
    BY CloseFits
  <2>2. ~\E tx \in Creates : Create(tx)
    BY DEF Create
  <2> QED
    BY <2>1, <2>2, PaymentFits DEF Next
<1>2. Spec => []Inv
  BY InitInv, NextInv, PTL DEF Spec
<1>3. Spec => [][OverflowStep]_vars
  BY <1>1, <1>2, LedgerSupplyConserved, PTL DEF Spec
<1> QED
  BY <1>3 DEF OnlyLinesOverflow, OverflowStep
=============================================================================
