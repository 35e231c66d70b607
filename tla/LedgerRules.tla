---------------------------- MODULE LedgerRules ----------------------------
(***************************************************************************)
(* The rules of the ledger (internal/ledger/state.go): for each kind of    *)
(* transaction when it is valid in a state (the Validate functions) and    *)
(* the state it leads to (the Apply functions), and what a block does.     *)
(*                                                                         *)
(* A state is a record of functions on account ids:                        *)
(*   type     Absent when the map of accounts has no entry, Blank for an   *)
(*            entry whose type is the empty string;                        *)
(*   balance  0 when there is no entry, what reading the map returns;      *)
(*   key      the public key of the account, NoKey when there is none.     *)
(*                                                                         *)
(* A signature is the key that made it. The balances that an Apply function *)
(* computes are not wrapped here: Ledger stores them as words, and shows   *)
(* that only a payment whose lines overflow makes that a difference.       *)
(***************************************************************************)
EXTENDS Splits

CONSTANTS
    Keys,             \* key pairs of accounts and validators
    NoKey,            \* no public key, or no signature
    ValidatorKeys,    \* of the validators in the genesis
    Unspecified,      \* the empty destination of a close
    DefaultTreasury,  \* "federal_treasury"
    Genesis           \* the state BuildInitialState makes

Person   == "person"
Merchant == "merchant"
Treasury == "treasury"
Blank    == ""
Absent   == "absent"

AccountTypes == {Person, Merchant, Treasury, Blank, Absent}

(* The account types a transaction may create or close. *)
Closable == {Person, Merchant}

State == [type    : [AccountIDs -> AccountTypes],
          balance : [AccountIDs -> Int],
          key     : [AccountIDs -> Keys \cup {NoKey}]]

PaymentTransaction ==
    [id     : STRING,
     payer  : AccountIDs,
     payee  : AccountIDs,
     items  : Seq(LineItem),
     signer : Keys \cup {NoKey}]

AccountCreateTransaction ==
    [id      : STRING,
     account : AccountIDs,
     type    : AccountTypes,
     balance : Int,
     key     : Keys \cup {NoKey},
     signer  : Keys \cup {NoKey}]

AccountCloseTransaction ==
    [id          : STRING,
     account     : AccountIDs,
     key         : Keys \cup {NoKey},
     destination : AccountIDs \cup {Unspecified},
     signer      : Keys \cup {NoKey}]

Exists(s, a) == s.type[a] # Absent

-----------------------------------------------------------------------------
(***************************************************************************)
(* Payments.                                                               *)
(***************************************************************************)
(* Faulty: does not look at the balance. *)
ValidPaymentOnCredit(tx, s) ==
    /\ ValidLines(tx.items)
    /\ Exists(s, tx.payer)
    /\ tx.signer # NoKey
    /\ s.key[tx.payer] = tx.signer

ValidPayment(tx, s) ==
    /\ ValidLines(tx.items)
    /\ Exists(s, tx.payer)
    /\ s.balance[tx.payer] >= GrossAmount(tx.items)
    /\ tx.signer # NoKey
    /\ s.key[tx.payer] = tx.signer

(* Faulty: the payee gets the gross amount, taxes and discounts included. *)
PaymentDeltaGross(tx, a) ==
      (IF a = tx.payer THEN -GrossAmount(tx.items) ELSE 0)
    + (IF a = tx.payee THEN GrossAmount(tx.items) ELSE 0)
    + Credit(tx.items, a)

(* What the payment adds to the balance of a. Payer, payee and tax         *)
(* accounts may coincide: the code adds to each entry what it just wrote.  *)
PaymentDelta(tx, a) ==
      (IF a = tx.payer THEN -GrossAmount(tx.items) ELSE 0)
    + (IF a = tx.payee THEN NetToPayee(tx.items) ELSE 0)
    + Credit(tx.items, a)

(* Faulty: makes no entry for an account that has none. *)
ApplyPaymentNoEntry(tx, s) ==
    [s EXCEPT !.balance =
        [a \in AccountIDs |-> s.balance[a] + PaymentDelta(tx, a)]]

(* Neither the payee nor a tax account needs an entry: writing the balance *)
(* of an absent account makes an entry of the empty type.                  *)
ApplyPayment(tx, s) ==
    [type    |-> [a \in AccountIDs |->
                     IF /\ s.type[a] = Absent
                        /\ a \in {tx.payee} \cup WrittenTaxAccounts(tx.items)
                     THEN Blank ELSE s.type[a]],
     balance |-> [a \in AccountIDs |-> s.balance[a] + PaymentDelta(tx, a)],
     key     |-> s.key]

-----------------------------------------------------------------------------
(***************************************************************************)
(* Account creations, signed by a validator.                               *)
(***************************************************************************)
(* Faulty: an account may be created over an existing one. *)
ValidCreateAnyAccount(tx, s) ==
    /\ tx.type \in Closable
    /\ tx.balance = 0
    /\ tx.key # NoKey
    /\ tx.signer \in ValidatorKeys

ValidCreate(tx, s) ==
    /\ tx.type \in Closable
    /\ tx.balance = 0
    /\ ~Exists(s, tx.account)
    /\ tx.key # NoKey
    /\ tx.signer \in ValidatorKeys

ApplyCreate(tx, s) ==
    [type    |-> [s.type    EXCEPT ![tx.account] = tx.type],
     balance |-> [s.balance EXCEPT ![tx.account] = 0],
     key     |-> [s.key     EXCEPT ![tx.account] = tx.key]]

-----------------------------------------------------------------------------
(***************************************************************************)
(* Account closures: a person's by a validator, the balance going to the   *)
(* destination; a merchant's by its owner, once it is empty.               *)
(***************************************************************************)
CloseDestination(tx) ==
    IF tx.destination = Unspecified THEN DefaultTreasury ELSE tx.destination

ValidPersonClose(tx, s) ==
    /\ s.type[tx.account] = Person
    /\ CloseDestination(tx) # tx.account
    /\ Exists(s, CloseDestination(tx))
    /\ tx.signer \in ValidatorKeys

ValidMerchantClose(tx, s) ==
    /\ s.type[tx.account] = Merchant
    /\ s.balance[tx.account] = 0
    /\ tx.destination = Unspecified
    /\ tx.signer = s.key[tx.account]

ValidClose(tx, s) ==
    /\ tx.key # NoKey
    /\ s.key[tx.account] = tx.key
    /\ ValidPersonClose(tx, s) \/ ValidMerchantClose(tx, s)

(* Faulty: a person's balance is deleted with the account. *)
ApplyCloseKeepsNothing(tx, s) ==
    [type    |-> [s.type    EXCEPT ![tx.account] = Absent],
     balance |-> [s.balance EXCEPT ![tx.account] = 0],
     key     |-> [s.key     EXCEPT ![tx.account] = NoKey]]

(* Faulty: the key outlives the account. *)
ApplyCloseKeepsKey(tx, s) ==
    [ApplyCloseKeepsNothing(tx, s) EXCEPT !.key = s.key]

(* Faulty: an empty key takes the place of the key. *)
ApplyCloseEmptyKey(tx, s) ==
    [ApplyCloseKeepsNothing(tx, s) EXCEPT !.key[tx.account] = Unspecified]

ApplyClose(tx, s) ==
    LET moved == IF s.type[tx.account] = Person THEN s.balance[tx.account] ELSE 0
    IN  [type    |-> [s.type EXCEPT ![tx.account] = Absent],
         balance |-> [a \in AccountIDs |->
                         IF a = tx.account THEN 0
                         ELSE IF moved > 0 /\ a = CloseDestination(tx)
                              THEN s.balance[a] + moved ELSE s.balance[a]],
         key     |-> [s.key EXCEPT ![tx.account] = NoKey]]

-----------------------------------------------------------------------------
(***************************************************************************)
(* A block applies its creations, then its payments, then its closures,    *)
(* all of them or none: a set of states holds the one state reached so     *)
(* far, or nothing once a transaction was refused.                         *)
(***************************************************************************)
CreateIn(states, tx) ==
    {ApplyCreate(tx, s) : s \in {t \in states : ValidCreate(tx, t)}}

PaymentIn(states, tx) ==
    {ApplyPayment(tx, s) : s \in {t \in states : ValidPayment(tx, t)}}

CloseIn(states, tx) ==
    {ApplyClose(tx, s) : s \in {t \in states : ValidClose(tx, t)}}

ApplyTransactions(block, s) ==
    LET created == FoldLeft(CreateIn, {s}, block.creates)
        paid    == FoldLeft(PaymentIn, created, block.payments)
    IN  FoldLeft(CloseIn, paid, block.closes)

(* The state after a block that is valid. *)
StateAfter(block, s) == CHOOSE t \in ApplyTransactions(block, s) : TRUE
=============================================================================
