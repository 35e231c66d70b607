------------------------------- MODULE Ledger -------------------------------
(***************************************************************************)
(* The ledger as a machine: any valid transaction may be applied next. The *)
(* code does not remember what it applied, so one may be applied again.    *)
(***************************************************************************)
EXTENDS LedgerRules, FiniteSetsExt

CONSTANTS
    Payments,   \* the transactions that may be submitted
    Creates,
    Closes

(* The genesis names accounts with balances that fit their words. The      *)
(* keystore may have a key for each of them, treasuries included; one of   *)
(* an account that the genesis does not have is not assumed.               *)
ASSUME GenesisAssumption ==
    /\ Genesis \in State
    /\ \A a \in AccountIDs :
          /\ Genesis.balance[a] \in 0 .. HalfWord - 1
          /\ Genesis.type[a] = Absent => Genesis.balance[a] = 0
          /\ Genesis.key[a] # NoKey => Genesis.type[a] \notin {Absent, Blank}

ASSUME KeysAssumption == NoKey \notin Keys /\ ValidatorKeys \subseteq Keys

ASSUME TransactionsAssumption ==
    /\ Payments \subseteq PaymentTransaction
    /\ Creates \subseteq AccountCreateTransaction
    /\ Closes \subseteq AccountCloseTransaction
    /\ Unspecified \notin AccountIDs
    /\ DefaultTreasury \in AccountIDs

(* Tax accounts are accounts, and there are finitely many.                 *)
ASSUME AccountsAssumption ==
    AllowedTaxAccounts \subseteq AccountIDs /\ IsFiniteSet(AccountIDs)

VARIABLES
    state,
    exact  \* history: nothing computed for a balance has overflowed so far

vars == <<state, exact>>

(* The balances of a state as the words that store them. *)
InWords(s) == [s EXCEPT !.balance = [a \in AccountIDs |-> Wrap(s.balance[a])]]

Init == state = Genesis /\ exact = TRUE

Payment(tx) ==
    /\ ValidPayment(tx, state)
    /\ state' = InWords(ApplyPayment(tx, state))
    /\ exact' = /\ exact
                /\ NothingOverflows(tx.items)
                /\ state' = ApplyPayment(tx, state)

Create(tx) ==
    /\ ValidCreate(tx, state)
    /\ state' = ApplyCreate(tx, state)
    /\ UNCHANGED exact

Close(tx) ==
    /\ ValidClose(tx, state)
    /\ state' = InWords(ApplyClose(tx, state))
    /\ exact' = (exact /\ state' = ApplyClose(tx, state))

Next == \/ \E tx \in Payments : Payment(tx)
        \/ \E tx \in Creates  : Create(tx)
        \/ \E tx \in Closes   : Close(tx)

Spec == Init /\ [][Next]_vars

-----------------------------------------------------------------------------
TypeOK ==
    /\ state \in State
    /\ \A a \in AccountIDs : state.balance[a] \in -HalfWord .. HalfWord - 1
    /\ exact \in BOOLEAN

(* No sequence of payments, self-payments, payments by a tax account or    *)
(* closures drives a balance below 0 (ledger/state.go, 140), as long as    *)
(* no sum has overflowed.                                                  *)
NonNegative == exact => \A a \in AccountIDs : state.balance[a] >= 0

(* An account without an entry holds no money, whatever happened to it.    *)
AbsentHoldsNothing ==
    \A a \in AccountIDs : state.type[a] = Absent => state.balance[a] = 0

(* A closure deletes from two maps, accounts and keys, and a later payment *)
(* to the account writes one of them again: none of that leaves a key, or  *)
(* brings one back, to an account that is not open.                        *)
ClosedCannotSign ==
    \A a \in AccountIDs : state.type[a] \in {Absent, Blank} => state.key[a] = NoKey

Supply(s) == MapThenSumSet(LAMBDA a : s.balance[a], AccountIDs)

(* Taxes, discounts, rounding and closures only move money: the total is   *)
(* the genesis total until a sum overflows.                                *)
SupplyConserved == exact => Supply(state) = Supply(Genesis)

(* Where the money of the genesis fits a word, balances cannot overflow:   *)
(* what breaks the arithmetic of the ledger is a payment whose own lines   *)
(* add up to too much.                                                     *)
OnlyLinesOverflow ==
    [][Supply(Genesis) < HalfWord /\ exact /\ ~exact' =>
          \E tx \in Payments : Payment(tx) /\ ~NothingOverflows(tx.items)]_vars

(* Money that reaches an account after it was closed is out of reach: the  *)
(* entry of the empty type it makes (ledger/state.go, 199-201) can neither *)
(* pay, nor be closed, nor be created again.                               *)
BlankIsStuck ==
    [][\A a \in AccountIDs :
          state.type[a] = Blank =>
              /\ state'.type[a] = Blank
              /\ exact' => state'.balance[a] >= state.balance[a]]_vars

(* Any person can be closed without naming a destination, as the test      *)
(* TestApplyAccountClosePersonDefaultTreasury (ledger/state_test.go, 314)  *)
(* has it of a genesis without "federal_treasury".                         *)
PersonsCanClose ==
    \A a \in AccountIDs \ {DefaultTreasury}, v \in ValidatorKeys :
        state.type[a] = Person /\ state.key[a] # NoKey =>
            ValidClose([id |-> "close", account |-> a, key |-> state.key[a],
                        destination |-> Unspecified, signer |-> v], state)
=============================================================================
