------------------------------- MODULE Splits -------------------------------
(***************************************************************************)
(* The arithmetic of a payment (internal/domain/transaction.go): how the   *)
(* line items of a payment split into taxes, discounts and what is left    *)
(* for the payee, in the two's complement integers the code computes with. *)
(*                                                                         *)
(* A line item has its amount, the sequence of its tax codes and the       *)
(* sequence of its discounts.                                              *)
(***************************************************************************)
EXTENDS Integers, Sequences, SequencesExt

CONSTANTS
    Width,               \* bits of an amount: 64 in the code
    BasisPoints,         \* what rate_bps is divided by: 10000 in the code
    TaxSplit,            \* tax code -> [rate, account], from taxes.json
    AccountIDs,
    AllowedTaxAccounts   \* allowed_tax_accounts of the genesis

HalfWord == 2^(Width - 1)

(* That a power of 2 is a number follows from Width, but the proof system  *)
(* knows nothing about powers.                                             *)
ASSUME SplitsAssumption ==
    /\ Width \in Nat \ {0}
    /\ HalfWord \in Nat \ {0}
    /\ BasisPoints \in Nat \ {0}
    /\ \A code \in DOMAIN TaxSplit :
          /\ TaxSplit[code].rate \in Nat
          /\ TaxSplit[code].account \in AllowedTaxAccounts

TaxCodes == DOMAIN TaxSplit

LineDiscount == [amount : Int, account : AccountIDs]

LineItem == [amount : Int, codes : Seq(STRING), discounts : Seq(LineDiscount)]

(* The value a signed variable of Width bits holds after storing n. *)
Wrap(n) == ((n + HalfWord) % (2 * HalfWord)) - HalfWord

(* Integer division as Go does it, towards zero. *)
Quotient(n, d) == IF n >= 0 THEN n \div d ELSE -((-n) \div d)

(* The sum of f[x] for the elements x of a sequence, as unbounded integers *)
(* would compute it, and what a variable holds of it: wrapping once is     *)
(* wrapping after every addition.                                          *)
SumOf(f, seq) == FoldLeft(LAMBDA sum, x : sum + f[x], 0, seq)
Total(f, seq) == Wrap(SumOf(f, seq))

(***************************************************************************)
(* What the getters of a payment return.                                   *)
(***************************************************************************)
GrossAmount(items) == Total([item \in ToSet(items) |-> item.amount], items)

CodeTax(code, amount) ==
    Quotient(Wrap(TaxSplit[code].rate * amount), BasisPoints)

(* Faulty: adds the rates up and divides once. *)
ItemTaxTotalRoundedOnce(item) ==
    Quotient(Total([code \in ToSet(item.codes) |->
                       IF code \in TaxCodes
                       THEN TaxSplit[code].rate * item.amount ELSE 0], item.codes),
             BasisPoints)

ItemTaxTotal(item) ==
    Total([code \in ToSet(item.codes) |->
              IF code \in TaxCodes THEN CodeTax(code, item.amount) ELSE 0], item.codes)

TaxTotal(items) == Total([item \in ToSet(items) |-> ItemTaxTotal(item)], items)

ItemDiscountTotal(item) ==
    Total([d \in ToSet(item.discounts) |-> d.amount], item.discounts)

DiscountTotal(items) ==
    Total([item \in ToSet(items) |-> ItemDiscountTotal(item)], items)

NetToPayee(items) ==
    Wrap(GrossAmount(items) - TaxTotal(items) - DiscountTotal(items))

(***************************************************************************)
(* What applying a payment credits to tax account a, and the tax accounts  *)
(* it writes: a tax writes its account even when it rounds to nothing, a   *)
(* discount of 0 is skipped.                                               *)
(***************************************************************************)
ItemCredit(item, a) ==
    Total([code \in ToSet(item.codes) |->
              IF TaxSplit[code].account = a THEN CodeTax(code, item.amount) ELSE 0],
          item.codes)
    + Total([d \in ToSet(item.discounts) |->
                IF d.account = a THEN d.amount ELSE 0], item.discounts)

Credit(items, a) ==
    Total([item \in ToSet(items) |-> ItemCredit(item, a)], items)

WrittenTaxAccounts(items) ==
    UNION {   {TaxSplit[code].account : code \in ToSet(item.codes)}
           \cup {d.account : d \in {e \in ToSet(item.discounts) : e.amount # 0}}
           : item \in ToSet(items)}

(***************************************************************************)
(* The part of ValidateTransaction that looks at the lines only.           *)
(***************************************************************************)
ValidItem(item) ==
    /\ item.amount > 0
    /\ \A code \in ToSet(item.codes) :
          code \in TaxCodes /\ TaxSplit[code].account \in AllowedTaxAccounts
    /\ \A d \in ToSet(item.discounts) :
          d.amount >= 0 /\ d.account \in AllowedTaxAccounts

(* Faulty: accepts lines whose taxes and discounts exceed the gross. *)
ValidLinesAnyNet(items) ==
    /\ items # <<>>
    /\ \A item \in ToSet(items) : ValidItem(item)
    /\ GrossAmount(items) > 0

ValidLines(items) ==
    /\ items # <<>>
    /\ \A item \in ToSet(items) : ValidItem(item)
    /\ GrossAmount(items) > 0
    /\ Wrap(TaxTotal(items) + DiscountTotal(items) + NetToPayee(items))
          = GrossAmount(items)
    /\ NetToPayee(items) >= 0

-----------------------------------------------------------------------------
(* What the lines add up to, and what taxes and discounts take of them, in *)
(* numbers that are not wrapped.                                           *)
ExactGross(items) == SumOf([item \in ToSet(items) |-> item.amount], items)

ExactTax(item) ==
    SumOf([code \in ToSet(item.codes) |->
              Quotient(TaxSplit[code].rate * item.amount, BasisPoints)], item.codes)

ExactDiscount(item) ==
    SumOf([d \in ToSet(item.discounts) |-> d.amount], item.discounts)

ExactTaken(items) ==
    SumOf([item \in ToSet(items) |-> ExactTax(item) + ExactDiscount(item)], items)

NothingOverflows(items) ==
    /\ ExactGross(items) < HalfWord
    /\ ExactTaken(items) < HalfWord
    /\ \A item \in ToSet(items) : \A code \in ToSet(item.codes) :
          TaxSplit[code].rate * item.amount < HalfWord
=============================================================================
