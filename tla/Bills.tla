------------------------------- MODULE Bills -------------------------------
(***************************************************************************)
(* Bills of payments, built one line at a time: what the splits of a valid *)
(* one add up to, whatever its lines.                                      *)
(***************************************************************************)
EXTENDS Splits, FiniteSetsExt

CONSTANTS
    Lines,      \* the lines a bill may have
    MaxItems    \* bound: of their number

ASSUME BillsAssumption ==
    /\ Lines \subseteq LineItem /\ MaxItems \in Nat
    /\ IsFiniteSet(AllowedTaxAccounts)

VARIABLE items

Init == items = <<>>

AddItem(item) ==
    /\ Len(items) < MaxItems
    /\ items' = Append(items, item)

Next == \E item \in Lines : AddItem(item)

Spec == Init /\ [][Next]_items

-----------------------------------------------------------------------------
(* What ApplyTransaction hands out, account by account and rounded tax by  *)
(* tax, is what NetToPayee held back from the payee: nothing is created    *)
(* or lost in rounding, whatever overflows on the way.                     *)
NothingLostInRounding ==
    LET credits == [a \in AllowedTaxAccounts |-> Credit(items, a)]
    IN  ValidLines(items) =>
            Wrap(MapThenSumSet(LAMBDA a : credits[a], AllowedTaxAccounts)
                 + NetToPayee(items)) = GrossAmount(items)

(* As long as no sum outgrows its word, the payer of a valid bill pays     *)
(* exactly its lines, and taxes and discounts together never exceed them:  *)
(* it is the check of net >= 0 that bounds rates and discounts.            *)
SplitsStayWithinTheLines ==
    ValidLines(items) /\ NothingOverflows(items) =>
        /\ GrossAmount(items) = ExactGross(items)
        /\ ExactTaken(items) <= ExactGross(items)
=============================================================================
