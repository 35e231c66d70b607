------------------------------ MODULE MCSplits ------------------------------
(***************************************************************************)
(* Every bill of at most MaxItems lines over small amounts. The words are  *)
(* Width bits wide, so sums and products overflow as they do at 64 bits.   *)
(***************************************************************************)
EXTENDS Bills, TLC

CONSTANTS Amounts, fed, sp, other

Discount(n, a) == [amount |-> n, account |-> a]

MCTaxSplit == ("IBS" :> [rate |-> 3, account |-> fed])
           @@ ("CBS" :> [rate |-> 2, account |-> sp])

MCLines ==
    [amount    : Amounts,
     codes     : {<<>>, <<"IBS">>, <<"IBS", "CBS">>, <<"ISS">>},
     discounts : {<<>>, <<Discount(2, fed), Discount(1, sp)>>,
                  <<Discount(1, other)>>, <<Discount(-1, fed)>>}]
=============================================================================
