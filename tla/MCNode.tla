------------------------------- MODULE MCNode -------------------------------
(***************************************************************************)
(* A node with a person, a merchant, an account to be created and the      *)
(* treasury. Each run makes some of the requests below.                    *)
(***************************************************************************)
EXTENDS Node

CONSTANTS alice, bob, shop, federal, kAlice, kBob, kBob2, kShop, kFederal, kVal

Item(n, codes) == [amount |-> n, codes |-> codes, discounts |-> <<>>]
Pay(id, from, to, item) ==
    [id |-> id, payer |-> from, payee |-> to, items |-> <<item>>]
Open(id, a, type, key) == [id |-> id, account |-> a, type |-> type, key |-> key]
Shut(id, a, dest, key) ==
    [id |-> id, account |-> a, destination |-> dest, key |-> key]

MCTaxSplit == "IBS" :> [rate |-> 5000, account |-> federal]

MCGenesis ==
    [type    |-> (alice :> Person @@ bob :> Absent @@ shop :> Merchant
                  @@ federal :> Treasury),
     balance |-> (alice :> 5 @@ bob :> 0 @@ shop :> 0 @@ federal :> 0),
     key     |-> (alice :> kAlice @@ bob :> NoKey @@ shop :> kShop
                  @@ federal :> kFederal)]

MCKeystore == <<[account |-> alice,   key |-> kAlice],
                [account |-> shop,    key |-> kShop],
                [account |-> federal, key |-> kFederal]>>

Sale    == Pay("sale", alice, shop, Item(3, <<"IBS">>))
Second  == Pay("second", alice, shop, Item(2, <<>>))
Gift    == Pay("gift", alice, bob, Item(1, <<>>))
Back    == Pay("back", bob, alice, Item(1, <<>>))

NewBob  == Open("new bob", bob, Person, kBob)
NewBob2 == Open("new bob again", bob, Person, kBob2)

EndBob   == Shut("end bob", bob, Unspecified, NoKey)
EndAlice == Shut("end alice", alice, Unspecified, NoKey)
EndShop  == Shut("end shop", shop, Unspecified, kShop)

(* Everything at once: alice leaves while she pays, shop while it is paid, *)
(* and she cannot afford all three of her payments.                        *)
BusyPayments == {Sale, Second, Gift}
BusyCreates  == {NewBob}
BusyCloses   == {EndAlice, EndShop}

(* An account that is created, paid to and paid from, closed and created   *)
(* again, across crashes.                                                  *)
CrashPayments == {Gift, Back}
CrashCreates  == {NewBob, NewBob2}
CrashCloses   == {EndBob}

(* One request of each kind that matters to a disagreement. *)
NoRequests  == {}
OneSale     == {Sale}
ClosingShop == {EndShop}
=============================================================================
