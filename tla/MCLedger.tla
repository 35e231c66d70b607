------------------------------ MODULE MCLedger ------------------------------
(***************************************************************************)
(* A ledger of a person, a merchant, a second person that has to be        *)
(* created and the two treasuries of taxes.json, which pay too. The money  *)
(* of the genesis just fits a word. The kiosk, which nobody pays, can make *)
(* one payment: its lines overflow to 2, and the tax on them to -5.        *)
(***************************************************************************)
EXTENDS Ledger

CONSTANTS
    alice, bob, shop, kiosk, federal, city,
    kAlice, kBob, kShop, kKiosk, kFederal, kCity, kNew, kVal

Item(n, codes, discounts) ==
    [amount |-> n, codes |-> codes, discounts |-> discounts]
Discount(n, a) == [amount |-> n, account |-> a]
Pay(id, from, to, items, key) ==
    [id |-> id, payer |-> from, payee |-> to, items |-> items, signer |-> key]
Open(id, a, type, balance, key, by) ==
    [id |-> id, account |-> a, type |-> type, balance |-> balance,
     key |-> key, signer |-> by]
Shut(id, a, key, dest, by) ==
    [id |-> id, account |-> a, key |-> key, destination |-> dest, signer |-> by]

MCTaxSplit == ("IBS" :> [rate |-> 5000, account |-> federal])
           @@ ("CBS" :> [rate |-> 2500, account |-> city])

MCGenesis ==
    [type    |-> (alice :> Person @@ bob :> Absent @@ shop :> Merchant
                  @@ kiosk :> Merchant @@ federal :> Treasury @@ city :> Treasury),
     balance |-> (alice :> 6 @@ bob :> 0 @@ shop :> 1 @@ kiosk :> 2
                  @@ federal :> HalfWord - 11 @@ city :> 1),
     key     |-> (alice :> kAlice @@ bob :> NoKey @@ shop :> kShop
                  @@ kiosk :> kKiosk @@ federal :> kFederal @@ city :> kCity)]

(* The state of newTestState (ledger/state_test.go, 236-250): a merchant,  *)
(* a person who receives, no key but the merchant's and no treasury.       *)
MCStateOfTest ==
    [type    |-> [MCGenesis.type EXCEPT ![kiosk] = Absent, ![federal] = Absent,
                                        ![city] = Absent],
     balance |-> [a \in AccountIDs |-> IF a = shop THEN 10 ELSE 0],
     key     |-> [a \in AccountIDs |-> IF a = shop THEN kShop ELSE NoKey]]

MCPayments ==
    {Pay("sale", alice, shop, <<Item(3, <<"IBS", "CBS">>, <<>>),
                                Item(1, <<"CBS">>, <<>>)>>, kAlice),
     Pay("gift", alice, bob, <<Item(2, <<>>, <<>>)>>, kAlice),
     Pay("back", bob, alice, <<Item(1, <<>>, <<>>)>>, kBob),
     Pay("refund", shop, alice, <<Item(2, <<>>, <<Discount(1, city)>>)>>, kShop),
     Pay("self", alice, alice, <<Item(2, <<"IBS">>, <<>>)>>, kAlice),
     Pay("forged", alice, bob, <<Item(1, <<>>, <<>>)>>, kNew),
     Pay("unsigned", city, shop, <<Item(1, <<>>, <<>>)>>, NoKey),
     Pay("taxpayer", city, shop, <<Item(1, <<"IBS", "CBS">>, <<>>)>>, kCity),
     Pay("wrapped", kiosk, shop, <<Item(30, <<"CBS">>, <<>>), Item(65535, <<>>, <<>>),
                                   Item(65509, <<>>, <<>>)>>, kKiosk)}

MCCreates ==
    {Open("bob", bob, Person, 0, kBob, kVal),
     Open("alice again", alice, Person, 0, kNew, kVal),
     Open("shop again", shop, Merchant, 0, kShop, kVal),
     Open("rich", bob, Person, 5, kBob, kVal),
     Open("mint", bob, Treasury, 0, kBob, kVal),
     Open("unsigned", bob, Person, 0, kBob, kBob)}

MCCloses ==
    {Shut("alice", alice, kAlice, Unspecified, kVal),
     Shut("alice to bob", alice, kAlice, bob, kVal),
     Shut("alice to herself", alice, kAlice, alice, kVal),
     Shut("bob to shop", bob, kBob, shop, kVal),
     Shut("new alice", alice, kNew, shop, kVal),
     Shut("shop", shop, kShop, Unspecified, kShop),
     Shut("shop by validator", shop, kShop, Unspecified, kVal),
     Shut("city", city, kCity, Unspecified, kVal)}
=============================================================================
