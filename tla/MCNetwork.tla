----------------------------- MODULE MCNetwork -----------------------------
(***************************************************************************)
(* A network of two nodes, and what their clients submit.                  *)
(***************************************************************************)
EXTENDS Network

CONSTANTS n1, n2, alice, bob, shop, federal, kAlice, kBob, kShop, kFederal, kVal

Item(n) == [amount |-> n, codes |-> <<>>, discounts |-> <<>>]
Pay(node, id, from, to, n) ==
    [node |-> node, type |-> "payment",
     tx |-> [id |-> id, payer |-> from, payee |-> to, items |-> <<Item(n)>>,
             signer |-> IF from = alice THEN kAlice ELSE kShop]]

MCTaxSplit == "IBS" :> [rate |-> 5000, account |-> federal]

MCGenesis ==
    [type    |-> (alice :> Person @@ bob :> Absent @@ shop :> Merchant
                  @@ federal :> Treasury),
     balance |-> (alice :> 4 @@ bob :> 0 @@ shop :> 0 @@ federal :> 0),
     key     |-> (alice :> kAlice @@ bob :> NoKey @@ shop :> kShop
                  @@ federal :> kFederal)]

MCKeystore == <<[account |-> alice,   key |-> kAlice],
                [account |-> shop,    key |-> kShop],
                [account |-> federal, key |-> kFederal]>>

NewBob(node) ==
    [node |-> node, type |-> "create",
     tx |-> [id |-> "bob", account |-> bob, type |-> Person, balance |-> 0,
             key |-> kBob, signer |-> kVal]]
EndAlice(node) ==
    [node |-> node, type |-> "close",
     tx |-> [id |-> "end", account |-> alice, key |-> kAlice,
             destination |-> Unspecified, signer |-> kVal]]

(* alice can afford either of the two payments twice over, not both of     *)
(* them and again; each is submitted to a node of its own. Then she leaves.*)
Farewell ==
    {Pay(n1, "one", alice, shop, 2), Pay(n2, "two", alice, shop, 1), EndAlice(n2)}

(* Two blocks for a node that is behind. *)
TwoBlocks == {Pay(n1, "one", alice, shop, 2), NewBob(n1)}

SaleAtN1 == {Pay(n1, "one", alice, shop, 1)}
SaleAtN2 == {Pay(n2, "one", alice, shop, 1)}

OneValidator  == <<n1>>
TwoValidators == <<n1, n2>>

(* The second node of the Makefile dials the first, and both read and      *)
(* write config/keystore.json.                                             *)
OneDials == {<<n2, n1>>}
OneFile == n1 :> "config" @@ n2 :> "config"
=============================================================================
