----------------------------- MODULE Bootstrap -----------------------------
(***************************************************************************)
(* What a node starts from: the genesis and the keystore file, which give  *)
(* the first state (internal/node/bootstrap.go), and the blocks that it    *)
(* has stored, which are replayed over it (internal/chain/blockchain.go).  *)
(* The database has no keys: each start makes them of the keystore and of  *)
(* the creations and closures in the blocks.                               *)
(***************************************************************************)
EXTENDS Mempool

CONSTANT
    GenesisKeystore    \* the keystore file before the first start

KeystoreEntry == [account : AccountIDs, key : Keys \cup {NoKey}]

(***************************************************************************)
(* The keystore. The API signs with the first entry of an account, a start *)
(* hydrates the ledger with the last one.                                  *)
(***************************************************************************)
EntriesOf(ks, a) == Only(ks, {entry \in ToSet(ks) : entry.account = a})

PrivateKeyFor(ks, a) ==
    IF EntriesOf(ks, a) = <<>> THEN NoKey ELSE Head(EntriesOf(ks, a)).key

HydratedKeys(ks) ==
    [a \in AccountIDs |->
        IF EntriesOf(ks, a) = <<>> THEN NoKey ELSE Last(EntriesOf(ks, a)).key]

AppendEntry(ks, tx) == Append(ks, [account |-> tx.account, key |-> tx.key])

RemoveEntry(ks, a) == Only(ks, {entry \in ToSet(ks) : entry.account # a})

-----------------------------------------------------------------------------
BuildInitialState(ks) ==
    [type |-> Genesis.type, balance |-> Genesis.balance, key |-> HydratedKeys(ks)]

(* The genesis and the first keystore, as tools/genkeys.go (37-58) writes  *)
(* them: keys are of accounts, and tax accounts are accounts, which        *)
(* Taxes.Validate does not check.                                          *)
ASSUME GenesisAssumption ==
    /\ IsFiniteSet(AccountIDs)
    /\ Genesis = BuildInitialState(GenesisKeystore)
    /\ \A a \in AccountIDs : Genesis.balance[a] >= 0
    /\ \A a \in AccountIDs : Genesis.key[a] # NoKey => Exists(Genesis, a)
    /\ AllowedTaxAccounts \subseteq {a \in AccountIDs : Exists(Genesis, a)}

(* The database holds the accounts of a state but not their keys. *)
Persisted(s) == [type |-> s.type, balance |-> s.balance]

(* Faulty: a closed account is left with an empty key. *)
KeysAfterBlockEmptyKey(keys, block) ==
    [a \in AccountIDs |->
        IF EntriesOf(block.closes, a) # <<>> THEN Unspecified
        ELSE IF EntriesOf(block.creates, a) = <<>> THEN keys[a]
        ELSE Last(EntriesOf(block.creates, a)).key]

KeysAfterBlock(keys, block) ==
    [a \in AccountIDs |->
        IF \E i \in DOMAIN block.closes : block.closes[i].account = a THEN NoKey
        ELSE IF EntriesOf(block.creates, a) = <<>> THEN keys[a]
        ELSE Last(EntriesOf(block.creates, a)).key]

(* The states that the blocks lead to from s: none if one is refused. *)
Replay(bs, s) ==
    FoldLeft(LAMBDA states, block :
                 UNION {ApplyTransactions(block, t) : t \in states}, {s}, bs)
=============================================================================
