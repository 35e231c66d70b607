-------------------------------- MODULE Node --------------------------------
(***************************************************************************)
(* One validator node: the handlers of its API, each a goroutine of its    *)
(* own, its mempools, its block producer, and the database and keystore    *)
(* file that outlive a crash of the process.                               *)
(*                                                                         *)
(* What a client asks for is a set of requests, each made at most once     *)
(* because every call draws a fresh transaction id. A request that is      *)
(* refused before it reaches a pool changes nothing and is no step.        *)
(***************************************************************************)
EXTENDS Bootstrap

CONSTANTS
    PaymentRequests,   \* [id, payer, payee, items]
    CreateRequests,    \* [id, account, type, key]: the key pair it draws
    CloseRequests,     \* [id, account, destination, key]: X-Private-Key
    ValidatorKey,      \* of this node
    Torn,              \* a keystore file that was not written to its end
    MaxTxsPerBlock,
    MaxFaults          \* bound: crashes and failed writes of a behaviour

(* Requests name accounts and have lines of the types the handlers decode. *)
ASSUME RequestsAssumption ==
    /\ \A r \in PaymentRequests :
          /\ r.id \in STRING /\ r.payer \in AccountIDs /\ r.payee \in AccountIDs
          /\ r.items \in Seq(LineItem)
    /\ \A r \in CreateRequests :
          /\ r.id \in STRING /\ r.account \in AccountIDs
          /\ r.type \in AccountTypes /\ r.key \in Keys
    /\ \A r \in CloseRequests :
          /\ r.id \in STRING /\ r.account \in AccountIDs
          /\ r.destination \in AccountIDs \cup {Unspecified}
          /\ r.key \in Keys \cup {NoKey}

(* The validator has its key, and the genesis and the keystore that the    *)
(* operator wrote are of their types.                                      *)
ASSUME NodeAssumption ==
    /\ ValidatorKey \in Keys
    /\ Genesis \in State
    /\ GenesisKeystore \in Seq(KeystoreEntry)
    /\ MaxFaults \in Nat

(* Each creation draws a key pair of its own (api/accounts.go, 69), which  *)
(* no account has.                                                         *)
ASSUME KeysAssumption ==
    /\ NoKey \notin Keys
    /\ \A r, q \in CreateRequests : r.account = q.account /\ r.key = q.key => r = q
    /\ \A r \in CreateRequests :
          [account |-> r.account, key |-> r.key] \notin ToSet(GenesisKeystore)

(* No sum or product of the lines of a payment outgrows its word.          *)
ASSUME AmountsAssumption ==
    \A r \in PaymentRequests : ValidLines(r.items) => NothingOverflows(r.items)

VARIABLES
    status,      \* "down", "genesis" (first start, half way), "up", "failed"
    disk,        \* pixie.db and the keystore file: [blocks, saved, keystore]
    ledger,      \* bc.state
    blocks,      \* bc.blocks
    keystore,    \* the keystore in memory, a sequence of [account, key]
    pool, createPool, closePool,
    calls,       \* requests under way: [step, tx], the step is the next one
    started,     \* ids of the requests that were made
    producer,    \* [step, scratch, block]: runBlockProducer
    faults

memory == <<ledger, blocks, keystore, pool, createPool, closePool, calls, producer>>
vars == <<status, disk, started, faults, memory>>

Up == status = "up"

Block == [creates  : Seq(AccountCreateTransaction),
          payments : Seq(PaymentTransaction),
          closes   : Seq(AccountCloseTransaction)]

(* What the database has of a state. *)
Balances == [type : [AccountIDs -> AccountTypes], balance : [AccountIDs -> Int]]

EmptyBlock == [creates |-> <<>>, payments |-> <<>>, closes |-> <<>>]
Idle == [step |-> "idle", scratch |-> Genesis, block |-> EmptyBlock]

-----------------------------------------------------------------------------
(***************************************************************************)
(* Starting: main and chain.New.                                           *)
(***************************************************************************)
(* Faulty: the keys of created accounts come from the keystore alone. *)
LoadedStateWithoutChainKeys(db, ks) ==
    LET s == CHOOSE t \in db.saved \cup {Persisted(BuildInitialState(ks))} :
                db.saved # {} => t \in db.saved
    IN  [type |-> s.type, balance |-> s.balance, key |-> HydratedKeys(ks)]

(* The state saved last, or the initial one when a crash came before the   *)
(* first was saved, with the keys of the keystore and then of the chain.   *)
LoadedState(db, ks) ==
    LET s == CHOOSE t \in db.saved \cup {Persisted(BuildInitialState(ks))} :
                db.saved # {} => t \in db.saved
    IN  [type    |-> s.type,
         balance |-> s.balance,
         key     |-> FoldLeft(KeysAfterBlock, HydratedKeys(ks), db.blocks)]

(* Faulty: replays the chain on top of the state that was saved last. *)
ValidateChainFromSaved(bs, ks) == Replay(Tail(bs), LoadedState(disk, ks)) # {}

ValidateChain(bs, ks) == Replay(Tail(bs), BuildInitialState(ks)) # {}

Init ==
    /\ status = "down"
    /\ disk = [blocks |-> <<>>, saved |-> {}, keystore |-> GenesisKeystore]
    /\ ledger = Genesis
    /\ blocks = <<>>
    /\ keystore = <<>>
    /\ pool = EmptyPool /\ createPool = <<>> /\ closePool = <<>>
    /\ calls = {}
    /\ started = {}
    /\ producer = Idle
    /\ faults = 0

(* The first start saves the genesis block ... *)
SaveGenesisBlock ==
    /\ status = "down" /\ disk.blocks = <<>>
    /\ status' = "genesis"
    /\ disk' = [disk EXCEPT !.blocks = <<EmptyBlock>>]
    /\ UNCHANGED <<started, faults, memory>>

(* ... and then the genesis state, in a transaction of its own. *)
SaveGenesisState ==
    /\ status = "genesis"
    /\ status' = "up"
    /\ LET s == BuildInitialState(disk.keystore)
       IN  /\ disk' = [disk EXCEPT !.saved = {Persisted(s)}]
           /\ ledger' = s
    /\ blocks' = disk.blocks
    /\ keystore' = disk.keystore
    /\ UNCHANGED <<pool, createPool, closePool, calls, producer, started, faults>>

(* A later start loads what was saved and replays the chain to check it. *)
(* It fails on a keystore that it cannot read.                           *)
Restart ==
    /\ status = "down" /\ disk.blocks # <<>>
    /\ IF disk.keystore # Torn /\ ValidateChain(disk.blocks, disk.keystore)
       THEN /\ status' = "up"
            /\ ledger' = LoadedState(disk, disk.keystore)
            /\ blocks' = disk.blocks
            /\ keystore' = disk.keystore
       ELSE /\ status' = "failed"
            /\ UNCHANGED <<ledger, blocks, keystore>>
    /\ UNCHANGED <<disk, pool, createPool, closePool, calls, producer, started, faults>>

(* The process dies: pools, handlers and the block being made are gone. *)
Forget ==
    /\ status' = "down"
    /\ ledger' = Genesis
    /\ blocks' = <<>>
    /\ keystore' = <<>>
    /\ pool' = EmptyPool /\ createPool' = <<>> /\ closePool' = <<>>
    /\ calls' = {}
    /\ producer' = Idle

Fault == faults < MaxFaults /\ faults' = faults + 1

Crash ==
    /\ status \in {"genesis", "up"}
    /\ Fault
    /\ Forget
    /\ UNCHANGED <<disk, started>>

-----------------------------------------------------------------------------
(***************************************************************************)
(* POST /v1/transactions.                                                  *)
(***************************************************************************)
Proceed(call, step) ==
    calls' = (calls \ {call}) \cup {[step |-> step, tx |-> call.tx]}
Finish(call) == calls' = calls \ {call}

Begin(request, step, tx) ==
    /\ Up
    /\ request.id \notin started
    /\ started' = started \cup {request.id}
    /\ calls' = calls \cup {[step |-> step, tx |-> tx]}

ToPayment(r) ==
    [id |-> r.id, payer |-> r.payer, payee |-> r.payee, items |-> r.items,
     signer |-> PrivateKeyFor(keystore, r.payer)]

(* buildTransaction: both accounts are in the state that is current now,   *)
(* no tax code for a payee that is a person, and a key to sign with.       *)
BuildPayment(r) ==
    /\ Exists(ledger, r.payer) /\ Exists(ledger, r.payee)
    /\ ledger.type[r.payee] = Person =>
          \A item \in ToSet(r.items) : item.codes = <<>>
    /\ PrivateKeyFor(keystore, r.payer) # NoKey
    /\ Begin(r, "admit", ToPayment(r))
    /\ UNCHANGED <<status, disk, ledger, blocks, keystore, pool, createPool,
                   closePool, producer, faults>>

(* TryAdd, under the lock of the pool: the payer must afford this payment  *)
(* on top of those that are pending.                                       *)
AdmitPayment(call) ==
    /\ call.step = "admit"
    /\ IF /\ NewIn(pool.order, call.tx)
          /\ ValidPayment(call.tx, Available(ledger, pool, call.tx.payer))
       THEN pool' = AddPayment(pool, call.tx)
       ELSE pool' = pool
    /\ Finish(call)
    /\ UNCHANGED <<status, disk, ledger, blocks, keystore, createPool, closePool,
                   producer, started, faults>>

(***************************************************************************)
(* POST /v1/accounts: the creation is validated before it is queued, and   *)
(* the queue checks nothing; the key is saved at the end.                  *)
(***************************************************************************)
ToCreate(r) ==
    [id |-> r.id, account |-> r.account, type |-> r.type, balance |-> 0,
     key |-> r.key, signer |-> ValidatorKey]

CheckCreate(r) ==
    /\ ValidCreate(ToCreate(r), ledger)
    /\ Begin(r, "queue create", ToCreate(r))
    /\ UNCHANGED <<status, disk, ledger, blocks, keystore, pool, createPool,
                   closePool, producer, faults>>

QueueCreate(call) ==
    /\ call.step = "queue create"
    /\ NewIn(createPool, call.tx)
    /\ createPool' = Append(createPool, call.tx)
    /\ Proceed(call, "save key")
    /\ UNCHANGED <<status, disk, ledger, blocks, keystore, pool, closePool,
                   producer, started, faults>>

WithFile(file) == [disk EXCEPT !.keystore = file]

(* The keystore in memory changes even when writing its file fails. The    *)
(* file is written in place: a failure leaves the old one or a torn one.   *)
SetKeystore(ks) ==
    /\ keystore' = ks
    /\ \/ disk' = WithFile(ks) /\ UNCHANGED faults
       \/ Fault /\ disk' \in {disk, WithFile(Torn)}

SaveKey(call) ==
    /\ call.step = "save key"
    /\ SetKeystore(AppendEntry(keystore, call.tx))
    /\ Finish(call)
    /\ UNCHANGED <<status, ledger, blocks, pool, createPool, closePool, producer,
                   started>>

(***************************************************************************)
(* DELETE /v1/accounts/{id}: likewise, and the key is dropped at the end,  *)
(* when the closure is pending.                                            *)
(***************************************************************************)
ToClose(r) ==
    [id          |-> r.id,
     account     |-> r.account,
     key         |-> ledger.key[r.account],
     destination |-> r.destination,
     signer      |-> IF ledger.type[r.account] = Person THEN ValidatorKey ELSE r.key]

CheckClose(r) ==
    /\ ledger.type[r.account] \in Closable
    /\ ValidClose(ToClose(r), ledger)
    /\ Begin(r, "queue close", ToClose(r))
    /\ UNCHANGED <<status, disk, ledger, blocks, keystore, pool, createPool,
                   closePool, producer, faults>>

QueueClose(call) ==
    /\ call.step = "queue close"
    /\ NewIn(closePool, call.tx)
    /\ closePool' = Append(closePool, call.tx)
    /\ Proceed(call, "drop key")
    /\ UNCHANGED <<status, disk, ledger, blocks, keystore, pool, createPool,
                   producer, started, faults>>

DropKey(call) ==
    /\ call.step = "drop key"
    /\ SetKeystore(RemoveEntry(keystore, call.tx.account))
    /\ Finish(call)
    /\ UNCHANGED <<status, ledger, blocks, pool, createPool, closePool, producer,
                   started>>

(* The process dies while it writes the file. *)
CrashInSave(call) ==
    /\ call.step \in {"save key", "drop key"}
    /\ Fault
    /\ disk' = WithFile(Torn)
    /\ Forget
    /\ UNCHANGED started

Handle(call) ==
    \/ AdmitPayment(call)
    \/ QueueCreate(call) \/ SaveKey(call)
    \/ QueueClose(call) \/ DropKey(call)

-----------------------------------------------------------------------------
(***************************************************************************)
(* ProduceBlockIfReady. The ticker's pace is not modelled: a block may be  *)
(* due whenever something is pending. The three pools are read one after   *)
(* the other, against a copy of the state taken at the start.              *)
(***************************************************************************)
SelectCreates ==
    /\ Up /\ producer.step = "idle"
    /\ pool.order # <<>> \/ createPool # <<>> \/ closePool # <<>>
    /\ LET sel == SelectCreate(createPool, MaxTxsPerBlock, ledger)
       IN  /\ createPool' = Without(createPool, sel.dropped)
           /\ producer' = [step    |-> "payments",
                           scratch |-> sel.state,
                           block   |-> [EmptyBlock EXCEPT !.creates = sel.taken]]
    /\ UNCHANGED <<status, disk, ledger, blocks, keystore, pool, closePool, calls,
                   started, faults>>

SelectPayments ==
    /\ producer.step = "payments"
    /\ LET room == MaxTxsPerBlock - Len(producer.block.creates)
           sel  == SelectPayment(pool.order, room, producer.scratch)
       IN  /\ pool' = RemovePayments(pool, sel.dropped)
           /\ producer' = [step    |-> "closes",
                           scratch |-> sel.state,
                           block   |-> [producer.block EXCEPT !.payments = sel.taken]]
    /\ UNCHANGED <<status, disk, ledger, blocks, keystore, createPool, closePool,
                   calls, started, faults>>

SelectCloses ==
    /\ producer.step = "closes"
    /\ LET room  == MaxTxsPerBlock - Len(producer.block.creates)
                                   - Len(producer.block.payments)
           sel   == SelectClose(closePool, room, producer.scratch)
           block == [producer.block EXCEPT !.closes = sel.taken]
       IN  /\ closePool' = Without(closePool, sel.dropped)
           /\ producer' = IF block = EmptyBlock THEN Idle
                          ELSE [step    |-> "commit",
                                scratch |-> sel.state,
                                block   |-> block]
    /\ UNCHANGED <<status, disk, ledger, blocks, keystore, pool, createPool, calls,
                   started, faults>>

(* Faulty: saves the block and leaves the state of the block before it. *)
SavedBlockOnly(block, s) == [disk EXCEPT !.blocks = Append(@, block)]

(* SaveBlockAndState: block and state in one database transaction. *)
Saved(block, s) ==
    [blocks   |-> Append(disk.blocks, block),
     saved    |-> {Persisted(s)},
     keystore |-> disk.keystore]

(* The commit holds the locks of the three pools and of the chain from the *)
(* validation of the block to the removal of its transactions: no handler  *)
(* sees a state in between.                                                *)
Commit ==
    /\ producer.step = "commit"
    /\ LET block == producer.block
           next  == ApplyTransactions(block, ledger)
       IN  IF next = {}
           THEN UNCHANGED <<disk, ledger, blocks, pool, createPool, closePool>>
           ELSE \E s \in next :
                   /\ disk' = Saved(block, s)
                   /\ ledger' = s
                   /\ blocks' = Append(blocks, block)
                   /\ pool' = RemovePayments(pool, block.payments)
                   /\ createPool' = Without(createPool, block.creates)
                   /\ closePool' = Without(closePool, block.closes)
    /\ producer' = Idle
    /\ UNCHANGED <<status, keystore, calls, started, faults>>

(* Faulty: the pool forgets the payments of the block all the same. *)
CommitFailsForgets ==
    /\ producer.step = "commit"
    /\ Fault
    /\ producer' = Idle
    /\ pool' = RemovePayments(pool, producer.block.payments)
    /\ UNCHANGED <<status, disk, ledger, blocks, keystore, createPool, closePool,
                   calls, started>>

(* The database refuses the block: everything stays as it was. *)
CommitFails ==
    /\ producer.step = "commit"
    /\ Fault
    /\ producer' = Idle
    /\ UNCHANGED <<status, disk, ledger, blocks, keystore, pool, createPool,
                   closePool, calls, started>>

(* The process dies after the database has the block and before anything   *)
(* in memory shows it.                                                     *)
CrashInCommit ==
    /\ producer.step = "commit"
    /\ Fault
    /\ \E s \in ApplyTransactions(producer.block, ledger) :
          disk' = Saved(producer.block, s)
    /\ Forget
    /\ UNCHANGED started

Produce == SelectCreates \/ SelectPayments \/ SelectCloses \/ Commit

Start == SaveGenesisBlock \/ SaveGenesisState \/ Restart

Next ==
    \/ Start
    \/ Crash \/ CrashInCommit \/ CommitFails
    \/ \E r \in PaymentRequests : BuildPayment(r)
    \/ \E r \in CreateRequests : CheckCreate(r)
    \/ \E r \in CloseRequests : CheckClose(r)
    \/ \E call \in calls : Handle(call) \/ CrashInSave(call)
    \/ Produce

Spec == Init /\ [][Next]_vars

(* The producer's ticker keeps ticking. Nothing else is needed: no handler *)
(* has to go on, and nobody has to restart a node that is down.            *)
FairSpec == Spec /\ WF_vars(Produce)

-----------------------------------------------------------------------------
TypeOK ==
    /\ status \in {"down", "genesis", "up", "failed"}
    /\ disk.blocks \in Seq(Block) /\ disk.saved \subseteq Balances
    /\ disk.keystore \in Seq(KeystoreEntry) \cup {Torn}
    /\ keystore \in Seq(KeystoreEntry) /\ blocks \in Seq(Block)
    /\ ledger \in State
    /\ pool.order \in Seq(PaymentTransaction)
    /\ pool.reserved \in [AccountIDs -> Nat]
    /\ createPool \in Seq(AccountCreateTransaction)
    /\ closePool \in Seq(AccountCloseTransaction)
    /\ producer \in [step    : {"idle", "payments", "closes", "commit"},
                     scratch : State,
                     block   : Block]
    /\ faults \in 0 .. MaxFaults

(* What the pool counts as reserved for a payer is what its pending        *)
(* payments take, through admissions, drops and commits alike.             *)
ReservedIsExact ==
    \A a \in AccountIDs : pool.reserved[a] = GrossOf(pool.order, a)

(* Every payer can afford all it has pending, so that available, in        *)
(* ValidateAdmit, is never below 0 (mempool/pool.go, 57-59). Payments that *)
(* were signed for an account since closed do not count.                   *)
PendingIsAffordable ==
    Up => \A a \in AccountIDs :
        GrossOf(Only(pool.order, {p \in ToSet(pool.order) : p.signer = ledger.key[a]}), a)
            <= ledger.balance[a]

(* What the producer selected against its copy of the state, reading three *)
(* pools at three moments, is valid when the chain validates it: a block   *)
(* is never refused, and it has the effect that was computed.              *)
ProducedBlockIsValid ==
    producer.step = "commit" =>
        ApplyTransactions(producer.block, ledger) = {producer.scratch}

(* A payment leaves the pool of a running node in a block, or because the  *)
(* account that signed it was closed: admission is a promise.              *)
AdmittedIsKept ==
    [][\A p \in ToSet(pool.order) :
          status' = "up" /\ NewIn(pool'.order, p) =>
              \/ /\ Len(blocks') > Len(blocks)
                 /\ p \in ToSet(Last(blocks').payments)
              \/ ledger.key[p.payer] # p.signer]_vars

Ids(block) ==
    LET all == block.creates \o block.payments \o block.closes
    IN  [i \in DOMAIN all |-> all[i].id]

(* The ids of all transactions of a chain, in their order. *)
Executed(bs) == FoldLeft(LAMBDA ids, block : ids \o Ids(block), <<>>, bs)

(* No transaction is executed twice, although nothing in the ledger would  *)
(* refuse it: the pools forget a transaction when a block has it, also     *)
(* when the commit fails or the process dies in the middle of it.          *)
ExecutedOnce == IsInjective(Executed(disk.blocks))

(* At any moment, a crash between any two steps included, the state in the *)
(* database is the one its blocks lead to from the genesis.                *)
SavedStateIsReplay ==
    disk.saved # {} =>
        disk.saved = {Persisted(s) : s \in Replay(Tail(disk.blocks), Genesis)}

(* A running node, however often it was restarted, has the state its       *)
(* blocks lead to, with the keys of its persons and merchants.             *)
MemoryIsReplay ==
    Up => /\ blocks = disk.blocks
          /\ \E s \in Replay(Tail(blocks), Genesis) :
                /\ Persisted(ledger) = Persisted(s)
                /\ \A a \in AccountIDs :
                      s.type[a] \in Closable => ledger.key[a] = s.key[a]

(* A node that stopped can start again on the files it left: bbolt keeps   *)
(* the chain (README, 19), and keystore entries may be missing             *)
(* (chain/blockchain.go, 85). Only a keystore file that a crash or a full  *)
(* disk left torn (config.go, SaveKeystore) stops it.                      *)
StartsAgain == status = "failed" => disk.keystore = Torn

(* README, 132: the keystore has the keys of the accounts that pay. Once   *)
(* no request about an open account is under way or pending, the key the   *)
(* API signs its payments with is the key the ledger verifies them with.   *)
OpenAccountsCanSign ==
    Up => \A a \in AccountIDs :
        LET settled == /\ \A c \in calls : c.step # "admit" => c.tx.account # a
                       /\ \A tx \in ToSet(createPool) : tx.account # a
                       /\ \A tx \in ToSet(closePool) : tx.account # a
        IN  settled /\ ledger.type[a] \in Closable =>
                PrivateKeyFor(keystore, a) = ledger.key[a]

Pending(id) == \E p \in ToSet(pool.order) : p.id = id

Included(id) == \E i \in DOMAIN disk.blocks : \E j \in DOMAIN Ids(disk.blocks[i]) :
                    Ids(disk.blocks[i])[j] = id

(* README, 108: the validator includes an admitted payment in a block,     *)
(* unless the process stops or a closure of the payer gets there first.    *)
AdmittedGetsIncluded ==
    \A r \in PaymentRequests :
        Pending(r.id) ~> \/ Included(r.id)
                         \/ ~Up
                         \/ \E c \in CloseRequests : c.account = r.payer /\ Included(c.id)
=============================================================================
