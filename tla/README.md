# A TLA+ development of Pixie Block

Pixie Block is a proof-of-authority blockchain in Go for payments that split into taxes,
discounts and what is left for the payee. These modules model its ledger, its mempools, a node
with its crashes and restarts, and a network of nodes, the single chain that network implements,
and the locks its goroutines wait for. TLC checks them on small instances; TLAPS proves, for
every value of the constants, that splits add up, that the ledger keeps its money and its
accounts in order, that a node reserves what is pending and produces valid blocks, that a
network of any size implements the chain, and that goroutines wait for each other in a circle
only when both nodes write to full sockets and neither reads. Paths below are relative to the
repository; `state.go:85` stands for `internal/ledger/state.go`, line 85.

## 1. The system

| Component | State it keeps | Operations | What is hard |
|---|---|---|---|
| `internal/domain` | none | gross amount, taxes, discounts and net of a payment | 64-bit overflow, rounding tax by tax |
| `internal/ledger` | accounts, keys of accounts and validators, tax table | validate and apply payments, creations, closures, blocks | entries written for accounts that do not exist; two maps that must agree |
| `internal/mempool` | three pools; per payer the amount reserved by pending payments | `TryAdd` with a check under the lock, `Remove`, `Commit`, `Peek` | the counter against the list; admission racing a commit |
| `internal/chain` | the blocks, the state after them, indexes | start (load, hydrate, replay), admission checks, `AppendBlock` | crashes between database and memory; a replay that needs old keys |
| `internal/storage/bolt` | `pixie.db` | save a block, a state, both at once; load | two transactions at the first start, one later |
| `internal/node` | none | the initial state, hydration with keys | which of two keystore entries wins |
| `internal/consensus/poa` | none | whose turn a height is, making a block | a turn that does not pass on |
| `internal/p2p` | connections; the lock of `applyBlocks` | gossip, handshake, `get_blocks`, producing blocks | late, lost, doubled and reordered messages; producing without the lock; writing to full sockets under a lock |
| `internal/api` | the keystore (shared with its file) | submit a payment, create and close an account, reads | several steps without a common lock; keys saved after or dropped before the chain agrees; an event stream that reads the chain several times per round |
| `config`, `cmd/server` | the keystore file; nothing | load, save; wiring, producer loop | a file written in place |
| `internal/crypto`, `tools` | none | hashes, signatures; demo keys, load | idealised, not modelled |

How they interact. An HTTP handler runs in a goroutine of its own: it reads a
copy of the chain's state, signs, calls `TryAdd` on a pool, whose check reads the
chain under the pool's lock, broadcasts through `p2p`, and changes the
keystore. The producer goroutine wakes every 50 ms, and when the node's turn has
come it copies the state, walks the three pools, and commits: the pools' locks
in the order payments, creations, closures, and inside them the chain's lock. One
goroutine per connection admits gossiped transactions to the pools and applies
blocks, with the same commit and under the bridge's lock, which the producer
does not take. Only `pixie.db` and the keystore file survive the process.

What makes each part correct:

- the arithmetic: what a payment hands out is what it takes, whatever rounds;
- the ledger: no money is made or lost, no balance is negative while no sum
  overflows, an account that is not open cannot sign (one that is open can, treasuries included,
  if the keystore has a key for it);
- the pools: what is reserved is what is pending, a payer can afford it, and a
  payment leaves a pool only in a block or when it can never be executed;
- a node: what it saved is the replay of its blocks, a restart gets back what a
  crash destroyed, its blocks are valid when it commits them, nothing is executed
  twice;
- the network: one block per height, everywhere; who is behind catches up;
  what was submitted is executed, once.

`PROJECT.json` lists the hazards line by line with the properties that cover
them, and says why where none does.

## 2. The modules

| Module | Models | Extends |
|---|---|---|
| `Splits` | `domain/transaction.go` and the line checks of `ValidateTransaction`, in words of `Width` bits | |
| `Bills` | bills of those lines, one line at a time | `Splits` |
| `Bills_proofs` | theorems about `Bills` | `Bills`, `Rules_proofs` |
| `LedgerRules` | `ledger/state.go`: `Valid...` and `Apply...` per kind of transaction, `ApplyTransactions` for a block | `Splits` |
| `Ledger` | the ledger as a machine: any valid transaction may come next | `LedgerRules` |
| `Ledger_proofs` | theorems about `Ledger` | `Ledger`, `Rules_proofs` |
| `Mempool` | `internal/mempool`, `ValidateAdmit`, `selectExecutable` | `LedgerRules` |
| `Folding` | induction, and folds over any operator | |
| `Rules_proofs` | what the operators of `Splits`, `LedgerRules`, `Mempool` compute | `Mempool`, instances of `Folding` |
| `Bootstrap` | `node/bootstrap.go`, the entries of a keystore, what a start replays | `Mempool` |
| `Node` | one validator process: API handlers, producer, database, keystore, crashes | `Bootstrap` |
| `Node_proofs` | theorems about `Node` | `Node`, `Rules_proofs` |
| `Node_replay_proofs` | theorems about what a node finds again after a crash | `Node_proofs` |
| `Network` | several nodes: gossip, catching up, turns, lost connections, crashes, keystores | `Bootstrap`, instance of `Chain` |
| `Network_proofs` | theorems about `Network`, and that it implements `Chain` | `Network`, `Rules_proofs` |
| `Chain` | what the nodes promise together: one list of blocks that only grows, for each a prefix of it and the state after that prefix, whose accounts no start changes | |
| `Locks` | the goroutines of two connected nodes, lock by lock, with sockets that fill up; the event stream | |
| `Locks_proofs` | theorems about `Locks` | `Locks`, an instance of `Folding` |
| `MCSplits`, `MCLedger`, `MCNode`, `MCNetwork`, `MCLocks` | instances for TLC | `Bills` (`MCSplits`), the module of that name (the others) |

**Data.** A ledger state is `[type, balance, key]`, three functions on account
ids. Reading a Go map that has no entry returns a zero value, and so does the
model: an account that is `Absent` has balance 0. Writing such an entry makes one
with an empty type, `Blank`. `Ledger` stores each balance as a word (`InWords`), and its
history variable `exact` says whether anything computed for one has overflowed so far; the
modules that go on from `LedgerRules` leave balances unwrapped, and `Node` assumes that no sum
of a valid payment overflows. A signature is the key that made it, so that "the
signature verifies" reads `s.key[a] = tx.signer`. A block is its three lists
of transactions; in `Network` also its height, hash, predecessor and
validator. A hash is a fresh number. Validation never returns a reason, only
whether: the set of next states is empty when a block is refused.

**Node.** A handler is a record `[step, tx]` in `calls`, and each of its steps
between two lock acquisitions is an action: `BuildPayment`, `AdmitPayment`;
`CheckCreate`, `QueueCreate`, `SaveKey`; `CheckClose`, `QueueClose`, `DropKey`.
`buildTransaction` reads the state once for each party; the model reads it once.
The producer is `SelectCreates`, `SelectPayments`, `SelectCloses`, `Commit`,
one step per pool it reads. `Commit` is one step because every reader of what
it changes needs a lock it holds. `Crash`, `CommitFails` and `CrashInCommit`
are faults; writing the keystore file (`SetKeystore`) may fail as well, with the
keystore in memory already changed, as in the code, and with the file as it was or
torn, for `SaveKeystore` truncates it and writes in place; `CrashInSave` is the process
that dies meanwhile. `SaveGenesisBlock` and `SaveGenesisState` are
the two halves of a first start; `Restart` is a later one, which loads the accounts,
makes the keys of the keystore file and the blocks, and replays. `Bootstrap` has what both
kinds of node share of this: `BuildInitialState`, `HydratedKeys`, `KeysAfterBlock`, `Replay`.

**Network.** `conns` are the connected dials, `net` has a channel for each end of
each. What a goroutine is about to broadcast waits in `outbox`: between admitting
a transaction or appending a block and telling the others, anything may
happen. `Receive` is one turn of `handleConn`, `ApplyRest` a further turn of the loop
of `applyBlocks`. Blocks and accounts
survive a crash, as `Node` shows they do. Keys do not: a node has its keystore in memory
(`keystore`) and in a `file`, which several nodes may share (`KeystoreOf`), as the two of the
`Makefile` do. After a creation was broadcast its handler adds the key and saves, after a
closure it drops it (`SaveKeystore`, with what it waits for in `saving`), whether or not the
chain agrees by then or ever. `Restart` reads the file, replays the chain with the keys in it, which
may be refused, and makes the keys of the ledger anew (`LoadedState`): so two nodes
at one height may have different keys, and one that lacks a key refuses what the
others accept. Writes to the database or the keystore file that fail or are torn are in
`Node` only. `ReceiveHandshake` reads the height once where the code
reads it up to three times: a block applied in between only makes it ask for less.

**Chain.** The list `log` of all blocks, and for each node how many of them it has
and its ledger. `Mint` makes a block, `Copy` takes the next one, and `Reload` is a start: it may change
the keys of a node and nothing of its `Accounts`, what is in the database. `Network!Shared` reads
it off a network: the list is a longest chain, a node's height the length of its
chain, a valid block one that `ApplyTransactions` accepts. Everything else of the
network, messages, pools, faults, is a stutter.

**Locks.** A goroutine is the sequence of steps it has to make, written with the strings of the
code: `Within("pool", <<Visit({"chain"})>>)` is `TryAdd`, which validates under the pool's lock.
Steps are to take a lock (`TakeLock`), to write to the peer (`WriteMessage`), or to do something
under locks that take no other (`VisitLocks`); giving back a lock is part of the step before.
`Decode`, `Tick` and `Poll` start the work of a connection's reader, the producer and an event
stream; `Hangup` breaks the connection. A reader leaves one that broke, and at any message
(`Fail`) one that is open: what it reads does not decode, or `dispatch` returns an error. To
leave is to unregister the connection, under the lock that a broadcast holds while it writes,
and only then to close it (`CloseConn`), which loses what is in transit; until then the peer may
fill the socket nobody reads. Broadcasts skip a connection that is no longer `Registered`. A
write waits while the peer's socket is full, and no write has a deadline. A handler's request is
made once, at the start, and blocks are only their heights: `Network` shows that a block of the
next height is never refused.

Definitions whose comment starts with "Faulty" are not used by any behaviour:
each is a plausible mistake that a property is known to catch.

## 3. What TLC checks

| Run | Question | Instance |
|---|---|---|
| `splits` | do splits add up for every bill? | up to 3 lines, all amounts of a small set, negative and overflowing sums included, words short enough to overflow |
| `ledger` | what holds after any sequence of transactions? | two persons, two merchants, two treasuries with keys; sales with taxes and discounts, payments by a tax account, to oneself, to and from an account that is created and closed, forged and malformed requests; a genesis whose money just fits a word, and one payment whose lines overflow it |
| `node_busy` | do pools, handlers and producer agree at every interleaving? | three payments the payer cannot afford together, a creation, a closure of the payer and one of the payee, blocks of 2, one fault |
| `node_crash` | what survives, and is an admitted payment included? | two payments, one account created twice and closed, two faults anywhere, torn keystore files among them |
| `network_turns` | do nodes ever disagree, and do they implement one chain? | two validators that share a keystore file, a payment to each and the closure of the payer, an account of the genesis; two faults |
| `network_catch_up` | does a node that is behind catch up? | a validator that makes two blocks, a follower, two faults |
| `locks` | who waits for whom? | a follower a block behind dials a validator that makes one more; a creation and a closure at the validator, a payment and an event stream at the follower; sockets of one message; readers that leave at any of them |

The instances are the smallest in which the cases that matter happen: two payments of one payer
exceed its balance, a block has room for some of what is pending, an account dies while money is
on its way to it, a follower misses more than one block, a block overtakes the transactions it
holds. All interesting orders are between two or three actors. `MaxFaults` and the finite sets
of requests bound every behaviour, and in `locks` the last height and the room in a socket;
nothing else does. There, one message fills a socket as surely as many: the jam below, with and
without a broadcast that waits in it, and with a reader that is leaving, is reached. Deadlock is
not checked: a system nobody submits anything to stops.

The properties, module by module:

- `Bills`: `NothingLostInRounding` (the taxes `ApplyTransaction` credits,
  rounded one by one, are those `NetToPayee` held back, even when words
  overflow); `SplitsStayWithinTheLines` (without overflow the gross is the sum of
  the lines and taxes and discounts never exceed it).
- `Ledger`: `TypeOK`; `NonNegative`; `AbsentHoldsNothing`; `ClosedCannotSign` (closures
  delete from two maps, and a late payment writes one of them again: no account that is not
  open is left with a key); `SupplyConserved`; `OnlyLinesOverflow` (when the money of the genesis
  fits a word, what overflows first is the sum of a payment's lines, never a balance, which
  state.go:190-201 adds to unchecked); `BlankIsStuck` (an entry of empty type keeps what it
  gets forever: this is what happens to money that arrives after a closure). What is
  about amounts holds until a sum overflows, the rest with overflow too.
- `Node`: `ReservedIsExact`, `PendingIsAffordable`, `AdmittedIsKept` for the
  pools; `ProducedBlockIsValid` for the producer; `SavedStateIsReplay`,
  `MemoryIsReplay`, `StartsAgain`, `ExecutedOnce` across crashes
  (`StartsAgain` leaves out a torn keystore file, which the code does nothing about, section 4);
  `AdmittedGetsIncluded`, while the process lives, whatever writes the database refuses.
- `Network`: `Agreement`, `KnownBlocksAreFinal` (no block is known anywhere
  that its validator does not have on its own chain), `ReservedIsExact` on nodes
  that receive blocks of transactions they never heard of,
  `ProductionIsNeverWasted`, `CatchUp`; `ImplementsChain` and `ReplicasAgree`, that
  the nodes are replicas of one ledger: no two nodes at the same height have
  different accounts or balances, whatever path they came there and whatever keys each of them has.
- `Locks`: `StuckOnlyWhenJammed`: no set of handlers, readers, commits and broadcasts
  waits in a circle, except for one that the code does not prevent and that the run reaches: the
  reader of each node writes an answer (`get_blocks`, `blocks`) to a socket that the
  other does not read, because its reader writes too, or because it is to leave the open
  connection (node.go:149-152) and waits in `unregisterConn` for the lock of a broadcast that
  waits for the first. Until the connection breaks, that is: and even then nobody holds a lock
  of the ledger. `StreamIsCurrent`: a client of the event stream
  has the height, the latest block and the balance of the same height whenever its stream
  has nothing to send.

**Fairness.** `Node!FairSpec`: the producer's ticker ticks, weakly fair, and nothing
else: no handler need go on, and nobody need start a node that is down.
`Network!FairSpec`: requests run on, the ticker ticks, an operator starts a node that is
down, `dial` tries again every 3 seconds (node.go:95-107), goroutines of connections
read on. No fairness is assumed of clients or of faults, and all of it is weak: each
of these steps stays possible until it is taken. `Locks` assumes none: its
properties are about what can still happen.

## 4. Where the code does something else than it says

Five runs are expected to find a violation. Each states what a document or a test
of the repository says.

- `ledger_no_treasury`: `state_test.go`, 314, closes a person without a destination, in a state
  without `federal_treasury`, and demands success. `ValidateAccountClose` (state.go:344) refuses:
  the default destination has to exist. The genesis of `README.md`, 74-80, has none either.
- `node_restart_after_close`: `README.md`, 19, and the comment of `blockchain.go:85`.
  The key of a closed account of the genesis is dropped from the keystore
  file, and the replay at the next start needs it: the node does not start.
- `node_close_dropped`: `README.md`, 132. The key is dropped when a closure is
  submitted. When the closure is dropped because a payment came first, the account is
  open and cannot pay. Two concurrent creations of one account, or a
  crash before `appendKeystore`, break the same property.
- `network_stall`: `README.md`, 108. With two validators, a transaction that only
  the one whose turn it is not has heard of is never included, and no block is made.
- `network_twice`: `README.md`, 108. Nothing remembers executed transactions; one whose
  gossip arrives after its block is executed again.

Other disagreements have no run of their own. The instances of the runs named here reach
them, and the properties of those runs say what holds all the same.

- `README.md`, 141, "sum(items) == gross_amount": amounts are added in 64 bits without a check
  (transaction.go:57-66), and a bill of huge lines is valid with a small gross (`splits`,
  `ledger`).
- `README.md`, 19, the chain persists: the keystore file, without which a node does not start,
  is truncated and written in place (config.go:152), and a process that dies meanwhile does not
  start again, its chain intact (`node_crash`).
- node.go:178, a dialer catches up after its handshake: a node that drops the key of a genesis
  account when the closure is submitted, and restarts before it has the block with the closure,
  refuses that block and all after it (`network_turns`; `CatchUp` is claimed of an
  instance without closures).
- `README.md`, 132, the keystore has the keys of the accounts that pay: `make run` and
  `make run-node2` use one file, each node writes what it has in memory (config.go:146), and
  the one that saves last deletes the key of an account which the other created.

## 5. What is proved

Every theorem holds for all values of the constants that meet the named assumptions: no
bound on accounts, transactions, nodes, faults or the length of a behaviour. TLC evaluates
each assumption on the instances of the runs.

**Folds.** The code adds up, filters and replays in loops, and the model with folds. The
induction theorems of the library take an operator, which the provers cannot instantiate.
`Folding` states induction over numbers (`NatSet`) and sequences (`SeqSet`) about sets
instead, and shows that a fold of nothing is its base and that an element more is a step more
(`FoldEmpty`, `FoldAppend`). Each fold of the model is an instance. `Rules_proofs` proves with
them what the model's operators compute: sums (`SumAdd`, `SumsSwap`), what a payment
credits (`Credits`) and moves (`PaymentMoves`), what a pool has left and reserves
(`RemovePaymentsExact`), that selecting for a block and applying it are the same
computation (`SelectedCreates` and on), that applying leads from states to states
(`BlockWithin`).

**Bills** (`Bills_proofs`):

- `BillsNothingLostInRounding`: `Spec => []NothingLostInRounding`, whatever overflows;
- `BillsSplitsStayWithinTheLines`: `Spec => []SplitsStayWithinTheLines`.

For the first, integers are `Alike` when a word cannot tell them apart. Words of sums
are alike to sums of words, so it is enough that each tax and each discount of a line
reaches exactly one tax account, and that adding up by account or by line is the same. The
second needs no overflow (`Sound`), and that every getter then is the exact sum (`Getters`).
Assumptions: `SplitsAssumption` (a tax account is one of the allowed, the check of
`config.go` at start) and `BillsAssumption` (types; finitely many tax accounts).

**Ledger** (`Ledger_proofs`):

- `LedgerTypeOK`: `Spec => []TypeOK`, balances are words;
- `LedgerNonNegative`: `Spec => []NonNegative`;
- `LedgerClosedCannotSign`, `LedgerAbsentHoldsNothing`: an account that is not open has no
  key, and an absent one holds nothing, when sums overflow too;
- `LedgerSupplyConserved`: `Spec => []SupplyConserved`. A payment takes from the payer what it
  gives to payee and tax accounts (`PaymentMoves`), a closure moves a balance, a creation
  starts one at 0; each is a sum over all accounts;
- `LedgerOnlyLinesOverflow`: `Spec => OnlyLinesOverflow`. No balance is negative and together
  they are the money of the genesis, so each of them fits the word that this money fits
  (`SupplyFits`); what a payment or closure writes are balances of such a state again;
- `LedgerBlankIsStuck`: `Spec => BlankIsStuck`;
- `LedgerPersonsCanClose`: `Spec => []PersonsCanClose` in every genesis that has the default
  destination, of a type that cannot be closed (`GenesisHasTreasury`). Whoever has its key may
  pay with it, but its type never changes (`TreasuryStep`): a closure is refused for the
  type, a creation for what exists. What the genesis of `ledger_no_treasury` lacks
  is therefore all that is missing there.

The invariant is `Inv == TypeOK /\ NonNegative /\ AbsentHoldsNothing /\
ClosedCannotSign`. `NonNegative` alone is not inductive: creating an account
overwrites its balance with 0, and closing a merchant deletes it, which is only
harmless because an absent account is empty; that in turn needs that a valid payment
makes an entry for whoever it credits (`UnwrittenGetsNothing`), and that whoever signs has an
account, which is `ClosedCannotSign`. `InitInv` and `NextInv`, with a lemma for each kind of
transaction, show that `Inv` is inductive. `BlankIsStuck` follows from it: an account
of empty type has no key to pay or close with, and exists, so that it cannot be created.

Assumptions: `GenesisAssumption` (balances of the genesis are natural numbers that fit their
words, and keys are of its accounts: of any of them, treasuries included, for which
`tools/genkeys.go` writes keys too, and not necessarily of all); `KeysAssumption`;
`TransactionsAssumption` (types); `AccountsAssumption` (tax accounts are accounts, and there
are finitely many). Nothing is assumed of amounts. `Ledger` has no restarts: after one,
keys may be in the ledger of accounts that a block has yet to create (`Node`).

**Node** (`Node_proofs`):

- `NodeTypeOK`, `NodeReservedIsExact`: `Spec => []TypeOK`, `Spec => []ReservedIsExact`;
- `NodeProducedBlockIsValid`: `Spec => []ProducedBlockIsValid`;
- `NodeExecutedOnce`: `Spec => []ExecutedOnce`;
- `NodePendingIsAffordable`, `NodeAdmittedIsKept`: `Spec => []PendingIsAffordable`,
  `Spec => AdmittedIsKept`.

The first three follow from `DataOK`: types (`DiskTyped`, `MemoryTyped`, `PoolsTyped`,
`CallsTyped`), when anything runs at all (`StatusOK`), and `ProducerOK`: at each step, the
state that the producer carries is what the block selected so far makes of the node's
ledger. Handlers change pools between those steps, never the ledger, and that is why the block
is valid in the end. `ReservedIsExact` needs that of a valid payment the gross amount is a
number, and that counting down stops at 0 only when nothing is pending.

`ExecutedOnce` needs where an id can be: `IdsOK` says in one place at most, with a handler that
has not queued it, among the pending transactions of one kind (the pool, or the block being
made of it) or in the chain, and nowhere twice. An id is new when a request is made (`started`);
a commit that succeeds takes from the pools what it adds to the chain, one that fails
leaves both.

That what is pending can be paid for (`PendingIsAffordable`) needs more than the check that
admits a payment. A payer's balance falls only by payments that its present key signed, and by
a closure, which takes the key away with the money; what was signed with the old key counts no
more. A block takes at most what its payments say (`Spent`), creations start at 0 and closures
take nothing from the accounts that stay open (`Opened`, `Shut`). But the same id may be opened
again, with a new key: a payment signed with that key must not be pending already. So the
invariant `FundsOK` says, besides `DataOK` and `IdsOK`, that all that is pending was asked for
and what the producer took is pending still (`AskedOK`), that neither the disk nor the keystore
knows the key of a creation that nobody has asked for (`KeysUnknown`), that neither the ledger
nor a pending payment uses the key of a creation that waits (`KeysUnused`), and `Funds`:
balances are natural numbers, in the database too, and cover what is pending. `AdmittedIsKept`
follows: the producer drops a payment only when it is invalid in the state it computed, and
with enough money (`Affordable`) only the key can be what is wrong (`DroppedIsClosed`).

Assumptions: `RequestsAssumption`, `NodeAssumption` (types); `KeysAssumption` (each creation
draws a key pair of its own, `api/accounts.go`, which nobody had); `AmountsAssumption` (no sum
of a valid payment outgrows its word, which the code does not check, section 4);
`GenesisAssumption` of `Bootstrap` (finitely many
accounts, with balances of natural numbers; keys only of accounts; tax accounts are accounts: what
`tools/genkeys.go` writes and `Taxes.Validate` does not check).

**What a node finds again** (`Node_replay_proofs`, from the same assumptions):

- `NodeSavedStateIsReplay`: `Spec => []SavedStateIsReplay`;
- `NodeMemoryIsReplay`, `NodeStartsAgain`: `Spec => []MemoryIsReplay` and
  `Spec => []StartsAgain`, if `GenesisAccountsStay`: nobody asks to close an account of the genesis.

The database does not have the keys of the ledger; a start puts them together from the keystore
file and the chain. The file is written late, in place, and not with the block, so that the
ledger of a node may miss a key, or have one of a creation that no block has. `ReplayOK` says
how far they may be apart (`Mirrors`): types and balances are those that the chain leads to, and
keys differ only of accounts that no block touches (`Touched`), and then because the key is lost
or the account does not exist. Two lemmas make that inductive. `BlockFollows`: a block that is
valid in a state is valid in one with more keys, leads there to the same balances, and again to
as many keys (`Follows`); `MirrorFollows`: the state of the chain has more keys than the ledger,
but for accounts that do not exist and that no block pays (`PayeesOK`: whoever is paid by what
is pending has an account or once had one). `ChainForgets`: after a block that touches an
account, its key no longer depends on the keystore that the replay began with. `KeystoreOK`
keeps the other side: as long as no block touches an account of the genesis, the keystore file
has its key or none, and no creation brings another one. All this holds whoever is closed.

`GenesisAccountsStay` is not in it, because it is not true of the code: when an account of the
genesis is closed, its key leaves the keystore, and the replay of a start, which begins with the
keystore, refuses what that account once signed (section 4, `node_restart_after_close`). With
it, the keys of the genesis stay where they are (`GenesisSettled`), so that the state a replay
begins with has all keys of the genesis (`ChainIsValid`), and a ledger no key less than the chain.
The instance `node_crash` meets it, and its runs close and open other accounts.

**Network** (`Network_proofs`):

- `NetworkKnownBlocksAreFinal`: `Spec => []KnownBlocksAreFinal`;
- `NetworkAgreement`: `Spec => []Agreement`;
- `NetworkProductionIsNeverWasted`: `Spec => ProductionIsNeverWasted`;
- `NetworkTypeOK`, `NetworkReservedIsExact`: `Spec => []TypeOK`, `Spec => []ReservedIsExact`;
- `NetworkImplementsChain`: `Spec => ImplementsChain`;
- `NetworkReplicasAgree`: `Spec => []ReplicasAgree`.

A block of height h is `Known` when the validator whose turn h is, node `ValidatorForHeight(h)`,
has it at h on its own chain. The invariant `IInv` says that all blocks of all chains
(`ChainsOK`, each at its own height), in transit (`NetOK`), in the outboxes (`OutboxOK`) and in
`applyBlocks` (`ApplyingOK`) are known, that `get_blocks` never asks for the genesis block
(height 0, which the model leaves out), and that a producer that is not idle works on the next
height of its node and it is its turn (`TurnsOK`).

`AppendKeepsChains` is the heart: a node appends a known block, or one of its own
turn at its next height, which is known from then on; chains only grow, so what was
known stays known (`KnownStays`). `TurnsOK` is what makes the producer safe without a
lock: a known block of the next height cannot arrive at a node whose turn that height
is, since its validator, the node itself, would have it already (`ApplyBlockKeeps`).
One lemma per action, `SubmitKeeps` to `CommitBlockKeeps`, shows that `IInv` is
inductive. `Agreement` follows: both chains have their blocks from the same validators.

Pools, ledgers and what is selected from them are a second invariant, `DataOK`. Its
`ProducerOK` is that of `Node`, relative to a ledger that, by `TurnsOK`, nobody
changes meanwhile: a start does, but the producer of a node that is not up is idle. So a commit
succeeds (`CommitSucceeds`), which is `ProductionIsNeverWasted`.

A step of the network changes no chain and no ledger, appends one valid block to one, or starts
a node, which leaves its accounts as they were (`AppendsOrNothing`, `Starts`). With `IInv` the
longest chain is the only one of its length (`LogValue`); a block appended to it is a `Mint`,
one appended to a shorter chain is the block the longest has there, because the chains agree
after the step as well, and that is a `Copy` (`AppendsShared`). Nothing says that `Nodes` is
finite, so that a longest chain exists is an invariant too (`HasLongest`). `ReplicasAgree` is
about nodes that need not have the same keys: what one did with a block another may have done
from a state with fewer or more. But a block that is accepted changes types and balances by what
they were and what the block says, whatever the keys (`StepAlike` for one transaction,
`RunAlike` and `BlockAlike` for the folds). So the invariant `HasHistory` says that one history
of accounts exists, an element for each height, which a valid block of the longest chain leads
from one to the next (`LeadsTo`), and that every node's accounts are those of its height. Only a
new block makes it longer.

Assumptions: `TopologyAssumption` (two different ends of every dial, at least one
validator) and `SubmissionsAssumption` (types). Nothing depends on the order of messages in a
connection, on who shares a keystore file or on what it has lost. All of it needs that the
database brings back the blocks that the node had (section 7, `--bolt-nosync`) and the
accounts after them, which `NodeSavedStateIsReplay` proves of one node, whoever is closed.

**Locks** (`Locks_proofs`), for any requests, event streams, heights and capacity of a socket:

- `LocksStreamIsCurrent`: `Spec => []StreamIsCurrent`;
- `LocksStuckOnlyWhenJammed`: `Spec => []StuckOnlyWhenJammed`.

The steps that a goroutine still has to make are data, so all three invariants are about
sequences of steps, and each is proved by going through what the code strings together.
`DataOK`: who appends a block appends the next one, and once; nobody is ahead of the validator.
`ShownOK`: the parts a stream has shown since it noted a height are of that height or a later
one, and the others are still to come. With the heights of `DataOK` a stream at rest has all
parts of one height. `LocksOK`: the steps of a goroutine are a path from the locks it holds to
none, and on it locks are taken in the order bridge, pool of payments, of creations, of
closures, chain or keystore; the lock of the connections is apart: who takes it holds no other,
only he writes with it, and readers write with none and take it only to leave (`Leaving`), when
they hold nothing. Then the highest lock held cannot be, when all wait, for its holder would
wait for a higher one; what is left is writing to full sockets, and readers that leave and wait
for such a broadcast, at both ends: the jam that the property allows. Assumption:
`LocksAssumption` (types; the validator starts at the greatest height, as the only one who makes
blocks).

**Only model-checked.** Liveness (`AdmittedGetsIncluded`, `CatchUp`): out of the proof system's
reach. `MemoryIsReplay` and `StartsAgain` when an account of the genesis is closed: not true
(section 4). Every other property that a passing run checks is the property of a theorem above.

## 6. Plan

Done in this order: the arithmetic, the ledger and its proofs, the pools, a node, the
network and its proofs, the chain it implements and the proof of that, torn keystore
files, the locks and the event stream; then induction over folds, and with it the proofs about
bills, supply, pools, nodes and locks; what a node can pay for and what it finds again; last,
treasuries that pay, words that overflow, keystores in the network, and readers that
leave. Next:

1. `Node` with a keystore that keeps the keys of closed accounts, should the repository decide so:
   `MemoryIsReplay` and `StartsAgain` would then need no `GenesisAccountsStay`.
2. `Node`'s disk as an implementation of a chain of one node, of which `ReplayOK` has the invariant.
3. Blocks that are announced and lost with `--bolt-nosync`, once the repository says
   what it still promises then.

## 7. Not modelled

Hashing, signing and canonical bytes (idealised); JSON, HTML and the redaction of reads for a
viewer, pure functions that change nothing; flags and key files; the clock of the producer; why
a message does not decode or is of another chain (`Locks` has what the reader does then,
`Network` loses connections anyway); loss of durability with `--bolt-nosync`, which gives up on
purpose what `Network` rests on; closures that wait behind a load that never ends, and payments
that a follower keeps pending for ever: the code has no rule about either that could be broken.
`Locks` has one connection, made once: a broadcast that waits also keeps new connections from
being registered. No instance has a connection dialled from each end, which would bring every
message twice. Balances are unbounded integers in `Node` and `Network`: by
`OnlyLinesOverflow` none outgrows its word unless the lines of a payment do, which `Node`
assumes not to happen and `Network` leaves to `Ledger`. Handlers of the API are in `Node`
step by step; in `Network` submitting is one step, and writing the keystore another. The genesis
block, height 0, is the same everywhere and its checks are left out.
