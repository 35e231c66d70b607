------------------------------ MODULE Network ------------------------------
(***************************************************************************)
(* The nodes of a chain and their connections (internal/p2p): gossip of    *)
(* transactions and blocks, catching up by handshake and get_blocks, and   *)
(* the turns of the validators (internal/consensus/poa).                   *)
(*                                                                         *)
(* A node that is down has its blocks, its accounts and its keystore file: *)
(* Node, which also has the writes that fail or that a crash cuts short,   *)
(* shows that the first two fit each other. The keys are made anew by each *)
(* start. A block's hash is a fresh number: blocks differ in the time they *)
(* were made at, even when their transactions are the same. The genesis    *)
(* block, height 0, is the same everywhere and left out.                   *)
(***************************************************************************)
EXTENDS Bootstrap

CONSTANTS
    Nodes,
    Dials,            \* pairs <<n, m>>: m is in the list of peers of n
    KeystoreOf,       \* node -> the file of its keystore; nodes may share one
    Validators,       \* the nodes of genesis.Validators, in order
    Transactions,     \* what clients submit: [node, type, tx]
    MaxTxsPerBlock,
    MaxFaults         \* bound: crashes and lost connections of a behaviour

ASSUME TopologyAssumption ==
    /\ Dials \subseteq Nodes \X Nodes
    /\ \A dial \in Dials : dial[1] # dial[2]
    /\ Validators \in Seq(Nodes) /\ Validators # <<>>
    /\ DOMAIN KeystoreOf = Nodes
    /\ \A t \in Transactions :
          t.node \in Nodes /\ t.type \in {"payment", "create", "close"}

ASSUME SubmissionsAssumption ==
    \A t \in Transactions :
        /\ t.type = "payment" => t.tx \in PaymentTransaction
        /\ t.type = "create"  => t.tx \in AccountCreateTransaction
        /\ t.type = "close"   => t.tx \in AccountCloseTransaction

VARIABLES
    up,          \* the nodes that run
    chain,       \* node -> its blocks, height 1 first
    ledger,      \* node -> the state after them
    keystore,    \* node -> the keystore in its memory
    file,        \* keystore file -> what it has
    pools,       \* node -> [payments, creates, closes]
    outbox,      \* node -> messages that a goroutine is about to broadcast
    saving,      \* node -> of which handlers still have to write the keystore
    producer,    \* node -> [step, height, body, scratch]
    conns,       \* the dials that are connected
    net,         \* channel -> messages in transit, first in first out
    applying,    \* node -> what applyBlocks still has to apply: {[from, blocks]}
    submitted,   \* the transactions clients have submitted
    minted,      \* blocks made so far, for fresh hashes
    faults

keys == <<keystore, file, saving>>
vars == <<up, chain, ledger, keys, pools, outbox, producer, conns, net, applying,
          submitted, minted, faults>>

(* A connection has a channel towards each of its ends. *)
Channels == {c \in [dial : Dials, to : Nodes] : c.to \in {c.dial[1], c.dial[2]}}

Other(c) == IF c.to = c.dial[1] THEN c.dial[2] ELSE c.dial[1]
Back(c) == [c EXCEPT !.to = Other(c)]
Inbound(c) == c.to = c.dial[2]

EmptyPools == [payments |-> EmptyPool, creates |-> <<>>, closes |-> <<>>]
EmptyBody == [creates |-> <<>>, payments |-> <<>>, closes |-> <<>>]
Idle == [step |-> "idle", height |-> 0, body |-> EmptyBody, scratch |-> Genesis]

Height(n) == Len(chain[n])

Init ==
    /\ up = Nodes
    /\ chain = [n \in Nodes |-> <<>>]
    /\ ledger = [n \in Nodes |-> Genesis]
    /\ keystore = [n \in Nodes |-> GenesisKeystore]
    /\ file = [f \in {KeystoreOf[n] : n \in Nodes} |-> GenesisKeystore]
    /\ saving = [n \in Nodes |-> {}]
    /\ pools = [n \in Nodes |-> EmptyPools]
    /\ outbox = [n \in Nodes |-> {}]
    /\ producer = [n \in Nodes |-> Idle]
    /\ conns = {}
    /\ net = [c \in Channels |-> <<>>]
    /\ applying = [n \in Nodes |-> {}]
    /\ submitted = {}
    /\ minted = 0
    /\ faults = 0

-----------------------------------------------------------------------------
(***************************************************************************)
(* Messages. A tx message is [type, tx], the others have a field of theirs.*)
(***************************************************************************)
Handshake(h) == [type |-> "handshake", height |-> h]
(* Faulty: asks from the last block the node has. *)
GetBlocksFromLast(h) == [type |-> "get_blocks", height |-> h - 1]

GetBlocks(h) == [type |-> "get_blocks", height |-> h]
NewBlock(b) == [type |-> "new_block", blocks |-> <<b>>]
BlocksResponse(bs) == [type |-> "blocks", blocks |-> bs]

(* The receiver of c takes the first message off and sends replies back. *)
Answer(c, replies) ==
    net' = [net EXCEPT ![c] = Tail(@), ![Back(c)] = @ \o replies]

(* Broadcast writes to every connection registered at this moment, and a   *)
(* peer with two connections gets the message twice.                       *)
Broadcast(n, m) ==
    net' = [c \in Channels |->
               IF c.dial \in conns /\ Other(c) = n THEN Append(net[c], m) ELSE net[c]]

SendOutbox(n, m) ==
    /\ m \in outbox[n]
    /\ outbox' = [outbox EXCEPT ![n] = @ \ {m}]
    /\ Broadcast(n, m)
    /\ UNCHANGED <<up, chain, ledger, keys, pools, producer, conns, applying, submitted,
                   minted, faults>>

-----------------------------------------------------------------------------
(***************************************************************************)
(* Connections. Losing one loses what is in transit on it; its dialer      *)
(* dials again and greets, which is when a node that is behind learns it.  *)
(***************************************************************************)
Connect(dial) ==
    /\ dial \notin conns /\ {dial[1], dial[2]} \subseteq up
    /\ conns' = conns \cup {dial}
    /\ net' = [net EXCEPT ![[dial |-> dial, to |-> dial[2]]]
                             = <<Handshake(Height(dial[1]))>>]
    /\ UNCHANGED <<up, chain, ledger, keys, pools, outbox, producer, applying, submitted,
                   minted, faults>>

Cut(dials) ==
    /\ conns' = conns \ dials
    /\ net' = [c \in Channels |-> IF c.dial \in dials THEN <<>> ELSE net[c]]

Fault == faults < MaxFaults /\ faults' = faults + 1

Disconnect(dial) ==
    /\ dial \in conns
    /\ Fault
    /\ Cut({dial})
    /\ UNCHANGED <<up, chain, ledger, keys, pools, outbox, producer, applying, submitted,
                   minted>>

Crash(n) ==
    /\ n \in up
    /\ Fault
    /\ up' = up \ {n}
    /\ Cut({dial \in Dials : n \in {dial[1], dial[2]}})
    /\ pools' = [pools EXCEPT ![n] = EmptyPools]
    /\ outbox' = [outbox EXCEPT ![n] = {}]
    /\ saving' = [saving EXCEPT ![n] = {}]
    /\ producer' = [producer EXCEPT ![n] = Idle]
    /\ applying' = [applying EXCEPT ![n] = {}]
    /\ UNCHANGED <<chain, ledger, keystore, file, submitted, minted>>

(* The accounts of the database with the keys of the keystore file and     *)
(* then of the chain.                                                      *)
LoadedState(n) ==
    [type    |-> ledger[n].type,
     balance |-> ledger[n].balance,
     key     |-> FoldLeft(KeysAfterBlock, HydratedKeys(file[KeystoreOf[n]]), chain[n])]

(* validateChain: a node that cannot replay its blocks with the keys of    *)
(* its file does not start.                                                *)
Start(n, state) ==
    /\ n \notin up
    /\ Replay(chain[n], BuildInitialState(file[KeystoreOf[n]])) # {}
    /\ up' = up \cup {n}
    /\ ledger' = [ledger EXCEPT ![n] = state]
    /\ keystore' = [keystore EXCEPT ![n] = file[KeystoreOf[n]]]
    /\ UNCHANGED <<chain, file, saving, pools, outbox, producer, conns, net, applying,
                   submitted, minted, faults>>

(* Faulty: starts over from the genesis state, with the chain it has. *)
RestartFromGenesis(n) == Start(n, BuildInitialState(file[KeystoreOf[n]]))

Restart(n) == Start(n, LoadedState(n))

-----------------------------------------------------------------------------
(***************************************************************************)
(* Pools: what TryAdd with the check of its caller makes of them.          *)
(***************************************************************************)
Admits(p, s, m) ==
    CASE m.type = "payment" ->
             /\ NewIn(p.payments.order, m.tx)
             /\ ValidPayment(m.tx, Available(s, p.payments, m.tx.payer))
      [] m.type = "create" -> NewIn(p.creates, m.tx) /\ ValidCreate(m.tx, s)
      [] m.type = "close"  -> NewIn(p.closes, m.tx) /\ ValidClose(m.tx, s)

With(p, m) ==
    CASE m.type = "payment" -> [p EXCEPT !.payments = AddPayment(@, m.tx)]
      [] m.type = "create"  -> [p EXCEPT !.creates = Append(@, m.tx)]
      [] m.type = "close"   -> [p EXCEPT !.closes = Append(@, m.tx)]

WithoutTxs(p, body) ==
    [payments |-> RemovePayments(p.payments, body.payments),
     creates  |-> Without(p.creates, body.creates),
     closes   |-> Without(p.closes, body.closes)]

(* What the API of n makes a transaction of: a payment of accounts that it *)
(* knows, signed with the key in its keystore, a creation or the closure   *)
(* of a person only where the key of a validator is.                       *)
Buildable(n, m) ==
    CASE m.type = "payment" ->
             /\ Exists(ledger[n], m.tx.payee)
             /\ ledger[n].type[m.tx.payee] = Person =>
                   \A item \in ToSet(m.tx.items) : item.codes = <<>>
             /\ m.tx.signer = PrivateKeyFor(keystore[n], m.tx.payer)
      [] m.type \in {"create", "close"} ->
             m.tx.signer \in ValidatorKeys => n \in ToSet(Validators)

(* The API admits a transaction to its own pool, broadcasts it, and then   *)
(* answers, or saves the key of a new account, or drops that of a closed   *)
(* one, while the transaction is pending still.                            *)
Submit(t) ==
    LET n == t.node
        m == [type |-> t.type, tx |-> t.tx]
    IN  /\ n \in up
        /\ t \notin submitted
        /\ Buildable(n, m)
        /\ Admits(pools[n], ledger[n], m)
        /\ submitted' = submitted \cup {t}
        /\ pools' = [pools EXCEPT ![n] = With(@, m)]
        /\ outbox' = [outbox EXCEPT ![n] = @ \cup {m}]
        /\ saving' = IF t.type = "payment" THEN saving
                      ELSE [saving EXCEPT ![n] = @ \cup {m}]
        /\ UNCHANGED <<up, chain, ledger, keystore, file, producer, conns, net, applying,
                       minted, faults>>

(* The file is written over with what the node has in its memory.          *)
SaveKeystore(n, m) ==
    /\ m \in saving[n] \ outbox[n]
    /\ saving' = [saving EXCEPT ![n] = @ \ {m}]
    /\ keystore' = [keystore EXCEPT ![n] = IF m.type = "create" THEN AppendEntry(@, m.tx)
                                           ELSE RemoveEntry(@, m.tx.account)]
    /\ file' = [file EXCEPT ![KeystoreOf[n]] = keystore'[n]]
    /\ UNCHANGED <<up, chain, ledger, pools, outbox, producer, conns, net, applying,
                   submitted, minted, faults>>

(* OnNewTransaction and its likes: admit or ignore. It is not passed on.   *)
ReceiveTransaction(c, m) ==
    /\ m.type \in {"payment", "create", "close"}
    /\ IF Admits(pools[c.to], ledger[c.to], m)
       THEN pools' = [pools EXCEPT ![c.to] = With(@, m)]
       ELSE UNCHANGED pools
    /\ Answer(c, <<>>)
    /\ UNCHANGED <<up, chain, ledger, keys, outbox, producer, conns, applying, submitted,
                   minted, faults>>

-----------------------------------------------------------------------------
(***************************************************************************)
(* Catching up.                                                            *)
(***************************************************************************)
(* Faulty: a node that is behind does not ask for the blocks. *)
ReceiveHandshakeOnly(c, m) ==
    /\ m.type = "handshake"
    /\ Answer(c, IF Inbound(c) THEN <<Handshake(Height(c.to))>> ELSE <<>>)
    /\ UNCHANGED <<up, chain, ledger, keys, pools, outbox, producer, conns, applying,
                   submitted, minted, faults>>

ReceiveHandshake(c, m) ==
    /\ m.type = "handshake"
    /\ Answer(c, (IF Inbound(c) THEN <<Handshake(Height(c.to))>> ELSE <<>>)
                 \o (IF m.height > Height(c.to)
                     THEN <<GetBlocks(Height(c.to) + 1)>> ELSE <<>>))
    /\ UNCHANGED <<up, chain, ledger, keys, pools, outbox, producer, conns, applying,
                   submitted, minted, faults>>

ReceiveGetBlocks(c, m) ==
    /\ m.type = "get_blocks"
    /\ Answer(c, <<BlocksResponse(SubSeq(chain[c.to], m.height, Height(c.to)))>>)
    /\ UNCHANGED <<up, chain, ledger, keys, pools, outbox, producer, conns, applying,
                   submitted, minted, faults>>

-----------------------------------------------------------------------------
(***************************************************************************)
(* Blocks. ValidateBlock does not ask whose turn it was: that the validator*)
(* is one of the genesis is enough.                                        *)
(***************************************************************************)
LastHash(n) == IF chain[n] = <<>> THEN 0 ELSE Last(chain[n]).hash

ValidateBlock(b, n) ==
    /\ b.height = Height(n) + 1
    /\ b.prev = LastHash(n)
    /\ b.validator \in ToSet(Validators)
    /\ ApplyTransactions(b, ledger[n]) # {}

(* AppendBlock in the Commit of the pools. *)
AppendBlock(b, n) ==
    /\ chain' = [chain EXCEPT ![n] = Append(@, b)]
    /\ ledger' = [ledger EXCEPT ![n] = StateAfter(b, @)]
    /\ pools' = [pools EXCEPT ![n] = WithoutTxs(@, b)]

(* What applyBlocks has left after a block of the message from c. *)
Rest(c, blocks) == IF blocks = <<>> THEN {} ELSE {[from |-> c, blocks |-> blocks]}

(* One turn of the loop of applyBlocks, which holds the lock of the bridge *)
(* over all its turns: old blocks are skipped, and a block that is too far *)
(* ahead or refused ends it.                                               *)
ApplyBlock(c, blocks) ==
    LET n == c.to
        b == Head(blocks)
    IN  IF blocks # <<>> /\ b.height <= Height(n)
        THEN /\ applying' = [applying EXCEPT ![n] = Rest(c, Tail(blocks))]
             /\ UNCHANGED <<chain, ledger, pools>>
        ELSE IF blocks # <<>> /\ ValidateBlock(b, n)
        THEN /\ applying' = [applying EXCEPT ![n] = Rest(c, Tail(blocks))]
             /\ AppendBlock(b, n)
        ELSE /\ applying' = [applying EXCEPT ![n] = {}]
             /\ UNCHANGED <<chain, ledger, pools>>

(* A block announced beyond the next height makes the node ask for those   *)
(* it misses, from the peer that announced it.                             *)
ReceiveBlocks(c, m) ==
    /\ m.type \in {"new_block", "blocks"}
    /\ applying[c.to] = {}
    /\ ApplyBlock(c, m.blocks)
    /\ Answer(c, IF m.type = "new_block" /\ m.blocks[1].height > Height(c.to) + 1
                 THEN <<GetBlocks(Height(c.to) + 1)>> ELSE <<>>)
    /\ UNCHANGED <<up, keys, outbox, producer, conns, submitted, minted, faults>>

ApplyRest(n) ==
    /\ \E rest \in applying[n] : ApplyBlock(rest.from, rest.blocks)
    /\ UNCHANGED <<up, keys, outbox, producer, conns, net, submitted, minted, faults>>

Receive(c) ==
    /\ net[c] # <<>>
    /\ \A rest \in applying[c.to] : rest.from # c
    /\ LET m == Head(net[c])
       IN  \/ ReceiveTransaction(c, m)
           \/ ReceiveHandshake(c, m)
           \/ ReceiveGetBlocks(c, m)
           \/ ReceiveBlocks(c, m)

-----------------------------------------------------------------------------
(***************************************************************************)
(* ProduceBlockIfReady. It holds no lock of its own: blocks may arrive     *)
(* between its reads of the height, of the state and of the last block. It *)
(* runs again once its block is broadcast.                                 *)
(***************************************************************************)
ValidatorForHeight(h) == Validators[(h % Len(Validators)) + 1]

(* Faulty: forgets whose turn it is. *)
CanProduceAnytime(n, h) == n \in ToSet(Validators)

CanProduce(n, h) == ValidatorForHeight(h) = n

Ready(n) ==
    /\ n \in up /\ producer[n].step = "idle"
    /\ \A m \in outbox[n] : m.type # "new_block"
    /\ pools[n] # EmptyPools
    /\ CanProduce(n, Height(n) + 1)
    /\ producer' = [producer EXCEPT ![n] = [Idle EXCEPT !.step = "select",
                                                        !.height = Height(n) + 1]]
    /\ UNCHANGED <<up, chain, ledger, keys, pools, outbox, conns, net, applying, submitted,
                   minted, faults>>

(* Module Node has the three pools read one by one. *)
SelectExecutable(n) ==
    /\ producer[n].step = "select"
    /\ LET p        == pools[n]
           creates  == SelectCreate(p.creates, MaxTxsPerBlock, ledger[n])
           payments == SelectPayment(p.payments.order,
                                     MaxTxsPerBlock - Len(creates.taken), creates.state)
           closes   == SelectClose(p.closes,
                                   MaxTxsPerBlock - Len(creates.taken)
                                                  - Len(payments.taken), payments.state)
           body     == [creates |-> creates.taken, payments |-> payments.taken,
                        closes |-> closes.taken]
       IN  /\ pools' = [pools EXCEPT ![n] =
                           WithoutTxs(p, [creates  |-> creates.dropped,
                                          payments |-> payments.dropped,
                                          closes   |-> closes.dropped])]
           /\ producer' = [producer EXCEPT ![n] =
                              IF body = EmptyBody THEN Idle
                              ELSE [@ EXCEPT !.step = "commit", !.body = body,
                                             !.scratch = closes.state]]
    /\ UNCHANGED <<up, chain, ledger, keys, outbox, conns, net, applying, submitted, minted,
                   faults>>

CreateBlock(n) ==
    [height    |-> producer[n].height,
     hash      |-> minted + 1,
     prev      |-> LastHash(n),
     validator |-> n,
     creates   |-> producer[n].body.creates,
     payments  |-> producer[n].body.payments,
     closes    |-> producer[n].body.closes]

(* The new block is appended, and broadcast once the locks are released.   *)
(* The last block is read before the locks are taken, and is the last one  *)
(* still when the block has the next height.                               *)
CommitBlock(n) ==
    /\ producer[n].step = "commit"
    /\ LET b == CreateBlock(n)
       IN  IF ValidateBlock(b, n)
           THEN /\ AppendBlock(b, n)
                /\ outbox' = [outbox EXCEPT ![n] = @ \cup {NewBlock(b)}]
           ELSE UNCHANGED <<chain, ledger, pools, outbox>>
    /\ minted' = minted + 1
    /\ producer' = [producer EXCEPT ![n] = Idle]
    /\ UNCHANGED <<up, keys, conns, net, applying, submitted, faults>>

Produce(n) == Ready(n) \/ SelectExecutable(n) \/ CommitBlock(n)

-----------------------------------------------------------------------------
Next ==
    \/ \E t \in Transactions : Submit(t)
    \/ \E n \in Nodes : \E m \in outbox[n] : SendOutbox(n, m)
    \/ \E n \in Nodes : \E m \in saving[n] : SaveKeystore(n, m)
    \/ \E c \in Channels : Receive(c)
    \/ \E n \in Nodes : ApplyRest(n)
    \/ \E n \in Nodes : Produce(n)
    \/ \E dial \in Dials : Connect(dial)
    \/ \E dial \in Dials : Disconnect(dial)
    \/ \E n \in Nodes : Crash(n)
    \/ \E n \in Nodes : Restart(n)

Spec == Init /\ [][Next]_vars

(* Goroutines run on, dialers dial again, a stopped node is started again: *)
(* but nobody has to submit anything and nothing has to fail.              *)
FairSpec ==
    /\ Spec
    /\ \A n \in Nodes :
          /\ WF_vars(\E m \in outbox[n] : SendOutbox(n, m))
          /\ WF_vars(\E m \in saving[n] : SaveKeystore(n, m))
          /\ WF_vars(Produce(n))
          /\ WF_vars(ApplyRest(n))
          /\ WF_vars(Restart(n))
    /\ \A c \in Channels : WF_vars(Receive(c))
    /\ \A dial \in Dials : WF_vars(Connect(dial))

-----------------------------------------------------------------------------
(***************************************************************************)
(* Properties.                                                             *)
(***************************************************************************)
(* Blocks in a message, whatever its type. *)
BlocksOf(m) == IF m.type \in {"new_block", "blocks"} THEN ToSet(m.blocks) ELSE {}

(* The blocks that n stores, is about to announce or is applying. *)
BlocksAt(n) ==
    UNION ({ToSet(chain[n])} \cup {BlocksOf(m) : m \in outbox[n]}
                             \cup {ToSet(rest.blocks) : rest \in applying[n]})

BlocksInTransit == UNION {UNION {BlocksOf(m) : m \in ToSet(net[c])} : c \in Channels}

Block == [height : Nat \ {0}, hash : Nat \ {0}, prev : Nat, validator : Nodes,
          creates  : Seq({t.tx : t \in Transactions}),
          payments : Seq({t.tx : t \in Transactions}),
          closes   : Seq({t.tx : t \in Transactions})]

(* The variables hold what their declarations say; no message asks for the *)
(* genesis block (p2p/node.go, Handshake and GetBlocks).                   *)
TypeOK ==
    /\ up \subseteq Nodes /\ conns \subseteq Dials
    /\ DOMAIN chain = Nodes /\ DOMAIN net = Channels
    /\ \A n \in Nodes :
          /\ BlocksAt(n) \subseteq Block
          /\ producer[n].step \in {"idle", "select", "commit"}
          /\ Cardinality(applying[n]) <= 1
    /\ BlocksInTransit \subseteq Block
    /\ \A c \in Channels : \A m \in ToSet(net[c]) :
          m.type = "get_blocks" => m.height \in Nat \ {0}
    /\ submitted \subseteq Transactions

(* No two nodes ever hold different blocks at the same height, although    *)
(* ValidateBlock (ledger/state.go) takes a block of any validator: only    *)
(* the turns of the validators (poa/producer.go, CanProduce), which may    *)
(* not overlap across crashes and late blocks, keep the chains the same.   *)
Agreement ==
    \A n, m \in Nodes : IsPrefix(chain[n], chain[m]) \/ IsPrefix(chain[m], chain[n])

(* The one list of blocks: the chain of a node that has the most.          *)
Log == CHOOSE s \in {chain[n] : n \in Nodes} : \A n \in Nodes : Height(n) <= Len(s)

Shared == INSTANCE Chain WITH
    InitialState <- Genesis,
    Valid    <- LAMBDA b, s : ApplyTransactions(b, s) # {},
    After    <- StateAfter,
    Accounts <- Persisted,
    log      <- Log,
    height   <- [n \in Nodes |-> Height(n)]

(* Together the nodes are one ledger: whatever crashes, gets lost or comes *)
(* late, a node only ever appends the next block of the list all share,    *)
(* and only one that has them all makes a new one (bridge.go, applyBlocks  *)
(* and ProduceBlockIfReady). A start with a keystore that has other keys   *)
(* by now (chain/blockchain.go, New) changes no account.                   *)
ImplementsChain == Shared!Spec

(* Nodes with as many blocks have the same accounts and balances, however  *)
(* often they crashed and whichever peer they got the blocks from, also    *)
(* when their keys differ because the keystore of one had lost a key, or   *)
(* had a new one, before the block about it (api/accounts.go, 117, 293).   *)
ReplicasAgree == Shared!SameHeightSameAccounts

(* Every block that any node stores, applies or has on the wire is the one *)
(* its height's validator has on its own chain: it announces no block it   *)
(* could lose or replace (bridge.go, ProduceBlockIfReady).                 *)
KnownBlocksAreFinal ==
    \A b \in BlocksInTransit \cup UNION {BlocksAt(n) : n \in Nodes} :
        LET v == ValidatorForHeight(b.height)
        IN  b.height <= Height(v) /\ chain[v][b.height] = b

(* What a pool reserves is what its pending payments take, also on nodes   *)
(* whose pool is emptied by blocks with payments they never heard of       *)
(* (mempool/pool.go, removeLocked).                                        *)
ReservedIsExact ==
    \A n \in Nodes : \A a \in AccountIDs :
        pools[n].payments.reserved[a] = GrossOf(pools[n].payments.order, a)

(* ProduceBlockIfReady holds no lock between reading the height and the    *)
(* commit, and never loses its block to one that arrives in between.       *)
ProductionIsNeverWasted ==
    [][\A n \in Nodes : producer[n].step = "commit" /\ producer'[n].step = "idle"
                            /\ n \in up'
          => Height(n)' = Height(n) + 1]_vars

(* Nodes that stay connected end up with the same chain, whatever crashed, *)
(* got lost or came out of order: handshake and get_blocks (p2p/node.go).  *)
CatchUp == <>[](\A n, m \in Nodes : chain[n] = chain[m])

Included(t, b) ==
    \/ t.type = "payment" /\ t.tx \in ToSet(b.payments)
    \/ t.type = "create"  /\ t.tx \in ToSet(b.creates)
    \/ t.type = "close"   /\ t.tx \in ToSet(b.closes)

(* What a node accepted from its client, a validator puts in a block       *)
(* (README.md, 108).                                                       *)
SubmittedGetsIncluded ==
    \A t \in Transactions :
        t \in submitted ~> \E n \in Nodes : \E b \in ToSet(chain[n]) : Included(t, b)

(* The index of the transactions of a chain by their id (blockchain.go,    *)
(* txIndex) has one place for each: no transaction is in two blocks.       *)
IncludedOnce ==
    \A n \in Nodes : \A t \in Transactions :
        Cardinality({b \in ToSet(chain[n]) : Included(t, b)}) <= 1
=============================================================================
