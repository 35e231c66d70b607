---------------------------- MODULE Node_proofs ----------------------------
(***************************************************************************)
(* One validator node, for any requests and any number of crashes: types,  *)
(* the count of what is reserved, blocks that the chain never refuses, and *)
(* no transaction twice.                                                   *)
(***************************************************************************)
EXTENDS Node, Rules_proofs

Payable == {p \in PaymentTransaction : GrossAmount(p.items) \in Nat}

DiskTyped == disk \in [blocks   : Seq(Block),
                       saved    : SUBSET Balances,
                       keystore : Seq(KeystoreEntry) \cup {Torn}]

MemoryTyped ==
    /\ ledger \in State /\ keystore \in Seq(KeystoreEntry)
    /\ blocks \in Seq(Block)

PoolsTyped ==
    /\ ExactPool(pool, Payable)
    /\ createPool \in Seq(AccountCreateTransaction)
    /\ closePool \in Seq(AccountCloseTransaction)

Call(steps, T) == [step : steps, tx : T]

CallsTyped ==
    calls \subseteq
        Call({"admit"}, PaymentTransaction)
        \cup Call({"queue create", "save key"}, AccountCreateTransaction)
        \cup Call({"queue close", "drop key"}, AccountCloseTransaction)

(* What is being produced is what was selected from the ledger so far. *)
ProducerOK ==
    /\ producer \in [step    : {"idle", "payments", "closes", "commit"},
                     scratch : State,
                     block   : Block]
    /\ producer.step = "payments" =>
          AfterCreates({ledger}, producer.block.creates) = {producer.scratch}
    /\ producer.step = "closes" =>
          AfterPayments(AfterCreates({ledger}, producer.block.creates),
                        producer.block.payments) = {producer.scratch}
    /\ producer.step = "commit" =>
          ApplyTransactions(producer.block, ledger) = {producer.scratch}

(* Handlers and the producer run while the node is up, and never else.     *)
(* Until its first start is complete the keystore file is the operator's.  *)
StatusOK ==
    /\ status \in {"down", "genesis", "up", "failed"} /\ faults \in 0..MaxFaults
    /\ ~Up => calls = {} /\ producer.step = "idle"
    /\ disk.blocks = <<>> => status = "down" /\ disk.keystore = GenesisKeystore
    /\ status = "genesis" => disk.keystore = GenesisKeystore

DataOK == DiskTyped /\ MemoryTyped /\ PoolsTyped /\ CallsTyped /\ ProducerOK /\ StatusOK

-----------------------------------------------------------------------------
(* The first and the last of some elements are elements.                   *)
LEMMA EndsTyped ==
    ASSUME NEW T, NEW seq \in Seq(T), seq # <<>>
    PROVE  Head(seq) \in T /\ Last(seq) \in T
<1>1. Len(seq) \in Nat /\ Len(seq) # 0
  BY EmptySeq, LenProperties
<1>2. seq[1] \in T /\ seq[Len(seq)] \in T
  BY <1>1, ElementOfSeq
<1>3. Head(seq) = seq[1]
  BY HeadTailProperties
<1> QED
  BY <1>2, <1>3 DEF Last

(* The keys that a keystore has for the accounts are keys, or none.        *)
LEMMA KeystoreKeys ==
    ASSUME NEW ks \in Seq(KeystoreEntry)
    PROVE  /\ HydratedKeys(ks) \in [AccountIDs -> Keys \cup {NoKey}]
           /\ \A a : PrivateKeyFor(ks, a) \in Keys \cup {NoKey}
<1>1. \A a : EntriesOf(ks, a) \in Seq(KeystoreEntry)
  BY OnlyElements DEF EntriesOf
<1>2. ASSUME NEW a, EntriesOf(ks, a) # <<>>
      PROVE  /\ Head(EntriesOf(ks, a)).key \in Keys \cup {NoKey}
             /\ Last(EntriesOf(ks, a)).key \in Keys \cup {NoKey}
  <2>1. /\ Head(EntriesOf(ks, a)) \in KeystoreEntry
        /\ Last(EntriesOf(ks, a)) \in KeystoreEntry
    BY <1>1, <1>2, EndsTyped
  <2> QED
    BY <2>1 DEF KeystoreEntry
<1> QED
  BY <1>2 DEF HydratedKeys, PrivateKeyFor

Keyed == INSTANCE Folding WITH Op <- LAMBDA p, keys, block : KeysAfterBlock(keys, block)

(* So are those that the chain adds to them.                               *)
LEMMA ChainKeys ==
    ASSUME NEW keys \in [AccountIDs -> Keys \cup {NoKey}], NEW bs \in Seq(Block)
    PROVE  FoldLeft(KeysAfterBlock, keys, bs) \in [AccountIDs -> Keys \cup {NoKey}]
<1> DEFINE F == [AccountIDs -> Keys \cup {NoKey}]
           P == {q \in Seq(Block) : Keyed!FoldOf(0, keys, q) \in F}
<1>1. <<>> \in P
  BY EmptySeq, Keyed!FoldEmpty
<1>2. ASSUME NEW q \in P, NEW block \in Block PROVE Append(q, block) \in P
  <2>1. Keyed!FoldOf(0, keys, Append(q, block))
           = KeysAfterBlock(Keyed!FoldOf(0, keys, q), block)
    BY Keyed!FoldAppend
  <2>2. ASSUME NEW k \in F PROVE KeysAfterBlock(k, block) \in F
    <3>1. \A a : EntriesOf(block.creates, a) \in Seq(AccountCreateTransaction)
      BY OnlyElements DEF EntriesOf, Block
    <3>2. ASSUME NEW a, EntriesOf(block.creates, a) # <<>>
          PROVE  Last(EntriesOf(block.creates, a)).key \in Keys \cup {NoKey}
      <4>1. Last(EntriesOf(block.creates, a)) \in AccountCreateTransaction
        BY <3>1, <3>2, EndsTyped
      <4> QED
        BY <4>1 DEF AccountCreateTransaction
    <3> QED
      BY <3>2 DEF KeysAfterBlock
  <2> QED
    BY <2>1, <2>2, AppendProperties
<1> HIDE DEF P
<1>3. P \in SUBSET Seq(Block)
  BY DEF P
<1>4. P = Seq(Block)
  BY <1>1, <1>2, <1>3, Keyed!SeqSet
<1>5. FoldLeft(KeysAfterBlock, keys, bs) = Keyed!FoldOf(0, keys, bs)
  BY DEF Keyed!FoldOf, FoldLeft, MapThenFoldSet,
         Keyed!MapThenFoldSet, Max, Keyed!Max
<1> QED
  BY <1>4, <1>5 DEF P

(* The state that a start makes or loads is a state.                       *)
LEMMA LoadedTyped ==
    ASSUME NEW ks \in Seq(KeystoreEntry), NEW db, db.blocks \in Seq(Block),
           db.saved \subseteq Balances
    PROVE  /\ BuildInitialState(ks) \in State
           /\ LoadedState(db, ks) \in State
<1> DEFINE s0 == BuildInitialState(ks)
           s == CHOOSE t \in db.saved \cup {Persisted(s0)} :
                   db.saved # {} => t \in db.saved
           keys == FoldLeft(KeysAfterBlock, HydratedKeys(ks), db.blocks)
<1>1. s0 \in State
  BY NodeAssumption, KeystoreKeys DEF BuildInitialState, State
<1>2. Persisted(s0) \in Balances
  BY <1>1 DEF Persisted, Balances, State
<1>3. s \in Balances
  <2>1. \E t \in db.saved \cup {Persisted(s0)} : db.saved # {} => t \in db.saved
    OBVIOUS
  <2>2. s \in db.saved \cup {Persisted(s0)}
    BY <2>1
  <2> QED
    BY Zenon, <1>2, <2>2
<1>4. keys \in [AccountIDs -> Keys \cup {NoKey}]
  BY KeystoreKeys, ChainKeys
<1>5. LoadedState(db, ks) = [type |-> s.type, balance |-> s.balance, key |-> keys]
  BY DEF LoadedState
<1> HIDE DEF s, keys
<1> QED
  BY <1>1, <1>3, <1>4, <1>5 DEF Balances, State

(* What is left of a state without its keys.                               *)
LEMMA PersistedTyped ==
    ASSUME NEW s \in State
    PROVE  Persisted(s) \in Balances
BY DEF Persisted, Balances, State

(* Valid blocks lead from states to states.                                *)
LEMMA BlockTyped ==
    ASSUME NEW s \in State, NEW block \in Block
    PROVE  /\ AfterCreates({s}, block.creates) \subseteq State
           /\ AfterPayments(AfterCreates({s}, block.creates), block.payments)
                 \subseteq State
           /\ ApplyTransactions(block, s) \subseteq State
<1> DEFINE C == AccountCreateTransaction
           P == PaymentTransaction
           E == AccountCloseTransaction
<1>1. /\ block.creates \in Seq(C) /\ block.payments \in Seq(P)
      /\ block.closes \in Seq(E)
  BY DEF Block
<1>2. /\ ClosedUnder(State, "create", C) /\ ClosedUnder(State, "payment", P)
      /\ ClosedUnder(State, "close", E)
  BY ApplyTyped DEF ClosedUnder, ValidAs, ApplyAs
<1> HIDE DEF C, P, E
<1> QED
  BY <1>1, <1>2, BlockWithin

-----------------------------------------------------------------------------
(* A node that has not started.                                            *)
LEMMA IdleOK ==
    /\ Idle \in [step    : {"idle", "payments", "closes", "commit"},
                 scratch : State,
                 block   : Block]
    /\ Idle.step = "idle"
BY NodeAssumption, EmptySeq DEF Idle, EmptyBlock, Block

(* Nothing is wrong at the start.                                          *)
LEMMA InitDataOK == Init => DataOK
<1> SUFFICES ASSUME Init PROVE DataOK
  OBVIOUS
<1>1. DiskTyped
  BY NodeAssumption, EmptySeq DEF Init, DiskTyped
<1>2. MemoryTyped
  BY NodeAssumption, EmptySeq DEF Init, MemoryTyped
<1>3. PoolsTyped
  BY EmptyPoolExact, EmptySeq DEF Init, PoolsTyped
<1>4. CallsTyped
  BY DEF Init, CallsTyped
<1>5. ProducerOK
  BY IdleOK DEF Init, ProducerOK
<1>6. StatusOK
  BY IdleOK, NodeAssumption DEF Init, StatusOK, Up
<1> QED
  BY <1>1, <1>2, <1>3, <1>4, <1>5, <1>6 DEF DataOK

(* What a process that dies leaves of its memory.                          *)
LEMMA ForgetData ==
    ASSUME DataOK, Forget, DiskTyped', faults' \in 0..MaxFaults,
           disk'.blocks = <<>> => disk.blocks = <<>> /\ UNCHANGED disk
    PROVE  DataOK'
<1>1. MemoryTyped'
  BY NodeAssumption, EmptySeq DEF Forget, MemoryTyped
<1>2. PoolsTyped'
  BY EmptyPoolExact, EmptySeq DEF Forget, PoolsTyped
<1>3. CallsTyped'
  BY DEF Forget, CallsTyped
<1>4. ProducerOK'
  BY IdleOK DEF Forget, ProducerOK
<1>5. StatusOK'
  BY IdleOK DEF Forget, StatusOK, DataOK, Up
<1> QED
  BY <1>1, <1>2, <1>3, <1>4, <1>5 DEF DataOK

(* A fault is counted.                                                     *)
LEMMA FaultCounted ==
    ASSUME StatusOK, Fault
    PROVE  faults' \in 0..MaxFaults
BY NodeAssumption DEF StatusOK, Fault

(* A start loads what is of the right types.                               *)
LEMMA StartData ==
    ASSUME DataOK, Start
    PROVE  DataOK'
<1>1. DiskTyped /\ ProducerOK /\ StatusOK
  BY DEF DataOK
<1>2. CASE SaveGenesisBlock
  <2>1. EmptyBlock \in Block
    BY EmptySeq DEF EmptyBlock, Block
  <2>2. <<EmptyBlock>> \in Seq(Block)
    BY <2>1
  <2>3. DiskTyped'
    BY Zenon, <1>1, <1>2, <2>2 DEF SaveGenesisBlock, DiskTyped
  <2>4. StatusOK'
    BY <1>1, <1>2 DEF SaveGenesisBlock, StatusOK, Up, memory, DiskTyped
  <2> QED
    BY Zenon, <1>2, <2>3, <2>4 DEF SaveGenesisBlock, memory, DataOK, MemoryTyped, PoolsTyped,
                            CallsTyped, ProducerOK
<1>3. CASE SaveGenesisState
  <2> DEFINE s == BuildInitialState(disk.keystore)
  <2>0. disk.keystore \in Seq(KeystoreEntry) /\ disk.blocks # <<>>
    BY <1>1, <1>3, NodeAssumption DEF SaveGenesisState, StatusOK
  <2>1. s \in State /\ Persisted(s) \in Balances
    BY <1>1, <2>0, LoadedTyped, PersistedTyped DEF DiskTyped
  <2>2. disk' = [disk EXCEPT !.saved = {Persisted(s)}] /\ ledger' = s
    BY <1>3 DEF SaveGenesisState
  <2> HIDE DEF s
  <2>3. DiskTyped'
    BY <1>1, <2>1, <2>2 DEF DiskTyped
  <2>4. MemoryTyped'
    BY <1>1, <1>3, <2>0, <2>1, <2>2 DEF SaveGenesisState, MemoryTyped, DiskTyped
  <2>5. StatusOK'
    BY <1>1, <1>3, <2>0, <2>2 DEF SaveGenesisState, StatusOK, Up, DiskTyped
  <2>6. ProducerOK'
    BY <1>1, <1>3 DEF SaveGenesisState, ProducerOK, StatusOK, Up
  <2> QED
    BY Zenon, <1>3, <2>3, <2>4, <2>5, <2>6 DEF SaveGenesisState, DataOK, PoolsTyped, CallsTyped
<1>4. CASE Restart
  <2>1. UNCHANGED <<disk, pool, createPool, closePool, calls, producer, started, faults>>
    BY <1>4 DEF Restart
  <2>2. ~Up /\ producer.step = "idle" /\ calls = {}
    BY <1>1, <1>4 DEF Restart, StatusOK, Up
  <2>3. MemoryTyped'
    <3>1. CASE disk.keystore # Torn /\ ValidateChain(disk.blocks, disk.keystore)
      <4>1. disk.keystore \in Seq(KeystoreEntry)
        BY <1>1, <3>1 DEF DiskTyped
      <4>2. LoadedState(disk, disk.keystore) \in State
        BY <1>1, <4>1, LoadedTyped DEF DiskTyped
      <4> QED
        BY <1>1, <1>4, <3>1, <4>1, <4>2 DEF Restart, MemoryTyped, DiskTyped
    <3>2. CASE ~(disk.keystore # Torn /\ ValidateChain(disk.blocks, disk.keystore))
      BY <1>4, <3>2 DEF Restart, MemoryTyped, DataOK
    <3> QED
      BY <3>1, <3>2
  <2>4. StatusOK'
    BY <1>1, <1>4, <2>1, <2>2 DEF Restart, StatusOK
  <2>5. ProducerOK'
    BY <1>1, <2>1, <2>2 DEF ProducerOK
  <2> QED
    BY Zenon, <2>1, <2>3, <2>4, <2>5 DEF DataOK, DiskTyped, PoolsTyped, CallsTyped
<1> QED
  BY <1>2, <1>3, <1>4 DEF Start

(* What a request makes a handler carry is of its type.                    *)
LEMMA RequestTyped ==
    ASSUME DataOK
    PROVE  /\ \A r \in PaymentRequests : ToPayment(r) \in PaymentTransaction
           /\ \A r \in CreateRequests : ToCreate(r) \in AccountCreateTransaction
           /\ \A r \in CloseRequests : ToClose(r) \in AccountCloseTransaction
<1>1. /\ ledger \in State /\ ValidatorKey \in Keys
      /\ \A a : PrivateKeyFor(keystore, a) \in Keys \cup {NoKey}
  BY KeystoreKeys, NodeAssumption DEF DataOK, MemoryTyped
<1>2. \A r \in PaymentRequests : ToPayment(r) \in PaymentTransaction
  BY <1>1, RequestsAssumption DEF ToPayment, PaymentTransaction
<1>3. \A r \in CreateRequests : ToCreate(r) \in AccountCreateTransaction
  BY <1>1, RequestsAssumption DEF ToCreate, AccountCreateTransaction
<1>4. \A r \in CloseRequests : ToClose(r) \in AccountCloseTransaction
  BY <1>1, RequestsAssumption DEF ToClose, AccountCloseTransaction, State
<1> QED
  BY <1>2, <1>3, <1>4

(* A request starts a handler.                                             *)
LEMMA RequestData ==
    ASSUME DataOK,
           \/ \E r \in PaymentRequests : BuildPayment(r)
           \/ \E r \in CreateRequests : CheckCreate(r)
           \/ \E r \in CloseRequests : CheckClose(r)
    PROVE  DataOK'
<1>1. /\ Up
      /\ UNCHANGED <<status, disk, ledger, blocks, keystore, pool, createPool,
                     closePool, producer, faults>>
  BY Zenon DEF BuildPayment, CheckCreate, CheckClose, Begin
<1>2. CallsTyped'
  <2>1. ASSUME NEW r \in PaymentRequests, BuildPayment(r) PROVE CallsTyped'
    <3>1. calls' = calls \cup {[step |-> "admit", tx |-> ToPayment(r)]}
      BY <2>1 DEF BuildPayment, Begin
    <3>2. [step |-> "admit", tx |-> ToPayment(r)]
             \in Call({"admit"}, PaymentTransaction)
      BY RequestTyped DEF Call
    <3> QED
      BY Zenon, <3>1, <3>2 DEF CallsTyped, DataOK
  <2>2. ASSUME NEW r \in CreateRequests, CheckCreate(r) PROVE CallsTyped'
    <3>1. calls' = calls \cup {[step |-> "queue create", tx |-> ToCreate(r)]}
      BY Zenon, <2>2 DEF CheckCreate, Begin
    <3>2. [step |-> "queue create", tx |-> ToCreate(r)]
             \in Call({"queue create", "save key"}, AccountCreateTransaction)
      BY RequestTyped DEF Call
    <3> QED
      BY Zenon, <3>1, <3>2 DEF CallsTyped, DataOK
  <2>3. ASSUME NEW r \in CloseRequests, CheckClose(r) PROVE CallsTyped'
    <3>1. calls' = calls \cup {[step |-> "queue close", tx |-> ToClose(r)]}
      BY Zenon, <2>3 DEF CheckClose, Begin
    <3>2. [step |-> "queue close", tx |-> ToClose(r)]
             \in Call({"queue close", "drop key"}, AccountCloseTransaction)
      BY RequestTyped DEF Call
    <3> QED
      BY Zenon, <3>1, <3>2 DEF CallsTyped, DataOK
  <2> QED
    BY <2>1, <2>2, <2>3
<1>3. StatusOK'
  BY <1>1 DEF StatusOK, Up, DataOK
<1> QED
  BY Zenon, <1>1, <1>2, <1>3 DEF DataOK, DiskTyped, MemoryTyped, PoolsTyped, ProducerOK

(* The steps that a handler goes through with its transaction.             *)
LEMMA CallSteps ==
    ASSUME CallsTyped, NEW call \in calls
    PROVE  /\ call = [step |-> call.step, tx |-> call.tx]
           /\ call.step = "admit" => call.tx \in PaymentTransaction
           /\ call.step \in {"queue create", "save key"} =>
                 call.tx \in AccountCreateTransaction
           /\ call.step \in {"queue close", "drop key"} =>
                 call.tx \in AccountCloseTransaction
BY Zenon DEF CallsTyped, Call

(* A payment that is valid in some state takes a number.                   *)
LEMMA ValidIsPayable ==
    ASSUME NEW tx \in PaymentTransaction, NEW s, ValidPayment(tx, s)
    PROVE  tx \in Payable
<1>1. GrossAmount(tx.items) > 0
  BY DEF ValidPayment, ValidLines
<1>2. GrossAmount(tx.items) \in Int
  BY GrossInt DEF PaymentTransaction
<1> QED
  BY <1>1, <1>2 DEF Payable

(* So the pool can count it.                                               *)
LEMMA PayableReservable == Reservable(Payable)
BY DEF Reservable, Payable, PaymentTransaction

(* The keystore and its file after a key was added or dropped.             *)
LEMMA KeystoreData ==
    ASSUME DataOK, NEW ks \in Seq(KeystoreEntry), SetKeystore(ks), Up,
           UNCHANGED <<status, ledger, blocks>>
    PROVE  DiskTyped' /\ MemoryTyped' /\ faults' \in 0..MaxFaults
           /\ disk'.blocks = disk.blocks
<1>1. DiskTyped /\ StatusOK
  BY DEF DataOK
<1>2. keystore' = ks /\ disk' \in {disk, WithFile(ks), WithFile(Torn)}
  BY DEF SetKeystore
<1>3. DiskTyped' /\ disk'.blocks = disk.blocks
  BY <1>1, <1>2 DEF DiskTyped, WithFile
<1>4. MemoryTyped'
  BY <1>2 DEF MemoryTyped, DataOK
<1>5. faults' \in 0..MaxFaults
  BY <1>1, FaultCounted DEF SetKeystore, StatusOK
<1> QED
  BY <1>3, <1>4, <1>5

(* A handler goes on.                                                      *)
LEMMA HandleData ==
    ASSUME DataOK, NEW call \in calls, Handle(call)
    PROVE  DataOK'
<1>1. /\ DiskTyped /\ MemoryTyped /\ PoolsTyped /\ CallsTyped /\ ProducerOK /\ StatusOK
      /\ Up
  BY DEF DataOK, StatusOK
<1>2. UNCHANGED <<status, ledger, blocks, producer, started>>
  BY Zenon DEF Handle, AdmitPayment, QueueCreate, SaveKey, QueueClose, DropKey
<1>3. ProducerOK'
  BY <1>1, <1>2 DEF ProducerOK
<1>4. ASSUME NEW step \in {"save key", "drop key"},
             Finish(call) \/ Proceed(call, step),
             step = "save key" => call.step = "queue create",
             step = "drop key" => call.step = "queue close"
      PROVE  CallsTyped'
  <2>1. CASE Finish(call)
    BY Zenon, <1>1, <2>1 DEF Finish, CallsTyped
  <2>2. CASE Proceed(call, step)
    <3>1. calls' = (calls \ {call}) \cup {[step |-> step, tx |-> call.tx]}
      BY Zenon, <2>2 DEF Proceed
    <3>2. \/ step = "save key" /\ call.tx \in AccountCreateTransaction
          \/ step = "drop key" /\ call.tx \in AccountCloseTransaction
      BY Zenon, <1>1, <1>4, CallSteps
    <3>3. [step |-> step, tx |-> call.tx] \in
             Call({"queue create", "save key"}, AccountCreateTransaction)
             \cup Call({"queue close", "drop key"}, AccountCloseTransaction)
      BY Zenon, <3>2 DEF Call
    <3> QED
      BY Zenon, <1>1, <3>1, <3>3 DEF CallsTyped
  <2> QED
    BY Zenon, <1>4, <2>1, <2>2
<1>5. Finish(call) => CallsTyped'
  BY Zenon, <1>1 DEF Finish, CallsTyped
<1>6. CASE AdmitPayment(call)
  <2>1. PoolsTyped'
    <3>1. CASE ValidPayment(call.tx, Available(ledger, pool, call.tx.payer))
      <4>1. call.tx \in PaymentTransaction
        BY Zenon, <1>1, <1>6, CallSteps DEF AdmitPayment
      <4>2. call.tx \in Payable
        BY <3>1, <4>1, ValidIsPayable
      <4>3. ExactPool(AddPayment(pool, call.tx), Payable)
        BY <1>1, <4>2, AddPaymentExact, PayableReservable DEF PoolsTyped
      <4> QED
        BY <1>1, <1>6, <4>3 DEF AdmitPayment, PoolsTyped
    <3>2. CASE ~ValidPayment(call.tx, Available(ledger, pool, call.tx.payer))
      BY <1>1, <1>6, <3>2 DEF AdmitPayment, PoolsTyped
    <3> QED
      BY <3>1, <3>2
  <2>2. UNCHANGED <<disk, keystore, faults>> /\ Finish(call)
    BY <1>6 DEF AdmitPayment
  <2>3. StatusOK' /\ DiskTyped' /\ MemoryTyped'
    BY <1>1, <1>2, <2>2 DEF StatusOK, Up, DiskTyped, MemoryTyped
  <2> QED
    BY <1>3, <1>5, <2>1, <2>2, <2>3 DEF DataOK
<1>7. CASE QueueCreate(call) \/ QueueClose(call)
  <2>1. UNCHANGED <<disk, keystore, faults, pool>>
    BY Zenon, <1>7 DEF QueueCreate, QueueClose
  <2>2. CallsTyped'
    BY Zenon, <1>4, <1>7 DEF QueueCreate, QueueClose
  <2>3. PoolsTyped'
    <3>1. CASE QueueCreate(call)
      <4>1. call.tx \in AccountCreateTransaction
        BY Zenon, <1>1, <3>1, CallSteps DEF QueueCreate
      <4>2. Append(createPool, call.tx) \in Seq(AccountCreateTransaction)
        BY <1>1, <4>1, AppendProperties DEF PoolsTyped
      <4> QED
        BY Zenon, <1>1, <3>1, <4>2 DEF QueueCreate, PoolsTyped
    <3>2. CASE QueueClose(call)
      <4>1. call.tx \in AccountCloseTransaction
        BY Zenon, <1>1, <3>2, CallSteps DEF QueueClose
      <4>2. Append(closePool, call.tx) \in Seq(AccountCloseTransaction)
        BY <1>1, <4>1, AppendProperties DEF PoolsTyped
      <4> QED
        BY Zenon, <1>1, <3>2, <4>2 DEF QueueClose, PoolsTyped
    <3> QED
      BY <1>7, <3>1, <3>2
  <2>4. StatusOK' /\ DiskTyped' /\ MemoryTyped'
    BY <1>1, <1>2, <2>1 DEF StatusOK, Up, DiskTyped, MemoryTyped
  <2> QED
    BY <1>3, <2>2, <2>3, <2>4 DEF DataOK
<1>8. CASE SaveKey(call) \/ DropKey(call)
  <2>1. UNCHANGED <<pool, createPool, closePool>> /\ Finish(call)
    BY Zenon, <1>8 DEF SaveKey, DropKey
  <2>2. PICK ks \in Seq(KeystoreEntry) : SetKeystore(ks)
    <3>1. CASE SaveKey(call)
      <4>1. call.tx \in AccountCreateTransaction
        BY Zenon, <1>1, <3>1, CallSteps DEF SaveKey
      <4>2. [account |-> call.tx.account, key |-> call.tx.key] \in KeystoreEntry
        BY <4>1 DEF AccountCreateTransaction, KeystoreEntry
      <4>3. AppendEntry(keystore, call.tx) \in Seq(KeystoreEntry)
        BY <1>1, <4>2, AppendProperties DEF AppendEntry, MemoryTyped
      <4> QED
        BY Zenon, <3>1, <4>3 DEF SaveKey
    <3>2. CASE DropKey(call)
      <4>1. RemoveEntry(keystore, call.tx.account) \in Seq(KeystoreEntry)
        BY <1>1, OnlyElements DEF RemoveEntry, MemoryTyped
      <4> QED
        BY Zenon, <3>2, <4>1 DEF DropKey
    <3> QED
      BY <1>8, <3>1, <3>2
  <2>3. DiskTyped' /\ MemoryTyped' /\ faults' \in 0..MaxFaults /\ disk'.blocks = disk.blocks
    BY <1>1, <1>2, <2>2, KeystoreData
  <2>4. StatusOK'
    BY <1>1, <1>2, <2>3 DEF StatusOK, Up
  <2>5. PoolsTyped'
    BY <1>1, <2>1 DEF PoolsTyped
  <2> QED
    BY <1>3, <1>5, <2>1, <2>3, <2>4, <2>5 DEF DataOK
<1> QED
  BY <1>6, <1>7, <1>8 DEF Handle

-----------------------------------------------------------------------------

(* A block of a kind of transactions more leads to the state computed.     *)
LEMMA SelectCreatesData ==
    ASSUME DataOK, SelectCreates
    PROVE  DataOK'
<1> DEFINE sel   == SelectCreate(createPool, MaxTxsPerBlock, ledger)
           block == [EmptyBlock EXCEPT !.creates = sel.taken]
<1>1. /\ Up /\ createPool' = Without(createPool, sel.dropped)
      /\ producer' = [step |-> "payments", scratch |-> sel.state, block |-> block]
      /\ UNCHANGED <<status, disk, ledger, blocks, keystore, pool, closePool, calls,
                     started, faults>>
  BY Zenon DEF SelectCreates
<1>2. createPool \in Seq(AccountCreateTransaction) /\ ledger \in State
  BY DEF DataOK, PoolsTyped, MemoryTyped
<1>3. sel.taken \in Seq(AccountCreateTransaction) /\ CreatesLead(sel, ledger)
  BY <1>2, SelectedCreates DEF Selection
<1> HIDE DEF sel
<1>4. block \in Block /\ block.creates = sel.taken
  BY <1>3, EmptySeq DEF EmptyBlock, Block
<1> HIDE DEF block
<1>5. AfterCreates({ledger}, block.creates) = {sel.state}
  BY Zenon, <1>3, <1>4 DEF CreatesLead
<1>6. sel.state \in State
  BY <1>2, <1>4, <1>5, BlockTyped
<1>7. ProducerOK'
  BY <1>1, <1>4, <1>5, <1>6 DEF ProducerOK
<1>8. PoolsTyped'
  BY <1>1, <1>2, WithoutElements DEF PoolsTyped, DataOK
<1>9. StatusOK'
  BY <1>1 DEF StatusOK, Up, DataOK
<1> QED
  BY Zenon, <1>1, <1>7, <1>8, <1>9 DEF DataOK, DiskTyped, MemoryTyped, CallsTyped

(* So do the payments ...                                                  *)
LEMMA SelectPaymentsData ==
    ASSUME DataOK, SelectPayments
    PROVE  DataOK'
<1> DEFINE room  == MaxTxsPerBlock - Len(producer.block.creates)
           sel   == SelectPayment(pool.order, room, producer.scratch)
           block == [producer.block EXCEPT !.payments = sel.taken]
<1>0. ProducerOK /\ StatusOK /\ Up /\ producer.step = "payments"
  BY DEF SelectPayments, DataOK, StatusOK
<1>1. /\ pool' = RemovePayments(pool, sel.dropped)
      /\ producer' = [step |-> "closes", scratch |-> sel.state, block |-> block]
      /\ UNCHANGED <<status, disk, ledger, blocks, keystore, createPool, closePool,
                     calls, started, faults>>
  BY Zenon DEF SelectPayments
<1>2. /\ ExactPool(pool, Payable) /\ pool.order \in Seq(Payable)
      /\ ledger \in State /\ producer.block \in Block
  BY <1>0 DEF DataOK, PoolsTyped, MemoryTyped, ExactPool, ProducerOK
<1>3. sel.taken \in Seq(Payable) /\ PaymentsLead(sel, producer.scratch)
  <2> HIDE DEF room
  <2> QED
    BY <1>2, SelectedPayments DEF Selection
<1> HIDE DEF sel
<1>4. /\ block \in Block /\ block.payments = sel.taken
      /\ block.creates = producer.block.creates
  <2>1. sel.taken \in Seq(PaymentTransaction)
    BY <1>3, SeqMonotonic DEF Payable
  <2> QED
    BY <1>2, <2>1 DEF Block
<1> HIDE DEF block
<1>5. AfterPayments(AfterCreates({ledger}, block.creates), block.payments) = {sel.state}
  <2>1. AfterCreates({ledger}, block.creates) = {producer.scratch}
    BY Zenon, <1>0, <1>4 DEF ProducerOK
  <2> QED
    BY Zenon, <1>3, <1>4, <2>1 DEF PaymentsLead
<1>6. sel.state \in State
  BY <1>2, <1>4, <1>5, BlockTyped
<1>7. ProducerOK'
  BY <1>1, <1>4, <1>5, <1>6 DEF ProducerOK
<1>8. PoolsTyped'
  BY <1>1, <1>2, RemovePaymentsExact, PayableReservable DEF PoolsTyped, DataOK
<1>9. StatusOK'
  BY <1>0, <1>1 DEF StatusOK, Up
<1> QED
  BY Zenon, <1>1, <1>7, <1>8, <1>9 DEF DataOK, DiskTyped, MemoryTyped, CallsTyped

(* ... and the closures.                                                   *)
LEMMA SelectClosesData ==
    ASSUME DataOK, SelectCloses
    PROVE  DataOK'
<1> DEFINE room  == MaxTxsPerBlock - Len(producer.block.creates)
                                   - Len(producer.block.payments)
           sel   == SelectClose(closePool, room, producer.scratch)
           block == [producer.block EXCEPT !.closes = sel.taken]
           next  == [step |-> "commit", scratch |-> sel.state, block |-> block]
<1>0. ProducerOK /\ StatusOK /\ Up /\ producer.step = "closes"
  BY DEF SelectCloses, DataOK, StatusOK
<1>1. /\ closePool' = Without(closePool, sel.dropped)
      /\ producer' = IF block = EmptyBlock THEN Idle ELSE next
      /\ UNCHANGED <<status, disk, ledger, blocks, keystore, pool, createPool, calls,
                     started, faults>>
  BY Zenon DEF SelectCloses
<1>2. /\ closePool \in Seq(AccountCloseTransaction)
      /\ ledger \in State /\ producer.block \in Block
  BY <1>0 DEF DataOK, PoolsTyped, MemoryTyped, ProducerOK
<1>3. sel.taken \in Seq(AccountCloseTransaction) /\ ClosesLead(sel, producer.scratch)
  <2> HIDE DEF room
  <2> QED
    BY <1>2, SelectedCloses DEF Selection
<1> HIDE DEF sel
<1>4. /\ block \in Block /\ block.closes = sel.taken
      /\ block.creates = producer.block.creates
      /\ block.payments = producer.block.payments
  BY <1>2, <1>3 DEF Block
<1>n. next.step = "commit" /\ next.block = block /\ next.scratch = sel.state
      /\ next = [step |-> "commit", scratch |-> sel.state, block |-> block]
  OBVIOUS
<1> HIDE DEF block, next
<1>5. ApplyTransactions(block, ledger) = {sel.state}
  <2>1. AfterPayments(AfterCreates({ledger}, block.creates), block.payments)
           = {producer.scratch}
    BY Zenon, <1>0, <1>4 DEF ProducerOK
  <2>2. AfterCloses({producer.scratch}, block.closes) = {sel.state}
    BY Zenon, <1>3, <1>4 DEF ClosesLead
  <2> QED
    BY <2>1, <2>2 DEF ApplyTransactions, AfterCreates, AfterPayments, AfterCloses
<1>6. sel.state \in State
  BY <1>2, <1>4, <1>5, BlockTyped
<1>7. ProducerOK'
  <2>1. CASE producer' = Idle
    BY <2>1, IdleOK DEF ProducerOK
  <2>2. CASE producer' = next
    BY <1>1, <1>4, <1>5, <1>6, <1>n, <2>2 DEF ProducerOK
  <2> QED
    BY <1>1, <2>1, <2>2
<1>8. PoolsTyped'
  BY <1>1, <1>2, WithoutElements DEF PoolsTyped, DataOK
<1>9. StatusOK'
  BY <1>0, <1>1 DEF StatusOK, Up
<1> QED
  BY Zenon, <1>1, <1>7, <1>8, <1>9 DEF DataOK, DiskTyped, MemoryTyped, CallsTyped

(* A saved block is one more on the disk.                                  *)
LEMMA SavedTyped ==
    ASSUME DataOK, producer.step = "commit",
           NEW s \in ApplyTransactions(producer.block, ledger)
    PROVE  /\ Saved(producer.block, s) \in [blocks   : Seq(Block),
                                            saved    : SUBSET Balances,
                                            keystore : Seq(KeystoreEntry) \cup {Torn}]
           /\ Saved(producer.block, s).blocks # <<>>
           /\ Saved(producer.block, s).keystore = disk.keystore
           /\ s \in State
<1>1. DiskTyped /\ producer.block \in Block /\ ledger \in State
  BY DEF DataOK, MemoryTyped, ProducerOK
<1>2. s \in State
  BY <1>1, BlockTyped
<1>3. Persisted(s) \in Balances
  BY <1>2, PersistedTyped
<1>4. disk.blocks \in Seq(Block)
  BY <1>1 DEF DiskTyped
<1>5. /\ Append(disk.blocks, producer.block) \in Seq(Block)
      /\ Append(disk.blocks, producer.block) # <<>>
  BY <1>1, <1>4, AppendProperties
<1>6. Saved(producer.block, s) = [blocks   |-> Append(disk.blocks, producer.block),
                                  saved    |-> {Persisted(s)},
                                  keystore |-> disk.keystore]
  BY DEF Saved
<1>7. disk.keystore \in Seq(KeystoreEntry) \cup {Torn} /\ {Persisted(s)} \in SUBSET Balances
  BY <1>1, <1>3 DEF DiskTyped
<1> DEFINE new == Append(disk.blocks, producer.block)
<1> HIDE DEF new
<1>8. new \in Seq(Block) /\ new # <<>>
  BY <1>5 DEF new
<1>9. Saved(producer.block, s) = [blocks   |-> new,
                                  saved    |-> {Persisted(s)},
                                  keystore |-> disk.keystore]
  BY <1>6 DEF new
<1> QED
  BY <1>2, <1>7, <1>8, <1>9

(* A commit.                                                               *)
LEMMA CommitData ==
    ASSUME DataOK, Commit
    PROVE  DataOK'
<1> DEFINE block == producer.block
           next  == ApplyTransactions(block, ledger)
<1>0. /\ DiskTyped /\ MemoryTyped /\ PoolsTyped /\ ProducerOK /\ StatusOK /\ Up
      /\ producer.step = "commit" /\ producer' = Idle
      /\ UNCHANGED <<status, keystore, calls, started, faults>>
  BY DEF Commit, DataOK, StatusOK
<1>1. ProducerOK'
  BY <1>0, IdleOK DEF ProducerOK
<1>2. CASE UNCHANGED <<disk, ledger, blocks, pool, createPool, closePool>>
  <2>1. StatusOK'
    BY <1>0, <1>2 DEF StatusOK, Up
  <2> QED
    BY Zenon, <1>0, <1>1, <1>2, <2>1 DEF DataOK, DiskTyped, MemoryTyped, PoolsTyped,
                                         CallsTyped
<1>3. ASSUME NEW s \in next,
             /\ disk' = Saved(block, s) /\ ledger' = s /\ blocks' = Append(blocks, block)
             /\ pool' = RemovePayments(pool, block.payments)
             /\ createPool' = Without(createPool, block.creates)
             /\ closePool' = Without(closePool, block.closes)
      PROVE  DataOK'
  <2>1. DiskTyped' /\ disk'.blocks # <<>> /\ s \in State /\ block \in Block
    BY <1>0, <1>3, SavedTyped DEF DiskTyped, ProducerOK
  <2>2. MemoryTyped'
    BY <1>0, <1>3, <2>1, AppendProperties DEF MemoryTyped
  <2>3. PoolsTyped'
    BY <1>0, <1>3, WithoutElements, RemovePaymentsExact, PayableReservable DEF PoolsTyped
  <2>4. StatusOK'
    BY <1>0, <2>1 DEF StatusOK, Up
  <2> QED
    BY Zenon, <1>0, <1>1, <2>1, <2>2, <2>3, <2>4 DEF DataOK, CallsTyped
<1> QED
  BY Zenon, <1>2, <1>3 DEF Commit

(* The process dies, while it works, while it writes the keystore file, or *)
(* right after the database has a block.                                   *)
LEMMA CrashData ==
    ASSUME DataOK, Crash \/ CrashInCommit \/ \E call \in calls : CrashInSave(call)
    PROVE  DataOK'
<1>1. Forget /\ Fault /\ DiskTyped /\ StatusOK
  BY Zenon DEF Crash, CrashInCommit, CrashInSave, DataOK
<1>2. faults' \in 0..MaxFaults
  BY <1>1, FaultCounted
<1>3. DiskTyped' /\ (disk'.blocks = <<>> => disk.blocks = <<>> /\ UNCHANGED disk)
  <2>1. CASE Crash
    BY Zenon, <1>1, <2>1 DEF Crash, DiskTyped
  <2>2. CASE CrashInCommit
    <3>1. PICK s \in ApplyTransactions(producer.block, ledger) :
             disk' = Saved(producer.block, s)
      BY <2>2 DEF CrashInCommit
    <3>2. producer.step = "commit"
      BY <2>2 DEF CrashInCommit
    <3> QED
      BY <3>1, <3>2, SavedTyped DEF DiskTyped
  <2>3. CASE \E call \in calls : CrashInSave(call)
    <3>1. disk' = WithFile(Torn) /\ Up
      BY Zenon, <1>1, <2>3 DEF CrashInSave, StatusOK
    <3> QED
      BY <1>1, <3>1 DEF DiskTyped, WithFile, StatusOK, Up
  <2> QED
    BY <2>1, <2>2, <2>3
<1> QED
  BY <1>1, <1>2, <1>3, ForgetData

(* The data are what DataOK says after every step.                         *)
LEMMA NextDataOK ==
    ASSUME DataOK, [Next]_vars
    PROVE  DataOK'
<1>1. CASE Start
  BY <1>1, StartData
<1>2. CASE Crash \/ CrashInCommit \/ \E call \in calls : CrashInSave(call)
  BY <1>2, CrashData
<1>3. CASE CommitFails
  <2>1. /\ Fault /\ StatusOK /\ Up /\ producer' = Idle
        /\ UNCHANGED <<status, disk, ledger, blocks, keystore, pool, createPool,
                       closePool, calls, started>>
    BY <1>3 DEF CommitFails, DataOK, StatusOK
  <2>2. ProducerOK'
    BY <2>1, IdleOK DEF ProducerOK
  <2>3. StatusOK'
    BY <2>1, FaultCounted DEF StatusOK, Up
  <2> QED
    BY Zenon, <2>1, <2>2, <2>3 DEF DataOK, DiskTyped, MemoryTyped, PoolsTyped, CallsTyped
<1>4. CASE \/ \E r \in PaymentRequests : BuildPayment(r)
           \/ \E r \in CreateRequests : CheckCreate(r)
           \/ \E r \in CloseRequests : CheckClose(r)
  BY <1>4, RequestData
<1>5. CASE \E call \in calls : Handle(call)
  BY <1>5, HandleData
<1>6. CASE Produce
  BY <1>6, SelectCreatesData, SelectPaymentsData, SelectClosesData, CommitData DEF Produce
<1>7. CASE UNCHANGED vars
  BY Zenon, <1>7 DEF vars, memory, DataOK, DiskTyped, MemoryTyped, PoolsTyped, CallsTyped,
                     ProducerOK, StatusOK, Up
<1> QED
  BY Zenon, <1>1, <1>2, <1>3, <1>4, <1>5, <1>6, <1>7 DEF Next

(* The data are always what DataOK says.                                   *)
LEMMA SpecDataOK == Spec => []DataOK
BY InitDataOK, NextDataOK, PTL DEF Spec

-----------------------------------------------------------------------------
(***************************************************************************)
(* What follows from it.                                                   *)
(***************************************************************************)
(* The files, the state, the pools and the block under production always   *)
(* have the types of the code's declarations (chain/blockchain.go,         *)
(* mempool/pool.go, config.go), a torn keystore file apart.                *)
THEOREM NodeTypeOK == Spec => []TypeOK
<1>1. DataOK => TypeOK
  <2> SUFFICES ASSUME DataOK PROVE TypeOK
    OBVIOUS
  <2>1. pool.order \in Seq(PaymentTransaction) /\ pool.reserved \in [AccountIDs -> Nat]
    <3>1. pool.order \in Seq(Payable) /\ pool.reserved \in [AccountIDs -> Nat]
      BY Zenon DEF DataOK, PoolsTyped, ExactPool
    <3> QED
      BY <3>1, SeqMonotonic DEF Payable
  <2>2. /\ disk.blocks \in Seq(Block) /\ disk.saved \subseteq Balances
        /\ disk.keystore \in Seq(KeystoreEntry) \cup {Torn}
    BY DEF DataOK, DiskTyped
  <2> QED
    BY Zenon, <2>1, <2>2 DEF DataOK, MemoryTyped, PoolsTyped, ProducerOK, StatusOK, TypeOK
<1> QED
  BY <1>1, SpecDataOK, PTL

(* The pool's count of what is reserved for a payer is what its pending    *)
(* payments take, for any admissions, drops, commits and crashes: release  *)
(* never leaves a rest nor takes too much (mempool/pool.go).               *)
THEOREM NodeReservedIsExact == Spec => []ReservedIsExact
<1>1. DataOK => ReservedIsExact
  BY Zenon DEF DataOK, PoolsTyped, ExactPool, ReservedIsExact
<1> QED
  BY <1>1, SpecDataOK, PTL

(* The chain never refuses what its own producer selected, whatever the    *)
(* handlers did to the pools meanwhile, and the block has the effect that  *)
(* the producer computed on its copy (chain/blockchain.go).                *)
THEOREM NodeProducedBlockIsValid == Spec => []ProducedBlockIsValid
<1>1. DataOK => ProducedBlockIsValid
  BY Zenon DEF DataOK, ProducerOK, ProducedBlockIsValid
<1> QED
  BY <1>1, SpecDataOK, PTL

-----------------------------------------------------------------------------
(***************************************************************************)
(* No transaction twice. An id is in one place at most: with a handler     *)
(* that has not queued it yet, among the pending transactions of one kind  *)
(* (the pool, or the block being made of it), or in the chain.             *)
(***************************************************************************)
Waiting     == {c \in calls : c.step \in {"admit", "queue create", "queue close"}}
WaitingIds  == {c.tx.id : c \in Waiting}
PaymentIds  == IdsIn(pool.order) \cup IdsIn(producer.block.payments)
CreateIds   == IdsIn(createPool) \cup IdsIn(producer.block.creates)
CloseIds    == IdsIn(closePool) \cup IdsIn(producer.block.closes)
ExecutedIds == ToSet(Executed(disk.blocks))

Apart(A, B, C, W, E, S) ==
    /\ A \cup B \cup C \cup W \cup E \subseteq S
    /\ A \cap B = {} /\ A \cap C = {} /\ A \cap W = {} /\ A \cap E = {}
    /\ B \cap C = {} /\ B \cap W = {} /\ B \cap E = {}
    /\ C \cap W = {} /\ C \cap E = {} /\ W \cap E = {}

PoolsUnrepeated ==
    Unrepeated(pool.order) /\ Unrepeated(createPool) /\ Unrepeated(closePool)

BlockUnrepeated(block) ==
    /\ Unrepeated(block.creates) /\ Unrepeated(block.payments)
    /\ Unrepeated(block.closes)

CallsUnrepeated == \A c, d \in Waiting : c.tx.id = d.tx.id => c = d

IdsApart == Apart(PaymentIds, CreateIds, CloseIds, WaitingIds, ExecutedIds, started)

IdsOK ==
    PoolsUnrepeated /\ BlockUnrepeated(producer.block) /\ CallsUnrepeated /\ IdsApart
    /\ ExecutedOnce

(* Ids that go away do no harm, nor do more requests.                      *)
LEMMA ApartLess ==
    ASSUME NEW A, NEW B, NEW C, NEW W, NEW E, NEW S, Apart(A, B, C, W, E, S),
           NEW A2 \in SUBSET A, NEW B2 \in SUBSET B, NEW C2 \in SUBSET C,
           NEW W2 \in SUBSET W, NEW S2, S \subseteq S2
    PROVE  Apart(A2, B2, C2, W2, E, S2)
BY DEF Apart

(* An id goes from a handler to a pool.                                    *)
LEMMA ApartMoved ==
    ASSUME NEW A, NEW B, NEW C, NEW W, NEW E, NEW S, Apart(A, B, C, W, E, S),
           NEW id \in W
    PROVE  /\ Apart(A \cup {id}, B, C, W \ {id}, E, S)
           /\ Apart(A, B \cup {id}, C, W \ {id}, E, S)
           /\ Apart(A, B, C \cup {id}, W \ {id}, E, S)
BY DEF Apart

(* An id is new.                                                           *)
LEMMA ApartMore ==
    ASSUME NEW A, NEW B, NEW C, NEW W, NEW E, NEW S, Apart(A, B, C, W, E, S),
           NEW id, id \notin S
    PROVE  Apart(A, B, C, W \cup {id}, E, S \cup {id})
BY DEF Apart

(* The ids of a block go to the chain.                                     *)
LEMMA ApartExecuted ==
    ASSUME NEW A, NEW B, NEW C, NEW W, NEW E, NEW S, Apart(A, B, C, W, E, S),
           NEW X \in SUBSET A, NEW Y \in SUBSET B, NEW Z \in SUBSET C,
           NEW A2 \in SUBSET (A \ X), NEW B2 \in SUBSET (B \ Y),
           NEW C2 \in SUBSET (C \ Z), NEW W2 \in SUBSET W
    PROVE  Apart(A2, B2, C2, W2, E \cup (Y \cup X \cup Z), S)
BY DEF Apart

(* The ids of a block are those of its transactions, none twice when the   *)
(* three kinds have no id twice and none in common.                        *)
LEMMA BlockIds ==
    ASSUME NEW block \in Block, BlockUnrepeated(block),
           IdsIn(block.creates) \cap IdsIn(block.payments) = {},
           IdsIn(block.creates) \cap IdsIn(block.closes) = {},
           IdsIn(block.payments) \cap IdsIn(block.closes) = {}
    PROVE  /\ IsInjective(Ids(block))
           /\ ToSet(Ids(block)) = IdsIn(block.creates) \cup IdsIn(block.payments)
                                     \cup IdsIn(block.closes)
<1> DEFINE T == AccountCreateTransaction \cup PaymentTransaction
                   \cup AccountCloseTransaction
           two == block.creates \o block.payments
           all == two \o block.closes
<1>1. /\ block.creates \in Seq(T) /\ block.payments \in Seq(T)
      /\ block.closes \in Seq(T)
  <2>1. /\ block.creates \in Seq(AccountCreateTransaction)
        /\ block.payments \in Seq(PaymentTransaction)
        /\ block.closes \in Seq(AccountCloseTransaction)
    BY DEF Block
  <2> QED
    BY <2>1, SeqMonotonic
<1> HIDE DEF T
<1>2. /\ two \in Seq(T) /\ Unrepeated(two)
      /\ IdsIn(two) = IdsIn(block.creates) \cup IdsIn(block.payments)
  BY <1>1, JoinUnrepeated DEF BlockUnrepeated
<1>3. Ids(block) = [i \in DOMAIN all |-> all[i].id]
  BY DEF Ids
<1> HIDE DEF two
<1>4. IdsIn(two) \cap IdsIn(block.closes) = {}
  BY <1>2
<1>5. /\ all \in Seq(T) /\ Unrepeated(all)
      /\ IdsIn(all) = IdsIn(two) \cup IdsIn(block.closes)
  BY <1>1, <1>2, <1>4, JoinUnrepeated DEF BlockUnrepeated
<1> HIDE DEF all
<1>6. DOMAIN all = 1..Len(all)
  BY <1>5, LenProperties
<1>7. IsInjective(Ids(block))
  BY <1>3, <1>5, <1>6 DEF IsInjective, Unrepeated
<1>8. ToSet(Ids(block)) = IdsIn(all)
  BY <1>3 DEF ToSet, IdsIn
<1> QED
  BY <1>2, <1>5, <1>7, <1>8

(* They are strings.                                                       *)
LEMMA IdsTyped ==
    ASSUME NEW block \in Block
    PROVE  Ids(block) \in Seq(STRING)
<1> DEFINE T == AccountCreateTransaction \cup PaymentTransaction
                   \cup AccountCloseTransaction
           all == block.creates \o block.payments \o block.closes
<1>1. /\ block.creates \in Seq(AccountCreateTransaction)
      /\ block.payments \in Seq(PaymentTransaction)
      /\ block.closes \in Seq(AccountCloseTransaction)
  BY DEF Block
<1>2. /\ block.creates \in Seq(T) /\ block.payments \in Seq(T)
      /\ block.closes \in Seq(T)
  BY <1>1, SeqMonotonic
<1>3. \A x \in T : x.id \in STRING
  BY DEF AccountCreateTransaction, PaymentTransaction, AccountCloseTransaction
<1> HIDE DEF T
<1>4. all \in Seq(T)
  BY <1>2, ConcatProperties
<1>5. Ids(block) = [i \in DOMAIN all |-> all[i].id]
  BY DEF Ids
<1> HIDE DEF all
<1>6. DOMAIN all = 1..Len(all) /\ Len(all) \in Nat
  BY <1>4, LenProperties
<1>7. \A i \in 1..Len(all) : all[i].id \in STRING
  BY <1>3, <1>4, ElementOfSeq
<1> QED
  BY <1>5, <1>6, <1>7, IsASeq

Listed == INSTANCE Folding WITH Op <- LAMBDA p, ids, block : ids \o Ids(block)

(* What a block more executes.                                             *)
LEMMA ExecutedMore ==
    /\ Executed(<<>>) = <<>>
    /\ \A bs \in Seq(Block) : \A block \in Block :
          Executed(Append(bs, block)) = Executed(bs) \o Ids(block)
<1>1. \A bs : Executed(bs) = Listed!FoldOf(0, <<>>, bs)
  BY DEF Executed, Listed!FoldOf, FoldLeft, MapThenFoldSet,
         Listed!MapThenFoldSet, Max, Listed!Max
<1>2. Listed!FoldOf(0, <<>>, <<>>) = <<>>
  BY Listed!FoldEmpty
<1>3. ASSUME NEW bs \in Seq(Block), NEW block \in Block
      PROVE  Listed!FoldOf(0, <<>>, Append(bs, block))
                = Listed!FoldOf(0, <<>>, bs) \o Ids(block)
  BY Listed!FoldAppend
<1> QED
  BY Zenon, <1>1, <1>2, <1>3

(* The ids of a chain are strings.                                         *)
LEMMA ExecutedTyped ==
    ASSUME NEW bs \in Seq(Block)
    PROVE  Executed(bs) \in Seq(STRING)
<1> DEFINE P == {q \in Seq(Block) : Executed(q) \in Seq(STRING)}
<1>1. <<>> \in P
  BY EmptySeq, ExecutedMore
<1>2. ASSUME NEW q \in P, NEW block \in Block PROVE Append(q, block) \in P
  <2>1. Executed(q) \o Ids(block) \in Seq(STRING)
    BY IdsTyped, ConcatProperties
  <2>2. Executed(Append(q, block)) = Executed(q) \o Ids(block)
    BY ExecutedMore
  <2>3. Append(q, block) \in Seq(Block)
    BY AppendProperties
  <2> QED
    BY <2>1, <2>2, <2>3
<1> HIDE DEF P
<1>3. P \in SUBSET Seq(Block)
  BY DEF P
<1>4. P = Seq(Block)
  BY <1>1, <1>2, <1>3, Listed!SeqSet
<1> QED
  BY <1>4 DEF P

(* The chain executes nothing twice with the block that is ready either.   *)
LEMMA BlockExecuted ==
    ASSUME DataOK, IdsOK
    PROVE  LET b  == producer.block
               bs == Append(disk.blocks, b)
           IN  /\ IsInjective(Executed(bs))
               /\ ToSet(Executed(bs)) = ExecutedIds \cup
                     (IdsIn(b.creates) \cup IdsIn(b.payments) \cup IdsIn(b.closes))
<1> DEFINE b == producer.block
           X == IdsIn(b.creates) \cup IdsIn(b.payments) \cup IdsIn(b.closes)
<1>1. b \in Block /\ disk.blocks \in Seq(Block)
  BY Zenon DEF DataOK, ProducerOK, DiskTyped
<1>2. /\ IdsIn(b.creates) \subseteq CreateIds /\ IdsIn(b.payments) \subseteq PaymentIds
      /\ IdsIn(b.closes) \subseteq CloseIds
  BY DEF CreateIds, PaymentIds, CloseIds
<1>3. IdsApart /\ BlockUnrepeated(b) /\ IsInjective(Executed(disk.blocks))
  BY Zenon DEF IdsOK, ExecutedOnce
<1> HIDE DEF b
<1>4. /\ IdsIn(b.creates) \cap IdsIn(b.payments) = {}
      /\ IdsIn(b.creates) \cap IdsIn(b.closes) = {}
      /\ IdsIn(b.payments) \cap IdsIn(b.closes) = {}
      /\ X \cap ExecutedIds = {}
  BY <1>2, <1>3 DEF IdsApart, Apart
<1>5. IsInjective(Ids(b)) /\ ToSet(Ids(b)) = X
  BY <1>1, <1>3, <1>4, BlockIds
<1> HIDE DEF X
<1>6. Ids(b) \in Seq(STRING) /\ Executed(disk.blocks) \in Seq(STRING)
  BY <1>1, IdsTyped, ExecutedTyped
<1>7. Executed(Append(disk.blocks, b)) = Executed(disk.blocks) \o Ids(b)
  BY <1>1, ExecutedMore
<1>8. /\ IsInjective(Executed(disk.blocks) \o Ids(b))
      /\ ToSet(Executed(disk.blocks) \o Ids(b)) = ExecutedIds \cup X
  BY <1>3, <1>4, <1>5, <1>6, JoinInjective, JoinElements DEF ExecutedIds
<1> QED
  BY Zenon, <1>7, <1>8 DEF b, X

(* Nothing has no id.                                                      *)
LEMMA EmptyIds ==
    /\ IdsIn(<<>>) = {} /\ Unrepeated(<<>>)
    /\ BlockUnrepeated(EmptyBlock)
    /\ IdsIn(EmptyBlock.creates) = {} /\ IdsIn(EmptyBlock.payments) = {}
    /\ IdsIn(EmptyBlock.closes) = {}
<1>1. IdsIn(<<>>) = {} /\ Unrepeated(<<>>)
  BY DEF IdsIn, ToSet, Unrepeated
<1> QED
  BY <1>1 DEF BlockUnrepeated, EmptyBlock

(* The ids stay apart when some go away.                                   *)
LEMMA IdsGone ==
    ASSUME IdsApart, PaymentIds' \subseteq PaymentIds, CreateIds' \subseteq CreateIds,
           CloseIds' \subseteq CloseIds, WaitingIds' \subseteq WaitingIds,
           ExecutedIds' = ExecutedIds, started \subseteq started'
    PROVE  IdsApart'
BY ApartLess DEF IdsApart

(* Some steps have nothing to do with ids.                                 *)
LEMMA IdsKept ==
    ASSUME IdsOK, disk'.blocks = disk.blocks,
           UNCHANGED <<pool, createPool, closePool, calls, producer, started>>
    PROVE  IdsOK'
<1>1. /\ PaymentIds' = PaymentIds /\ CreateIds' = CreateIds /\ CloseIds' = CloseIds
      /\ Waiting' = Waiting /\ WaitingIds' = WaitingIds /\ ExecutedIds' = ExecutedIds
  BY Zenon DEF PaymentIds, CreateIds, CloseIds, Waiting, WaitingIds, ExecutedIds
<1>2. IdsApart'
  BY Zenon, <1>1, IdsGone DEF IdsOK
<1> QED
  BY Zenon, <1>1, <1>2 DEF IdsOK, PoolsUnrepeated, CallsUnrepeated, ExecutedOnce

(* A process that dies leaves no id but in the chain.                      *)
LEMMA ForgetIds ==
    ASSUME IdsOK, Forget, UNCHANGED started, IsInjective(Executed(disk'.blocks)),
           ToSet(Executed(disk'.blocks)) \subseteq started
    PROVE  IdsOK'
<1>1. /\ pool'.order = <<>> /\ createPool' = <<>> /\ closePool' = <<>>
      /\ calls' = {} /\ producer'.block = EmptyBlock
  BY DEF Forget, EmptyPool, Idle
<1>2. /\ PaymentIds' = {} /\ CreateIds' = {} /\ CloseIds' = {}
      /\ Waiting' = {} /\ WaitingIds' = {}
  BY <1>1, EmptyIds DEF PaymentIds, CreateIds, CloseIds, Waiting, WaitingIds
<1>3. IdsApart'
  BY <1>2 DEF IdsApart, Apart, ExecutedIds
<1>4. PoolsUnrepeated' /\ BlockUnrepeated(producer'.block) /\ CallsUnrepeated'
  BY <1>1, <1>2, EmptyIds DEF PoolsUnrepeated, CallsUnrepeated
<1> QED
  BY Zenon, <1>3, <1>4 DEF IdsOK, ExecutedOnce

(* A start changes at most the first block, which has no transaction.      *)
LEMMA StartIds ==
    ASSUME DataOK, IdsOK, Start
    PROVE  IdsOK'
<1>1. UNCHANGED <<pool, createPool, closePool, calls, producer, started>>
  BY Zenon DEF Start, SaveGenesisBlock, SaveGenesisState, Restart, memory
<1>2. CASE SaveGenesisBlock
  <2>1. disk.blocks = <<>> /\ disk'.blocks = <<EmptyBlock>>
    BY <1>2 DEF SaveGenesisBlock, DataOK, DiskTyped
  <2>2. EmptyBlock \in Block /\ <<>> \in Seq(Block)
    BY EmptySeq DEF EmptyBlock, Block
  <2>3. IsInjective(Ids(EmptyBlock)) /\ ToSet(Ids(EmptyBlock)) = {}
    BY <2>2, BlockIds, EmptyIds
  <2>4. <<EmptyBlock>> = Append(<<>>, EmptyBlock)
    OBVIOUS
  <2>5. Executed(<<EmptyBlock>>) = <<>> \o Ids(EmptyBlock)
    BY <2>2, <2>4, ExecutedMore
  <2>6. <<>> \o Ids(EmptyBlock) = Ids(EmptyBlock)
    BY <2>2, IdsTyped, ConcatEmptySeq
  <2>7. Executed(disk.blocks) = <<>>
    BY <2>1, ExecutedMore
  <2>8. ExecutedIds' = {} /\ ExecutedIds = {} /\ ExecutedOnce'
    BY <2>1, <2>3, <2>5, <2>6, <2>7 DEF ExecutedIds, ExecutedOnce, ToSet
  <2>9. /\ PaymentIds' = PaymentIds /\ CreateIds' = CreateIds /\ CloseIds' = CloseIds
        /\ Waiting' = Waiting /\ WaitingIds' = WaitingIds
    BY Zenon, <1>1 DEF PaymentIds, CreateIds, CloseIds, Waiting, WaitingIds
  <2>10. IdsApart'
    BY Zenon, <1>1, <2>8, <2>9, IdsGone DEF IdsOK
  <2> QED
    BY Zenon, <1>1, <2>8, <2>9, <2>10 DEF IdsOK, PoolsUnrepeated, CallsUnrepeated
<1>3. CASE SaveGenesisState
  <2>1. disk'.blocks = disk.blocks
    BY <1>3 DEF SaveGenesisState, DataOK, DiskTyped
  <2> QED
    BY Zenon, <1>1, <2>1, IdsKept
<1>4. CASE Restart
  BY Zenon, <1>1, <1>4, IdsKept DEF Restart
<1> QED
  BY Zenon, <1>2, <1>3, <1>4 DEF Start

(* A request brings a new id.                                              *)
LEMMA BeginIds ==
    ASSUME IdsOK, NEW r, NEW step \in {"admit", "queue create", "queue close"},
           NEW tx, tx.id = r.id, Begin(r, step, tx),
           UNCHANGED <<disk, pool, createPool, closePool, producer>>
    PROVE  IdsOK'
<1> DEFINE c == [step |-> step, tx |-> tx]
<1>1. /\ tx.id \notin started /\ started' = started \cup {tx.id}
      /\ calls' = calls \cup {c} /\ c.tx.id = tx.id
      /\ c.step \in {"admit", "queue create", "queue close"}
  BY Zenon DEF Begin
<1> HIDE DEF c
<1>2. Waiting' = Waiting \cup {c} /\ WaitingIds' = WaitingIds \cup {tx.id}
  BY Zenon, <1>1 DEF Waiting, WaitingIds
<1>3. IdsApart /\ CallsUnrepeated
  BY Zenon DEF IdsOK
<1>4. /\ PaymentIds' = PaymentIds /\ CreateIds' = CreateIds /\ CloseIds' = CloseIds
      /\ ExecutedIds' = ExecutedIds
  BY Zenon DEF PaymentIds, CreateIds, CloseIds, ExecutedIds
<1>5. IdsApart'
  BY Zenon, <1>1, <1>2, <1>3, <1>4, ApartMore DEF IdsApart
<1>6. \A d \in Waiting : d.tx.id # c.tx.id
  BY Zenon, <1>1, <1>3 DEF IdsApart, Apart, WaitingIds
<1>7. CallsUnrepeated'
  BY Zenon, <1>2, <1>3, <1>6 DEF CallsUnrepeated
<1> QED
  BY Zenon, <1>5, <1>7 DEF IdsOK, PoolsUnrepeated, ExecutedOnce

(* Every request does.                                                     *)
LEMMA RequestIds ==
    ASSUME IdsOK,
           \/ \E r \in PaymentRequests : BuildPayment(r)
           \/ \E r \in CreateRequests : CheckCreate(r)
           \/ \E r \in CloseRequests : CheckClose(r)
    PROVE  IdsOK'
<1>1. UNCHANGED <<disk, pool, createPool, closePool, producer>>
  BY Zenon DEF BuildPayment, CheckCreate, CheckClose
<1>2. PICK r : \/ Begin(r, "admit", ToPayment(r))
               \/ Begin(r, "queue create", ToCreate(r))
               \/ Begin(r, "queue close", ToClose(r))
  BY Zenon DEF BuildPayment, CheckCreate, CheckClose
<1>3. ToPayment(r).id = r.id /\ ToCreate(r).id = r.id /\ ToClose(r).id = r.id
  BY DEF ToPayment, ToCreate, ToClose
<1>4. CASE Begin(r, "admit", ToPayment(r))
  BY Zenon, <1>1, <1>3, <1>4, BeginIds
<1>5. CASE Begin(r, "queue create", ToCreate(r))
  BY Zenon, <1>1, <1>3, <1>5, BeginIds
<1>6. CASE Begin(r, "queue close", ToClose(r))
  BY Zenon, <1>1, <1>3, <1>6, BeginIds
<1> QED
  BY Zenon, <1>2, <1>4, <1>5, <1>6

(* A handler that has queued its transaction, or given up, waits no more.  *)
LEMMA CallDone ==
    ASSUME CallsUnrepeated, NEW call \in Waiting, NEW step \in {"save key", "drop key"},
           Finish(call) \/ Proceed(call, step)
    PROVE  WaitingIds' = WaitingIds \ {call.tx.id} /\ CallsUnrepeated'
<1>1. Waiting' = Waiting \ {call}
  <2>1. CASE Finish(call)
    BY Zenon, <2>1 DEF Finish, Waiting
  <2>2. CASE Proceed(call, step)
    <3> DEFINE c == [step |-> step, tx |-> call.tx]
    <3>1. calls' = (calls \ {call}) \cup {c} /\ c.step = step
      BY Zenon, <2>2 DEF Proceed
    <3> HIDE DEF c
    <3>2. c.step \notin {"admit", "queue create", "queue close"}
      BY Zenon, <3>1
    <3> QED
      BY Zenon, <3>1, <3>2 DEF Waiting
  <2> QED
    BY Zenon, <2>1, <2>2
<1>2. \A d \in Waiting : d.tx.id = call.tx.id => d = call
  BY Zenon DEF CallsUnrepeated
<1> QED
  BY Zenon, <1>1, <1>2 DEF WaitingIds, CallsUnrepeated

(* A handler takes its id to a pool, or drops it.                          *)
LEMMA HandleIds ==
    ASSUME DataOK, IdsOK, NEW call \in calls, Handle(call)
    PROVE  IdsOK'
<1> DEFINE id == call.tx.id
<1>1. /\ IdsApart /\ CallsUnrepeated /\ PoolsUnrepeated
      /\ BlockUnrepeated(producer.block) /\ ExecutedOnce
      /\ UNCHANGED <<producer, started>>
  BY Zenon DEF IdsOK, Handle, AdmitPayment, QueueCreate, QueueClose, SaveKey, DropKey
<1>2. /\ pool.order \in Seq(Payable) /\ createPool \in Seq(AccountCreateTransaction)
      /\ closePool \in Seq(AccountCloseTransaction) /\ CallsTyped
  BY Zenon DEF DataOK, PoolsTyped, ExactPool
<1>3. CASE AdmitPayment(call)
  <2>1. /\ Finish(call) /\ call.step = "admit"
        /\ UNCHANGED <<disk, createPool, closePool>>
    BY Zenon, <1>3 DEF AdmitPayment
  <2>2. call \in Waiting /\ id \in WaitingIds
    BY Zenon, <2>1 DEF Waiting, WaitingIds
  <2>3. WaitingIds' = WaitingIds \ {id} /\ CallsUnrepeated'
    BY Zenon, <1>1, <2>1, <2>2, CallDone
  <2>4. CreateIds' = CreateIds /\ CloseIds' = CloseIds /\ ExecutedIds' = ExecutedIds
    BY Zenon, <1>1, <2>1 DEF CreateIds, CloseIds, ExecutedIds
  <2>5. /\ PaymentIds' \subseteq PaymentIds \cup {id}
        /\ Unrepeated(pool'.order)
    <3>1. CASE /\ NewIn(pool.order, call.tx)
               /\ ValidPayment(call.tx, Available(ledger, pool, call.tx.payer))
      <4>1. call.tx \in Payable
        BY Zenon, <1>2, <2>1, <3>1, CallSteps, ValidIsPayable
      <4>2. pool'.order = Append(pool.order, call.tx)
        BY <1>3, <3>1 DEF AdmitPayment, AddPayment
      <4>3. ToSet(pool'.order) = ToSet(pool.order) \cup {call.tx}
        BY <1>2, <4>1, <4>2, ElementsAppend
      <4>4. Unrepeated(pool'.order)
        BY <1>1, <1>2, <3>1, <4>1, <4>2, UnrepeatedAppend DEF PoolsUnrepeated
      <4>5. PaymentIds' \subseteq PaymentIds \cup {id}
        BY <1>1, <4>3 DEF PaymentIds, IdsIn
      <4> QED
        BY <4>4, <4>5
    <3>2. CASE pool' = pool
      BY Zenon, <1>1, <3>2 DEF PaymentIds, PoolsUnrepeated
    <3> QED
      BY Zenon, <1>3, <3>1, <3>2 DEF AdmitPayment
  <2>6. Apart(PaymentIds \cup {id}, CreateIds, CloseIds, WaitingIds', ExecutedIds, started)
    BY <1>1, <2>2, <2>3, ApartMoved DEF IdsApart
  <2>7. IdsApart'
    BY <1>1, <2>4, <2>5, <2>6, ApartLess DEF IdsApart
  <2> QED
    BY Zenon, <1>1, <2>1, <2>3, <2>5, <2>7 DEF IdsOK, PoolsUnrepeated, ExecutedOnce
<1>4. CASE QueueCreate(call)
  <2>1. /\ Proceed(call, "save key") /\ call.step = "queue create"
        /\ createPool' = Append(createPool, call.tx) /\ NewIn(createPool, call.tx)
        /\ UNCHANGED <<disk, pool, closePool>>
    BY Zenon, <1>4 DEF QueueCreate
  <2>2. call \in Waiting /\ id \in WaitingIds /\ call.tx \in AccountCreateTransaction
    BY Zenon, <1>2, <2>1, CallSteps DEF Waiting, WaitingIds
  <2>3. WaitingIds' = WaitingIds \ {id} /\ CallsUnrepeated'
    BY Zenon, <1>1, <2>1, <2>2, CallDone
  <2>4. PaymentIds' = PaymentIds /\ CloseIds' = CloseIds /\ ExecutedIds' = ExecutedIds
    BY Zenon, <1>1, <2>1 DEF PaymentIds, CloseIds, ExecutedIds
  <2>5. CreateIds' = CreateIds \cup {id} /\ Unrepeated(createPool')
    <3>1. createPool \in Seq(AccountCreateTransaction) /\ call.tx \in AccountCreateTransaction
      BY Zenon, <1>2, <2>2
    <3>2. ToSet(Append(createPool, call.tx)) = ToSet(createPool) \cup {call.tx}
      BY <3>1, ElementsAppend
    <3>3. ToSet(createPool') = ToSet(createPool) \cup {call.tx}
      BY Zenon, <2>1, <3>2
    <3>4. Unrepeated(createPool) /\ NewIn(createPool, call.tx)
      BY Zenon, <1>1, <2>1 DEF PoolsUnrepeated
    <3>5. Unrepeated(Append(createPool, call.tx))
      BY <3>1, <3>4, UnrepeatedAppend
    <3>6. Unrepeated(createPool')
      BY Zenon, <2>1, <3>5
    <3>7. IdsIn(createPool') = IdsIn(createPool) \cup {id}
      BY <3>3 DEF IdsIn
    <3>8. CreateIds' = CreateIds \cup {id}
      BY Zenon, <1>1, <3>7 DEF CreateIds
    <3> QED
      BY Zenon, <3>6, <3>8
  <2>6. Apart(PaymentIds, CreateIds \cup {id}, CloseIds, WaitingIds', ExecutedIds, started)
    BY <1>1, <2>2, <2>3, ApartMoved DEF IdsApart
  <2>7. IdsApart'
    BY Zenon, <1>1, <2>4, <2>5, <2>6 DEF IdsApart
  <2> QED
    BY Zenon, <1>1, <2>1, <2>3, <2>5, <2>7 DEF IdsOK, PoolsUnrepeated, ExecutedOnce
<1>5. CASE QueueClose(call)
  <2>1. /\ Proceed(call, "drop key") /\ call.step = "queue close"
        /\ closePool' = Append(closePool, call.tx) /\ NewIn(closePool, call.tx)
        /\ UNCHANGED <<disk, pool, createPool>>
    BY Zenon, <1>5 DEF QueueClose
  <2>2. call \in Waiting /\ id \in WaitingIds /\ call.tx \in AccountCloseTransaction
    BY Zenon, <1>2, <2>1, CallSteps DEF Waiting, WaitingIds
  <2>3. WaitingIds' = WaitingIds \ {id} /\ CallsUnrepeated'
    BY Zenon, <1>1, <2>1, <2>2, CallDone
  <2>4. PaymentIds' = PaymentIds /\ CreateIds' = CreateIds /\ ExecutedIds' = ExecutedIds
    BY Zenon, <1>1, <2>1 DEF PaymentIds, CreateIds, ExecutedIds
  <2>5. CloseIds' = CloseIds \cup {id} /\ Unrepeated(closePool')
    <3>1. closePool \in Seq(AccountCloseTransaction) /\ call.tx \in AccountCloseTransaction
      BY Zenon, <1>2, <2>2
    <3>2. ToSet(Append(closePool, call.tx)) = ToSet(closePool) \cup {call.tx}
      BY <3>1, ElementsAppend
    <3>3. ToSet(closePool') = ToSet(closePool) \cup {call.tx}
      BY Zenon, <2>1, <3>2
    <3>4. Unrepeated(closePool) /\ NewIn(closePool, call.tx)
      BY Zenon, <1>1, <2>1 DEF PoolsUnrepeated
    <3>5. Unrepeated(Append(closePool, call.tx))
      BY <3>1, <3>4, UnrepeatedAppend
    <3>6. Unrepeated(closePool')
      BY Zenon, <2>1, <3>5
    <3>7. IdsIn(closePool') = IdsIn(closePool) \cup {id}
      BY <3>3 DEF IdsIn
    <3>8. CloseIds' = CloseIds \cup {id}
      BY Zenon, <1>1, <3>7 DEF CloseIds
    <3> QED
      BY Zenon, <3>6, <3>8
  <2>6. Apart(PaymentIds, CreateIds, CloseIds \cup {id}, WaitingIds', ExecutedIds, started)
    BY <1>1, <2>2, <2>3, ApartMoved DEF IdsApart
  <2>7. IdsApart'
    BY Zenon, <1>1, <2>4, <2>5, <2>6 DEF IdsApart
  <2> QED
    BY Zenon, <1>1, <2>1, <2>3, <2>5, <2>7 DEF IdsOK, PoolsUnrepeated, ExecutedOnce
<1>6. CASE SaveKey(call) \/ DropKey(call)
  <2>1. UNCHANGED <<pool, createPool, closePool>> /\ Finish(call)
    BY Zenon, <1>6 DEF SaveKey, DropKey
  <2>2. PICK ks : SetKeystore(ks)
    BY Zenon, <1>6 DEF SaveKey, DropKey
  <2>3. disk'.blocks = disk.blocks
    <3>1. DiskTyped
      BY DEF DataOK
    <3> QED
      BY <2>2, <3>1 DEF SetKeystore, WithFile, DiskTyped
  <2>4. Waiting' \subseteq Waiting
    BY Zenon, <2>1 DEF Finish, Waiting
  <2>5. /\ PaymentIds' = PaymentIds /\ CreateIds' = CreateIds /\ CloseIds' = CloseIds
        /\ ExecutedIds' = ExecutedIds
    BY Zenon, <1>1, <2>1, <2>3 DEF PaymentIds, CreateIds, CloseIds, ExecutedIds
  <2>6. WaitingIds' \subseteq WaitingIds /\ CallsUnrepeated'
    BY <1>1, <2>4 DEF WaitingIds, CallsUnrepeated
  <2>7. IdsApart'
    BY <1>1, <2>5, <2>6, IdsGone
  <2> QED
    BY Zenon, <1>1, <2>1, <2>3, <2>6, <2>7 DEF IdsOK, PoolsUnrepeated, ExecutedOnce
<1> QED
  BY Zenon, <1>3, <1>4, <1>5, <1>6 DEF Handle

(* What is selected of a pool, and what the pool has left, has no new id.  *)
LEMMA SelectedIds ==
    ASSUME NEW T, NEW order \in Seq(T), Unrepeated(order), NEW sel, Selection(sel, order, T)
    PROVE  /\ Unrepeated(sel.taken) /\ IdsIn(sel.taken) \subseteq IdsIn(order)
           /\ Unrepeated(Without(order, sel.dropped))
           /\ IdsIn(Without(order, sel.dropped)) \subseteq IdsIn(order)
<1>1. Unrepeated(sel.taken) /\ ToSet(sel.taken) \subseteq ToSet(order)
  BY DEF Selection
<1>2. /\ Unrepeated(Without(order, sel.dropped))
      /\ IdsIn(Without(order, sel.dropped)) = IdsIn(order) \ IdsIn(sel.dropped)
  BY UnrepeatedWithout
<1> QED
  BY Zenon, <1>1, <1>2 DEF IdsIn

(* A block of creations has ids of their pool, ...                         *)
LEMMA SelectCreatesIds ==
    ASSUME DataOK, IdsOK, SelectCreates
    PROVE  IdsOK'
<1> DEFINE sel   == SelectCreate(createPool, MaxTxsPerBlock, ledger)
           block == [EmptyBlock EXCEPT !.creates = sel.taken]
<1>1. /\ createPool' = Without(createPool, sel.dropped)
      /\ producer' = [step |-> "payments", scratch |-> sel.state, block |-> block]
      /\ UNCHANGED <<disk, pool, closePool, calls, started>>
  BY Zenon DEF SelectCreates
<1>2. createPool \in Seq(AccountCreateTransaction) /\ Unrepeated(createPool)
  BY Zenon DEF DataOK, PoolsTyped, IdsOK, PoolsUnrepeated
<1>3. Selection(sel, createPool, AccountCreateTransaction)
  BY <1>2, SelectedCreates
<1> HIDE DEF sel
<1>4. /\ block.creates = sel.taken /\ block.payments = <<>> /\ block.closes = <<>>
  BY DEF EmptyBlock
<1>5. producer'.block = block
  BY <1>1
<1> HIDE DEF block
<1>6. /\ Unrepeated(sel.taken) /\ IdsIn(sel.taken) \subseteq IdsIn(createPool)
      /\ Unrepeated(createPool') /\ IdsIn(createPool') \subseteq IdsIn(createPool)
  BY <1>1, <1>2, <1>3, SelectedIds
<1>7. BlockUnrepeated(producer'.block)
  BY Zenon, <1>4, <1>5, <1>6, EmptyIds DEF BlockUnrepeated
<1>8. /\ CreateIds' = IdsIn(createPool') \cup IdsIn(sel.taken)
      /\ PaymentIds' = IdsIn(pool.order) \cup {} /\ CloseIds' = IdsIn(closePool) \cup {}
  BY Zenon, <1>1, <1>4, <1>5, EmptyIds DEF CreateIds, PaymentIds, CloseIds
<1>9. /\ CreateIds' \subseteq CreateIds /\ PaymentIds' \subseteq PaymentIds
      /\ CloseIds' \subseteq CloseIds
  BY Zenon, <1>6, <1>8 DEF CreateIds, PaymentIds, CloseIds
<1>10. Waiting' = Waiting /\ WaitingIds' = WaitingIds /\ ExecutedIds' = ExecutedIds
  BY Zenon, <1>1 DEF Waiting, WaitingIds, ExecutedIds
<1>11. IdsApart'
  BY Zenon, <1>1, <1>9, <1>10, IdsGone DEF IdsOK
<1> QED
  BY Zenon, <1>1, <1>6, <1>7, <1>10, <1>11 DEF IdsOK, PoolsUnrepeated, CallsUnrepeated,
                                              ExecutedOnce

(* ... then of payments, ...                                               *)
LEMMA SelectPaymentsIds ==
    ASSUME DataOK, IdsOK, SelectPayments
    PROVE  IdsOK'
<1> DEFINE room  == MaxTxsPerBlock - Len(producer.block.creates)
           sel   == SelectPayment(pool.order, room, producer.scratch)
           block == [producer.block EXCEPT !.payments = sel.taken]
<1>1. /\ pool' = RemovePayments(pool, sel.dropped)
      /\ producer' = [step |-> "closes", scratch |-> sel.state, block |-> block]
      /\ UNCHANGED <<disk, createPool, closePool, calls, started>>
  BY Zenon DEF SelectPayments
<1>2. /\ pool.order \in Seq(Payable) /\ Unrepeated(pool.order) /\ producer.block \in Block
      /\ BlockUnrepeated(producer.block)
  BY Zenon DEF DataOK, PoolsTyped, ExactPool, ProducerOK, IdsOK, PoolsUnrepeated
<1>3. Selection(sel, pool.order, Payable)
  <2> HIDE DEF room
  <2> QED
    BY <1>2, SelectedPayments
<1> HIDE DEF sel
<1>4. /\ block.payments = sel.taken /\ block.creates = producer.block.creates
      /\ block.closes = producer.block.closes
  BY <1>2 DEF Block
<1>5. producer'.block = block /\ pool'.order = Without(pool.order, sel.dropped)
  BY <1>1 DEF RemovePayments
<1> HIDE DEF block
<1>6. /\ Unrepeated(sel.taken) /\ IdsIn(sel.taken) \subseteq IdsIn(pool.order)
      /\ Unrepeated(pool'.order) /\ IdsIn(pool'.order) \subseteq IdsIn(pool.order)
  BY <1>2, <1>3, <1>5, SelectedIds
<1>7. BlockUnrepeated(producer'.block)
  BY Zenon, <1>2, <1>4, <1>5, <1>6 DEF BlockUnrepeated
<1>8. /\ PaymentIds' = IdsIn(pool'.order) \cup IdsIn(sel.taken)
      /\ CreateIds' = CreateIds /\ CloseIds' = CloseIds
  BY Zenon, <1>1, <1>4, <1>5 DEF CreateIds, PaymentIds, CloseIds
<1>9. PaymentIds' \subseteq PaymentIds
  BY Zenon, <1>6, <1>8 DEF PaymentIds
<1>10. Waiting' = Waiting /\ WaitingIds' = WaitingIds /\ ExecutedIds' = ExecutedIds
  BY Zenon, <1>1 DEF Waiting, WaitingIds, ExecutedIds
<1>11. IdsApart'
  BY Zenon, <1>1, <1>8, <1>9, <1>10, IdsGone DEF IdsOK
<1> QED
  BY Zenon, <1>1, <1>6, <1>7, <1>10, <1>11 DEF IdsOK, PoolsUnrepeated, CallsUnrepeated,
                                              ExecutedOnce

(* ... then of closures.                                                   *)
LEMMA SelectClosesIds ==
    ASSUME DataOK, IdsOK, SelectCloses
    PROVE  IdsOK'
<1> DEFINE room  == MaxTxsPerBlock - Len(producer.block.creates)
                                   - Len(producer.block.payments)
           sel   == SelectClose(closePool, room, producer.scratch)
           block == [producer.block EXCEPT !.closes = sel.taken]
           next  == [step |-> "commit", scratch |-> sel.state, block |-> block]
<1>1. /\ closePool' = Without(closePool, sel.dropped)
      /\ producer' = IF block = EmptyBlock THEN Idle ELSE next
      /\ UNCHANGED <<disk, pool, createPool, calls, started>>
  BY Zenon DEF SelectCloses
<1>2. /\ closePool \in Seq(AccountCloseTransaction) /\ Unrepeated(closePool)
      /\ producer.block \in Block /\ BlockUnrepeated(producer.block)
  BY Zenon DEF DataOK, PoolsTyped, ProducerOK, IdsOK, PoolsUnrepeated
<1>3. Selection(sel, closePool, AccountCloseTransaction)
  <2> HIDE DEF room
  <2> QED
    BY <1>2, SelectedCloses
<1> HIDE DEF sel
<1>4. /\ block.closes = sel.taken /\ block.creates = producer.block.creates
      /\ block.payments = producer.block.payments
  BY <1>2 DEF Block
<1>5. next.block = block
  OBVIOUS
<1> HIDE DEF next
<1>6. producer'.block = block
  <2>1. Idle.block = EmptyBlock
    BY DEF Idle
  <2> HIDE DEF block
  <2> QED
    BY Zenon, <1>1, <1>5, <2>1
<1> HIDE DEF block
<1>7. /\ Unrepeated(sel.taken) /\ IdsIn(sel.taken) \subseteq IdsIn(closePool)
      /\ Unrepeated(closePool') /\ IdsIn(closePool') \subseteq IdsIn(closePool)
  BY <1>1, <1>2, <1>3, SelectedIds
<1>8. BlockUnrepeated(producer'.block)
  BY Zenon, <1>2, <1>4, <1>6, <1>7 DEF BlockUnrepeated
<1>9. /\ CloseIds' = IdsIn(closePool') \cup IdsIn(sel.taken)
      /\ CreateIds' = CreateIds /\ PaymentIds' = PaymentIds
  BY Zenon, <1>1, <1>4, <1>6 DEF CreateIds, PaymentIds, CloseIds
<1>10. CloseIds' \subseteq CloseIds
  BY Zenon, <1>7, <1>9 DEF CloseIds
<1>11. Waiting' = Waiting /\ WaitingIds' = WaitingIds /\ ExecutedIds' = ExecutedIds
  BY Zenon, <1>1 DEF Waiting, WaitingIds, ExecutedIds
<1>12. IdsApart'
  BY Zenon, <1>1, <1>9, <1>10, <1>11, IdsGone DEF IdsOK
<1> QED
  BY Zenon, <1>1, <1>7, <1>8, <1>11, <1>12 DEF IdsOK, PoolsUnrepeated, CallsUnrepeated,
                                              ExecutedOnce

(* A producer that gives up has no block.                                  *)
LEMMA IdleIds ==
    ASSUME IdsOK, producer' = Idle,
           UNCHANGED <<disk, pool, createPool, closePool, calls, started>>
    PROVE  IdsOK'
<1>1. producer'.block = EmptyBlock
  BY DEF Idle
<1>2. /\ PaymentIds' = IdsIn(pool.order) \cup {} /\ CreateIds' = IdsIn(createPool) \cup {}
      /\ CloseIds' = IdsIn(closePool) \cup {}
  BY Zenon, <1>1, EmptyIds DEF PaymentIds, CreateIds, CloseIds
<1>3. /\ CreateIds' \subseteq CreateIds /\ PaymentIds' \subseteq PaymentIds
      /\ CloseIds' \subseteq CloseIds
  BY Zenon, <1>2 DEF CreateIds, PaymentIds, CloseIds
<1>4. Waiting' = Waiting /\ WaitingIds' = WaitingIds /\ ExecutedIds' = ExecutedIds
  BY Zenon DEF Waiting, WaitingIds, ExecutedIds
<1>5. IdsApart'
  BY Zenon, <1>3, <1>4, IdsGone DEF IdsOK
<1>6. BlockUnrepeated(producer'.block)
  BY Zenon, <1>1, EmptyIds
<1> QED
  BY Zenon, <1>4, <1>5, <1>6 DEF IdsOK, PoolsUnrepeated, CallsUnrepeated, ExecutedOnce

(* A commit takes the ids of the block from the pools to the chain.        *)
LEMMA CommitIds ==
    ASSUME DataOK, IdsOK, Commit
    PROVE  IdsOK'
<1> DEFINE b == producer.block
           next == ApplyTransactions(b, ledger)
           X == IdsIn(b.payments)
           Y == IdsIn(b.creates)
           Z == IdsIn(b.closes)
<1>1. /\ producer.step = "commit" /\ producer' = Idle
      /\ UNCHANGED <<calls, started>>
  BY Zenon DEF Commit
<1>2. CASE UNCHANGED <<disk, ledger, blocks, pool, createPool, closePool>>
  BY Zenon, <1>1, <1>2, IdleIds
<1>3. ASSUME NEW s \in next,
             /\ disk' = Saved(b, s)
             /\ pool' = RemovePayments(pool, b.payments)
             /\ createPool' = Without(createPool, b.creates)
             /\ closePool' = Without(closePool, b.closes)
      PROVE  IdsOK'
  <2>1. disk'.blocks = Append(disk.blocks, b)
    BY <1>3 DEF Saved
  <2>2. /\ IsInjective(Executed(disk'.blocks))
        /\ ToSet(Executed(disk'.blocks)) = ExecutedIds \cup (Y \cup X \cup Z)
    BY Zenon, <2>1, BlockExecuted
  <2>3. /\ pool.order \in Seq(Payable) /\ Unrepeated(pool.order)
        /\ createPool \in Seq(AccountCreateTransaction) /\ Unrepeated(createPool)
        /\ closePool \in Seq(AccountCloseTransaction) /\ Unrepeated(closePool)
    BY Zenon DEF DataOK, PoolsTyped, ExactPool, IdsOK, PoolsUnrepeated
  <2>4. pool'.order = Without(pool.order, b.payments)
    BY <1>3 DEF RemovePayments
  <2>5. producer'.block = EmptyBlock
    BY <1>1 DEF Idle
  <2> HIDE DEF b, next
  <2>6. /\ Unrepeated(Without(pool.order, b.payments))
        /\ IdsIn(Without(pool.order, b.payments)) = IdsIn(pool.order) \ X
    BY <2>3, UnrepeatedWithout
  <2>7. /\ Unrepeated(Without(createPool, b.creates))
        /\ IdsIn(Without(createPool, b.creates)) = IdsIn(createPool) \ Y
    BY <2>3, UnrepeatedWithout
  <2>8. /\ Unrepeated(Without(closePool, b.closes))
        /\ IdsIn(Without(closePool, b.closes)) = IdsIn(closePool) \ Z
    BY <2>3, UnrepeatedWithout
  <2>9. /\ X \subseteq PaymentIds /\ Y \subseteq CreateIds /\ Z \subseteq CloseIds
    BY Zenon DEF PaymentIds, CreateIds, CloseIds, b
  <2> HIDE DEF X, Y, Z
  <2>10. /\ PaymentIds' = (IdsIn(pool.order) \ X) \cup {}
         /\ CreateIds' = (IdsIn(createPool) \ Y) \cup {}
         /\ CloseIds' = (IdsIn(closePool) \ Z) \cup {}
    BY Zenon, <1>3, <2>4, <2>5, <2>6, <2>7, <2>8, EmptyIds
       DEF PaymentIds, CreateIds, CloseIds
  <2>11. /\ PaymentIds' \subseteq PaymentIds \ X /\ CreateIds' \subseteq CreateIds \ Y
         /\ CloseIds' \subseteq CloseIds \ Z
    BY Zenon, <2>10 DEF PaymentIds, CreateIds, CloseIds
  <2>12. /\ Waiting' = Waiting /\ WaitingIds' = WaitingIds
         /\ ExecutedIds' = ExecutedIds \cup (Y \cup X \cup Z)
    BY Zenon, <1>1, <2>2 DEF Waiting, WaitingIds, ExecutedIds
  <2>13. Apart(PaymentIds', CreateIds', CloseIds', WaitingIds,
               ExecutedIds \cup (Y \cup X \cup Z), started)
    <3>1. Apart(PaymentIds, CreateIds, CloseIds, WaitingIds, ExecutedIds, started)
      BY Zenon DEF IdsOK, IdsApart
    <3>2. /\ X \in SUBSET PaymentIds /\ Y \in SUBSET CreateIds /\ Z \in SUBSET CloseIds
          /\ PaymentIds' \in SUBSET (PaymentIds \ X)
          /\ CreateIds' \in SUBSET (CreateIds \ Y)
          /\ CloseIds' \in SUBSET (CloseIds \ Z) /\ WaitingIds \in SUBSET WaitingIds
      BY Zenon, <2>9, <2>11
    <3> QED
      BY Zenon, <3>1, <3>2, ApartExecuted
  <2>14. IdsApart'
    BY Zenon, <1>1, <2>12, <2>13 DEF IdsApart
  <2>15. PoolsUnrepeated' /\ BlockUnrepeated(producer'.block)
    BY Zenon, <1>3, <2>4, <2>5, <2>6, <2>7, <2>8, EmptyIds DEF PoolsUnrepeated
  <2> QED
    BY Zenon, <2>2, <2>12, <2>14, <2>15 DEF IdsOK, CallsUnrepeated, ExecutedOnce
<1> QED
  BY Zenon, <1>2, <1>3 DEF Commit

(* A crash leaves the ids of the chain, to which it may have added those   *)
(* of the block that was being committed.                                  *)
LEMMA CrashIds ==
    ASSUME DataOK, IdsOK, Crash \/ CrashInCommit \/ \E call \in calls : CrashInSave(call)
    PROVE  IdsOK'
<1>1. Forget /\ UNCHANGED started
  BY Zenon DEF Crash, CrashInCommit, CrashInSave
<1>2. /\ IsInjective(Executed(disk.blocks)) /\ ToSet(Executed(disk.blocks)) \subseteq started
  BY DEF IdsOK, IdsApart, Apart, ExecutedOnce, ExecutedIds
<1>3. /\ IsInjective(Executed(disk'.blocks))
      /\ ToSet(Executed(disk'.blocks)) \subseteq started
  <2>1. CASE disk'.blocks = disk.blocks
    BY Zenon, <1>2, <2>1
  <2>2. CASE CrashInCommit
    <3>1. disk'.blocks = Append(disk.blocks, producer.block)
      BY <2>2 DEF CrashInCommit, Saved
    <3>2. ExecutedIds \cup (IdsIn(producer.block.creates) \cup IdsIn(producer.block.payments)
                            \cup IdsIn(producer.block.closes)) \subseteq started
      <4>1. PaymentIds \cup CreateIds \cup CloseIds \cup ExecutedIds \subseteq started
        BY Zenon DEF IdsOK, IdsApart, Apart
      <4> QED
        BY Zenon, <4>1 DEF PaymentIds, CreateIds, CloseIds
    <3> QED
      BY Zenon, <3>1, <3>2, BlockExecuted
  <2>3. CASE Crash
    BY Zenon, <2>1, <2>3 DEF Crash
  <2>4. CASE \E call \in calls : CrashInSave(call)
    <3>1. disk' = WithFile(Torn) /\ DiskTyped
      BY Zenon, <2>4 DEF CrashInSave, DataOK
    <3>2. disk'.blocks = disk.blocks
      BY <3>1 DEF WithFile, DiskTyped
    <3> QED
      BY Zenon, <2>1, <3>2
  <2> QED
    BY Zenon, <2>2, <2>3, <2>4
<1> QED
  BY Zenon, <1>1, <1>3, ForgetIds

(* Ids stay apart in every step.                                           *)
LEMMA NextIdsOK ==
    ASSUME DataOK, IdsOK, [Next]_vars
    PROVE  IdsOK'
<1>1. CASE Start
  BY Zenon, <1>1, StartIds
<1>2. CASE Crash \/ CrashInCommit \/ \E call \in calls : CrashInSave(call)
  BY Zenon, <1>2, CrashIds
<1>3. CASE CommitFails
  BY Zenon, <1>3, IdleIds DEF CommitFails
<1>4. CASE \/ \E r \in PaymentRequests : BuildPayment(r)
           \/ \E r \in CreateRequests : CheckCreate(r)
           \/ \E r \in CloseRequests : CheckClose(r)
  BY Zenon, <1>4, RequestIds
<1>5. CASE \E call \in calls : Handle(call)
  BY Zenon, <1>5, HandleIds
<1>6. CASE Produce
  BY Zenon, <1>6, SelectCreatesIds, SelectPaymentsIds, SelectClosesIds, CommitIds DEF Produce
<1>7. CASE UNCHANGED vars
  BY Zenon, <1>7, IdsKept DEF vars, memory
<1> QED
  BY Zenon, <1>1, <1>2, <1>3, <1>4, <1>5, <1>6, <1>7 DEF Next

(* They are at the start: there are none.                                  *)
LEMMA InitIdsOK == Init => IdsOK
<1> SUFFICES ASSUME Init PROVE IdsOK
  OBVIOUS
<1>1. /\ pool.order = <<>> /\ createPool = <<>> /\ closePool = <<>>
      /\ calls = {} /\ started = {} /\ producer.block = EmptyBlock /\ disk.blocks = <<>>
  BY DEF Init, EmptyPool, Idle
<1>2. Executed(disk.blocks) = <<>>
  BY Zenon, <1>1, ExecutedMore
<1>3. /\ PaymentIds = {} /\ CreateIds = {} /\ CloseIds = {}
      /\ Waiting = {} /\ WaitingIds = {}
  BY <1>1, EmptyIds DEF PaymentIds, CreateIds, CloseIds, Waiting, WaitingIds
<1>4. ExecutedIds = {} /\ ExecutedOnce
  BY <1>2 DEF ExecutedIds, ExecutedOnce, ToSet, IsInjective
<1>5. IdsApart
  BY <1>1, <1>3, <1>4 DEF IdsApart, Apart
<1>6. PoolsUnrepeated /\ BlockUnrepeated(producer.block) /\ CallsUnrepeated
  BY <1>1, <1>3, EmptyIds DEF PoolsUnrepeated, CallsUnrepeated
<1> QED
  BY Zenon, <1>4, <1>5, <1>6 DEF IdsOK

(* No transaction is executed twice, although the ledger would not refuse  *)
(* it: an id that is drawn once is never pending and in the chain, also    *)
(* when commits fail or the process dies in the middle of one              *)
(* (mempool/pool.go, chain/blockchain.go).                                 *)
THEOREM NodeExecutedOnce == Spec => []ExecutedOnce
<1>1. IdsOK => ExecutedOnce
  BY Zenon DEF IdsOK
<1>2. Spec => [](DataOK /\ IdsOK)
  BY InitDataOK, NextDataOK, InitIdsOK, NextIdsOK, PTL DEF Spec
<1> QED
  BY <1>1, <1>2, PTL

(* What is taken from a pool stays there when what is dropped goes.        *)
LEMMA TakenStay ==
    ASSUME NEW T, NEW order \in Seq(T), Unrepeated(order), NEW sel, Selection(sel, order, T)
    PROVE  ToSet(sel.taken) \subseteq ToSet(Without(order, sel.dropped))
<1>1. /\ ToSet(sel.taken) \subseteq ToSet(order)
      /\ \A p \in ToSet(sel.dropped) : NewIn(sel.taken, p)
  BY DEF Selection
<1>2. ToSet(Without(order, sel.dropped)) = {p \in ToSet(order) : NewIn(sel.dropped, p)}
  BY WithoutElements
<1> QED
  BY <1>1, <1>2 DEF NewIn

-----------------------------------------------------------------------------
(***************************************************************************)
(* What is pending was asked for. What the producer took is still pending. *)
(***************************************************************************)
Asked == {p \in Payable : \E r \in PaymentRequests : p.items = r.items}

AskedPayment(tx) == \E r \in PaymentRequests : tx.items = r.items
AskedCreate(tx)  == \E r \in CreateRequests : r.id \in started /\ tx = ToCreate(r)
AskedClose(tx)   == \E r \in CloseRequests : tx.account = r.account

PoolsAsked ==
    /\ ToSet(pool.order) \subseteq Asked
    /\ \A tx \in ToSet(createPool) : AskedCreate(tx)
    /\ \A tx \in ToSet(closePool) : AskedClose(tx)
    /\ ~Up => pool = EmptyPool /\ createPool = <<>> /\ closePool = <<>>

CallsAsked ==
    \A c \in calls :
        /\ c.step = "admit" => AskedPayment(c.tx)
        /\ c.step \in {"queue create", "save key"} => AskedCreate(c.tx)
        /\ c.step \in {"queue close", "drop key"} => AskedClose(c.tx)

BlockPending ==
    /\ ToSet(producer.block.creates) \subseteq ToSet(createPool)
    /\ ToSet(producer.block.payments) \subseteq ToSet(pool.order)
    /\ ToSet(producer.block.closes) \subseteq ToSet(closePool)

AskedOK == PoolsAsked /\ CallsAsked /\ BlockPending

(* An idle producer and an empty pool have nothing.                        *)
LEMMA NothingPending ==
    /\ ToSet(<<>>) = {} /\ EmptyPool.order = <<>>
    /\ Idle.block = EmptyBlock
    /\ EmptyBlock.creates = <<>> /\ EmptyBlock.payments = <<>> /\ EmptyBlock.closes = <<>>
BY DEF ToSet, EmptyPool, Idle, EmptyBlock

(* Nothing was asked for at the start, nor is it after a crash.            *)
LEMMA NobodyAsked ==
    ASSUME pool = EmptyPool, createPool = <<>>, closePool = <<>>, calls = {},
           producer = Idle
    PROVE  AskedOK
BY Zenon, NothingPending DEF AskedOK, PoolsAsked, CallsAsked, BlockPending

(* Nothing is pending before the first start.                              *)
LEMMA InitAskedOK == Init => AskedOK
BY Zenon, NobodyAsked DEF Init

(* Nothing is pending when the process has died.                           *)
LEMMA ForgetAsked ==
    ASSUME Forget
    PROVE  AskedOK'
BY Zenon, NothingPending DEF Forget, AskedOK, PoolsAsked, CallsAsked, BlockPending

(* A producer that gives up has nothing pending.                           *)
LEMMA IdleAsked ==
    ASSUME AskedOK, producer' = Idle,
           UNCHANGED <<status, pool, createPool, closePool, calls, started>>
    PROVE  AskedOK'
<1>1. BlockPending'
  BY Zenon, NothingPending DEF BlockPending
<1> QED
  BY Zenon, <1>1 DEF AskedOK, PoolsAsked, CallsAsked, Up, AskedCreate, ToCreate

(* A start finds nothing pending and adds nothing.                         *)
LEMMA StartAsked ==
    ASSUME AskedOK, Start
    PROVE  AskedOK'
<1>1. /\ UNCHANGED <<pool, createPool, closePool, calls, producer, started>> /\ ~Up
  BY Zenon DEF Start, SaveGenesisBlock, SaveGenesisState, Restart, memory, Up
<1> QED
  BY Zenon, <1>1 DEF AskedOK, PoolsAsked, CallsAsked, BlockPending, AskedCreate, ToCreate

(* A request is one.                                                       *)
LEMMA RequestAsked ==
    ASSUME AskedOK,
           \/ \E r \in PaymentRequests : BuildPayment(r)
           \/ \E r \in CreateRequests : CheckCreate(r)
           \/ \E r \in CloseRequests : CheckClose(r)
    PROVE  AskedOK'
<1>1. UNCHANGED <<status, pool, createPool, closePool, producer>> /\ started \subseteq started'
  BY Zenon DEF BuildPayment, CheckCreate, CheckClose, Begin
<1>2. PoolsAsked' /\ BlockPending'
  BY Zenon, <1>1 DEF AskedOK, PoolsAsked, BlockPending, Up, AskedCreate, ToCreate
<1>3. ASSUME NEW r, NEW step, NEW tx, Begin(r, step, tx),
             \/ step = "admit" /\ AskedPayment(tx)
             \/ step = "queue create" /\ (AskedCreate(tx))'
             \/ step = "queue close" /\ AskedClose(tx)
      PROVE  CallsAsked'
  <2> DEFINE c == [step |-> step, tx |-> tx]
  <2>1. calls' = calls \cup {c} /\ c.step = step /\ c.tx = tx
    BY Zenon, <1>3 DEF Begin
  <2> HIDE DEF c
  <2>2. ASSUME NEW d \in calls
        PROVE  /\ d.step = "admit" => AskedPayment(d.tx)
               /\ d.step \in {"queue create", "save key"} => (AskedCreate(d.tx))'
               /\ d.step \in {"queue close", "drop key"} => AskedClose(d.tx)
    BY Zenon, <1>1 DEF AskedOK, CallsAsked, AskedCreate, ToCreate
  <2>3. /\ c.step = "admit" => AskedPayment(c.tx)
        /\ c.step \in {"queue create", "save key"} => (AskedCreate(tx))'
        /\ c.step \in {"queue close", "drop key"} => AskedClose(c.tx)
    BY <1>3, <2>1
  <2> QED
    BY Zenon, <2>1, <2>2, <2>3 DEF CallsAsked, AskedPayment, AskedClose, AskedCreate
<1>4. CASE \E r \in PaymentRequests : BuildPayment(r)
  <2>1. PICK r \in PaymentRequests : Begin(r, "admit", ToPayment(r))
    BY Zenon, <1>4 DEF BuildPayment
  <2>2. AskedPayment(ToPayment(r))
    BY DEF AskedPayment, ToPayment
  <2> QED
    BY Zenon, <1>2, <1>3, <2>1, <2>2 DEF AskedOK
<1>5. CASE \E r \in CreateRequests : CheckCreate(r)
  <2>1. PICK r \in CreateRequests : Begin(r, "queue create", ToCreate(r))
    BY Zenon, <1>5 DEF CheckCreate
  <2> DEFINE tx == ToCreate(r)
  <2>2. r.id \in started'
    BY Zenon, <2>1 DEF Begin
  <2>3. tx = ToCreate(r)
    OBVIOUS
  <2> HIDE DEF tx
  <2>4. (AskedCreate(tx))'
    BY <2>2, <2>3 DEF AskedCreate, ToCreate
  <2> QED
    BY Zenon, <1>2, <1>3, <2>1, <2>3, <2>4 DEF AskedOK
<1>6. CASE \E r \in CloseRequests : CheckClose(r)
  <2>1. PICK r \in CloseRequests : Begin(r, "queue close", ToClose(r))
    BY Zenon, <1>6 DEF CheckClose
  <2>2. AskedClose(ToClose(r))
    BY DEF AskedClose, ToClose
  <2> QED
    BY Zenon, <1>2, <1>3, <2>1, <2>2 DEF AskedOK
<1> QED
  BY <1>4, <1>5, <1>6

(* A handler queues what was asked for.                                    *)
LEMMA HandleAsked ==
    ASSUME DataOK, AskedOK, NEW call \in calls, Handle(call)
    PROVE  AskedOK'
<1>0. /\ UNCHANGED <<status, producer, started>>
  BY Zenon DEF Handle, AdmitPayment, QueueCreate, QueueClose, SaveKey, DropKey
<1>1. /\ PoolsAsked /\ CallsAsked /\ BlockPending /\ CallsTyped /\ Up
      /\ pool.order \in Seq(Payable) /\ createPool \in Seq(AccountCreateTransaction)
      /\ closePool \in Seq(AccountCloseTransaction)
  BY Zenon DEF DataOK, PoolsTyped, ExactPool, AskedOK, StatusOK
<1>2. \A tx : AskedCreate(tx) => (AskedCreate(tx))'
  BY Zenon, <1>0 DEF AskedCreate, ToCreate
<1>3. ASSUME Finish(call) PROVE CallsAsked'
  BY Zenon, <1>1, <1>2, <1>3 DEF Finish, CallsAsked, AskedPayment, AskedClose, AskedCreate
<1>4. CASE AdmitPayment(call)
  <2>1. Finish(call) /\ call.step = "admit" /\ UNCHANGED <<createPool, closePool>>
    BY Zenon, <1>4 DEF AdmitPayment
  <2>2. /\ ToSet(pool'.order) \subseteq Asked /\ ToSet(pool.order) \subseteq ToSet(pool'.order)
    <3>1. CASE ValidPayment(call.tx, Available(ledger, pool, call.tx.payer))
               /\ pool' = AddPayment(pool, call.tx)
      <4>1. call.tx \in Payable /\ AskedPayment(call.tx)
        BY Zenon, <1>1, <2>1, <3>1, CallSteps, ValidIsPayable DEF CallsAsked
      <4>2. pool'.order = Append(pool.order, call.tx)
        BY <3>1 DEF AddPayment
      <4>3. ToSet(pool'.order) = ToSet(pool.order) \cup {call.tx}
        BY <1>1, <4>1, <4>2, ElementsAppend
      <4>4. call.tx \in Asked
        BY <4>1 DEF Asked, AskedPayment
      <4> QED
        BY <1>1, <4>3, <4>4 DEF PoolsAsked
    <3>2. CASE pool' = pool
      BY Zenon, <1>1, <3>2 DEF PoolsAsked
    <3> QED
      BY Zenon, <1>4, <3>1, <3>2 DEF AdmitPayment
  <2>3. PoolsAsked'
    BY Zenon, <1>0, <1>1, <1>2, <2>1, <2>2 DEF PoolsAsked, Up, AskedCreate, AskedClose
  <2>4. BlockPending'
    BY Zenon, <1>0, <1>1, <2>1, <2>2 DEF BlockPending
  <2> QED
    BY Zenon, <1>3, <2>1, <2>3, <2>4 DEF AskedOK
<1>5. CASE QueueCreate(call) \/ QueueClose(call)
  <2> DEFINE step == IF QueueCreate(call) THEN "save key" ELSE "drop key"
             d == [step |-> step, tx |-> call.tx]
  <2>1. /\ UNCHANGED pool
        /\ \/ /\ QueueCreate(call) /\ call.step = "queue create" /\ step = "save key"
              /\ call.tx \in AccountCreateTransaction /\ AskedCreate(call.tx)
              /\ createPool' = Append(createPool, call.tx) /\ UNCHANGED closePool
           \/ /\ call.step = "queue close" /\ step = "drop key"
              /\ call.tx \in AccountCloseTransaction /\ AskedClose(call.tx)
              /\ closePool' = Append(closePool, call.tx) /\ UNCHANGED createPool
    <3>1. CASE QueueCreate(call)
      <4>1. call.step = "queue create"
        BY Zenon, <3>1 DEF QueueCreate
      <4> QED
        BY Zenon, <1>1, <3>1, <4>1, CallSteps DEF QueueCreate, CallsAsked
    <3>2. CASE ~QueueCreate(call)
      <4>1. call.step = "queue close" /\ QueueClose(call)
        BY Zenon, <1>5, <3>2 DEF QueueClose
      <4> QED
        BY Zenon, <1>1, <3>2, <4>1, CallSteps DEF QueueClose, CallsAsked
    <3> QED
      BY <3>1, <3>2
  <2>2. calls' = (calls \ {call}) \cup {d} /\ d.step = step /\ d.tx = call.tx
    <3>1. CASE QueueCreate(call)
      BY Zenon, <3>1 DEF QueueCreate, Proceed
    <3>2. CASE ~QueueCreate(call)
      <4>1. QueueClose(call)
        BY <1>5, <3>2
      <4> QED
        BY Zenon, <3>2, <4>1 DEF QueueClose, Proceed
    <3> QED
      BY <3>1, <3>2
  <2> HIDE DEF d, step
  <2>3. CallsAsked'
    <3>1. ASSUME NEW c \in calls
          PROVE  /\ c.step = "admit" => AskedPayment(c.tx)
                 /\ c.step \in {"queue create", "save key"} => (AskedCreate(c.tx))'
                 /\ c.step \in {"queue close", "drop key"} => AskedClose(c.tx)
      BY Zenon, <1>1, <1>2 DEF CallsAsked
    <3>2. \/ step = "save key" /\ AskedCreate(call.tx)
          \/ step = "drop key" /\ AskedClose(call.tx)
      BY Zenon, <2>1
    <3>3. /\ d.step = "admit" => AskedPayment(d.tx)
          /\ d.step \in {"queue create", "save key"} => (AskedCreate(call.tx))'
          /\ d.step \in {"queue close", "drop key"} => AskedClose(d.tx)
      BY <1>2, <2>2, <3>2
    <3> QED
      BY Zenon, <2>2, <3>1, <3>3 DEF CallsAsked, AskedPayment, AskedClose, AskedCreate
  <2>4. /\ ToSet(createPool) \subseteq ToSet(createPool')
        /\ ToSet(closePool) \subseteq ToSet(closePool')
        /\ \A tx \in ToSet(createPool') : AskedCreate(tx)
        /\ \A tx \in ToSet(closePool') : AskedClose(tx)
    <3>1. CASE /\ call.tx \in AccountCreateTransaction /\ AskedCreate(call.tx)
               /\ createPool' = Append(createPool, call.tx) /\ UNCHANGED closePool
      <4>1. ToSet(createPool') = ToSet(createPool) \cup {call.tx}
        BY <1>1, <3>1, ElementsAppend
      <4> QED
        BY Zenon, <1>1, <3>1, <4>1 DEF PoolsAsked
    <3>2. CASE /\ call.tx \in AccountCloseTransaction /\ AskedClose(call.tx)
               /\ closePool' = Append(closePool, call.tx) /\ UNCHANGED createPool
      <4>1. ToSet(closePool') = ToSet(closePool) \cup {call.tx}
        BY <1>1, <3>2, ElementsAppend
      <4> QED
        BY Zenon, <1>1, <3>2, <4>1 DEF PoolsAsked
    <3> QED
      BY Zenon, <2>1, <3>1, <3>2
  <2>5. PoolsAsked'
    BY Zenon, <1>0, <1>1, <1>2, <2>1, <2>4 DEF PoolsAsked, Up, AskedCreate, AskedClose
  <2>6. BlockPending'
    BY Zenon, <1>0, <1>1, <2>1, <2>4 DEF BlockPending
  <2> QED
    BY Zenon, <2>3, <2>5, <2>6 DEF AskedOK
<1>6. CASE SaveKey(call) \/ DropKey(call)
  <2>1. UNCHANGED <<pool, createPool, closePool>> /\ Finish(call)
    BY Zenon, <1>6 DEF SaveKey, DropKey
  <2>2. PoolsAsked' /\ BlockPending'
    BY Zenon, <1>0, <1>1, <1>2, <2>1 DEF PoolsAsked, BlockPending, Up, AskedCreate, AskedClose
  <2> QED
    BY Zenon, <1>3, <2>1, <2>2 DEF AskedOK
<1> QED
  BY Zenon, <1>4, <1>5, <1>6 DEF Handle

(* Pools that lose some of what they have are still of what was asked for. *)
LEMMA PoolsLess ==
    ASSUME PoolsAsked, Up, UNCHANGED <<status, started>>,
           ToSet(pool.order)' \subseteq ToSet(pool.order),
           ToSet(createPool)' \subseteq ToSet(createPool),
           ToSet(closePool)' \subseteq ToSet(closePool)
    PROVE  PoolsAsked'
BY Zenon DEF PoolsAsked, Up, AskedCreate, AskedClose, ToCreate

(* The producer takes what is pending, and what it drops is not pending.   *)
LEMMA SelectCreatesAsked ==
    ASSUME DataOK, IdsOK, AskedOK, SelectCreates
    PROVE  AskedOK'
<1> DEFINE sel   == SelectCreate(createPool, MaxTxsPerBlock, ledger)
           block == [EmptyBlock EXCEPT !.creates = sel.taken]
<1>1. /\ createPool' = Without(createPool, sel.dropped) /\ Up
      /\ producer' = [step |-> "payments", scratch |-> sel.state, block |-> block]
      /\ UNCHANGED <<status, pool, closePool, calls, started>>
  BY Zenon DEF SelectCreates
<1>2. createPool \in Seq(AccountCreateTransaction) /\ Unrepeated(createPool)
  BY Zenon DEF DataOK, PoolsTyped, IdsOK, PoolsUnrepeated
<1>3. Selection(sel, createPool, AccountCreateTransaction)
  BY <1>2, SelectedCreates
<1> HIDE DEF sel
<1>4. /\ block.creates = sel.taken /\ block.payments = <<>> /\ block.closes = <<>>
  BY DEF EmptyBlock
<1>5. producer'.block = block
  BY <1>1
<1> HIDE DEF block
<1>6. /\ ToSet(sel.taken) \subseteq ToSet(createPool')
      /\ ToSet(createPool') \subseteq ToSet(createPool)
  <2>1. ToSet(sel.taken) \subseteq ToSet(Without(createPool, sel.dropped))
    BY <1>2, <1>3, TakenStay
  <2>2. ToSet(Without(createPool, sel.dropped)) \subseteq ToSet(createPool)
    BY <1>2, WithoutElements
  <2> QED
    BY Zenon, <1>1, <2>1, <2>2
<1>7. BlockPending'
  BY Zenon, <1>4, <1>5, <1>6, NothingPending DEF BlockPending
<1>8. PoolsAsked'
  BY Zenon, <1>1, <1>6, PoolsLess DEF AskedOK
<1> QED
  BY Zenon, <1>1, <1>7, <1>8 DEF AskedOK, CallsAsked, AskedPayment, AskedCreate, AskedClose,
                                 ToCreate

(* Likewise for payments ...                                               *)
LEMMA SelectPaymentsAsked ==
    ASSUME DataOK, IdsOK, AskedOK, SelectPayments
    PROVE  AskedOK'
<1> DEFINE room  == MaxTxsPerBlock - Len(producer.block.creates)
           sel   == SelectPayment(pool.order, room, producer.scratch)
           block == [producer.block EXCEPT !.payments = sel.taken]
<1>1. /\ pool' = RemovePayments(pool, sel.dropped)
      /\ producer' = [step |-> "closes", scratch |-> sel.state, block |-> block]
      /\ UNCHANGED <<status, createPool, closePool, calls, started>>
  BY Zenon DEF SelectPayments
<1>0. Up
  BY DEF SelectPayments, DataOK, StatusOK
<1>2. /\ pool.order \in Seq(Payable) /\ Unrepeated(pool.order) /\ producer.block \in Block
  BY Zenon DEF DataOK, PoolsTyped, ExactPool, ProducerOK, IdsOK, PoolsUnrepeated
<1>3. Selection(sel, pool.order, Payable)
  <2> HIDE DEF room
  <2> QED
    BY <1>2, SelectedPayments
<1> HIDE DEF sel
<1>4. /\ block.payments = sel.taken /\ block.creates = producer.block.creates
      /\ block.closes = producer.block.closes
  BY <1>2 DEF Block
<1>5. producer'.block = block /\ pool'.order = Without(pool.order, sel.dropped)
  BY <1>1 DEF RemovePayments
<1> HIDE DEF block
<1>6. /\ ToSet(sel.taken) \subseteq ToSet(pool'.order)
      /\ ToSet(pool'.order) \subseteq ToSet(pool.order)
  <2>1. ToSet(sel.taken) \subseteq ToSet(Without(pool.order, sel.dropped))
    BY <1>2, <1>3, TakenStay
  <2>2. ToSet(Without(pool.order, sel.dropped)) \subseteq ToSet(pool.order)
    BY <1>2, WithoutElements
  <2> QED
    BY Zenon, <1>5, <2>1, <2>2
<1>7. BlockPending'
  BY Zenon, <1>1, <1>4, <1>5, <1>6 DEF BlockPending, AskedOK
<1>8. PoolsAsked'
  BY Zenon, <1>0, <1>1, <1>6, PoolsLess DEF AskedOK
<1> QED
  BY Zenon, <1>1, <1>7, <1>8 DEF AskedOK, CallsAsked, AskedPayment, AskedCreate, AskedClose,
                                 ToCreate

(* ... and for closures.                                                   *)
LEMMA SelectClosesAsked ==
    ASSUME DataOK, IdsOK, AskedOK, SelectCloses
    PROVE  AskedOK'
<1> DEFINE room  == MaxTxsPerBlock - Len(producer.block.creates)
                                   - Len(producer.block.payments)
           sel   == SelectClose(closePool, room, producer.scratch)
           block == [producer.block EXCEPT !.closes = sel.taken]
           next  == [step |-> "commit", scratch |-> sel.state, block |-> block]
<1>1. /\ closePool' = Without(closePool, sel.dropped)
      /\ producer' = IF block = EmptyBlock THEN Idle ELSE next
      /\ UNCHANGED <<status, pool, createPool, calls, started>>
  BY Zenon DEF SelectCloses
<1>0. Up
  BY DEF SelectCloses, DataOK, StatusOK
<1>2. /\ closePool \in Seq(AccountCloseTransaction) /\ Unrepeated(closePool)
      /\ producer.block \in Block
  BY Zenon DEF DataOK, PoolsTyped, ProducerOK, IdsOK, PoolsUnrepeated
<1>3. Selection(sel, closePool, AccountCloseTransaction)
  <2> HIDE DEF room
  <2> QED
    BY <1>2, SelectedCloses
<1> HIDE DEF sel
<1>4. /\ block.closes = sel.taken /\ block.creates = producer.block.creates
      /\ block.payments = producer.block.payments
  BY <1>2 DEF Block
<1>5. next.block = block
  OBVIOUS
<1> HIDE DEF block, next
<1>6. \/ producer'.block = block \/ producer' = Idle
  BY Zenon, <1>1, <1>5
<1>7. /\ ToSet(sel.taken) \subseteq ToSet(closePool')
      /\ ToSet(closePool') \subseteq ToSet(closePool)
  <2>1. ToSet(sel.taken) \subseteq ToSet(Without(closePool, sel.dropped))
    BY <1>2, <1>3, TakenStay
  <2>2. ToSet(Without(closePool, sel.dropped)) \subseteq ToSet(closePool)
    BY <1>2, WithoutElements
  <2> QED
    BY Zenon, <1>1, <2>1, <2>2
<1>8. BlockPending'
  <2>1. CASE producer' = Idle
    BY Zenon, <2>1, NothingPending DEF BlockPending
  <2>2. CASE producer'.block = block
    BY Zenon, <1>1, <1>4, <1>7, <2>2 DEF BlockPending, AskedOK
  <2> QED
    BY <1>6, <2>1, <2>2
<1>9. PoolsAsked'
  BY Zenon, <1>0, <1>1, <1>7, PoolsLess DEF AskedOK
<1> QED
  BY Zenon, <1>1, <1>8, <1>9 DEF AskedOK, CallsAsked, AskedPayment, AskedCreate, AskedClose,
                                 ToCreate

(* A commit takes a block out of the pools, and the producer has none.     *)
LEMMA CommitAsked ==
    ASSUME DataOK, AskedOK, Commit
    PROVE  AskedOK'
<1> DEFINE b == producer.block
<1>1. /\ producer' = Idle /\ UNCHANGED <<status, calls, started>> /\ Up
  BY Zenon DEF Commit, DataOK, StatusOK
<1>2. CASE UNCHANGED <<pool, createPool, closePool>>
  BY Zenon, <1>1, <1>2, IdleAsked
<1>3. CASE /\ pool' = RemovePayments(pool, b.payments)
           /\ createPool' = Without(createPool, b.creates)
           /\ closePool' = Without(closePool, b.closes)
  <2>1. pool'.order = Without(pool.order, b.payments)
    BY <1>3 DEF RemovePayments
  <2>2. /\ pool.order \in Seq(Payable) /\ createPool \in Seq(AccountCreateTransaction)
        /\ closePool \in Seq(AccountCloseTransaction)
    BY Zenon DEF DataOK, PoolsTyped, ExactPool
  <2> HIDE DEF b
  <2>3. /\ ToSet(pool.order)' \subseteq ToSet(pool.order)
        /\ ToSet(createPool)' \subseteq ToSet(createPool)
        /\ ToSet(closePool)' \subseteq ToSet(closePool)
    BY <1>3, <2>1, <2>2, WithoutElements
  <2>4. PoolsAsked'
    BY Zenon, <1>1, <2>3, PoolsLess DEF AskedOK
  <2>5. BlockPending'
    BY Zenon, <1>1, NothingPending DEF BlockPending
  <2> QED
    BY Zenon, <1>1, <2>4, <2>5 DEF AskedOK, CallsAsked, AskedPayment, AskedCreate, AskedClose,
                                   ToCreate
<1> QED
  BY Zenon, <1>2, <1>3 DEF Commit

(* What is pending was asked for after every step.                         *)
LEMMA NextAskedOK ==
    ASSUME DataOK, IdsOK, AskedOK, [Next]_vars
    PROVE  AskedOK'
<1>1. CASE Start
  BY Zenon, <1>1, StartAsked
<1>2. CASE Crash \/ CrashInCommit \/ \E call \in calls : CrashInSave(call)
  BY Zenon, <1>2, ForgetAsked DEF Crash, CrashInCommit, CrashInSave
<1>3. CASE CommitFails
  BY Zenon, <1>3, IdleAsked DEF CommitFails
<1>4. CASE \/ \E r \in PaymentRequests : BuildPayment(r)
           \/ \E r \in CreateRequests : CheckCreate(r)
           \/ \E r \in CloseRequests : CheckClose(r)
  BY Zenon, <1>4, RequestAsked
<1>5. CASE \E call \in calls : Handle(call)
  BY Zenon, <1>5, HandleAsked
<1>6. CASE Produce
  BY Zenon, <1>6, SelectCreatesAsked, SelectPaymentsAsked, SelectClosesAsked, CommitAsked
     DEF Produce
<1>7. CASE UNCHANGED vars
  BY Zenon, <1>7 DEF vars, memory, AskedOK, PoolsAsked, CallsAsked, BlockPending, Up,
                     AskedPayment, AskedCreate, AskedClose, ToCreate
<1> QED
  BY Zenon, <1>1, <1>2, <1>3, <1>4, <1>5, <1>6, <1>7 DEF Next

-----------------------------------------------------------------------------
(* A sequence, a keystore or the creations of a block, has key k for a.    *)
HasEntry(seq, a, k) == \E e \in ToSet(seq) : e.account = a /\ e.key = k

(* The entries of an account are those with its name.                      *)
LEMMA EntriesAre ==
    ASSUME NEW T, NEW seq \in Seq(T), NEW a
    PROVE  /\ EntriesOf(seq, a) \in Seq(T)
           /\ ToSet(EntriesOf(seq, a)) = {e \in ToSet(seq) : e.account = a}
           /\ EntriesOf(seq, a) # <<>> =>
                 /\ Last(EntriesOf(seq, a)) \in ToSet(seq)
                 /\ Last(EntriesOf(seq, a)).account = a
<1> DEFINE es == EntriesOf(seq, a)
<1>1. es \in Seq(T) /\ ToSet(es) = {e \in ToSet(seq) : e.account = a}
  BY OnlyElements DEF EntriesOf
<1> HIDE DEF es
<1>2. ASSUME es # <<>> PROVE Last(es) \in ToSet(es)
  <2>1. es \in Seq(ToSet(es))
    BY <1>1, OwnElements
  <2> QED
    BY <1>2, <2>1, EndsTyped
<1> QED
  BY <1>1, <1>2 DEF es

(* A key that the ledger is hydrated with is of the keystore.              *)
LEMMA HydratedFrom ==
    ASSUME NEW ks \in Seq(KeystoreEntry), NEW a \in AccountIDs
    PROVE  \/ HydratedKeys(ks)[a] = NoKey
           \/ HasEntry(ks, a, HydratedKeys(ks)[a])
<1>1. CASE EntriesOf(ks, a) = <<>>
  BY <1>1 DEF HydratedKeys
<1>2. CASE EntriesOf(ks, a) # <<>>
  <2>1. HydratedKeys(ks)[a] = Last(EntriesOf(ks, a)).key
    BY <1>2 DEF HydratedKeys
  <2>2. Last(EntriesOf(ks, a)) \in ToSet(ks) /\ Last(EntriesOf(ks, a)).account = a
    BY <1>2, EntriesAre
  <2> QED
    BY <2>1, <2>2 DEF HasEntry
<1> QED
  BY <1>1, <1>2

(* The keys of a chain, block by block.                                    *)
LEMMA KeyedMore ==
    ASSUME NEW keys
    PROVE  /\ FoldLeft(KeysAfterBlock, keys, <<>>) = keys
           /\ \A bs \in Seq(Block) : \A block \in Block :
                 FoldLeft(KeysAfterBlock, keys, Append(bs, block))
                     = KeysAfterBlock(FoldLeft(KeysAfterBlock, keys, bs), block)
<1>1. \A bs : FoldLeft(KeysAfterBlock, keys, bs) = Keyed!FoldOf(0, keys, bs)
  BY DEF Keyed!FoldOf, FoldLeft, MapThenFoldSet,
         Keyed!MapThenFoldSet, Max, Keyed!Max
<1>2. Keyed!FoldOf(0, keys, <<>>) = keys
  BY Keyed!FoldEmpty
<1>3. \A bs \in Seq(Block) : \A block \in Block :
         Keyed!FoldOf(0, keys, Append(bs, block))
             = KeysAfterBlock(Keyed!FoldOf(0, keys, bs), block)
  BY Keyed!FoldAppend
<1> QED
  BY <1>1, <1>2, <1>3

(* A key that the chain gives is of a creation in it.                      *)
InChain(bs, a, k) == \E b \in ToSet(bs) : HasEntry(b.creates, a, k)

(* The chain adds no keys but those of its creations.                      *)
LEMMA ChainKeysFrom ==
    ASSUME NEW keys, NEW bs \in Seq(Block), NEW a \in AccountIDs
    PROVE  LET k == FoldLeft(KeysAfterBlock, keys, bs)[a]
           IN  k \in {NoKey, keys[a]} \/ InChain(bs, a, k)
<1> DEFINE f == [q \in Seq(Block) |-> FoldLeft(KeysAfterBlock, keys, q)]
           P == {q \in Seq(Block) : f[q][a] \in {NoKey, keys[a]} \/ InChain(q, a, f[q][a])}
<1>1. /\ f[<<>>] = keys
      /\ \A q \in Seq(Block) : \A b \in Block : f[Append(q, b)] = KeysAfterBlock(f[q], b)
  <2>1. /\ <<>> \in Seq(Block)
        /\ \A q \in Seq(Block) : \A b \in Block : Append(q, b) \in Seq(Block)
    BY EmptySeq, AppendProperties
  <2> QED
    BY <2>1, KeyedMore
<1>2. f[bs] = FoldLeft(KeysAfterBlock, keys, bs)
  OBVIOUS
<1> HIDE DEF f
<1>3. <<>> \in P
  BY <1>1, EmptySeq
<1>4. ASSUME NEW q \in P, NEW b \in Block PROVE Append(q, b) \in P
  <2>1. /\ q \in Seq(Block) /\ Append(q, b) \in Seq(Block)
        /\ f[q][a] \in {NoKey, keys[a]} \/ InChain(q, a, f[q][a])
    BY AppendProperties
  <2>2. ToSet(Append(q, b)) = ToSet(q) \cup {b}
    BY <2>1, ElementsAppend
  <2> DEFINE k == f[Append(q, b)][a]
  <2>3. \/ k \in {NoKey, f[q][a]}
        \/ EntriesOf(b.creates, a) # <<>> /\ k = Last(EntriesOf(b.creates, a)).key
    <3>1. k = KeysAfterBlock(f[q], b)[a]
      BY <1>1, <2>1
    <3> HIDE DEF k, P
    <3> QED
      BY <3>1 DEF KeysAfterBlock
  <2> HIDE DEF P
  <2>4. CASE k \in {NoKey, f[q][a]}
    <3>1. k \in {NoKey, keys[a]} \/ InChain(Append(q, b), a, k)
      BY <2>1, <2>2, <2>4 DEF InChain
    <3> QED
      BY <2>1, <3>1 DEF P
  <2>5. CASE EntriesOf(b.creates, a) # <<>> /\ k = Last(EntriesOf(b.creates, a)).key
    <3>1. b.creates \in Seq(AccountCreateTransaction)
      BY DEF Block
    <3>2. HasEntry(b.creates, a, k)
      BY <2>5, <3>1, EntriesAre DEF HasEntry
    <3>3. InChain(Append(q, b), a, k)
      BY <2>2, <3>2 DEF InChain
    <3> QED
      BY <2>1, <3>3 DEF P
  <2> QED
    BY <2>3, <2>4, <2>5
<1> HIDE DEF P
<1>5. P \in SUBSET Seq(Block)
  BY DEF P
<1>6. P = Seq(Block)
  BY <1>3, <1>4, <1>5, Keyed!SeqSet
<1> QED
  BY <1>2, <1>6 DEF P

-----------------------------------------------------------------------------
(***************************************************************************)
(* The key pair of a creation is its own. Before the request nobody has    *)
(* it; while the creation is pending, neither the ledger nor a pending     *)
(* payment uses it for the account.                                        *)
(***************************************************************************)
Unknown(a, k) ==
    /\ ~HasEntry(keystore, a, k)
    /\ disk.keystore # Torn => ~HasEntry(disk.keystore, a, k)
    /\ ~InChain(disk.blocks, a, k)

Unused(a, k) ==
    /\ ledger.key[a] # k
    /\ \A p \in ToSet(pool.order) : ~(p.payer = a /\ p.signer = k)

Creations == ToSet(createPool) \cup {c.tx : c \in {d \in calls : d.step = "queue create"}}

KeysUnknown ==
    \A r \in CreateRequests : r.id \notin started => Unknown(r.account, r.key)

KeysUnused ==
    /\ \A r \in CreateRequests : r.id \notin started => Unused(r.account, r.key)
    /\ \A tx \in Creations : Unused(tx.account, tx.key)

(* What was asked for before has another key than what will be.            *)
LEMMA AskedBefore ==
    ASSUME NEW tx, AskedCreate(tx), NEW r \in CreateRequests, r.id \notin started
    PROVE  ~(tx.account = r.account /\ tx.key = r.key)
<1>1. PICK q \in CreateRequests : q.id \in started /\ tx = ToCreate(q)
  BY DEF AskedCreate
<1>2. tx.account = q.account /\ tx.key = q.key
  BY <1>1 DEF ToCreate
<1>3. q # r
  BY <1>1
<1> QED
  BY <1>2, <1>3, KeysAssumption

(* Two creations that were asked for with one key are the same.            *)
LEMMA SameAsked ==
    ASSUME NEW tx, AskedCreate(tx), NEW ux, AskedCreate(ux),
           tx.account = ux.account, tx.key = ux.key
    PROVE  tx = ux
<1>1. PICK q \in CreateRequests : tx = ToCreate(q)
  BY DEF AskedCreate
<1>2. PICK r \in CreateRequests : ux = ToCreate(r)
  BY DEF AskedCreate
<1>3. q.account = r.account /\ q.key = r.key
  BY <1>1, <1>2 DEF ToCreate
<1> QED
  BY <1>1, <1>2, <1>3, KeysAssumption

(* The genesis does not know the key of a creation.                        *)
LEMMA GenesisKeys ==
    ASSUME NEW r \in CreateRequests
    PROVE  /\ Genesis.key[r.account] # r.key
           /\ ~HasEntry(GenesisKeystore, r.account, r.key)
<1>1. /\ r.account \in AccountIDs /\ r.key # NoKey
  BY RequestsAssumption, KeysAssumption
<1>2. ~HasEntry(GenesisKeystore, r.account, r.key)
  <2>1. SUFFICES ASSUME NEW e \in ToSet(GenesisKeystore), e.account = r.account, e.key = r.key
                 PROVE  FALSE
    BY DEF HasEntry
  <2>2. e \in KeystoreEntry
    BY NodeAssumption, OwnElements
  <2>3. e = [account |-> r.account, key |-> r.key]
    BY <2>1, <2>2 DEF KeystoreEntry
  <2> QED
    BY <2>3, KeysAssumption
<1>3. Genesis.key = HydratedKeys(GenesisKeystore)
  BY GenesisAssumption DEF BuildInitialState
<1> QED
  BY <1>1, <1>2, <1>3, HydratedFrom, NodeAssumption

(* An entry more in the keystore adds its key.                             *)
LEMMA EntryAdded ==
    ASSUME NEW T, NEW ks \in Seq(T), NEW tx,
           [account |-> tx.account, key |-> tx.key] \in T, NEW a, NEW k
    PROVE  HasEntry(AppendEntry(ks, tx), a, k)
               => HasEntry(ks, a, k) \/ (tx.account = a /\ tx.key = k)
<1> DEFINE e == [account |-> tx.account, key |-> tx.key]
<1>1. ToSet(Append(ks, e)) = ToSet(ks) \cup {e}
  BY ElementsAppend
<1> QED
  BY <1>1 DEF AppendEntry, HasEntry

(* A keystore that loses entries gets no key.                              *)
LEMMA EntryRemoved ==
    ASSUME NEW T, NEW ks \in Seq(T), NEW b, NEW a, NEW k
    PROVE  HasEntry(RemoveEntry(ks, b), a, k) => HasEntry(ks, a, k)
<1>1. ToSet(RemoveEntry(ks, b)) \subseteq ToSet(ks)
  BY OnlyElements DEF RemoveEntry
<1> QED
  BY <1>1 DEF HasEntry

(* A block more adds the keys of its creations.                            *)
LEMMA ChainAdded ==
    ASSUME NEW bs \in Seq(Block), NEW b \in Block, NEW a, NEW k
    PROVE  InChain(Append(bs, b), a, k) <=> InChain(bs, a, k) \/ HasEntry(b.creates, a, k)
<1>1. ToSet(Append(bs, b)) = ToSet(bs) \cup {b}
  BY ElementsAppend
<1> QED
  BY <1>1 DEF InChain

(* An empty keystore has no key, nor has a chain without creations.        *)
LEMMA EmptyEntries ==
    /\ \A a, k : ~HasEntry(<<>>, a, k) /\ ~InChain(<<>>, a, k)
    /\ \A a, k : ~InChain(<<EmptyBlock>>, a, k)
<1>1. ToSet(<<>>) = {} /\ ToSet(<<EmptyBlock>>) = {EmptyBlock}
  BY DEF ToSet
<1>2. EmptyBlock.creates = <<>>
  BY NothingPending
<1> QED
  BY <1>1, <1>2 DEF HasEntry, InChain

(* Before the first start nobody has the key of a creation.                *)
LEMMA InitUnknown == Init => KeysUnknown
BY GenesisKeys, EmptyEntries DEF Init, KeysUnknown, Unknown

(* What the disk knows does not change in most steps.                      *)
LEMMA UnknownKept ==
    ASSUME KeysUnknown, disk'.blocks = disk.blocks, started \subseteq started',
           disk'.keystore = disk.keystore \/ disk'.keystore = Torn,
           keystore' = keystore \/ keystore' = <<>>
                \/ (keystore' = disk.keystore /\ disk.keystore # Torn)
    PROVE  KeysUnknown'
<1> SUFFICES ASSUME NEW r \in CreateRequests, r.id \notin started'
             PROVE  Unknown(r.account, r.key)'
  BY DEF KeysUnknown
<1>1. Unknown(r.account, r.key)
  BY DEF KeysUnknown
<1> QED
  BY <1>1, EmptyEntries DEF Unknown

(* A start brings no key that nobody had.                                  *)
LEMMA StartUnknown ==
    ASSUME DataOK, KeysUnknown, Start
    PROVE  KeysUnknown'
<1>0. DiskTyped /\ StatusOK
  BY DEF DataOK
<1>1. CASE SaveGenesisBlock
  <2>1. /\ disk'.blocks = <<EmptyBlock>> /\ disk'.keystore = disk.keystore
        /\ keystore' = keystore /\ started' = started
    BY <1>0, <1>1 DEF SaveGenesisBlock, DiskTyped, memory
  <2> SUFFICES ASSUME NEW r \in CreateRequests, r.id \notin started'
               PROVE  Unknown(r.account, r.key)'
    BY DEF KeysUnknown
  <2>2. Unknown(r.account, r.key)
    BY <2>1 DEF KeysUnknown
  <2> QED
    BY <2>1, <2>2, EmptyEntries DEF Unknown
<1>2. CASE SaveGenesisState
  <2>1. disk.keystore # Torn \/ disk.keystore = GenesisKeystore
    BY <1>0, <1>2 DEF SaveGenesisState, StatusOK
  <2>2. /\ disk'.blocks = disk.blocks /\ disk'.keystore = disk.keystore
        /\ keystore' = disk.keystore /\ started' = started
    BY <1>0, <1>2 DEF SaveGenesisState, DiskTyped
  <2> SUFFICES ASSUME NEW r \in CreateRequests, r.id \notin started'
               PROVE  Unknown(r.account, r.key)'
    BY DEF KeysUnknown
  <2>3. Unknown(r.account, r.key) /\ ~HasEntry(GenesisKeystore, r.account, r.key)
    BY <2>2, GenesisKeys DEF KeysUnknown
  <2> QED
    BY <2>1, <2>2, <2>3 DEF Unknown
<1>3. CASE Restart
  <2>1. /\ UNCHANGED <<disk, started>>
        /\ keystore' = keystore \/ (keystore' = disk.keystore /\ disk.keystore # Torn)
    BY Zenon, <1>3 DEF Restart
  <2> QED
    BY <2>1, UnknownKept
<1> QED
  BY <1>1, <1>2, <1>3 DEF Start

(* A handler saves the key of a creation that was asked for.               *)
LEMMA HandleUnknown ==
    ASSUME DataOK, AskedOK, KeysUnknown, NEW call \in calls, Handle(call)
    PROVE  KeysUnknown'
<1>0. /\ DiskTyped /\ MemoryTyped /\ CallsTyped /\ CallsAsked /\ UNCHANGED started
  BY Zenon DEF DataOK, AskedOK, Handle, AdmitPayment, QueueCreate, QueueClose, SaveKey, DropKey
<1>1. CASE AdmitPayment(call) \/ QueueCreate(call) \/ QueueClose(call)
  <2>1. UNCHANGED <<disk, keystore>>
    BY Zenon, <1>1 DEF AdmitPayment, QueueCreate, QueueClose
  <2> QED
    BY <1>0, <2>1, UnknownKept
<1>2. CASE SaveKey(call) \/ DropKey(call)
  <2>1. PICK ks : /\ SetKeystore(ks)
                  /\ \/ /\ ks = AppendEntry(keystore, call.tx) /\ AskedCreate(call.tx)
                        /\ call.tx \in AccountCreateTransaction
                     \/ ks = RemoveEntry(keystore, call.tx.account)
    <3>1. CASE SaveKey(call)
      <4>1. call.step = "save key" /\ SetKeystore(AppendEntry(keystore, call.tx))
        BY Zenon, <3>1 DEF SaveKey
      <4>2. AskedCreate(call.tx) /\ call.tx \in AccountCreateTransaction
        BY Zenon, <1>0, <4>1, CallSteps DEF CallsAsked
      <4> QED
        BY Zenon, <4>1, <4>2
    <3>2. CASE DropKey(call)
      BY Zenon, <3>2 DEF DropKey
    <3> QED
      BY <1>2, <3>1, <3>2
  <2>2. /\ keystore' = ks /\ disk'.blocks = disk.blocks
        /\ disk'.keystore \in {ks, disk.keystore, Torn}
    BY <1>0, <2>1 DEF SetKeystore, WithFile, DiskTyped
  <2> SUFFICES ASSUME NEW r \in CreateRequests, r.id \notin started
               PROVE  Unknown(r.account, r.key)'
    BY <1>0 DEF KeysUnknown
  <2>3. Unknown(r.account, r.key)
    BY DEF KeysUnknown
  <2>4. ~HasEntry(ks, r.account, r.key)
    <3>1. keystore \in Seq(KeystoreEntry) /\ ~HasEntry(keystore, r.account, r.key)
      BY <1>0, <2>3 DEF MemoryTyped, Unknown
    <3>2. CASE /\ ks = AppendEntry(keystore, call.tx) /\ AskedCreate(call.tx)
               /\ call.tx \in AccountCreateTransaction
      <4>1. [account |-> call.tx.account, key |-> call.tx.key] \in KeystoreEntry
        BY <3>2 DEF AccountCreateTransaction, KeystoreEntry
      <4>2. ~(call.tx.account = r.account /\ call.tx.key = r.key)
        BY <3>2, AskedBefore
      <4> QED
        BY <3>1, <3>2, <4>1, <4>2, EntryAdded
    <3>3. CASE ks = RemoveEntry(keystore, call.tx.account)
      BY <3>1, <3>3, EntryRemoved
    <3> QED
      BY <2>1, <3>2, <3>3
  <2> QED
    BY <2>2, <2>3, <2>4 DEF Unknown
<1> QED
  BY Zenon, <1>1, <1>2 DEF Handle

(* A block that is saved has only creations that were asked for.           *)
LEMMA SavedUnknown ==
    ASSUME DataOK, AskedOK, KeysUnknown, NEW s, disk' = Saved(producer.block, s),
           keystore' \in {keystore, <<>>}, UNCHANGED started
    PROVE  KeysUnknown'
<1>1. /\ disk'.blocks = Append(disk.blocks, producer.block)
      /\ disk'.keystore = disk.keystore
  BY DEF Saved
<1>2. disk.blocks \in Seq(Block) /\ producer.block \in Block
  BY DEF DataOK, DiskTyped, ProducerOK
<1> SUFFICES ASSUME NEW r \in CreateRequests, r.id \notin started
             PROVE  Unknown(r.account, r.key)'
  BY DEF KeysUnknown
<1>3. Unknown(r.account, r.key)
  BY DEF KeysUnknown
<1>4. ~HasEntry(producer.block.creates, r.account, r.key)
  <2> SUFFICES ASSUME NEW tx \in ToSet(producer.block.creates)
               PROVE  ~(tx.account = r.account /\ tx.key = r.key)
    BY DEF HasEntry
  <2>1. AskedCreate(tx)
    BY DEF AskedOK, PoolsAsked, BlockPending
  <2> QED
    BY <2>1, AskedBefore
<1>5. ~InChain(disk'.blocks, r.account, r.key)
  BY <1>1, <1>2, <1>3, <1>4, ChainAdded DEF Unknown
<1> QED
  BY <1>1, <1>3, <1>5, EmptyEntries DEF Unknown

(* No step makes the key of a creation known before it is asked for.       *)
LEMMA NextUnknown ==
    ASSUME DataOK, AskedOK, KeysUnknown, [Next]_vars
    PROVE  KeysUnknown'
<1>1. CASE Start
  BY Zenon, <1>1, StartUnknown
<1>2. CASE Crash \/ \E call \in calls : CrashInSave(call)
  <2>1. DiskTyped /\ keystore' = <<>> /\ UNCHANGED started
    BY Zenon, <1>2 DEF Crash, CrashInSave, Forget, DataOK
  <2>2. UNCHANGED disk \/ disk' = WithFile(Torn)
    BY Zenon, <1>2 DEF Crash, CrashInSave
  <2>3. disk'.blocks = disk.blocks /\ (disk'.keystore = disk.keystore \/ disk'.keystore = Torn)
    BY <2>1, <2>2 DEF WithFile, DiskTyped
  <2> QED
    BY <2>1, <2>3, UnknownKept
<1>3. CASE CrashInCommit
  <2>1. PICK s : disk' = Saved(producer.block, s)
    BY Zenon, <1>3 DEF CrashInCommit
  <2>2. keystore' = <<>> /\ UNCHANGED started
    BY Zenon, <1>3 DEF CrashInCommit, Forget
  <2> QED
    BY <2>1, <2>2, SavedUnknown
<1>4. CASE \E call \in calls : Handle(call)
  BY Zenon, <1>4, HandleUnknown
<1>5. CASE Commit
  <2>1. UNCHANGED <<keystore, started>>
    BY Zenon, <1>5 DEF Commit
  <2>2. CASE UNCHANGED disk
    BY <2>1, <2>2, UnknownKept
  <2>3. CASE \E s : disk' = Saved(producer.block, s)
    BY <2>1, <2>3, SavedUnknown
  <2> QED
    BY Zenon, <1>5, <2>2, <2>3 DEF Commit
<1>6. CASE UNCHANGED <<disk, keystore>> /\ started \subseteq started'
  BY <1>6, UnknownKept
<1>7. CASE \/ \E r \in PaymentRequests : BuildPayment(r)
           \/ \E r \in CreateRequests : CheckCreate(r)
           \/ \E r \in CloseRequests : CheckClose(r)
  BY Zenon, <1>6, <1>7 DEF BuildPayment, CheckCreate, CheckClose, Begin
<1>8. CASE CommitFails \/ SelectCreates \/ SelectPayments \/ SelectCloses \/ UNCHANGED vars
  BY Zenon, <1>6, <1>8 DEF CommitFails, SelectCreates, SelectPayments, SelectCloses, vars, memory
<1> QED
  BY Zenon, <1>1, <1>2, <1>3, <1>4, <1>5, <1>7, <1>8 DEF Next, Produce

-----------------------------------------------------------------------------
(***************************************************************************)
(* Every payer has what its pending payments will take.                    *)
(***************************************************************************)
Funds ==
    /\ Solvent(ledger)
    /\ \A d \in disk.saved : \A a \in AccountIDs : d.balance[a] \in Nat
    /\ Affordable(pool.order, ledger, Asked) /\ Funded(pool.order, ledger)

(* What payments that were asked for take can be counted and taken.        *)
LEMMA AskedSpendable == Spendable(Asked)
<1>1. Asked \subseteq Payable /\ Payable \subseteq PaymentTransaction
  BY DEF Asked, Payable
<1>2. Reservable(Asked)
  BY <1>1, PayableReservable DEF Reservable
<1>3. \A tx \in Asked : ValidLines(tx.items) => NothingOverflows(tx.items)
  BY AmountsAssumption DEF Asked
<1> QED
  BY <1>1, <1>2, <1>3, GenesisAssumption DEF Spendable

(* The genesis owes nobody.                                                *)
LEMMA GenesisSolvent == Solvent(Genesis)
BY NodeAssumption, GenesisAssumption DEF Solvent, State

(* Nothing is pending that would cost anything.                            *)
LEMMA NothingCosts ==
    ASSUME NEW s, Solvent(s)
    PROVE  Affordable(<<>>, s, Asked) /\ Funded(<<>>, s)
<1>1. \A a, k : Owned(a, k, Asked, <<>>) = 0
  BY AskedSpendable, OwnedNat, EmptySeq DEF Spendable
<1>2. \A a \in AccountIDs : s.balance[a] \in Nat
  BY DEF Solvent
<1> QED
  BY <1>1, <1>2, NothingPending DEF Affordable, Funded

(* Before the first start nothing is pending.                              *)
LEMMA InitFunds == Init => Funds /\ KeysUnused
<1> SUFFICES ASSUME Init PROVE Funds /\ KeysUnused
  OBVIOUS
<1>1. /\ ledger = Genesis /\ pool.order = <<>> /\ createPool = <<>> /\ calls = {}
      /\ disk.saved = {} /\ ToSet(<<>>) = {}
  BY NothingPending DEF Init
<1>2. Creations = {}
  BY <1>1 DEF Creations
<1> QED
  BY <1>1, <1>2, GenesisSolvent, NothingCosts, GenesisKeys DEF Funds, KeysUnused, Unused

(* Keys that are of nobody stay so while the ledger does not change and    *)
(* nothing more is pending than what was just asked for.                   *)
LEMMA UnusedKept ==
    ASSUME KeysUnused, UNCHANGED ledger, ToSet(pool.order)' \subseteq ToSet(pool.order),
           started \subseteq started',
           \A tx \in Creations' :
               \/ tx \in Creations
               \/ \E r \in CreateRequests :
                     r.id \notin started /\ tx.account = r.account /\ tx.key = r.key
    PROVE  KeysUnused'
<1>1. \A a, k : Unused(a, k) => Unused(a, k)'
  BY DEF Unused
<1> QED
  BY <1>1 DEF KeysUnused

(* Steps that touch neither the state nor the pool leave them in balance.  *)
LEMMA FundsKept ==
    ASSUME Funds, UNCHANGED <<ledger, pool>>, UNCHANGED disk.saved
    PROVE  Funds'
BY Zenon DEF Funds

(* A process that died is back at the genesis.                             *)
LEMMA ForgetFunds ==
    ASSUME Forget, \A d \in disk'.saved : \A a \in AccountIDs : d.balance[a] \in Nat
    PROVE  Funds' /\ KeysUnused'
<1>1. /\ ledger' = Genesis /\ pool'.order = <<>> /\ createPool' = <<>> /\ calls' = {}
      /\ ToSet(<<>>) = {}
  BY NothingPending DEF Forget
<1>2. Creations' = {}
  BY <1>1 DEF Creations
<1> QED
  BY <1>1, <1>2, GenesisSolvent, NothingCosts, GenesisKeys DEF Funds, KeysUnused, Unused

(* A state that is loaded has the keys of the keystore and the chain.      *)
LEMMA LoadedFunds ==
    ASSUME DataOK, Funds, KeysUnknown, disk.keystore # Torn
    PROVE  LET s == LoadedState(disk, disk.keystore)
           IN  /\ Solvent(s)
               /\ \A r \in CreateRequests : r.id \notin started => s.key[r.account] # r.key
<1> DEFINE ks == disk.keystore
           s == LoadedState(disk, ks)
           s0 == BuildInitialState(ks)
           d == CHOOSE t \in disk.saved \cup {Persisted(s0)} :
                   disk.saved # {} => t \in disk.saved
           keys == FoldLeft(KeysAfterBlock, HydratedKeys(ks), disk.blocks)
<1>1. ks \in Seq(KeystoreEntry) /\ disk.blocks \in Seq(Block) /\ disk.saved \subseteq Balances
  BY DEF DataOK, DiskTyped
<1>2. s \in State
  BY <1>1, LoadedTyped
<1>3. s.balance = d.balance /\ s.key = keys
  BY DEF LoadedState
<1>4. \A a \in AccountIDs : d.balance[a] \in Nat
  <2>1. Persisted(s0).balance = Genesis.balance
    BY DEF Persisted, BuildInitialState
  <2>2. \A a \in AccountIDs : Genesis.balance[a] \in Nat
    BY GenesisSolvent DEF Solvent
  <2>3. \E t \in disk.saved \cup {Persisted(s0)} : disk.saved # {} => t \in disk.saved
    OBVIOUS
  <2>4. d \in disk.saved \cup {Persisted(s0)}
    BY <2>3
  <2> HIDE DEF d, s0
  <2> QED
    BY <2>1, <2>2, <2>4 DEF Funds
<1> HIDE DEF s, d
<1>5. ASSUME NEW r \in CreateRequests, r.id \notin started PROVE keys[r.account] # r.key
  <2>1. r.account \in AccountIDs /\ r.key # NoKey
    BY RequestsAssumption, KeysAssumption
  <2>2. ~HasEntry(ks, r.account, r.key) /\ ~InChain(disk.blocks, r.account, r.key)
    BY <1>5 DEF KeysUnknown, Unknown
  <2>3. HydratedKeys(ks)[r.account] # r.key
    BY <1>1, <2>1, <2>2, HydratedFrom
  <2>4. \/ keys[r.account] \in {NoKey, HydratedKeys(ks)[r.account]}
        \/ InChain(disk.blocks, r.account, keys[r.account])
    BY Zenon, <1>1, <2>1, ChainKeysFrom
  <2> HIDE DEF keys, ks
  <2> QED
    BY <2>1, <2>2, <2>3, <2>4
<1>6. Solvent(s)
  BY <1>2, <1>3, <1>4 DEF Solvent
<1> QED
  BY <1>3, <1>5, <1>6 DEF s

(* A start finds nothing pending.                                          *)
LEMMA StartFunds ==
    ASSUME DataOK, AskedOK, KeysUnknown, Funds, KeysUnused, Start
    PROVE  Funds' /\ KeysUnused'
<1>1. /\ UNCHANGED <<pool, createPool, calls, started>> /\ ~Up
  BY Zenon DEF Start, SaveGenesisBlock, SaveGenesisState, Restart, memory, Up
<1>2. pool = EmptyPool /\ createPool = <<>> /\ calls = {} /\ ToSet(<<>>) = {}
  BY <1>1, NothingPending DEF AskedOK, PoolsAsked, DataOK, StatusOK
<1>3. Creations' = {} /\ pool'.order = <<>>
  BY <1>1, <1>2, NothingPending DEF Creations
<1>4. ASSUME Solvent(ledger'),
             \A r \in CreateRequests : r.id \notin started => ledger'.key[r.account] # r.key,
             \A d \in disk'.saved : \A a \in AccountIDs : d.balance[a] \in Nat
      PROVE  Funds' /\ KeysUnused'
  BY <1>1, <1>2, <1>3, <1>4, NothingCosts DEF Funds, KeysUnused, Unused
<1>5. CASE SaveGenesisBlock
  <2>1. ledger' = ledger /\ disk'.saved = disk.saved
    BY <1>5 DEF SaveGenesisBlock, memory, DataOK, DiskTyped
  <2> QED
    BY <1>4, <2>1 DEF Funds, KeysUnused, Unused
<1>6. CASE SaveGenesisState
  <2>1. disk.keystore = GenesisKeystore
    BY <1>6 DEF SaveGenesisState, DataOK, StatusOK
  <2>2. ledger' = Genesis /\ disk'.saved = {Persisted(Genesis)}
    BY <1>6, <2>1, GenesisAssumption DEF SaveGenesisState, DataOK, DiskTyped
  <2>3. \A a \in AccountIDs : Persisted(Genesis).balance[a] \in Nat
    BY GenesisSolvent DEF Solvent, Persisted
  <2> QED
    BY <1>4, <2>2, <2>3, GenesisSolvent, GenesisKeys
<1>7. CASE Restart
  <2>1. /\ disk' = disk
        /\ ledger' = ledger \/ (ledger' = LoadedState(disk, disk.keystore) /\ disk.keystore # Torn)
    BY Zenon, <1>7 DEF Restart
  <2>2. CASE ledger' = ledger
    BY <1>4, <2>1, <2>2 DEF Funds, KeysUnused, Unused
  <2>3. CASE ledger' = LoadedState(disk, disk.keystore) /\ disk.keystore # Torn
    BY <1>4, <2>1, <2>3, LoadedFunds DEF Funds
  <2> QED
    BY <2>1, <2>2, <2>3
<1> QED
  BY <1>5, <1>6, <1>7 DEF Start

(* A request changes nothing about what is pending; a creation that is     *)
(* asked for has a key of its own.                                         *)
LEMMA RequestFunds ==
    ASSUME Funds, KeysUnused,
           \/ \E r \in PaymentRequests : BuildPayment(r)
           \/ \E r \in CreateRequests : CheckCreate(r)
           \/ \E r \in CloseRequests : CheckClose(r)
    PROVE  Funds' /\ KeysUnused'
<1>1. UNCHANGED <<ledger, pool, createPool, disk>> /\ started \subseteq started'
  BY Zenon DEF BuildPayment, CheckCreate, CheckClose, Begin
<1>2. Funds'
  BY Zenon, <1>1, FundsKept
<1>3. ASSUME NEW r, NEW step, NEW tx, Begin(r, step, tx),
             \/ step # "queue create"
             \/ r \in CreateRequests /\ tx = ToCreate(r)
      PROVE  KeysUnused'
  <2> DEFINE c == [step |-> step, tx |-> tx]
  <2>1. calls' = calls \cup {c} /\ c.step = step /\ c.tx = tx /\ r.id \notin started
    BY Zenon, <1>3 DEF Begin
  <2> HIDE DEF c
  <2>2. \A x \in Creations' : x \in Creations \/ (step = "queue create" /\ x = tx)
    BY Zenon, <1>1, <2>1 DEF Creations
  <2>3. \A x \in Creations' :
           \/ x \in Creations
           \/ \E q \in CreateRequests :
                 q.id \notin started /\ x.account = q.account /\ x.key = q.key
    <3>1. CASE step # "queue create"
      BY <2>2, <3>1
    <3>2. CASE r \in CreateRequests /\ tx = ToCreate(r)
      <4>1. tx.account = r.account /\ tx.key = r.key
        BY <3>2 DEF ToCreate
      <4> QED
        BY Zenon, <2>1, <2>2, <3>2, <4>1
    <3> QED
      BY <1>3, <3>1, <3>2
  <2> QED
    BY Zenon, <1>1, <2>3, UnusedKept
<1> QED
  BY Zenon, <1>2, <1>3 DEF BuildPayment, CheckCreate, CheckClose

(* Payments that go leave the others what they will take.                  *)
LEMMA LessAfford ==
    ASSUME NEW order \in Seq(Asked), NEW s, Solvent(s), Affordable(order, s, Asked),
           Funded(order, s), NEW txs
    PROVE  Affordable(Without(order, txs), s, Asked) /\ Funded(Without(order, txs), s)
<1> DEFINE rest == Without(order, txs)
           gone == Among(order, txs)
<1>1. Reservable(Asked)
  BY AskedSpendable DEF Spendable
<1>2. rest \in Seq(Asked) /\ gone \in Seq(Asked) /\ ToSet(rest) \subseteq ToSet(order)
  BY WithoutElements
<1>3. ASSUME NEW a \in AccountIDs
      PROVE  Owned(a, s.key[a], Asked, rest) <= s.balance[a]
  <2> DEFINE f == OwnedBy(a, s.key[a], Asked)
  <2>1. /\ \A x \in Asked : f[x] \in Nat
        /\ SumOf(f, rest) \in Nat /\ SumOf(f, gone) \in Nat /\ SumOf(f, order) \in Nat
    BY <1>1, <1>2, OwnedNat DEF Owned
  <2> HIDE DEF f
  <2>2. SumOf(f, order) = SumOf(f, rest) + SumOf(f, gone)
    BY <2>1, SumWithout DEF rest, gone
  <2>3. SumOf(f, order) <= s.balance[a] /\ s.balance[a] \in Nat
    BY DEF Affordable, Owned, Solvent, f
  <2> HIDE DEF rest, gone
  <2>4. SumOf(f, rest) <= s.balance[a]
    BY <2>1, <2>2, <2>3
  <2> QED
    BY <2>4 DEF Owned, f
<1>4. Funded(rest, s)
  BY <1>2 DEF Funded
<1> QED
  BY <1>3, <1>4 DEF Affordable

(* What is pending was asked for.                                          *)
LEMMA OrderAsked ==
    ASSUME DataOK, AskedOK
    PROVE  pool.order \in Seq(Asked) /\ pool.order \in Seq(Payable)
<1>1. pool.order \in Seq(Payable) /\ ToSet(pool.order) \subseteq Asked
  BY Zenon DEF DataOK, PoolsTyped, ExactPool, AskedOK, PoolsAsked
<1> QED
  BY <1>1, SeqWithin

(* A payment that is admitted can be afforded with those that are pending. *)
LEMMA AdmitFunds ==
    ASSUME DataOK, AskedOK, Funds, KeysUnused, NEW call \in calls, AdmitPayment(call)
    PROVE  Funds' /\ KeysUnused'
<1> DEFINE tx == call.tx
           avail == Available(ledger, pool, tx.payer)
<1>1. /\ UNCHANGED <<disk, ledger, createPool, started>> /\ calls' = calls \ {call}
      /\ call.step = "admit"
  BY Zenon DEF AdmitPayment, Finish
<1>2. Creations' \subseteq Creations
  BY Zenon, <1>1 DEF Creations
<1>3. CASE pool' = pool
  BY Zenon, <1>1, <1>2, <1>3, FundsKept, UnusedKept
<1>4. CASE ValidPayment(tx, avail) /\ pool' = AddPayment(pool, tx)
  <2>1. tx \in Payable /\ AskedPayment(tx) /\ CallsTyped
    BY Zenon, <1>1, <1>4, CallSteps, ValidIsPayable DEF DataOK, AskedOK, CallsAsked
  <2>2. tx \in Asked
    BY <2>1 DEF Asked, AskedPayment
  <2>3. pool'.order = Append(pool.order, tx)
    BY <1>4 DEF AddPayment
  <2>4. pool.order \in Seq(Asked) /\ Reservable(Asked) /\ Solvent(ledger)
    BY OrderAsked, AskedSpendable DEF Spendable, Funds
  <2>5. ToSet(pool'.order) = ToSet(pool.order) \cup {tx}
    BY <2>2, <2>3, <2>4, ElementsAppend
  <2>6. tx.payer \in AccountIDs /\ GrossAmount(tx.items) \in Nat /\ tx \in PaymentTransaction
    BY <2>1 DEF Payable, PaymentTransaction
  <2> DEFINE a == tx.payer
  <2>7. /\ Exists(ledger, a) /\ ledger.key[a] = tx.signer
        /\ ledger.balance[a] - pool.reserved[a] >= GrossAmount(tx.items)
    <3>1. Exists(ledger, a)
      BY <1>4 DEF ValidPayment, Available
    <3>2. avail = [ledger EXCEPT !.balance[a] = ledger.balance[a] - pool.reserved[a]]
      BY <3>1 DEF Available
    <3>3. /\ avail.balance[a] = ledger.balance[a] - pool.reserved[a]
          /\ avail.key = ledger.key
      BY <2>4, <2>6, <3>2 DEF Solvent, State
    <3> HIDE DEF avail
    <3> QED
      BY <1>4, <3>1, <3>3 DEF ValidPayment
  <2>8. ValidLines(tx.items) /\ tx.signer # NoKey
    BY <1>4 DEF ValidPayment
  <2>9. pool.reserved[a] = GrossOf(pool.order, a)
    BY <2>6 DEF DataOK, PoolsTyped, ExactPool
  <2> HIDE DEF tx, avail
  <2>10. ASSUME NEW b \in AccountIDs
         PROVE  Owned(b, ledger.key[b], Asked, pool'.order) <= ledger.balance[b]
    <3> DEFINE k == ledger.key[b]
    <3>1. Owned(b, k, Asked, pool.order) <= ledger.balance[b]
      BY DEF Funds, Affordable
    <3> HIDE DEF k
    <3>2. /\ Owned(b, k, Asked, pool.order) \in Nat
          /\ Owned(b, k, Asked, pool'.order)
                = Owned(b, k, Asked, pool.order) + OwnedBy(b, k, Asked)[tx]
          /\ Owned(b, k, Asked, pool.order) <= GrossOf(pool.order, b)
      BY <2>2, <2>3, <2>4, OwnedNat
    <3>3. OwnedBy(b, k, Asked)[tx] =
             IF tx.payer = b /\ tx.signer = k THEN GrossAmount(tx.items) ELSE 0
      BY <2>2 DEF OwnedBy
    <3>4. CASE b = a
      <4>1. /\ Owned(b, k, Asked, pool.order) <= pool.reserved[a]
            /\ OwnedBy(b, k, Asked)[tx] <= GrossAmount(tx.items)
            /\ OwnedBy(b, k, Asked)[tx] \in Nat
        BY <2>6, <2>9, <3>2, <3>3, <3>4
      <4>2. ledger.balance[a] \in Nat /\ pool.reserved[a] \in Nat
        BY <2>4, <2>6 DEF Solvent, DataOK, PoolsTyped, ExactPool
      <4>3. Owned(b, k, Asked, pool'.order) <= ledger.balance[a]
        BY <2>6, <2>7, <3>2, <4>1, <4>2
      <4> QED
        BY <3>4, <4>3 DEF k
    <3>5. CASE b # a
      <4>1. Owned(b, k, Asked, pool'.order) = Owned(b, k, Asked, pool.order)
        BY <3>2, <3>3, <3>5
      <4> QED
        BY <3>1, <4>1 DEF k
    <3> QED
      BY <3>4, <3>5
  <2>11. Funded(pool'.order, ledger)
    BY <2>5, <2>7, <2>8 DEF Funds, Funded
  <2>12. Funds'
    <3>1. Affordable(pool'.order, ledger, Asked)
      BY Zenon, <2>10 DEF Affordable
    <3> QED
      BY Zenon, <1>1, <2>11, <3>1 DEF Funds
  <2>13. ASSUME NEW b, NEW k, Unused(b, k) PROVE Unused(b, k)'
    BY <1>1, <2>5, <2>7, <2>13 DEF Unused
  <2>14. KeysUnused'
    BY Zenon, <1>1, <1>2, <2>13 DEF KeysUnused
  <2> QED
    BY <2>12, <2>14
<1> QED
  BY Zenon, <1>3, <1>4 DEF AdmitPayment

(* The other handlers move what was asked for.                             *)
LEMMA HandleFunds ==
    ASSUME DataOK, AskedOK, Funds, KeysUnused, NEW call \in calls, Handle(call)
    PROVE  Funds' /\ KeysUnused'
<1>1. CASE AdmitPayment(call)
  BY Zenon, <1>1, AdmitFunds
<1>2. CASE ~AdmitPayment(call)
  <2>1. UNCHANGED <<ledger, pool, started>>
    BY Zenon, <1>2 DEF Handle, QueueCreate, QueueClose, SaveKey, DropKey
  <2>2. UNCHANGED disk.saved
    <3>1. CASE UNCHANGED disk
      BY <3>1
    <3>2. CASE \E ks : disk' = WithFile(ks)
      BY <3>2 DEF WithFile, DataOK, DiskTyped
    <3> QED
      BY Zenon, <1>2, <3>1, <3>2 DEF Handle, QueueCreate, QueueClose, SaveKey, DropKey,
                                     SetKeystore
  <2>3. Creations' \subseteq Creations
    <3>1. CASE QueueCreate(call)
      <4>1. /\ createPool \in Seq(AccountCreateTransaction) /\ CallsTyped
            /\ call.step = "queue create" /\ createPool' = Append(createPool, call.tx)
        BY Zenon, <3>1 DEF QueueCreate, DataOK, PoolsTyped
      <4>2. call.tx \in AccountCreateTransaction
        BY Zenon, <4>1, CallSteps
      <4>3. ToSet(createPool') = ToSet(createPool) \cup {call.tx}
        <5>1. createPool \in Seq(AccountCreateTransaction)
          BY Zenon, <4>1
        <5>2. ASSUME NEW x \in AccountCreateTransaction
              PROVE  ToSet(Append(createPool, x)) = ToSet(createPool) \cup {x}
          BY SMT, <5>1, ElementsAppend
        <5> QED
          BY Zenon, <4>1, <4>2, <5>2
      <4> DEFINE d == [step |-> "save key", tx |-> call.tx]
      <4>4. calls' = (calls \ {call}) \cup {d} /\ d.step # "queue create"
        BY Zenon, <3>1 DEF QueueCreate, Proceed
      <4> HIDE DEF d
      <4> QED
        BY Zenon, <4>1, <4>3, <4>4 DEF Creations
    <3>2. CASE QueueClose(call)
      <4> DEFINE d == [step |-> "drop key", tx |-> call.tx]
      <4>1. /\ calls' = (calls \ {call}) \cup {d} /\ d.step # "queue create"
            /\ UNCHANGED createPool
        BY Zenon, <3>2 DEF QueueClose, Proceed
      <4> HIDE DEF d
      <4> QED
        BY Zenon, <4>1 DEF Creations
    <3>3. CASE SaveKey(call) \/ DropKey(call)
      <4>1. calls' = calls \ {call} /\ UNCHANGED createPool
        BY Zenon, <3>3 DEF SaveKey, DropKey, Finish
      <4> QED
        BY Zenon, <4>1 DEF Creations
    <3> QED
      BY Zenon, <1>2, <3>1, <3>2, <3>3 DEF Handle
  <2> QED
    BY Zenon, <2>1, <2>2, <2>3, FundsKept, UnusedKept
<1> QED
  BY <1>1, <1>2

(* What the producer drops from the pools is no loss for the others.       *)
LEMMA SelectFunds ==
    ASSUME DataOK, AskedOK, Funds, KeysUnused,
           SelectCreates \/ SelectPayments \/ SelectCloses
    PROVE  Funds' /\ KeysUnused'
<1>1. /\ UNCHANGED <<disk, ledger, calls, started>>
      /\ createPool \in Seq(AccountCreateTransaction)
  BY Zenon DEF SelectCreates, SelectPayments, SelectCloses, DataOK, PoolsTyped
<1>2. CASE SelectPayments
  <2>1. PICK txs : pool' = RemovePayments(pool, txs)
    BY Zenon, <1>2 DEF SelectPayments
  <2>2. pool'.order = Without(pool.order, txs) /\ UNCHANGED createPool
    BY <1>2, <2>1 DEF RemovePayments, SelectPayments
  <2>3. pool.order \in Seq(Asked)
    BY OrderAsked
  <2>4. /\ Affordable(pool'.order, ledger, Asked) /\ Funded(pool'.order, ledger)
    BY <2>2, <2>3, LessAfford DEF Funds
  <2>5. ToSet(pool'.order) \subseteq ToSet(pool.order)
    BY <2>2, <2>3, WithoutElements
  <2>6. Creations' = Creations
    BY Zenon, <1>1, <2>2 DEF Creations
  <2> QED
    BY Zenon, <1>1, <2>4, <2>5, <2>6, UnusedKept DEF Funds
<1>3. CASE SelectCreates \/ SelectCloses
  <2>1. /\ UNCHANGED pool
        /\ UNCHANGED createPool \/ \E txs : createPool' = Without(createPool, txs)
    BY Zenon, <1>3 DEF SelectCreates, SelectCloses
  <2>2. ToSet(createPool') \subseteq ToSet(createPool)
    <3>1. CASE UNCHANGED createPool
      BY Zenon, <3>1
    <3>2. CASE \E txs : createPool' = Without(createPool, txs)
      BY <1>1, <3>2, WithoutElements
    <3> QED
      BY <2>1, <3>1, <3>2
  <2>3. Creations' \subseteq Creations
    BY Zenon, <1>1, <2>2 DEF Creations
  <2> QED
    BY Zenon, <1>1, <2>1, <2>3, FundsKept, UnusedKept
<1> QED
  BY <1>2, <1>3

(* A block that is executed leaves every payer what the rest will take.    *)
LEMMA BlockFunds ==
    ASSUME DataOK, IdsOK, AskedOK, Funds, KeysUnused,
           NEW t \in ApplyTransactions(producer.block, ledger)
    PROVE  /\ Solvent(t)
           /\ Affordable(Without(pool.order, producer.block.payments), t, Asked)
           /\ Funded(Without(pool.order, producer.block.payments), t)
           /\ \A a \in AccountIDs :
                 \/ t.key[a] \in {NoKey, ledger.key[a]}
                 \/ \E tx \in ToSet(producer.block.creates) :
                       tx.account = a /\ tx.key = t.key[a]
<1> DEFINE b == producer.block
<1>1. b \in [creates  : Seq(AccountCreateTransaction),
             payments : Seq(PaymentTransaction),
             closes   : Seq(AccountCloseTransaction)]
  BY DEF DataOK, ProducerOK, Block
<1>2. /\ Unrepeated(b.payments) /\ ToSet(b.payments) \subseteq ToSet(pool.order)
      /\ ToSet(b.creates) \subseteq ToSet(createPool)
  BY DEF IdsOK, BlockUnrepeated, AskedOK, BlockPending
<1>3. Unsigned(ToSet(b.creates), pool.order)
  BY <1>2 DEF Unsigned, KeysUnused, Creations, Unused
<1>4. pool.order \in Seq(Asked) /\ Spendable(Asked)
  BY OrderAsked, AskedSpendable
<1> HIDE DEF b
<1>5. t \in ApplyTransactions(b, ledger)
  BY DEF b
<1>6. Solvent(ledger) /\ Affordable(pool.order, ledger, Asked) /\ Funded(pool.order, ledger)
  BY DEF Funds
<1>7. /\ Solvent(t)
      /\ Affordable(Without(pool.order, b.payments), t, Asked)
      /\ Funded(Without(pool.order, b.payments), t)
      /\ \A a \in AccountIDs :
            \/ t.key[a] \in {NoKey, ledger.key[a]}
            \/ \E tx \in ToSet(b.creates) : tx.account = a /\ tx.key = t.key[a]
  BY <1>1, <1>2, <1>3, <1>4, <1>5, <1>6, BlockAffords
<1> QED
  BY <1>7 DEF b

(* A pending transaction that is in a block too leaves the pool with it.   *)
LEMMA SameInPool ==
    ASSUME NEW order, Unrepeated(order), NEW p \in ToSet(order), NEW q \in ToSet(order),
           p.id = q.id
    PROVE  p = q
BY DEF ToSet, Unrepeated

(* After a commit the payments that still wait can be afforded.            *)
LEMMA CommitFunds ==
    ASSUME DataOK, IdsOK, AskedOK, Funds, KeysUnused, Commit
    PROVE  Funds' /\ KeysUnused'
<1> DEFINE b == producer.block
           next == ApplyTransactions(b, ledger)
<1>1. UNCHANGED <<calls, started>>
  BY Zenon DEF Commit
<1>2. CASE UNCHANGED <<disk, ledger, blocks, pool, createPool, closePool>>
  <2>1. Creations' = Creations
    BY Zenon, <1>1, <1>2 DEF Creations
  <2> QED
    BY Zenon, <1>1, <1>2, <2>1, FundsKept, UnusedKept
<1>3. ASSUME NEW s \in next, disk' = Saved(b, s), ledger' = s,
             pool' = RemovePayments(pool, b.payments),
             createPool' = Without(createPool, b.creates)
      PROVE  Funds' /\ KeysUnused'
  <2>1. /\ Solvent(s)
        /\ Affordable(Without(pool.order, b.payments), s, Asked)
        /\ Funded(Without(pool.order, b.payments), s)
        /\ \A a \in AccountIDs :
              \/ s.key[a] \in {NoKey, ledger.key[a]}
              \/ \E tx \in ToSet(b.creates) : tx.account = a /\ tx.key = s.key[a]
    BY Zenon, <1>3, BlockFunds
  <2>2. pool'.order = Without(pool.order, b.payments) /\ disk'.saved = {Persisted(s)}
    BY <1>3 DEF RemovePayments, Saved
  <2>3. /\ pool.order \in Seq(Asked) /\ createPool \in Seq(AccountCreateTransaction)
        /\ b.creates \in Seq(AccountCreateTransaction)
    BY OrderAsked DEF DataOK, PoolsTyped, ProducerOK, Block
  <2>4. /\ ToSet(pool'.order) \subseteq ToSet(pool.order)
        /\ ToSet(createPool') = {x \in ToSet(createPool) : NewIn(b.creates, x)}
    BY <1>3, <2>2, <2>3, WithoutElements
  <2>5. ToSet(b.creates) \subseteq ToSet(createPool)
    BY DEF AskedOK, BlockPending
  <2>6. \A tx \in Creations : AskedCreate(tx)
    BY Zenon DEF Creations, AskedOK, PoolsAsked, CallsAsked
  <2> HIDE DEF b, next
  <2>7. Funds'
    <3>1. \A d \in disk'.saved : \A a \in AccountIDs : d.balance[a] \in Nat
      BY <2>1, <2>2 DEF Persisted, Solvent
    <3> QED
      BY Zenon, <1>3, <2>1, <2>2, <3>1 DEF Funds
  <2>8. ASSUME NEW a \in AccountIDs, NEW k, k # NoKey, Unused(a, k),
               \A tx \in ToSet(b.creates) : ~(tx.account = a /\ tx.key = k)
        PROVE  Unused(a, k)'
    BY <1>3, <2>1, <2>4, <2>8 DEF Unused
  <2>9. ASSUME NEW r \in CreateRequests, r.id \notin started
        PROVE  Unused(r.account, r.key)'
    <3>1. r.account \in AccountIDs /\ r.key # NoKey /\ Unused(r.account, r.key)
      BY <2>9, RequestsAssumption, KeysAssumption DEF KeysUnused
    <3>2. \A tx \in ToSet(b.creates) : ~(tx.account = r.account /\ tx.key = r.key)
      BY <2>5, <2>6, <2>9, AskedBefore DEF Creations
    <3> QED
      BY <2>8, <3>1, <3>2
  <2>10. ASSUME NEW tx \in Creations'
         PROVE  Unused(tx.account, tx.key)'
    <3>1. tx \in Creations /\ AskedCreate(tx)
      BY Zenon, <1>1, <2>4, <2>6 DEF Creations
    <3>2. tx.account \in AccountIDs /\ tx.key # NoKey /\ Unused(tx.account, tx.key)
      <4>1. PICK r \in CreateRequests : tx = ToCreate(r)
        BY <3>1 DEF AskedCreate
      <4>2. tx.account = r.account /\ tx.key = r.key
        BY <4>1 DEF ToCreate
      <4> QED
        BY <3>1, <4>2, RequestsAssumption, KeysAssumption DEF KeysUnused
    <3>3. ASSUME NEW ux \in ToSet(b.creates), ux.account = tx.account, ux.key = tx.key
          PROVE  FALSE
      <4>1. ux \in Creations
        BY <2>5 DEF Creations
      <4>2. ux = tx
        BY <2>6, <3>1, <3>3, <4>1, SameAsked
      <4>3. tx \notin ToSet(createPool')
        BY <2>4, <3>3, <4>2 DEF NewIn
      <4>4. PICK c \in calls : c.step = "queue create" /\ c.tx = tx
        BY <1>1, <4>3 DEF Creations
      <4>5. tx.id \in WaitingIds
        BY <4>4 DEF WaitingIds, Waiting
      <4>6. tx.id \in CreateIds
        BY <2>5, <3>3, <4>2 DEF CreateIds, IdsIn
      <4> QED
        BY <4>5, <4>6 DEF IdsOK, IdsApart, Apart
    <3> QED
      BY <2>8, <3>2, <3>3
  <2> QED
    BY Zenon, <1>1, <2>7, <2>9, <2>10 DEF KeysUnused
<1> QED
  BY Zenon, <1>2, <1>3 DEF Commit

(* A crash may find a block in the database that nobody saw.               *)
LEMMA CrashFunds ==
    ASSUME DataOK, IdsOK, AskedOK, Funds, KeysUnused,
           Crash \/ CrashInCommit \/ \E call \in calls : CrashInSave(call)
    PROVE  Funds' /\ KeysUnused'
<1>1. Forget
  BY Zenon DEF Crash, CrashInCommit, CrashInSave
<1>2. \A d \in disk'.saved : \A a \in AccountIDs : d.balance[a] \in Nat
  <2>1. CASE disk'.saved = disk.saved
    BY <2>1 DEF Funds
  <2>2. CASE CrashInCommit
    <3>1. PICK s \in ApplyTransactions(producer.block, ledger) :
             disk' = Saved(producer.block, s)
      BY <2>2 DEF CrashInCommit
    <3>2. disk'.saved = {Persisted(s)}
      BY <3>1 DEF Saved
    <3>3. Solvent(s)
      BY Zenon, <3>1, BlockFunds
    <3> QED
      BY <3>2, <3>3 DEF Persisted, Solvent
  <2>3. CASE Crash
    BY <2>1, <2>3 DEF Crash
  <2>4. CASE \E call \in calls : CrashInSave(call)
    <3>1. disk' = WithFile(Torn) /\ DiskTyped
      BY Zenon, <2>4 DEF CrashInSave, DataOK
    <3>2. disk'.saved = disk.saved
      BY <3>1 DEF WithFile, DiskTyped
    <3> QED
      BY <2>1, <3>2
  <2> QED
    BY Zenon, <2>2, <2>3, <2>4
<1> QED
  BY Zenon, <1>1, <1>2, ForgetFunds

(* After every step all that is pending can be afforded.                   *)
LEMMA NextFunds ==
    ASSUME DataOK, IdsOK, AskedOK, KeysUnknown, Funds, KeysUnused, [Next]_vars
    PROVE  Funds' /\ KeysUnused'
<1>1. CASE Start
  BY Zenon, <1>1, StartFunds
<1>2. CASE Crash \/ CrashInCommit \/ \E call \in calls : CrashInSave(call)
  BY Zenon, <1>2, CrashFunds
<1>3. CASE \/ \E r \in PaymentRequests : BuildPayment(r)
           \/ \E r \in CreateRequests : CheckCreate(r)
           \/ \E r \in CloseRequests : CheckClose(r)
  BY Zenon, <1>3, RequestFunds
<1>4. CASE \E call \in calls : Handle(call)
  BY Zenon, <1>4, HandleFunds
<1>5. CASE Produce
  BY Zenon, <1>5, SelectFunds, CommitFunds DEF Produce
<1>6. CASE CommitFails \/ UNCHANGED vars
  <2>1. UNCHANGED <<disk, ledger, pool, createPool, calls, started>>
    BY Zenon, <1>6 DEF CommitFails, vars, memory
  <2>2. Creations' = Creations
    BY Zenon, <2>1 DEF Creations
  <2> QED
    BY Zenon, <2>1, <2>2, FundsKept, UnusedKept
<1> QED
  BY Zenon, <1>1, <1>2, <1>3, <1>4, <1>5, <1>6 DEF Next

FundsOK ==
    DataOK /\ IdsOK /\ AskedOK /\ KeysUnknown /\ Funds /\ KeysUnused

(* All this holds always.                                                  *)
LEMMA SpecFundsOK == Spec => []FundsOK
<1>1. Init => FundsOK
  BY InitDataOK, InitIdsOK, InitAskedOK, InitUnknown, InitFunds DEF FundsOK
<1>2. FundsOK /\ [Next]_vars => FundsOK'
  BY Zenon, NextDataOK, NextIdsOK, NextAskedOK, NextUnknown, NextFunds DEF FundsOK
<1> QED
  BY <1>1, <1>2, PTL DEF Spec

(* What is pending can be paid for: of every payer the payments that are   *)
(* signed with its present key take no more than it has, through           *)
(* admissions, drops, commits, closures and new accounts under the same    *)
(* id, so that what is left to spend is never below 0 (mempool/pool.go).   *)
THEOREM NodePendingIsAffordable == Spec => []PendingIsAffordable
<1>1. FundsOK => PendingIsAffordable
  <2> SUFFICES ASSUME FundsOK, NEW a \in AccountIDs
               PROVE  GrossOf(Only(pool.order, {p \in ToSet(pool.order) :
                                                   p.signer = ledger.key[a]}), a)
                         <= ledger.balance[a]
    BY DEF PendingIsAffordable
  <2>1. pool.order \in Seq(Asked) /\ Reservable(Asked)
    BY OrderAsked, AskedSpendable DEF FundsOK, Spendable
  <2>2. Owned(a, ledger.key[a], Asked, pool.order) <= ledger.balance[a]
    BY DEF FundsOK, Funds, Affordable
  <2> DEFINE k == ledger.key[a]
  <2> HIDE DEF k
  <2>3. GrossOf(Only(pool.order, {p \in ToSet(pool.order) : p.signer = k}), a)
           = Owned(a, k, Asked, pool.order)
    BY <2>1, OwnedIsGross
  <2> QED
    BY <2>2, <2>3 DEF k
<1> QED
  BY <1>1, SpecFundsOK, PTL

(* What the producer drops was signed for an account that is closed.       *)
LEMMA DroppedIsClosed ==
    ASSUME FundsOK, SelectPayments, NEW p \in ToSet(pool.order), NewIn(pool'.order, p)
    PROVE  ledger.key[p.payer] # p.signer
<1> DEFINE room == MaxTxsPerBlock - Len(producer.block.creates)
           t    == producer.scratch
           sel  == SelectPayment(pool.order, room, t)
           C    == ToSet(producer.block.creates)
<1>0. DataOK /\ IdsOK /\ AskedOK /\ Funds /\ KeysUnused
  BY DEF FundsOK
<1>1. pool.order \in Seq(Asked) /\ Spendable(Asked) /\ Unrepeated(pool.order)
  BY <1>0, OrderAsked, AskedSpendable DEF IdsOK, PoolsUnrepeated
<1>2. pool'.order = Without(pool.order, sel.dropped)
  BY DEF SelectPayments, RemovePayments
<1>3. Selection(sel, pool.order, Asked)
  <2> HIDE DEF room, t
  <2> QED
    BY <1>1, SelectedPayments
<1>4. p \in ToSet(sel.dropped)
  <2> HIDE DEF sel
  <2>1. ToSet(pool'.order) = {x \in ToSet(pool.order) : NewIn(sel.dropped, x)}
    BY <1>1, <1>2, WithoutElements
  <2>2. p \notin ToSet(pool'.order)
    BY DEF NewIn
  <2>3. PICK q \in ToSet(sel.dropped) : q.id = p.id
    BY <2>1, <2>2 DEF NewIn
  <2>4. q \in ToSet(pool.order)
    BY <1>3 DEF Selection
  <2> QED
    BY <1>1, <2>3, <2>4, SameInPool
<1>5. /\ AfterCreates({ledger}, producer.block.creates) = {t}
      /\ producer.block.creates \in Seq(AccountCreateTransaction)
  BY <1>0 DEF SelectPayments, DataOK, ProducerOK, Block
<1>6. producer.block.creates \in Seq(C) /\ C \in SUBSET AccountCreateTransaction
  BY <1>5, OwnElements
<1>7. /\ Solvent(ledger) /\ Affordable(pool.order, ledger, Asked)
      /\ Funded(pool.order, ledger)
  BY <1>0 DEF Funds
<1>8. Unsigned(C, pool.order)
  BY <1>0 DEF Unsigned, KeysUnused, Creations, Unused, AskedOK, BlockPending
<1> HIDE DEF C
<1>9. Opened(t, ledger, C)
  BY <1>5, <1>6, <1>7, CreatesOpen
<1> HIDE DEF t
<1>10. /\ Affordable(pool.order, t, Asked) /\ Funded(pool.order, t)
       /\ ledger.key[p.payer] = p.signer => t.key[p.payer] = p.signer
  BY <1>1, <1>7, <1>8, <1>9, CreatesAfford
<1>11. Solvent(t)
  BY <1>9 DEF Opened
<1> HIDE DEF room
<1>12. ~Admissible(p, t)
  BY <1>1, <1>4, <1>10, <1>11, SelectionKeeps DEF sel
<1> QED
  BY <1>10, <1>12 DEF Admissible, Funded

(* What a commit takes from the pool is in the block.                      *)
LEMMA CommittedIsLast ==
    ASSUME FundsOK, Commit, NEW p \in ToSet(pool.order), NewIn(pool'.order, p)
    PROVE  Len(blocks') > Len(blocks) /\ p \in ToSet(Last(blocks').payments)
<1> DEFINE b == producer.block
<1>0. /\ blocks \in Seq(Block) /\ b \in Block
      /\ pool.order \in Seq(Payable) /\ Unrepeated(pool.order)
      /\ ToSet(b.payments) \subseteq ToSet(pool.order)
  BY OrderAsked DEF FundsOK, DataOK, MemoryTyped, ProducerOK, AskedOK, BlockPending, IdsOK,
                    PoolsUnrepeated
<1>1. p \notin ToSet(pool'.order)
  BY DEF NewIn
<1>2. pool' = RemovePayments(pool, b.payments) /\ blocks' = Append(blocks, b)
  BY Zenon, <1>1 DEF Commit
<1>3. pool'.order = Without(pool.order, b.payments)
  BY <1>2 DEF RemovePayments
<1> HIDE DEF b
<1>4. ToSet(pool'.order) = {x \in ToSet(pool.order) : NewIn(b.payments, x)}
  BY <1>0, <1>3, WithoutElements
<1>5. PICK q \in ToSet(b.payments) : q.id = p.id
  BY <1>1, <1>4 DEF NewIn
<1>6. q = p
  BY <1>0, <1>5, SameInPool
<1>7. /\ Len(blocks') = Len(blocks) + 1 /\ Len(blocks) \in Nat
      /\ blocks'[Len(blocks) + 1] = b
  BY <1>0, <1>2, AppendProperties, LenProperties
<1>8. Last(blocks') = b
  BY <1>7 DEF Last
<1> QED
  BY <1>5, <1>6, <1>7, <1>8

(* Admission is a promise: a pending payment leaves the pool of a running  *)
(* node in a block, or because the account that signed it was closed,      *)
(* never because the money went elsewhere (mempool/pool.go,                *)
(* chain/blockchain.go).                                                   *)
THEOREM NodeAdmittedIsKept == Spec => AdmittedIsKept
<1> DEFINE Promised == \A p \in ToSet(pool.order) :
               status' = "up" /\ NewIn(pool'.order, p) =>
                   \/ /\ Len(blocks') > Len(blocks)
                      /\ p \in ToSet(Last(blocks').payments)
                   \/ ledger.key[p.payer] # p.signer
<1>1. FundsOK /\ [Next]_vars => Promised
  <2> SUFFICES ASSUME FundsOK, [Next]_vars, NEW p \in ToSet(pool.order),
                      status' = "up", NewIn(pool'.order, p)
               PROVE  \/ /\ Len(blocks') > Len(blocks)
                         /\ p \in ToSet(Last(blocks').payments)
                      \/ ledger.key[p.payer] # p.signer
    OBVIOUS
  <2>1. p \notin ToSet(pool'.order) /\ pool' # pool
    BY DEF NewIn
  <2>2. CASE SelectPayments
    BY Zenon, <2>2, DroppedIsClosed
  <2>3. CASE Commit
    BY Zenon, <2>3, CommittedIsLast
  <2>4. CASE \E call \in calls : AdmitPayment(call)
    <3>1. PICK call \in calls : call.step = "admit" /\ pool' = AddPayment(pool, call.tx)
      BY Zenon, <2>1, <2>4 DEF AdmitPayment
    <3>2. CallsTyped /\ pool.order \in Seq(PaymentTransaction)
      <4>1. pool.order \in Seq(Payable)
        BY OrderAsked DEF FundsOK
      <4> QED
        BY <4>1, SeqMonotonic DEF FundsOK, DataOK, Payable
    <3>3. call.tx \in PaymentTransaction
      BY Zenon, <3>1, <3>2, CallSteps
    <3>4. pool'.order = Append(pool.order, call.tx)
      BY <3>1 DEF AddPayment
    <3>5. ToSet(pool'.order) = ToSet(pool.order) \cup {call.tx}
      BY <3>2, <3>3, <3>4, ElementsAppend
    <3> QED
      BY <2>1, <3>5
  <2>5. CASE Crash \/ CrashInCommit \/ \E call \in calls : CrashInSave(call)
    <3>1. status' = "down"
      BY Zenon, <2>5 DEF Crash, CrashInCommit, CrashInSave, Forget
    <3> QED
      BY <3>1
  <2>6. CASE \/ \E r \in PaymentRequests : BuildPayment(r)
             \/ \E r \in CreateRequests : CheckCreate(r)
             \/ \E r \in CloseRequests : CheckClose(r)
    BY Zenon, <2>1, <2>6 DEF BuildPayment, CheckCreate, CheckClose
  <2>7. CASE Start \/ SelectCreates \/ SelectCloses \/ CommitFails \/ UNCHANGED vars
    BY Zenon, <2>1, <2>7 DEF Start, SaveGenesisBlock, SaveGenesisState, Restart, memory,
                             SelectCreates, SelectCloses, CommitFails, vars
  <2>8. CASE \E call \in calls : Handle(call) /\ ~AdmitPayment(call)
    BY Zenon, <2>1, <2>8 DEF Handle, QueueCreate, QueueClose, SaveKey, DropKey
  <2> QED
    BY Zenon, <2>2, <2>3, <2>4, <2>5, <2>6, <2>7, <2>8 DEF Next, Produce
<1>2. Spec => [][Promised]_vars
  BY <1>1, SpecFundsOK, PTL DEF Spec
<1> QED
  BY <1>2 DEF AdmittedIsKept
=============================================================================
