------------------------------- MODULE Locks -------------------------------
(***************************************************************************)
(* The goroutines of two connected nodes and what they wait for: the locks *)
(* of the bridge, the pools, the chain, the keystore and the connections,  *)
(* and room in the socket to the peer (internal/p2p, internal/mempool,     *)
(* internal/api, cmd/server).                                              *)
(*                                                                         *)
(* A goroutine is the sequence of steps it still has to make. A section    *)
(* under a lock that takes no other lock and writes to no socket is one    *)
(* step, possible when the lock is free; so are several in a row of a      *)
(* goroutine that holds nothing. Giving back a lock never waits and is     *)
(* part of the step before. Of a block only the height matters here:       *)
(* Network shows that a block of the next height is never refused. The     *)
(* connection is made once, and ends when it breaks or a node leaves it    *)
(* (handleConn); dialling again starts over.                               *)
(***************************************************************************)
EXTENDS Naturals, Sequences

CONSTANTS
    Dialer, Listener,  \* the two ends of the connection
    Validator,         \* the one of them that makes blocks
    Requests,          \* of clients: [node, role], role is the handler
    Watched,           \* the nodes with an event stream open
    StartHeight,       \* node -> its height when the connection is made
    LastHeight,        \* bound: of the blocks made
    Capacity           \* bound: messages that a socket holds

Nodes == {Dialer, Listener}

ASSUME LocksAssumption ==
    /\ Dialer # Listener /\ Validator \in Nodes /\ Watched \subseteq Nodes
    /\ Requests \subseteq [node : Nodes, role : {"payment", "create", "close"}]
    /\ StartHeight \in [Nodes -> Nat] /\ Capacity \in Nat \ {0}
    /\ \A n \in Nodes : StartHeight[n] <= StartHeight[Validator]

Peer(n) == IF n = Dialer THEN Listener ELSE Dialer

Reader(n)   == [node |-> n, role |-> "reader"]
Producer(n) == [node |-> n, role |-> "producer"]
Stream(n)   == [node |-> n, role |-> "stream"]

Goroutines == {Reader(n) : n \in Nodes} \cup {Producer(Validator)}
              \cup {Stream(n) : n \in Watched} \cup Requests

VARIABLES
    run,       \* goroutine -> its steps to come
    holds,     \* goroutine -> the locks of its node that it holds
    height,    \* node -> the height of its chain
    socket,    \* node -> messages written to it and not yet read
    open,      \* whether the connection is
    shown      \* node -> what its event stream sent last, and for which height

vars == <<run, holds, height, socket, open, shown>>

-----------------------------------------------------------------------------
(***************************************************************************)
(* Steps, and what the code strings together from them.                    *)
(***************************************************************************)
Hold(l)       == [do |-> "hold", lock |-> l]
Release(l)    == [do |-> "release", lock |-> l]
Write(m)      == [do |-> "write", message |-> m]
Visit(locks)  == [do |-> "visit", locks |-> locks]
Close         == [do |-> "close", locks |-> {}]
Stop          == [do |-> "stop", locks |-> {}]
Produce       == [do |-> "produce", locks |-> {"pool", "createPool", "closePool", "chain"}]

(* Steps that look at the chain, what they are about in arg. *)
OnChain(what, arg) == [do |-> what, locks |-> {"chain"}, arg |-> arg]
Append1(h)         == OnChain("append", h)

Within(l, body) == <<Hold(l)>> \o body \o <<Release(l)>>

(* Faulty: validates first, and takes the pool under the lock of the chain. *)
TryAddUnderChain(pool) == Within("chain", <<Visit({pool})>>)

(* TryAdd validates against the chain under the lock of the pool. *)
TryAdd(pool) == Within(pool, <<Visit({"chain"})>>)

(* The three pools, in the order of both callers of Commit. *)
Commit(h) ==
    Within("pool", Within("createPool", Within("closePool", <<Append1(h)>>)))

(* Broadcast holds the lock of the connections while it writes. *)
Broadcast(m) == Within("conns", <<Write(m)>>)

Handshake(h)  == [type |-> "handshake", height |-> h]
GetBlocks(h)  == [type |-> "get_blocks", height |-> h]
Blocks(t, hs) == [type |-> t, heights |-> hs]
Gossip(role)  == [type |-> role]

Pool == [payment |-> "pool", create |-> "createPool", close |-> "closePool"]

PaymentHandler ==
    <<Visit({"chain", "keystore"})>> \o TryAdd("pool") \o Broadcast(Gossip("payment"))

(* Of a creation or a closure: validated first, the pool has no check, and *)
(* the keystore is written at the end.                                     *)
AccountHandler(role) ==
    <<Visit({"chain", Pool[role]})>> \o Broadcast(Gossip(role)) \o <<Visit({"keystore"})>>

Handler(role) == IF role = "payment" THEN PaymentHandler ELSE AccountHandler(role)

(* What dispatch does with a message. *)
Dispatch(n, m) ==
    CASE m.type = "handshake" ->
             (IF n = Listener THEN <<OnChain("greet", 0)>> ELSE <<>>)
                 \o <<OnChain("compare", m.height)>>
      [] m.type = "get_blocks" -> <<OnChain("serve", m.height)>>
      [] m.type \in {"new_block", "blocks"} -> <<Hold("bridge"), OnChain("apply", m)>>
      [] OTHER -> TryAdd(Pool[m.type])

(* applyBlocks, a turn of its loop: old blocks are skipped, one too far    *)
(* ahead ends it, and makes the node ask when it was announced.            *)
Apply(m, h) ==
    IF m.heights = <<>> THEN <<Release("bridge")>>
    ELSE LET b    == Head(m.heights)
             rest == <<OnChain("apply", [m EXCEPT !.heights = Tail(@)])>>
         IN  CASE b <= h    -> rest
               [] b = h + 1 -> Commit(b) \o rest
               [] OTHER     -> <<Release("bridge")>>
                               \o IF m.type = "new_block"
                                  THEN <<OnChain("ask", 0)>> ELSE <<>>

(* What follows a look at a chain of height h. *)
After(step, h) ==
    CASE step.do = "greet"   -> <<Write(Handshake(h))>>
      [] step.do = "compare" -> IF step.arg > h THEN <<OnChain("ask", 0)>> ELSE <<>>
      [] step.do = "ask"     -> <<Write(GetBlocks(h + 1))>>
      [] step.do = "serve"   ->
             <<Write(Blocks("blocks", [i \in 1..h + 1 - step.arg |-> step.arg + i - 1]))>>
      [] step.do = "apply"   -> Apply(step.arg, h)
      [] step.do = "produce" ->
             Commit(h + 1) \o Broadcast(Blocks("new_block", <<h + 1>>))
      [] OTHER               -> <<>>

(* Faulty: notes the height once everything is sent. *)
StreamRoundNotedLast ==
    <<OnChain("show", "info"), OnChain("show", "latest"), OnChain("show", "balance"),
      OnChain("show", "noted")>>

(* What the client of a stream has: the parts, and the height noted.       *)
Parts == {"noted", "info", "latest", "balance"}

(* pushIfChanged: each thing it sends is read by itself, the previous      *)
(* block by way of the latest.                                             *)
StreamRound ==
    <<OnChain("show", "noted"), OnChain("show", "info"), OnChain("show", "latest"),
      OnChain("show", "balance")>>

-----------------------------------------------------------------------------
Init ==
    /\ run = [g \in Goroutines |->
                 IF g = Reader(Dialer) THEN <<OnChain("greet", 0)>>
                 ELSE IF g \in Requests THEN Handler(g.role) ELSE <<>>]
    /\ holds = [g \in Goroutines |-> {}]
    /\ height = StartHeight
    /\ socket = [n \in Nodes |-> <<>>]
    /\ open = TRUE
    /\ shown = [n \in Nodes |-> [part \in Parts |-> 0]]

Free(n, l) == \A g \in Goroutines : g.node = n => l \notin holds[g]

HasRoom(n) == Len(socket[n]) < Capacity

(* A node leaves the connection: it unregisters, then closes it. *)
Leave == <<Visit({"conns"}), Close, Stop>>

Registered(n) == run[Reader(n)] \notin {<<Close, Stop>>, <<Stop>>}

(* A broadcast goes to the registered connections, an answer to its own. *)
Sends(g) == open /\ (g.role = "reader" \/ Registered(g.node))

(* Whether g need not wait for its next step. *)
Ready(g) ==
    /\ run[g] # <<>>
    /\ LET step == Head(run[g])
       IN  CASE step.do = "hold"  -> Free(g.node, step.lock)
             [] step.do = "write" -> Sends(g) => HasRoom(Peer(g.node))
             [] step.do = "stop"  -> FALSE
             [] OTHER             -> \A l \in step.locks : Free(g.node, l)

Goes(g, do) == Ready(g) /\ Head(run[g]).do = do

(* How many locks a goroutine gives back before its steps go on. *)
Released(steps) ==
    CHOOSE k \in 0..Len(steps) :
        /\ \A i \in 1..k : steps[i].do = "release"
        /\ k < Len(steps) => steps[k + 1].do # "release"

(* g goes on with these steps, and with what it had to do after this one. *)
Then(g, steps) ==
    LET all == steps \o Tail(run[g])
        k   == Released(all)
    IN  /\ run' = [run EXCEPT ![g] = SubSeq(all, k + 1, Len(all))]
        /\ holds' = [holds EXCEPT ![g] = @ \ {all[i].lock : i \in 1..k}]

TakeLock(g) ==
    /\ Goes(g, "hold")
    /\ run' = [run EXCEPT ![g] = Tail(@)]
    /\ holds' = [holds EXCEPT ![g] = @ \cup {Head(run[g]).lock}]
    /\ UNCHANGED <<height, socket, open, shown>>

(* The peer gets the message when the connection is open. A broadcast      *)
(* ignores that it is not, a reader leaves.                                *)
WriteMessage(g) ==
    /\ Goes(g, "write")
    /\ IF Sends(g)
       THEN socket' = [socket EXCEPT ![Peer(g.node)] = Append(@, Head(run[g]).message)]
       ELSE UNCHANGED socket
    /\ IF open \/ g.role # "reader" THEN Then(g, <<>>)
       ELSE run' = [run EXCEPT ![g] = Leave] /\ UNCHANGED holds
    /\ UNCHANGED <<height, open, shown>>

(* A step under a lock that takes no other. *)
VisitLocks(g) ==
    /\ Ready(g)
    /\ LET step == Head(run[g])
           n    == g.node
       IN  /\ step.do \notin {"hold", "write", "close"}
           /\ Then(g, After(step, height[n]))
           /\ height' = IF step.do = "append" THEN [height EXCEPT ![n] = step.arg]
                        ELSE height
           /\ shown' = IF step.do = "show" THEN [shown EXCEPT ![n][step.arg] = height[n]]
                       ELSE shown
    /\ UNCHANGED <<socket, open>>

CanDecode(n) == run[Reader(n)] = <<>> /\ (open => socket[n] # <<>>)

(* handleConn reads the next message when it is done with the last one. *)
Decode(n) ==
    /\ CanDecode(n)
    /\ IF open
       THEN /\ run' = [run EXCEPT ![Reader(n)] = Dispatch(n, Head(socket[n]))]
            /\ socket' = [socket EXCEPT ![n] = Tail(@)]
       ELSE /\ run' = [run EXCEPT ![Reader(n)] = Leave]
            /\ UNCHANGED socket
    /\ UNCHANGED <<holds, height, open, shown>>

(* What it reads does not decode, or dispatch answers with an error: of    *)
(* another chain, or blocks that cannot be read. It leaves.                *)
Fail(n) ==
    /\ CanDecode(n) /\ open
    /\ run' = [run EXCEPT ![Reader(n)] = Leave]
    /\ socket' = [socket EXCEPT ![n] = Tail(@)]
    /\ UNCHANGED <<holds, height, open, shown>>

(* A tick of runBlockProducer. It looks at the pools and at the chain to   *)
(* see whether a block is due, holding nothing.                            *)
Tick ==
    /\ run[Producer(Validator)] = <<>>
    /\ height[Validator] < LastHeight
    /\ run' = [run EXCEPT ![Producer(Validator)] = <<Produce>>]
    /\ UNCHANGED <<holds, height, socket, open, shown>>

(* A tick of an event stream: nothing to do unless the height is another.  *)
Poll(n) ==
    /\ run[Stream(n)] = <<>> /\ Free(n, "chain")
    /\ height[n] # shown[n]["noted"]
    /\ shown' = [shown EXCEPT ![n][Head(StreamRound).arg] = height[n]]
    /\ run' = [run EXCEPT ![Stream(n)] = Tail(StreamRound)]
    /\ UNCHANGED <<holds, height, socket, open>>

(* The connection breaks; what is in transit is lost. *)
Break ==
    /\ open' = FALSE
    /\ socket' = [n \in Nodes |-> <<>>]

Hangup ==
    /\ open /\ Break
    /\ UNCHANGED <<run, holds, height, shown>>

(* The end of handleConn, on a connection that may be broken already. *)
CloseConn(n) ==
    /\ Goes(Reader(n), "close") /\ Break
    /\ run' = [run EXCEPT ![Reader(n)] = Tail(@)]
    /\ UNCHANGED <<holds, height, shown>>

Next ==
    \/ \E g \in Goroutines :
          TakeLock(g) \/ WriteMessage(g) \/ VisitLocks(g)
    \/ \E n \in Nodes : Decode(n) \/ Fail(n) \/ CloseConn(n)
    \/ Tick
    \/ \E n \in Watched : Poll(n)
    \/ Hangup

Spec == Init /\ [][Next]_vars

-----------------------------------------------------------------------------
AtWork(g) == run[g] \notin {<<>>, <<Stop>>}

(* Goroutines are at work and each of them waits. *)
Stuck ==
    /\ \E g \in Goroutines : AtWork(g)
    /\ \A g \in Goroutines : ~Ready(g)
    /\ \A n \in Nodes : ~CanDecode(n)

Writing(g) == run[g] # <<>> /\ Head(run[g]).do = "write"

(* Each node waits for the other to read, and none does: the reader writes *)
(* to its peer, or is to leave and waits for a broadcast that does.        *)
Jammed ==
    /\ open
    /\ \A n \in Nodes :
          /\ ~HasRoom(n)
          /\ Writing(Reader(n)) \/ run[Reader(n)] = Leave

(* Handlers, commits, gossip and broadcasts never wait for each other in a *)
(* circle (bridge.go, applyBlocks; mempool, Commit and TryAdd). All that   *)
(* are at work wait only when both nodes write and neither reads, a reader *)
(* among them that leaves an open connection and cannot unregister it      *)
(* (node.go, Broadcast, dispatch and handleConn): and even then nobody has *)
(* a lock but the one of the connections, so that clients can read and     *)
(* blocks be made until they are broadcast. When the connection breaks all *)
(* go on.                                                                  *)
StuckOnlyWhenJammed ==
    Stuck => Jammed /\ \A g \in Goroutines : holds[g] \subseteq {"conns"}

(* An event stream reads the chain again for each thing it sends, and      *)
(* blocks may come in between: but when it waits for another height, all   *)
(* that the client has is of the height the chain has (api/chain.go).      *)
StreamIsCurrent ==
    \A n \in Watched :
        run[Stream(n)] = <<>> /\ shown[n]["noted"] = height[n]
            => \A part \in Parts : shown[n][part] = height[n]
=============================================================================
