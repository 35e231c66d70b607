--------------------------- MODULE Network_proofs ---------------------------
(***************************************************************************)
(* Agreement of the chains, for any number of nodes, connections,          *)
(* validators, transactions and faults.                                    *)
(*                                                                         *)
(* The argument: a block of height h is Known when the validator whose     *)
(* turn h is has it at h on its own chain. Chains only grow, so what is    *)
(* known stays known. A node appends either a known block, and then it is  *)
(* not its turn, for its own chain ends before h; or a block of its own    *)
(* turn, which thereby becomes known. So all chains agree with the chains  *)
(* of the validators, height by height.                                    *)
(***************************************************************************)
EXTENDS Network, Rules_proofs

IsSeq(s) == s \in Seq(ToSet(s))

TxsOf(type) == {t.tx : t \in {u \in Transactions : u.type = type}}

(* In the chains ch, b is where the validator of its height put it. *)
Known(ch, b) ==
    /\ b \in Block
    /\ b.height \in Nat \ {0}
    /\ b.height <= Len(ch[ValidatorForHeight(b.height)])
    /\ ch[ValidatorForHeight(b.height)][b.height] = b

AllKnown(ch, s) == IsSeq(s) /\ \A i \in 1..Len(s) : Known(ch, s[i])

GoodMessage(ch, m) ==
    /\ m.type = "get_blocks" => m.height \in Nat \ {0}
    /\ m.type \in {"new_block", "blocks"} => AllKnown(ch, m.blocks)
    /\ m.type \in {"payment", "create", "close"} => m.tx \in TxsOf(m.type)

AllGood(ch, s) == IsSeq(s) /\ \A i \in 1..Len(s) : GoodMessage(ch, s[i])

ChainsOK(ch) ==
    /\ DOMAIN ch = Nodes
    /\ \A n \in Nodes :
          AllKnown(ch, ch[n]) /\ \A i \in 1..Len(ch[n]) : ch[n][i].height = i

NetOK == DOMAIN net = Channels /\ \A c \in Channels : AllGood(chain, net[c])

OutboxOK ==
    DOMAIN outbox = Nodes /\ \A n \in Nodes : \A m \in outbox[n] : GoodMessage(chain, m)

ApplyingOK ==
    /\ DOMAIN applying = Nodes
    /\ \A n \in Nodes : \A rest \in applying[n] :
          /\ rest.from \in Channels /\ rest.from.to = n
          /\ AllKnown(chain, rest.blocks)

(* A producer works on the next height, and it is its turn. *)
TurnsOK ==
    /\ DOMAIN producer = Nodes
    /\ \A n \in Nodes :
          /\ "height" \in DOMAIN producer[n]
          /\ producer[n].step # "idle" =>
                /\ producer[n].height = Height(n) + 1
                /\ ValidatorForHeight(Height(n) + 1) = n

IInv == ChainsOK(chain) /\ NetOK /\ OutboxOK /\ ApplyingOK /\ TurnsOK

(* The payments that were ever valid: what they take is a number.          *)
Payable == {tx \in TxsOf("payment") : GrossAmount(tx.items) \in Nat}

PoolsTyped(p) ==
    /\ p = [payments |-> p.payments, creates |-> p.creates, closes |-> p.closes]
    /\ ExactPool(p.payments, Payable)
    /\ p.creates \in Seq(TxsOf("create"))
    /\ p.closes \in Seq(TxsOf("close"))

(* A block that is about to be committed runs in the state s of the ledger *)
(* to the state that was computed for it.                                  *)
ProducerOK(p, s) ==
    /\ p.step \in {"idle", "select", "commit"}
    /\ p.step = "commit" =>
          /\ p.body.creates \in Seq(TxsOf("create"))
          /\ p.body.payments \in Seq(TxsOf("payment"))
          /\ p.body.closes \in Seq(TxsOf("close"))
          /\ ApplyTransactions(p.body, s) = {p.scratch}

(* What the nodes hold besides blocks and messages.                        *)
DataOK ==
    /\ up \subseteq Nodes /\ conns \subseteq Dials
    /\ submitted \subseteq Transactions /\ minted \in Nat
    /\ DOMAIN pools = Nodes /\ DOMAIN ledger = Nodes
    /\ \A n \in Nodes :
          /\ PoolsTyped(pools[n])
          /\ n \notin up => producer[n].step = "idle"
          /\ ProducerOK(producer[n], ledger[n])
          /\ applying[n] = {} \/ \E rest \in applying[n] : applying[n] = {rest}

-----------------------------------------------------------------------------
(***************************************************************************)
(* Sequences of known blocks, and of good messages.                        *)
(***************************************************************************)
(* A sequence over any set is one over its own elements.                   *)
LEMMA SeqIsSeq ==
    ASSUME NEW S, NEW s \in Seq(S)
    PROVE  IsSeq(s)
<1>1. Len(s) \in Nat /\ s \in [1..Len(s) -> S] /\ DOMAIN s = 1..Len(s)
  BY LenProperties
<1>2. s \in [1..Len(s) -> ToSet(s)]
  BY <1>1 DEF ToSet
<1> QED
  BY <1>1, <1>2, SeqDef DEF IsSeq

(* Its length is a number, whatever the elements. *)
LEMMA IsSeqLen ==
    ASSUME NEW s, IsSeq(s)
    PROVE  Len(s) \in Nat /\ DOMAIN s = 1..Len(s)
BY LenProperties DEF IsSeq

(* One element more. *)
LEMMA IsSeqAppend ==
    ASSUME NEW s, NEW e, IsSeq(s)
    PROVE  /\ IsSeq(Append(s, e))
           /\ Len(Append(s, e)) = Len(s) + 1
           /\ \A i \in 1..Len(s) : Append(s, e)[i] = s[i]
           /\ Append(s, e)[Len(s) + 1] = e
<1> DEFINE S == ToSet(s) \cup {e}
<1>1. s \in Seq(S) /\ e \in S
  BY SeqMonotonic DEF IsSeq
<1> HIDE DEF S
<1>2. /\ Append(s, e) \in Seq(S)
      /\ Len(Append(s, e)) = Len(s) + 1
      /\ \A i \in 1..Len(s) : Append(s, e)[i] = s[i]
      /\ Append(s, e)[Len(s) + 1] = e
  BY <1>1, AppendProperties
<1>3. IsSeq(Append(s, e))
  BY <1>2, SeqIsSeq
<1> QED
  BY <1>2, <1>3

(* One element less. *)
LEMMA IsSeqTail ==
    ASSUME NEW s, IsSeq(s), s # <<>>
    PROVE  /\ IsSeq(Tail(s))
           /\ Len(s) \in Nat \ {0}
           /\ Len(Tail(s)) = Len(s) - 1
           /\ \A i \in 1..Len(Tail(s)) : Tail(s)[i] = s[i + 1]
<1>1. s \in Seq(ToSet(s))
  BY DEF IsSeq
<1>2. Tail(s) \in Seq(ToSet(s))
  BY <1>1, HeadTailProperties
<1> QED
  BY <1>1, <1>2, HeadTailProperties, SeqIsSeq, EmptySeq

(* Two sequences, whatever the elements of each. *)
LEMMA IsSeqConcat ==
    ASSUME NEW s, NEW t, IsSeq(s), IsSeq(t)
    PROVE  /\ IsSeq(s \o t)
           /\ Len(s \o t) = Len(s) + Len(t)
           /\ \A i \in 1..Len(s) + Len(t) :
                 (s \o t)[i] = IF i <= Len(s) THEN s[i] ELSE t[i - Len(s)]
<1> DEFINE S == ToSet(s) \cup ToSet(t)
<1>1. s \in Seq(S) /\ t \in Seq(S)
  BY SeqMonotonic DEF IsSeq
<1> HIDE DEF S
<1>2. s \o t \in Seq(S)
  BY <1>1, ConcatProperties
<1> QED
  BY <1>1, <1>2, ConcatProperties, SeqIsSeq

(* The rest of a sequence from position k on. *)
LEMMA IsSeqSubSeq ==
    ASSUME NEW s, IsSeq(s), NEW k \in Nat \ {0}
    PROVE  /\ IsSeq(SubSeq(s, k, Len(s)))
           /\ \A i \in 1..Len(SubSeq(s, k, Len(s))) :
                 k + i - 1 \in 1..Len(s) /\ SubSeq(s, k, Len(s))[i] = s[k + i - 1]
<1>1. Len(s) \in Nat /\ s \in Seq(ToSet(s))
  BY IsSeqLen DEF IsSeq
<1>2. \A i \in k..Len(s) : s[i] \in ToSet(s)
  BY <1>1, ElementOfSeq
<1>3. /\ SubSeq(s, k, Len(s)) \in Seq(ToSet(s))
      /\ Len(SubSeq(s, k, Len(s))) = IF k <= Len(s) THEN Len(s) - k + 1 ELSE 0
      /\ \A i \in 1..Len(s) - k + 1 : SubSeq(s, k, Len(s))[i] = s[k + i - 1]
  BY <1>1, <1>2, SubSeqProperties
<1>4. IsSeq(SubSeq(s, k, Len(s)))
  BY <1>3, SeqIsSeq
<1> QED
  BY <1>1, <1>3, <1>4

(* An empty sequence and one of one element. *)
LEMMA IsSeqShort ==
    ASSUME NEW e
    PROVE  /\ IsSeq(<<>>) /\ Len(<<>>) = 0
           /\ IsSeq(<<e>>) /\ Len(<<e>>) = 1 /\ <<e>>[1] = e
<1>1. <<>> \in Seq({e}) /\ <<e>> \in Seq({e})
  OBVIOUS
<1> QED
  BY <1>1, SeqIsSeq

(* What is made of known blocks: a tail, and the rest of a chain. *)
LEMMA KnownTail ==
    ASSUME NEW ch, NEW s, AllKnown(ch, s), s # <<>>
    PROVE  AllKnown(ch, Tail(s)) /\ Known(ch, Head(s))
<1>1. IsSeq(s) /\ \A i \in 1..Len(s) : Known(ch, s[i])
  BY DEF AllKnown
<1>2. Head(s) = s[1]
  OBVIOUS
<1> QED
  BY <1>1, <1>2, IsSeqTail DEF AllKnown

(* So is what get_blocks is answered with (p2p/node.go). *)
LEMMA KnownSubSeq ==
    ASSUME NEW ch, NEW s, AllKnown(ch, s), NEW k \in Nat \ {0}
    PROVE  AllKnown(ch, SubSeq(s, k, Len(s)))
BY IsSeqSubSeq DEF AllKnown

(* What is made of good messages: a queue with its first message taken,    *)
(* with one more and with replies, and the replies themselves.             *)
LEMMA GoodTail ==
    ASSUME NEW ch, NEW s, AllGood(ch, s), s # <<>>
    PROVE  AllGood(ch, Tail(s)) /\ GoodMessage(ch, Head(s))
<1>1. IsSeq(s) /\ \A i \in 1..Len(s) : GoodMessage(ch, s[i])
  BY DEF AllGood
<1>2. Head(s) = s[1]
  OBVIOUS
<1> QED
  BY <1>1, <1>2, IsSeqTail DEF AllGood

(* Replies put behind what is in transit. *)
LEMMA GoodConcat ==
    ASSUME NEW ch, NEW s, NEW t, AllGood(ch, s), AllGood(ch, t)
    PROVE  AllGood(ch, s \o t)
<1>1. /\ IsSeq(s) /\ \A i \in 1..Len(s) : GoodMessage(ch, s[i])
      /\ IsSeq(t) /\ \A i \in 1..Len(t) : GoodMessage(ch, t[i])
  BY DEF AllGood
<1>2. Len(s) \in Nat /\ Len(t) \in Nat
  BY <1>1, IsSeqLen
<1> QED
  BY <1>1, <1>2, IsSeqConcat DEF AllGood

(* A broadcast put behind what is in transit. *)
LEMMA GoodAppend ==
    ASSUME NEW ch, NEW s, NEW m, AllGood(ch, s), GoodMessage(ch, m)
    PROVE  AllGood(ch, Append(s, m))
<1>1. IsSeq(s) /\ \A i \in 1..Len(s) : GoodMessage(ch, s[i])
  BY DEF AllGood
<1>2. Len(s) \in Nat
  BY <1>1, IsSeqLen
<1> QED
  BY <1>1, <1>2, IsSeqAppend DEF AllGood

(* No message, and one. *)
LEMMA GoodShort ==
    ASSUME NEW ch, NEW m
    PROVE  AllGood(ch, <<>>) /\ (GoodMessage(ch, m) => AllGood(ch, <<m>>))
<1>1. /\ IsSeq(<<>>) /\ Len(<<>>) = 0
      /\ IsSeq(<<m>>) /\ Len(<<m>>) = 1 /\ <<m>>[1] = m
  BY IsSeqShort
<1> QED
  BY <1>1 DEF AllGood

-----------------------------------------------------------------------------
(***************************************************************************)
(* Chains that grow.                                                       *)
(***************************************************************************)
(* Every height has its validator (poa/producer.go). *)
LEMMA ValidatorIsANode ==
    ASSUME NEW h \in Nat
    PROVE  ValidatorForHeight(h) \in Nodes
<1>1. Len(Validators) \in Nat \ {0} /\ Validators \in Seq(Nodes)
  BY TopologyAssumption, EmptySeq
<1>2. (h % Len(Validators)) + 1 \in 1..Len(Validators)
  BY <1>1
<1> QED
  BY <1>1, <1>2, ElementOfSeq DEF ValidatorForHeight

(* Every chain of ch is the start of the same node's chain in new. *)
Grown(ch, new) ==
    \A n \in Nodes :
        /\ Len(new[n]) \in Nat /\ Len(ch[n]) <= Len(new[n])
        /\ \A i \in 1..Len(ch[n]) : new[n][i] = ch[n][i]

(* What is known stays known, and good messages stay good. *)
LEMMA KnownStays ==
    ASSUME NEW ch, NEW new, ChainsOK(ch), Grown(ch, new)
    PROVE  /\ \A b : Known(ch, b) => Known(new, b)
           /\ \A s : AllKnown(ch, s) => AllKnown(new, s)
           /\ \A m : GoodMessage(ch, m) => GoodMessage(new, m)
           /\ \A s : AllGood(ch, s) => AllGood(new, s)
<1>1. ASSUME NEW b, Known(ch, b) PROVE Known(new, b)
  <2> DEFINE v == ValidatorForHeight(b.height)
  <2>1. /\ b \in Block
        /\ b.height \in Nat \ {0} /\ b.height <= Len(ch[v])
        /\ ch[v][b.height] = b
    BY <1>1 DEF Known
  <2>2. v \in Nodes
    BY <2>1, ValidatorIsANode
  <2>3. Len(ch[v]) \in Nat
    BY <2>2, IsSeqLen DEF ChainsOK, AllKnown
  <2>4. b.height \in 1..Len(ch[v])
    BY <2>1, <2>3
  <2>5. Len(new[v]) \in Nat /\ Len(ch[v]) <= Len(new[v]) /\ new[v][b.height] = b
    BY <2>1, <2>2, <2>4 DEF Grown
  <2> QED
    BY <2>1, <2>3, <2>5 DEF Known
<1>2. ASSUME NEW s, AllKnown(ch, s) PROVE AllKnown(new, s)
  BY <1>1, <1>2 DEF AllKnown
<1>3. ASSUME NEW m, GoodMessage(ch, m) PROVE GoodMessage(new, m)
  BY <1>2, <1>3 DEF GoodMessage
<1> QED
  BY <1>1, <1>2, <1>3 DEF AllGood

(* A node appends a block of its next height. Either the block is known,   *)
(* and then the turn is not its own, or the turn is its own, and the block *)
(* is known from then on.                                                  *)
LEMMA AppendKeepsChains ==
    ASSUME NEW ch, NEW new, NEW n \in Nodes, NEW b,
           ChainsOK(ch),
           b.height = Len(ch[n]) + 1, b \in Block,
           Known(ch, b) \/ ValidatorForHeight(b.height) = n,
           new = [ch EXCEPT ![n] = Append(@, b)]
    PROVE  ChainsOK(new) /\ Grown(ch, new) /\ Known(new, b)
<1>1. /\ DOMAIN new = Nodes /\ new[n] = Append(ch[n], b)
      /\ \A m \in Nodes \ {n} : new[m] = ch[m]
  BY DEF ChainsOK
<1>2. /\ \A m \in Nodes : IsSeq(ch[m]) /\ Len(ch[m]) \in Nat
      /\ DOMAIN ch = Nodes
  BY IsSeqLen DEF ChainsOK, AllKnown
<1>3. /\ IsSeq(new[n])
      /\ Len(new[n]) = Len(ch[n]) + 1
      /\ \A i \in 1..Len(ch[n]) : new[n][i] = ch[n][i]
      /\ new[n][b.height] = b
  BY <1>1, <1>2, IsSeqAppend
<1>4. Grown(ch, new)
  BY <1>1, <1>2, <1>3 DEF Grown
<1>5. Known(new, b)
  <2>1. CASE Known(ch, b)
    BY <2>1, <1>4, KnownStays
  <2>2. CASE ValidatorForHeight(b.height) = n
    BY <2>2, <1>2, <1>3 DEF Known
  <2> QED
    BY <2>1, <2>2
<1>6. ASSUME NEW m \in Nodes
      PROVE  AllKnown(new, new[m]) /\ \A i \in 1..Len(new[m]) : new[m][i].height = i
  <2>1. AllKnown(new, ch[m]) /\ \A i \in 1..Len(ch[m]) : ch[m][i].height = i
    BY <1>4, KnownStays DEF ChainsOK
  <2>2. CASE m = n
    <3>1. ASSUME NEW i \in 1..Len(new[n])
          PROVE  Known(new, new[n][i]) /\ new[n][i].height = i
      <4>1. CASE i \in 1..Len(ch[n])
        BY <4>1, <1>3, <2>1, <2>2 DEF AllKnown
      <4>2. CASE i = b.height
        BY <4>2, <1>3, <1>5
      <4> QED
        BY <4>1, <4>2, <1>2, <1>3
    <3> QED
      BY <3>1, <2>2, <1>3 DEF AllKnown
  <2>3. CASE m # n
    BY <2>1, <2>3, <1>1
  <2> QED
    BY <2>2, <2>3
<1> QED
  BY <1>1, <1>4, <1>5, <1>6 DEF ChainsOK

-----------------------------------------------------------------------------
(***************************************************************************)
(* The invariant: initially, and over every action.                        *)
(***************************************************************************)
(* It holds in the beginning, when there are no blocks. *)
THEOREM InitIInv == Init => IInv
<1> SUFFICES ASSUME Init PROVE IInv
  OBVIOUS
<1>1. /\ Len(<<>>) = 0
      /\ \A ch : AllKnown(ch, <<>>) /\ AllGood(ch, <<>>)
  <2>1. IsSeq(<<>>) /\ Len(<<>>) = 0
    BY IsSeqShort
  <2> QED
    BY <2>1 DEF AllKnown, AllGood
<1>2. ChainsOK(chain) /\ NetOK
  BY <1>1 DEF Init, ChainsOK, NetOK
<1>3. OutboxOK /\ ApplyingOK
  BY DEF Init, OutboxOK, ApplyingOK
<1>4. TurnsOK
  BY DEF Init, TurnsOK, Idle
<1> QED
  BY <1>2, <1>3, <1>4 DEF IInv

(* A message taken from a channel, and good ones sent back: the channels   *)
(* hold good messages, if those good before are good still.                *)
LEMMA AnswerKeepsNet ==
    ASSUME NetOK, NEW c \in Channels, net[c] # <<>>,
           NEW replies, AllGood(chain, replies),
           Answer(c, replies),
           \A s : AllGood(chain, s) => AllGood(chain', s)
    PROVE  NetOK'
<1>1. Back(c) # c
  <2>1. c.to \in {c.dial[1], c.dial[2]} /\ c.dial[1] # c.dial[2]
    BY TopologyAssumption DEF Channels
  <2>2. Back(c).to = Other(c)
    BY DEF Back, Channels
  <2> QED
    BY <2>1, <2>2 DEF Other
<1>2. DOMAIN net' = Channels
  BY DEF Answer, NetOK
<1>3. ASSUME NEW d \in Channels PROVE AllGood(chain, net'[d])
  <2>1. CASE d = c
    BY <2>1, <1>1, GoodTail DEF Answer, NetOK
  <2>2. CASE d = Back(c)
    BY <2>2, <1>1, GoodConcat DEF Answer, NetOK
  <2>3. CASE d # c /\ d # Back(c)
    BY <2>3 DEF Answer, NetOK
  <2> QED
    BY <2>1, <2>2, <2>3
<1> QED
  BY <1>2, <1>3 DEF NetOK

(* A turn of applyBlocks over known blocks. A block it appends is not of a *)
(* turn of the node itself, so a producer at work sees no other height.    *)
LEMMA ApplyBlockKeeps ==
    ASSUME IInv, NEW c \in Channels, NEW blocks, AllKnown(chain, blocks),
           ApplyBlock(c, blocks), UNCHANGED <<outbox, producer>>
    PROVE  /\ ChainsOK(chain') /\ Grown(chain, chain')
           /\ OutboxOK' /\ ApplyingOK' /\ TurnsOK'
<1> DEFINE n == c.to
           b == Head(blocks)
<1>1. n \in Nodes
  BY DEF Channels
<1>2. ASSUME blocks # <<>>
      PROVE  AllKnown(chain, Tail(blocks)) /\ Known(chain, b)
  BY <1>2, KnownTail
<1>3. \/ UNCHANGED chain
      \/ /\ blocks # <<>> /\ b.height = Len(chain[n]) + 1
         /\ chain' = [chain EXCEPT ![n] = Append(@, b)]
  BY DEF ApplyBlock, ValidateBlock, AppendBlock, Height
<1>4. ChainsOK(chain') /\ Grown(chain, chain')
  <2>1. CASE UNCHANGED chain
    BY <2>1, IsSeqLen DEF IInv, ChainsOK, AllKnown, Grown
  <2>2. CASE ~UNCHANGED chain
    <3>1. b \in Block
      BY <2>2, <1>2, <1>3 DEF Known
    <3> QED
      BY <2>2, <3>1, <1>1, <1>2, <1>3, AppendKeepsChains DEF IInv
  <2> QED
    BY <2>1, <2>2
<1>5. /\ \A s : AllKnown(chain, s) => AllKnown(chain', s)
      /\ \A m : GoodMessage(chain, m) => GoodMessage(chain', m)
  BY <1>4, KnownStays DEF IInv
<1>6. OutboxOK'
  BY <1>5 DEF IInv, OutboxOK
<1>7. ApplyingOK'
  <2>1. PICK rests : /\ applying' = [applying EXCEPT ![n] = rests]
                     /\ rests \subseteq {[from |-> c, blocks |-> Tail(blocks)]}
                     /\ rests # {} => blocks # <<>>
    <3>1. CASE blocks = <<>>
      BY <3>1 DEF ApplyBlock
    <3>2. CASE blocks # <<>>
      BY <3>2 DEF ApplyBlock, Rest
    <3> QED
      BY <3>1, <3>2
  <2>2. \A rest \in rests : rest.from = c /\ AllKnown(chain', rest.blocks)
    <3> SUFFICES ASSUME NEW rest \in rests
                 PROVE  rest.from = c /\ AllKnown(chain', rest.blocks)
      OBVIOUS
    <3>1. rest = [from |-> c, blocks |-> Tail(blocks)] /\ blocks # <<>>
      BY <2>1
    <3> QED
      BY <3>1, <1>2, <1>5
  <2>3. DOMAIN applying' = Nodes
    BY <2>1 DEF IInv, ApplyingOK
  <2>4. ASSUME NEW m \in Nodes, NEW rest \in applying'[m]
        PROVE  /\ rest.from \in Channels /\ rest.from.to = m
               /\ AllKnown(chain', rest.blocks)
    <3>1. CASE m = n
      BY <3>1, <2>1, <2>2 DEF IInv, ApplyingOK
    <3>2. CASE m # n
      BY <3>2, <2>1, <1>5 DEF IInv, ApplyingOK
    <3> QED
      BY <3>1, <3>2
  <2> QED
    BY <2>3, <2>4 DEF ApplyingOK
<1>8. TurnsOK'
  <2>1. CASE UNCHANGED chain
    BY <2>1 DEF IInv, TurnsOK, Height
  <2>2. CASE ~UNCHANGED chain
    <3>1. /\ b.height = Len(chain[n]) + 1
          /\ b.height <= Len(chain[ValidatorForHeight(b.height)])
      BY <2>2, <1>2, <1>3 DEF Known
    <3>2. Len(chain[n]) \in Nat
      BY <1>1, IsSeqLen DEF IInv, ChainsOK, AllKnown
    <3>3. ValidatorForHeight(Len(chain[n]) + 1) # n
      BY <3>1, <3>2
    <3>4. producer[n].step = "idle"
      BY <3>3, <1>1 DEF IInv, TurnsOK, Height
    <3>5. \A m \in Nodes \ {n} : chain'[m] = chain[m]
      BY <2>2, <1>3 DEF IInv, ChainsOK
    <3> QED
      BY <3>4, <3>5 DEF IInv, TurnsOK, Height
  <2> QED
    BY <2>1, <2>2
<1> QED
  BY <1>4, <1>6, <1>7, <1>8

(* Which message a node can get to send.                                   *)
LEMMA GoodReplies ==
    ASSUME NEW ch, NEW h \in Nat
    PROVE  /\ AllGood(ch, <<>>)
           /\ AllGood(ch, <<Handshake(h)>>)
           /\ AllGood(ch, <<GetBlocks(h + 1)>>)
<1>1. GoodMessage(ch, Handshake(h)) /\ GoodMessage(ch, GetBlocks(h + 1))
  BY DEF GoodMessage, Handshake, GetBlocks
<1> QED
  BY <1>1, GoodShort

(* A transaction on its way carries no blocks. *)
LEMMA SubmitKeeps ==
    ASSUME IInv, NEW t \in Transactions, Submit(t)
    PROVE  IInv'
<1> DEFINE n == t.node
           m == [type |-> t.type, tx |-> t.tx]
<1>1. /\ outbox' = [outbox EXCEPT ![n] = @ \cup {m}]
      /\ UNCHANGED <<chain, producer, net, applying>>
  BY DEF Submit
<1>2. GoodMessage(chain, m)
  BY TopologyAssumption DEF GoodMessage, TxsOf
<1>3. OutboxOK'
  BY <1>1, <1>2 DEF IInv, OutboxOK
<1> QED
  BY <1>1, <1>3 DEF IInv, NetOK, ApplyingOK, TurnsOK, Height

(* What is broadcast was good in the outbox. *)
LEMMA SendOutboxKeeps ==
    ASSUME IInv, NEW n \in Nodes, NEW m \in outbox[n], SendOutbox(n, m)
    PROVE  IInv'
<1>1. /\ outbox' = [outbox EXCEPT ![n] = @ \ {m}]
      /\ Broadcast(n, m)
      /\ UNCHANGED <<chain, producer, applying>>
  BY DEF SendOutbox
<1>2. GoodMessage(chain, m)
  BY DEF IInv, OutboxOK
<1>3. OutboxOK'
  BY <1>1 DEF IInv, OutboxOK
<1>4. NetOK'
  BY <1>1, <1>2, GoodAppend DEF IInv, NetOK, Broadcast
<1> QED
  BY <1>1, <1>3, <1>4 DEF IInv, ApplyingOK, TurnsOK, Height

(* A new connection starts with a handshake. *)
LEMMA ConnectKeeps ==
    ASSUME IInv, NEW dial \in Dials, Connect(dial)
    PROVE  IInv'
<1> DEFINE c == [dial |-> dial, to |-> dial[2]]
<1>1. /\ net' = [net EXCEPT ![c] = <<Handshake(Height(dial[1]))>>]
      /\ UNCHANGED <<chain, outbox, producer, applying>>
  BY DEF Connect
<1>2. Height(dial[1]) \in Nat
  BY TopologyAssumption, IsSeqLen DEF IInv, ChainsOK, AllKnown, Height
<1>3. NetOK'
  BY <1>1, <1>2, GoodReplies DEF IInv, NetOK
<1> QED
  BY <1>1, <1>3 DEF IInv, OutboxOK, ApplyingOK, TurnsOK, Height

(* Losing messages, or the memory of a node, loses nothing that matters.   *)
LEMMA CutKeeps ==
    ASSUME IInv, UNCHANGED chain, NEW dials, Cut(dials)
    PROVE  NetOK'
BY GoodShort DEF IInv, NetOK, Cut

(* A crash empties the outbox and stops the producer. *)
LEMMA CrashKeeps ==
    ASSUME IInv, NEW n \in Nodes, Crash(n)
    PROVE  IInv'
<1>1. /\ UNCHANGED chain
      /\ outbox' = [outbox EXCEPT ![n] = {}]
      /\ producer' = [producer EXCEPT ![n] = Idle]
      /\ applying' = [applying EXCEPT ![n] = {}]
  BY DEF Crash
<1>2. NetOK'
  BY <1>1, CutKeeps DEF Crash
<1>3. OutboxOK' /\ ApplyingOK'
  BY <1>1 DEF IInv, OutboxOK, ApplyingOK
<1>4. TurnsOK'
  BY <1>1 DEF IInv, TurnsOK, Height, Idle
<1> QED
  BY <1>1, <1>2, <1>3, <1>4 DEF IInv

(* The five kinds of messages. *)
LEMMA ReceiveKeeps ==
    ASSUME IInv, NEW c \in Channels, Receive(c)
    PROVE  IInv'
<1> DEFINE m == Head(net[c])
<1>1. net[c] # <<>> /\ GoodMessage(chain, m) /\ NetOK
  BY GoodTail DEF Receive, IInv, NetOK
<1>2. c.to \in Nodes /\ Height(c.to) \in Nat
  BY IsSeqLen DEF Channels, IInv, ChainsOK, AllKnown, Height
<1> HIDE DEF m
<1>3. /\ AllGood(chain, <<>>)
      /\ AllGood(chain, <<Handshake(Height(c.to))>>)
      /\ AllGood(chain, <<GetBlocks(Height(c.to) + 1)>>)
  BY <1>2, GoodReplies
<1>4. ASSUME NEW replies, AllGood(chain, replies), Answer(c, replies),
             UNCHANGED <<chain, outbox, producer, applying>>
      PROVE  IInv'
  <2>1. NetOK'
    BY <1>1, <1>4, AnswerKeepsNet
  <2> QED
    BY <2>1, <1>4 DEF IInv, OutboxOK, ApplyingOK, TurnsOK, Height
<1>5. CASE ReceiveTransaction(c, m)
  BY <1>3, <1>4, <1>5 DEF ReceiveTransaction
<1>6. CASE ReceiveHandshake(c, m)
  <2> DEFINE greeting == IF Inbound(c) THEN <<Handshake(Height(c.to))>> ELSE <<>>
             request == IF m.height > Height(c.to)
                        THEN <<GetBlocks(Height(c.to) + 1)>> ELSE <<>>
  <2>1. AllGood(chain, greeting) /\ AllGood(chain, request)
    BY <1>3
  <2>2. /\ Answer(c, greeting \o request)
        /\ UNCHANGED <<chain, outbox, producer, applying>>
    BY <1>6 DEF ReceiveHandshake
  <2> HIDE DEF greeting, request
  <2>3. AllGood(chain, greeting \o request)
    BY <2>1, GoodConcat
  <2> QED
    BY <2>2, <2>3, <1>4
<1>7. CASE ReceiveGetBlocks(c, m)
  <2> DEFINE blocks == SubSeq(chain[c.to], m.height, Height(c.to))
  <2>1. m.height \in Nat \ {0}
    BY <1>1, <1>7 DEF ReceiveGetBlocks, GoodMessage
  <2>2. AllKnown(chain, blocks)
    BY <2>1, <1>2, KnownSubSeq DEF IInv, ChainsOK, Height
  <2>3. /\ Answer(c, <<BlocksResponse(blocks)>>)
        /\ UNCHANGED <<chain, outbox, producer, applying>>
    BY <1>7 DEF ReceiveGetBlocks
  <2> HIDE DEF blocks
  <2>4. GoodMessage(chain, BlocksResponse(blocks))
    BY <2>2 DEF GoodMessage, BlocksResponse
  <2> QED
    BY <2>3, <2>4, <1>4, GoodShort
<1>8. CASE ReceiveBlocks(c, m)
  <2> DEFINE request ==
        IF m.type = "new_block" /\ m.blocks[1].height > Height(c.to) + 1
        THEN <<GetBlocks(Height(c.to) + 1)>> ELSE <<>>
  <2>1. /\ ApplyBlock(c, m.blocks) /\ Answer(c, request)
        /\ UNCHANGED <<outbox, producer>>
        /\ m.type \in {"new_block", "blocks"}
    BY <1>8 DEF ReceiveBlocks
  <2>2. AllKnown(chain, m.blocks)
    BY <2>1, <1>1 DEF GoodMessage
  <2>3. /\ ChainsOK(chain') /\ Grown(chain, chain')
        /\ OutboxOK' /\ ApplyingOK' /\ TurnsOK'
    BY <2>1, <2>2, ApplyBlockKeeps
  <2>4. AllGood(chain, request)
    BY <1>3
  <2> HIDE DEF request
  <2>5. NetOK'
    BY <2>1, <2>3, <2>4, <1>1, KnownStays, AnswerKeepsNet DEF IInv
  <2> QED
    BY <2>3, <2>5 DEF IInv
<1> QED
  BY <1>5, <1>6, <1>7, <1>8 DEF Receive, m

(* applyBlocks goes on with the rest of a message (bridge.go). *)
LEMMA ApplyRestKeeps ==
    ASSUME IInv, NEW n \in Nodes, ApplyRest(n)
    PROVE  IInv'
<1>1. PICK rest \in applying[n] : ApplyBlock(rest.from, rest.blocks)
  BY DEF ApplyRest
<1>2. UNCHANGED <<outbox, producer, net>>
  BY DEF ApplyRest
<1>3. AllKnown(chain, rest.blocks)
  BY DEF IInv, ApplyingOK
<1>4. rest.from \in Channels
  BY DEF IInv, ApplyingOK
<1>5. /\ ChainsOK(chain') /\ Grown(chain, chain')
      /\ OutboxOK' /\ ApplyingOK' /\ TurnsOK'
  BY <1>1, <1>2, <1>3, <1>4, ApplyBlockKeeps
<1>6. NetOK'
  BY <1>2, <1>5, KnownStays DEF IInv, NetOK
<1> QED
  BY <1>5, <1>6 DEF IInv

(* A producer starts on the next height when it is its turn.               *)
LEMMA ReadyKeeps ==
    ASSUME IInv, NEW n \in Nodes, Ready(n)
    PROVE  IInv'
<1>1. /\ producer' = [producer EXCEPT ![n] = [Idle EXCEPT !.step = "select",
                                                        !.height = Height(n) + 1]]
      /\ ValidatorForHeight(Height(n) + 1) = n
      /\ UNCHANGED <<chain, outbox, net, applying>>
  BY DEF Ready, CanProduce
<1>2. TurnsOK'
  BY <1>1 DEF IInv, TurnsOK, Height, Idle
<1> QED
  BY <1>1, <1>2 DEF IInv, NetOK, OutboxOK, ApplyingOK

(* Selecting leaves the height of the producer as it is. *)
LEMMA SelectExecutableKeeps ==
    ASSUME IInv, NEW n \in Nodes, SelectExecutable(n)
    PROVE  IInv'
<1>1. UNCHANGED <<chain, outbox, net, applying>>
  BY DEF SelectExecutable
<1>0. PICK text, rest :
         producer' = [producer EXCEPT ![n] =
                         IF text = EmptyBody THEN Idle
                         ELSE [producer[n] EXCEPT !.step = "commit", !.body = text,
                                                  !.scratch = rest]]
  BY DEF SelectExecutable
<1> DEFINE p == IF text = EmptyBody THEN Idle
                ELSE [producer[n] EXCEPT !.step = "commit", !.body = text,
                                         !.scratch = rest]
<1>2. /\ producer' = [producer EXCEPT ![n] = p]
      /\ \/ p = Idle
         \/ \E body, scratch :
               p = [producer[n] EXCEPT !.step = "commit", !.body = body,
                                       !.scratch = scratch]
  BY <1>0
<1> HIDE DEF p
<1>3. producer[n].step # "idle"
  BY DEF SelectExecutable
<1>4. /\ "height" \in DOMAIN p
      /\ p.step # "idle" => p.height = producer[n].height
  <2>1. CASE p = Idle
    BY <2>1 DEF Idle
  <2>2. CASE p # Idle
    <3>1. PICK body, scratch :
             p = [producer[n] EXCEPT !.step = "commit", !.body = body,
                                     !.scratch = scratch]
      BY <2>2, <1>2
    <3>2. DOMAIN p = DOMAIN producer[n] /\ "height" \in DOMAIN producer[n]
      BY <3>1 DEF IInv, TurnsOK
    <3> QED
      BY <3>1, <3>2
  <2> QED
    BY <2>1, <2>2
<1>5. TurnsOK'
  BY <1>1, <1>2, <1>3, <1>4 DEF IInv, TurnsOK, Height
<1> QED
  BY <1>1, <1>5 DEF IInv, NetOK, OutboxOK, ApplyingOK

(* A block that a producer makes is a block like the others.               *)
LEMMA NewBlockTyped ==
    ASSUME IInv, DataOK, NEW n \in Nodes, producer[n].step = "commit"
    PROVE  CreateBlock(n) \in Block
<1> DEFINE All == {t.tx : t \in Transactions}
<1>1. Height(n) \in Nat /\ IsSeq(chain[n])
  BY IsSeqLen DEF IInv, ChainsOK, AllKnown, Height
<1>2. producer[n].height \in Nat \ {0}
  BY <1>1 DEF IInv, TurnsOK
<1>3. LastHash(n) \in Nat
  <2>1. CASE chain[n] = <<>>
    BY <2>1 DEF LastHash
  <2>2. CASE chain[n] # <<>>
    <3>1. Len(chain[n]) \in 1..Len(chain[n])
      BY <2>2, <1>1, IsSeqTail DEF Height
    <3>2. chain[n][Len(chain[n])] \in Block
      BY <3>1 DEF IInv, ChainsOK, AllKnown, Known
    <3> QED
      BY <2>2, <3>2 DEF LastHash, Last, Block
  <2> QED
    BY <2>1, <2>2
<1>4. minted + 1 \in Nat \ {0}
  BY DEF DataOK
<1>5. /\ producer[n].body.creates \in Seq(All)
      /\ producer[n].body.payments \in Seq(All)
      /\ producer[n].body.closes \in Seq(All)
  <2>1. \A type : TxsOf(type) \subseteq All
    BY DEF TxsOf
  <2> HIDE DEF All
  <2> QED
    BY <2>1, SeqMonotonic DEF DataOK, ProducerOK
<1> QED
  BY <1>2, <1>3, <1>4, <1>5 DEF CreateBlock, Block

(* The block is appended to the chain of the validator whose turn it is,   *)
(* so it is known when it is announced; or it is lost, and not announced.  *)
LEMMA CommitBlockKeeps ==
    ASSUME IInv, DataOK, NEW n \in Nodes, CommitBlock(n)
    PROVE  IInv'
<1> DEFINE b == CreateBlock(n)
<1>1. /\ producer[n].step = "commit"
      /\ producer' = [producer EXCEPT ![n] = Idle]
      /\ UNCHANGED <<net, applying>>
      /\ \/ UNCHANGED <<chain, outbox>>
         \/ /\ chain' = [chain EXCEPT ![n] = Append(@, b)]
            /\ outbox' = [outbox EXCEPT ![n] = @ \cup {NewBlock(b)}]
  BY DEF CommitBlock, AppendBlock
<1>2. b.height = Len(chain[n]) + 1 /\ ValidatorForHeight(b.height) = n
  BY <1>1 DEF IInv, TurnsOK, Height, CreateBlock
<1>5. b \in Block
  BY <1>1, NewBlockTyped
<1> HIDE DEF b
<1>3. CASE UNCHANGED <<chain, outbox>>
  <2>1. TurnsOK'
    BY <1>1, <1>3 DEF IInv, TurnsOK, Height, Idle
  <2> QED
    BY <2>1, <1>1, <1>3 DEF IInv, NetOK, OutboxOK, ApplyingOK
<1>4. CASE /\ chain' = [chain EXCEPT ![n] = Append(@, b)]
           /\ outbox' = [outbox EXCEPT ![n] = @ \cup {NewBlock(b)}]
  <2>1. ChainsOK(chain') /\ Grown(chain, chain') /\ Known(chain', b)
    BY <1>2, <1>4, <1>5, AppendKeepsChains DEF IInv
  <2>2. /\ \A s : AllKnown(chain, s) => AllKnown(chain', s)
        /\ \A m : GoodMessage(chain, m) => GoodMessage(chain', m)
        /\ \A s : AllGood(chain, s) => AllGood(chain', s)
    BY <2>1, KnownStays DEF IInv
  <2>3. NetOK' /\ ApplyingOK'
    BY <2>2, <1>1 DEF IInv, NetOK, ApplyingOK
  <2>4. GoodMessage(chain', NewBlock(b))
    BY <2>1, IsSeqShort DEF GoodMessage, NewBlock, AllKnown
  <2>5. OutboxOK'
    BY <2>2, <2>4, <1>4 DEF IInv, OutboxOK
  <2>6. TurnsOK'
    BY <1>1, <1>4 DEF IInv, TurnsOK, ChainsOK, Height, Idle
  <2> QED
    BY <2>1, <2>3, <2>5, <2>6 DEF IInv
<1> QED
  BY <1>1, <1>3, <1>4

(* Every step keeps the invariant. *)
THEOREM NextIInv == IInv /\ DataOK /\ [Next]_vars => IInv'
<1> SUFFICES ASSUME IInv, DataOK, [Next]_vars PROVE IInv'
  OBVIOUS
<1>1. CASE \E t \in Transactions : Submit(t)
  BY <1>1, SubmitKeeps
<1>2. CASE \E n \in Nodes : \E m \in outbox[n] : SendOutbox(n, m)
  BY <1>2, SendOutboxKeeps
<1>3. CASE \E c \in Channels : Receive(c)
  BY <1>3, ReceiveKeeps
<1>4. CASE \E n \in Nodes : ApplyRest(n)
  BY <1>4, ApplyRestKeeps
<1>5. CASE \E n \in Nodes : Produce(n)
  BY <1>5, ReadyKeeps, SelectExecutableKeeps, CommitBlockKeeps DEF Produce
<1>6. CASE \E dial \in Dials : Connect(dial)
  BY <1>6, ConnectKeeps
<1>7. CASE \E dial \in Dials : Disconnect(dial)
  <2>1. UNCHANGED <<chain, outbox, producer, applying>>
    BY <1>7 DEF Disconnect
  <2>2. NetOK'
    BY <1>7, <2>1, CutKeeps DEF Disconnect
  <2> QED
    BY <2>1, <2>2 DEF IInv, OutboxOK, ApplyingOK, TurnsOK, Height
<1>8. CASE \E n \in Nodes : Crash(n)
  BY <1>8, CrashKeeps
<1>9. CASE \/ \E n \in Nodes : Restart(n)
           \/ \E n \in Nodes : \E m \in saving[n] : SaveKeystore(n, m)
           \/ UNCHANGED vars
  <2>1. UNCHANGED <<chain, outbox, producer, net, applying>>
    BY <1>9 DEF Restart, Start, SaveKeystore, vars
  <2> QED
    BY <2>1 DEF IInv, NetOK, OutboxOK, ApplyingOK, TurnsOK, Height
<1> QED
  BY <1>1, <1>2, <1>3, <1>4, <1>5, <1>6, <1>7, <1>8, <1>9 DEF Next

-----------------------------------------------------------------------------
(***************************************************************************)
(* The data: pools, producers and counters.                                *)
(***************************************************************************)
(* A payment that was valid once takes a number from its payer's account.  *)
LEMMA ValidIsPayable ==
    ASSUME NEW tx \in TxsOf("payment"), NEW s, ValidPayment(tx, s)
    PROVE  tx \in Payable
<1>1. tx \in PaymentTransaction
  BY SubmissionsAssumption DEF TxsOf
<1>2. GrossAmount(tx.items) > 0
  BY DEF ValidPayment, ValidLines
<1>3. GrossAmount(tx.items) \in Int
  BY <1>1, GrossInt DEF PaymentTransaction
<1> QED
  BY <1>2, <1>3 DEF Payable

(* So the pools can count what it reserves.                                *)
LEMMA PayableReservable == Reservable(Payable)
<1> SUFFICES ASSUME NEW tx \in Payable PROVE tx.payer \in AccountIDs
  BY DEF Reservable, Payable
<1>1. tx \in PaymentTransaction
  BY SubmissionsAssumption DEF Payable, TxsOf
<1> QED
  BY <1>1 DEF PaymentTransaction

(* The pools when a node starts, ...                                       *)
LEMMA EmptyPoolsTyped == PoolsTyped(EmptyPools)
BY EmptyPoolExact, EmptySeq DEF PoolsTyped, EmptyPools

(* ... after a transaction was admitted ...                                *)
LEMMA WithTyped ==
    ASSUME NEW p, PoolsTyped(p), NEW s, NEW m, m.type \in {"payment", "create", "close"},
           m.tx \in TxsOf(m.type), Admits(p, s, m)
    PROVE  PoolsTyped(With(p, m))
<1>1. /\ p = [payments |-> p.payments, creates |-> p.creates, closes |-> p.closes]
      /\ ExactPool(p.payments, Payable)
      /\ p.creates \in Seq(TxsOf("create")) /\ p.closes \in Seq(TxsOf("close"))
  BY DEF PoolsTyped
<1>2. CASE m.type = "payment"
  <2>1. ValidPayment(m.tx, Available(s, p.payments, m.tx.payer))
    BY <1>2 DEF Admits
  <2>2. m.tx \in Payable
    BY <1>2, <2>1, ValidIsPayable
  <2>3. ExactPool(AddPayment(p.payments, m.tx), Payable)
    BY <1>1, <2>2, PayableReservable, AddPaymentExact
  <2>4. With(p, m) = [p EXCEPT !.payments = AddPayment(p.payments, m.tx)]
    BY <1>2 DEF With
  <2>5. With(p, m) = [payments |-> AddPayment(p.payments, m.tx),
                      creates |-> p.creates, closes |-> p.closes]
    BY <1>1, <2>4
  <2> QED
    BY <1>1, <2>3, <2>5 DEF PoolsTyped
<1>3. CASE m.type = "create"
  <2>1. With(p, m) = [p EXCEPT !.creates = Append(p.creates, m.tx)]
    BY <1>3 DEF With
  <2>2. With(p, m) = [payments |-> p.payments,
                      creates |-> Append(p.creates, m.tx), closes |-> p.closes]
    BY <1>1, <2>1
  <2>3. Append(p.creates, m.tx) \in Seq(TxsOf("create"))
    BY <1>1, <1>3, AppendProperties
  <2> QED
    BY <1>1, <2>2, <2>3 DEF PoolsTyped
<1>4. CASE m.type = "close"
  <2>1. With(p, m) = [p EXCEPT !.closes = Append(p.closes, m.tx)]
    BY <1>4 DEF With
  <2>2. With(p, m) = [payments |-> p.payments,
                      creates |-> p.creates, closes |-> Append(p.closes, m.tx)]
    BY <1>1, <2>1
  <2>3. Append(p.closes, m.tx) \in Seq(TxsOf("close"))
    BY <1>1, <1>4, AppendProperties
  <2> QED
    BY <1>1, <2>2, <2>3 DEF PoolsTyped
<1> QED
  BY <1>2, <1>3, <1>4

(* ... and after those of a block, known to the pools or not, were removed.*)
LEMMA WithoutTxsTyped ==
    ASSUME NEW p, PoolsTyped(p), NEW body
    PROVE  PoolsTyped(WithoutTxs(p, body))
<1>1. ExactPool(RemovePayments(p.payments, body.payments), Payable)
  BY PayableReservable, RemovePaymentsExact DEF PoolsTyped
<1>2. /\ Without(p.creates, body.creates) \in Seq(TxsOf("create"))
      /\ Without(p.closes, body.closes) \in Seq(TxsOf("close"))
  BY WithoutElements DEF PoolsTyped
<1> QED
  BY <1>1, <1>2 DEF PoolsTyped, WithoutTxs

(* A turn of applyBlocks. The block of a node that appends one is not at   *)
(* stake: by IInv the node is not producing any.                           *)
LEMMA ApplyBlockData ==
    ASSUME IInv, DataOK, NEW c \in Channels, NEW blocks, AllKnown(chain, blocks),
           ApplyBlock(c, blocks),
           UNCHANGED <<up, conns, submitted, minted, producer>>
    PROVE  DataOK'
<1> DEFINE n == c.to
           b == Head(blocks)
<1>1. n \in Nodes
  BY DEF Channels
<1>2. \/ UNCHANGED <<chain, ledger, pools>>
      \/ /\ blocks # <<>> /\ b.height = Height(n) + 1
         /\ ledger' = [ledger EXCEPT ![n] = StateAfter(b, ledger[n])]
         /\ pools' = [pools EXCEPT ![n] = WithoutTxs(pools[n], b)]
  BY DEF ApplyBlock, ValidateBlock, AppendBlock
<1>3. \E rests : /\ applying' = [applying EXCEPT ![n] = rests]
                 /\ rests = {} \/ \E rest \in rests : rests = {rest}
  <2>1. \A s : Rest(c, s) = {} \/ \E rest \in Rest(c, s) : Rest(c, s) = {rest}
    BY DEF Rest
  <2>2. \/ applying' = [applying EXCEPT ![n] = Rest(c, Tail(blocks))]
        \/ applying' = [applying EXCEPT ![n] = {}]
    BY DEF ApplyBlock
  <2> QED
    BY <2>1, <2>2
<1>4. \A m \in Nodes :
         applying'[m] = {} \/ \E rest \in applying'[m] : applying'[m] = {rest}
  BY <1>3 DEF DataOK, IInv, ApplyingOK
<1> HIDE DEF b
<1>5. CASE UNCHANGED <<chain, ledger, pools>>
  BY <1>4, <1>5 DEF DataOK
<1>6. CASE /\ blocks # <<>> /\ b.height = Height(n) + 1
           /\ ledger' = [ledger EXCEPT ![n] = StateAfter(b, ledger[n])]
           /\ pools' = [pools EXCEPT ![n] = WithoutTxs(pools[n], b)]
  <2>1. Known(chain, b) /\ Len(chain[n]) \in Nat
    BY <1>1, <1>6, KnownTail, IsSeqLen DEF b, IInv, ChainsOK, AllKnown
  <2>2. ValidatorForHeight(Height(n) + 1) # n
    BY <1>6, <2>1 DEF Known, Height
  <2>3. producer[n].step = "idle"
    BY <1>1, <2>2 DEF IInv, TurnsOK
  <2>4. \A m \in Nodes : PoolsTyped(pools'[m])
    BY <1>6, WithoutTxsTyped DEF DataOK
  <2>5. \A m \in Nodes : ProducerOK(producer'[m], ledger'[m])
    BY <1>6, <2>3 DEF DataOK, ProducerOK
  <2> QED
    BY <1>4, <1>6, <2>4, <2>5 DEF DataOK
<1> QED
  BY <1>2, <1>5, <1>6

(* The producer takes from the pools what runs in the state of the ledger. *)
LEMMA SelectExecutableData ==
    ASSUME DataOK, NEW n \in Nodes, SelectExecutable(n), DOMAIN producer = Nodes
    PROVE  DataOK'
<1> DEFINE p        == pools[n]
           creates  == SelectCreate(p.creates, MaxTxsPerBlock, ledger[n])
           room     == MaxTxsPerBlock - Len(creates.taken)
           payments == SelectPayment(p.payments.order, room, creates.state)
           left     == room - Len(payments.taken)
           closes   == SelectClose(p.closes, left, payments.state)
           body     == [creates |-> creates.taken, payments |-> payments.taken,
                        closes |-> closes.taken]
           dropped  == [creates  |-> creates.dropped,
                        payments |-> payments.dropped,
                        closes   |-> closes.dropped]
           next     == IF body = EmptyBody THEN Idle
                       ELSE [producer[n] EXCEPT !.step = "commit", !.body = body,
                                                !.scratch = closes.state]
<1>1. /\ pools' = [pools EXCEPT ![n] = WithoutTxs(p, dropped)]
      /\ producer' = [producer EXCEPT ![n] = next]
      /\ UNCHANGED <<up, ledger, conns, applying, submitted, minted>>
      /\ n \in up
  BY DEF SelectExecutable, DataOK
<1>2. /\ p.creates \in Seq(TxsOf("create"))
      /\ p.payments.order \in Seq(Payable)
      /\ p.closes \in Seq(TxsOf("close"))
  BY DEF DataOK, PoolsTyped, ExactPool
<1> HIDE DEF p
<1>3. /\ creates.taken \in Seq(TxsOf("create"))
      /\ payments.taken \in Seq(Payable)
      /\ closes.taken \in Seq(TxsOf("close"))
  <2>1. creates.taken \in Seq(TxsOf("create"))
    BY <1>2, SelectedCreates DEF Selection
  <2>2. payments.taken \in Seq(Payable)
    <3> HIDE DEF creates, room
    <3> QED
      BY <1>2, SelectedPayments DEF Selection
  <2>3. closes.taken \in Seq(TxsOf("close"))
    <3> HIDE DEF payments, left
    <3> QED
      BY <1>2, SelectedCloses DEF Selection
  <2> QED
    BY <2>1, <2>2, <2>3
<1>4. payments.taken \in Seq(TxsOf("payment"))
  BY <1>3, SeqMonotonic DEF Payable
<1>5. ApplyTransactions(body, ledger[n]) = {closes.state}
  <2>1. CreatesLead(creates, ledger[n])
    BY <1>2, SelectedCreates
  <2>2. PaymentsLead(payments, creates.state)
    <3> HIDE DEF creates, room
    <3> QED
      BY <1>2, SelectedPayments
  <2>3. ClosesLead(closes, payments.state)
    <3> HIDE DEF payments, left
    <3> QED
      BY <1>2, SelectedCloses
  <2> HIDE DEF creates, payments, closes
  <2>4. /\ AfterCreates({ledger[n]}, body.creates) = {creates.state}
        /\ AfterPayments({creates.state}, body.payments) = {payments.state}
        /\ AfterCloses({payments.state}, body.closes) = {closes.state}
    BY <2>1, <2>2, <2>3 DEF CreatesLead, PaymentsLead, ClosesLead
  <2> HIDE DEF body
  <2> QED
    BY <2>4 DEF ApplyTransactions, AfterCreates, AfterPayments, AfterCloses
<1> HIDE DEF creates, payments, closes
<1>6. ProducerOK(next, ledger[n])
  <2>1. CASE body = EmptyBody
    BY <2>1 DEF ProducerOK, Idle
  <2>2. CASE body # EmptyBody
    <3>1. next = [producer[n] EXCEPT !.step = "commit", !.body = body,
                                     !.scratch = closes.state]
      BY <2>2
    <3> HIDE DEF next
    <3>2. next.step = "commit" /\ next.body = body /\ next.scratch = closes.state
      BY <3>1
    <3> QED
      BY <3>2, <1>3, <1>4, <1>5 DEF ProducerOK
  <2> QED
    BY <2>1, <2>2
<1>7. PoolsTyped(WithoutTxs(p, dropped))
  BY WithoutTxsTyped DEF DataOK, p
<1> HIDE DEF next, dropped
<1> QED
  BY <1>1, <1>6, <1>7 DEF DataOK

(* The node forgets what its block has.                                    *)
LEMMA CommitBlockData ==
    ASSUME DataOK, NEW n \in Nodes, CommitBlock(n), DOMAIN producer = Nodes
    PROVE  DataOK'
<1>1. /\ producer' = [producer EXCEPT ![n] = Idle]
      /\ minted' = minted + 1
      /\ UNCHANGED <<up, conns, applying, submitted>>
      /\ \/ UNCHANGED <<ledger, pools>>
         \/ \E b : /\ ledger' = [ledger EXCEPT ![n] = StateAfter(b, ledger[n])]
                   /\ pools' = [pools EXCEPT ![n] = WithoutTxs(pools[n], b)]
  BY DEF CommitBlock, AppendBlock
<1>2. \A m \in Nodes : PoolsTyped(pools'[m])
  BY <1>1, WithoutTxsTyped DEF DataOK
<1>3. \A m \in Nodes : ProducerOK(producer'[m], ledger'[m])
  BY <1>1 DEF DataOK, ProducerOK, Idle
<1>4. DOMAIN pools' = Nodes /\ DOMAIN ledger' = Nodes
  BY <1>1 DEF DataOK
<1>5. \A m \in Nodes \ up' : producer'[m].step = "idle"
  BY <1>1 DEF DataOK, Idle
<1> QED
  BY <1>1, <1>2, <1>3, <1>4, <1>5 DEF DataOK

(* The data are what DataOK says in the beginning ...                      *)
THEOREM InitDataOK == Init => DataOK
<1> SUFFICES ASSUME Init PROVE DataOK
  OBVIOUS
<1>1. \A n \in Nodes : PoolsTyped(pools[n])
  BY EmptyPoolsTyped DEF Init
<1>2. \A n \in Nodes : ProducerOK(producer[n], ledger[n])
  BY DEF Init, Idle, ProducerOK
<1> QED
  BY <1>1, <1>2 DEF Init, DataOK

(* ... and after every step.                                               *)
THEOREM NextDataOK == IInv /\ DataOK /\ [Next]_vars => DataOK'
<1> SUFFICES ASSUME IInv, DataOK, [Next]_vars PROVE DataOK'
  OBVIOUS
<1> USE DEF IInv
<1>1. ASSUME NEW t \in Transactions, Submit(t) PROVE DataOK'
  <2> DEFINE m == [type |-> t.type, tx |-> t.tx]
  <2>1. t.node \in Nodes /\ m.type \in {"payment", "create", "close"}
    BY TopologyAssumption
  <2>2. m.tx \in TxsOf(m.type)
    BY DEF TxsOf
  <2>3. /\ Admits(pools[t.node], ledger[t.node], m)
        /\ pools' = [pools EXCEPT ![t.node] = With(pools[t.node], m)]
        /\ UNCHANGED <<up, conns, ledger, producer, applying, minted>>
        /\ submitted' = submitted \cup {t}
    BY <1>1 DEF Submit
  <2>4. submitted' \subseteq Transactions
    BY <2>3 DEF DataOK
  <2> HIDE DEF m
  <2>5. PoolsTyped(With(pools[t.node], m))
    BY <2>1, <2>2, <2>3, WithTyped DEF DataOK
  <2> QED
    BY <2>1, <2>3, <2>4, <2>5 DEF DataOK
<1>2. CASE \/ \E n \in Nodes : \E m \in outbox[n] : SendOutbox(n, m)
           \/ \E n \in Nodes : \E m \in saving[n] : SaveKeystore(n, m)
  BY <1>2 DEF SendOutbox, SaveKeystore, DataOK
<1>3. ASSUME NEW c \in Channels, Receive(c) PROVE DataOK'
  <2> DEFINE m == Head(net[c])
  <2>1. GoodMessage(chain, m)
    BY <1>3, GoodTail DEF Receive, NetOK
  <2>2. c.to \in Nodes
    BY DEF Channels
  <2> HIDE DEF m
  <2>3. CASE ReceiveTransaction(c, m)
    <3>1. CASE Admits(pools[c.to], ledger[c.to], m)
      <4>1. /\ m.type \in {"payment", "create", "close"}
            /\ pools' = [pools EXCEPT ![c.to] = With(pools[c.to], m)]
            /\ UNCHANGED <<up, conns, ledger, producer, applying, minted, submitted>>
        BY <2>3, <3>1 DEF ReceiveTransaction
      <4>2. m.tx \in TxsOf(m.type)
        BY <4>1, <2>1 DEF GoodMessage
      <4>3. PoolsTyped(With(pools[c.to], m))
        BY <2>2, <3>1, <4>1, <4>2, WithTyped DEF DataOK
      <4> QED
        BY <2>2, <4>1, <4>3 DEF DataOK
    <3>2. CASE ~Admits(pools[c.to], ledger[c.to], m)
      BY <2>3, <3>2 DEF ReceiveTransaction, DataOK
    <3> QED
      BY <3>1, <3>2
  <2>4. CASE ReceiveHandshake(c, m)
    BY <2>4 DEF ReceiveHandshake, DataOK
  <2>5. CASE ReceiveGetBlocks(c, m)
    BY <2>5 DEF ReceiveGetBlocks, DataOK
  <2>6. CASE ReceiveBlocks(c, m)
    <3>1. /\ ApplyBlock(c, m.blocks)
          /\ UNCHANGED <<up, conns, submitted, minted, producer>>
          /\ m.type \in {"new_block", "blocks"}
      BY <2>6 DEF ReceiveBlocks
    <3>2. AllKnown(chain, m.blocks)
      BY <2>1, <3>1 DEF GoodMessage
    <3> QED
      BY <3>1, <3>2, ApplyBlockData
  <2> QED
    BY <1>3, <2>3, <2>4, <2>5, <2>6 DEF Receive, m
<1>4. ASSUME NEW n \in Nodes, ApplyRest(n) PROVE DataOK'
  <2>1. PICK rest \in applying[n] : ApplyBlock(rest.from, rest.blocks)
    BY <1>4 DEF ApplyRest
  <2>2. UNCHANGED <<up, conns, submitted, minted, producer>>
    BY <1>4 DEF ApplyRest
  <2>3. rest.from \in Channels /\ AllKnown(chain, rest.blocks)
    BY DEF ApplyingOK
  <2> QED
    BY <2>1, <2>2, <2>3, ApplyBlockData
<1>5. ASSUME NEW n \in Nodes, Ready(n) PROVE DataOK'
  BY <1>5 DEF Ready, DataOK, ProducerOK, Idle, TurnsOK
<1>6. ASSUME NEW n \in Nodes, SelectExecutable(n) PROVE DataOK'
  BY <1>6, SelectExecutableData DEF TurnsOK
<1>7. ASSUME NEW n \in Nodes, CommitBlock(n) PROVE DataOK'
  BY <1>7, CommitBlockData DEF TurnsOK
<1>8. CASE \E dial \in Dials : Connect(dial)
  BY <1>8 DEF Connect, DataOK
<1>9. CASE \E dial \in Dials : Disconnect(dial)
  BY <1>9 DEF Disconnect, Cut, DataOK
<1>10. ASSUME NEW n \in Nodes, Crash(n) PROVE DataOK'
  <2>1. /\ up' = up \ {n}
        /\ conns' \subseteq conns
        /\ pools' = [pools EXCEPT ![n] = EmptyPools]
        /\ producer' = [producer EXCEPT ![n] = Idle]
        /\ applying' = [applying EXCEPT ![n] = {}]
        /\ UNCHANGED <<ledger, submitted, minted>>
    BY <1>10 DEF Crash, Cut
  <2>2. \A k \in Nodes : PoolsTyped(pools'[k])
    BY <2>1, EmptyPoolsTyped DEF DataOK
  <2>3. \A k \in Nodes : ProducerOK(producer'[k], ledger'[k])
    BY <2>1 DEF DataOK, ProducerOK, Idle, TurnsOK
  <2>4. \A k \in Nodes :
           applying'[k] = {} \/ \E rest \in applying'[k] : applying'[k] = {rest}
    BY <2>1 DEF DataOK, ApplyingOK
  <2>5. \A k \in Nodes \ up' : producer'[k].step = "idle"
    BY <2>1 DEF DataOK, Idle, TurnsOK
  <2> QED
    BY <2>1, <2>2, <2>3, <2>4, <2>5 DEF DataOK
<1>11. ASSUME NEW n \in Nodes, Restart(n) PROVE DataOK'
  <2>1. /\ n \notin up /\ up' = up \cup {n}
        /\ ledger' = [ledger EXCEPT ![n] = LoadedState(n)]
        /\ UNCHANGED <<pools, producer, conns, applying, submitted, minted>>
    BY <1>11 DEF Restart, Start
  <2>2. \A k \in Nodes : ProducerOK(producer'[k], ledger'[k])
    BY <2>1 DEF DataOK, ProducerOK
  <2> QED
    BY <2>1, <2>2 DEF DataOK
<1>12. CASE UNCHANGED vars
  BY <1>12 DEF vars, DataOK
<1> QED
  BY <1>1, <1>2, <1>3, <1>4, <1>5, <1>6, <1>7, <1>8, <1>9, <1>10, <1>11, <1>12
     DEF Next, Produce

-----------------------------------------------------------------------------
(***************************************************************************)
(* What follows from it.                                                   *)
(***************************************************************************)
(* All blocks are in a chain, a message, or applyBlocks, and known there. *)
LEMMA BlocksKnown ==
    ASSUME IInv, NEW b \in BlocksInTransit \cup UNION {BlocksAt(n) : n \in Nodes}
    PROVE  Known(chain, b)
<1>1. ASSUME NEW s, AllKnown(chain, s), b \in ToSet(s)
      PROVE  Known(chain, b)
  BY <1>1, IsSeqLen DEF AllKnown, ToSet
<1>2. ASSUME NEW m, GoodMessage(chain, m), b \in BlocksOf(m)
      PROVE  Known(chain, b)
  BY <1>1, <1>2 DEF GoodMessage, BlocksOf
<1>3. CASE b \in BlocksInTransit
  <2>1. PICK c \in Channels : \E m \in ToSet(net[c]) : b \in BlocksOf(m)
    BY <1>3 DEF BlocksInTransit
  <2>2. \A m \in ToSet(net[c]) : GoodMessage(chain, m)
    BY IsSeqLen DEF IInv, NetOK, AllGood, ToSet
  <2> QED
    BY <2>1, <2>2, <1>2
<1>4. CASE b \in UNION {BlocksAt(n) : n \in Nodes}
  <2>1. PICK n \in Nodes : b \in BlocksAt(n)
    BY <1>4
  <2>2. CASE b \in ToSet(chain[n])
    BY <2>2, <1>1 DEF IInv, ChainsOK
  <2>3. CASE \E m \in outbox[n] : b \in BlocksOf(m)
    BY <2>3, <1>2 DEF IInv, OutboxOK
  <2>4. CASE \E rest \in applying[n] : b \in ToSet(rest.blocks)
    BY <2>4, <1>1 DEF IInv, ApplyingOK
  <2> QED
    BY <2>1, <2>2, <2>3, <2>4 DEF BlocksAt
<1> QED
  BY <1>3, <1>4

(* So they are final, ... *)
LEMMA IInvFinal == IInv => KnownBlocksAreFinal
BY BlocksKnown DEF KnownBlocksAreFinal, Known, Height

(* ... and, with the data, what their declarations say.                    *)
LEMMA InvTypeOK == IInv /\ DataOK => TypeOK
<1> SUFFICES ASSUME IInv, DataOK PROVE TypeOK
  OBVIOUS
<1>1. /\ BlocksInTransit \subseteq Block
      /\ \A n \in Nodes : BlocksAt(n) \subseteq Block
  BY BlocksKnown DEF Known
<1>2. DOMAIN chain = Nodes /\ DOMAIN net = Channels
  BY DEF IInv, ChainsOK, NetOK
<1>3. ASSUME NEW n \in Nodes PROVE Cardinality(applying[n]) <= 1
  <2>1. CASE applying[n] = {}
    BY <2>1, FS_EmptySet
  <2>2. CASE \E rest \in applying[n] : applying[n] = {rest}
    <3>1. PICK rest : applying[n] = {rest}
      BY <2>2
    <3>2. Cardinality({rest}) = 1
      BY FS_Singleton
    <3> QED
      BY <3>1, <3>2
  <2> QED
    BY <2>1, <2>2 DEF DataOK
<1>4. ASSUME NEW c \in Channels, NEW m \in ToSet(net[c]), m.type = "get_blocks"
      PROVE  m.height \in Nat \ {0}
  BY <1>4, IsSeqLen DEF IInv, NetOK, AllGood, GoodMessage, ToSet
<1> QED
  BY <1>1, <1>2, <1>3, <1>4 DEF DataOK, ProducerOK, TypeOK

(* A producer that stops working on a block and does not crash committed   *)
(* it: the height it read is still the next one, and so is the state.      *)
LEMMA CommitSucceeds ==
    ASSUME IInv, DataOK, NEW n \in Nodes, CommitBlock(n)
    PROVE  Height(n)' = Height(n) + 1
<1> DEFINE b == CreateBlock(n)
<1>1. producer[n].step = "commit"
  BY DEF CommitBlock
<1>2. /\ Height(n) \in Nat /\ IsSeq(chain[n])
      /\ producer[n].height = Height(n) + 1
      /\ ValidatorForHeight(Height(n) + 1) = n
  BY <1>1, IsSeqLen DEF IInv, TurnsOK, ChainsOK, AllKnown, Height
<1>3. b.height = Height(n) + 1 /\ b.prev = LastHash(n) /\ b.validator = n
  BY <1>2 DEF CreateBlock
<1>4. n \in ToSet(Validators)
  <2> DEFINE i == ((Height(n) + 1) % Len(Validators)) + 1
  <2>1. Len(Validators) \in Nat \ {0}
    BY TopologyAssumption, EmptySeq
  <2>2. i \in 1..Len(Validators)
    BY <1>2, <2>1
  <2>3. Validators[i] = n
    BY <1>2 DEF ValidatorForHeight
  <2> HIDE DEF i
  <2> QED
    BY <2>2, <2>3, TopologyAssumption, LenProperties DEF ToSet
<1>5. ApplyTransactions(b, ledger[n]) # {}
  <2>1. ApplyTransactions(producer[n].body, ledger[n]) # {}
    BY <1>1 DEF DataOK, ProducerOK
  <2>2. ApplyTransactions(b, ledger[n])
           = ApplyTransactions(producer[n].body, ledger[n])
    BY DEF CreateBlock, ApplyTransactions
  <2> QED
    BY <2>1, <2>2
<1>6. ValidateBlock(b, n)
  BY <1>3, <1>4, <1>5 DEF ValidateBlock
<1>7. chain' = [chain EXCEPT ![n] = Append(chain[n], b)]
  BY <1>6 DEF CommitBlock, AppendBlock
<1> HIDE DEF b
<1> QED
  BY <1>2, <1>7, IsSeqAppend DEF Height, IInv, ChainsOK

(* Two chains agree where both have a block: with the validator's. *)
LEMMA IInvAgreement == IInv => Agreement
<1> SUFFICES ASSUME IInv, NEW n \in Nodes, NEW m \in Nodes,
                    Len(chain[n]) <= Len(chain[m])
             PROVE  IsPrefix(chain[n], chain[m])
  <2>1. \A k \in Nodes : Len(chain[k]) \in Nat
    BY IsSeqLen DEF IInv, ChainsOK, AllKnown
  <2> QED
    BY <2>1 DEF Agreement
<1>1. \A k \in Nodes : IsSeq(chain[k]) /\ Len(chain[k]) \in Nat
  BY IsSeqLen DEF IInv, ChainsOK, AllKnown
<1>2. \A k \in Nodes : \A i \in 1..Len(chain[k]) :
         chain[k][i] = chain[ValidatorForHeight(i)][i]
  BY DEF IInv, ChainsOK, AllKnown, Known
<1>3. \A i \in 1..Len(chain[n]) : chain[n][i] = chain[m][i]
  BY <1>1, <1>2
<1> DEFINE S == ToSet(chain[n])
           s == SubSeq(chain[n], 1, Len(chain[n]))
           t == SubSeq(chain[m], 1, Len(chain[n]))
<1>4. \A i \in 1..Len(chain[n]) : chain[n][i] \in S /\ chain[m][i] \in S
  BY <1>1, <1>3, ElementOfSeq DEF IsSeq
<1> HIDE DEF S
<1>5. /\ s \in Seq(S) /\ Len(s) = Len(chain[n])
      /\ \A i \in 1..Len(chain[n]) : s[i] = chain[n][i]
  BY <1>1, <1>4, SubSeqProperties
<1>6. /\ t \in Seq(S) /\ Len(t) = Len(chain[n])
      /\ \A i \in 1..Len(chain[n]) : t[i] = chain[m][i]
  BY <1>1, <1>4, SubSeqProperties
<1>7. s = t
  <2> HIDE DEF s, t
  <2> QED
    BY <1>3, <1>5, <1>6, SeqEqual
<1> QED
  BY <1>7 DEF IsPrefix

(* Only CommitBlock and a crash end the work on a block.                   *)
LEMMA NeverWastedStep ==
    ASSUME IInv, DataOK, [Next]_vars, NEW n \in Nodes,
           producer[n].step = "commit", producer'[n].step = "idle", n \in up'
    PROVE  CommitBlock(n)
<1> USE DEF IInv, TurnsOK
<1>1. ASSUME NEW m \in Nodes, Ready(m) PROVE FALSE
  BY <1>1 DEF Ready
<1>2. ASSUME NEW m \in Nodes, SelectExecutable(m) PROVE FALSE
  <2>1. PICK p : producer' = [producer EXCEPT ![m] = p]
    BY <1>2 DEF SelectExecutable
  <2>2. producer[m].step = "select"
    BY <1>2 DEF SelectExecutable
  <2> QED
    BY <2>1, <2>2
<1>3. ASSUME NEW m \in Nodes, CommitBlock(m) PROVE m = n
  BY <1>3 DEF CommitBlock
<1>4. ASSUME NEW m \in Nodes, Crash(m) PROVE FALSE
  BY <1>4 DEF Crash
<1>5. producer' # producer
  OBVIOUS
<1> QED
  BY <1>1, <1>2, <1>3, <1>4, <1>5
     DEF Next, vars, Produce, Submit, SendOutbox, Receive, ReceiveTransaction,
         ReceiveHandshake, ReceiveGetBlocks, ReceiveBlocks, ApplyRest, Connect,
         Disconnect, Restart, Start, SaveKeystore

(* Every variable of every node keeps its type: blocks and messages on the *)
(* wire included, and no message asks for the genesis block.               *)
THEOREM NetworkTypeOK == Spec => []TypeOK
<1>1. Spec => [](IInv /\ DataOK)
  BY InitIInv, NextIInv, InitDataOK, NextDataOK, PTL DEF Spec
<1> QED
  BY <1>1, InvTypeOK, PTL

(* What the pool of payments of every node counts as reserved is what its  *)
(* pending payments take (mempool/pool.go, removeLocked), also when blocks *)
(* remove payments that the node never heard of.                           *)
THEOREM NetworkReservedIsExact == Spec => []ReservedIsExact
<1>1. Spec => [](IInv /\ DataOK)
  BY InitIInv, NextIInv, InitDataOK, NextDataOK, PTL DEF Spec
<1>2. DataOK => ReservedIsExact
  BY DEF DataOK, PoolsTyped, ExactPool, ReservedIsExact
<1> QED
  BY <1>1, <1>2, PTL

(* A validator that goes through with a block never loses it to one that   *)
(* arrived meanwhile (bridge.go, ProduceBlockIfReady).                     *)
THEOREM NetworkProductionIsNeverWasted == Spec => ProductionIsNeverWasted
<1>1. Spec => [](IInv /\ DataOK)
  BY InitIInv, NextIInv, InitDataOK, NextDataOK, PTL DEF Spec
<1>2. IInv /\ DataOK /\ [Next]_vars
         => [\A n \in Nodes : producer[n].step = "commit" /\ producer'[n].step = "idle"
                                  /\ n \in up'
                => Height(n)' = Height(n) + 1]_vars
  BY NeverWastedStep, CommitSucceeds
<1> QED
  BY <1>1, <1>2, PTL DEF Spec, ProductionIsNeverWasted

(* Every block that a node stores, applies or has on the wire is the one   *)
(* its height's validator has: nothing announced is ever lost or replaced  *)
(* (bridge.go, ProduceBlockIfReady), whatever crashes and comes late.      *)
THEOREM NetworkKnownBlocksAreFinal == Spec => []KnownBlocksAreFinal
<1>1. Spec => [](IInv /\ DataOK)
  BY InitIInv, NextIInv, InitDataOK, NextDataOK, PTL DEF Spec
<1> QED
  BY <1>1, IInvFinal, PTL

(* No two nodes ever hold different blocks at the same height (poa,        *)
(* CanProduce), although blocks of any validator are accepted.             *)
THEOREM NetworkAgreement == Spec => []Agreement
<1>1. Spec => [](IInv /\ DataOK)
  BY InitIInv, NextIInv, InitDataOK, NextDataOK, PTL DEF Spec
<1> QED
  BY <1>1, IInvAgreement, PTL

-----------------------------------------------------------------------------
(***************************************************************************)
(* The nodes implement Chain: they share one list of blocks, and with it   *)
(* the states of the ledger.                                               *)
(*                                                                         *)
(* The argument: a step leaves chains and ledgers alone, starts a node,    *)
(* which changes no account of it, or appends one valid block to the chain *)
(* of one node. The chains agree (IInv), so the longest is the list. A     *)
(* block appended to a chain that is as long as the list is a new block of *)
(* it; one appended to a shorter chain is the block that the list has at   *)
(* that height, for the chains agree after the step.                       *)
(***************************************************************************)
(* No assumption makes Nodes finite: a longest chain has to be shown. *)
HasLongest == \E n \in Nodes : \A m \in Nodes : Len(chain[m]) <= Len(chain[n])

Appends(n, b) == ValidateBlock(b, n) /\ AppendBlock(b, n)

-----------------------------------------------------------------------------
(* A start gives the node the keys it knows now.                           *)
Starts(n) ==
    /\ UNCHANGED chain
    /\ ledger' = [ledger EXCEPT ![n] = LoadedState(n)]

(* applyBlocks and ProduceBlockIfReady change a chain, and only they and a *)
(* start change a ledger.                                                  *)
LEMMA AppendsOrNothing ==
    ASSUME IInv, [Next]_vars
    PROVE  \/ UNCHANGED <<chain, ledger>>
           \/ \E n \in Nodes : Starts(n)
           \/ \E n \in Nodes : \E b : Appends(n, b)
<1>1. ASSUME NEW c \in Channels, NEW blocks, ApplyBlock(c, blocks)
      PROVE  \/ UNCHANGED <<chain, ledger>>
             \/ \E n \in Nodes : \E b : Appends(n, b)
  <2>1. c.to \in Nodes
    BY DEF Channels
  <2>2. \/ UNCHANGED <<chain, ledger>>
        \/ Appends(c.to, Head(blocks))
    BY <1>1 DEF ApplyBlock, Appends
  <2> QED
    BY <2>1, <2>2
<1>2. CASE \E c \in Channels : Receive(c)
  BY <1>1, <1>2 DEF Receive, ReceiveTransaction, ReceiveHandshake, ReceiveGetBlocks,
                    ReceiveBlocks
<1>3. CASE \E n \in Nodes : ApplyRest(n)
  BY <1>1, <1>3 DEF ApplyRest, IInv, ApplyingOK
<1>4. CASE \E n \in Nodes : Produce(n)
  BY <1>4 DEF Produce, Ready, SelectExecutable, CommitBlock, Appends
<1>5. CASE \E n \in Nodes : Restart(n)
  BY <1>5 DEF Restart, Start, Starts
<1> QED
  BY <1>2, <1>3, <1>4, <1>5
     DEF Next, Submit, SendOutbox, SaveKeystore, Connect, Disconnect, Crash, vars

(* What the list is, and that it is the only chain of its length. *)
LogOK ==
    /\ IsSeq(Log) /\ Len(Log) \in Nat
    /\ \E n \in Nodes : Log = chain[n]
    /\ \A n \in Nodes : Len(chain[n]) \in Nat /\ Len(chain[n]) <= Len(Log)
    /\ \A i \in 1..Len(Log) : Log[i] = chain[ValidatorForHeight(i)][i]
    /\ \A n \in Nodes : Len(chain[n]) = Len(Log) => Log = chain[n]

(* Sequences of the same length and the same elements are the same. *)
LEMMA SameElements ==
    ASSUME NEW s, NEW t, IsSeq(s), IsSeq(t), Len(s) = Len(t),
           \A i \in 1..Len(s) : s[i] = t[i]
    PROVE  s = t
<1> DEFINE B == ToSet(s) \cup ToSet(t)
<1>1. s \in Seq(B) /\ t \in Seq(B)
  BY SeqMonotonic DEF IsSeq
<1> HIDE DEF B
<1> QED
  BY <1>1, SeqEqual

(* Every block of a chain is where the validator of its height has it.     *)
LEMMA LogValue == IInv /\ HasLongest => LogOK
<1> SUFFICES ASSUME IInv, HasLongest PROVE LogOK
  OBVIOUS
<1>1. \E s \in {chain[n] : n \in Nodes} : \A n \in Nodes : Height(n) <= Len(s)
  BY DEF HasLongest, Height
<1>2. /\ Log \in {chain[n] : n \in Nodes}
      /\ \A n \in Nodes : Height(n) <= Len(Log)
  BY <1>1 DEF Log
<1>3. PICK n \in Nodes : Log = chain[n]
  BY <1>2
<1>4. \A m \in Nodes : /\ IsSeq(chain[m]) /\ Len(chain[m]) \in Nat
                       /\ \A i \in 1..Len(chain[m]) :
                             chain[m][i] = chain[ValidatorForHeight(i)][i]
  BY IsSeqLen DEF IInv, ChainsOK, AllKnown, Known
<1>5. ASSUME NEW m \in Nodes, Len(chain[m]) = Len(Log)
      PROVE  Log = chain[m]
  BY <1>3, <1>4, <1>5, SameElements
<1> QED
  BY <1>2, <1>3, <1>4, <1>5 DEF Height, LogOK

(* What a block at the end of a chain makes of it. *)
LEMMA AppendsChain ==
    ASSUME IInv, NEW n \in Nodes, NEW b, Appends(n, b)
    PROVE  /\ IsSeq(chain'[n]) /\ chain'[n] = Append(chain[n], b)
           /\ Len(chain'[n]) = Len(chain[n]) + 1
           /\ chain'[n][Len(chain[n]) + 1] = b
           /\ \A m \in Nodes \ {n} : chain'[m] = chain[m]
           /\ \A m \in Nodes : /\ Len(chain[m]) \in Nat
                               /\ \A i \in 1..Len(chain[m]) : chain'[m][i] = chain[m][i]
<1>1. chain' = [chain EXCEPT ![n] = Append(@, b)]
  BY DEF Appends, AppendBlock
<1>2. DOMAIN chain = Nodes /\ \A m \in Nodes : IsSeq(chain[m]) /\ Len(chain[m]) \in Nat
  BY IsSeqLen DEF IInv, ChainsOK, AllKnown
<1>3. chain'[n] = Append(chain[n], b) /\ \A m \in Nodes \ {n} : chain'[m] = chain[m]
  BY <1>1, <1>2
<1> QED
  BY <1>2, <1>3, IsSeqAppend

(* There is a longest chain after a block if there was one before.         *)
LEMMA LongestStays == IInv /\ HasLongest /\ [Next]_vars => HasLongest'
<1> SUFFICES ASSUME IInv, HasLongest, [Next]_vars PROVE HasLongest'
  OBVIOUS
<1>1. CASE UNCHANGED chain
  BY <1>1 DEF HasLongest
<1>2. ASSUME NEW n \in Nodes, NEW b, Appends(n, b) PROVE HasLongest'
  <2>1. PICK k \in Nodes : \A m \in Nodes : Len(chain[m]) <= Len(chain[k])
    BY DEF HasLongest
  <2>2. /\ \A m \in Nodes : Len(chain[m]) \in Nat
        /\ Len(chain'[n]) = Len(chain[n]) + 1
        /\ \A m \in Nodes \ {n} : chain'[m] = chain[m]
    BY <1>2, AppendsChain
  <2>3. CASE Len(chain[n]) = Len(chain[k])
    <3>1. \A m \in Nodes : Len(chain'[m]) <= Len(chain'[n])
      BY <2>1, <2>2, <2>3
    <3> QED
      BY <3>1 DEF HasLongest
  <2>4. CASE Len(chain[n]) # Len(chain[k])
    <3>1. \A m \in Nodes : Len(chain'[m]) <= Len(chain'[k])
      BY <2>1, <2>2, <2>4
    <3> QED
      BY <3>1 DEF HasLongest
  <2> QED
    BY <2>3, <2>4
<1> QED
  BY <1>1, <1>2, AppendsOrNothing DEF Starts

-----------------------------------------------------------------------------
(* No node has a block in the beginning. *)
LEMMA InitShared == Init => HasLongest /\ Shared!Init
<1> SUFFICES ASSUME Init PROVE HasLongest /\ Shared!Init
  OBVIOUS
<1>1. \A n \in Nodes : chain[n] = <<>> /\ ledger[n] = Genesis /\ Len(chain[n]) = 0
  BY DEF Init
<1>2. PICK n \in Nodes : TRUE
  BY ValidatorIsANode
<1>3. HasLongest
  BY <1>1, <1>2 DEF HasLongest
<1>4. Log = <<>>
  <2>1. {chain[m] : m \in Nodes} = {<<>>}
    BY <1>1, <1>2
  <2>2. \A m \in Nodes : Height(m) <= Len(<<>>)
    BY <1>1 DEF Height
  <2> QED
    BY <2>1, <2>2 DEF Log
<1>5. [m \in Nodes |-> Height(m)] = [m \in Nodes |-> 0]
  BY <1>1 DEF Height
<1> QED
  BY <1>3, <1>4, <1>5 DEF Init, Shared!Init

(* b is put at the end of the list. *)
Grows(b) ==
    /\ Log' = Append(Log, b)
    /\ Len(Log') = Len(Log) + 1 /\ Log'[Len(Log')] = b
    /\ \A i \in 1..Len(Log) : Log'[i] = Log[i]

(* A block at the end of a chain is a new one, or the next of those that   *)
(* others have already.                                                    *)
LEMMA AppendsLog ==
    ASSUME IInv, IInv', HasLongest, HasLongest', NEW n \in Nodes, NEW b, Appends(n, b)
    PROVE  /\ Len(chain[n]) \in Nat /\ Len(Log) \in Nat
           /\ \/ Len(chain[n]) = Len(Log) /\ Grows(b)
              \/ Len(chain[n]) < Len(Log) /\ UNCHANGED Log /\ b = Log[Len(chain[n]) + 1]
<1> DEFINE h == Len(chain[n])
<1>1. /\ IsSeq(chain'[n]) /\ chain'[n] = Append(chain[n], b)
      /\ Len(chain'[n]) = h + 1 /\ chain'[n][h + 1] = b
      /\ \A m \in Nodes \ {n} : chain'[m] = chain[m]
      /\ \A m \in Nodes : \A i \in 1..Len(chain[m]) : chain'[m][i] = chain[m][i]
  BY AppendsChain
<1>2. LogOK /\ LogOK'
  BY LogValue, PTL
<1>3. /\ \A m \in Nodes : Len(chain[m]) \in Nat /\ Len(chain[m]) <= Len(Log)
      /\ \A m \in Nodes : Len(chain'[m]) \in Nat /\ Len(chain'[m]) <= Len(Log')
      /\ \E m \in Nodes : Len(Log') = Len(chain'[m])
      /\ \E m \in Nodes : Len(Log) = Len(chain[m])
      /\ Len(Log) \in Nat /\ Len(Log') \in Nat
  BY <1>2 DEF LogOK
<1>7. CASE h = Len(Log)
  <2>1. Log = chain[n]
    BY <1>2, <1>7 DEF LogOK
  <2>2. \A m \in Nodes : Len(chain'[m]) <= h + 1
    BY <1>1, <1>3, <1>7
  <2>3. Len(Log') = h + 1
    BY <1>1, <1>3, <2>2
  <2>4. Log' = chain'[n]
    BY <1>1, <1>2, <2>3 DEF LogOK
  <2>5. Log' = Append(Log, b) /\ Log'[Len(Log')] = b
    BY <1>1, <2>1, <2>3, <2>4
  <2>6. \A i \in 1..Len(Log) : Log'[i] = Log[i]
    BY <1>1, <2>1, <2>4
  <2> QED
    BY <1>3, <1>7, <2>3, <2>5, <2>6 DEF Grows
<1>8. CASE h # Len(Log)
  <2>1. h < Len(Log) /\ h + 1 \in 1..Len(Log) /\ h \in Nat
    BY <1>3, <1>8
  <2>2. \A m \in Nodes : Len(chain[m]) <= Len(chain'[m]) /\ Len(chain'[m]) <= Len(Log)
    BY <1>1, <1>3, <2>1
  <2>3. Len(Log') = Len(Log)
    BY <1>3, <2>2
  <2>4. ASSUME NEW i \in 1..Len(Log) PROVE Log'[i] = Log[i]
    <3> DEFINE v == ValidatorForHeight(i)
    <3>1. PICK m \in Nodes : Log = chain[m]
      BY <1>2 DEF LogOK
    <3>2. v \in Nodes
      BY ValidatorIsANode
    <3>3. Known(chain, chain[m][i]) /\ chain[m][i].height = i
      BY <3>1 DEF IInv, ChainsOK, AllKnown
    <3>4. i \in 1..Len(chain[v])
      BY <1>3, <3>2, <3>3 DEF Known
    <3>5. chain'[v][i] = chain[v][i]
      BY <1>1, <3>2, <3>4
    <3> QED
      BY <1>2, <2>3, <3>5 DEF LogOK
  <2>5. Log' = Log
    BY <1>2, <2>3, <2>4, SameElements DEF LogOK
  <2>6. b = Log[h + 1]
    <3>1. chain'[n][h + 1] = chain'[ValidatorForHeight(h + 1)][h + 1]
      BY <1>1, <2>1 DEF IInv, ChainsOK, AllKnown, Known
    <3>2. Log'[h + 1] = chain'[ValidatorForHeight(h + 1)][h + 1]
      BY <1>2, <2>1, <2>3 DEF LogOK
    <3> QED
      BY <1>1, <2>5, <3>1, <3>2
  <2> QED
    BY <1>3, <2>1, <2>5, <2>6
<1> QED
  BY <1>7, <1>8

(* Either way it is a step of Chain.                                       *)
LEMMA AppendsShared ==
    ASSUME IInv, IInv', HasLongest, HasLongest', NEW n \in Nodes, NEW b, Appends(n, b)
    PROVE  Shared!Next
<1> DEFINE height == [m \in Nodes |-> Height(m)]
           h == Len(chain[n])
<1>1. height[n] = h /\ height' = [height EXCEPT ![n] = @ + 1]
  BY AppendsChain DEF Height
<1>2. /\ ApplyTransactions(b, ledger[n]) # {}
      /\ ledger' = [ledger EXCEPT ![n] = StateAfter(b, @)]
  BY DEF Appends, ValidateBlock, AppendBlock
<1>3. Shared!Extend(n, b)
  BY <1>1, <1>2 DEF Shared!Extend
<1>4. CASE h = Len(Log) /\ Grows(b)
  <2>1. Shared!Mint(n)
    BY <1>1, <1>3, <1>4 DEF Shared!Mint, Grows
  <2> QED
    BY <2>1 DEF Shared!Next
<1>5. CASE h < Len(Log) /\ UNCHANGED Log /\ b = Log[h + 1]
  <2>1. Shared!Copy(n)
    BY <1>1, <1>3, <1>5 DEF Shared!Copy
  <2> QED
    BY <2>1 DEF Shared!Next
<1> QED
  BY <1>4, <1>5, AppendsLog

(* A start changes no account, whatever keys it finds in the keystore.     *)
LEMMA StartsShared ==
    ASSUME DataOK, NEW n \in Nodes, Starts(n)
    PROVE  Shared!Reload(n)
<1>1. /\ ledger' = [ledger EXCEPT ![n] = LoadedState(n)]
      /\ ledger'[n] = LoadedState(n)
  BY DEF Starts, DataOK
<1>2. Persisted(LoadedState(n)) = Persisted(ledger[n])
  BY DEF LoadedState, Persisted
<1>3. UNCHANGED <<Log, [m \in Nodes |-> Height(m)]>>
  BY DEF Starts, Log, Height
<1> QED
  BY <1>1, <1>2, <1>3 DEF Shared!Reload

(* Every step of the network is one of Chain, or changes nothing of it.    *)
LEMMA NextShared ==
    IInv /\ IInv' /\ DataOK /\ HasLongest /\ HasLongest' /\ [Next]_vars
        => [Shared!Next]_Shared!vars
<1> SUFFICES ASSUME IInv, IInv', DataOK, HasLongest, HasLongest', [Next]_vars
             PROVE  [Shared!Next]_Shared!vars
  OBVIOUS
<1>1. CASE UNCHANGED <<chain, ledger>>
  BY <1>1 DEF Shared!vars, Log, Height
<1>2. CASE \E n \in Nodes : \E b : Appends(n, b)
  BY <1>2, AppendsShared
<1>3. ASSUME NEW n \in Nodes, Starts(n) PROVE Shared!Next
  BY <1>3, StartsShared DEF Shared!Next
<1> QED
  BY <1>1, <1>2, <1>3, AppendsOrNothing

(* Together the nodes are one ledger: whatever crashes, gets lost or comes *)
(* late, a node only ever appends the next block of the list all share,    *)
(* and only one that has them all makes a new one (bridge.go).             *)
THEOREM NetworkImplementsChain == Spec => ImplementsChain
<1>1. Spec => [](IInv /\ DataOK)
  BY InitIInv, NextIInv, InitDataOK, NextDataOK, PTL DEF Spec
<1>2. Spec => []HasLongest
  BY <1>1, InitShared, LongestStays, PTL DEF Spec
<1> QED
  BY <1>1, <1>2, InitShared, NextShared, PTL DEF Spec, ImplementsChain, Shared!Spec

-----------------------------------------------------------------------------
(***************************************************************************)
(* Nodes with as many blocks have the same accounts and balances.          *)
(*                                                                         *)
(* The argument: what a transaction does to accounts and balances does not *)
(* depend on the keys that a node knows, only whether it is valid does. So *)
(* there is one list of accounts, one entry for each height of the log,    *)
(* that a block turns into the next at whichever node it is valid, and a   *)
(* node has the accounts of its height. The list is no variable; the       *)
(* invariant says that it exists.                                          *)
(***************************************************************************)
(* All states of A have the accounts that those of B have.                 *)
Alike(A, B) == \A s \in A, t \in B : Persisted(s) = Persisted(t)

(* A transaction does the same where the accounts are the same.            *)
LEMMA StepAlike ==
    ASSUME NEW kind \in {"create", "payment", "close"}, NEW tx, NEW s, NEW t,
           Persisted(s) = Persisted(t)
    PROVE  Persisted(ApplyAs(kind, tx, s)) = Persisted(ApplyAs(kind, tx, t))
<1>1. s.type = t.type /\ s.balance = t.balance
  BY DEF Persisted
<1>2. CASE kind = "create"
  BY <1>1, <1>2 DEF ApplyAs, ApplyCreate, Persisted
<1>3. CASE kind = "payment"
  BY <1>1, <1>3 DEF ApplyAs, ApplyPayment, Persisted
<1>4. CASE kind = "close"
  BY <1>1, <1>4 DEF ApplyAs, ApplyClose, Persisted
<1> QED
  BY <1>2, <1>3, <1>4

(* So do some transactions of a kind, ...                                  *)
LEMMA RunAlike ==
    ASSUME NEW kind \in {"create", "payment", "close"}, NEW T, NEW A, NEW B, Alike(A, B),
           NEW g, NEW h, IsRun(g, kind, A, T), IsRun(h, kind, B, T), NEW seq \in Seq(T)
    PROVE  Alike(g[seq], h[seq])
<1> DEFINE P == {q \in Seq(T) : Alike(g[q], h[q])}
<1>1. <<>> \in P
  BY EmptySeq DEF IsRun
<1>2. ASSUME NEW q \in P, NEW x \in T PROVE Append(q, x) \in P
  <2>1. /\ g[Append(q, x)] =
              {ApplyAs(kind, x, s) : s \in {t \in g[q] : ValidAs(kind, x, t)}}
        /\ h[Append(q, x)] =
              {ApplyAs(kind, x, s) : s \in {t \in h[q] : ValidAs(kind, x, t)}}
    BY DEF IsRun
  <2>2. Append(q, x) \in Seq(T) /\ Alike(g[q], h[q])
    BY AppendProperties
  <2>3. Alike(g[Append(q, x)], h[Append(q, x)])
    <3> SUFFICES ASSUME NEW u \in g[Append(q, x)], NEW v \in h[Append(q, x)]
                 PROVE  Persisted(u) = Persisted(v)
      BY DEF Alike
    <3>1. PICK s \in g[q] : u = ApplyAs(kind, x, s)
      BY <2>1
    <3>2. PICK t \in h[q] : v = ApplyAs(kind, x, t)
      BY <2>1
    <3>3. Persisted(s) = Persisted(t)
      BY <2>2 DEF Alike
    <3> QED
      BY <3>1, <3>2, <3>3, StepAlike
  <2> QED
    BY <2>2, <2>3
<1> HIDE DEF P
<1>3. P \in SUBSET Seq(T)
  BY DEF P
<1>4. P = Seq(T)
  BY <1>1, <1>2, <1>3, Sums!SeqSet
<1> QED
  BY <1>4 DEF P

(* ... and so does a block, at any two nodes where it is valid.            *)
LEMMA BlockAlike ==
    ASSUME NEW s, NEW t, Persisted(s) = Persisted(t), NEW b \in Block,
           ApplyTransactions(b, s) # {}, ApplyTransactions(b, t) # {}
    PROVE  Persisted(StateAfter(b, s)) = Persisted(StateAfter(b, t))
<1> DEFINE T == {u.tx : u \in Transactions}
           S0 == {s}
           T0 == {t}
           S1 == AfterCreates(S0, b.creates)
           T1 == AfterCreates(T0, b.creates)
           S2 == AfterPayments(S1, b.payments)
           T2 == AfterPayments(T1, b.payments)
           S3 == AfterCloses(S2, b.closes)
           T3 == AfterCloses(T2, b.closes)
<1>1. b.creates \in Seq(T) /\ b.payments \in Seq(T) /\ b.closes \in Seq(T)
  BY DEF Block
<1>2. S3 = ApplyTransactions(b, s) /\ T3 = ApplyTransactions(b, t)
  BY DEF ApplyTransactions, AfterCreates, AfterPayments, AfterCloses
<1>3. Alike(S0, T0)
  BY DEF Alike
<1> HIDE DEF S0, T0, T
<1>4. Alike(S1, T1)
  <2> DEFINE g == [q \in Seq(T) |-> AfterCreates(S0, q)]
             h == [q \in Seq(T) |-> AfterCreates(T0, q)]
  <2>1. IsRun(g, "create", S0, T) /\ IsRun(h, "create", T0, T)
    BY Runs
  <2>2. S1 = g[b.creates] /\ T1 = h[b.creates]
    BY <1>1
  <2> HIDE DEF g, h, S1, T1
  <2> QED
    BY <1>1, <1>3, <2>1, <2>2, RunAlike
<1> HIDE DEF S1, T1
<1>5. Alike(S2, T2)
  <2> DEFINE g == [q \in Seq(T) |-> AfterPayments(S1, q)]
             h == [q \in Seq(T) |-> AfterPayments(T1, q)]
  <2>1. IsRun(g, "payment", S1, T) /\ IsRun(h, "payment", T1, T)
    BY Runs
  <2>2. S2 = g[b.payments] /\ T2 = h[b.payments]
    BY <1>1
  <2> HIDE DEF g, h, S2, T2
  <2> QED
    BY <1>1, <1>4, <2>1, <2>2, RunAlike
<1> HIDE DEF S2, T2
<1>6. Alike(S3, T3)
  <2> DEFINE g == [q \in Seq(T) |-> AfterCloses(S2, q)]
             h == [q \in Seq(T) |-> AfterCloses(T2, q)]
  <2>1. IsRun(g, "close", S2, T) /\ IsRun(h, "close", T2, T)
    BY Runs
  <2>2. S3 = g[b.closes] /\ T3 = h[b.closes]
    BY <1>1
  <2> HIDE DEF g, h, S3, T3
  <2> QED
    BY <1>1, <1>5, <2>1, <2>2, RunAlike
<1> HIDE DEF S3, T3
<1>7. StateAfter(b, s) \in S3 /\ StateAfter(b, t) \in T3
  BY <1>2 DEF StateAfter
<1> QED
  BY <1>6, <1>7 DEF Alike

-----------------------------------------------------------------------------
(* The block b leads from accounts x to accounts y.                        *)
LeadsTo(b, x, y) ==
    \E s : /\ Persisted(s) = x
           /\ ApplyTransactions(b, s) # {}
           /\ Persisted(StateAfter(b, s)) = y

(* x gives the accounts at each height.                                    *)
IsHistory(x) ==
    /\ x[0] = Persisted(Genesis)
    /\ \A i \in 0..Len(Log) - 1 : LeadsTo(Log[i + 1], x[i], x[i + 1])
    /\ \A n \in Nodes : Persisted(ledger[n]) = x[Len(chain[n])]

HasHistory == DOMAIN ledger = Nodes /\ \E x : IsHistory(x)

(* The genesis has the accounts of height 0.                               *)
LEMMA InitHistory == Init => HasHistory
<1> SUFFICES ASSUME Init PROVE HasHistory
  OBVIOUS
<1>1. \A n \in Nodes : Len(chain[n]) = 0 /\ ledger[n] = Genesis
  BY DEF Init
<1>2. Log = <<>>
  BY InitShared DEF Shared!Init
<1> DEFINE x == [i \in {0} |-> Persisted(Genesis)]
<1>3. x[0] = Persisted(Genesis)
  OBVIOUS
<1> HIDE DEF x
<1>4. Len(Log) = 0 /\ 0..Len(Log) - 1 = {}
  BY <1>2
<1>5. IsHistory(x)
  BY <1>1, <1>3, <1>4 DEF IsHistory
<1> QED
  BY <1>5 DEF HasHistory, Init

(* A block that n appends leads from the accounts at its height, as they   *)
(* are listed, to those that n has afterwards.                             *)
LEMMA AppendsLead ==
    ASSUME NEW n \in Nodes, NEW b, Appends(n, b), DOMAIN ledger = Nodes,
           NEW x, IsHistory(x)
    PROVE  /\ LeadsTo(b, x[Len(chain[n])], Persisted(ledger'[n]))
           /\ \A m \in Nodes \ {n} : ledger'[m] = ledger[m]
<1>1. /\ ApplyTransactions(b, ledger[n]) # {}
      /\ ledger' = [ledger EXCEPT ![n] = StateAfter(b, ledger[n])]
  BY DEF Appends, ValidateBlock, AppendBlock
<1>2. ledger'[n] = StateAfter(b, ledger[n]) /\ \A m \in Nodes \ {n} : ledger'[m] = ledger[m]
  BY <1>1
<1> QED
  BY <1>1, <1>2 DEF LeadsTo, IsHistory

(* Two ways from the same accounts by the same block lead to the same.     *)
LEMMA LeadsToOne ==
    ASSUME NEW b \in Block, NEW x, NEW y, NEW z, LeadsTo(b, x, y), LeadsTo(b, x, z)
    PROVE  y = z
<1>1. PICK s : /\ Persisted(s) = x /\ ApplyTransactions(b, s) # {}
               /\ Persisted(StateAfter(b, s)) = y
  BY DEF LeadsTo
<1>2. PICK t : /\ Persisted(t) = x /\ ApplyTransactions(b, t) # {}
               /\ Persisted(StateAfter(b, t)) = z
  BY DEF LeadsTo
<1> QED
  BY <1>1, <1>2, BlockAlike

(* A new block has no accounts after it yet; an old one has.               *)
LEMMA NextHistory ==
    ASSUME IInv, IInv', HasLongest, HasLongest', HasHistory, [Next]_vars
    PROVE  HasHistory'
<1>1. PICK x : IsHistory(x)
  BY DEF HasHistory
<1>2. CASE UNCHANGED <<chain, ledger>>
  <2>1. IsHistory(x)'
    BY <1>1, <1>2 DEF IsHistory, Log, Height
  <2> QED
    BY <2>1, <1>2 DEF HasHistory
<1>3. ASSUME NEW n \in Nodes, Starts(n) PROVE HasHistory'
  <2>1. /\ UNCHANGED chain
        /\ DOMAIN ledger' = Nodes /\ ledger'[n] = LoadedState(n)
        /\ \A m \in Nodes \ {n} : ledger'[m] = ledger[m]
    BY <1>3 DEF Starts, HasHistory
  <2>2. \A m \in Nodes : Persisted(ledger'[m]) = Persisted(ledger[m])
    BY <2>1 DEF LoadedState, Persisted
  <2>3. UNCHANGED Log
    BY <2>1 DEF Log, Height
  <2>4. IsHistory(x)'
    BY <1>1, <2>1, <2>2, <2>3 DEF IsHistory
  <2> QED
    BY <2>1, <2>4 DEF HasHistory
<1>4. ASSUME NEW n \in Nodes, NEW b, Appends(n, b) PROVE HasHistory'
  <2> DEFINE h == Len(chain[n])
  <2>1. /\ h \in Nat /\ Len(Log) \in Nat
        /\ \/ h = Len(Log) /\ Grows(b)
           \/ h < Len(Log) /\ UNCHANGED Log /\ b = Log[h + 1]
    BY <1>4, AppendsLog
  <2>2. /\ Len(chain'[n]) = h + 1 /\ chain'[n][h + 1] = b /\ IsSeq(chain'[n])
        /\ \A m \in Nodes \ {n} : chain'[m] = chain[m]
    BY <1>4, AppendsChain
  <2>3. b \in Block
    BY <2>1, <2>2 DEF IInv, ChainsOK, AllKnown, Known
  <2>4. /\ LeadsTo(b, x[h], Persisted(ledger'[n]))
        /\ \A m \in Nodes \ {n} : ledger'[m] = ledger[m]
    BY <1>1, <1>4, AppendsLead DEF HasHistory
  <2>5. DOMAIN ledger' = Nodes
    BY <1>4 DEF Appends, AppendBlock, HasHistory
  <2>6. \A m \in Nodes : Len(chain[m]) \in Nat /\ Len(chain[m]) <= Len(Log)
    BY LogValue DEF LogOK
  <2> HIDE DEF h
  <2>7. CASE h = Len(Log) /\ Grows(b)
    <3>0. PICK k, last : k = h /\ last = Persisted(ledger'[n])
      OBVIOUS
    <3> DEFINE y == [i \in 0..k + 1 |-> IF i <= k THEN x[i] ELSE last]
    <3>1. (\A i \in 0..h : y[i] = x[i]) /\ y[h + 1] = Persisted(ledger'[n])
      BY <2>1, <3>0
    <3> HIDE DEF y
    <3>2. y[0] = Persisted(Genesis)
      BY <1>1, <2>1, <3>1 DEF IsHistory
    <3>3. ASSUME NEW i \in 0..Len(Log') - 1 PROVE LeadsTo(Log'[i + 1], y[i], y[i + 1])
      <4>1. Len(Log') = h + 1 /\ Log'[h + 1] = b /\ \A j \in 1..h : Log'[j] = Log[j]
        BY <2>7 DEF Grows
      <4>2. CASE i = h
        BY <2>1, <2>4, <3>1, <4>1, <4>2
      <4>3. CASE i # h
        <5>1. i \in 0..Len(Log) - 1 /\ i \in 0..h /\ i + 1 \in 0..h /\ i + 1 \in 1..h
          BY <2>1, <2>7, <4>1, <4>3
        <5>2. LeadsTo(Log[i + 1], x[i], x[i + 1])
          BY <1>1, <5>1 DEF IsHistory
        <5> QED
          BY <3>1, <4>1, <5>1, <5>2
      <4> QED
        BY <4>2, <4>3
    <3>4. ASSUME NEW m \in Nodes PROVE Persisted(ledger'[m]) = y[Len(chain'[m])]
      <4>1. CASE m = n
        BY <2>2, <3>1, <4>1
      <4>2. CASE m # n
        <5>1. chain'[m] = chain[m] /\ ledger'[m] = ledger[m] /\ Len(chain[m]) \in 0..h
          BY <2>1, <2>2, <2>4, <2>6, <2>7, <4>2
        <5> QED
          BY <1>1, <3>1, <5>1 DEF IsHistory
      <4> QED
        BY <4>1, <4>2
    <3>5. IsHistory(y)'
      BY <3>2, <3>3, <3>4 DEF IsHistory
    <3> QED
      BY <2>5, <3>5 DEF HasHistory
  <2>8. CASE h < Len(Log) /\ UNCHANGED Log /\ b = Log[h + 1]
    <3>1. h \in 0..Len(Log) - 1
      BY <2>1, <2>8
    <3>2. LeadsTo(b, x[h], x[h + 1])
      BY <1>1, <2>8, <3>1 DEF IsHistory
    <3>3. Persisted(ledger'[n]) = x[h + 1]
      BY <2>3, <2>4, <3>2, LeadsToOne
    <3>4. ASSUME NEW m \in Nodes PROVE Persisted(ledger'[m]) = x[Len(chain'[m])]
      BY <1>1, <2>2, <2>4, <3>3 DEF IsHistory
    <3>5. IsHistory(x)'
      BY <1>1, <2>8, <3>4 DEF IsHistory
    <3> QED
      BY <2>5, <3>5 DEF HasHistory
  <2> QED
    BY <2>1, <2>7, <2>8
<1> QED
  BY <1>2, <1>3, <1>4, AppendsOrNothing

(* Nodes with as many blocks have the same accounts and balances, however  *)
(* often they crashed and whichever peer they got the blocks from, and     *)
(* whatever keys each of them knows (chain/blockchain.go, New).            *)
THEOREM NetworkReplicasAgree == Spec => []ReplicasAgree
<1>1. Spec => [](IInv /\ DataOK)
  BY InitIInv, NextIInv, InitDataOK, NextDataOK, PTL DEF Spec
<1>2. Spec => []HasLongest
  BY <1>1, InitShared, LongestStays, PTL DEF Spec
<1>3. IInv /\ IInv' /\ HasLongest /\ HasLongest' /\ HasHistory /\ [Next]_vars => HasHistory'
  BY NextHistory
<1>4. Spec => []HasHistory
  BY <1>1, <1>2, <1>3, InitHistory, PTL DEF Spec
<1>5. HasHistory => ReplicasAgree
  BY DEF HasHistory, IsHistory, ReplicasAgree, Shared!SameHeightSameAccounts, Height
<1> QED
  BY <1>4, <1>5, PTL
=============================================================================
