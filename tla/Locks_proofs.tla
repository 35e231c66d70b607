---------------------------- MODULE Locks_proofs ----------------------------
(***************************************************************************)
(* What an event stream shows, and that the goroutines of two nodes never  *)
(* wait for each other in a circle but for one: for any requests, streams, *)
(* heights and capacity of the sockets.                                    *)
(*                                                                         *)
(* Three invariants of the steps that goroutines still have to make, each  *)
(* proved by going through what the code strings together (Commit, TryAdd, *)
(* Broadcast, the handlers, applyBlocks).                                  *)
(*   DataOK: who appends a block appends the next one, once, and only the  *)
(*     producer appends one that the validator has not; what nodes send is *)
(*     of blocks that the validator has. So chains grow by one, and none   *)
(*     is ahead of the validator's.                                        *)
(*   ShownOK: the parts that a stream has shown since it noted a height    *)
(*     are of that height or a later one; the others are still to come.    *)
(*   LocksOK: the steps of a goroutine are a path from the locks it holds  *)
(*     to none. On it locks are taken, and looked at, in the order of      *)
(*     their rank; the lock of the connections is taken by who holds no    *)
(*     other and is no reader, and only he writes with it; readers write   *)
(*     with none.                                                          *)
(* When all wait, the highest lock held cannot be, for its holder would    *)
(* wait for a higher one: only that of the connections is left, and its    *)
(* holder writes. The socket to the peer is full, so its reader, which     *)
(* does not read, writes, or waits to leave for one that does: to a full   *)
(* socket again, whose reader does likewise.                               *)
(***************************************************************************)
EXTENDS Locks, SequenceTheorems, TLAPS

(* A sequence, of whatever it holds. *)
IsSeq(s) == s \in Seq({s[i] : i \in DOMAIN s})

(* A sequence over a set is one.                                         *)
LEMMA IsSeqIn ==
    ASSUME NEW T, NEW s \in Seq(T)
    PROVE  IsSeq(s) /\ Len(s) \in Nat /\ DOMAIN s = 1..Len(s)
BY DEF IsSeq

(* s begins with k steps that give back a lock, no more, and goes on with rest. *)
Drops(s, k, rest) ==
    /\ IsSeq(s) /\ IsSeq(rest)
    /\ k \in 0..Len(s) /\ Len(rest) = Len(s) - k
    /\ \A i \in 1..k : s[i].do = "release"
    /\ k < Len(s) => s[k + 1].do # "release"
    /\ \A i \in 1..Len(rest) : rest[i] = s[k + i]

GivenBack(s, k) == {s[i].lock : i \in 1..k}

(* What Then leaves of the steps is what follows the locks given back.   *)
LEMMA DropsReleased ==
    ASSUME NEW s, NEW k, NEW rest, Drops(s, k, rest)
    PROVE  Released(s) = k /\ SubSeq(s, k + 1, Len(s)) = rest
<1>1. Len(s) \in Nat /\ k \in 0..Len(s) /\ IsSeq(s) /\ IsSeq(rest)
  BY DEF Drops, IsSeq
<1>2. Released(s) = k
  <2> DEFINE Is(j) == /\ \A i \in 1..j : s[i].do = "release"
                      /\ j < Len(s) => s[j + 1].do # "release"
  <2>1. Is(k)
    BY DEF Drops
  <2>2. ASSUME NEW j \in 0..Len(s), Is(j) PROVE j = k
    <3>1. CASE j < k
      BY <1>1, <2>1, <2>2, <3>1
    <3>2. CASE k < j
      BY <1>1, <2>1, <2>2, <3>2
    <3> QED
      BY <1>1, <3>1, <3>2
  <2>3. Released(s) = CHOOSE j \in 0..Len(s) : Is(j)
    BY DEF Released
  <2> HIDE DEF Is
  <2> QED
    BY <1>1, <2>1, <2>2, <2>3
<1>3. SubSeq(s, k + 1, Len(s)) = rest
  <2> DEFINE T == {s[i] : i \in DOMAIN s}
             U == T \cup {rest[i] : i \in DOMAIN rest}
  <2>1. s \in Seq(U) /\ rest \in Seq(U)
    BY <1>1, SeqMonotonic DEF IsSeq
  <2>2. \A i \in 1..Len(rest) : rest[i] = s[k + i]
    BY DEF Drops
  <2>3. Len(rest) = Len(s) - k
    BY DEF Drops
  <2> HIDE DEF U
  <2>4. /\ SubSeq(s, k + 1, Len(s)) \in Seq(U)
        /\ Len(SubSeq(s, k + 1, Len(s))) = Len(s) - k
        /\ \A i \in 1..Len(s) - k : SubSeq(s, k + 1, Len(s))[i] = s[k + i]
    BY <1>1, <2>1
  <2> QED
    BY <1>1, <2>1, <2>2, <2>3, <2>4, SeqEqual
<1> QED
  BY <1>2, <1>3

(* u is what r says, and then what s says. *)
IsJoin(r, s, u) ==
    /\ IsSeq(r) /\ IsSeq(s) /\ IsSeq(u) /\ Len(u) = Len(r) + Len(s)
    /\ \A i \in 1..Len(r) : u[i] = r[i]
    /\ \A i \in 1..Len(s) : u[Len(r) + i] = s[i]

(* Of a concatenation.                                                   *)
LEMMA JoinIs ==
    ASSUME NEW r, NEW s, IsSeq(r), IsSeq(s)
    PROVE  IsJoin(r, s, r \o s)
<1> DEFINE U == {s[i] : i \in DOMAIN s} \cup {r[i] : i \in DOMAIN r}
           u == r \o s
<1>1. s \in Seq(U) /\ r \in Seq(U)
  BY SeqMonotonic DEF IsSeq
<1> HIDE DEF U
<1>2. u \in Seq(U) /\ Len(u) = Len(r) + Len(s) /\ Len(r) \in Nat /\ Len(s) \in Nat
  BY <1>1
<1>3. /\ \A i \in 1..Len(r) : u[i] = r[i]
      /\ \A i \in 1..Len(s) : u[Len(r) + i] = s[i]
  BY <1>1
<1> HIDE DEF u
<1>4. IsSeq(u)
  BY <1>2, IsSeqIn
<1> QED
  BY <1>2, <1>3, <1>4 DEF IsJoin, u

(* Of the head and the tail.                                             *)
LEMMA TailIs ==
    ASSUME NEW s, IsSeq(s), s # <<>>
    PROVE  /\ IsSeq(Tail(s)) /\ Len(s) \in Nat \ {0} /\ Len(Tail(s)) = Len(s) - 1
           /\ Head(s) = s[1]
           /\ \A i \in 1..Len(Tail(s)) : Tail(s)[i] = s[1 + i] /\ 1 + i \in 1..Len(s)
<1> DEFINE T == {s[i] : i \in DOMAIN s}
<1>1. s \in Seq(T)
  BY DEF IsSeq
<1> HIDE DEF T
<1>2. /\ Tail(s) \in Seq(T) /\ Len(s) \in Nat \ {0} /\ Len(Tail(s)) = Len(s) - 1
      /\ Head(s) = s[1]
      /\ \A i \in 1..Len(Tail(s)) : Tail(s)[i] = s[1 + i] /\ 1 + i \in 1..Len(s)
  BY <1>1
<1> QED
  BY <1>2, IsSeqIn

(* Steps that do not begin by giving back a lock are all still to come.    *)
LEMMA Keeps ==
    ASSUME NEW s, IsSeq(s), s # <<>> => Head(s).do # "release"
    PROVE  Drops(s, 0, s)
<1>1. Len(s) \in Nat /\ (s # <<>> => Head(s) = s[1]) /\ (Len(s) > 0 => s # <<>>)
  BY DEF IsSeq
<1> QED
  BY <1>1 DEF Drops

-----------------------------------------------------------------------------
(***************************************************************************)
(* What the steps to come say of blocks. Only the reader of a follower and *)
(* the producer append one, the next, and once: then, what it announces is *)
(* a block that the validator has.                                         *)
(***************************************************************************)
Announcements(top) == [type : {"new_block", "blocks"}, heights : Seq(0..top)]

Messages(top) ==
    {Handshake(h) : h \in Nat} \cup {GetBlocks(h) : h \in Nat}
    \cup Announcements(top) \cup {Gossip(role) : role \in {"payment", "create", "close"}}

PlainStep(g, x, top) ==
    /\ x.do # "append"
    /\ x.do = "write" => x.message \in Messages(top)
    /\ x.do = "apply" => g.role = "reader" /\ x.arg \in Announcements(top)
    /\ x.do = "produce" => g.role = "producer"
    /\ x.do = "show" => g.role = "stream"
    /\ x.do \in {"compare", "serve"} => x.arg \in Nat

Plain(g, s, top) == IsSeq(s) /\ \A i \in 1..Len(s) : PlainStep(g, s[i], top)

(* Who may append to a chain of height h, and the top after it. *)
MayAppend(g, h, top) ==
    \/ g.role = "producer"
    \/ g.role = "reader" /\ g.node # Validator /\ h + 1 <= top

TopAfter(g, h, top) == IF g.role = "producer" THEN h + 1 ELSE top

Appends(g, s, h, top) ==
    /\ IsSeq(s) /\ MayAppend(g, h, top)
    /\ \E k \in 1..Len(s) :
          /\ s[k].do = "append" /\ s[k].arg = h + 1
          /\ \A i \in 1..k - 1 : PlainStep(g, s[i], top)
          /\ \A i \in k + 1..Len(s) : PlainStep(g, s[i], TopAfter(g, h, top))

(* No step follows one that goes on with another handler. *)
Ends(s) == \A i \in 1..Len(s) - 1 : s[i].do \notin {"apply", "produce"}

Sound(g, s, h, top) == (Plain(g, s, top) \/ Appends(g, s, h, top)) /\ Ends(s)

(* Messages that may be sent stay so when the validator makes a block.   *)
LEMMA MessagesGrow ==
    ASSUME NEW a \in Nat, NEW b \in Nat, a <= b
    PROVE  Announcements(a) \subseteq Announcements(b) /\ Messages(a) \subseteq Messages(b)
<1>1. Seq(0..a) \subseteq Seq(0..b)
  <2>1. 0..a \subseteq 0..b
    OBVIOUS
  <2> QED
    BY <2>1, SeqMonotonic
<1>2. Announcements(a) \subseteq Announcements(b)
  BY <1>1 DEF Announcements
<1> QED
  BY <1>2, Zenon DEF Messages

(* So do the steps that send them.                                       *)
LEMMA PlainStepGrows ==
    ASSUME NEW g, NEW x, NEW a \in Nat, NEW b \in Nat, a <= b, PlainStep(g, x, a)
    PROVE  PlainStep(g, x, b)
BY MessagesGrow DEF PlainStep

(* Plain steps after plain steps.                                        *)
LEMMA PlainJoin ==
    ASSUME NEW g, NEW r, NEW s, NEW top, Plain(g, r, top), Plain(g, s, top)
    PROVE  Plain(g, r \o s, top)
<1>1. IsSeq(r) /\ IsSeq(s)
  BY DEF Plain
<1>2. /\ IsSeq(r \o s) /\ Len(r) \in Nat /\ Len(s) \in Nat /\ Len(r \o s) = Len(r) + Len(s)
      /\ \A i \in 1..Len(r) : (r \o s)[i] = r[i]
      /\ \A i \in 1..Len(s) : (r \o s)[Len(r) + i] = s[i]
  BY <1>1, JoinIs DEF IsJoin
<1> SUFFICES ASSUME NEW i \in 1..Len(r) + Len(s) PROVE PlainStep(g, (r \o s)[i], top)
  BY <1>2 DEF Plain
<1>3. CASE i <= Len(r)
  BY <1>2, <1>3 DEF Plain
<1>4. CASE ~(i <= Len(r))
  <2>1. i - Len(r) \in 1..Len(s) /\ (r \o s)[i] = s[i - Len(r)]
    BY <1>2, <1>4
  <2> QED
    BY <2>1 DEF Plain
<1> QED
  BY <1>3, <1>4

(* Steps before it, and steps after it, that append nothing.               *)
LEMMA AppendsJoin ==
    ASSUME NEW g, NEW r, NEW s, NEW t, NEW h \in Nat, NEW top \in Nat,
           Plain(g, r, top), Appends(g, s, h, top), Plain(g, t, TopAfter(g, h, top))
    PROVE  Appends(g, r \o s, h, top) /\ Appends(g, s \o t, h, top)
<1>1. IsSeq(r) /\ IsSeq(s) /\ IsSeq(t) /\ MayAppend(g, h, top)
  BY DEF Plain, Appends
<1>2. /\ IsSeq(r \o s) /\ Len(r) \in Nat /\ Len(s) \in Nat /\ Len(r \o s) = Len(r) + Len(s)
      /\ \A i \in 1..Len(r) : (r \o s)[i] = r[i]
      /\ \A i \in 1..Len(s) : (r \o s)[Len(r) + i] = s[i]
  BY <1>1, JoinIs DEF IsJoin
<1>3. /\ IsSeq(s \o t) /\ Len(t) \in Nat /\ Len(s \o t) = Len(s) + Len(t)
      /\ \A i \in 1..Len(s) : (s \o t)[i] = s[i]
      /\ \A i \in 1..Len(t) : (s \o t)[Len(s) + i] = t[i]
  BY <1>1, JoinIs DEF IsJoin
<1>4. PICK k \in 1..Len(s) :
          /\ s[k].do = "append" /\ s[k].arg = h + 1
          /\ \A i \in 1..k - 1 : PlainStep(g, s[i], top)
          /\ \A i \in k + 1..Len(s) : PlainStep(g, s[i], TopAfter(g, h, top))
  BY DEF Appends
<1>5. Appends(g, r \o s, h, top)
  <2> DEFINE u == r \o s
             m == Len(r) + k
  <2>1. m \in 1..Len(u) /\ u[m] = s[k]
    BY <1>2
  <2>2. ASSUME NEW i \in 1..m - 1 PROVE PlainStep(g, u[i], top)
    <3>1. CASE i <= Len(r)
      BY <1>2, <3>1 DEF Plain
    <3>2. CASE ~(i <= Len(r))
      <4>1. i - Len(r) \in 1..k - 1 /\ u[i] = s[i - Len(r)]
        BY <1>2, <3>2
      <4> QED
        BY <1>4, <4>1
    <3> QED
      BY <3>1, <3>2
  <2>3. ASSUME NEW i \in m + 1..Len(u) PROVE PlainStep(g, u[i], TopAfter(g, h, top))
    <3>1. i - Len(r) \in k + 1..Len(s) /\ i - Len(r) \in 1..Len(s)
      BY <1>2
    <3>2. u[i] = s[i - Len(r)]
      BY <1>2, <3>1
    <3> QED
      BY <1>4, <3>1, <3>2
  <2> HIDE DEF u
  <2>4. Appends(g, u, h, top)
    BY <1>1, <1>2, <1>4, <2>1, <2>2, <2>3 DEF Appends, u
  <2> QED
    BY <2>4 DEF u
<1>6. Appends(g, s \o t, h, top)
  <2> DEFINE u == s \o t
  <2>1. k \in 1..Len(u) /\ u[k] = s[k]
    BY <1>3
  <2>2. ASSUME NEW i \in 1..k - 1 PROVE PlainStep(g, u[i], top)
    BY <1>3, <1>4
  <2>3. ASSUME NEW i \in k + 1..Len(u) PROVE PlainStep(g, u[i], TopAfter(g, h, top))
    <3>1. CASE i <= Len(s)
      BY <1>3, <1>4, <3>1
    <3>2. CASE ~(i <= Len(s))
      <4>1. i - Len(s) \in 1..Len(t) /\ u[i] = t[i - Len(s)]
        BY <1>3, <3>2
      <4> QED
        BY <4>1 DEF Plain
    <3> QED
      BY <3>1, <3>2
  <2> HIDE DEF u
  <2>4. Appends(g, u, h, top)
    BY <1>1, <1>3, <1>4, <2>1, <2>2, <2>3 DEF Appends, u
  <2> QED
    BY <2>4 DEF u
<1> QED
  BY <1>5, <1>6

(* What is left of such steps, when the first give back locks.             *)
LEMMA SoundRest ==
    ASSUME NEW g, NEW s, NEW k, NEW rest, NEW h, NEW top,
           Sound(g, s, h, top), Drops(s, k, rest)
    PROVE  Sound(g, rest, h, top)
<1>0. IsSeq(s) /\ IsSeq(rest) /\ Len(s) \in Nat /\ Len(rest) \in Nat
  BY DEF Drops, IsSeq
<1>1. /\ IsSeq(rest) /\ k \in Nat /\ Len(s) \in Nat /\ Len(rest) = Len(s) - k /\ k <= Len(s)
      /\ \A i \in 1..k : s[i].do = "release"
      /\ \A i \in 1..Len(rest) : rest[i] = s[k + i] /\ k + i \in 1..Len(s)
  BY <1>0 DEF Drops
<1>2. Ends(rest)
  BY <1>1 DEF Sound, Ends
<1>3. CASE Plain(g, s, top)
  BY <1>1, <1>2, <1>3 DEF Plain, Sound
<1>4. CASE Appends(g, s, h, top)
  <2>1. PICK j \in 1..Len(s) :
          /\ s[j].do = "append" /\ s[j].arg = h + 1
          /\ \A i \in 1..j - 1 : PlainStep(g, s[i], top)
          /\ \A i \in j + 1..Len(s) : PlainStep(g, s[i], TopAfter(g, h, top))
    BY <1>4 DEF Appends
  <2>2. j > k
    BY <1>1, <2>1
  <2>3. j - k \in 1..Len(rest) /\ rest[j - k] = s[j]
    BY <1>1, <2>2
  <2>4. \A i \in 1..(j - k) - 1 : PlainStep(g, rest[i], top)
    <3> TAKE i \in 1..(j - k) - 1
    <3>1. k + i \in 1..j - 1 /\ i \in 1..Len(rest)
      BY <1>1, <2>2
    <3> QED
      BY <1>1, <2>1, <3>1
  <2>5. \A i \in (j - k) + 1..Len(rest) : PlainStep(g, rest[i], TopAfter(g, h, top))
    <3> TAKE i \in (j - k) + 1..Len(rest)
    <3>1. k + i \in j + 1..Len(s) /\ i \in 1..Len(rest)
      BY <1>1, <2>2
    <3> QED
      BY <1>1, <2>1, <3>1
  <2>6. Appends(g, rest, h, top)
    BY <1>1, <1>4, <2>1, <2>3, <2>4, <2>5 DEF Appends
  <2> QED
    BY <1>2, <2>6 DEF Sound
<1> QED
  BY <1>3, <1>4 DEF Sound

(* What is left after a step that does not append.                         *)
LEMMA SoundTail ==
    ASSUME NEW g, NEW s, NEW h, NEW top, Sound(g, s, h, top),
           s # <<>>, Head(s).do # "append"
    PROVE  Sound(g, Tail(s), h, top)
<1> DEFINE rest == Tail(s)
<1>1. IsSeq(s)
  BY DEF Sound, Plain, Appends
<1>2. /\ IsSeq(rest) /\ Len(s) \in Nat /\ Len(rest) = Len(s) - 1 /\ Head(s) = s[1]
      /\ \A i \in 1..Len(rest) : rest[i] = s[1 + i] /\ 1 + i \in 1..Len(s)
  BY <1>1, TailIs
<1> HIDE DEF rest
<1>3. Ends(rest)
  BY <1>2 DEF Sound, Ends
<1>4. CASE Plain(g, s, top)
  BY <1>2, <1>3, <1>4 DEF Plain, Sound, rest
<1>5. CASE Appends(g, s, h, top)
  <2>1. PICK j \in 1..Len(s) :
          /\ s[j].do = "append" /\ s[j].arg = h + 1
          /\ \A i \in 1..j - 1 : PlainStep(g, s[i], top)
          /\ \A i \in j + 1..Len(s) : PlainStep(g, s[i], TopAfter(g, h, top))
    BY <1>5 DEF Appends
  <2>2. j > 1
    BY <1>2, <2>1
  <2>3. j - 1 \in 1..Len(rest) /\ rest[j - 1] = s[j]
    BY <1>2, <2>2
  <2>4. \A i \in 1..(j - 1) - 1 : PlainStep(g, rest[i], top)
    <3> TAKE i \in 1..(j - 1) - 1
    <3>1. 1 + i \in 1..j - 1 /\ i \in 1..Len(rest)
      BY <1>2, <2>2
    <3> QED
      BY <1>2, <2>1, <3>1
  <2>5. \A i \in (j - 1) + 1..Len(rest) : PlainStep(g, rest[i], TopAfter(g, h, top))
    <3> TAKE i \in (j - 1) + 1..Len(rest)
    <3>1. 1 + i \in j + 1..Len(s) /\ i \in 1..Len(rest)
      BY <1>2, <2>2
    <3> QED
      BY <1>2, <2>1, <3>1
  <2>6. Appends(g, rest, h, top)
    BY <1>2, <1>5, <2>1, <2>3, <2>4, <2>5 DEF Appends
  <2> QED
    BY <1>3, <2>6 DEF Sound, rest
<1> QED
  BY <1>4, <1>5 DEF Sound

(* No step goes on with another handler. *)
Steady(s) == IsSeq(s) /\ \A i \in 1..Len(s) : s[i].do \notin {"apply", "produce"}

(* Steps after steps that go on with no other handler.                   *)
LEMMA EndsJoin ==
    ASSUME NEW r, NEW s, Steady(r), IsSeq(s)
    PROVE  (Ends(s) => Ends(r \o s)) /\ (Steady(s) => Steady(r \o s))
<1>1. /\ IsSeq(r \o s) /\ Len(r) \in Nat /\ Len(s) \in Nat /\ Len(r \o s) = Len(r) + Len(s)
      /\ \A i \in 1..Len(r) : (r \o s)[i] = r[i]
      /\ \A i \in 1..Len(s) : (r \o s)[Len(r) + i] = s[i]
  BY JoinIs DEF IsJoin, Steady
<1>2. ASSUME NEW i \in 1..Len(r) + Len(s)
      PROVE  \/ (r \o s)[i].do \notin {"apply", "produce"}
             \/ i - Len(r) \in 1..Len(s) /\ (r \o s)[i] = s[i - Len(r)]
  <2>1. CASE i <= Len(r)
    BY <1>1, <2>1 DEF Steady
  <2>2. CASE ~(i <= Len(r))
    <3>1. i - Len(r) \in 1..Len(s) /\ (r \o s)[Len(r) + (i - Len(r))] = s[i - Len(r)]
      BY <1>1, <2>2
    <3> QED
      BY <1>1, <3>1
  <2> QED
    BY <2>1, <2>2
<1>3. ASSUME Ends(s) PROVE Ends(r \o s)
  <2> SUFFICES ASSUME NEW i \in 1..Len(r \o s) - 1
               PROVE  (r \o s)[i].do \notin {"apply", "produce"}
    BY DEF Ends
  <2>1. i \in 1..Len(r) + Len(s) /\ (i - Len(r) \in 1..Len(s) => i - Len(r) \in 1..Len(s) - 1)
    BY <1>1
  <2> QED
    BY <1>2, <1>3, <2>1 DEF Ends
<1>4. ASSUME Steady(s) PROVE Steady(r \o s)
  BY <1>1, <1>2, <1>4 DEF Steady
<1> QED
  BY <1>3, <1>4

(* Steps that say nothing of blocks. *)
Quiet(s) ==
    IsSeq(s) /\ \A i \in 1..Len(s) :
        s[i].do \notin {"append", "write", "apply", "produce", "show", "compare", "serve"}

(* Steps about locks alone are plain.                                    *)
LEMMA QuietIsSound ==
    ASSUME NEW g, NEW s, NEW top, Quiet(s)
    PROVE  Plain(g, s, top) /\ Steady(s)
BY DEF Quiet, Plain, PlainStep, Steady

(* Steps that go on with no other handler end well.                      *)
LEMMA SteadyIsSound ==
    ASSUME NEW g, NEW s, NEW h, NEW top, Steady(s),
           Plain(g, s, top) \/ Appends(g, s, h, top)
    PROVE  Sound(g, s, h, top)
<1>1. Ends(s)
  BY DEF Steady, Ends, IsSeq
<1> QED
  BY <1>1 DEF Sound

(* Holding, giving back and looking under locks are such steps.          *)
LEMMA HoldAndRelease ==
    ASSUME NEW l
    PROVE  Quiet(<<Hold(l)>>) /\ Quiet(<<Release(l)>>) /\ Quiet(<<Visit(l)>>)
BY DEF Quiet, Hold, Release, Visit, IsSeq

(* Within: plain steps under a lock.                                     *)
LEMMA PlainWithin ==
    ASSUME NEW g, NEW s, NEW top, NEW l, Plain(g, s, top), Steady(s)
    PROVE  Plain(g, Within(l, s), top) /\ Steady(Within(l, s))
<1> DEFINE a == <<Hold(l)>>
           b == <<Release(l)>>
<1>1. Plain(g, a, top) /\ Plain(g, b, top) /\ Steady(a) /\ Steady(b)
  BY HoldAndRelease, QuietIsSound
<1>2. Within(l, s) = a \o s \o b
  BY DEF Within
<1> HIDE DEF a, b
<1>3. Plain(g, a \o s, top) /\ Steady(a \o s)
  BY <1>1, PlainJoin, EndsJoin DEF Steady
<1> QED
  BY <1>1, <1>2, <1>3, PlainJoin, EndsJoin DEF Steady

(* Within: an append under a lock.                                       *)
LEMMA AppendsWithin ==
    ASSUME NEW g, NEW s, NEW h \in Nat, NEW top \in Nat, NEW l,
           Appends(g, s, h, top), Steady(s)
    PROVE  Appends(g, Within(l, s), h, top) /\ Steady(Within(l, s))
<1> DEFINE a == <<Hold(l)>>
           b == <<Release(l)>>
<1>1. Plain(g, a, top) /\ Plain(g, b, TopAfter(g, h, top)) /\ Steady(a) /\ Steady(b)
  BY HoldAndRelease, QuietIsSound
<1>2. Within(l, s) = a \o s \o b
  BY DEF Within
<1>3. Plain(g, b, top) /\ Plain(g, a, TopAfter(g, h, top))
  BY HoldAndRelease, QuietIsSound
<1> HIDE DEF a, b
<1>4. Appends(g, a \o s, h, top) /\ Steady(a \o s)
  BY <1>1, <1>3, AppendsJoin, EndsJoin DEF Steady
<1>5. Appends(g, a \o s \o b, h, top) /\ Steady(a \o s \o b)
  <2> DEFINE c == a \o s
  <2> HIDE DEF c
  <2>1. Appends(g, c, h, top) /\ Steady(c)
    BY <1>4 DEF c
  <2>2. Appends(g, c \o b, h, top) /\ Steady(c \o b)
    BY <1>1, <1>3, <2>1, AppendsJoin, EndsJoin DEF Steady
  <2> QED
    BY <2>2 DEF c
<1> QED
  BY <1>2, <1>5

(* Commit appends the block.                                             *)
LEMMA CommitAppends ==
    ASSUME NEW g, NEW h \in Nat, NEW top \in Nat, MayAppend(g, h, top)
    PROVE  Appends(g, Commit(h + 1), h, top) /\ Steady(Commit(h + 1))
<1> DEFINE s == <<Append1(h + 1)>>
<1>1. IsSeq(s) /\ Len(s) = 1 /\ s[1].do = "append" /\ s[1].arg = h + 1
  BY DEF IsSeq, Append1, OnChain
<1>2. Commit(h + 1) = Within("pool", Within("createPool", Within("closePool", s)))
  BY DEF Commit
<1> HIDE DEF s
<1>3. Appends(g, s, h, top) /\ Steady(s)
  BY <1>1 DEF Appends, Steady
<1> QED
  BY <1>2, <1>3, AppendsWithin

(* Writing what may be sent.                                             *)
LEMMA PlainWrite ==
    ASSUME NEW g, NEW top, NEW m \in Messages(top)
    PROVE  /\ Plain(g, <<Write(m)>>, top) /\ Steady(<<Write(m)>>)
           /\ Plain(g, Broadcast(m), top) /\ Steady(Broadcast(m))
<1>1. Plain(g, <<Write(m)>>, top) /\ Steady(<<Write(m)>>)
  BY DEF Plain, PlainStep, Write, Steady, IsSeq
<1> QED
  BY <1>1, PlainWithin DEF Broadcast

(* TryAdd touches no block.                                              *)
LEMMA PlainTryAdd ==
    ASSUME NEW g, NEW top, NEW p
    PROVE  Plain(g, TryAdd(p), top) /\ Steady(TryAdd(p))
<1>1. Plain(g, <<Visit({"chain"})>>, top) /\ Steady(<<Visit({"chain"})>>)
  BY HoldAndRelease, QuietIsSound
<1> QED
  BY <1>1, PlainWithin DEF TryAdd

(* Nor do the handlers of requests.                                      *)
LEMMA PlainHandler ==
    ASSUME NEW g, NEW top, NEW role \in {"payment", "create", "close"}
    PROVE  Plain(g, Handler(role), top) /\ Steady(Handler(role))
<1> DEFINE m == Gossip(role)
<1>1. m \in Messages(top)
  BY DEF Messages
<1>2. Plain(g, Broadcast(m), top) /\ Steady(Broadcast(m))
  <2> HIDE DEF m
  <2> QED
    BY <1>1, PlainWrite
<1>3. \A l : Plain(g, <<Visit(l)>>, top) /\ Steady(<<Visit(l)>>)
  BY HoldAndRelease, QuietIsSound
<1>4. Plain(g, TryAdd("pool"), top) /\ Steady(TryAdd("pool"))
  BY PlainTryAdd
<1>5. \A a, b : Plain(g, a, top) /\ Plain(g, b, top) /\ Steady(a) /\ Steady(b)
                  => Plain(g, a \o b, top) /\ Steady(a \o b)
  BY PlainJoin, EndsJoin DEF Steady
<1>6. CASE role = "payment"
  <2> DEFINE v == <<Visit({"chain", "keystore"})>>
  <2>1. Plain(g, v, top) /\ Steady(v)
    BY <1>3
  <2>2. Handler(role) = v \o TryAdd("pool") \o Broadcast(m)
    BY <1>6 DEF Handler, PaymentHandler
  <2> HIDE DEF v, m
  <2>3. Plain(g, v \o TryAdd("pool"), top) /\ Steady(v \o TryAdd("pool"))
    BY <1>4, <1>5, <2>1
  <2> QED
    BY <1>2, <1>5, <2>2, <2>3
<1>7. CASE role # "payment"
  <2> DEFINE v == <<Visit({"chain", Pool[role]})>>
             w == <<Visit({"keystore"})>>
  <2>1. Plain(g, v, top) /\ Steady(v) /\ Plain(g, w, top) /\ Steady(w)
    BY <1>3
  <2>2. Handler(role) = v \o Broadcast(m) \o w
    BY <1>7 DEF Handler, AccountHandler
  <2> HIDE DEF v, m, w
  <2>3. Plain(g, v \o Broadcast(m), top) /\ Steady(v \o Broadcast(m))
    BY <1>2, <1>5, <2>1
  <2> QED
    BY <1>5, <2>1, <2>2, <2>3
<1> QED
  BY <1>6, <1>7

(* A step on the chain, by itself. *)
LEMMA PlainLook ==
    ASSUME NEW g, NEW top, NEW what, NEW arg,
           what \in {"greet", "ask"} \/ (what \in {"compare", "serve"} /\ arg \in Nat)
    PROVE  Plain(g, <<OnChain(what, arg)>>, top) /\ Steady(<<OnChain(what, arg)>>)
BY DEF Plain, PlainStep, OnChain, Steady, IsSeq

(* Nor does nothing.                                                     *)
LEMMA PlainNothing ==
    ASSUME NEW g, NEW top
    PROVE  Plain(g, <<>>, top) /\ Steady(<<>>)
BY DEF Plain, Steady, IsSeq

(* The first step of applyBlocks.                                        *)
LEMMA PlainApply ==
    ASSUME NEW g, NEW top, NEW m \in Announcements(top), g.role = "reader"
    PROVE  LET s == <<OnChain("apply", m)>> IN Plain(g, s, top) /\ Ends(s)
BY DEF Plain, PlainStep, OnChain, Ends, IsSeq

(* What a message makes the reader do. *)
LEMMA DispatchIsSound ==
    ASSUME NEW g, g.role = "reader", NEW n, NEW h, NEW top, NEW m \in Messages(top)
    PROVE  Sound(g, Dispatch(n, m), h, top)
<1>0. \A a, b : Plain(g, a, top) /\ Plain(g, b, top) /\ Steady(a)
                  => /\ Plain(g, a \o b, top)
                     /\ Steady(b) => Steady(a \o b)
                     /\ Ends(b) => Ends(a \o b)
  BY PlainJoin, EndsJoin DEF Steady, Plain
<1>1. CASE m.type = "handshake"
  <2> DEFINE a == IF n = Listener THEN <<OnChain("greet", 0)>> ELSE <<>>
             b == <<OnChain("compare", m.height)>>
  <2>1. m.height \in Nat
    BY <1>1 DEF Messages, Announcements, Handshake, GetBlocks, Blocks, Gossip
  <2>2. Plain(g, a, top) /\ Steady(a)
    BY PlainLook, PlainNothing
  <2>3. Plain(g, b, top) /\ Steady(b)
    BY <2>1, PlainLook
  <2>4. Dispatch(n, m) = a \o b
    BY <1>1 DEF Dispatch
  <2> HIDE DEF a, b
  <2> QED
    BY <1>0, <2>2, <2>3, <2>4, SteadyIsSound
<1>2. CASE m.type = "get_blocks"
  <2>1. m.height \in Nat
    BY <1>2 DEF Messages, Announcements, Handshake, GetBlocks, Blocks, Gossip
  <2>2. Dispatch(n, m) = <<OnChain("serve", m.height)>>
    BY <1>2 DEF Dispatch
  <2> QED
    BY <2>1, <2>2, PlainLook, SteadyIsSound
<1>3. CASE m.type \in {"new_block", "blocks"}
  <2> DEFINE a == <<Hold("bridge")>>
             b == <<OnChain("apply", m)>>
             c == <<Hold("bridge"), OnChain("apply", m)>>
  <2>1. m \in Announcements(top)
    BY <1>3 DEF Messages, Handshake, GetBlocks, Gossip
  <2>2. Dispatch(n, m) = c
    BY <1>3 DEF Dispatch
  <2>3. IsSeq(c) /\ Len(c) = 2 /\ c[1] = Hold("bridge") /\ c[2] = OnChain("apply", m)
    BY DEF IsSeq
  <2> HIDE DEF c
  <2>4. Plain(g, c, top)
    BY <2>1, <2>3 DEF Plain, PlainStep, Hold, OnChain
  <2>5. Ends(c)
    BY <2>3 DEF Ends, Hold
  <2> QED
    BY <2>2, <2>4, <2>5 DEF Sound
<1>4. CASE m.type \notin {"handshake", "get_blocks", "new_block", "blocks"}
  <2>1. Dispatch(n, m) = TryAdd(Pool[m.type])
    BY <1>4 DEF Dispatch
  <2> QED
    BY <2>1, PlainTryAdd, SteadyIsSound
<1> QED
  BY <1>1, <1>2, <1>3, <1>4

(* Blocks that are sent are of the set of them.                          *)
LEMMA AnnouncementIs ==
    ASSUME NEW top, NEW t \in {"new_block", "blocks"}, NEW hs \in Seq(0..top)
    PROVE  Blocks(t, hs) \in Announcements(top)
BY DEF Announcements, Blocks

(* A turn of the loop of applyBlocks. *)
LEMMA ApplyIsSound ==
    ASSUME NEW g, g.role = "reader", NEW h \in Nat, NEW top \in Nat, h <= top,
           g.node = Validator => h = top, NEW m \in Announcements(top)
    PROVE  Sound(g, Apply(m, h), h, top)
<1>1. PICK t \in {"new_block", "blocks"}, hs \in Seq(0..top) : m = Blocks(t, hs)
  BY DEF Announcements, Blocks
<1>2. m.heights = hs /\ m.type = t
  BY <1>1 DEF Blocks
<1> DEFINE back == <<Release("bridge")>>
<1>3. Plain(g, back, top) /\ Steady(back)
  BY HoldAndRelease, QuietIsSound
<1>4. CASE hs = <<>>
  BY <1>2, <1>3, <1>4, SteadyIsSound DEF Apply
<1>5. CASE hs # <<>>
  <2> DEFINE b == Head(hs)
             m2 == [m EXCEPT !.heights = Tail(@)]
             rest == <<OnChain("apply", m2)>>
             ask == IF m.type = "new_block" THEN <<OnChain("ask", 0)>> ELSE <<>>
  <2>1. b \in 0..top /\ Tail(hs) \in Seq(0..top)
    BY <1>5
  <2>2. m2 = Blocks(t, Tail(hs))
    <3>1. ASSUME NEW v PROVE [Blocks(t, hs) EXCEPT !.heights = v] = Blocks(t, v)
      BY DEF Blocks
    <3>2. m2 = [Blocks(t, hs) EXCEPT !.heights = Tail(hs)]
      BY <1>1, <1>2
    <3> QED
      BY <3>1, <3>2
  <2>3. m2 \in Announcements(top)
    <3> HIDE DEF m2
    <3> QED
      BY <2>1, <2>2, AnnouncementIs
  <2>4. Plain(g, rest, top) /\ Ends(rest)
    <3> HIDE DEF m2
    <3> QED
      BY <2>3, PlainApply
  <2>5. Plain(g, ask, top) /\ Steady(ask)
    BY PlainLook, PlainNothing
  <2>6. Apply(m, h) = CASE b <= h    -> rest
                        [] b = h + 1 -> Commit(b) \o rest
                        [] OTHER     -> back \o ask
    BY <1>2, <1>5 DEF Apply
  <2> HIDE DEF rest, ask, back, b
  <2>7. CASE b <= h
    BY <2>4, <2>6, <2>7 DEF Sound
  <2>8. CASE b = h + 1
    <3>1. MayAppend(g, h, top)
      BY <2>1, <2>8 DEF MayAppend
    <3>2. Appends(g, Commit(h + 1), h, top) /\ Steady(Commit(h + 1))
      BY <3>1, CommitAppends
    <3>3. TopAfter(g, h, top) = top
      BY DEF TopAfter
    <3>4. Appends(g, Commit(h + 1) \o rest, h, top)
      BY <1>3, <2>4, <3>2, <3>3, AppendsJoin
    <3>5. Ends(Commit(h + 1) \o rest)
      BY <2>4, <3>2, EndsJoin DEF Plain
    <3>6. Apply(m, h) = Commit(h + 1) \o rest
      BY <2>1, <2>6, <2>8
    <3> QED
      BY <3>4, <3>5, <3>6 DEF Sound
  <2>9. CASE ~(b <= h) /\ b # h + 1
    <3>1. Apply(m, h) = back \o ask
      BY <2>6, <2>9
    <3>2. Plain(g, back \o ask, top) /\ Steady(back \o ask)
      BY <1>3, <2>5, PlainJoin, EndsJoin DEF Steady
    <3> QED
      BY <3>1, <3>2, SteadyIsSound
  <2> QED
    BY <2>7, <2>8, <2>9
<1> QED
  BY <1>4, <1>5

(* The producer's block, and its announcement. *)
LEMMA ProduceIsSound ==
    ASSUME NEW g, g.role = "producer", NEW h \in Nat, NEW top \in Nat
    PROVE  LET s == Commit(h + 1) \o Broadcast(Blocks("new_block", <<h + 1>>))
           IN  Sound(g, s, h, top)
<1> DEFINE m == Blocks("new_block", <<h + 1>>)
<1>1. MayAppend(g, h, top) /\ TopAfter(g, h, top) = h + 1
  BY DEF MayAppend, TopAfter
<1>2. Appends(g, Commit(h + 1), h, top) /\ Steady(Commit(h + 1))
  BY <1>1, CommitAppends
<1>3. m \in Messages(h + 1)
  <2>1. <<h + 1>> \in Seq(0..h + 1)
    OBVIOUS
  <2>2. m \in Announcements(h + 1)
    BY <2>1, AnnouncementIs
  <2> QED
    BY <2>2, Zenon DEF Messages
<1> HIDE DEF m
<1>4. Plain(g, Broadcast(m), h + 1) /\ Steady(Broadcast(m))
  BY <1>3, PlainWrite
<1>5. Appends(g, Commit(h + 1) \o Broadcast(m), h, top)
  <2>1. Plain(g, <<>>, top)
    BY PlainNothing
  <2> QED
    BY <1>1, <1>2, <1>4, <2>1, AppendsJoin
<1>6. Steady(Commit(h + 1) \o Broadcast(m))
  BY <1>2, <1>4, EndsJoin DEF Steady
<1> QED
  BY <1>5, <1>6, SteadyIsSound DEF m

(* A step about to be made is plain unless it appends.                   *)
LEMMA HeadIsPlain ==
    ASSUME NEW g, NEW s, NEW h, NEW top, Sound(g, s, h, top), s # <<>>,
           Head(s).do # "append"
    PROVE  PlainStep(g, Head(s), top)
<1>1. IsSeq(s)
  BY DEF Sound, Plain, Appends
<1>2. Len(s) \in Nat /\ Len(s) > 0 /\ Head(s) = s[1]
  <2>1. Len(s) \in Nat \ {0} /\ Head(s) = s[1]
    BY <1>1, TailIs, Zenon
  <2> QED
    BY <2>1
<1>3. CASE Plain(g, s, top)
  BY <1>2, <1>3 DEF Plain
<1>4. CASE Appends(g, s, h, top)
  <2>1. PICK j \in 1..Len(s) :
            /\ s[j].do = "append"
            /\ \A i \in 1..j - 1 : PlainStep(g, s[i], top)
    BY <1>4 DEF Appends
  <2>2. j # 1
    BY <1>2, <2>1
  <2> QED
    BY <1>2, <2>1, <2>2
<1> QED
  BY <1>3, <1>4 DEF Sound

(* When the next step appends, it is the only one that does.               *)
LEMMA HeadAppends ==
    ASSUME NEW g, NEW s, NEW h, NEW top, Sound(g, s, h, top), s # <<>>,
           Head(s).do = "append"
    PROVE  /\ Head(s).arg = h + 1 /\ MayAppend(g, h, top)
           /\ Plain(g, Tail(s), TopAfter(g, h, top)) /\ Ends(Tail(s))
<1>1. IsSeq(s)
  BY DEF Sound, Plain, Appends
<1> DEFINE t == Tail(s)
<1>2. /\ IsSeq(t) /\ Len(s) \in Nat /\ Len(s) > 0 /\ Head(s) = s[1] /\ Len(t) = Len(s) - 1
      /\ \A i \in 1..Len(t) : t[i] = s[1 + i] /\ 1 + i \in 1..Len(s)
  <2>1. /\ IsSeq(t) /\ Len(s) \in Nat \ {0} /\ Head(s) = s[1] /\ Len(t) = Len(s) - 1
        /\ \A i \in 1..Len(t) : t[i] = s[1 + i] /\ 1 + i \in 1..Len(s)
    BY <1>1, TailIs, Zenon
  <2> QED
    BY <2>1
<1> HIDE DEF t
<1>3. ~Plain(g, s, top)
  BY <1>2 DEF Plain, PlainStep
<1>4. PICK k \in 1..Len(s) :
          /\ s[k].do = "append" /\ s[k].arg = h + 1
          /\ \A i \in 1..k - 1 : PlainStep(g, s[i], top)
          /\ \A i \in k + 1..Len(s) : PlainStep(g, s[i], TopAfter(g, h, top))
  BY <1>3 DEF Sound, Appends
<1>5. k = 1
  <2> SUFFICES ASSUME k # 1 PROVE FALSE
    OBVIOUS
  <2>1. 1 \in 1..k - 1
    OBVIOUS
  <2> QED
    BY <1>2, <1>4, <2>1 DEF PlainStep
<1>6. Plain(g, t, TopAfter(g, h, top))
  <2> SUFFICES ASSUME NEW i \in 1..Len(t) PROVE PlainStep(g, t[i], TopAfter(g, h, top))
    BY <1>2 DEF Plain
  <2>1. 1 + i \in 2..Len(s) /\ t[i] = s[1 + i]
    BY <1>2
  <2> QED
    BY <1>4, <1>5, <2>1
<1>7. Ends(t)
  BY <1>2 DEF Sound, Ends
<1> QED
  BY <1>2, <1>3, <1>4, <1>5, <1>6, <1>7 DEF Sound, Appends, t

(* What follows a look at the chain that does not append, before the steps *)
(* that were to come after it.                                             *)
LEMMA AfterIsSound ==
    ASSUME NEW g, NEW s, NEW h \in Nat, NEW top \in Nat, h <= top,
           g.node = Validator => h = top, Sound(g, s, h, top), s # <<>>,
           Head(s).do \notin {"append", "hold", "write"}
    PROVE  Sound(g, After(Head(s), h) \o Tail(s), h, top)
<1> DEFINE x == Head(s)
           t == Tail(s)
           r == After(x, h)
<1>1. Sound(g, t, h, top) /\ IsSeq(s) /\ IsSeq(t)
  <2>1. Sound(g, t, h, top)
    BY SoundTail
  <2> QED
    BY <2>1 DEF Sound, Plain, Appends
<1>2. Len(s) \in Nat /\ Len(s) > 0 /\ x = s[1] /\ Len(t) = Len(s) - 1
  <2>1. /\ Len(s) \in Nat \ {0} /\ Len(Tail(s)) = Len(s) - 1
        /\ Head(s) = s[1]
    BY <1>1, TailIs, Zenon
  <2> QED
    BY <2>1
<1>3. PlainStep(g, x, top)
  BY HeadIsPlain
<1> HIDE DEF x, t, r
<1>4. ASSUME Plain(g, r, top), Steady(r) PROVE Sound(g, r \o t, h, top)
  <2>1. Ends(r \o t)
    BY <1>1, <1>4, EndsJoin DEF Sound
  <2>2. CASE Plain(g, t, top)
    BY <1>4, <2>1, <2>2, PlainJoin DEF Sound
  <2>3. CASE Appends(g, t, h, top)
    <3>1. Plain(g, <<>>, TopAfter(g, h, top))
      BY PlainNothing
    <3> QED
      BY <1>4, <2>1, <2>3, <3>1, AppendsJoin DEF Sound
  <2> QED
    BY <1>1, <2>2, <2>3 DEF Sound
<1>5. CASE x.do \in {"apply", "produce"}
  <2>1. \A i \in 1..Len(s) - 1 : s[i].do \notin {"apply", "produce"}
    BY DEF Sound, Ends
  <2>2. t = <<>>
    <3>1. Len(t) = 0
      BY <1>2, <1>5, <2>1
    <3>2. t \in Seq({t[i] : i \in DOMAIN t})
      BY <1>1 DEF IsSeq
    <3> QED
      BY <3>1, <3>2, EmptySeq
  <2>3. Sound(g, r, h, top)
    <3>1. CASE x.do = "apply"
      BY <1>3, <3>1, ApplyIsSound DEF PlainStep, r, After
    <3>2. CASE x.do = "produce"
      BY <1>3, <3>2, ProduceIsSound DEF PlainStep, r, After
    <3> QED
      BY <1>5, <3>1, <3>2
  <2>4. r \o <<>> = r
    <3>1. r \in Seq({r[i] : i \in DOMAIN r})
      BY <2>3 DEF Sound, Plain, Appends, IsSeq
    <3> QED
      BY <3>1
  <2> QED
    BY <2>2, <2>3, <2>4 DEF x, t, r
<1>6. CASE x.do = "greet"
  <2>1. r = <<Write(Handshake(h))>> /\ Handshake(h) \in Messages(top)
    BY <1>6 DEF r, After, Messages
  <2> QED
    BY <1>4, <2>1, PlainWrite DEF x, t, r
<1>7. CASE x.do = "compare"
  <2>1. r = <<OnChain("ask", 0)>> \/ r = <<>>
    BY <1>7 DEF r, After
  <2> QED
    BY <1>4, <2>1, PlainLook, PlainNothing DEF x, t, r
<1>8. CASE x.do = "ask"
  <2>1. r = <<Write(GetBlocks(h + 1))>> /\ GetBlocks(h + 1) \in Messages(top)
    BY <1>8 DEF r, After, Messages
  <2> QED
    BY <1>4, <2>1, PlainWrite DEF x, t, r
<1>9. CASE x.do = "serve"
  <2> DEFINE hs == [i \in 1..h + 1 - x.arg |-> x.arg + i - 1]
  <2>1. x.arg \in Nat
    BY <1>3, <1>9 DEF PlainStep
  <2>2. hs \in Seq(0..top)
    <3>1. \A i \in 1..h + 1 - x.arg : x.arg + i - 1 \in 0..top
      BY <2>1
    <3>2. CASE h + 1 - x.arg \in Nat
      <4> DEFINE n == h + 1 - x.arg
      <4>1. hs \in [1..n -> 0..top]
        BY <3>1
      <4> HIDE DEF hs, n
      <4>2. n \in Nat
        BY <3>2 DEF n
      <4> QED
        BY <4>1, <4>2
    <3>3. CASE h + 1 - x.arg \notin Nat
      <4>1. 1..h + 1 - x.arg = 1..0
        BY <2>1, <3>3
      <4>2. hs = [i \in 1..0 |-> x.arg + i - 1]
        BY <4>1
      <4>3. hs \in [1..0 -> 0..top]
        BY <4>2
      <4> HIDE DEF hs
      <4> QED
        BY <4>3
    <3> QED
      BY <3>2, <3>3
  <2>3. r = <<Write(Blocks("blocks", hs))>>
    BY <1>9 DEF r, After
  <2> HIDE DEF hs
  <2>4. Blocks("blocks", hs) \in Messages(top)
    BY <2>2, AnnouncementIs DEF Messages
  <2> QED
    BY <1>4, <2>3, <2>4, PlainWrite DEF x, t, r
<1>10. CASE x.do \notin {"apply", "produce", "greet", "compare", "ask", "serve"}
  <2>1. r = <<>>
    BY <1>10 DEF r, After
  <2> QED
    BY <1>4, <2>1, PlainNothing DEF x, t, r
<1> QED
  BY <1>5, <1>6, <1>7, <1>8, <1>9, <1>10
-----------------------------------------------------------------------------
(***************************************************************************)
(* The first invariant: chains grow by one block at a time, no chain is    *)
(* ahead of the validator's, and no message tells of a block it has not.   *)
(***************************************************************************)
Top == height[Validator]

DataOK ==
    /\ run = [g \in Goroutines |-> run[g]]
    /\ holds = [g \in Goroutines |-> holds[g]]
    /\ height \in [Nodes -> Nat]
    /\ \A n \in Nodes : height[n] <= Top
    /\ socket \in [Nodes -> Seq(Messages(Top))]
    /\ \A g \in Goroutines : Sound(g, run[g], height[g.node], Top)

Numbers == INSTANCE Folding WITH Op <- LAMBDA p, x, y : x

(* Any steps begin with as many that give back a lock as they do.          *)
LEMMA SomeAreReleased ==
    ASSUME NEW s, IsSeq(s)
    PROVE  \E k \in Nat : Drops(s, k, SubSeq(s, k + 1, Len(s)))
<1> DEFINE T == {s[i] : i \in DOMAIN s}
           Is(k) == /\ \A i \in 1..k : s[i].do = "release"
                    /\ k < Len(s) => s[k + 1].do # "release"
<1>1. s \in Seq(T) /\ Len(s) \in Nat
  BY DEF IsSeq
<1>2. \E k \in 0..Len(s) : Is(k)
  <2> SUFFICES ASSUME \A k \in 0..Len(s) : ~Is(k) PROVE FALSE
    OBVIOUS
  <2> DEFINE N == {n \in Nat : n <= Len(s) => \A i \in 1..n : s[i].do = "release"}
  <2>1. 0 \in N
    OBVIOUS
  <2>2. ASSUME NEW n \in N PROVE n + 1 \in N
    <3> SUFFICES ASSUME n + 1 <= Len(s), NEW i \in 1..n + 1 PROVE s[i].do = "release"
      OBVIOUS
    <3>1. n \in 0..Len(s) /\ \A j \in 1..n : s[j].do = "release"
      BY <1>1
    <3>2. s[n + 1].do = "release"
      BY <3>1
    <3>3. i \in 1..n \/ i = n + 1
      OBVIOUS
    <3> QED
      BY <3>1, <3>2, <3>3
  <2>3. N = Nat
    <3>1. N \in SUBSET Nat
      OBVIOUS
    <3> HIDE DEF N
    <3> QED
      BY <2>1, <2>2, <3>1, Numbers!NatSet
  <2>4. Is(Len(s))
    BY <1>1, <2>3
  <2> QED
    BY <1>1, <2>4
<1>3. PICK k \in 0..Len(s) : Is(k)
  BY <1>2
<1> DEFINE rest == SubSeq(s, k + 1, Len(s))
<1> HIDE DEF T
<1>4. /\ rest \in Seq(T) /\ Len(rest) = Len(s) - k
      /\ \A i \in 1..Len(s) - k : rest[i] = s[k + i]
  BY <1>1
<1>5. IsSeq(rest)
  BY <1>4, IsSeqIn
<1> HIDE DEF rest
<1>6. Drops(s, k, rest)
  BY <1>1, <1>3, <1>4, <1>5 DEF Drops
<1>7. k \in Nat
  OBVIOUS
<1> QED
  BY <1>6, <1>7 DEF rest

(* What Then says, without the choice in it. *)
Went(g, all, k, rest) ==
    /\ Drops(all, k, rest)
    /\ run' = [run EXCEPT ![g] = rest]
    /\ holds' = [holds EXCEPT ![g] = @ \ GivenBack(all, k)]

(* Then: some locks are given back, and the rest is to come.             *)
LEMMA ThenGoesOn ==
    ASSUME NEW g, NEW steps, Then(g, steps), IsSeq(steps \o Tail(run[g]))
    PROVE  \E k, rest : Went(g, steps \o Tail(run[g]), k, rest)
<1> DEFINE all == steps \o Tail(run[g])
<1>1. /\ run' = [run EXCEPT ![g] = SubSeq(all, Released(all) + 1, Len(all))]
      /\ holds' = [holds EXCEPT ![g] = @ \ {all[i].lock : i \in 1..Released(all)}]
  BY DEF Then
<1> HIDE DEF all
<1>2. PICK k \in Nat : Drops(all, k, SubSeq(all, k + 1, Len(all)))
  BY SomeAreReleased DEF all
<1>3. Released(all) = k
  BY <1>2, DropsReleased
<1> DEFINE rest == SubSeq(all, k + 1, Len(all))
<1>4. Went(g, all, k, rest)
  BY <1>1, <1>2, <1>3 DEF Went, GivenBack
<1> HIDE DEF rest
<1> QED
  BY <1>4 DEF all

(* Who a goroutine is, by its role.                                      *)
LEMMA GoroutineIs ==
    ASSUME NEW g \in Goroutines
    PROVE  /\ g.node \in Nodes /\ Validator \in Nodes
           /\ g.role \in {"reader", "producer", "stream", "payment", "create", "close"}
           /\ g.role = "reader" => g = Reader(g.node)
           /\ g.role = "producer" => g = Producer(Validator) /\ g.node = Validator
           /\ g.role = "stream" => g = Stream(g.node) /\ g.node \in Watched
           /\ g \in Requests => g.role \in {"payment", "create", "close"}
BY LocksAssumption DEF Goroutines, Reader, Producer, Stream, Nodes

(* The readers, the producer and the streams are goroutines.             *)
LEMMA NamedGoroutines ==
    /\ \A n \in Nodes : Reader(n) \in Goroutines /\ Reader(n).node = n /\ Reader(n).role = "reader"
                        /\ Peer(n) \in Nodes
    /\ Producer(Validator) \in Goroutines /\ Producer(Validator).node = Validator
    /\ Producer(Validator).role = "producer"
    /\ \A n \in Watched : Stream(n) \in Goroutines /\ Stream(n).node = n /\ Stream(n).role = "stream"
BY LocksAssumption DEF Goroutines, Reader, Producer, Stream, Nodes, Peer

(* The first invariant holds at the start.                               *)
LEMMA DataInit ==
    ASSUME Init
    PROVE  DataOK
<1>1. /\ height = StartHeight /\ height \in [Nodes -> Nat]
      /\ \A n \in Nodes : height[n] <= Top
  BY LocksAssumption DEF Init, Top
<1>2. socket \in [Nodes -> Seq(Messages(Top))]
  BY DEF Init
<1>3. /\ run = [g \in Goroutines |-> run[g]]
      /\ holds = [g \in Goroutines |-> holds[g]]
  BY DEF Init
<1>4. ASSUME NEW g \in Goroutines PROVE Sound(g, run[g], height[g.node], Top)
  <2>1. CASE g = Reader(Dialer)
    <3>1. run[g] = <<OnChain("greet", 0)>>
      BY <2>1 DEF Init
    <3> QED
      BY <3>1, PlainLook, SteadyIsSound
  <2>2. CASE g # Reader(Dialer) /\ g \in Requests
    <3>1. run[g] = Handler(g.role) /\ g.role \in {"payment", "create", "close"}
      BY <2>2, GoroutineIs DEF Init
    <3> QED
      BY <3>1, PlainHandler, SteadyIsSound
  <2>3. CASE g # Reader(Dialer) /\ g \notin Requests
    <3>1. run[g] = <<>>
      BY <2>3 DEF Init
    <3> QED
      BY <3>1, PlainNothing, SteadyIsSound
  <2> QED
    BY <2>1, <2>2, <2>3
<1> QED
  BY <1>1, <1>2, <1>3, <1>4 DEF DataOK

(* A goroutine goes on with sound steps, no chain grows.                 *)
LEMMA OneGoesOn ==
    ASSUME DataOK, NEW g \in Goroutines, NEW rest, NEW K,
           run' = [run EXCEPT ![g] = rest], holds' = [holds EXCEPT ![g] = K],
           height' = height, socket' \in [Nodes -> Seq(Messages(Top))],
           Sound(g, rest, height[g.node], Top)
    PROVE  DataOK'
<1>1. Top' = Top
  BY DEF Top
<1>2. /\ run' = [x \in Goroutines |-> run'[x]]
      /\ holds' = [x \in Goroutines |-> holds'[x]]
  BY DEF DataOK
<1>3. /\ height' \in [Nodes -> Nat]
      /\ \A n \in Nodes : height'[n] <= Top'
      /\ socket' \in [Nodes -> Seq(Messages(Top'))]
  BY <1>1 DEF DataOK
<1>4. ASSUME NEW x \in Goroutines PROVE Sound(x, run'[x], height'[x.node], Top')
  <2>1. CASE x = g
    <3>1. run'[x] = rest
      BY <2>1 DEF DataOK
    <3> QED
      BY <1>1, <2>1, <3>1
  <2>2. CASE x # g
    <3>1. run'[x] = run[x]
      BY <2>2 DEF DataOK
    <3> QED
      BY <1>1, <3>1 DEF DataOK
  <2> QED
    BY <2>1, <2>2
<1> QED
  BY <1>2, <1>3, <1>4 DEF DataOK

(* What the first invariant says of the node of a goroutine.             *)
LEMMA NodesHeights ==
    ASSUME DataOK, NEW g \in Goroutines
    PROVE  /\ height[g.node] \in Nat /\ Top \in Nat /\ height[g.node] <= Top
           /\ g.node = Validator => height[g.node] = Top
           /\ Sound(g, run[g], height[g.node], Top)
           /\ run[g] # <<>> => IsSeq(Tail(run[g])) /\ <<>> \o Tail(run[g]) = Tail(run[g])
<1>1. /\ height[g.node] \in Nat /\ Top \in Nat /\ height[g.node] <= Top
      /\ g.node = Validator => height[g.node] = Top
      /\ Sound(g, run[g], height[g.node], Top)
  BY GoroutineIs DEF DataOK, Top
<1>2. ASSUME run[g] # <<>>
      PROVE  IsSeq(Tail(run[g])) /\ <<>> \o Tail(run[g]) = Tail(run[g])
  <2>1. IsSeq(run[g])
    BY <1>1 DEF Sound, Plain, Appends
  <2>2. IsSeq(Tail(run[g]))
    BY <1>2, <2>1, TailIs
  <2> DEFINE t == Tail(run[g])
  <2> HIDE DEF t
  <2>3. IsSeq(t)
    BY <2>2 DEF t
  <2>4. <<>> \o t = t
    BY <2>3 DEF IsSeq
  <2> QED
    BY <2>2, <2>4 DEF t
<1> QED
  BY <1>1, <1>2

(* Taking a lock keeps the first invariant.                              *)
LEMMA DataHold ==
    ASSUME DataOK, NEW g \in Goroutines, TakeLock(g)
    PROVE  DataOK'
<1> DEFINE K == holds[g] \cup {Head(run[g]).lock}
           t == Tail(run[g])
<1>1. run[g] # <<>> /\ Head(run[g]).do = "hold"
  BY DEF TakeLock, Goes, Ready
<1>2. Sound(g, t, height[g.node], Top)
  BY <1>1, NodesHeights, SoundTail
<1>3. run' = [run EXCEPT ![g] = t] /\ holds' = [holds EXCEPT ![g] = K]
  BY DEF TakeLock
<1>4. height' = height /\ socket' \in [Nodes -> Seq(Messages(Top))]
  BY DEF TakeLock, DataOK
<1> HIDE DEF K, t
<1> QED
  BY <1>2, <1>3, <1>4, OneGoesOn

(* To leave the connection says nothing of blocks. *)
LEMMA LeaveIsSound ==
    ASSUME NEW g, NEW h, NEW top
    PROVE  Sound(g, Leave, h, top)
<1>1. Quiet(Leave)
  BY DEF Quiet, Leave, Visit, Close, Stop, IsSeq
<1> QED
  BY <1>1, QuietIsSound, SteadyIsSound

(* A goroutine goes on with steps that are sound, and with the rest.       *)
LEMMA DataThen ==
    ASSUME DataOK, NEW g \in Goroutines, NEW steps, Then(g, steps),
           Sound(g, steps \o Tail(run[g]), height[g.node], Top),
           height' = height, socket' \in [Nodes -> Seq(Messages(Top))]
    PROVE  DataOK'
<1> DEFINE all == steps \o Tail(run[g])
<1>1. IsSeq(all) /\ Sound(g, all, height[g.node], Top)
  BY DEF Sound, Plain, Appends
<1> HIDE DEF all
<1>2. PICK k, rest : Went(g, all, k, rest)
  BY <1>1, ThenGoesOn DEF all
<1>3. Sound(g, rest, height[g.node], Top)
  BY <1>1, <1>2, SoundRest DEF Went
<1> DEFINE K == holds[g] \ GivenBack(all, k)
<1>4. run' = [run EXCEPT ![g] = rest] /\ holds' = [holds EXCEPT ![g] = K]
  BY <1>2 DEF Went
<1> HIDE DEF K
<1> QED
  BY <1>3, <1>4, OneGoesOn

(* Writing a message does.                                               *)
LEMMA DataWrite ==
    ASSUME DataOK, NEW g \in Goroutines, WriteMessage(g)
    PROVE  DataOK'
<1>1. run[g] # <<>> /\ Head(run[g]).do = "write" /\ height' = height
  BY DEF WriteMessage, Goes, Ready
<1>2. Head(run[g]).message \in Messages(Top)
  BY <1>1, NodesHeights, HeadIsPlain DEF PlainStep
<1>3. Peer(g.node) \in Nodes
  BY GoroutineIs, NamedGoroutines
<1>4. socket' \in [Nodes -> Seq(Messages(Top))]
  <2>1. CASE Sends(g)
    <3>1. socket' = [socket EXCEPT ![Peer(g.node)] = Append(@, Head(run[g]).message)]
      BY <2>1 DEF WriteMessage
    <3>2. Append(socket[Peer(g.node)], Head(run[g]).message) \in Seq(Messages(Top))
      BY <1>2, <1>3 DEF DataOK
    <3> QED
      BY <3>1, <3>2 DEF DataOK
  <2>2. CASE ~Sends(g)
    BY <2>2 DEF WriteMessage, DataOK
  <2> QED
    BY <2>1, <2>2
<1>5. CASE open \/ g.role # "reader"
  <2>1. Then(g, <<>>)
    BY <1>5 DEF WriteMessage
  <2>2. Sound(g, <<>> \o Tail(run[g]), height[g.node], Top)
    BY <1>1, NodesHeights, SoundTail
  <2> QED
    BY <1>1, <1>4, <2>1, <2>2, DataThen
<1>6. CASE ~(open \/ g.role # "reader")
  <2>1. run' = [run EXCEPT ![g] = Leave] /\ holds' = [holds EXCEPT ![g] = holds[g]]
    BY <1>6 DEF WriteMessage, DataOK
  <2> QED
    BY <1>1, <1>4, <2>1, LeaveIsSound, OneGoesOn
<1> QED
  BY <1>5, <1>6

(* A step under locks that appends nothing does.                         *)
LEMMA DataVisit ==
    ASSUME DataOK, NEW g \in Goroutines, VisitLocks(g), Head(run[g]).do # "append"
    PROVE  DataOK'
<1>1. run[g] # <<>> /\ Head(run[g]).do \notin {"append", "hold", "write"}
  BY DEF VisitLocks, Ready
<1>2. /\ Then(g, After(Head(run[g]), height[g.node])) /\ height' = height
      /\ socket' = socket
  BY DEF VisitLocks
<1>3. Sound(g, After(Head(run[g]), height[g.node]) \o Tail(run[g]), height[g.node], Top)
  BY <1>1, NodesHeights, AfterIsSound
<1> QED
  BY <1>2, <1>3, DataThen DEF DataOK

(* Reading a message does.                                               *)
LEMMA DataDecode ==
    ASSUME DataOK, NEW n \in Nodes, Decode(n)
    PROVE  DataOK'
<1> DEFINE g == Reader(n)
<1>0. g \in Goroutines /\ g.role = "reader" /\ g.node = n
  BY NamedGoroutines
<1>1. height' = height /\ holds' = [holds EXCEPT ![g] = holds[g]]
  BY <1>0 DEF Decode, DataOK
<1>2. CASE open
  <2>1. socket[n] # <<>> /\ socket[n] \in Seq(Messages(Top))
    BY <1>2 DEF Decode, CanDecode, DataOK
  <2>2. Head(socket[n]) \in Messages(Top) /\ Tail(socket[n]) \in Seq(Messages(Top))
    BY <2>1
  <2>3. socket' \in [Nodes -> Seq(Messages(Top))]
    BY <1>2, <2>2 DEF Decode, DataOK
  <2>4. run' = [run EXCEPT ![g] = Dispatch(n, Head(socket[n]))]
    BY <1>2 DEF Decode
  <2> HIDE DEF g
  <2>5. Sound(g, Dispatch(n, Head(socket[n])), height[g.node], Top)
    BY <1>0, <2>2, DispatchIsSound
  <2> QED
    BY <1>0, <1>1, <2>3, <2>4, <2>5, OneGoesOn
<1>3. CASE ~open
  <2>1. /\ run' = [run EXCEPT ![g] = Leave]
        /\ socket' \in [Nodes -> Seq(Messages(Top))]
    BY <1>3 DEF Decode, DataOK
  <2> HIDE DEF g
  <2> QED
    BY <1>0, <1>1, <2>1, LeaveIsSound, OneGoesOn
<1> QED
  BY <1>2, <1>3

(* Leaving at a message that cannot be handled does.                     *)
LEMMA DataFail ==
    ASSUME DataOK, NEW n \in Nodes, Fail(n)
    PROVE  DataOK'
<1> DEFINE g == Reader(n)
<1>1. g \in Goroutines
  BY NamedGoroutines
<1>2. socket[n] # <<>> /\ socket[n] \in Seq(Messages(Top))
  BY DEF Fail, CanDecode, DataOK
<1>3. Tail(socket[n]) \in Seq(Messages(Top))
  BY <1>2
<1>4. /\ run' = [run EXCEPT ![g] = Leave] /\ holds' = [holds EXCEPT ![g] = holds[g]]
      /\ height' = height /\ socket' \in [Nodes -> Seq(Messages(Top))]
  BY <1>1, <1>3 DEF Fail, DataOK
<1> HIDE DEF g
<1> QED
  BY <1>1, <1>4, LeaveIsSound, OneGoesOn

(* Closing the connection does.                                          *)
LEMMA DataClose ==
    ASSUME DataOK, NEW n \in Nodes, CloseConn(n)
    PROVE  DataOK'
<1> DEFINE g == Reader(n)
<1>1. g \in Goroutines
  BY NamedGoroutines
<1>2. run[g] # <<>> /\ Head(run[g]).do = "close"
  BY DEF CloseConn, Goes, Ready
<1>3. /\ run' = [run EXCEPT ![g] = Tail(run[g])] /\ holds' = [holds EXCEPT ![g] = holds[g]]
      /\ height' = height /\ socket' \in [Nodes -> Seq(Messages(Top))]
  BY <1>1 DEF CloseConn, Break, DataOK
<1> HIDE DEF g
<1>4. Sound(g, Tail(run[g]), height[g.node], Top)
  BY <1>1, <1>2, NodesHeights, SoundTail
<1> QED
  BY <1>1, <1>3, <1>4, OneGoesOn

(* A tick of the producer does.                                          *)
LEMMA DataTick ==
    ASSUME DataOK, Tick
    PROVE  DataOK'
<1> DEFINE g == Producer(Validator)
           s == <<Produce>>
<1>1. g \in Goroutines /\ g.role = "producer"
  BY NamedGoroutines
<1>2. /\ height' = height /\ holds' = [holds EXCEPT ![g] = holds[g]]
      /\ socket' \in [Nodes -> Seq(Messages(Top))] /\ run' = [run EXCEPT ![g] = s]
  BY <1>1 DEF Tick, DataOK
<1>3. Sound(g, s, height[g.node], Top)
  <2> HIDE DEF g
  <2> QED
    BY <1>1 DEF Sound, Plain, PlainStep, Ends, Produce, IsSeq
<1> HIDE DEF g, s
<1> QED
  BY <1>1, <1>2, <1>3, OneGoesOn

(* A poll of a stream does.                                              *)
LEMMA DataPoll ==
    ASSUME DataOK, NEW n \in Watched, Poll(n)
    PROVE  DataOK'
<1> DEFINE g == Stream(n)
           s == Tail(StreamRound)
<1>1. g \in Goroutines /\ g.role = "stream"
  BY NamedGoroutines
<1>2. /\ height' = height /\ holds' = [holds EXCEPT ![g] = holds[g]]
      /\ socket' \in [Nodes -> Seq(Messages(Top))] /\ run' = [run EXCEPT ![g] = s]
  BY <1>1 DEF Poll, DataOK
<1>3. s = <<OnChain("show", "info"), OnChain("show", "latest"), OnChain("show", "balance")>>
  BY DEF StreamRound
<1>4. IsSeq(s) /\ Len(s) = 3 /\ \A i \in 1..3 : s[i].do = "show"
  <2> HIDE DEF s
  <2> QED
    BY <1>3 DEF OnChain, IsSeq
<1> HIDE DEF g, s
<1>5. Sound(g, s, height[g.node], Top)
  BY <1>1, <1>4 DEF Sound, Plain, PlainStep, Ends
<1> QED
  BY <1>1, <1>2, <1>5, OneGoesOn

(* The end of the connection does.                                       *)
LEMMA DataHangup ==
    ASSUME DataOK, Hangup
    PROVE  DataOK'
<1>1. socket' \in [Nodes -> Seq(Messages(Top))]
  BY DEF Hangup, Break
<1>2. run' = run /\ holds' = holds /\ height' = height /\ Top' = Top
  BY DEF Hangup, Top
<1> QED
  BY <1>1, <1>2 DEF DataOK

(* Appending does: the block is the next one of the chain.               *)
LEMMA DataAppend ==
    ASSUME DataOK, NEW g \in Goroutines, VisitLocks(g), Head(run[g]).do = "append"
    PROVE  DataOK' /\ height' = [height EXCEPT ![g.node] = height[g.node] + 1]
<1> DEFINE n == g.node
           h == height[n]
           s == run[g]
           t == Tail(s)
           top2 == TopAfter(g, h, Top)
<1>1. /\ s # <<>> /\ Then(g, After(Head(s), h)) /\ socket' = socket
      /\ height' = [height EXCEPT ![n] = Head(s).arg]
  BY DEF VisitLocks, Ready
<1>2. /\ h \in Nat /\ Top \in Nat /\ h <= Top /\ (n = Validator => h = Top)
      /\ Sound(g, s, h, Top) /\ IsSeq(t) /\ <<>> \o t = t
  BY <1>1, NodesHeights
<1>3. /\ Head(s).arg = h + 1 /\ MayAppend(g, h, Top) /\ Plain(g, t, top2) /\ Ends(t)
  BY <1>1, <1>2, HeadAppends
<1>4. n \in Nodes /\ Validator \in Nodes /\ (g.role = "producer" => n = Validator)
  BY GoroutineIs
<1>5. height' = [height EXCEPT ![n] = h + 1]
  BY <1>1, <1>3
<1>6. Top' = top2 /\ top2 \in Nat /\ Top <= top2 /\ h + 1 <= top2
  BY <1>2, <1>3, <1>4, <1>5 DEF Top, TopAfter, MayAppend, DataOK
<1>7. height' \in [Nodes -> Nat] /\ \A x \in Nodes : height'[x] <= Top'
  BY <1>2, <1>4, <1>5, <1>6 DEF DataOK
<1>8. socket' \in [Nodes -> Seq(Messages(Top'))]
  <2>1. Seq(Messages(Top)) \subseteq Seq(Messages(top2))
    BY <1>2, <1>6, MessagesGrow, SeqMonotonic
  <2> QED
    BY <1>1, <1>6, <2>1 DEF DataOK
<1>9. PICK k, rest : Went(g, t, k, rest)
  <2>1. After(Head(s), h) = <<>>
    BY DEF After
  <2> HIDE DEF t, s, h
  <2>2. Then(g, <<>>)
    BY <1>1, <2>1
  <2> QED
    BY <1>2, <2>2, ThenGoesOn DEF t, s
<1>10. Sound(g, rest, h + 1, top2)
  <2>1. Sound(g, t, h + 1, top2)
    BY <1>3 DEF Sound
  <2> HIDE DEF t, h
  <2> QED
    BY <1>9, <2>1, SoundRest DEF Went
<1>11. run' = [run EXCEPT ![g] = rest] /\ holds' = [holds EXCEPT ![g] = @ \ GivenBack(t, k)]
  BY <1>9 DEF Went
<1>12. /\ run' = [x \in Goroutines |-> run'[x]]
       /\ holds' = [x \in Goroutines |-> holds'[x]]
  BY <1>11 DEF DataOK
<1>13. ASSUME NEW x \in Goroutines PROVE Sound(x, run'[x], height'[x.node], Top')
  <2>1. CASE x = g
    <3>1. run'[x] = rest
      BY <1>11, <2>1 DEF DataOK
    <3>2. height'[x.node] = h + 1
      BY <1>4, <1>5, <2>1 DEF DataOK
    <3> QED
      BY <1>6, <1>10, <2>1, <3>1, <3>2
  <2>2. CASE x # g
    <3> DEFINE r == run[x]
               m == height[x.node]
    <3>1. run'[x] = r
      BY <1>11, <2>2 DEF DataOK
    <3>2. Sound(x, r, m, Top) /\ m \in Nat /\ m <= Top
      BY NodesHeights
    <3>3. CASE Plain(x, r, Top)
      <4>1. Plain(x, r, top2)
        BY <1>2, <1>6, <3>3, PlainStepGrows DEF Plain
      <4> QED
        BY <1>6, <3>1, <3>2, <4>1 DEF Sound
    <3>4. CASE Appends(x, r, m, Top)
      <4>1. MayAppend(x, m, Top) /\ x.role \in {"producer", "reader"}
        BY <3>4 DEF Appends, MayAppend
      <4>2. x.node # n
        BY <1>3, <1>4, <2>2, <4>1, GoroutineIs DEF MayAppend
      <4>3. height'[x.node] = m
        BY <1>5, <4>2, GoroutineIs DEF DataOK
      <4>4. MayAppend(x, m, top2)
        BY <1>2, <1>6, <3>2, <4>1 DEF MayAppend
      <4>5. TopAfter(x, m, Top) <= TopAfter(x, m, top2) /\ TopAfter(x, m, Top) \in Nat
            /\ TopAfter(x, m, top2) \in Nat
        BY <1>2, <1>6, <3>2 DEF TopAfter
      <4>6. Appends(x, r, m, top2)
        <5>1. PICK j \in 1..Len(r) :
                  /\ r[j].do = "append" /\ r[j].arg = m + 1
                  /\ \A i \in 1..j - 1 : PlainStep(x, r[i], Top)
                  /\ \A i \in j + 1..Len(r) : PlainStep(x, r[i], TopAfter(x, m, Top))
          BY <3>4 DEF Appends
        <5> HIDE DEF r, m, top2
        <5>2. \A i \in 1..j - 1 : PlainStep(x, r[i], top2)
          BY <1>2, <1>6, <5>1, PlainStepGrows
        <5>3. \A i \in j + 1..Len(r) : PlainStep(x, r[i], TopAfter(x, m, top2))
          BY <4>5, <5>1, PlainStepGrows
        <5> QED
          BY <3>4, <4>4, <5>1, <5>2, <5>3 DEF Appends
      <4> QED
        BY <1>6, <3>1, <3>2, <4>3, <4>6 DEF Sound
    <3> QED
      BY <3>2, <3>3, <3>4 DEF Sound
  <2> QED
    BY <2>1, <2>2
<1> QED
  BY <1>5, <1>7, <1>8, <1>12, <1>13 DEF DataOK

(* Every step keeps the first invariant.                                 *)
LEMMA DataStep ==
    ASSUME DataOK, [Next]_vars
    PROVE  DataOK'
<1>1. CASE vars' = vars
  BY <1>1 DEF DataOK, Top, vars
<1>2. CASE \E g \in Goroutines : TakeLock(g)
  BY <1>2, DataHold
<1>3. CASE \E g \in Goroutines : WriteMessage(g)
  BY <1>3, DataWrite
<1>4. CASE \E g \in Goroutines : VisitLocks(g)
  BY <1>4, DataVisit, DataAppend
<1>5. CASE \E n \in Nodes : Decode(n)
  BY <1>5, DataDecode
<1>6. CASE Tick
  BY <1>6, DataTick
<1>7. CASE \E n \in Watched : Poll(n)
  BY <1>7, DataPoll
<1>8. CASE Hangup
  BY <1>8, DataHangup
<1>9. CASE \E n \in Nodes : Fail(n) \/ CloseConn(n)
  BY <1>9, DataFail, DataClose
<1> QED
  BY <1>1, <1>2, <1>3, <1>4, <1>5, <1>6, <1>7, <1>8, <1>9 DEF Next

(* Chains only grow, one block at a time (p2p, applyBlocks; the producer's *)
(* loop).                                                                  *)
LEMMA LocksData == Spec => []DataOK
<1>1. Init => DataOK
  BY DataInit
<1>2. DataOK /\ [Next]_vars => DataOK'
  BY DataStep
<1> QED
  BY <1>1, <1>2, PTL DEF Spec

-----------------------------------------------------------------------------
(***************************************************************************)
(* The second invariant: what a stream has shown since it noted a height   *)
(* is of that height or of a later one, and the rest is still to come.     *)
(***************************************************************************)
Show(part) == OnChain("show", part)

SinceNoted(c, parts) == \A part \in parts : c["noted"] <= c[part]

Showing(s, c) ==
    \/ s = <<Show("info"), Show("latest"), Show("balance")>>
    \/ s = <<Show("latest"), Show("balance")>> /\ SinceNoted(c, {"info"})
    \/ s = <<Show("balance")>> /\ SinceNoted(c, {"info", "latest"})
    \/ s = <<>> /\ SinceNoted(c, {"info", "latest", "balance"})

ShownOK ==
    /\ shown \in [Nodes -> [Parts -> Nat]]
    /\ \A n \in Watched : \A part \in Parts : shown[n][part] <= height[n]
    /\ \A n \in Watched : Showing(run[Stream(n)], shown[n])

(* No chain ever gets shorter.                                           *)
LEMMA HeightsGrow ==
    ASSUME DataOK, [Next]_vars
    PROVE  \A n \in Nodes : height[n] \in Nat /\ height'[n] \in Nat /\ height[n] <= height'[n]
<1>1. DataOK'
  BY DataStep
<1>2. ASSUME height' = height
      PROVE  \A n \in Nodes : height[n] \in Nat /\ height'[n] \in Nat /\ height[n] <= height'[n]
  BY <1>2 DEF DataOK
<1>3. ASSUME NEW g \in Goroutines, VisitLocks(g)
      PROVE  \A n \in Nodes : height[n] \in Nat /\ height'[n] \in Nat /\ height[n] <= height'[n]
  <2>1. CASE Head(run[g]).do = "append"
    <3>1. height' = [height EXCEPT ![g.node] = height[g.node] + 1]
      BY <1>3, <2>1, DataAppend
    <3> QED
      BY <3>1 DEF DataOK
  <2>2. CASE Head(run[g]).do # "append"
    <3>1. height' = height
      BY <1>3, <2>2 DEF VisitLocks
    <3> QED
      BY <1>2, <3>1
  <2> QED
    BY <2>1, <2>2
<1> QED
  BY <1>2, <1>3 DEF Next, TakeLock, WriteMessage, Decode, Fail, CloseConn, Tick, Poll, Hangup, vars

(* A goroutine whose steps to come begin with none that gives back a lock. *)
LEMMA ThenKeeps ==
    ASSUME NEW g, NEW steps, NEW all, Then(g, steps), all = steps \o Tail(run[g]),
           IsSeq(all), all # <<>> => Head(all).do # "release"
    PROVE  run' = [run EXCEPT ![g] = all] /\ holds' = [holds EXCEPT ![g] = @ \ {}]
<1>1. Drops(all, 0, all)
  BY Keeps
<1>3. Released(all) = 0 /\ SubSeq(all, 0 + 1, Len(all)) = all
  BY <1>1, DropsReleased
<1>4. {all[i].lock : i \in 1..0} = {}
  OBVIOUS
<1>5. /\ run' = [run EXCEPT ![g] = SubSeq(all, Released(all) + 1, Len(all))]
      /\ holds' = [holds EXCEPT ![g] = @ \ {all[i].lock : i \in 1..Released(all)}]
  BY DEF Then
<1> QED
  BY <1>3, <1>4, <1>5

(* A step of one goroutine leaves the others alone.                      *)
LEMMA OthersStay ==
    ASSUME DataOK, NEW g \in Goroutines, TakeLock(g) \/ WriteMessage(g) \/ VisitLocks(g)
    PROVE  \A x \in Goroutines : x # g => run'[x] = run[x] /\ holds'[x] = holds[x]
<1>1. ASSUME NEW steps, Then(g, steps)
      PROVE  \A x \in Goroutines : x # g => run'[x] = run[x] /\ holds'[x] = holds[x]
  BY <1>1 DEF Then, DataOK
<1>2. CASE TakeLock(g)
  BY <1>2 DEF TakeLock, DataOK
<1>3. CASE WriteMessage(g)
  BY <1>1, <1>3 DEF WriteMessage, DataOK
<1>4. CASE VisitLocks(g)
  BY <1>1, <1>4 DEF VisitLocks
<1> QED
  BY <1>2, <1>3, <1>4

(* A part more that the stream has shown.                                  *)
LEMMA ShownNext ==
    ASSUME NEW s, NEW c \in [Parts -> Nat], NEW h \in Nat, Showing(s, c), s # <<>>,
           \A part \in Parts : c[part] <= h
    PROVE  /\ Head(s).do = "show" /\ Head(s).arg \in Parts
           /\ IsSeq(Tail(s)) /\ (Tail(s) # <<>> => Head(Tail(s)).do # "release")
           /\ Showing(Tail(s), [c EXCEPT ![Head(s).arg] = h])
<1>1. CASE s = <<Show("info"), Show("latest"), Show("balance")>>
  <2> DEFINE t == <<Show("latest"), Show("balance")>>
             d == [c EXCEPT !["info"] = h]
  <2>1. Head(s) = Show("info") /\ Tail(s) = t
    BY <1>1
  <2>2. IsSeq(t) /\ t # <<>> /\ Head(t) = Show("latest")
    BY DEF IsSeq
  <2>3. SinceNoted(d, {"info"})
    BY <1>1 DEF SinceNoted, Parts
  <2>4. Showing(t, d)
    BY <2>3, Zenon DEF Showing
  <2>5. \A x : Show(x).do = "show" /\ Show(x).arg = x
    BY DEF Show, OnChain
  <2>6. "info" \in Parts
    BY DEF Parts
  <2> HIDE DEF t, d
  <2> QED
    BY <2>1, <2>2, <2>4, <2>5, <2>6 DEF d
<1>2. CASE s = <<Show("latest"), Show("balance")>> /\ SinceNoted(c, {"info"})
  <2> DEFINE t == <<Show("balance")>>
             d == [c EXCEPT !["latest"] = h]
  <2>1. Head(s) = Show("latest") /\ Tail(s) = t
    BY <1>2
  <2>2. IsSeq(t) /\ t # <<>> /\ Head(t) = Show("balance")
    BY DEF IsSeq
  <2>3. SinceNoted(d, {"info", "latest"})
    BY <1>2 DEF SinceNoted, Parts
  <2>4. Showing(t, d)
    BY <2>3, Zenon DEF Showing
  <2>5. \A x : Show(x).do = "show" /\ Show(x).arg = x
    BY DEF Show, OnChain
  <2>6. "latest" \in Parts
    BY DEF Parts
  <2> HIDE DEF t, d
  <2> QED
    BY <2>1, <2>2, <2>4, <2>5, <2>6 DEF d
<1>3. CASE s = <<Show("balance")>> /\ SinceNoted(c, {"info", "latest"})
  <2> DEFINE t == <<>>
             d == [c EXCEPT !["balance"] = h]
  <2>1. Head(s) = Show("balance") /\ Tail(s) = t
    BY <1>3
  <2>2. IsSeq(t) /\ t = <<>>
    BY DEF IsSeq
  <2>3. SinceNoted(d, {"info", "latest", "balance"})
    BY <1>3 DEF SinceNoted, Parts
  <2>4. Showing(t, d)
    BY <2>3, Zenon DEF Showing
  <2>5. \A x : Show(x).do = "show" /\ Show(x).arg = x
    BY DEF Show, OnChain
  <2>6. "balance" \in Parts
    BY DEF Parts
  <2> HIDE DEF t, d
  <2> QED
    BY <2>1, <2>2, <2>4, <2>5, <2>6 DEF d
<1> QED
  BY <1>1, <1>2, <1>3 DEF Showing

(* The second invariant holds at the start.                              *)
LEMMA ShownInit ==
    ASSUME Init
    PROVE  ShownOK
<1>1. shown \in [Nodes -> [Parts -> Nat]]
  BY DEF Init
<1>2. ASSUME NEW n \in Watched
      PROVE  /\ \A part \in Parts : shown[n][part] <= height[n]
             /\ Showing(run[Stream(n)], shown[n])
  <2>1. n \in Nodes /\ height[n] \in Nat /\ \A part \in Parts : shown[n][part] = 0
    BY LocksAssumption DEF Init
  <2>2. run[Stream(n)] = <<>>
    <3>1. Stream(n) # Reader(Dialer) /\ Stream(n) \notin Requests
      BY NamedGoroutines, GoroutineIs DEF Reader
    <3> QED
      BY <3>1, NamedGoroutines DEF Init
  <2>3. SinceNoted(shown[n], {"info", "latest", "balance"})
    BY <2>1 DEF SinceNoted, Parts
  <2> QED
    BY <2>1, <2>2, <2>3 DEF Showing
<1> QED
  BY <1>1, <1>2 DEF ShownOK

(* Every step keeps the second invariant.                                *)
LEMMA ShownStep ==
    ASSUME DataOK, ShownOK, [Next]_vars
    PROVE  ShownOK'
<1>0. \A n \in Nodes : height[n] \in Nat /\ height'[n] \in Nat /\ height[n] <= height'[n]
  BY HeightsGrow
<1>1. Watched \subseteq Nodes
  BY LocksAssumption
<1>2. ASSUME shown' = shown, \A n \in Watched : run'[Stream(n)] = run[Stream(n)]
      PROVE  ShownOK'
  <2>1. \A n \in Watched : \A part \in Parts : shown'[n][part] <= height'[n]
    <3> TAKE n \in Watched
    <3> TAKE part \in Parts
    <3>1. shown[n][part] \in Nat /\ shown[n][part] <= height[n]
      BY <1>1 DEF ShownOK
    <3> QED
      BY <1>0, <1>1, <1>2, <3>1
  <2> QED
    BY <1>2, <2>1 DEF ShownOK
<1>3. ASSUME NEW n \in Watched, NEW part \in Parts,
             shown' = [shown EXCEPT ![n][part] = height[n]],
             \A m \in Watched : m # n => run'[Stream(m)] = run[Stream(m)],
             Showing(run'[Stream(n)], [shown[n] EXCEPT ![part] = height[n]])
      PROVE  ShownOK'
  <2>1. shown' \in [Nodes -> [Parts -> Nat]] /\ shown'[n] = [shown[n] EXCEPT ![part] = height[n]]
        /\ \A m \in Nodes : m # n => shown'[m] = shown[m]
    BY <1>0, <1>1, <1>3 DEF ShownOK
  <2>2. \A m \in Watched : \A p \in Parts : shown'[m][p] <= height'[m]
    <3> SUFFICES ASSUME NEW m \in Watched, NEW p \in Parts PROVE shown'[m][p] <= height'[m]
      OBVIOUS
    <3>1. shown[m][p] \in Nat /\ shown[m][p] <= height[m] /\ m \in Nodes
      BY <1>1 DEF ShownOK
    <3>2. shown'[m][p] = shown[m][p] \/ shown'[m][p] = height[m]
      BY <1>1, <2>1, <3>1 DEF ShownOK
    <3> QED
      BY <1>0, <3>1, <3>2
  <2>3. \A m \in Watched : Showing(run'[Stream(m)], shown'[m])
    BY <1>1, <1>3, <2>1 DEF ShownOK
  <2> QED
    BY <2>1, <2>2, <2>3 DEF ShownOK
<1>4. ASSUME NEW g \in Goroutines, TakeLock(g) \/ WriteMessage(g) PROVE ShownOK'
  <2>1. shown' = shown
    BY <1>4 DEF TakeLock, WriteMessage
  <2>2. run[g] # <<>> /\ Head(run[g]).do # "show"
    BY <1>4 DEF TakeLock, WriteMessage, Goes, Ready
  <2>3. \A n \in Watched : g # Stream(n)
    <3> SUFFICES ASSUME NEW n \in Watched, g = Stream(n) PROVE FALSE
      OBVIOUS
    <3>1. Showing(run[g], shown[n]) /\ shown[n] \in [Parts -> Nat]
          /\ \A part \in Parts : shown[n][part] <= height[n]
      BY <1>1 DEF ShownOK
    <3> QED
      BY <1>0, <1>1, <2>2, <3>1, ShownNext
  <2>4. \A n \in Watched : run'[Stream(n)] = run[Stream(n)]
    BY <1>4, <2>3, OthersStay, NamedGoroutines
  <2> QED
    BY <1>2, <2>1, <2>4
<1>5. ASSUME NEW g \in Goroutines, VisitLocks(g) PROVE ShownOK'
  <2>1. CASE g.role = "stream"
    <3> DEFINE n == g.node
               s == run[g]
               part == Head(s).arg
    <3>1. n \in Watched /\ g = Stream(n) /\ n \in Nodes
      BY <1>1, <2>1, GoroutineIs
    <3>2. s # <<>>
      BY <1>5 DEF VisitLocks, Ready
    <3>3. Showing(s, shown[n]) /\ shown[n] \in [Parts -> Nat]
          /\ \A p \in Parts : shown[n][p] <= height[n]
      BY <1>1, <3>1 DEF ShownOK
    <3>4. /\ Head(s).do = "show" /\ part \in Parts
          /\ IsSeq(Tail(s)) /\ (Tail(s) # <<>> => Head(Tail(s)).do # "release")
          /\ Showing(Tail(s), [shown[n] EXCEPT ![part] = height[n]])
      BY <1>0, <3>1, <3>2, <3>3, ShownNext
    <3>5. shown' = [shown EXCEPT ![n][part] = height[n]]
      BY <1>5, <3>4 DEF VisitLocks
    <3>6. Then(g, <<>>)
      <4>1. After(Head(s), height[n]) = <<>>
        BY <3>4 DEF After
      <4>2. Then(g, After(Head(s), height[n]))
        BY <1>5 DEF VisitLocks
      <4> QED
        BY <4>1, <4>2
    <3>7. run'[g] = Tail(s)
      <4>1. Tail(s) = <<>> \o Tail(s)
        BY <3>2, NodesHeights
      <4> DEFINE all == Tail(s)
      <4>2. all = <<>> \o Tail(run[g])
        BY <4>1
      <4> HIDE DEF all
      <4>3. IsSeq(all) /\ (all # <<>> => Head(all).do # "release")
        BY <3>4 DEF all
      <4>4. run' = [run EXCEPT ![g] = all]
        BY <3>6, <4>2, <4>3, ThenKeeps
      <4> QED
        BY <4>4 DEF DataOK, all
    <3>8. \A m \in Watched : m # n => run'[Stream(m)] = run[Stream(m)]
      <4> SUFFICES ASSUME NEW m \in Watched, m # n PROVE run'[Stream(m)] = run[Stream(m)]
        OBVIOUS
      <4>1. Stream(m) # g /\ Stream(m) \in Goroutines
        BY <3>1, NamedGoroutines
      <4> QED
        BY <1>5, <4>1, OthersStay
    <3>9. Showing(run'[Stream(n)], [shown[n] EXCEPT ![part] = height[n]])
      BY <3>1, <3>4, <3>7
    <3> HIDE DEF n, s, part
    <3> QED
      BY <1>3, <3>1, <3>4, <3>5, <3>8, <3>9 DEF s
  <2>2. CASE g.role # "stream"
    <3>1. run[g] # <<>>
      BY <1>5 DEF VisitLocks, Ready
    <3>2. Head(run[g]).do # "show"
      BY <2>2, <3>1, NodesHeights, HeadIsPlain DEF PlainStep
    <3>3. shown' = shown
      BY <1>5, <3>2 DEF VisitLocks
    <3>4. \A n \in Watched : run'[Stream(n)] = run[Stream(n)]
      BY <1>5, <2>2, OthersStay, NamedGoroutines
    <3> QED
      BY <1>2, <3>3, <3>4
  <2> QED
    BY <2>1, <2>2
<1>6. ASSUME NEW n \in Nodes, Decode(n) \/ Fail(n) \/ CloseConn(n) PROVE ShownOK'
  <2>1. shown' = shown
    BY <1>6 DEF Decode, Fail, CloseConn
  <2>2. \A m \in Watched : run'[Stream(m)] = run[Stream(m)]
    <3> SUFFICES ASSUME NEW m \in Watched PROVE run'[Stream(m)] = run[Stream(m)]
      OBVIOUS
    <3>1. Stream(m) # Reader(n) /\ Stream(m) \in Goroutines
      BY NamedGoroutines DEF Reader
    <3> QED
      BY <1>6, <3>1 DEF Decode, Fail, CloseConn, DataOK
  <2> QED
    BY <1>2, <2>1, <2>2
<1>7. ASSUME Tick PROVE ShownOK'
  <2>1. shown' = shown
    BY <1>7 DEF Tick
  <2>2. \A m \in Watched : run'[Stream(m)] = run[Stream(m)]
    <3> SUFFICES ASSUME NEW m \in Watched PROVE run'[Stream(m)] = run[Stream(m)]
      OBVIOUS
    <3>1. Stream(m) # Producer(Validator) /\ Stream(m) \in Goroutines
      BY NamedGoroutines
    <3> QED
      BY <1>7, <3>1 DEF Tick, DataOK
  <2> QED
    BY <1>2, <2>1, <2>2
<1>8. ASSUME NEW n \in Watched, Poll(n) PROVE ShownOK'
  <2>1. /\ shown' = [shown EXCEPT ![n]["noted"] = height[n]]
        /\ run' = [run EXCEPT ![Stream(n)] = Tail(StreamRound)]
    <3>1. Head(StreamRound).arg = "noted"
      BY DEF StreamRound, OnChain
    <3> QED
      BY <1>8, <3>1 DEF Poll
  <2>2. Tail(StreamRound) = <<Show("info"), Show("latest"), Show("balance")>>
    BY DEF StreamRound, Show
  <2>3. \A m \in Watched : m # n => run'[Stream(m)] = run[Stream(m)]
    <3> SUFFICES ASSUME NEW m \in Watched, m # n PROVE run'[Stream(m)] = run[Stream(m)]
      OBVIOUS
    <3>1. Stream(m) # Stream(n) /\ Stream(m) \in Goroutines
      BY NamedGoroutines
    <3> QED
      BY <2>1, <3>1 DEF DataOK
  <2>4. Showing(run'[Stream(n)], [shown[n] EXCEPT !["noted"] = height[n]])
    BY <2>1, <2>2, NamedGoroutines DEF Showing, DataOK
  <2>5. "noted" \in Parts
    BY DEF Parts
  <2> QED
    BY <1>3, <2>1, <2>3, <2>4, <2>5
<1>9. ASSUME Hangup \/ vars' = vars PROVE ShownOK'
  BY <1>2, <1>9 DEF Hangup, vars
<1> QED
  BY <1>4, <1>5, <1>6, <1>7, <1>8, <1>9 DEF Next

(* What a client has when its stream waits for another height is of the    *)
(* height that the chain has (api/chain.go, pushIfChanged): whatever was   *)
(* appended while the stream read one thing after the other.               *)
THEOREM LocksStreamIsCurrent == Spec => []StreamIsCurrent
<1>1. Init => ShownOK
  BY ShownInit
<1>2. DataOK /\ ShownOK /\ [Next]_vars => ShownOK'
  BY ShownStep
<1>3. DataOK /\ ShownOK => StreamIsCurrent
  <2> SUFFICES ASSUME DataOK, ShownOK, NEW n \in Watched, run[Stream(n)] = <<>>,
                      shown[n]["noted"] = height[n], NEW part \in Parts
               PROVE  shown[n][part] = height[n]
    BY DEF StreamIsCurrent
  <2>1. n \in Nodes /\ height[n] \in Nat /\ shown[n][part] \in Nat
        /\ shown[n][part] <= height[n]
    BY LocksAssumption DEF ShownOK, DataOK
  <2>2. SinceNoted(shown[n], {"info", "latest", "balance"})
    <3>1. Showing(run[Stream(n)], shown[n])
      BY DEF ShownOK
    <3>2. \A a, b, c : <<a>> # <<>> /\ <<a, b>> # <<>> /\ <<a, b, c>> # <<>>
      OBVIOUS
    <3> QED
      BY <3>1, <3>2, Zenon DEF Showing
  <2> QED
    BY <2>1, <2>2 DEF SinceNoted, Parts
<1> QED
  BY <1>1, <1>2, <1>3, LocksData, PTL DEF Spec

-----------------------------------------------------------------------------
(***************************************************************************)
(* The order of the locks. A lock is taken, or looked at, only by a        *)
(* goroutine all of whose locks come before it; the lock of the            *)
(* connections by one that holds no other, to write, and by no reader.     *)
(***************************************************************************)
LockNames == {"bridge", "pool", "createPool", "closePool", "conns"}

Ranked == {"bridge", "pool", "createPool", "closePool", "chain", "keystore"}

Rank(l) == CASE l = "bridge"     -> 1
             [] l = "pool"       -> 2
             [] l = "createPool" -> 3
             [] l = "closePool"  -> 4
             [] OTHER            -> 5

Above(locks, H) ==
    locks \subseteq Ranked /\ H \subseteq Ranked /\ \A l \in locks, k \in H : Rank(k) < Rank(l)

(* A goroutine that holds H when it comes to step x, and K when all that x *)
(* stands for is done.                                                     *)
Moves(role, x, H, K) ==
    \/ /\ x.do = "hold" /\ x.lock \in LockNames /\ K = H \cup {x.lock}
       /\ \/ x.lock = "conns" /\ H = {} /\ role # "reader"
          \/ Above({x.lock}, H)
    \/ x.do = "release" /\ K = H \ {x.lock}
    \/ x.do = "write" /\ K = H /\ H = (IF role = "reader" THEN {} ELSE {"conns"})
    \/ /\ x.do \in {"greet", "compare", "ask", "serve"} /\ Above(x.locks, H)
       /\ role = "reader" /\ H = {} /\ K = {}
    \/ /\ x.do = "apply" /\ Above(x.locks, H)
       /\ role = "reader" /\ H = {"bridge"} /\ K = {}
    \/ /\ x.do = "produce" /\ Above(x.locks, H)
       /\ role = "producer" /\ H = {} /\ K = {}
    \/ x.do \in {"append", "show", "visit"} /\ Above(x.locks, H) /\ K = H

(* The locks held before each of the steps s, and after all. *)
Trace(role, s, h) ==
    /\ h \in [0..Len(s) -> SUBSET LockNames]
    /\ \A i \in 1..Len(s) :
          /\ Moves(role, s[i], h[i - 1], h[i])
          /\ s[i].do = "hold" => i < Len(s) /\ s[i + 1].do # "release"

Path(role, s, H, K) ==
    IsSeq(s) /\ \E h : Trace(role, s, h) /\ h[0] = H /\ h[Len(s)] = K

Begins(s) == s # <<>> => Head(s).do # "release"

(* What is left of a path is one.                                        *)
LEMMA TraceOfRest ==
    ASSUME NEW role, NEW s, NEW h, IsSeq(s), Trace(role, s, h),
           NEW k \in 0..Len(s), NEW rest, IsSeq(rest), Len(rest) = Len(s) - k,
           \A i \in 1..Len(rest) : rest[i] = s[k + i]
    PROVE  Path(role, rest, h[k], h[Len(s)])
<1> DEFINE f == [i \in 0..Len(rest) |-> h[k + i]]
<1>0. Len(s) \in Nat /\ Len(rest) \in Nat /\ k \in Nat
  BY DEF IsSeq
<1>1. \A i \in 0..Len(rest) : k + i \in 0..Len(s) /\ f[i] = h[k + i]
  BY <1>0
<1>2. f \in [0..Len(rest) -> SUBSET LockNames]
  BY <1>1 DEF Trace
<1>3. f[0] = h[k] /\ f[Len(rest)] = h[Len(s)]
  <2>1. k + 0 = k /\ k + Len(rest) = Len(s) /\ 0 \in 0..Len(rest) /\ Len(rest) \in 0..Len(rest)
    BY <1>0
  <2> QED
    BY <1>1, <2>1
<1> HIDE DEF f
<1>4. ASSUME NEW i \in 1..Len(rest)
      PROVE  /\ Moves(role, rest[i], f[i - 1], f[i])
             /\ rest[i].do = "hold" => i < Len(rest) /\ rest[i + 1].do # "release"
  <2>1. k + i \in 1..Len(s) /\ rest[i] = s[k + i]
    BY <1>0
  <2>2. f[i] = h[k + i] /\ f[i - 1] = h[(k + i) - 1]
    <3>1. i \in 0..Len(rest) /\ i - 1 \in 0..Len(rest) /\ k + (i - 1) = (k + i) - 1
      BY <1>0
    <3> QED
      BY <1>1, <3>1
  <2>3. Moves(role, s[k + i], h[(k + i) - 1], h[k + i])
    BY <2>1 DEF Trace
  <2>4. ASSUME rest[i].do = "hold" PROVE i < Len(rest) /\ rest[i + 1].do # "release"
    <3>1. k + i < Len(s) /\ s[(k + i) + 1].do # "release"
      BY <2>1, <2>4 DEF Trace
    <3>2. i + 1 \in 1..Len(rest) /\ k + (i + 1) = (k + i) + 1
      BY <1>0, <3>1
    <3>3. rest[i + 1] = s[k + (i + 1)]
      BY <3>2
    <3> QED
      BY <1>0, <3>1, <3>2, <3>3
  <2> QED
    BY <2>1, <2>2, <2>3, <2>4
<1>5. Trace(role, rest, f)
  BY <1>2, <1>4 DEF Trace
<1> QED
  BY <1>3, <1>5 DEF Path

(* A path of no steps leads nowhere.                                     *)
LEMMA PathNil ==
    ASSUME NEW role, NEW H, NEW K
    PROVE  /\ H \in SUBSET LockNames => Path(role, <<>>, H, H)
           /\ Path(role, <<>>, H, K) => H = K
<1>1. IsSeq(<<>>) /\ Len(<<>>) = 0
  BY DEF IsSeq
<1>2. ASSUME H \in SUBSET LockNames PROVE Path(role, <<>>, H, H)
  <2> DEFINE h == [i \in 0..0 |-> H]
  <2>1. h \in [0..0 -> SUBSET LockNames] /\ h[0] = H
    BY <1>2
  <2> HIDE DEF h
  <2>2. Trace(role, <<>>, h)
    BY <1>1, <2>1 DEF Trace
  <2> QED
    BY <1>1, <2>1, <2>2 DEF Path
<1>3. Path(role, <<>>, H, K) => H = K
  BY <1>1 DEF Path
<1> QED
  BY <1>2, <1>3

(* The first step of a path, and the path of the others.                 *)
LEMMA PathHead ==
    ASSUME NEW role, NEW s, NEW H, NEW K, Path(role, s, H, K), s # <<>>
    PROVE  /\ H \in SUBSET LockNames
           /\ \E M \in SUBSET LockNames :
                 Moves(role, Head(s), H, M) /\ Path(role, Tail(s), M, K)
           /\ Head(s).do = "hold" => Tail(s) # <<>> /\ Begins(Tail(s))
<1>1. PICK h : Trace(role, s, h) /\ h[0] = H /\ h[Len(s)] = K
  BY DEF Path
<1> DEFINE t == Tail(s)
<1>2. /\ IsSeq(s) /\ IsSeq(t) /\ Len(s) \in Nat \ {0} /\ Len(t) = Len(s) - 1 /\ Head(s) = s[1]
      /\ \A i \in 1..Len(t) : t[i] = s[1 + i] /\ 1 + i \in 1..Len(s)
  <2>1. IsSeq(s)
    BY DEF Path
  <2> QED
    BY <2>1, TailIs, Zenon
<1> HIDE DEF t
<1>3. Path(role, t, h[1], K)
  BY <1>1, <1>2, TraceOfRest
<1>4. H \in SUBSET LockNames /\ h[1] \in SUBSET LockNames
  BY <1>1, <1>2 DEF Trace
<1>5. Moves(role, s[1], h[1 - 1], h[1]) /\ (s[1].do = "hold" => 1 < Len(s) /\ s[1 + 1].do # "release")
  BY <1>1, <1>2 DEF Trace
<1>6. Moves(role, Head(s), H, h[1])
  BY <1>1, <1>2, <1>5
<1>7. ASSUME Head(s).do = "hold" PROVE t # <<>> /\ Begins(t)
  <2>1. Len(t) >= 1 /\ t[1] = s[2] /\ s[2].do # "release"
    BY <1>2, <1>5, <1>7
  <2>2. t # <<>>
    BY <2>1
  <2>3. Head(t) = t[1]
    BY <1>2, <2>2, TailIs, Zenon
  <2> QED
    BY <2>1, <2>2, <2>3 DEF Begins
<1> QED
  BY <1>3, <1>4, <1>6, <1>7 DEF t

(* A path of one step.                                                   *)
LEMMA PathOne ==
    ASSUME NEW role, NEW x, NEW H \in SUBSET LockNames, NEW K \in SUBSET LockNames,
           Moves(role, x, H, K), x.do # "hold"
    PROVE  Path(role, <<x>>, H, K)
<1> DEFINE s == <<x>>
           h == [i \in 0..1 |-> IF i = 0 THEN H ELSE K]
<1>1. IsSeq(s) /\ Len(s) = 1 /\ s[1] = x
  BY DEF IsSeq
<1>2. h \in [0..1 -> SUBSET LockNames] /\ h[0] = H /\ h[1] = K
  OBVIOUS
<1> HIDE DEF s, h
<1>3. Trace(role, s, h)
  BY <1>1, <1>2 DEF Trace
<1> QED
  BY <1>1, <1>2, <1>3 DEF Path, s

(* A path after a path.                                                  *)
LEMMA PathJoin ==
    ASSUME NEW role, NEW r, NEW s, NEW H, NEW M, NEW K,
           Path(role, r, H, M), Path(role, s, M, K)
    PROVE  Path(role, r \o s, H, K)
<1>1. PICK h : Trace(role, r, h) /\ h[0] = H /\ h[Len(r)] = M
  BY DEF Path
<1>2. PICK k : Trace(role, s, k) /\ k[0] = M /\ k[Len(s)] = K
  BY DEF Path
<1> DEFINE u == r \o s
           f == [i \in 0..Len(u) |-> IF i <= Len(r) THEN h[i] ELSE k[i - Len(r)]]
<1>3. /\ IsSeq(u) /\ Len(r) \in Nat /\ Len(s) \in Nat /\ Len(u) = Len(r) + Len(s)
      /\ \A i \in 1..Len(r) : u[i] = r[i]
      /\ \A i \in 1..Len(s) : u[Len(r) + i] = s[i]
  <2>1. IsSeq(r) /\ IsSeq(s)
    BY DEF Path
  <2> QED
    BY <2>1, JoinIs DEF IsJoin
<1> HIDE DEF u
<1>4. \A i \in 0..Len(r) : f[i] = h[i]
  BY <1>3
<1>5. \A i \in 0..Len(s) : f[Len(r) + i] = k[i]
  <2> TAKE i \in 0..Len(s)
  <2>1. Len(r) + i \in 0..Len(u)
    BY <1>3
  <2>2. CASE i = 0
    BY <1>1, <1>2, <1>3, <2>1, <2>2
  <2>3. CASE i # 0
    <3>1. ~(Len(r) + i <= Len(r)) /\ (Len(r) + i) - Len(r) = i
      BY <1>3, <2>3
    <3> QED
      BY <2>1, <3>1
  <2> QED
    BY <2>2, <2>3
<1>6. f \in [0..Len(u) -> SUBSET LockNames]
  <2> SUFFICES ASSUME NEW i \in 0..Len(u)
               PROVE  (IF i <= Len(r) THEN h[i] ELSE k[i - Len(r)]) \in SUBSET LockNames
    OBVIOUS
  <2>1. i <= Len(r) => i \in 0..Len(r)
    BY <1>3
  <2>2. ~(i <= Len(r)) => i - Len(r) \in 0..Len(s)
    BY <1>3
  <2> QED
    BY <1>1, <1>2, <2>1, <2>2 DEF Trace
<1> HIDE DEF f
<1>7. ASSUME NEW i \in 1..Len(u)
      PROVE  /\ Moves(role, u[i], f[i - 1], f[i])
             /\ u[i].do = "hold" => i < Len(u) /\ u[i + 1].do # "release"
  <2>1. CASE i <= Len(r)
    <3>1. i \in 1..Len(r) /\ i \in 0..Len(r) /\ i - 1 \in 0..Len(r)
      BY <1>3, <2>1
    <3>2. u[i] = r[i] /\ f[i] = h[i] /\ f[i - 1] = h[i - 1]
      BY <1>3, <1>4, <3>1
    <3>3. ASSUME u[i].do = "hold" PROVE i < Len(u) /\ u[i + 1].do # "release"
      <4>1. i < Len(r) /\ r[i + 1].do # "release"
        BY <1>1, <3>1, <3>2, <3>3 DEF Trace
      <4> QED
        BY <1>3, <3>1, <4>1
    <3> QED
      BY <1>1, <3>1, <3>2, <3>3 DEF Trace
  <2>2. CASE ~(i <= Len(r))
    <3> DEFINE j == i - Len(r)
    <3>1. j \in 1..Len(s) /\ j \in 0..Len(s) /\ j - 1 \in 0..Len(s)
          /\ i = Len(r) + j /\ i - 1 = Len(r) + (j - 1)
      BY <1>3, <2>2
    <3> HIDE DEF j
    <3>2. u[i] = s[j] /\ f[i] = k[j] /\ f[i - 1] = k[j - 1]
      BY <1>3, <1>5, <3>1
    <3>3. ASSUME u[i].do = "hold" PROVE i < Len(u) /\ u[i + 1].do # "release"
      <4>1. j < Len(s) /\ s[j + 1].do # "release"
        BY <1>2, <3>1, <3>2, <3>3 DEF Trace
      <4>2. j \in Nat /\ Len(s) \in Nat /\ Len(r) \in Nat
        BY <1>3, <3>1
      <4>3. j + 1 \in 1..Len(s) /\ i + 1 = Len(r) + (j + 1)
        BY <3>1, <4>1, <4>2
      <4> QED
        BY <1>3, <3>1, <4>1, <4>3
    <3> QED
      BY <1>2, <3>1, <3>2, <3>3 DEF Trace
  <2> QED
    BY <2>1, <2>2
<1>8. Trace(role, u, f)
  BY <1>6, <1>7 DEF Trace
<1>9. f[0] = H /\ f[Len(u)] = K
  BY <1>1, <1>2, <1>3, <1>4, <1>5
<1> QED
  BY <1>3, <1>8, <1>9 DEF Path, u

(* A lock is taken before steps that begin with none that gives one back.  *)
LEMMA PathHold ==
    ASSUME NEW role, NEW l \in LockNames, NEW s, NEW H \in SUBSET LockNames, NEW K,
           \/ l = "conns" /\ H = {} /\ role # "reader"
           \/ Above({l}, H),
           Path(role, s, H \cup {l}, K), s # <<>>, Begins(s)
    PROVE  LET u == <<Hold(l)>> \o s IN Path(role, u, H, K) /\ u # <<>> /\ Begins(u)
<1> DEFINE a == <<Hold(l)>>
           u == a \o s
           M == H \cup {l}
<1>1. PICK k : Trace(role, s, k) /\ k[0] = M /\ k[Len(s)] = K
  BY DEF Path
<1>2. IsSeq(s) /\ IsSeq(a) /\ Len(a) = 1 /\ a[1] = Hold(l)
  BY DEF Path, IsSeq
<1> HIDE DEF a
<1>3. /\ IsSeq(u) /\ Len(s) \in Nat \ {0} /\ Len(u) = 1 + Len(s)
      /\ u[1] = Hold(l) /\ \A i \in 1..Len(s) : u[1 + i] = s[i]
  <2>1. IsJoin(a, s, u)
    BY <1>2, JoinIs
  <2>2. Len(s) \in Nat \ {0}
    BY <1>2, TailIs
  <2> QED
    BY <1>2, <2>1, <2>2 DEF IsJoin
<1> DEFINE f == [i \in 0..Len(u) |-> IF i = 0 THEN H ELSE k[i - 1]]
<1> HIDE DEF u
<1>4. f[0] = H /\ f[1] = M /\ f[Len(u)] = K /\ \A i \in 1..Len(u) : f[i] = k[i - 1]
  BY <1>1, <1>3
<1>5. f \in [0..Len(u) -> SUBSET LockNames]
  BY <1>1, <1>3 DEF Trace
<1> HIDE DEF f
<1>6. Moves(role, Hold(l), H, M)
  BY DEF Moves, Hold
<1>7. s[1].do # "release" /\ Hold(l).do = "hold"
  <2>1. Head(s) = s[1]
    BY <1>2, TailIs, Zenon
  <2> QED
    BY <2>1 DEF Begins, Hold
<1>8. ASSUME NEW i \in 1..Len(u)
      PROVE  /\ Moves(role, u[i], f[i - 1], f[i])
             /\ u[i].do = "hold" => i < Len(u) /\ u[i + 1].do # "release"
  <2>1. CASE i = 1
    <3>1. u[1 + 1] = s[1] /\ 1 < Len(u)
      BY <1>3
    <3>2. f[1 - 1] = H
      BY <1>4
    <3> QED
      BY <1>3, <1>4, <1>6, <1>7, <2>1, <3>1, <3>2
  <2>2. CASE i # 1
    <3> DEFINE j == i - 1
    <3>1. j \in 1..Len(s) /\ i = 1 + j /\ j \in 1..Len(u)
      BY <1>3, <2>2
    <3> HIDE DEF j
    <3>2. u[i] = s[j] /\ f[i] = k[j] /\ f[i - 1] = k[j - 1]
      BY <1>3, <1>4, <3>1
    <3>3. ASSUME u[i].do = "hold" PROVE i < Len(u) /\ u[i + 1].do # "release"
      <4>1. j < Len(s) /\ s[j + 1].do # "release"
        BY <1>1, <3>1, <3>2, <3>3 DEF Trace
      <4>2. j + 1 \in 1..Len(s) /\ i + 1 = 1 + (j + 1)
        BY <1>3, <3>1, <4>1
      <4> QED
        BY <1>3, <3>1, <4>1, <4>2
    <3> QED
      BY <1>1, <3>1, <3>2, <3>3 DEF Trace
  <2> QED
    BY <2>1, <2>2
<1>9. Path(role, u, H, K)
  BY <1>3, <1>4, <1>5, <1>8 DEF Path, Trace
<1>10. u # <<>> /\ Begins(u)
  <2>1. u # <<>>
    BY <1>3 DEF IsSeq
  <2>2. Head(u) = u[1]
    BY <1>3, <2>1, TailIs, Zenon
  <2> QED
    BY <1>3, <1>7, <2>1, <2>2 DEF Begins
<1> QED
  BY <1>9, <1>10 DEF u, a

(* Steps that lead from H to K and do not begin with giving back a lock.   *)
Leads(role, s, H, K) == Path(role, s, H, K) /\ s # <<>> /\ Begins(s)

(* A path after one of some steps.                                       *)
LEMMA LeadsJoin ==
    ASSUME NEW role, NEW r, NEW s, NEW H, NEW M, NEW K,
           Leads(role, r, H, M), Path(role, s, M, K)
    PROVE  Leads(role, r \o s, H, K)
<1> DEFINE u == r \o s
<1>1. Path(role, u, H, K)
  BY PathJoin DEF Leads
<1>2. IsJoin(r, s, u) /\ IsSeq(r) /\ r # <<>>
  BY JoinIs DEF Leads, Path
<1> HIDE DEF u
<1>3. Len(r) \in Nat \ {0} /\ Head(r) = r[1] /\ Len(s) \in Nat
  <2>1. Len(r) \in Nat \ {0} /\ Head(r) = r[1]
    BY <1>2, TailIs, Zenon
  <2> QED
    BY <1>2, <2>1 DEF IsJoin, IsSeq
<1>4. Len(u) \in Nat \ {0} /\ u[1] = r[1] /\ IsSeq(u)
  BY <1>2, <1>3 DEF IsJoin
<1>5. u # <<>>
  BY <1>4
<1>6. Head(u) = u[1]
  BY <1>4, <1>5, TailIs, Zenon
<1> QED
  BY <1>1, <1>3, <1>4, <1>5, <1>6 DEF Leads, Begins, u

(* A path of one step that is about no single lock.                      *)
LEMMA LeadsOne ==
    ASSUME NEW role, NEW x, NEW H \in SUBSET LockNames, NEW K \in SUBSET LockNames,
           Moves(role, x, H, K), x.do \notin {"hold", "release"}
    PROVE  Leads(role, <<x>>, H, K)
<1>1. <<x>> # <<>> /\ Head(<<x>>) = x
  OBVIOUS
<1> QED
  BY <1>1, PathOne DEF Leads, Begins

(* Within: the lock comes after those held, and is given back.           *)
LEMMA LeadsWithin ==
    ASSUME NEW role, NEW l \in LockNames, NEW s, NEW H \in SUBSET LockNames, l \notin H,
           \/ l = "conns" /\ H = {} /\ role # "reader"
           \/ Above({l}, H),
           Leads(role, s, H \cup {l}, H \cup {l})
    PROVE  Leads(role, Within(l, s), H, H)
<1> DEFINE a == <<Hold(l)>> \o s
           b == <<Release(l)>>
           M == H \cup {l}
<1>1. Leads(role, a, H, M)
  BY PathHold DEF Leads
<1>2. Path(role, b, M, H)
  <2>1. Moves(role, Release(l), M, H) /\ Release(l).do # "hold"
    <3>1. M \ {l} = H
      OBVIOUS
    <3> HIDE DEF M
    <3> QED
      BY <3>1 DEF Moves, Release
  <2> QED
    BY <2>1, PathOne
<1>3. Within(l, s) = a \o b
  BY DEF Within
<1> HIDE DEF a, b, M
<1> QED
  BY <1>1, <1>2, <1>3, LeadsJoin

(* A look under locks that come after those held.                        *)
LEMMA VisitLeads ==
    ASSUME NEW role, NEW locks, NEW H \in SUBSET LockNames, Above(locks, H)
    PROVE  Leads(role, <<Visit(locks)>>, H, H)
<1>1. Moves(role, Visit(locks), H, H) /\ Visit(locks).do \notin {"hold", "release"}
  BY DEF Moves, Visit
<1> QED
  BY <1>1, LeadsOne

(* Broadcast, by one that holds nothing.                                 *)
LEMMA BroadcastLeads ==
    ASSUME NEW role, role # "reader", NEW m
    PROVE  Leads(role, Broadcast(m), {}, {})
<1> DEFINE s == <<Write(m)>>
<1>1. Moves(role, Write(m), {"conns"}, {"conns"}) /\ Write(m).do \notin {"hold", "release"}
  BY DEF Moves, Write
<1>2. {"conns"} \in SUBSET LockNames /\ "conns" \in LockNames /\ {} \cup {"conns"} = {"conns"}
      /\ {} \in SUBSET LockNames /\ "conns" \notin {}
  BY DEF LockNames
<1>3. Leads(role, s, {"conns"}, {"conns"})
  BY <1>1, <1>2, LeadsOne
<1>4. Broadcast(m) = Within("conns", s)
  BY DEF Broadcast
<1> HIDE DEF s
<1> QED
  BY <1>2, <1>3, <1>4, LeadsWithin

(* TryAdd: the chain comes after the pools.                              *)
LEMMA TryAddLeads ==
    ASSUME NEW role, NEW p \in {"pool", "createPool", "closePool"}
    PROVE  Leads(role, TryAdd(p), {}, {})
<1> DEFINE s == <<Visit({"chain"})>>
<1>1. /\ {p} \in SUBSET LockNames /\ p \in LockNames /\ {} \cup {p} = {p}
      /\ {} \in SUBSET LockNames /\ p \notin {}
  BY DEF LockNames
<1>2. Above({"chain"}, {p}) /\ Above({p}, {})
  BY DEF Above, Ranked, Rank
<1>3. Leads(role, s, {p}, {p})
  BY <1>1, <1>2, VisitLeads
<1>4. TryAdd(p) = Within(p, s)
  BY DEF TryAdd
<1> HIDE DEF s
<1> QED
  BY <1>1, <1>2, <1>3, <1>4, LeadsWithin

(* A commit, by one that holds nothing or the lock of the bridge.          *)
LEMMA CommitLeads ==
    ASSUME NEW role, NEW b, NEW H \in {{}, {"bridge"}}
    PROVE  Leads(role, Commit(b), H, H)
<1> DEFINE H1 == H \cup {"pool"}
           H2 == H1 \cup {"createPool"}
           H3 == H2 \cup {"closePool"}
           s == <<Append1(b)>>
<1>1. /\ H \in SUBSET LockNames /\ H1 \in SUBSET LockNames
      /\ H2 \in SUBSET LockNames /\ H3 \in SUBSET LockNames
      /\ "pool" \in LockNames /\ "createPool" \in LockNames /\ "closePool" \in LockNames
      /\ "pool" \notin H /\ "createPool" \notin H1 /\ "closePool" \notin H2
  BY DEF LockNames
<1>2. /\ Above({"pool"}, H) /\ Above({"createPool"}, H1)
      /\ Above({"closePool"}, H2) /\ Above({"chain"}, H3)
  BY DEF Above, Ranked, Rank
<1>3. Moves(role, Append1(b), H3, H3) /\ Append1(b).do \notin {"hold", "release"}
  <2> HIDE DEF H3
  <2> QED
    BY <1>2 DEF Moves, Append1, OnChain
<1>4. Leads(role, s, H3, H3)
  <2> HIDE DEF H3
  <2> QED
    BY <1>1, <1>3, LeadsOne
<1>5. Commit(b) = Within("pool", Within("createPool", Within("closePool", s)))
  BY DEF Commit
<1> HIDE DEF s
<1>6. Leads(role, Within("closePool", s), H2, H2)
  <2> HIDE DEF H2
  <2> QED
    BY <1>1, <1>2, <1>4, LeadsWithin
<1>7. Leads(role, Within("createPool", Within("closePool", s)), H1, H1)
  <2> HIDE DEF H1
  <2> QED
    BY <1>1, <1>2, <1>6, LeadsWithin
<1> QED
  BY <1>1, <1>2, <1>5, <1>7, LeadsWithin

(* The handlers of requests end with no lock.                            *)
LEMMA HandlerLeads ==
    ASSUME NEW role \in {"payment", "create", "close"}
    PROVE  Leads(role, Handler(role), {}, {})
<1> DEFINE m == Gossip(role)
<1>0. {} \in SUBSET LockNames
  OBVIOUS
<1>1. Leads(role, Broadcast(m), {}, {})
  <2> HIDE DEF m
  <2> QED
    BY BroadcastLeads
<1>2. \A locks : locks \subseteq Ranked => Leads(role, <<Visit(locks)>>, {}, {})
  BY <1>0, VisitLeads DEF Above
<1>3. Leads(role, TryAdd("pool"), {}, {})
  BY TryAddLeads
<1>4. \A a, b : Leads(role, a, {}, {}) /\ Leads(role, b, {}, {}) => Leads(role, a \o b, {}, {})
  BY LeadsJoin DEF Leads
<1>5. CASE role = "payment"
  <2> DEFINE v == <<Visit({"chain", "keystore"})>>
  <2>1. Leads(role, v, {}, {})
    BY <1>2 DEF Ranked
  <2>2. Handler(role) = v \o TryAdd("pool") \o Broadcast(m)
    BY <1>5 DEF Handler, PaymentHandler
  <2> HIDE DEF v, m
  <2>3. Leads(role, v \o TryAdd("pool"), {}, {})
    BY <1>3, <1>4, <2>1
  <2> QED
    BY <1>1, <1>4, <2>2, <2>3
<1>6. CASE role # "payment"
  <2> DEFINE v == <<Visit({"chain", Pool[role]})>>
             w == <<Visit({"keystore"})>>
  <2>1. Leads(role, w, {}, {})
    BY <1>2 DEF Ranked
  <2>2. Leads(role, v, {}, {})
    <3>1. {"chain", Pool[role]} \subseteq Ranked
      BY <1>6 DEF Ranked, Pool
    <3> QED
      BY <1>2, <3>1
  <2>3. Handler(role) = v \o Broadcast(m) \o w
    BY <1>6 DEF Handler, AccountHandler
  <2> HIDE DEF v, m, w
  <2>4. Leads(role, v \o Broadcast(m), {}, {})
    BY <1>1, <1>4, <2>2
  <2> QED
    BY <1>4, <2>1, <2>3, <2>4
<1> QED
  BY <1>5, <1>6

(* So does who does nothing.                                             *)
LEMMA NothingLeads ==
    ASSUME NEW role
    PROVE  Path(role, <<>>, {}, {}) /\ Begins(<<>>)
<1>1. {} \in SUBSET LockNames
  OBVIOUS
<1> QED
  BY <1>1, PathNil DEF Begins

(* A step on the chain of a reader that holds nothing.                     *)
LEMMA LookLeads ==
    ASSUME NEW what \in {"greet", "compare", "ask", "serve"}, NEW arg
    PROVE  Leads("reader", <<OnChain(what, arg)>>, {}, {})
<1>1. Moves("reader", OnChain(what, arg), {}, {})
      /\ OnChain(what, arg).do \notin {"hold", "release"}
  BY DEF Moves, OnChain, Above, Ranked
<1>2. {} \in SUBSET LockNames
  OBVIOUS
<1> QED
  BY <1>1, <1>2, LeadsOne

(* applyBlocks takes the bridge and gives it back.                       *)
LEMMA ApplyLeads ==
    ASSUME NEW m
    PROVE  Leads("reader", <<OnChain("apply", m)>>, {"bridge"}, {})
<1>1. Moves("reader", OnChain("apply", m), {"bridge"}, {})
      /\ OnChain("apply", m).do \notin {"hold", "release"}
  BY DEF Moves, OnChain, Above, Ranked, Rank
<1>2. {} \in SUBSET LockNames /\ {"bridge"} \in SUBSET LockNames
  BY DEF LockNames
<1> QED
  BY <1>1, <1>2, LeadsOne

(* Dispatch ends with no lock, whatever the message.                     *)
LEMMA DispatchLeads ==
    ASSUME NEW n, NEW top, NEW m \in Messages(top)
    PROVE  Leads("reader", Dispatch(n, m), {}, {})
<1>1. CASE m.type = "handshake"
  <2> DEFINE a == <<OnChain("greet", 0)>>
             b == <<OnChain("compare", m.height)>>
  <2>1. Leads("reader", a, {}, {}) /\ Leads("reader", b, {}, {})
    BY LookLeads
  <2>2. Dispatch(n, m) = (IF n = Listener THEN a ELSE <<>>) \o b
    BY <1>1 DEF Dispatch
  <2> HIDE DEF a, b
  <2>3. <<>> \o b = b
    <3>1. b \in Seq({b[i] : i \in DOMAIN b})
      BY <2>1 DEF Leads, Path, IsSeq
    <3> QED
      BY <3>1
  <2>4. Leads("reader", a \o b, {}, {})
    BY <2>1, LeadsJoin DEF Leads
  <2> QED
    BY <2>1, <2>2, <2>3, <2>4
<1>2. CASE m.type = "get_blocks"
  <2>1. Dispatch(n, m) = <<OnChain("serve", m.height)>>
    BY <1>2 DEF Dispatch
  <2> QED
    BY <2>1, LookLeads
<1>3. CASE m.type \in {"new_block", "blocks"}
  <2> DEFINE b == <<OnChain("apply", m)>>
             c == <<Hold("bridge"), OnChain("apply", m)>>
  <2>1. Leads("reader", b, {"bridge"}, {})
    BY ApplyLeads
  <2>2. /\ "bridge" \in LockNames /\ {} \in SUBSET LockNames /\ {} \cup {"bridge"} = {"bridge"}
        /\ Above({"bridge"}, {})
    BY DEF LockNames, Above, Ranked
  <2>3. <<Hold("bridge")>> \o b = c
    <3> DEFINE a == <<Hold("bridge")>>
    <3>1. IsSeq(a) /\ IsSeq(b) /\ IsSeq(c) /\ Len(a) = 1 /\ Len(b) = 1 /\ Len(c) = 2
          /\ c[1] = a[1] /\ c[2] = b[1]
      BY DEF IsSeq
    <3> HIDE DEF a, b, c
    <3>2. IsJoin(a, b, a \o b)
      BY <3>1, JoinIs
    <3> DEFINE u == a \o b
    <3>3. IsSeq(u) /\ Len(u) = 2 /\ u[1] = c[1] /\ u[2] = c[2]
      <4> HIDE DEF u
      <4>1. IsJoin(a, b, u)
        BY <3>2 DEF u
      <4>2. 1 \in 1..1 /\ 1 + 1 = 2
        OBVIOUS
      <4> QED
        BY <3>1, <4>1, <4>2 DEF IsJoin
    <3> HIDE DEF u
    <3>4. u = c
      <4> DEFINE U == {u[i] : i \in DOMAIN u} \cup {c[i] : i \in DOMAIN c}
      <4>1. u \in Seq(U) /\ c \in Seq(U)
        BY <3>1, <3>3, SeqMonotonic DEF IsSeq
      <4> HIDE DEF U
      <4>2. \A i \in 1..2 : u[i] = c[i]
        BY <3>3
      <4> QED
        BY <3>1, <3>3, <4>1, <4>2, SeqEqual
    <3> QED
      BY <3>4 DEF u, a
  <2>4. Dispatch(n, m) = c
    BY <1>3 DEF Dispatch
  <2> HIDE DEF b, c
  <2>5. Leads("reader", <<Hold("bridge")>> \o b, {}, {})
    BY <2>1, <2>2, PathHold DEF Leads
  <2> QED
    BY <2>3, <2>4, <2>5
<1>4. CASE m.type \notin {"handshake", "get_blocks", "new_block", "blocks"}
  <2>1. Dispatch(n, m) = TryAdd(Pool[m.type])
    BY <1>4 DEF Dispatch
  <2>2. m.type \in {"payment", "create", "close"}
    BY <1>4 DEF Messages, Announcements, Handshake, GetBlocks, Gossip
  <2>3. Pool[m.type] \in {"pool", "createPool", "closePool"}
    BY <2>2 DEF Pool
  <2> QED
    BY <2>1, <2>3, TryAddLeads
<1> QED
  BY <1>1, <1>2, <1>3, <1>4

(* A turn of the loop of applyBlocks does, under the bridge.             *)
LEMMA ApplyPath ==
    ASSUME NEW m, NEW h
    PROVE  Path("reader", Apply(m, h), {"bridge"}, {})
<1> DEFINE back == <<Release("bridge")>>
           b == Head(m.heights)
           rest == <<OnChain("apply", [m EXCEPT !.heights = Tail(@)])>>
           ask == IF m.type = "new_block" THEN <<OnChain("ask", 0)>> ELSE <<>>
<1>1. Path("reader", back, {"bridge"}, {})
  <2>1. /\ {} \in SUBSET LockNames /\ {"bridge"} \in SUBSET LockNames
        /\ {} = {"bridge"} \ {"bridge"}
    BY DEF LockNames
  <2>2. Moves("reader", Release("bridge"), {"bridge"}, {}) /\ Release("bridge").do # "hold"
    BY <2>1 DEF Moves, Release
  <2> QED
    BY <2>1, <2>2, PathOne
<1>2. Path("reader", rest, {"bridge"}, {})
  BY ApplyLeads DEF Leads
<1>3. Path("reader", ask, {}, {})
  BY LookLeads, NothingLeads DEF Leads
<1>4. Path("reader", Commit(b), {"bridge"}, {"bridge"})
  <2> HIDE DEF b
  <2>1. {"bridge"} \in {{}, {"bridge"}}
    OBVIOUS
  <2> QED
    BY <2>1, CommitLeads DEF Leads
<1>5. \/ Apply(m, h) = back
      \/ Apply(m, h) = rest
      \/ Apply(m, h) = Commit(b) \o rest
      \/ Apply(m, h) = back \o ask
  BY DEF Apply
<1> HIDE DEF back, b, rest, ask
<1> QED
  BY <1>1, <1>2, <1>3, <1>4, <1>5, PathJoin

(* What a look at the chain leads to is what its step stands for.          *)
LEMMA AfterPath ==
    ASSUME NEW role, NEW x, NEW h, NEW H \in SUBSET LockNames, NEW K \in SUBSET LockNames,
           Moves(role, x, H, K), x.do \notin {"hold", "release", "write"}
    PROVE  Path(role, After(x, h), H, K)
<1>1. CASE x.do = "apply"
  <2>1. role = "reader" /\ H = {"bridge"} /\ K = {} /\ After(x, h) = Apply(x.arg, h)
    BY <1>1 DEF Moves, After
  <2> QED
    BY <2>1, ApplyPath
<1>2. CASE x.do = "produce"
  <2> DEFINE m == Blocks("new_block", <<h + 1>>)
  <2>1. role = "producer" /\ H = {} /\ K = {} /\ After(x, h) = Commit(h + 1) \o Broadcast(m)
    BY <1>2 DEF Moves, After
  <2> HIDE DEF m
  <2>2. Path(role, Commit(h + 1), {}, {})
    <3>1. {} \in {{}, {"bridge"}}
      OBVIOUS
    <3> QED
      BY <3>1, CommitLeads DEF Leads
  <2>3. Path(role, Broadcast(m), {}, {})
    BY <2>1, BroadcastLeads DEF Leads
  <2> QED
    BY <2>1, <2>2, <2>3, PathJoin
<1>3. CASE x.do \in {"greet", "compare", "ask", "serve"}
  <2>1. role = "reader" /\ H = {} /\ K = {}
    BY <1>3 DEF Moves
  <2>2. \A m : Path("reader", <<Write(m)>>, {}, {})
    <3> TAKE m
    <3>1. Moves("reader", Write(m), {}, {}) /\ Write(m).do # "hold"
      BY DEF Moves, Write
    <3> QED
      BY <2>1, <3>1, PathOne
  <2>3. Path("reader", <<OnChain("ask", 0)>>, {}, {}) /\ Path("reader", <<>>, {}, {})
    BY LookLeads, NothingLeads DEF Leads
  <2>4. CASE x.do = "compare"
    <3>1. After(x, h) = <<OnChain("ask", 0)>> \/ After(x, h) = <<>>
      BY <2>4 DEF After
    <3> QED
      BY <2>1, <2>3, <3>1
  <2>5. CASE x.do \in {"greet", "ask", "serve"}
    <3>1. \E m : After(x, h) = <<Write(m)>>
      <4>1. CASE x.do = "greet"
        <5>1. After(x, h) = <<Write(Handshake(h))>>
          BY <4>1 DEF After
        <5> QED
          BY <5>1
      <4>2. CASE x.do = "ask"
        <5>1. After(x, h) = <<Write(GetBlocks(h + 1))>>
          BY <4>2 DEF After
        <5> QED
          BY <5>1
      <4>3. CASE x.do = "serve"
        <5> DEFINE m == Blocks("blocks", [i \in 1..h + 1 - x.arg |-> x.arg + i - 1])
        <5>1. After(x, h) = <<Write(m)>>
          BY <4>3 DEF After
        <5> HIDE DEF m
        <5> QED
          BY <5>1
      <4> QED
        BY <2>5, <4>1, <4>2, <4>3
    <3> QED
      BY <2>1, <2>2, <3>1
  <2> QED
    BY <1>3, <2>4, <2>5
<1>4. CASE x.do \in {"append", "show", "visit"}
  <2>1. H = K /\ After(x, h) = <<>>
    BY <1>4 DEF Moves, After
  <2> QED
    BY <2>1, PathNil
<1> QED
  BY <1>1, <1>2, <1>3, <1>4 DEF Moves

-----------------------------------------------------------------------------
(***************************************************************************)
(* The third invariant: what every goroutine does leads from the locks it  *)
(* has to none, in the order of the locks; or it leaves a connection.      *)
(***************************************************************************)
Leaving(g) ==
    /\ g.role = "reader" /\ holds[g] = {}
    /\ run[g] \in {Leave, <<Close, Stop>>, <<Stop>>}
    /\ run[g] = <<Stop>> => ~open

InCode(g) == Path(g.role, run[g], holds[g], {}) /\ Begins(run[g])

LocksOK == \A g \in Goroutines : Leaving(g) \/ InCode(g)

(* The rest of a path, when the locks it begins to give back are.          *)
LEMMA PathRest ==
    ASSUME NEW role, NEW s, NEW H, NEW K, NEW k, NEW rest,
           Path(role, s, H, K), Drops(s, k, rest)
    PROVE  Path(role, rest, H \ GivenBack(s, k), K) /\ Begins(rest)
<1>1. PICK h : Trace(role, s, h) /\ h[0] = H /\ h[Len(s)] = K
  BY DEF Path
<1>2. IsSeq(s) /\ IsSeq(rest) /\ Len(s) \in Nat /\ Len(rest) \in Nat
  BY DEF Drops, IsSeq
<1>3. /\ k \in 0..Len(s) /\ Len(rest) = Len(s) - k
      /\ \A i \in 1..k : s[i].do = "release"
      /\ k < Len(s) => s[k + 1].do # "release"
      /\ \A i \in 1..Len(rest) : rest[i] = s[k + i]
  BY DEF Drops
<1>4. h[k] = H \ GivenBack(s, k)
  <2> DEFINE N == {n \in Nat : n <= k => h[n] = H \ GivenBack(s, n)}
  <2>1. 0 \in N
    <3>1. GivenBack(s, 0) = {}
      BY DEF GivenBack
    <3> QED
      BY <1>1, <3>1
  <2>2. ASSUME NEW n \in N PROVE n + 1 \in N
    <3> SUFFICES ASSUME n + 1 <= k PROVE h[n + 1] = H \ GivenBack(s, n + 1)
      OBVIOUS
    <3>1. h[n] = H \ GivenBack(s, n)
      BY <1>3
    <3>2. n + 1 \in 1..Len(s) /\ n + 1 \in 1..k /\ (n + 1) - 1 = n
      BY <1>2, <1>3
    <3>3. Moves(role, s[n + 1], h[n], h[n + 1]) /\ s[n + 1].do = "release"
      BY <1>1, <1>3, <3>2 DEF Trace
    <3>4. h[n + 1] = h[n] \ {s[n + 1].lock}
      BY <3>3 DEF Moves
    <3>5. GivenBack(s, n + 1) = GivenBack(s, n) \cup {s[n + 1].lock}
      <4>1. \A i \in 1..n + 1 : i \in 1..n \/ i = n + 1
        OBVIOUS
      <4>2. \A i \in 1..n : i \in 1..n + 1
        OBVIOUS
      <4>3. n + 1 \in 1..n + 1
        OBVIOUS
      <4> QED
        BY <4>1, <4>2, <4>3 DEF GivenBack
    <3> QED
      BY <3>1, <3>4, <3>5, Zenon
  <2>3. N = Nat
    <3>1. N \in SUBSET Nat
      OBVIOUS
    <3> HIDE DEF N
    <3> QED
      BY <2>1, <2>2, <3>1, Numbers!NatSet
  <2>4. k \in Nat
    BY <1>3
  <2>5. k \in N
    BY <2>3, <2>4
  <2> QED
    BY <2>4, <2>5
<1>5. Path(role, rest, h[k], K)
  BY <1>1, <1>2, <1>3, TraceOfRest
<1>6. Begins(rest)
  <2> SUFFICES ASSUME rest # <<>> PROVE Head(rest).do # "release"
    BY DEF Begins
  <2>1. Len(rest) \in Nat \ {0} /\ Head(rest) = rest[1]
    BY <1>2, TailIs, Zenon
  <2>2. rest[1] = s[k + 1] /\ k < Len(s)
    BY <1>2, <1>3, <2>1
  <2> QED
    BY <1>3, <2>1, <2>2
<1> QED
  BY <1>4, <1>5, <1>6

(* Then keeps a goroutine on its path.                                   *)
LEMMA InCodeThen ==
    ASSUME DataOK, NEW g \in Goroutines, NEW steps, Then(g, steps), NEW M,
           Path(g.role, steps, holds[g], M), Path(g.role, Tail(run[g]), M, {})
    PROVE  InCode(g)'
<1> DEFINE all == steps \o Tail(run[g])
<1>1. Path(g.role, all, holds[g], {})
  BY PathJoin
<1> HIDE DEF all
<1>2. IsSeq(all)
  BY <1>1 DEF Path
<1>3. PICK k, rest : Went(g, all, k, rest)
  BY <1>2, ThenGoesOn DEF all
<1>4. run'[g] = rest /\ holds'[g] = holds[g] \ GivenBack(all, k)
  BY <1>3 DEF Went, DataOK
<1>5. Path(g.role, rest, holds[g] \ GivenBack(all, k), {}) /\ Begins(rest)
  BY <1>1, <1>3, PathRest DEF Went
<1> QED
  BY <1>4, <1>5 DEF InCode

(* Who does not move stays on its path.                                  *)
LEMMA LocksStay ==
    ASSUME LocksOK, NEW x \in Goroutines, run'[x] = run[x], holds'[x] = holds[x],
           open' => open
    PROVE  Leaving(x)' \/ InCode(x)'
BY DEF LocksOK, Leaving, InCode

(* The step of one goroutine.                                              *)
LEMMA LocksOne ==
    ASSUME DataOK, LocksOK, NEW g \in Goroutines, open' => open,
           \A x \in Goroutines : x # g => run'[x] = run[x] /\ holds'[x] = holds[x],
           Leaving(g)' \/ InCode(g)'
    PROVE  LocksOK'
<1> SUFFICES ASSUME NEW x \in Goroutines PROVE Leaving(x)' \/ InCode(x)'
  BY DEF LocksOK
<1>1. CASE x = g
  BY <1>1
<1>2. CASE x # g
  BY <1>2, LocksStay
<1> QED
  BY <1>1, <1>2

(* The steps of who leaves a connection.                                 *)
LEMMA LeavingIs ==
    /\ Leave # <<>> /\ Head(Leave) = Visit({"conns"}) /\ Tail(Leave) = <<Close, Stop>>
    /\ <<Close, Stop>> # <<>> /\ Head(<<Close, Stop>>) = Close /\ IsSeq(<<Close, Stop>>)
    /\ Tail(<<Close, Stop>>) = <<Stop>>
    /\ <<Stop>> # <<>> /\ Head(<<Stop>>) = Stop
    /\ Visit({"conns"}).do = "visit" /\ Close.do = "close" /\ Stop.do = "stop"
    /\ Leave # <<Stop>>
<1>1. /\ Visit({"conns"}).do = "visit" /\ Close.do = "close" /\ Stop.do = "stop"
  BY DEF Visit, Close, Stop
<1>2. Head(Leave) = Visit({"conns"}) /\ Head(<<Stop>>) = Stop
  BY DEF Leave
<1>3. Leave # <<>> /\ Tail(Leave) = <<Close, Stop>>
  BY DEF Leave
<1>4. IsSeq(<<Close, Stop>>)
  BY DEF IsSeq
<1> QED
  BY <1>1, <1>2, <1>3, <1>4

(* Who has nothing to do holds nothing.                                  *)
LEMMA NoneAtWork ==
    ASSUME LocksOK, NEW g \in Goroutines, run[g] = <<>>
    PROVE  InCode(g) /\ holds[g] = {}
<1>1. InCode(g)
  BY LeavingIs DEF LocksOK, Leaving
<1> QED
  BY <1>1, PathNil DEF InCode

(* Taking a lock keeps the third invariant.                              *)
LEMMA LocksHold ==
    ASSUME DataOK, LocksOK, NEW g \in Goroutines, TakeLock(g)
    PROVE  LocksOK'
<1>1. run[g] # <<>> /\ Head(run[g]).do = "hold" /\ open' = open
  BY DEF TakeLock, Goes, Ready
<1>2. InCode(g)
  BY <1>1, LeavingIs DEF LocksOK, Leaving
<1>3. PICK M \in SUBSET LockNames :
          Moves(g.role, Head(run[g]), holds[g], M) /\ Path(g.role, Tail(run[g]), M, {})
  BY <1>1, <1>2, PathHead DEF InCode
<1>4. Tail(run[g]) # <<>> /\ Begins(Tail(run[g]))
  BY <1>1, <1>2, PathHead DEF InCode
<1>5. M = holds[g] \cup {Head(run[g]).lock}
  BY <1>1, <1>3 DEF Moves
<1>6. run'[g] = Tail(run[g]) /\ holds'[g] = M
  BY <1>5 DEF TakeLock, DataOK
<1>7. InCode(g)'
  BY <1>3, <1>4, <1>6 DEF InCode
<1> QED
  BY <1>1, <1>7, LocksOne, OthersStay

(* Writing a message does.                                               *)
LEMMA LocksWrite ==
    ASSUME DataOK, LocksOK, NEW g \in Goroutines, WriteMessage(g)
    PROVE  LocksOK'
<1>1. run[g] # <<>> /\ Head(run[g]).do = "write" /\ open' = open
  BY DEF WriteMessage, Goes, Ready
<1>2. InCode(g)
  BY <1>1, LeavingIs DEF LocksOK, Leaving
<1>3. PICK M \in SUBSET LockNames :
          Moves(g.role, Head(run[g]), holds[g], M) /\ Path(g.role, Tail(run[g]), M, {})
  BY <1>1, <1>2, PathHead DEF InCode
<1>4. M = holds[g] /\ (g.role = "reader" => holds[g] = {}) /\ holds[g] \in SUBSET LockNames
  BY <1>1, <1>2, <1>3, PathHead DEF Moves, InCode
<1>5. CASE open \/ g.role # "reader"
  <2>1. Then(g, <<>>)
    BY <1>5 DEF WriteMessage
  <2>2. Path(g.role, <<>>, holds[g], M)
    BY <1>4, PathNil
  <2>3. InCode(g)'
    BY <1>3, <2>1, <2>2, InCodeThen
  <2> QED
    BY <1>1, <2>3, LocksOne, OthersStay
<1>6. CASE ~(open \/ g.role # "reader")
  <2>1. run'[g] = Leave /\ holds'[g] = holds[g]
    BY <1>6 DEF WriteMessage, DataOK
  <2>2. Leaving(g)'
    BY <1>1, <1>4, <1>6, <2>1, LeavingIs DEF Leaving
  <2> QED
    BY <1>1, <2>2, LocksOne, OthersStay
<1> QED
  BY <1>5, <1>6

(* A step under locks does.                                              *)
LEMMA LocksVisit ==
    ASSUME DataOK, LocksOK, NEW g \in Goroutines, VisitLocks(g)
    PROVE  LocksOK'
<1> DEFINE x == Head(run[g])
           h == height[g.node]
<1>1. /\ run[g] # <<>> /\ x.do \notin {"hold", "write", "close", "stop"} /\ open' = open
      /\ Then(g, After(x, h))
  BY DEF VisitLocks, Ready
<1>2. CASE Leaving(g)
  <2>1. run[g] = Leave
    BY <1>1, <1>2, LeavingIs DEF Leaving
  <2>2. x.do = "visit" /\ Tail(run[g]) = <<Close, Stop>>
    BY <2>1, LeavingIs
  <2>3. After(x, h) = <<>>
    BY <2>2 DEF After
  <2> DEFINE all == <<Close, Stop>>
  <2>4. all = <<>> \o Tail(run[g])
    BY <1>1, <2>2, NodesHeights
  <2>5. IsSeq(all) /\ Head(all).do # "release" /\ all # <<Stop>>
    BY LeavingIs
  <2> HIDE DEF all
  <2>6. Then(g, <<>>)
    BY <1>1, <2>3
  <2>7. run' = [run EXCEPT ![g] = all] /\ holds' = [holds EXCEPT ![g] = @ \ {}]
    BY <2>4, <2>5, <2>6, ThenKeeps
  <2>8. run'[g] = all /\ holds'[g] = {}
    BY <1>2, <2>7 DEF DataOK, Leaving
  <2>9. Leaving(g)'
    BY <1>2, <2>5, <2>8 DEF Leaving, all
  <2> QED
    BY <1>1, <2>9, LocksOne, OthersStay
<1>3. CASE InCode(g)
  <2>1. PICK M \in SUBSET LockNames :
            Moves(g.role, x, holds[g], M) /\ Path(g.role, Tail(run[g]), M, {})
    BY <1>1, <1>3, PathHead DEF InCode
  <2>2. holds[g] \in SUBSET LockNames /\ x.do # "release"
    BY <1>1, <1>3, PathHead DEF InCode, Begins
  <2> HIDE DEF x, h
  <2>3. Path(g.role, After(x, h), holds[g], M)
    BY <1>1, <2>1, <2>2, AfterPath
  <2>4. InCode(g)'
    BY <1>1, <2>1, <2>3, InCodeThen
  <2> QED
    BY <1>1, <2>4, LocksOne, OthersStay
<1> QED
  BY <1>2, <1>3 DEF LocksOK

(* Reading a message does.                                               *)
LEMMA LocksDecode ==
    ASSUME DataOK, LocksOK, NEW n \in Nodes, Decode(n)
    PROVE  LocksOK'
<1> DEFINE g == Reader(n)
<1>0. g \in Goroutines /\ g.role = "reader"
  BY NamedGoroutines
<1>1. run[g] = <<>> /\ open' = open /\ holds' = holds
  BY DEF Decode, CanDecode
<1>2. holds'[g] = {}
  BY <1>0, <1>1, NoneAtWork
<1>3. \A x \in Goroutines : x # g => run'[x] = run[x] /\ holds'[x] = holds[x]
  BY <1>1 DEF Decode, DataOK
<1>4. CASE open
  <2> DEFINE m == Head(socket[n])
  <2>1. m \in Messages(Top)
    <3>1. socket[n] # <<>> /\ socket[n] \in Seq(Messages(Top))
      BY <1>4 DEF Decode, CanDecode, DataOK
    <3> QED
      BY <3>1
  <2>2. run'[g] = Dispatch(n, m)
    BY <1>0, <1>4 DEF Decode, DataOK
  <2> HIDE DEF g, m
  <2>3. Leads("reader", Dispatch(n, m), {}, {})
    BY <2>1, DispatchLeads
  <2>4. InCode(g)'
    BY <1>0, <1>2, <2>2, <2>3 DEF Leads, InCode
  <2> QED
    BY <1>0, <1>1, <1>3, <2>4, LocksOne
<1>5. CASE ~open
  <2>1. run'[g] = Leave
    BY <1>0, <1>5 DEF Decode, DataOK
  <2> HIDE DEF g
  <2>2. Leaving(g)'
    BY <1>0, <1>2, <2>1, LeavingIs DEF Leaving
  <2> QED
    BY <1>0, <1>1, <1>3, <2>2, LocksOne
<1> QED
  BY <1>4, <1>5

(* Leaving at a message that cannot be handled does.                     *)
LEMMA LocksFail ==
    ASSUME DataOK, LocksOK, NEW n \in Nodes, Fail(n)
    PROVE  LocksOK'
<1> DEFINE g == Reader(n)
<1>1. g \in Goroutines /\ g.role = "reader"
  BY NamedGoroutines
<1>2. run[g] = <<>> /\ open' = open /\ holds' = holds
  BY DEF Fail, CanDecode
<1>3. run'[g] = Leave /\ \A x \in Goroutines : x # g => run'[x] = run[x] /\ holds'[x] = holds[x]
  BY <1>1, <1>2 DEF Fail, DataOK
<1> HIDE DEF g
<1>4. Leaving(g)'
  BY <1>1, <1>2, <1>3, NoneAtWork, LeavingIs DEF Leaving
<1> QED
  BY <1>1, <1>2, <1>3, <1>4, LocksOne

(* Closing the connection does.                                          *)
LEMMA LocksClose ==
    ASSUME DataOK, LocksOK, NEW n \in Nodes, CloseConn(n)
    PROVE  LocksOK'
<1> DEFINE g == Reader(n)
<1>1. g \in Goroutines /\ g.role = "reader"
  BY NamedGoroutines
<1>2. run[g] # <<>> /\ Head(run[g]).do = "close" /\ holds' = holds /\ ~open'
  BY DEF CloseConn, Goes, Ready, Break
<1>3. /\ run'[g] = Tail(run[g])
      /\ \A x \in Goroutines : x # g => run'[x] = run[x] /\ holds'[x] = holds[x]
  BY <1>1, <1>2 DEF CloseConn, DataOK
<1> HIDE DEF g
<1>4. Leaving(g)
  <2> SUFFICES ASSUME InCode(g) PROVE FALSE
    BY <1>1 DEF LocksOK
  <2>1. PICK M \in SUBSET LockNames : Moves(g.role, Head(run[g]), holds[g], M)
    BY <1>2, PathHead DEF InCode
  <2> QED
    BY <1>2, <2>1 DEF Moves
<1>5. Leaving(g)'
  BY <1>2, <1>3, <1>4, LeavingIs DEF Leaving
<1> QED
  BY <1>1, <1>2, <1>3, <1>5, LocksOne

(* A tick of the producer does.                                          *)
LEMMA LocksTick ==
    ASSUME DataOK, LocksOK, Tick
    PROVE  LocksOK'
<1> DEFINE g == Producer(Validator)
<1>0. g \in Goroutines /\ g.role = "producer"
  BY NamedGoroutines
<1>1. /\ run[g] = <<>> /\ open' = open /\ holds' = holds /\ run' = [run EXCEPT ![g] = <<Produce>>]
  BY DEF Tick
<1> HIDE DEF g
<1>2. run'[g] = <<Produce>> /\ holds'[g] = {}
  BY <1>0, <1>1, NoneAtWork DEF DataOK
<1>3. \A x \in Goroutines : x # g => run'[x] = run[x] /\ holds'[x] = holds[x]
  BY <1>1 DEF DataOK
<1>4. Leads("producer", <<Produce>>, {}, {})
  <2>1. Moves("producer", Produce, {}, {}) /\ Produce.do \notin {"hold", "release"}
    BY DEF Moves, Produce, Above, Ranked
  <2>2. {} \in SUBSET LockNames
    OBVIOUS
  <2> QED
    BY <2>1, <2>2, LeadsOne
<1>5. InCode(g)'
  BY <1>0, <1>2, <1>4 DEF Leads, InCode
<1> QED
  BY <1>0, <1>1, <1>3, <1>5, LocksOne

(* A poll of a stream does.                                              *)
LEMMA LocksPoll ==
    ASSUME DataOK, LocksOK, NEW n \in Watched, Poll(n)
    PROVE  LocksOK'
<1> DEFINE g == Stream(n)
           s == Tail(StreamRound)
<1>0. g \in Goroutines /\ g.role = "stream"
  BY NamedGoroutines
<1>1. /\ run[g] = <<>> /\ open' = open /\ holds' = holds /\ run' = [run EXCEPT ![g] = s]
  BY DEF Poll
<1>2. s = <<OnChain("show", "info"), OnChain("show", "latest"), OnChain("show", "balance")>>
  BY DEF StreamRound
<1>3. IsSeq(s) /\ Len(s) = 3 /\ \A i \in 1..3 : s[i].do = "show" /\ s[i].locks = {"chain"}
  <2> HIDE DEF s
  <2> QED
    BY <1>2 DEF OnChain, IsSeq
<1>4. s # <<>> /\ Begins(s)
  <2> HIDE DEF s
  <2>1. s # <<>>
    BY <1>3 DEF IsSeq
  <2>2. Head(s) = s[1]
    BY <1>3, <2>1, TailIs, Zenon
  <2> QED
    BY <1>3, <2>1, <2>2 DEF Begins
<1> HIDE DEF g, s
<1>5. Path("stream", s, {}, {})
  <2> DEFINE h == [i \in 0..3 |-> {}]
  <2>1. h \in [0..3 -> SUBSET LockNames] /\ \A i \in 0..3 : h[i] = {}
    OBVIOUS
  <2> HIDE DEF h
  <2>2. \A i \in 1..3 : Moves("stream", s[i], h[i - 1], h[i])
    <3> TAKE i \in 1..3
    <3>1. h[i] = {} /\ h[i - 1] = {}
      BY <2>1
    <3> QED
      BY <1>3, <3>1 DEF Moves, Above, Ranked
  <2>3. Trace("stream", s, h)
    BY <1>3, <2>1, <2>2 DEF Trace
  <2> QED
    BY <1>3, <2>1, <2>3 DEF Path
<1>6. run'[g] = s /\ holds'[g] = {}
  BY <1>0, <1>1, NoneAtWork DEF DataOK
<1>7. \A x \in Goroutines : x # g => run'[x] = run[x] /\ holds'[x] = holds[x]
  BY <1>1 DEF DataOK
<1>8. InCode(g)'
  BY <1>0, <1>4, <1>5, <1>6 DEF InCode
<1> QED
  BY <1>0, <1>1, <1>7, <1>8, LocksOne

(* The third invariant holds at the start.                               *)
LEMMA LocksInit ==
    ASSUME Init
    PROVE  LocksOK
<1> SUFFICES ASSUME NEW g \in Goroutines PROVE InCode(g)
  BY DEF LocksOK
<1>1. holds[g] = {}
  BY DEF Init
<1>2. CASE g = Reader(Dialer)
  <2>1. run[g] = <<OnChain("greet", 0)>> /\ g.role = "reader"
    BY <1>2 DEF Init, Reader
  <2> QED
    BY <1>1, <2>1, LookLeads DEF InCode, Leads
<1>3. CASE g # Reader(Dialer) /\ g \in Requests
  <2>1. run[g] = Handler(g.role) /\ g.role \in {"payment", "create", "close"}
    BY <1>3, GoroutineIs DEF Init
  <2> QED
    BY <1>1, <2>1, HandlerLeads DEF InCode, Leads
<1>4. CASE g # Reader(Dialer) /\ g \notin Requests
  <2>1. run[g] = <<>>
    BY <1>4 DEF Init
  <2> QED
    BY <1>1, <2>1, NothingLeads DEF InCode
<1> QED
  BY <1>2, <1>3, <1>4

(* Every step keeps the third invariant.                                 *)
LEMMA LocksStep ==
    ASSUME DataOK, LocksOK, [Next]_vars
    PROVE  LocksOK'
<1>1. CASE vars' = vars \/ Hangup
  <2>1. run' = run /\ holds' = holds /\ (open' => open)
    BY <1>1 DEF Hangup, Break, vars
  <2>2. \A x \in Goroutines : Leaving(x)' \/ InCode(x)'
    BY <2>1, LocksStay
  <2> QED
    BY <2>2 DEF LocksOK
<1>2. CASE \E g \in Goroutines : TakeLock(g)
  BY <1>2, LocksHold
<1>3. CASE \E g \in Goroutines : WriteMessage(g)
  BY <1>3, LocksWrite
<1>4. CASE \E g \in Goroutines : VisitLocks(g)
  BY <1>4, LocksVisit
<1>5. CASE \E n \in Nodes : Decode(n)
  BY <1>5, LocksDecode
<1>6. CASE Tick
  BY <1>6, LocksTick
<1>7. CASE \E n \in Watched : Poll(n)
  BY <1>7, LocksPoll
<1>8. CASE \E n \in Nodes : Fail(n) \/ CloseConn(n)
  BY <1>8, LocksFail, LocksClose
<1> QED
  BY <1>1, <1>2, <1>3, <1>4, <1>5, <1>6, <1>7, <1>8 DEF Next

-----------------------------------------------------------------------------
(***************************************************************************)
(* Why nothing but a full socket stops all: who waits for a lock of the    *)
(* order holds only such that come before it.                              *)
(***************************************************************************)
Held(n, l) == \E k \in Goroutines : k.node = n /\ l \in holds[k]

WaitsForRanked(g) == \E l \in Ranked : Held(g.node, l) /\ Above({l}, holds[g])

WaitsForConns(g) ==
    holds[g] = {} /\ (g.role # "reader" \/ run[g] = Leave) /\ Held(g.node, "conns")

WaitsForPeer(g) ==
    /\ Writing(g) /\ open /\ ~HasRoom(Peer(g.node))
    /\ holds[g] = (IF g.role = "reader" THEN {} ELSE {"conns"})

Waits(g) == WaitsForRanked(g) \/ WaitsForConns(g) \/ WaitsForPeer(g)

(* A goroutine at work that is not ready waits for one of these.           *)
LEMMA WhoIsNotReadyWaits ==
    ASSUME LocksOK, NEW g \in Goroutines, AtWork(g), ~Ready(g)
    PROVE  Waits(g)
<1> DEFINE x == Head(run[g])
<1>1. run[g] # <<>> /\ run[g] # <<Stop>>
  BY DEF AtWork
<1>2. CASE Leaving(g)
  <2>1. run[g] = Leave
    <3>1. run[g] # <<Close, Stop>>
      BY LeavingIs DEF Ready, Close
    <3> QED
      BY <1>1, <1>2, <3>1 DEF Leaving
  <2>2. x.do = "visit" /\ x.locks = {"conns"}
    BY <2>1, LeavingIs DEF Visit
  <2>3. Held(g.node, "conns")
    BY <1>1, <2>2 DEF Ready, Free, Held
  <2> QED
    BY <1>2, <2>1, <2>3 DEF Leaving, Waits, WaitsForConns
<1>3. CASE InCode(g)
  <2>1. Path(g.role, run[g], holds[g], {}) /\ x.do # "release"
    BY <1>1, <1>3 DEF InCode, Begins
  <2>2. PICK M \in SUBSET LockNames : Moves(g.role, x, holds[g], M)
    BY <1>1, <2>1, PathHead
  <2> HIDE DEF x
  <2>3. CASE x.do = "hold"
    <3>1. Held(g.node, x.lock)
      BY <1>1, <2>3 DEF Ready, Free, Held, x
    <3>2. \/ x.lock = "conns" /\ holds[g] = {} /\ g.role # "reader"
          \/ Above({x.lock}, holds[g])
      BY <2>2, <2>3 DEF Moves
    <3>3. Above({x.lock}, holds[g]) => x.lock \in Ranked
      BY DEF Above
    <3> QED
      BY <3>1, <3>2, <3>3, Zenon DEF Waits, WaitsForRanked, WaitsForConns
  <2>4. CASE x.do = "write"
    <3>1. open /\ ~HasRoom(Peer(g.node)) /\ Writing(g)
      BY <1>1, <2>4 DEF Ready, Sends, Writing, x
    <3>2. holds[g] = (IF g.role = "reader" THEN {} ELSE {"conns"})
      BY <2>2, <2>4 DEF Moves
    <3> QED
      BY <3>1, <3>2 DEF Waits, WaitsForPeer
  <2>5. CASE x.do \notin {"hold", "write"}
    <3>1. Above(x.locks, holds[g]) /\ x.do # "stop"
      BY <2>1, <2>2, <2>5 DEF Moves
    <3>2. PICK l \in x.locks : Held(g.node, l)
      BY <1>1, <2>5, <3>1 DEF Ready, Free, Held, x
    <3>3. l \in Ranked /\ Above({l}, holds[g])
      BY <3>1 DEF Above
    <3> QED
      BY <3>2, <3>3 DEF Waits, WaitsForRanked
  <2> QED
    BY <2>3, <2>4, <2>5
<1> QED
  BY <1>2, <1>3 DEF LocksOK

(* Who holds a lock is at work, and holds none but those of the node.      *)
LEMMA HoldersWork ==
    ASSUME LocksOK, NEW g \in Goroutines
    PROVE  holds[g] \subseteq LockNames /\ (holds[g] # {} => AtWork(g))
<1>1. CASE Leaving(g)
  BY <1>1 DEF Leaving
<1>2. CASE InCode(g)
  <2>1. CASE run[g] = <<>>
    BY <2>1, NoneAtWork
  <2>2. CASE run[g] # <<>>
    <3>1. PICK M \in SUBSET LockNames : Moves(g.role, Head(run[g]), holds[g], M)
      BY <1>2, <2>2, PathHead DEF InCode
    <3>2. holds[g] \in SUBSET LockNames
      BY <1>2, <2>2, PathHead DEF InCode
    <3>3. run[g] # <<Stop>>
      BY <3>1, LeavingIs DEF Moves
    <3> QED
      BY <2>2, <3>2, <3>3 DEF AtWork
  <2> QED
    BY <2>1, <2>2
<1> QED
  BY <1>1, <1>2 DEF LocksOK

(* No lock of rank r or above is held. *)
NoneHeld(r) == \A g \in Goroutines : \A l \in holds[g] \cap Ranked : Rank(l) < r

AllWait == \A g \in Goroutines : holds[g] # {} => Waits(g)

(* Ranks are numbers.                                                    *)
LEMMA RankIs ==
    ASSUME NEW l \in Ranked
    PROVE  Rank(l) \in 1..5
BY DEF Ranked, Rank

(* If all who hold a lock wait, the highest that is held is held by nobody. *)
LEMMA NoneHeldBelow ==
    ASSUME AllWait, NEW r \in Nat, NoneHeld(r + 1)
    PROVE  NoneHeld(r)
<1> SUFFICES ASSUME NEW g \in Goroutines, NEW l \in holds[g] \cap Ranked PROVE Rank(l) < r
  BY DEF NoneHeld
<1>1. Waits(g) /\ holds[g] # {}
  BY DEF AllWait
<1>2. CASE WaitsForRanked(g)
  <2>1. PICK m \in Ranked : Held(g.node, m) /\ Above({m}, holds[g])
    BY <1>2 DEF WaitsForRanked
  <2>2. Rank(m) < r + 1
    BY <2>1 DEF Held, NoneHeld
  <2>3. Rank(l) < Rank(m)
    BY <2>1 DEF Above
  <2> QED
    BY <2>2, <2>3, RankIs
<1>3. ~WaitsForConns(g)
  BY <1>1 DEF WaitsForConns
<1>4. ~WaitsForPeer(g)
  BY DEF WaitsForPeer, Ranked
<1> QED
  BY <1>1, <1>2, <1>3, <1>4 DEF Waits

(* So no lock of the order is held by anybody, only that of the connections. *)
LEMMA NothingRankedIsHeld ==
    ASSUME LocksOK, AllWait
    PROVE  \A g \in Goroutines : holds[g] \subseteq {"conns"}
<1>1. NoneHeld(5 + 1)
  <2> SUFFICES ASSUME NEW g \in Goroutines, NEW l \in holds[g] \cap Ranked PROVE Rank(l) < 5 + 1
    BY DEF NoneHeld
  <2> QED
    BY RankIs
<1>2. NoneHeld(4 + 1)
  BY <1>1, NoneHeldBelow
<1>3. NoneHeld(3 + 1)
  BY <1>2, NoneHeldBelow
<1>4. NoneHeld(2 + 1)
  BY <1>3, NoneHeldBelow
<1>5. NoneHeld(1 + 1)
  BY <1>4, NoneHeldBelow
<1>6. NoneHeld(1)
  BY <1>5, NoneHeldBelow
<1> SUFFICES ASSUME NEW g \in Goroutines, NEW l \in holds[g] PROVE l = "conns"
  OBVIOUS
<1>7. l \in LockNames
  BY HoldersWork
<1>8. l \notin Ranked
  BY <1>6, RankIs DEF NoneHeld
<1> QED
  BY <1>7, <1>8 DEF LockNames, Ranked

(* When all are stuck, a node whose socket is full is writing to the other, *)
(* or leaves it and waits for one that is.                                  *)
LEMMA FullNodesWrite ==
    ASSUME DataOK, LocksOK, Stuck, AllWait, NEW n \in Nodes, open, ~HasRoom(n)
    PROVE  (Writing(Reader(n)) \/ run[Reader(n)] = Leave) /\ ~HasRoom(Peer(n))
<1> DEFINE g == Reader(n)
<1>1. g \in Goroutines /\ g.node = n /\ g.role = "reader"
  BY NamedGoroutines
<1>2. socket[n] # <<>>
  BY LocksAssumption DEF HasRoom
<1>3. run[g] # <<>>
  BY <1>2 DEF Stuck, CanDecode
<1> HIDE DEF g
<1>4. AtWork(g)
  <2>1. CASE Leaving(g)
    BY <1>3, <2>1 DEF Leaving, AtWork
  <2>2. CASE InCode(g)
    <3>1. PICK M \in SUBSET LockNames : Moves(g.role, Head(run[g]), holds[g], M)
      BY <1>3, <2>2, PathHead DEF InCode
    <3> QED
      BY <1>3, <3>1, LeavingIs DEF Moves, AtWork
  <2> QED
    BY <1>1, <2>1, <2>2 DEF LocksOK
<1>5. Waits(g)
  BY <1>1, <1>4, WhoIsNotReadyWaits DEF Stuck
<1>6. ~WaitsForRanked(g)
  BY NothingRankedIsHeld DEF WaitsForRanked, Held, Ranked
<1>7. CASE WaitsForPeer(g)
  BY <1>1, <1>7 DEF WaitsForPeer, g
<1>8. CASE WaitsForConns(g)
  <2>1. PICK k \in Goroutines : k.node = n /\ "conns" \in holds[k]
    BY <1>1, <1>8 DEF WaitsForConns, Held
  <2>2. WaitsForPeer(k)
    <3>1. Waits(k) /\ ~WaitsForConns(k)
      BY <2>1 DEF AllWait, WaitsForConns
    <3>2. ~WaitsForRanked(k)
      BY NothingRankedIsHeld DEF WaitsForRanked, Held, Ranked
    <3> QED
      BY <3>1, <3>2 DEF Waits
  <2> QED
    BY <1>1, <1>8, <2>1, <2>2 DEF WaitsForPeer, WaitsForConns, g
<1> QED
  BY <1>5, <1>6, <1>7, <1>8 DEF Waits

(* All are stuck only when both nodes write and neither reads. *)
LEMMA StuckMeansJammed ==
    ASSUME DataOK, LocksOK
    PROVE  StuckOnlyWhenJammed
<1> SUFFICES ASSUME Stuck
             PROVE  Jammed /\ \A g \in Goroutines : holds[g] \subseteq {"conns"}
  BY DEF StuckOnlyWhenJammed
<1>1. AllWait
  BY HoldersWork, WhoIsNotReadyWaits DEF AllWait, Stuck
<1>2. \A g \in Goroutines : holds[g] \subseteq {"conns"}
  BY <1>1, NothingRankedIsHeld
<1>3. \A g \in Goroutines : ~WaitsForRanked(g)
  BY <1>2 DEF WaitsForRanked, Held, Ranked
<1>4. PICK g \in Goroutines : WaitsForPeer(g)
  <2>1. PICK h \in Goroutines : AtWork(h)
    BY DEF Stuck
  <2>2. WaitsForPeer(h) \/ WaitsForConns(h)
    BY <1>3, <2>1, WhoIsNotReadyWaits DEF Stuck, Waits
  <2>3. ASSUME WaitsForConns(h) PROVE \E k \in Goroutines : WaitsForPeer(k)
    <3>1. PICK k \in Goroutines : "conns" \in holds[k]
      BY <2>3 DEF WaitsForConns, Held
    <3>2. Waits(k) /\ ~WaitsForConns(k)
      BY <1>1, <3>1 DEF AllWait, WaitsForConns
    <3> QED
      BY <1>3, <3>2 DEF Waits
  <2> QED
    BY <2>2, <2>3
<1> DEFINE n == Peer(g.node)
<1>5. open /\ ~HasRoom(n)
  BY <1>4 DEF WaitsForPeer
<1>6. n \in Nodes /\ Peer(n) \in Nodes /\ \A m \in Nodes : m \in {n, Peer(n)}
  BY GoroutineIs, LocksAssumption DEF Nodes, Peer
<1>7. n \in Nodes /\ Peer(n) \in Nodes /\ Peer(Peer(n)) = n
  BY GoroutineIs, LocksAssumption DEF Nodes, Peer
<1> HIDE DEF n
<1>8. (Writing(Reader(n)) \/ run[Reader(n)] = Leave) /\ ~HasRoom(Peer(n))
  BY <1>1, <1>5, <1>7, FullNodesWrite
<1>9. Writing(Reader(Peer(n))) \/ run[Reader(Peer(n))] = Leave
  BY <1>1, <1>5, <1>7, <1>8, FullNodesWrite
<1> QED
  BY <1>2, <1>5, <1>6, <1>8, <1>9 DEF Jammed

(***************************************************************************)
(* For all of the constants: handlers, commits, gossip and broadcasts wait *)
(* for each other in a circle only when both nodes write and neither reads *)
(* (node.go; a reader that leaves an open connection included, which waits *)
(* for the broadcast that waits for the peer), and then no lock but that   *)
(* of the connections is held.                                             *)
(***************************************************************************)
THEOREM LocksStuckOnlyWhenJammed == Spec => []StuckOnlyWhenJammed
<1>1. Init => LocksOK
  BY LocksInit
<1>2. DataOK /\ LocksOK /\ [Next]_vars => LocksOK'
  BY LocksStep
<1>3. DataOK /\ LocksOK => StuckOnlyWhenJammed
  BY StuckMeansJammed
<1> QED
  BY <1>1, <1>2, <1>3, LocksData, PTL DEF Spec
=============================================================================
