--------------------------- MODULE PageInputProofs ----------------------------
(***************************************************************************)
(* What a user does to the page of a stream, proved for every set of keys, *)
(* fingers, gamepads, dialogs, listeners and texts: every part has an      *)
(* inductive invariant of its own, and as the parts share no state their   *)
(* conjunction is the invariant of the page.                               *)
(***************************************************************************)
EXTENDS MCPageInput, Sequences, FiniteSetTheorems, SequenceTheorems,
        WellFoundedInduction, TLAPS

-------------------------------------------------------------------------------
(* The keyboard: what the host will hold *)

\* What a host that holds the keys of h will hold after the packets of q.
HeldIn(h, q) ==
    {k \in Keys : \E i \in 0..Len(q) :
        /\ IF i = 0 THEN k \in h ELSE q[i] = Keyboard!Press(k)
        /\ \A j \in (i + 1)..Len(q) : q[j] # Keyboard!Release(k)}

Channels == [kind : {"none", "webrtc", "websocket"}, open : BOOLEAN,
             sendQueue : Seq(Keyboard!Packet), wire : Seq(Keyboard!Packet)]

\* A channel that is not there keeps nothing, and nothing waits at a host without a stream.
NothingAhead ==
    /\ channel \in Channels
    /\ channel.kind = "none" => channel.wire = <<>> /\ channel.sendQueue = <<>> /\ ~started
    /\ ~started => host = {}

\* The host never ends up with a key that the page does not believe to be pressed.
PageKnows ==
    /\ HeldIn(host, Keyboard!OnItsWay(channel)) \subseteq pressedKeys
    /\ focus = "away" /\ ~spared => pressedKeys = {}

KeyboardInv == Keyboard!TypeOK /\ NothingAhead /\ PageKnows

\* A key that is held after more packets is pressed by one of them, or was held before
\* them and none of them releases it.
LEMMA HeldAfterMore ==
    ASSUME NEW h \in SUBSET Keys, NEW q \in Seq(Keyboard!Packet), NEW r \in Seq(Keyboard!Packet),
           NEW k \in HeldIn(h, q \o r)
    PROVE  \/ k \in HeldIn(h, q) /\ \A j \in 1..Len(r) : r[j] # Keyboard!Release(k)
           \/ \E j \in 1..Len(r) : r[j] = Keyboard!Press(k)
  <1> DEFINE n == Len(q)
             m == Len(r)
             qr == q \o r
  <1>1. n \in Nat /\ m \in Nat /\ Len(qr) = n + m /\ k \in Keys
    BY DEF HeldIn
  <1>2. \A i \in 1..(n + m) : qr[i] = IF i <= n THEN q[i] ELSE r[i - n]
    OBVIOUS
  <1>3. PICK i \in 0..(n + m) :
            /\ IF i = 0 THEN k \in h ELSE qr[i] = Keyboard!Press(k)
            /\ \A j \in (i + 1)..(n + m) : qr[j] # Keyboard!Release(k)
    BY <1>1 DEF HeldIn
  <1> HIDE DEF n, m, qr
  <1>4. CASE i <= n
    <2>1. \A j \in 1..m : r[j] # Keyboard!Release(k)
      <3> TAKE j \in 1..m
      <3>1. n + j \in (i + 1)..(n + m) /\ n + j \in 1..(n + m) /\ ~(n + j <= n) /\ (n + j) - n = j
        BY <1>1, <1>4
      <3> QED
        BY <3>1, <1>2, <1>3
    <2>2. k \in HeldIn(h, q)
      <3>1. i \in 0..n /\ IF i = 0 THEN k \in h ELSE q[i] = Keyboard!Press(k)
        BY <1>1, <1>2, <1>3, <1>4
      <3>2. \A j \in (i + 1)..n : q[j] # Keyboard!Release(k)
        <4> TAKE j \in (i + 1)..n
        <4>1. j \in (i + 1)..(n + m) /\ j \in 1..(n + m) /\ j <= n
          BY <1>1, <1>4
        <4> QED
          BY <4>1, <1>2, <1>3
      <3> QED
        BY <1>1, <3>1, <3>2 DEF HeldIn, n
    <2> QED
      BY <2>1, <2>2 DEF m
  <1>5. CASE i > n
    <2>1. i \in 1..(n + m) /\ i - n \in 1..m /\ i # 0 /\ ~(i <= n)
      BY <1>1, <1>5
    <2>2. qr[i] = Keyboard!Press(k)
      BY <2>1, <1>3
    <2>3. r[i - n] = Keyboard!Press(k)
      BY <2>1, <2>2, <1>2
    <2> QED
      BY <2>1, <2>3 DEF m
  <1> QED
    BY <1>1, <1>4, <1>5

\* SetToSeq puts every member of a finite set somewhere, and nothing else.
LEMMA SetToSeqHasAll ==
    ASSUME NEW S, IsFiniteSet(S)
    PROVE  /\ Keyboard!SetToSeq(S) \in Seq(S)
           /\ \A x \in S : \E i \in 1..Len(Keyboard!SetToSeq(S)) : Keyboard!SetToSeq(S)[i] = x
  <1> DEFINE n == Cardinality(S)
             s == Keyboard!SetToSeq(S)
  <1>1. n \in Nat /\ ExistsBijection(1..n, S)
    BY FS_CardinalityType
  <1>2. \E f \in [1..n -> S] : Keyboard!IsInjective(f)
    BY <1>1 DEF ExistsBijection, Bijection, Injection, IsInjective, Keyboard!IsInjective
  <1>3. Keyboard!Cardinality(S) = n
    BY DEF Cardinality, Keyboard!Cardinality
  <1>4. s \in [1..n -> S] /\ Keyboard!IsInjective(s)
    BY <1>2, <1>3 DEF Keyboard!SetToSeq
  <1>5. s \in Injection(1..n, S)
    BY <1>4 DEF Injection, IsInjective, Keyboard!IsInjective
  <1>6. Cardinality(1..n) = n
    BY <1>1, FS_Interval
  <1>7. s \in Surjection(1..n, S)
    BY <1>5, <1>6, FS_Injection
  <1> HIDE DEF s, n
  <1>8. s \in Seq(S) /\ Len(s) = n
    BY <1>1, <1>4
  <1> QED
    BY <1>7, <1>8 DEF Surjection, s

\* What is raised when all keys are: one release for each of them.
LEMMA ReleasesOfAll ==
    ASSUME KeyboardConstants, NEW P \in SUBSET Keys
    PROVE  LET s == Keyboard!SetToSeq({Keyboard!Release(k) : k \in P})
           IN  /\ s \in Seq(Keyboard!Packet)
               /\ \A k \in P : \E i \in 1..Len(s) : s[i] = Keyboard!Release(k)
               /\ \A k \in Keys : \A i \in 1..Len(s) : s[i] # Keyboard!Press(k)
  <1> DEFINE S == {Keyboard!Release(k) : k \in P}
             s == Keyboard!SetToSeq(S)
  <1>1. IsFiniteSet(P)
    BY FS_Subset DEF KeyboardConstants
  <1>2. IsFiniteSet(S)
    <2> DEFINE f == [k \in P |-> Keyboard!Release(k)]
    <2>1. f \in Surjection(P, S)
      BY DEF Surjection
    <2> QED
      BY <1>1, <2>1, FS_Surjection
  <1>3. /\ s \in Seq(S)
        /\ \A x \in S : \E i \in 1..Len(s) : s[i] = x
    BY <1>2, SetToSeqHasAll
  <1>4. S \subseteq Keyboard!Packet /\ \A x \in S : x.down = FALSE
    <2>1. \A k \in P : /\ Keyboard!Release(k) \in Keyboard!Packet
                      /\ Keyboard!Release(k).down = FALSE
      BY DEF Keyboard!Release, Keyboard!Packet
    <2> QED
      BY <2>1
  <1>5. \A k \in P : Keyboard!Release(k) \in S
    OBVIOUS
  <1> HIDE DEF S, s
  <1>6. s \in Seq(Keyboard!Packet) /\ \A i \in 1..Len(s) : s[i] \in S
    BY <1>3, <1>4
  <1>7. \A k \in Keys : Keyboard!Press(k).down = TRUE
    BY DEF Keyboard!Press
  <1>8. \A k \in Keys : \A i \in 1..Len(s) : s[i] # Keyboard!Press(k)
    BY <1>4, <1>6, <1>7
  <1> QED
    BY <1>3, <1>5, <1>6, <1>8 DEF s, S

\* What is sent goes behind everything that is on its way, at whichever end it waits.
LEMMA SentBehind ==
    ASSUME NEW c \in Channels, NEW ms \in Seq(Keyboard!Packet)
    PROVE  /\ Keyboard!SendAll(c, ms) \in Channels
           /\ Keyboard!SendAll(c, ms).kind = c.kind /\ Keyboard!SendAll(c, ms).open = c.open
           /\ c.kind = "none" => Keyboard!SendAll(c, ms) = c
           /\ c.kind # "none" =>
                Keyboard!OnItsWay(Keyboard!SendAll(c, ms)) = Keyboard!OnItsWay(c) \o ms
  <1> DEFINE Q == Seq(Keyboard!Packet)
             w == c.wire
             q == c.sendQueue
  <1> USE DEF Channels
  <1>1. /\ \A a, b \in Q : a \o b \in Q
        /\ \A a, b, d \in Q : (a \o b) \o d = a \o (b \o d)
        /\ \A a \in Q : a \o <<>> = a /\ <<>> \in Q
    OBVIOUS
  <1>2. w \in Q /\ q \in Q /\ ms \in Q
    OBVIOUS
  <1>3. CASE c.kind = "none" \/ ms = <<>>
    <2>1. Keyboard!SendAll(c, ms) = c
      BY <1>3 DEF Keyboard!SendAll
    <2>2. Keyboard!OnItsWay(c) \in Q
      BY DEF Keyboard!OnItsWay
    <2> QED
      BY <2>1, <2>2, <1>1, <1>3
  <1>4. CASE c.kind # "none" /\ ms # <<>> /\ ~c.open
    <2>1. Keyboard!SendAll(c, ms) = [c EXCEPT !.sendQueue = q \o ms]
      BY <1>4 DEF Keyboard!SendAll
    <2>2. q \o ms \in Q /\ (w \o q) \o ms = w \o (q \o ms)
      BY <1>1, <1>2
    <2>3. /\ Keyboard!SendAll(c, ms) \in Channels
          /\ Keyboard!SendAll(c, ms).kind = c.kind /\ Keyboard!SendAll(c, ms).open = c.open
          /\ Keyboard!SendAll(c, ms).wire = w
          /\ Keyboard!SendAll(c, ms).sendQueue = q \o ms
      BY <2>1, <2>2, <1>2
    <2> QED
      BY <2>2, <2>3, <1>4 DEF Keyboard!OnItsWay
  <1>5. CASE c.kind # "none" /\ ms # <<>> /\ c.open
    <2>1. Keyboard!SendAll(c, ms) = [c EXCEPT !.wire = w \o q \o ms, !.sendQueue = <<>>]
      BY <1>5 DEF Keyboard!SendAll
    <2>2. Keyboard!SendAll(c, ms).wire = (w \o q) \o ms
      BY <2>1
    <2>3. Keyboard!SendAll(c, ms).sendQueue = <<>>
      BY <2>1
    <2>4. (w \o q) \o ms \in Q
      BY <1>1, <1>2
    <2>5. Keyboard!SendAll(c, ms) \in Channels /\ Keyboard!SendAll(c, ms).kind = c.kind
          /\ Keyboard!SendAll(c, ms).open = c.open
      BY <2>1, <2>4, <1>1
    <2> QED
      BY <2>2, <2>3, <2>4, <2>5, <1>1, <1>5 DEF Keyboard!OnItsWay
  <1> QED
    BY <1>3, <1>4, <1>5

\* Sending one packet is sending a list of one.
LEMMA OneSent ==
    ASSUME NEW c \in Channels, NEW m \in Keyboard!Packet
    PROVE  Keyboard!Send(c, m) = Keyboard!SendAll(c, <<m>>)
  <1>1. \A s \in Seq(Keyboard!Packet) : Append(s, m) = s \o <<m>>
    OBVIOUS
  <1>2. c.sendQueue \in Seq(Keyboard!Packet) /\ <<m>> # <<>> /\ c.open \in BOOLEAN
    BY DEF Channels
  <1> QED
    BY <1>1, <1>2 DEF Keyboard!Send, Keyboard!SendAll

\* The bookkeeping of a page that sends: what it presses it believes to be pressed, and what
\* it no longer believes to be pressed it has released.
LEMMA SendingKeeps ==
    ASSUME KeyboardInv, NEW ms \in Seq(Keyboard!Packet), pressedKeys' \in SUBSET Keys,
           channel' = Keyboard!SendAll(channel, ms), UNCHANGED <<started, host>>,
           \A k \in Keys : \A j \in 1..Len(ms) :
               ms[j] = Keyboard!Press(k) => k \in pressedKeys',
           \A k \in pressedKeys \ pressedKeys' :
               \E j \in 1..Len(ms) : ms[j] = Keyboard!Release(k)
    PROVE  /\ NothingAhead'
           /\ HeldIn(host, Keyboard!OnItsWay(channel))' \subseteq pressedKeys'
           /\ Keyboard!OnItsWay(channel)' \in Seq(Keyboard!Packet)
  <1>1. channel \in Channels /\ host \in SUBSET Keys
        /\ Keyboard!OnItsWay(channel) \in Seq(Keyboard!Packet)
    BY DEF KeyboardInv, NothingAhead, Keyboard!TypeOK
  <1>2. CASE channel.kind = "none"
    <2>1. channel' = channel
      BY <1>1, <1>2, SentBehind
    <2>2. NothingAhead'
      BY <2>1, <1>1 DEF KeyboardInv, NothingAhead
    <2>3. /\ Keyboard!OnItsWay(channel)' = <<>>
          /\ host' = {}
      BY <2>1, <1>2 DEF KeyboardInv, NothingAhead, Keyboard!OnItsWay
    <2> QED
      BY <2>2, <2>3 DEF HeldIn
  <1>3. CASE channel.kind # "none"
    <2>1. /\ channel' \in Channels /\ channel'.kind # "none"
          /\ Keyboard!OnItsWay(channel)' = Keyboard!OnItsWay(channel) \o ms
      BY <1>1, <1>3, SentBehind
    <2>2. NothingAhead'
      BY <2>1 DEF KeyboardInv, NothingAhead
    <2>3. ASSUME NEW k \in HeldIn(host', Keyboard!OnItsWay(channel)')
          PROVE  k \in pressedKeys'
      <3>1. k \in HeldIn(host, Keyboard!OnItsWay(channel) \o ms) /\ k \in Keys
        BY <2>1, <2>3 DEF HeldIn
      <3>2. \/ /\ k \in HeldIn(host, Keyboard!OnItsWay(channel))
               /\ \A j \in 1..Len(ms) : ms[j] # Keyboard!Release(k)
            \/ \E j \in 1..Len(ms) : ms[j] = Keyboard!Press(k)
        BY <1>1, <3>1, HeldAfterMore
      <3> QED
        BY <3>1, <3>2 DEF KeyboardInv, PageKnows
    <2>4. Keyboard!OnItsWay(channel)' \in Seq(Keyboard!Packet)
      BY <1>1, <2>1
    <2> QED
      BY <2>2, <2>3, <2>4
  <1> QED
    BY <1>2, <1>3

\* Who takes the head of the first of two sequences takes the head of both.
LEMMA TailOfConcat ==
    ASSUME NEW S, NEW w \in Seq(S), NEW t \in Seq(S), w # <<>>
    PROVE  /\ w \o t \in Seq(S) /\ Len(w \o t) = Len(w) + Len(t)
           /\ (w \o t)[1] = Head(w)
           /\ Tail(w) \o t \in Seq(S) /\ Len(Tail(w) \o t) = Len(w \o t) - 1
           /\ \A i \in 1..(Len(w \o t) - 1) : (Tail(w) \o t)[i] = (w \o t)[i + 1]
  <1>1. Len(w) \in Nat \ {0} /\ Len(t) \in Nat
    OBVIOUS
  <1>2. /\ Tail(w) \in Seq(S) /\ Len(Tail(w)) = Len(w) - 1
        /\ \A i \in 1..(Len(w) - 1) : Tail(w)[i] = w[i + 1]
    OBVIOUS
  <1>3. /\ w \o t \in Seq(S) /\ Len(w \o t) = Len(w) + Len(t)
        /\ \A i \in 1..(Len(w) + Len(t)) : (w \o t)[i] = IF i <= Len(w) THEN w[i] ELSE t[i - Len(w)]
    BY ConcatProperties, Zenon
  <1>4. /\ Tail(w) \o t \in Seq(S) /\ Len(Tail(w) \o t) = Len(w) - 1 + Len(t)
    OBVIOUS
  <1>5. \A i \in 1..(Len(w) - 1 + Len(t)) : (Tail(w) \o t)[i] =
              IF i <= Len(w) - 1 THEN Tail(w)[i] ELSE t[i - (Len(w) - 1)]
    OBVIOUS
  <1> DEFINE a == w \o t
             b == Tail(w) \o t
             c == Tail(w)
  <1>6. a[1] = Head(w)
    BY <1>1, <1>3
  <1> HIDE DEF a, b, c
  <1>7. \A i \in 1..(Len(a) - 1) : b[i] = a[i + 1]
    <2> TAKE i \in 1..(Len(a) - 1)
    <2>1. i \in 1..(Len(w) - 1 + Len(t)) /\ i + 1 \in 1..(Len(w) + Len(t))
      BY <1>1, <1>3 DEF a
    <2>2. CASE i <= Len(w) - 1
      BY <2>1, <2>2, <1>1, <1>2, <1>3, <1>5 DEF a, b, c
    <2>3. CASE ~(i <= Len(w) - 1)
      <3>1. ~(i + 1 <= Len(w)) /\ i - (Len(w) - 1) = (i + 1) - Len(w)
        BY <2>1, <2>3, <1>1
      <3> QED
        BY <3>1, <2>1, <2>3, <1>3, <1>5 DEF a, b
    <2> QED
      BY <2>2, <2>3
  <1> QED
    BY <1>1, <1>3, <1>4, <1>6, <1>7 DEF a, b

\* A packet that the streamer takes takes nothing from what the host will hold, and adds
\* nothing to it.
LEMMA TakingKeeps ==
    ASSUME KeyboardInv, Keyboard!TakePacket
    PROVE  KeyboardInv'
  <1> DEFINE Q == Seq(Keyboard!Packet)
             w == channel.wire
             p == Head(w)
             q == Keyboard!OnItsWay(channel)
  <1>1. /\ channel \in Channels /\ host \in SUBSET Keys /\ w \in Q /\ w # <<>>
        /\ channel.sendQueue \in Q /\ channel.kind # "none"
        /\ UNCHANGED <<held, focus, keyTransition, spared, pressedKeys, started>>
    BY DEF KeyboardInv, NothingAhead, Keyboard!TypeOK, Keyboard!TakePacket, Channels
  <1>2. p \in Keyboard!Packet /\ Tail(w) \in Q
    BY <1>1
  <1>3. channel' = [channel EXCEPT !.wire = Tail(w)]
    BY DEF Keyboard!TakePacket, Keyboard!Taken
  <1>4. /\ channel' \in Channels /\ channel'.kind = channel.kind
        /\ Keyboard!OnItsWay(channel)' = Tail(w) \o channel.sendQueue
    BY <1>1, <1>2, <1>3 DEF Channels, Keyboard!OnItsWay
  <1>5. /\ q = w \o channel.sendQueue /\ q \in Q /\ Tail(w) \o channel.sendQueue \in Q
        /\ Len(q) \in Nat \ {0} /\ Len(Tail(w) \o channel.sendQueue) = Len(q) - 1
        /\ q[1] = p
        /\ \A i \in 1..(Len(q) - 1) : (Tail(w) \o channel.sendQueue)[i] = q[i + 1]
    <2>1. q = w \o channel.sendQueue
      BY DEF Keyboard!OnItsWay
    <2>2. Len(w) \in Nat \ {0} /\ Len(channel.sendQueue) \in Nat
      BY <1>1
    <2> HIDE DEF q, w, p
    <2> QED
      BY <2>1, <2>2, <1>1, TailOfConcat DEF p
  <1>6. /\ ~started => host' = host
        /\ started /\ p.down => host' = host \cup {p.key}
        /\ started /\ ~p.down => host' = host \ {p.key}
    BY DEF Keyboard!TakePacket
  <1>7. p.key \in Keys /\ p.down \in BOOLEAN /\ p = [down |-> p.down, key |-> p.key]
    BY <1>2 DEF Keyboard!Packet
  <1>8. host' \in SUBSET Keys
    BY <1>1, <1>6, <1>7
  <1>9. started \in BOOLEAN
    BY DEF KeyboardInv, Keyboard!TypeOK
  <1> DEFINE q1 == Tail(w) \o channel.sendQueue
             n == Len(q)
  <1>10. ASSUME NEW k \in HeldIn(host', q1)
         PROVE  k \in HeldIn(host, q)
    <2> HIDE DEF q1, n, q, p
    <2>1. PICK i \in 0..(n - 1) :
              /\ IF i = 0 THEN k \in host' ELSE q1[i] = Keyboard!Press(k)
              /\ \A j \in (i + 1)..(n - 1) : q1[j] # Keyboard!Release(k)
      BY <1>10, <1>5 DEF HeldIn, q1, n
    <2>2. k \in Keys /\ n \in Nat \ {0}
      BY <1>10, <1>5 DEF HeldIn, n
    <2>3. \A j \in (i + 2)..n : q[j] # Keyboard!Release(k)
      <3> TAKE j \in (i + 2)..n
      <3>1. j - 1 \in (i + 1)..(n - 1) /\ j - 1 \in 1..(n - 1) /\ (j - 1) + 1 = j
        BY <2>2
      <3> QED
        BY <3>1, <2>1, <1>5 DEF q1, n
    <2>4. CASE i # 0
      <3>1. i + 1 \in 1..n /\ i \in 1..(n - 1) /\ i + 1 # 0
        BY <2>2, <2>4
      <3>2. q[i + 1] = Keyboard!Press(k)
        BY <3>1, <2>1, <2>4, <1>5 DEF q1, n
      <3>3. i + 1 \in 0..n /\ \A j \in ((i + 1) + 1)..n : q[j] # Keyboard!Release(k)
        BY <3>1, <2>2, <2>3
      <3> QED
        BY <3>1, <3>2, <3>3, <2>2 DEF HeldIn, n
    <2>5. CASE i = 0
      <3>1. k \in host' /\ \A j \in 2..n : q[j] # Keyboard!Release(k)
        BY <2>1, <2>3, <2>5
      <3>2. CASE q[1] = Keyboard!Press(k)
        <4>1. 1 \in 0..n /\ \A j \in (1 + 1)..n : q[j] # Keyboard!Release(k)
          BY <3>1, <2>2
        <4> QED
          BY <4>1, <3>2, <2>2 DEF HeldIn, n
      <3>3. CASE q[1] # Keyboard!Press(k)
        <4>1. k \in host
          <5>1. CASE started /\ p.down
            <6>1. k # p.key
              BY <1>5, <1>7, <3>3, <5>1 DEF Keyboard!Press
            <6> QED
              BY <6>1, <3>1, <1>6, <5>1
          <5> QED
            BY <5>1, <1>6, <1>7, <1>9, <3>1
        <4>2. q[1] # Keyboard!Release(k)
          <5>1. SUFFICES ASSUME q[1] = Keyboard!Release(k) PROVE FALSE
            OBVIOUS
          <5>2. p.key = k /\ p.down = FALSE
            <6>1. p = Keyboard!Release(k)
              BY <5>1, <1>5
            <6>2. Keyboard!Release(k).key = k /\ Keyboard!Release(k).down = FALSE
              BY DEF Keyboard!Release
            <6> QED
              BY <6>1, <6>2
          <5>3. ~started
            BY <5>2, <3>1, <1>6, <1>9
          <5> QED
            BY <5>3, <4>1 DEF KeyboardInv, NothingAhead
        <4>3. \A j \in (0 + 1)..n : q[j] # Keyboard!Release(k)
          BY <3>1, <4>2, <2>2
        <4> QED
          BY <4>1, <4>3, <2>2 DEF HeldIn, n
      <3> QED
        BY <3>2, <3>3
    <2> QED
      BY <2>4, <2>5
  <1> HIDE DEF q, p, w
  <1>11. HeldIn(host', q1) \subseteq pressedKeys'
    BY <1>1, <1>10 DEF KeyboardInv, PageKnows, q
  <1>12. Keyboard!TypeOK'
    BY <1>1, <1>4, <1>5, <1>8 DEF KeyboardInv, Keyboard!TypeOK, Channels, q
  <1>13. NothingAhead'
    BY <1>1, <1>4, <1>6 DEF KeyboardInv, NothingAhead
  <1>14. PageKnows'
    BY <1>1, <1>4, <1>11 DEF KeyboardInv, PageKnows
  <1> QED
    BY <1>12, <1>13, <1>14 DEF KeyboardInv

\* The keyboard starts with nothing held, nothing on its way, and no channel.
LEMMA KeyboardInit == ASSUME Keyboard!Init PROVE KeyboardInv
  <1>1. /\ keyTransition \in BOOLEAN /\ spared \in BOOLEAN /\ started \in BOOLEAN /\ ~started
        /\ channel = Keyboard!NoChannel /\ focus = "stream"
        /\ held = {} /\ pressedKeys = {} /\ host = {}
    BY Zenon DEF Keyboard!Init
  <1>2. /\ channel.kind = "none" /\ channel.open = FALSE
        /\ channel.wire = <<>> /\ channel.sendQueue = <<>>
    BY <1>1 DEF Keyboard!NoChannel
  <1>3. channel \in Channels
    BY <1>1 DEF Keyboard!NoChannel, Channels
  <1>4. Keyboard!OnItsWay(channel) = <<>>
    BY <1>2 DEF Keyboard!OnItsWay
  <1>5. Keyboard!TypeOK
    BY <1>1, <1>3, <1>4 DEF Keyboard!TypeOK, Channels
  <1>6. NothingAhead
    BY <1>1, <1>2, <1>3 DEF NothingAhead
  <1>7. PageKnows
    BY <1>1, <1>4 DEF PageKnows, HeldIn
  <1> QED
    BY <1>5, <1>6, <1>7 DEF KeyboardInv

\* What a step that sends has to show of the rest.
LEMMA SentAndKept ==
    ASSUME KeyboardInv, NEW ms \in Seq(Keyboard!Packet), pressedKeys' \in SUBSET Keys,
           channel' = Keyboard!SendAll(channel, ms), UNCHANGED <<keyTransition, started, host>>,
           \A k \in Keys : \A j \in 1..Len(ms) :
               ms[j] = Keyboard!Press(k) => k \in pressedKeys',
           \A k \in pressedKeys \ pressedKeys' :
               \E j \in 1..Len(ms) : ms[j] = Keyboard!Release(k),
           held' \in SUBSET Keys, focus' \in {"stream", "overlay", "away"}, spared' \in BOOLEAN,
           focus' = "away" /\ ~spared' => pressedKeys' = {}
    PROVE  KeyboardInv'
  <1>1. /\ NothingAhead'
        /\ HeldIn(host, Keyboard!OnItsWay(channel))' \subseteq pressedKeys'
        /\ Keyboard!OnItsWay(channel)' \in Seq(Keyboard!Packet)
    BY SendingKeeps
  <1>2. Keyboard!TypeOK'
    BY <1>1 DEF KeyboardInv, Keyboard!TypeOK, NothingAhead, Channels
  <1>3. PageKnows'
    BY <1>1 DEF PageKnows
  <1> QED
    BY <1>1, <1>2, <1>3 DEF KeyboardInv

\* The keys themselves.
LEMMA KeysKeep ==
    ASSUME KeyboardInv, NEW k \in Keys, Keyboard!KeyDown(k) \/ Keyboard!KeyUp(k)
    PROVE  KeyboardInv'
  <1>1. /\ held' \in SUBSET Keys
        /\ UNCHANGED <<focus, keyTransition, spared, started, host>>
    BY DEF Keyboard!KeyDown, Keyboard!KeyUp, KeyboardInv, Keyboard!TypeOK
  <1>2. focus \in {"stream", "overlay", "away"} /\ spared \in BOOLEAN
        /\ pressedKeys \in SUBSET Keys /\ channel \in Channels
    BY DEF KeyboardInv, Keyboard!TypeOK, NothingAhead
  <1>3. /\ Keyboard!Press(k) \in Keyboard!Packet /\ Keyboard!Release(k) \in Keyboard!Packet
        /\ Keyboard!Press(k).down = TRUE /\ Keyboard!Release(k).down = FALSE
        /\ \A j \in Keys : /\ Keyboard!Press(j).down = TRUE
                           /\ Keyboard!Press(j) = Keyboard!Press(k) => j = k
    BY DEF Keyboard!Press, Keyboard!Release, Keyboard!Packet
  <1>4. CASE UNCHANGED <<pressedKeys, channel>>
    <2>1. Keyboard!TypeOK'
      BY <1>1, <1>2, <1>4 DEF KeyboardInv, Keyboard!TypeOK
    <2>2. NothingAhead'
      BY <1>1, <1>4 DEF KeyboardInv, NothingAhead
    <2>3. PageKnows'
      BY <1>1, <1>4 DEF KeyboardInv, PageKnows
    <2> QED
      BY <2>1, <2>2, <2>3 DEF KeyboardInv
  <1>5. CASE /\ focus = "stream" /\ pressedKeys' = pressedKeys \cup {k}
             /\ channel' = Keyboard!Send(channel, Keyboard!Press(k))
    <2> DEFINE ms == <<Keyboard!Press(k)>>
    <2>1. channel' = Keyboard!SendAll(channel, ms)
      BY <1>2, <1>3, <1>5, OneSent
    <2>2. ms \in Seq(Keyboard!Packet) /\ Len(ms) = 1 /\ ms[1] = Keyboard!Press(k)
      BY <1>3
    <2> HIDE DEF ms
    <2>3. \A j \in Keys : \A i \in 1..Len(ms) : ms[i] = Keyboard!Press(j) => j \in pressedKeys'
      BY <1>3, <1>5, <2>2
    <2>4. pressedKeys' \in SUBSET Keys /\ pressedKeys \ pressedKeys' = {}
      BY <1>2, <1>5
    <2>5. focus' = "stream" /\ spared' \in BOOLEAN
      BY <1>1, <1>2, <1>5
    <2> QED
      BY <1>1, <2>1, <2>2, <2>3, <2>4, <2>5, SentAndKept
  <1>6. CASE /\ focus = "stream" /\ pressedKeys' = pressedKeys \ {k}
             /\ channel' = Keyboard!Send(channel, Keyboard!Release(k))
    <2> DEFINE ms == <<Keyboard!Release(k)>>
    <2>1. channel' = Keyboard!SendAll(channel, ms)
      BY <1>2, <1>3, <1>6, OneSent
    <2>2. ms \in Seq(Keyboard!Packet) /\ Len(ms) = 1 /\ ms[1] = Keyboard!Release(k)
      BY <1>3
    <2> HIDE DEF ms
    <2>3. \A j \in Keys : \A i \in 1..Len(ms) : ms[i] = Keyboard!Press(j) => j \in pressedKeys'
      BY <1>3, <2>2
    <2>4. /\ pressedKeys' \in SUBSET Keys
          /\ \A j \in pressedKeys \ pressedKeys' :
                 \E i \in 1..Len(ms) : ms[i] = Keyboard!Release(j)
      BY <1>2, <1>6, <2>2
    <2>5. focus' = "stream" /\ spared' \in BOOLEAN
      BY <1>1, <1>2, <1>6
    <2> QED
      BY <1>1, <2>1, <2>2, <2>3, <2>4, <2>5, SentAndKept
  <1> QED
    BY <1>4, <1>5, <1>6
       DEF Keyboard!KeyDown, Keyboard!KeyUp, Keyboard!SendDown, Keyboard!SendUp

\* Who leaves the page has every key released on the way, or is spared by a transition.
LEMMA LeaveKeeps ==
    ASSUME KeyboardConstants, KeyboardInv, Keyboard!Leave
    PROVE  KeyboardInv'
  <1>1. /\ focus' = "away" /\ UNCHANGED <<held, keyTransition, started, host>>
        /\ spared' \in BOOLEAN /\ (spared' <=> keyTransition)
    <2>1. keyTransition \in BOOLEAN
      BY DEF KeyboardInv, Keyboard!TypeOK
    <2> QED
      BY <2>1, Zenon DEF Keyboard!Leave
  <1>2. held \in SUBSET Keys /\ pressedKeys \in SUBSET Keys
    BY DEF KeyboardInv, Keyboard!TypeOK
  <1>3. CASE UNCHANGED <<pressedKeys, channel>> /\ keyTransition
    <2>1. Keyboard!TypeOK'
      BY <1>1, <1>2, <1>3 DEF KeyboardInv, Keyboard!TypeOK
    <2>2. NothingAhead'
      BY <1>1, <1>3 DEF KeyboardInv, NothingAhead
    <2>3. PageKnows'
      BY <1>1, <1>3 DEF KeyboardInv, PageKnows
    <2> QED
      BY <2>1, <2>2, <2>3 DEF KeyboardInv
  <1>4. CASE Keyboard!RaiseAllKeys
    <2> DEFINE ms == Keyboard!SetToSeq({Keyboard!Release(k) : k \in pressedKeys})
    <2>1. /\ ms \in Seq(Keyboard!Packet)
          /\ \A k \in pressedKeys : \E i \in 1..Len(ms) : ms[i] = Keyboard!Release(k)
          /\ \A k \in Keys : \A i \in 1..Len(ms) : ms[i] # Keyboard!Press(k)
      BY <1>2, ReleasesOfAll
    <2>2. pressedKeys' = {} /\ channel' = Keyboard!SendAll(channel, ms)
      BY <1>4 DEF Keyboard!RaiseAllKeys
    <2> HIDE DEF ms
    <2> QED
      BY <1>1, <1>2, <2>1, <2>2, SentAndKept
  <1> QED
    BY <1>3, <1>4 DEF Keyboard!Leave

\* The steps that leave what the host will hold alone, or make it forget everything.
LEMMA KeyboardRest ==
    ASSUME KeyboardInv,
           \/ \E where \in {"stream", "overlay"} : Keyboard!Focus(where)
           \/ \E now \in BOOLEAN : Keyboard!Transition(now)
           \/ \E new \in {Keyboard!NewWebRtc, Keyboard!NewWebSocket} : Keyboard!SetTransport(new)
           \/ Keyboard!ChannelOpens \/ Keyboard!StreamStarts \/ Keyboard!NewStream
    PROVE  KeyboardInv'
  <1>1. ASSUME NEW where \in {"stream", "overlay"}, Keyboard!Focus(where)
        PROVE  KeyboardInv'
    <2>1. focus' = where /\ UNCHANGED <<held, keyTransition, pressedKeys, channel, started, host>>
          /\ spared' \in BOOLEAN
      BY <1>1, Zenon DEF Keyboard!Focus
    <2>2. Keyboard!TypeOK'
      BY <2>1 DEF KeyboardInv, Keyboard!TypeOK
    <2>3. NothingAhead'
      BY <2>1 DEF KeyboardInv, NothingAhead
    <2>4. PageKnows'
      BY <2>1 DEF KeyboardInv, PageKnows
    <2> QED
      BY <2>2, <2>3, <2>4 DEF KeyboardInv
  <1>2. ASSUME NEW now \in BOOLEAN, Keyboard!Transition(now)
        PROVE  KeyboardInv'
    <2>1. UNCHANGED <<held, focus, spared, pressedKeys, channel, started, host>>
          /\ keyTransition' \in BOOLEAN
      BY <1>2, Zenon DEF Keyboard!Transition
    <2>2. Keyboard!TypeOK'
      BY <2>1 DEF KeyboardInv, Keyboard!TypeOK
    <2>3. NothingAhead'
      BY <2>1 DEF KeyboardInv, NothingAhead
    <2>4. PageKnows'
      BY <2>1 DEF KeyboardInv, PageKnows
    <2> QED
      BY <2>2, <2>3, <2>4 DEF KeyboardInv
  <1>3. ASSUME NEW new \in {Keyboard!NewWebRtc, Keyboard!NewWebSocket},
               Keyboard!SetTransport(new)
        PROVE  KeyboardInv'
    <2>1. ~started /\ channel' = new
          /\ UNCHANGED <<held, focus, keyTransition, spared, pressedKeys, started, host>>
      BY <1>3 DEF Keyboard!SetTransport
    <2>2. /\ new \in Channels /\ new.wire = <<>> /\ new.sendQueue = <<>> /\ new.kind # "none"
      <3>1. /\ Keyboard!NoChannel \in Channels
            /\ Keyboard!NoChannel.wire = <<>> /\ Keyboard!NoChannel.sendQueue = <<>>
        BY DEF Keyboard!NoChannel, Channels
      <3>2. CASE new = Keyboard!NewWebRtc
        BY <3>1, <3>2 DEF Keyboard!NewWebRtc, Channels
      <3>3. CASE new = Keyboard!NewWebSocket
        BY <3>1, <3>3 DEF Keyboard!NewWebSocket, Channels
      <3> QED
        BY <3>2, <3>3
    <2>3. Keyboard!OnItsWay(channel') = <<>>
      BY <2>1, <2>2 DEF Keyboard!OnItsWay
    <2>4. host = {}
      BY <2>1 DEF KeyboardInv, NothingAhead
    <2>5. HeldIn(host', Keyboard!OnItsWay(channel')) = {}
      BY <2>1, <2>3, <2>4 DEF HeldIn
    <2>6. Keyboard!TypeOK'
      BY <2>1, <2>2, <2>3 DEF KeyboardInv, Keyboard!TypeOK, Channels
    <2>7. NothingAhead'
      BY <2>1, <2>2, <2>4 DEF NothingAhead
    <2>8. PageKnows'
      BY <2>1, <2>5 DEF KeyboardInv, PageKnows
    <2> QED
      BY <2>6, <2>7, <2>8 DEF KeyboardInv
  <1>4. CASE Keyboard!ChannelOpens
    <2>1. /\ channel.kind = "webrtc" /\ channel' = [channel EXCEPT !.open = TRUE]
          /\ UNCHANGED <<held, focus, keyTransition, spared, pressedKeys, started, host>>
      BY <1>4 DEF Keyboard!ChannelOpens, Keyboard!Opens
    <2>2. /\ channel' \in Channels /\ channel'.kind = "webrtc"
          /\ channel'.wire = channel.wire /\ channel'.sendQueue = channel.sendQueue
      BY <2>1 DEF KeyboardInv, NothingAhead, Channels
    <2>3. Keyboard!OnItsWay(channel)' = Keyboard!OnItsWay(channel)
      BY <2>2 DEF Keyboard!OnItsWay
    <2>4. Keyboard!TypeOK'
      BY <2>1, <2>2, <2>3 DEF KeyboardInv, Keyboard!TypeOK, Channels
    <2>5. NothingAhead'
      BY <2>1, <2>2 DEF KeyboardInv, NothingAhead
    <2>6. PageKnows'
      BY <2>1, <2>3 DEF KeyboardInv, PageKnows
    <2> QED
      BY <2>4, <2>5, <2>6 DEF KeyboardInv
  <1>5. CASE Keyboard!StreamStarts
    <2>1. /\ ~started /\ started' \in BOOLEAN /\ started' /\ channel.kind # "none"
          /\ UNCHANGED <<held, focus, keyTransition, spared, pressedKeys, channel, host>>
      BY <1>5, Zenon DEF Keyboard!StreamStarts
    <2>2. Keyboard!TypeOK'
      BY <2>1 DEF KeyboardInv, Keyboard!TypeOK
    <2>3. NothingAhead'
      BY <2>1 DEF KeyboardInv, NothingAhead
    <2>4. PageKnows'
      BY <2>1 DEF KeyboardInv, PageKnows
    <2> QED
      BY <2>2, <2>3, <2>4 DEF KeyboardInv
  <1>6. CASE Keyboard!NewStream
    <2>1. /\ started' \in BOOLEAN /\ ~started'
          /\ pressedKeys' = {} /\ channel' = Keyboard!NoChannel /\ host' = {}
          /\ UNCHANGED <<held, focus, keyTransition, spared>>
      BY <1>6, Zenon DEF Keyboard!NewStream
    <2>2. /\ channel' \in Channels /\ channel'.kind = "none"
          /\ channel'.wire = <<>> /\ channel'.sendQueue = <<>>
      BY <2>1 DEF Keyboard!NoChannel, Channels
    <2>3. Keyboard!OnItsWay(channel') = <<>>
      BY <2>2 DEF Keyboard!OnItsWay
    <2>4. HeldIn(host', Keyboard!OnItsWay(channel')) = {}
      BY <2>1, <2>3 DEF HeldIn
    <2>5. Keyboard!TypeOK'
      BY <2>1, <2>2, <2>3 DEF KeyboardInv, Keyboard!TypeOK, Channels
    <2>6. NothingAhead'
      BY <2>1, <2>2 DEF NothingAhead
    <2>7. PageKnows'
      BY <2>1, <2>4 DEF PageKnows
    <2> QED
      BY <2>5, <2>6, <2>7 DEF KeyboardInv
  <1> QED
    BY <1>1, <1>2, <1>3, <1>4, <1>5, <1>6

\* Every step keeps the keyboard right.
LEMMA KeyboardKeeps ==
    ASSUME KeyboardConstants, KeyboardInv, Keyboard!Next
    PROVE  KeyboardInv'
  BY KeysKeep, LeaveKeeps, TakingKeeps, KeyboardRest DEF Keyboard!Next

\* Who leaves the page leaves nothing pressed.
LEMMA KeyboardReleases == KeyboardInv => Keyboard!LeavingReleases
  BY DEF KeyboardInv, PageKnows, HeldIn, Keyboard!LeavingReleases, Keyboard!HeldAfter

-------------------------------------------------------------------------------
(* Mouse and touch *)

\* A finger drags only in "pointAndDrag", and only where fingers play the mouse is there a
\* primary one.
DragsInPlace ==
    /\ left = "finger" /\ ~abandoned => touchMode = "pointAndDrag"
    /\ ~Pointer!PlaysMouse => primary = NoFinger

\* A gesture that was looked at has its place sent, and one that went far was looked at.
AimedInTime ==
    touchMode = "pointAndDrag" /\ action = "default" =>
        /\ gesture.moved /\ gesture.origin => aimed
        /\ gesture.far \/ gesture.clicked => gesture.moved

PointerInv ==
    /\ Pointer!TypeOK /\ DragsInPlace /\ AimedInTime
    /\ Pointer!DragIsHeld /\ Pointer!ClickWhereTouched

\* The gesture before any touch is a gesture.
LEMMA NoGestureTyped == Pointer!NoGesture \in Pointer!Gesture
  BY DEF Pointer!NoGesture, Pointer!Gesture

\* No finger is down at the start, and no button.
LEMMA PointerInit == ASSUME Pointer!Init PROVE PointerInv
  <1>1. /\ aimed \in BOOLEAN /\ blind \in BOOLEAN /\ abandoned \in BOOLEAN
        /\ ~blind /\ left = "up" /\ primary = NoFinger
    BY Zenon DEF Pointer!Init
  <1>2. Pointer!TypeOK
    BY <1>1, NoGestureTyped DEF Pointer!Init, Pointer!TypeOK
  <1>3. AimedInTime
    BY DEF Pointer!Init, Pointer!NoGesture, AimedInTime
  <1> QED
    BY <1>1, <1>2, <1>3 DEF PointerInv, DragsInPlace, Pointer!DragIsHeld,
       Pointer!ClickWhereTouched

\* A finger that comes down starts a gesture, or joins the one of the primary finger.
LEMMA TouchStarts ==
    ASSUME PointerConstants, PointerInv, NEW f \in Fingers, NEW over \in BOOLEAN, Pointer!TouchStart(f, over)
    PROVE  PointerInv'
  <1> DEFINE first == Pointer!PlaysMouse /\ primary = NoFinger
             g == IF first THEN [Pointer!NoGesture EXCEPT !.origin = over, !.over = over] ELSE gesture
             joins == (first \/ primary # NoFinger) /\ Pointer!Joins(tracked \cup {f}, g)
             swipes == Pointer!Swipes(tracked \cup {f})
             moved == g.moved \/ (joins /\ touchMode = "pointAndDrag")
  <1> USE DEF PointerInv
  <1>1. g \in Pointer!Gesture
    BY NoGestureTyped DEF Pointer!Gesture, Pointer!TypeOK
  <1>2. moved \in BOOLEAN /\ gesture' = [g EXCEPT !.moved = moved]
    BY DEF Pointer!TouchStart
  <1>3. /\ aimed' \in BOOLEAN /\ (aimed' <=> aimed /\ ~first)
        /\ abandoned' \in BOOLEAN /\ (abandoned' <=> abandoned \/ (swipes /\ left = "finger"))
        /\ blind' = blind
    BY Zenon DEF Pointer!TouchStart
  <1>4. /\ action' \in {"scroll", "screenKeyboard", "default"}
        /\ joins => action' = "scroll"
        /\ ~joins /\ swipes => action' = "screenKeyboard"
        /\ ~joins /\ ~swipes => action' = IF first THEN "default" ELSE action
    <2>1. ~(joins /\ swipes)
      BY DEF Pointer!Joins, Pointer!Swipes
    <2>2. action' = CASE joins -> "scroll"
                      [] swipes -> "screenKeyboard"
                      [] ~joins /\ ~swipes /\ first -> "default"
                      [] ~joins /\ ~swipes /\ ~first -> action
      BY DEF Pointer!TouchStart
    <2>3. action \in {"default", "scroll", "screenKeyboard"}
      BY DEF Pointer!TypeOK
    <2> HIDE DEF joins, swipes, first
    <2> QED
      BY <2>1, <2>2, <2>3
  <1>5. /\ down' = down \cup {f} /\ tracked' = tracked \cup {f}
        /\ primary' = IF first THEN f ELSE primary
        /\ UNCHANGED <<touchMode, pointerMouseMode, left, blind>>
    BY DEF Pointer!TouchStart, Pointer!configVars
  <1>6. joins => ~g.moved /\ ~g.clicked
    BY DEF Pointer!Joins
  <1>7. /\ gesture' \in Pointer!Gesture
        /\ gesture'.clicked = g.clicked /\ gesture'.far = g.far /\ gesture'.age = g.age
        /\ gesture'.origin = g.origin /\ gesture'.moved = moved
    <2> HIDE DEF moved, g
    <2> QED
      BY <1>1, <1>2 DEF Pointer!Gesture
  <1>8. Pointer!TypeOK'
    BY <1>3, <1>4, <1>5, <1>7 DEF Pointer!TypeOK
  <1>9. DragsInPlace'
    BY <1>3, <1>5 DEF DragsInPlace, Pointer!PlaysMouse
  <1>10. AimedInTime'
    <2>1. CASE action' = "default"
      <3>1. ~joins /\ ~swipes
        BY <1>4, <2>1
      <3>2. CASE first
        BY <3>1, <3>2, <1>7, <1>3 DEF AimedInTime, Pointer!NoGesture
      <3>3. CASE ~first
        BY <3>1, <3>3, <1>3, <1>4, <1>5, <1>7 DEF AimedInTime
      <3> QED
        BY <3>2, <3>3
    <2> QED
      BY <2>1 DEF AimedInTime
  <1>11. Pointer!DragIsHeld'
    BY <1>3, <1>4, <1>5, <1>6, <1>7, PointerConstants DEF Pointer!DragIsHeld, PointerConstants
  <1> QED
    BY <1>3, <1>8, <1>9, <1>10, <1>11 DEF Pointer!ClickWhereTouched

\* A frame sends the place of the gesture, and time makes a gesture older.
LEMMA FramesAndTime ==
    ASSUME PointerInv, Pointer!TouchUpdate \/ Pointer!Tick
    PROVE  PointerInv'
  <1> USE DEF PointerInv
  <1>1. UNCHANGED <<touchMode, pointerMouseMode, down, tracked, primary, action, left, blind, abandoned>>
    BY Zenon DEF Pointer!TouchUpdate, Pointer!Tick, Pointer!configVars, Pointer!hostVars
  <1>2. CASE Pointer!TouchUpdate
    <2>1. aimed' \in BOOLEAN /\ (aimed' <=> aimed \/ gesture.origin)
      BY <1>2, Zenon DEF Pointer!TouchUpdate
    <2>2. gesture' = [gesture EXCEPT !.moved = TRUE] /\ gesture' \in Pointer!Gesture
      BY <1>2 DEF Pointer!TouchUpdate, Pointer!TypeOK, Pointer!Gesture
    <2>3. Pointer!TypeOK'
      BY <1>1, <2>1, <2>2 DEF Pointer!TypeOK
    <2>4. AimedInTime' /\ Pointer!DragIsHeld'
      BY <1>1, <2>1, <2>2 DEF Pointer!TypeOK, Pointer!Gesture, AimedInTime, Pointer!DragIsHeld
    <2> QED
      BY <1>1, <2>3, <2>4 DEF DragsInPlace, Pointer!PlaysMouse, Pointer!ClickWhereTouched
  <1>3. CASE Pointer!Tick
    <2>1. /\ aimed' = aimed
          /\ gesture' = [gesture EXCEPT !.age = IF gesture.age = "new" THEN "held" ELSE "long"]
          /\ gesture' \in Pointer!Gesture
      BY <1>3 DEF Pointer!Tick, Pointer!hostVars, Pointer!TypeOK, Pointer!Gesture
    <2>2. Pointer!TypeOK'
      BY <1>1, <2>1 DEF Pointer!TypeOK
    <2>3. AimedInTime'
      BY <1>1, <2>1 DEF Pointer!TypeOK, Pointer!Gesture, AimedInTime
    <2>4. Pointer!DragIsHeld'
      BY <1>1, <2>1 DEF Pointer!TypeOK, Pointer!Gesture, Pointer!DragIsHeld
    <2> QED
      BY <1>1, <2>2, <2>3, <2>4 DEF DragsInPlace, Pointer!PlaysMouse, Pointer!ClickWhereTouched
  <1> QED
    BY <1>2, <1>3

\* A finger that moves moves or aims, and makes its gesture one that cannot click.
LEMMA TouchMoves ==
    ASSUME PointerConstants, PointerInv, NEW f \in Fingers, NEW over \in BOOLEAN, NEW far \in BOOLEAN,
           Pointer!TouchMove(f, over, far)
    PROVE  PointerInv'
  <1> USE DEF PointerInv
  <1>1. /\ f \in down /\ tracked' = tracked \cup {f}
        /\ UNCHANGED <<touchMode, pointerMouseMode, down, primary, action>>
    BY DEF Pointer!TouchMove, Pointer!configVars
  <1>2. CASE Pointer!PlaysMouse /\ f = primary /\ Pointer!Drags(far)
    <2>1. Pointer!Drag(over) /\ touchMode = "pointAndDrag" /\ action = "default"
      BY <1>2 DEF Pointer!TouchMove, Pointer!Drags
    <2>2. /\ aimed' \in BOOLEAN /\ (gesture.origin => aimed')
          /\ abandoned' \in BOOLEAN /\ ~abandoned' /\ left' = "finger"
          /\ blind' \in BOOLEAN /\ ~blind'
      <3>1. /\ aimed' \in BOOLEAN /\ (gesture.origin => aimed')
            /\ abandoned' \in BOOLEAN /\ ~abandoned' /\ left' = "finger"
        BY <2>1, Zenon DEF Pointer!Drag
      <3>2. ~Pointer!Misses(over, aimed \/ gesture.origin \/ (~gesture.moved /\ over)) /\ ~blind
        BY DEF Pointer!Misses, Pointer!ClickWhereTouched
      <3>3. blind' = (blind \/ Pointer!Misses(over, aimed \/ gesture.origin \/ (~gesture.moved /\ over)))
        BY <2>1, Zenon DEF Pointer!Drag
      <3> QED
        BY <3>1, <3>2, <3>3, Zenon
    <2>3. /\ gesture' = [gesture EXCEPT !.over = over, !.far = TRUE, !.moved = TRUE, !.clicked = TRUE]
          /\ gesture' \in Pointer!Gesture
      BY <2>1 DEF Pointer!Drag, Pointer!TypeOK, Pointer!Gesture
    <2>4. Pointer!TypeOK'
      BY <1>1, <2>2, <2>3 DEF Pointer!TypeOK
    <2>5. AimedInTime' /\ Pointer!DragIsHeld'
      BY <1>1, <1>2, <2>1, <2>2, <2>3 DEF PointerConstants, Pointer!TypeOK, Pointer!Gesture,
         AimedInTime, Pointer!DragIsHeld
    <2> QED
      BY <1>1, <1>2, <2>1, <2>2, <2>4, <2>5 DEF DragsInPlace, Pointer!PlaysMouse,
         Pointer!ClickWhereTouched
  <1>3. CASE ~(Pointer!PlaysMouse /\ f = primary /\ Pointer!Drags(far))
    <2>1. UNCHANGED <<left, aimed, blind, abandoned>>
      BY <1>3, Zenon DEF Pointer!TouchMove, Pointer!hostVars
    <2>2. \/ gesture' = gesture
          \/ gesture' = [gesture EXCEPT !.over = over, !.far = far] /\ ~Pointer!Drags(far)
      BY <1>3, Zenon DEF Pointer!TouchMove
    <2>3. /\ gesture' \in Pointer!Gesture /\ gesture'.moved = gesture.moved
            /\ gesture'.clicked = gesture.clicked
          /\ gesture'.origin = gesture.origin /\ gesture'.age = gesture.age
          /\ gesture'.far => gesture.far \/ ~Pointer!Drags(TRUE)
      BY <2>2 DEF Pointer!TypeOK, Pointer!Gesture, Pointer!Drags
    <2>4. Pointer!TypeOK'
      BY <1>1, <2>1, <2>3 DEF Pointer!TypeOK
    <2>5. AimedInTime' /\ Pointer!DragIsHeld'
      BY <1>1, <2>1, <2>3 DEF AimedInTime, Pointer!DragIsHeld, Pointer!Drags
    <2> QED
      BY <1>1, <2>1, <2>4, <2>5 DEF DragsInPlace, Pointer!PlaysMouse, Pointer!ClickWhereTouched
  <1> QED
    BY <1>2, <1>3

\* The finger that goes up ends what it did: a drag lets go, a tap clicks where it aimed.
LEMMA TouchEnds ==
    ASSUME PointerConstants, PointerInv, NEW f \in Fingers, Pointer!TouchEnd(f)
    PROVE  PointerInv'
  <1> USE DEF PointerInv
  <1>1. /\ f \in down /\ down' = down \ {f} /\ tracked' = tracked \ {f}
        /\ UNCHANGED <<touchMode, pointerMouseMode, action>>
    BY DEF Pointer!TouchEnd, Pointer!configVars
  <1>2. CASE Pointer!PlaysMouse /\ f = primary
    <2>1. /\ primary' = NoFinger /\ gesture' = Pointer!NoGesture
          /\ left' = IF Pointer!Releases THEN "up" ELSE left
      BY <1>2 DEF Pointer!TouchEnd
    <2>2. /\ aimed' \in BOOLEAN /\ ~aimed'
          /\ abandoned' \in BOOLEAN /\ (abandoned' <=> abandoned /\ ~Pointer!Releases)
      BY <1>2, Zenon DEF Pointer!TouchEnd
    <2>3. ~((Pointer!Releases \/ (Pointer!Holds /\ gesture.moved))
            /\ Pointer!Misses(gesture.over, aimed \/ Pointer!TapAims))
      BY DEF Pointer!Releases, Pointer!Holds, Pointer!Taps, Pointer!Drops, Pointer!Misses,
         Pointer!TapAims,
             AimedInTime
    <2>4. blind' \in BOOLEAN /\ ~blind'
      <3>1. blind' = (blind \/ ((Pointer!Releases \/ (Pointer!Holds /\ gesture.moved))
                                 /\ Pointer!Misses(gesture.over, aimed \/ Pointer!TapAims)))
        BY <1>2, Zenon DEF Pointer!TouchEnd
      <3>2. ~blind
        BY DEF Pointer!ClickWhereTouched
      <3> QED
        BY <2>3, <3>1, <3>2, Zenon
    <2>5. left = "finger" /\ ~abandoned => Pointer!Releases
      BY DEF Pointer!DragIsHeld, DragsInPlace, Pointer!Releases, Pointer!Taps, Pointer!Drops
    <2>6. Pointer!TypeOK'
      BY <1>1, <2>1, <2>2, <2>4, NoGestureTyped DEF Pointer!TypeOK
    <2>7. AimedInTime'
      BY <2>1 DEF AimedInTime, Pointer!NoGesture
    <2>8. Pointer!DragIsHeld' /\ DragsInPlace'
      BY <1>1, <2>1, <2>2, <2>5 DEF Pointer!DragIsHeld, DragsInPlace
    <2> QED
      BY <2>4, <2>6, <2>7, <2>8 DEF Pointer!ClickWhereTouched
  <1>3. CASE ~(Pointer!PlaysMouse /\ f = primary)
    <2>1. UNCHANGED <<primary, gesture, left, aimed, blind, abandoned>>
      BY <1>3, Zenon DEF Pointer!TouchEnd, Pointer!hostVars
    <2>2. primary # f
      BY <1>3 DEF PointerConstants, DragsInPlace
    <2>3. Pointer!TypeOK'
      BY <1>1, <2>1, <2>2 DEF Pointer!TypeOK
    <2>4. AimedInTime'
      BY <1>1, <2>1 DEF AimedInTime
    <2>5. Pointer!DragIsHeld' /\ DragsInPlace'
      BY <1>1, <2>1 DEF Pointer!DragIsHeld, DragsInPlace, Pointer!PlaysMouse
    <2> QED
      BY <2>1, <2>3, <2>4, <2>5 DEF Pointer!ClickWhereTouched
  <1> QED
    BY <1>2, <1>3

\* Settings that change in the middle of a gesture, and the buttons of a real mouse.
LEMMA SettingsAndMouse ==
    ASSUME PointerInv,
           \/ \E touch \in {"touch", "mouseRelative", "pointAndDrag"}, mouse \in MouseModes :
                 Pointer!SetConfig(touch, mouse)
           \/ \E over \in BOOLEAN : Pointer!MouseDown(over)
           \/ Pointer!MouseUp
    PROVE  PointerInv'
  <1> USE DEF PointerInv
  <1>1. CASE \E touch \in {"touch", "mouseRelative", "pointAndDrag"}, mouse \in MouseModes :
                 Pointer!SetConfig(touch, mouse)
    <2>1. /\ touchMode' \in {"touch", "mouseRelative", "pointAndDrag"} /\ pointerMouseMode' \in MouseModes
          /\ primary' = NoFinger /\ tracked' = {} /\ gesture' = Pointer!NoGesture
          /\ UNCHANGED <<down, action, left, blind>>
      BY <1>1 DEF Pointer!SetConfig
    <2>2. /\ aimed' \in BOOLEAN
          /\ abandoned' \in BOOLEAN /\ (abandoned' <=> abandoned \/ left = "finger")
      BY <1>1, Zenon DEF Pointer!SetConfig
    <2>3. Pointer!TypeOK'
      BY <2>1, <2>2, NoGestureTyped DEF Pointer!TypeOK
    <2>4. AimedInTime'
      BY <2>1 DEF AimedInTime, Pointer!NoGesture
    <2> QED
      BY <2>1, <2>2, <2>3, <2>4 DEF Pointer!DragIsHeld, DragsInPlace, Pointer!ClickWhereTouched
  <1>2. CASE (\E over \in BOOLEAN : Pointer!MouseDown(over)) \/ Pointer!MouseUp
    <2>1. UNCHANGED <<touchMode, pointerMouseMode, down, tracked, primary, gesture, action, aimed, blind>>
      BY <1>2, Zenon DEF Pointer!MouseDown, Pointer!MouseUp, Pointer!configVars,
         Pointer!fingerVars
    <2>2. left' \in {"up", "mouse", left} /\ abandoned' \in BOOLEAN
      BY <1>2, Zenon DEF Pointer!MouseDown, Pointer!MouseUp
    <2>3. left' = "finger" => left = "finger" /\ (abandoned => abandoned')
      <3>1. CASE \E over \in BOOLEAN : Pointer!MouseDown(over)
        BY <3>1 DEF Pointer!MouseDown
      <3>2. CASE Pointer!MouseUp
        BY <3>2 DEF Pointer!MouseUp
      <3> QED
        BY <1>2, <3>1, <3>2
    <2>4. Pointer!TypeOK'
      BY <2>1, <2>2 DEF Pointer!TypeOK
    <2>5. AimedInTime'
      BY <2>1 DEF AimedInTime
    <2>6. Pointer!DragIsHeld' /\ DragsInPlace'
      BY <2>1, <2>3 DEF Pointer!DragIsHeld, DragsInPlace, Pointer!PlaysMouse
    <2> QED
      BY <2>1, <2>4, <2>5, <2>6 DEF Pointer!ClickWhereTouched
  <1> QED
    BY <1>1, <1>2

\* Every step keeps the pointers right.
LEMMA PointerKeeps ==
    ASSUME PointerConstants, PointerInv, Pointer!Next
    PROVE  PointerInv'
  BY TouchStarts, FramesAndTime, TouchMoves, TouchEnds, SettingsAndMouse DEF Pointer!Next

-------------------------------------------------------------------------------
(* The gamepads *)

\* A set of natural numbers has a least member.
LEMMA Least ==
    ASSUME NEW T \in SUBSET Nat, T # {}
    PROVE  \E x \in T : \A y \in T : x <= y
  <1>1. IsWellFoundedOn(OpToRel(<, Nat), Nat)
    BY NatLessThanWellFounded
  <1>2. \E x \in T : \A y \in T : ~(<<y, x>> \in OpToRel(<, Nat))
    BY <1>1, WFMin
  <1>3. ASSUME NEW x \in Nat, NEW y \in Nat, y < x
        PROVE  <<y, x>> \in OpToRel(<, Nat)
    BY <1>3, Zenon DEF OpToRel
  <1>4. ASSUME NEW x \in T, NEW y \in T, ~(<<y, x>> \in OpToRel(<, Nat))
        PROVE  x <= y
    <2>1. x \in Nat /\ y \in Nat
      OBVIOUS
    <2>2. ~(y < x)
      BY <1>3, <1>4, <2>1
    <2> QED
      BY <2>1, <2>2
  <1> QED
    BY <1>2, <1>4

\* The greatest number of a set up to n that has it is n.
LEMMA MaxIs ==
    ASSUME NEW n \in Nat, NEW s \in SUBSET (1..n), n \in s
    PROVE  Gamepad!Max(s) = n
  <1>1. n \in s /\ \A y \in s : n >= y
    OBVIOUS
  <1>2. \A x \in s : (\A y \in s : x >= y) => x = n
    OBVIOUS
  <1> QED
    BY <1>1, <1>2 DEF Gamepad!Max

\* One turn of the recursion FoldLeft is defined by.
Turn(g, base, seq, s) ==
    IF s = {} THEN base
    ELSE Gamepad!RegisterPresent(g[s \ {Gamepad!Max(s)}], seq[Gamepad!Max(s)])

Fits(g, base, seq, k) == g = [s \in SUBSET (1..k) |-> Turn(g, base, seq, s)]

\* A fold has a value for every prefix: there is none of least length without one.
LEMMA FoldExists ==
    ASSUME NEW n \in Nat, NEW seq, NEW base
    PROVE  \E g : Fits(g, base, seq, n)
  <1> DEFINE Bad == {k \in 0..n : ~\E g : Fits(g, base, seq, k)}
  <1>1. ASSUME Bad # {}
        PROVE  FALSE
    <2>0. Bad \in SUBSET Nat
      OBVIOUS
    <2>1. PICK m \in Bad : \A k \in Bad : m <= k
      BY <1>1, <2>0, Least, Zenon
    <2>2. m \in Nat /\ m <= n
      BY <2>1
    <2>3. CASE m = 0
      <3> DEFINE g == [s \in SUBSET (1..m) |-> base]
      <3>1. \A s \in SUBSET (1..m) : s = {}
        BY <2>3
      <3>2. \A s \in SUBSET (1..m) : Turn(g, base, seq, s) = base
        BY <3>1, Zenon DEF Turn
      <3>3. g = [s \in SUBSET (1..m) |-> Turn(g, base, seq, s)]
        BY <3>2, Zenon
      <3> QED
        BY <2>1, <3>3 DEF Fits
    <2>4. CASE m # 0
      <3>1. m - 1 \in 0..n /\ ~(m <= m - 1)
        BY <2>2, <2>4
      <3>2. PICK g : Fits(g, base, seq, m - 1)
        BY <2>1, <3>1
      <3> DEFINE h == [s \in SUBSET (1..m) |->
                         IF m \in s THEN Gamepad!RegisterPresent(g[s \ {m}], seq[m]) ELSE g[s]]
      <3>3. \A s \in SUBSET (1..m) : m \notin s => s \in SUBSET (1..(m - 1))
        BY <2>2
      <3>4. \A s \in SUBSET (1..(m - 1)) : s \in SUBSET (1..m) /\ m \notin s
        BY <2>2
      <3>5. \A s \in SUBSET (1..(m - 1)) : g[s] = Turn(g, base, seq, s) /\ h[s] = g[s]
        BY <3>2, <3>4, Zenon DEF Fits
      <3>6. ASSUME NEW s \in SUBSET (1..m)
            PROVE  h[s] = Turn(h, base, seq, s)
        <4>1. CASE m \in s
          <5>1. Gamepad!Max(s) = m
            BY <2>2, <4>1, MaxIs
          <5>2. s \ {m} \in SUBSET (1..(m - 1)) /\ s # {}
            BY <3>3, <4>1
          <5>3. h[s] = Gamepad!RegisterPresent(g[s \ {m}], seq[m])
            BY <4>1, Zenon
          <5> HIDE DEF h
          <5>4. h[s] = Gamepad!RegisterPresent(h[s \ {m}], seq[m])
            BY <3>5, <5>2, <5>3
          <5> QED
            BY <5>1, <5>2, <5>4 DEF Turn
        <4>2. CASE m \notin s
          <5>1. s \in SUBSET (1..(m - 1)) /\ s \ {Gamepad!Max(s)} \in SUBSET (1..(m - 1))
            BY <3>3, <4>2
          <5> HIDE DEF h
          <5>2. h[s] = Turn(g, base, seq, s) /\ h[s \ {Gamepad!Max(s)}] = g[s \ {Gamepad!Max(s)}]
            BY <3>5, <5>1
          <5> QED
            BY <5>2 DEF Turn
        <4> QED
          BY <4>1, <4>2
      <3>7. h = [s \in SUBSET (1..m) |-> h[s]]
        BY Zenon
      <3> HIDE DEF h
      <3>8. h = [s \in SUBSET (1..m) |-> Turn(h, base, seq, s)]
        BY <3>6, <3>7
      <3> QED
        BY <2>1, <3>8 DEF Fits
    <2> QED
      BY <2>3, <2>4
  <1>2. n \in 0..n
    OBVIOUS
  <1> QED
    BY <1>1, <1>2

\* What registerBufferedControllers makes of the pads one after the other.
LEMMA FoldSteps ==
    ASSUME NEW S, NEW seq \in Seq(S), NEW base
    PROVE  \E f : /\ f[0] = base
                  /\ \A k \in 1..Len(seq) :
                        f[k] = Gamepad!RegisterPresent(f[k - 1], seq[k])
                  /\ Gamepad!FoldLeft(Gamepad!RegisterPresent, base, seq) = f[Len(seq)]
  <1> DEFINE n == Len(seq)
             it == CHOOSE g : Fits(g, base, seq, n)
             f == [k \in 0..n |-> it[1..k]]
  <1>1. n \in Nat /\ DOMAIN seq = 1..n
    OBVIOUS
  <1>2. Gamepad!FoldLeft(Gamepad!RegisterPresent, base, seq) =
          (CHOOSE g : g = [s \in SUBSET DOMAIN seq |-> Turn(g, base, seq, s)])[DOMAIN seq]
    BY DEF Gamepad!FoldLeft, Gamepad!MapThenFoldSet, Turn
  <1>3. Gamepad!FoldLeft(Gamepad!RegisterPresent, base, seq) = it[1..n]
    BY <1>1, <1>2 DEF Fits
  <1> HIDE DEF n
  <1>4. \E g : Fits(g, base, seq, n)
    BY <1>1, FoldExists
  <1>5. it = [s \in SUBSET (1..n) |-> Turn(it, base, seq, s)]
    BY <1>4, Zenon DEF Fits
  <1> HIDE DEF it
  <1>6. \A s \in SUBSET (1..n) : it[s] = Turn(it, base, seq, s)
    BY <1>5
  <1>7. f[0] = base
    <2>1. 1..0 = {} /\ 0 \in 0..n /\ 1..0 \in SUBSET (1..n)
      BY <1>1
    <2>2. it[1..0] = base
      BY <1>6, <2>1 DEF Turn
    <2> QED
      BY <2>1, <2>2
  <1>8. ASSUME NEW k \in 1..n
        PROVE  f[k] = Gamepad!RegisterPresent(f[k - 1], seq[k])
    <2>1. /\ k \in Nat /\ k \in 0..n /\ k - 1 \in 0..n /\ k \in 1..k /\ 1..k # {}
          /\ 1..k \in SUBSET (1..n) /\ (1..k) \ {k} = 1..(k - 1)
      <3>1. k \in Nat /\ k \in 0..n /\ k - 1 \in 0..n /\ k \in 1..k
        BY <1>1
      <3>2. 1..k \subseteq 1..n
        BY <1>1, <3>1
      <3>3. (1..k) \ {k} = 1..(k - 1)
        BY <3>1
      <3> QED
        BY <3>1, <3>2, <3>3, Zenon
    <2>2. Gamepad!Max(1..k) = k
      BY <2>1, MaxIs
    <2>3. it[1..k] = Gamepad!RegisterPresent(it[1..(k - 1)], seq[k])
      BY <1>6, <2>1, <2>2 DEF Turn
    <2> QED
      BY <2>1, <2>3
  <1>9. f[n] = it[1..n]
    <2>1. n \in 0..n
      BY <1>1
    <2> QED
      BY <2>1
  <1> QED
    BY <1>3, <1>7, <1>8, <1>9 DEF n

\* Every pad has one place, and there are no more places than pads.
Seats == {s \in Seq(Pads \cup {Nobody}) :
            /\ \A i, j \in DOMAIN s : s[i] # Nobody /\ s[i] = s[j] => i = j
            /\ Len(s) <= Cardinality(Pads)}

Seated(s) == {s[i] : i \in DOMAIN s} \ {Nobody}

\* Only the pad in place 0 can rumble, as no other's rumble is ever reset.
Rumbles == {r \in [Pads -> {"unset", "still", "rumbling"}] :
              \A p \in Pads : p # 0 => r[p] = "unset"}

States == [slots : Seats, controllers : Seq(Gamepad!Message), rumble : Rumbles]

\* An input that is not connected has written down the pads it was told of.
WrittenDown ==
    ~connected =>
        /\ slots = <<>>
        /\ rumble = [p \in Pads |-> "unset"]
        /\ told = {buffered[i] : i \in DOMAIN buffered} \cap pads

\* Whoever rumbles or plays and was told of was asked to, or its interval was left running.
AskedFor ==
    \A p \in told :
        /\ rumble[p] = "rumbling" => p \in asked
        /\ p \in plays => p \in asked \cup old

GamepadInv ==
    /\ Gamepad!TypeOK
    /\ slots \in Seats /\ rumble \in Rumbles
    /\ connected => Seated(slots) = told
    /\ WrittenDown /\ AskedFor

\* The ids a gamepad can be told about are those of as many slots as there are pads.
LEMMA IdsAre == Gamepad!Ids = 0..(Cardinality(Pads) - 1)
  BY DEF Gamepad!Ids, Cardinality, Gamepad!Cardinality

\* The first empty slot is one.
LEMMA FirstEmpty ==
    ASSUME NEW s \in Seq(Pads \cup {Nobody}), Gamepad!FindPad(s, Nobody)
    PROVE  /\ Gamepad!SlotFor(s) \in 1..Len(s)
           /\ s[Gamepad!SlotFor(s)] = Nobody
  <1> DEFINE I == {i \in 1..Len(s) : s[i] = Nobody}
  <1>1. I # {} /\ I \in SUBSET Nat /\ I \in SUBSET (1..Len(s))
    BY DEF Gamepad!FindPad, Gamepad!Range
  <1>2. Gamepad!SlotFor(s) = Gamepad!Min(I)
    BY <1>1 DEF Gamepad!SlotFor, Gamepad!SelectInSeq
  <1>3. \E x \in I : \A y \in I : x <= y
    BY <1>1, Least, Zenon
  <1>4. Gamepad!Min(I) \in I
    BY <1>3, Zenon DEF Gamepad!Min
  <1> QED
    BY <1>1, <1>2, <1>4

\* There are n numbers from one to n.
LEMMA UpTo == ASSUME NEW n \in Nat PROVE Cardinality(1..n) = n
  BY FS_Interval

\* Who has no place gets one: an empty one, or a new one behind the others.
LEMMA Placed ==
    ASSUME GamepadConstants, NEW s \in Seats, NEW p \in Pads, ~Gamepad!FindPad(s, p)
    PROVE  LET k == Gamepad!SlotFor(s)
               t == [i \in 1..(IF k > Len(s) THEN Len(s) + 1 ELSE Len(s)) |->
                       IF i = k THEN p ELSE s[i]]
           IN  t \in Seats /\ Seated(t) = Seated(s) \cup {p} /\ Len(t) # 0
  <1> DEFINE k == Gamepad!SlotFor(s)
             n == Len(s)
             m == IF k > n THEN n + 1 ELSE n
             t == [i \in 1..m |-> IF i = k THEN p ELSE s[i]]
  <1>1. /\ s \in Seq(Pads \cup {Nobody}) /\ n \in Nat /\ DOMAIN s = 1..n
        /\ \A i, j \in 1..n : s[i] # Nobody /\ s[i] = s[j] => i = j
        /\ \A i \in 1..n : s[i] \in Pads \cup {Nobody} /\ s[i] # p
        /\ n <= Cardinality(Pads)
    BY DEF Seats, Gamepad!FindPad, Gamepad!Range
  <1>2. Nobody \notin Pads /\ IsFiniteSet(Pads) /\ Cardinality(Pads) \in Nat
    BY FS_CardinalityType DEF GamepadConstants
  <1>3. /\ k \in 1..m /\ m \in Nat /\ m <= Cardinality(Pads)
        /\ \A i \in 1..m : i # k => i \in 1..n
        /\ \A i \in 1..n : i \in 1..m /\ (i = k => s[i] = Nobody)
    <2>1. CASE Gamepad!FindPad(s, Nobody)
      <3>1. k \in 1..n /\ s[k] = Nobody
        BY <1>1, <2>1, FirstEmpty
      <3> HIDE DEF k, n
      <3>2. m = n
        BY <1>1, <3>1
      <3> QED
        BY <1>1, <3>1, <3>2
    <2>2. CASE ~Gamepad!FindPad(s, Nobody)
      <3>1. k = n + 1
        BY <2>2 DEF Gamepad!SlotFor
      <3>2. \A i \in 1..n : s[i] \in Pads \ {p}
        BY <1>1, <2>2 DEF Gamepad!FindPad, Gamepad!Range
      <3>3. s \in [1..n -> Pads \ {p}]
        BY <1>1, <3>2
      <3>4. s \in Injection(1..n, Pads \ {p})
        BY <1>1, <1>2, <3>2, <3>3 DEF Injection, IsInjective
      <3>5. /\ IsFiniteSet(Pads \ {p}) /\ Cardinality(Pads \ {p}) = Cardinality(Pads) - 1
        BY <1>2, FS_RemoveElement
      <3>6. Cardinality(1..n) <= Cardinality(Pads \ {p})
        BY <3>4, <3>5, FS_Injection
      <3>7. Cardinality(1..n) = n
        BY <1>1, UpTo
      <3> HIDE DEF k, n
      <3>8. m = n + 1
        BY <1>1, <3>1
      <3> QED
        BY <1>1, <1>2, <3>1, <3>5, <3>6, <3>7, <3>8
    <2> QED
      BY <2>1, <2>2
  <1> HIDE DEF k, n, m
  <1>4. \A i \in 1..m : t[i] = IF i = k THEN p ELSE s[i]
    OBVIOUS
  <1>5. t \in [1..m -> Pads \cup {Nobody}]
    BY <1>1, <1>3
  <1> HIDE DEF t
  <1>6. t \in Seq(Pads \cup {Nobody}) /\ Len(t) = m /\ DOMAIN t = 1..m
    BY <1>3, <1>5
  <1>7. \A i, j \in 1..m : t[i] # Nobody /\ t[i] = t[j] => i = j
    BY <1>1, <1>3, <1>4
  <1>8. t \in Seats
    BY <1>3, <1>6, <1>7 DEF Seats
  <1>9. Seated(t) = Seated(s) \cup {p}
    <2>1. \A x \in Seated(t) : x \in Seated(s) \cup {p}
      BY <1>1, <1>3, <1>4, <1>6 DEF Seated
    <2>2. ASSUME NEW x \in Seated(s) \cup {p}
          PROVE  x \in Seated(t)
      <3>1. CASE x = p
        BY <1>2, <1>3, <1>4, <1>6, <3>1 DEF Seated
      <3>2. CASE x # p
        <4>1. PICK i \in 1..n : x = s[i] /\ x # Nobody
          BY <1>1, <2>2, <3>2 DEF Seated
        <4>2. i \in 1..m /\ i # k
          BY <1>3, <4>1
        <4> QED
          BY <1>4, <1>6, <4>1, <4>2 DEF Seated
      <3> QED
        BY <3>1, <3>2
    <2> QED
      BY <2>1, <2>2
  <1>10. Len(t) # 0
    BY <1>3, <1>6
  <1> QED
    BY <1>8, <1>9, <1>10 DEF t, m, n, k

\* onGamepadConnect: the pad has one place and does not rumble.
LEMMA RegisterMakes ==
    ASSUME GamepadConstants, NEW s \in States, NEW p \in Pads
    PROVE  LET r == Gamepad!Register(s, p)
           IN  /\ r \in States
               /\ Seated(r.slots) = Seated(s.slots) \cup {p}
               /\ \A q \in Pads : r.rumble[q] = "rumbling" =>
                    /\ s.rumble[q] = "rumbling"
                    /\ q = p => p \in Seated(s.slots)
  <1> DEFINE r == Gamepad!Register(s, p)
  <1>1. s.slots \in Seats /\ s.controllers \in Seq(Gamepad!Message) /\ s.rumble \in Rumbles
    BY DEF States
  <1>2. Nobody \notin Pads
    BY DEF GamepadConstants
  <1>3. CASE Gamepad!FindPad(s.slots, p)
    <2>1. r = s
      BY <1>3 DEF Gamepad!Register
    <2>2. p \in Seated(s.slots)
      BY <1>2, <1>3 DEF Gamepad!FindPad, Gamepad!Range, Seated
    <2> QED
      BY <2>1, <2>2
  <1>4. CASE ~Gamepad!FindPad(s.slots, p)
    <2> DEFINE k == Gamepad!SlotFor(s.slots)
               t == [i \in 1..(IF k > Len(s.slots) THEN Len(s.slots) + 1 ELSE Len(s.slots)) |->
                       IF i = k THEN p ELSE s.slots[i]]
               m == [kind |-> "add", id |-> Len(t) - 1]
    <2>1. t \in Seats /\ Seated(t) = Seated(s.slots) \cup {p} /\ Len(t) # 0
      BY <1>1, <1>4, Placed
    <2>2. r = [slots |-> t, controllers |-> Append(s.controllers, m),
               rumble |-> Gamepad!ResetRumble(s.rumble)]
      BY <1>4 DEF Gamepad!Register
    <2> HIDE DEF t
    <2>3. Len(t) \in Nat /\ Len(t) <= Cardinality(Pads)
      BY <2>1 DEF Seats
    <2>4. Cardinality(Pads) \in Nat
      BY FS_CardinalityType DEF GamepadConstants
    <2>5. Len(t) - 1 \in Gamepad!Ids
      BY <2>1, <2>3, <2>4, IdsAre
    <2>6. m \in Gamepad!Message
      BY <2>5 DEF Gamepad!Message
    <2> HIDE DEF m
    <2>7. Append(s.controllers, m) \in Seq(Gamepad!Message)
      BY <1>1, <2>6
    <2>8. /\ Gamepad!ResetRumble(s.rumble) \in Rumbles
          /\ \A q \in Pads : Gamepad!ResetRumble(s.rumble)[q] = "rumbling" =>
                q # 0 /\ s.rumble[q] = "rumbling"
      BY <1>1 DEF Gamepad!ResetRumble, Rumbles
    <2>9. \A q \in Pads : Gamepad!ResetRumble(s.rumble)[q] # "rumbling"
      BY <1>1, <2>8 DEF Rumbles
    <2> QED
      BY <2>1, <2>2, <2>7, <2>8, <2>9 DEF States
  <1> QED
    BY <1>3, <1>4

\* registerBufferedControllers: whoever was written down and is there has one place.
LEMMA PresentRegistered ==
    ASSUME GamepadConstants, NEW seq \in Seq(Pads), NEW s \in States,
           Seated(s.slots) = {}, \A q \in Pads : s.rumble[q] # "rumbling"
    PROVE  LET r == Gamepad!FoldLeft(Gamepad!RegisterPresent, s, seq)
           IN  /\ r \in States
               /\ Seated(r.slots) = {seq[i] : i \in DOMAIN seq} \cap pads
               /\ \A q \in Pads : r.rumble[q] # "rumbling"
  <1> DEFINE n == Len(seq)
  <1>1. n \in Nat /\ DOMAIN seq = 1..n /\ \A i \in 1..n : seq[i] \in Pads
    OBVIOUS
  <1>2. PICK f :
            /\ f[0] = s
            /\ \A k \in 1..n : f[k] = Gamepad!RegisterPresent(f[k - 1], seq[k])
            /\ Gamepad!FoldLeft(Gamepad!RegisterPresent, s, seq) = f[n]
    BY FoldSteps, Zenon
  <1> HIDE DEF n
  <1> DEFINE Right(k) == /\ f[k] \in States
                         /\ Seated(f[k].slots) = {seq[i] : i \in 1..k} \cap pads
                         /\ \A q \in Pads : f[k].rumble[q] # "rumbling"
             Bad == {k \in 0..n : ~Right(k)}
  <1>3. ASSUME Bad # {}
        PROVE  FALSE
    <2>0. Bad \in SUBSET Nat
      <3> HIDE DEF Right
      <3> QED
        BY <1>1
    <2>1. PICK m \in Bad : \A k \in Bad : m <= k
      BY <1>3, <2>0, Least, Zenon
    <2>2. m \in 0..n /\ ~Right(m)
      BY <2>1, Zenon
    <2>3. Right(0)
      <3>1. {seq[i] : i \in 1..0} = {}
        OBVIOUS
      <3> QED
        BY <1>2, <3>1
    <2>4. m # 0
      BY <2>2, <2>3, Zenon
    <2>5. m - 1 \in 0..n /\ ~(m <= m - 1) /\ m \in 1..n
      BY <1>1, <2>2, <2>4
    <2>6. Right(m - 1)
      BY <2>1, <2>5, Zenon
    <2>7. f[m] = Gamepad!RegisterPresent(f[m - 1], seq[m]) /\ seq[m] \in Pads
      BY <1>1, <1>2, <2>5
    <2>8. {seq[i] : i \in 1..m} = {seq[i] : i \in 1..(m - 1)} \cup {seq[m]}
      BY <1>1, <2>5
    <2>9. CASE seq[m] \in pads
      <3>1. f[m] = Gamepad!Register(f[m - 1], seq[m])
        BY <2>7, <2>9 DEF Gamepad!RegisterPresent
      <3> DEFINE g == f[m - 1]
      <3>2. /\ g \in States /\ Seated(g.slots) = {seq[i] : i \in 1..(m - 1)} \cap pads
            /\ \A q \in Pads : g.rumble[q] # "rumbling"
        BY <2>6, Zenon
      <3> HIDE DEF g
      <3>3. /\ f[m] \in States /\ Seated(f[m].slots) = Seated(g.slots) \cup {seq[m]}
            /\ \A q \in Pads : f[m].rumble[q] # "rumbling"
        <4>1. f[m] = Gamepad!Register(g, seq[m])
          BY <3>1 DEF g
        <4>2. LET r == Gamepad!Register(g, seq[m])
              IN  /\ r \in States
                  /\ Seated(r.slots) = Seated(g.slots) \cup {seq[m]}
                  /\ \A q \in Pads : r.rumble[q] = "rumbling" =>
                       /\ g.rumble[q] = "rumbling"
                       /\ q = seq[m] => seq[m] \in Seated(g.slots)
          BY <2>7, <3>2, RegisterMakes, Zenon
        <4> QED
          BY <3>2, <4>1, <4>2, Zenon
      <3>4. Right(m)
        BY <2>8, <2>9, <3>2, <3>3
      <3> QED
        BY <2>2, <3>4, Zenon
    <2>10. CASE seq[m] \notin pads
      <3>1. f[m] = f[m - 1]
        BY <2>7, <2>10 DEF Gamepad!RegisterPresent
      <3>2. {seq[i] : i \in 1..m} \cap pads = {seq[i] : i \in 1..(m - 1)} \cap pads
        BY <2>8, <2>10, Zenon
      <3>3. Right(m)
        BY <2>6, <3>1, <3>2, Zenon
      <3> QED
        BY <2>2, <3>3, Zenon
    <2> QED
      BY <2>9, <2>10
  <1>4. Right(n)
    <2>1. n \in 0..n
      BY <1>1
    <2> QED
      BY <1>3, <2>1, Zenon
  <1> QED
    BY <1>1, <1>2, <1>4

\* SetToSeq of the gamepads: every pad is written down.
LEMMA PadsListed ==
    ASSUME NEW S, IsFiniteSet(S)
    PROVE  /\ Gamepad!SetToSeq(S) \in Seq(S)
           /\ {Gamepad!SetToSeq(S)[i] : i \in DOMAIN Gamepad!SetToSeq(S)} = S
  <1> DEFINE n == Cardinality(S)
             s == Gamepad!SetToSeq(S)
  <1>1. n \in Nat /\ ExistsBijection(1..n, S)
    BY FS_CardinalityType
  <1>2. \E f \in [1..n -> S] : Gamepad!IsInjective(f)
    BY <1>1 DEF ExistsBijection, Bijection, Injection, IsInjective, Gamepad!IsInjective
  <1>3. Gamepad!Cardinality(S) = n
    BY DEF Cardinality, Gamepad!Cardinality
  <1>4. s \in [1..n -> S] /\ Gamepad!IsInjective(s)
    BY <1>2, <1>3 DEF Gamepad!SetToSeq
  <1>5. s \in Injection(1..n, S)
    BY <1>4 DEF Injection, IsInjective, Gamepad!IsInjective
  <1>6. Cardinality(1..n) = n
    BY <1>1, UpTo
  <1>7. s \in Surjection(1..n, S)
    BY <1>5, <1>6, FS_Injection
  <1> HIDE DEF s, n
  <1>8. s \in Seq(S) /\ DOMAIN s = 1..n
    BY <1>1, <1>4
  <1>9. {s[i] : i \in DOMAIN s} = S
    BY <1>4, <1>7, <1>8 DEF Surjection
  <1> QED
    BY <1>8, <1>9 DEF s

\* At the start of a stream nobody has a slot.
LEMMA NoSeats ==
    ASSUME GamepadConstants
    PROVE  <<>> \in Seats /\ Seated(<<>>) = {}
  <1>1. Cardinality(Pads) \in Nat
    BY FS_CardinalityType DEF GamepadConstants
  <1>2. <<>> \in Seq(Pads \cup {Nobody}) /\ Len(<<>>) = 0 /\ DOMAIN <<>> = {}
    OBVIOUS
  <1> QED
    BY <1>1, <1>2 DEF Seats, Seated

\* The pads that are there before the stream wait for it, each of them once.
LEMMA GamepadInit ==
    ASSUME GamepadConstants, Gamepad!Init
    PROVE  GamepadInv
  <1>1. /\ pads \in SUBSET Pads /\ buffered = Gamepad!SetToSeq(pads) /\ told = pads
        /\ old = {} /\ plays = {} /\ connected \in BOOLEAN /\ ~connected
        /\ slots = <<>> /\ rumble = [p \in Pads |-> "unset"] /\ controllers = <<>>
        /\ state = [i \in Gamepad!Ids |-> Nobody] /\ active = {} /\ asked = {}
    BY Zenon DEF Gamepad!Init, Gamepad!NewInput
  <1>2. buffered \in Seq(pads) /\ {buffered[i] : i \in DOMAIN buffered} = pads
    BY <1>1, PadsListed, FS_Subset DEF GamepadConstants
  <1>3. buffered \in Seq(Pads)
    BY <1>1, <1>2
  <1>4. slots \in Seats /\ rumble \in Rumbles
    BY <1>1, NoSeats DEF Rumbles
  <1>5. Gamepad!TypeOK
    BY <1>1, <1>3 DEF Gamepad!TypeOK
  <1>6. WrittenDown
    BY <1>1, <1>2 DEF WrittenDown
  <1>7. AskedFor
    BY <1>1 DEF AskedFor
  <1> QED
    BY <1>1, <1>4, <1>5, <1>6, <1>7 DEF GamepadInv

\* A pad that comes during the stream takes a slot, and one that comes before waits.
LEMMA ConnectKeeps ==
    ASSUME GamepadConstants, GamepadInv, NEW p \in Pads, Gamepad!Connect(p)
    PROVE  GamepadInv'
  <1> USE DEF GamepadInv
  <1>1. /\ p \notin pads /\ pads' = pads \cup {p} /\ told' = told \cup {p}
        /\ UNCHANGED <<connected, state, active, asked, old, plays>>
    BY DEF Gamepad!Connect
  <1>2. p \notin told /\ p \notin plays
    BY <1>1 DEF Gamepad!TypeOK
  <1>3. CASE connected
    <2> DEFINE s == Gamepad!Input
               r == Gamepad!Register(s, p)
    <2>1. /\ slots' = r.slots /\ controllers' = r.controllers /\ rumble' = r.rumble
          /\ buffered' = buffered
      BY <1>3 DEF Gamepad!Connect, Gamepad!Becomes
    <2>2. s \in States /\ s.slots = slots /\ s.rumble = rumble
      BY DEF Gamepad!Input, States, Gamepad!TypeOK
    <2> HIDE DEF s
    <2>3. LET q == Gamepad!Register(s, p)
          IN  /\ q \in States
              /\ Seated(q.slots) = Seated(s.slots) \cup {p}
              /\ \A x \in Pads : q.rumble[x] = "rumbling" =>
                    /\ s.rumble[x] = "rumbling"
                    /\ x = p => p \in Seated(s.slots)
      BY <2>2, RegisterMakes, Zenon
    <2>4. /\ r \in States /\ Seated(r.slots) = Seated(slots) \cup {p}
          /\ \A x \in Pads : r.rumble[x] = "rumbling" =>
                rumble[x] = "rumbling" /\ (x = p => p \in Seated(slots))
      BY <2>2, <2>3, Zenon
    <2> HIDE DEF r
    <2>5. slots' \in Seats /\ rumble' \in Rumbles /\ controllers' \in Seq(Gamepad!Message)
      BY <2>1, <2>4 DEF States
    <2>6. Gamepad!TypeOK'
      BY <1>1, <2>1, <2>5 DEF Gamepad!TypeOK, Seats, Rumbles
    <2>7. Seated(slots') = told'
      BY <1>1, <1>3, <2>1, <2>4
    <2>8. WrittenDown'
      BY <1>1, <1>3 DEF WrittenDown
    <2>9. \A x \in told' : rumble'[x] = "rumbling" => x \in asked'
      BY <1>1, <1>2, <1>3, <2>1, <2>4 DEF AskedFor, Gamepad!TypeOK
    <2>10. AskedFor'
      BY <1>1, <1>2, <2>9 DEF AskedFor
    <2> QED
      BY <2>5, <2>6, <2>7, <2>8, <2>10, <1>1, <1>3
  <1>4. CASE ~connected
    <2>1. buffered' = Append(buffered, p) /\ UNCHANGED <<slots, controllers, rumble>>
      BY <1>4 DEF Gamepad!Connect
    <2>2. buffered \in Seq(Pads)
      BY DEF Gamepad!TypeOK
    <2>3. /\ buffered' \in Seq(Pads)
          /\ {buffered'[i] : i \in DOMAIN buffered'} =
               {buffered[i] : i \in DOMAIN buffered} \cup {p}
      BY <2>1, <2>2
    <2>4. Gamepad!TypeOK'
      BY <1>1, <2>1, <2>3 DEF Gamepad!TypeOK
    <2>5. WrittenDown'
      <3>1. told = {buffered[i] : i \in DOMAIN buffered} \cap pads
        BY <1>4 DEF WrittenDown
      <3>2. told' = {buffered'[i] : i \in DOMAIN buffered'} \cap pads'
        <4> DEFINE B == {buffered[i] : i \in DOMAIN buffered}
                   B1 == {buffered'[i] : i \in DOMAIN buffered'}
        <4>1. told' = (B \cap pads) \cup {p} /\ B1 = B \cup {p} /\ pads' = pads \cup {p}
          BY <1>1, <2>3, <3>1
        <4> HIDE DEF B, B1
        <4>2. told' = B1 \cap pads'
          BY <4>1
        <4> QED
          BY <4>2 DEF B1
      <3> QED
        BY <1>1, <1>4, <2>1, <3>2 DEF WrittenDown
    <2>6. AskedFor'
      <3>1. \A x \in told' : rumble'[x] # "rumbling"
        BY <1>1, <1>4, <2>1 DEF WrittenDown, Gamepad!TypeOK
      <3> QED
        BY <1>1, <1>2, <3>1 DEF AskedFor
    <2> QED
      BY <1>1, <1>4, <2>1, <2>4, <2>5, <2>6
  <1> QED
    BY <1>3, <1>4

\* A pad that goes leaves its slot empty, and no rumble in it.
LEMMA DisconnectKeeps ==
    ASSUME GamepadConstants, GamepadInv, NEW p \in Pads, Gamepad!Disconnect(p)
    PROVE  GamepadInv'
  <1> USE DEF GamepadInv
  <1>1. /\ p \in pads /\ pads' = pads \ {p} /\ told' = told \ {p}
        /\ asked' = asked \ {p} /\ plays' = plays \ {p}
        /\ UNCHANGED <<connected, buffered, rumble, state, active, old>>
    BY DEF Gamepad!Disconnect
  <1>2. Nobody \notin Pads /\ slots \in Seq(Pads \cup {Nobody})
    BY DEF GamepadConstants, Seats
  <1>3. /\ slots' \in Seats /\ Seated(slots') = Seated(slots) \ {p}
        /\ slots = <<>> => slots' = <<>>
        /\ controllers' \in Seq(Gamepad!Message)
    <2>1. CASE Gamepad!FindPad(slots, p)
      <3>1. /\ slots' = [i \in DOMAIN slots |-> IF slots[i] = p THEN Nobody ELSE slots[i]]
            /\ controllers' = Append(controllers, [kind |-> "remove", id |-> p])
        BY <2>1 DEF Gamepad!Disconnect
      <3>2. [kind |-> "remove", id |-> p] \in Gamepad!Message
        BY DEF Gamepad!Message
      <3>3. controllers' \in Seq(Gamepad!Message)
        BY <3>1, <3>2 DEF Gamepad!TypeOK
      <3>4. /\ Len(slots) \in Nat /\ DOMAIN slots = 1..Len(slots)
            /\ slots' \in [1..Len(slots) -> Pads \cup {Nobody}]
        BY <1>2, <3>1
      <3>5. /\ slots' \in Seq(Pads \cup {Nobody}) /\ Len(slots') = Len(slots)
            /\ DOMAIN slots' = DOMAIN slots
        BY <3>4
      <3>6. \A i \in DOMAIN slots : slots'[i] = IF slots[i] = p THEN Nobody ELSE slots[i]
        BY <3>1
      <3>7. slots' \in Seats
        BY <3>5, <3>6 DEF Seats
      <3>8. Seated(slots') = Seated(slots) \ {p}
        BY <1>2, <3>5, <3>6 DEF Seated
      <3>9. slots = <<>> => slots' = <<>>
        BY <2>1 DEF Gamepad!FindPad, Gamepad!Range
      <3> QED
        BY <3>3, <3>7, <3>8, <3>9
    <2>2. CASE ~Gamepad!FindPad(slots, p)
      <3>1. UNCHANGED <<slots, controllers>>
        BY <2>2 DEF Gamepad!Disconnect
      <3>2. p \notin Seated(slots)
        BY <2>2 DEF Gamepad!FindPad, Gamepad!Range, Seated
      <3> QED
        BY <3>1, <3>2 DEF Gamepad!TypeOK
    <2> QED
      BY <2>1, <2>2
  <1>4. Gamepad!TypeOK'
    BY <1>1, <1>3 DEF Gamepad!TypeOK, Seats
  <1>5. WrittenDown'
    <2> DEFINE B == {buffered[i] : i \in DOMAIN buffered}
    <2>1. {buffered'[i] : i \in DOMAIN buffered'} = B
      BY <1>1
    <2>2. ~connected => told = B \cap pads
      BY DEF WrittenDown
    <2> HIDE DEF B
    <2>3. ~connected => told' = B \cap pads'
      BY <1>1, <2>2
    <2> QED
      BY <1>1, <1>3, <2>1, <2>3 DEF WrittenDown
  <1>6. AskedFor'
    BY <1>1 DEF AskedFor
  <1> QED
    BY <1>1, <1>3, <1>4, <1>5, <1>6

\* The stream starts with the pads that are still there of those that waited.
LEMMA StreamStartKeeps ==
    ASSUME GamepadConstants, GamepadInv, Gamepad!StreamStart
    PROVE  GamepadInv'
  <1> USE DEF GamepadInv
  <1> DEFINE s == Gamepad!Input
             r == Gamepad!FoldLeft(Gamepad!RegisterPresent, s, buffered)
  <1>1. /\ ~connected /\ connected' \in BOOLEAN /\ connected' /\ buffered' = <<>>
        /\ UNCHANGED <<pads, state, active, told, asked, old, plays>>
    BY Zenon DEF Gamepad!StreamStart
  <1>2. slots' = r.slots /\ controllers' = r.controllers /\ rumble' = r.rumble
    BY DEF Gamepad!StreamStart, Gamepad!Becomes
  <1>3. s \in States /\ s.slots = slots /\ s.rumble = rumble
    BY DEF Gamepad!Input, States, Gamepad!TypeOK
  <1>4. slots = <<>> /\ \A q \in Pads : rumble[q] # "rumbling"
    BY <1>1 DEF WrittenDown
  <1>5. Seated(s.slots) = {}
    BY <1>3, <1>4, NoSeats
  <1>6. buffered \in Seq(Pads)
    BY DEF Gamepad!TypeOK
  <1> HIDE DEF s
  <1>7. LET x == Gamepad!FoldLeft(Gamepad!RegisterPresent, s, buffered)
        IN  /\ x \in States
            /\ Seated(x.slots) = {buffered[i] : i \in DOMAIN buffered} \cap pads
            /\ \A q \in Pads : x.rumble[q] # "rumbling"
    BY <1>3, <1>4, <1>5, <1>6, PresentRegistered
  <1>8. /\ r \in States
        /\ Seated(r.slots) = {buffered[i] : i \in DOMAIN buffered} \cap pads
        /\ \A q \in Pads : r.rumble[q] # "rumbling"
    BY <1>7, Zenon
  <1> HIDE DEF r
  <1>9. slots' \in Seats /\ rumble' \in Rumbles /\ controllers' \in Seq(Gamepad!Message)
    BY <1>2, <1>8 DEF States
  <1>10. Gamepad!TypeOK'
    BY <1>1, <1>9 DEF Gamepad!TypeOK, Seats, Rumbles
  <1>11. Seated(slots') = told'
    BY <1>1, <1>2, <1>8 DEF WrittenDown
  <1>12. AskedFor'
    BY <1>1, <1>2, <1>8 DEF AskedFor, Gamepad!TypeOK
  <1>13. WrittenDown'
    BY <1>1 DEF WrittenDown
  <1> QED
    BY <1>9, <1>10, <1>11, <1>12, <1>13

\* A new stream knows no pad and has no message on its way.
LEMMA NewInputKeeps ==
    ASSUME GamepadConstants, GamepadInv, Gamepad!NewStream
    PROVE  GamepadInv'
  <1> USE DEF GamepadInv
  <1>1. /\ connected /\ connected' \in BOOLEAN /\ ~connected'
        /\ buffered' = <<>> /\ slots' = <<>> /\ controllers' = <<>>
        /\ rumble' = [p \in Pads |-> "unset"]
        /\ state' = [i \in Gamepad!Ids |-> Nobody]
        /\ active' = {} /\ told' = {} /\ asked' = {}
        /\ old' = old \cup {p \in Gamepad!Range(slots) \ {Nobody} : rumble[p] = "rumbling"}
        /\ UNCHANGED <<pads, plays>>
    BY Zenon DEF Gamepad!NewStream
  <1>2. Gamepad!Range(slots) \ {Nobody} \subseteq Pads
    BY DEF Gamepad!Range, Gamepad!TypeOK
  <1>3. slots' \in Seats /\ rumble' \in Rumbles
    BY <1>1, NoSeats DEF Rumbles
  <1>4. old' \subseteq Pads
    BY <1>1, <1>2 DEF Gamepad!TypeOK
  <1>5. Gamepad!TypeOK'
    BY <1>1, <1>4 DEF Gamepad!TypeOK
  <1>6. WrittenDown'
    BY <1>1 DEF WrittenDown
  <1>7. AskedFor'
    BY <1>1 DEF AskedFor
  <1> QED
    BY <1>1, <1>3, <1>5, <1>6, <1>7

\* Messages and states of gamepads on their way.
LEMMA WayKeeps ==
    ASSUME GamepadConstants, GamepadInv,
           \/ Gamepad!Update \/ Gamepad!TakeMessage \/ \E id \in Gamepad!Ids : Gamepad!TakeState(id)
    PROVE  GamepadInv'
  <1> USE DEF GamepadInv
  <1>1. /\ UNCHANGED <<pads, connected, buffered, slots, rumble, told, asked, old, plays>>
        /\ controllers' \in Seq(Gamepad!Message)
        /\ state' \in [Gamepad!Ids -> Pads \cup {Nobody}]
        /\ active' \subseteq Gamepad!Ids \cup Pads
    <2>1. CASE Gamepad!Update
      <3>1. \A id \in Gamepad!Ids : state[id] \in Pads \cup {Nobody}
        BY DEF Gamepad!TypeOK
      <3>2. \A i \in DOMAIN slots : slots[i] \in Pads \cup {Nobody}
        BY DEF Gamepad!TypeOK
      <3> DEFINE reached == {i \in DOMAIN slots : \A j \in 1..i : slots[j] # Nobody}
      <3>3. state' = [id \in Gamepad!Ids |->
                        IF id + 1 \in reached /\ slots[id + 1] \in Mapped
                        THEN Gamepad!SendController(state[id], slots[id + 1]) ELSE state[id]]
        BY <2>1 DEF Gamepad!Update
      <3>4. \A id \in Gamepad!Ids : id + 1 \in reached => slots[id + 1] \in Pads \cup {Nobody}
        BY <3>2
      <3> HIDE DEF reached
      <3>5. state' \in [Gamepad!Ids -> Pads \cup {Nobody}]
        BY <3>1, <3>3, <3>4 DEF Gamepad!SendController
      <3> QED
        BY <2>1, <3>5 DEF Gamepad!Update, Gamepad!pageVars, Gamepad!TypeOK
    <2>2. CASE Gamepad!TakeMessage
      <3>1. Head(controllers) \in Gamepad!Message /\ Tail(controllers) \in Seq(Gamepad!Message)
        BY <2>2 DEF Gamepad!TakeMessage, Gamepad!TypeOK
      <3>2. Head(controllers).id \in Gamepad!Ids \cup Pads
        BY <3>1 DEF Gamepad!Message
      <3> QED
        BY <2>2, <3>1, <3>2 DEF Gamepad!TakeMessage, Gamepad!pageVars, Gamepad!TypeOK
    <2>3. ASSUME NEW id \in Gamepad!Ids, Gamepad!TakeState(id)
          PROVE  /\ UNCHANGED <<pads, connected, buffered, slots, rumble, told, asked, old, plays>>
                 /\ controllers' \in Seq(Gamepad!Message)
                 /\ state' \in [Gamepad!Ids -> Pads \cup {Nobody}]
                 /\ active' \subseteq Gamepad!Ids \cup Pads
      BY <2>3 DEF Gamepad!TakeState, Gamepad!pageVars, Gamepad!TypeOK
    <2> QED
      BY <2>1, <2>2, <2>3
  <1>2. Gamepad!TypeOK'
    BY <1>1 DEF Gamepad!TypeOK
  <1>3. WrittenDown' /\ AskedFor'
    BY <1>1 DEF WrittenDown, AskedFor
  <1> QED
    BY <1>1, <1>2, <1>3

\* Rumble and effects.
LEMMA RumbleKeeps ==
    ASSUME GamepadConstants, GamepadInv,
           \/ \E id \in Gamepad!Ids : Gamepad!Rumble(id) \/ Gamepad!RumbleEnds(id)
           \/ Gamepad!RumbleInterval
           \/ \E p \in Pads : Gamepad!EffectEnds(p)
    PROVE  GamepadInv'
  <1> USE DEF GamepadInv
  <1>0. connected \in BOOLEAN /\ told \subseteq pads /\ pads \subseteq Pads
    BY DEF Gamepad!TypeOK
  <1>1. \A i \in Gamepad!Occupied : slots[i] \in Seated(slots)
    BY DEF Gamepad!Occupied, Seated
  <1>2. Gamepad!Occupied # {} => connected
    BY <1>0 DEF Gamepad!Occupied, WrittenDown
  <1>3. \A i \in Gamepad!Occupied : connected /\ slots[i] \in told
    BY <1>1, <1>2
  <1>4. ASSUME NEW id \in Gamepad!Ids, Gamepad!Rumble(id)
        PROVE  GamepadInv'
    <2> DEFINE p == slots[id + 1]
    <2>1. /\ id + 1 \in Gamepad!Occupied /\ rumble[p] # "unset"
          /\ rumble' = [rumble EXCEPT ![p] = "rumbling"] /\ asked' = asked \cup {p}
          /\ UNCHANGED <<pads, connected, buffered, slots, told, old, plays, controllers, state,
                         active>>
      BY <1>4 DEF Gamepad!Rumble, Gamepad!streamerVars
    <2>2. p \in told /\ p \in pads /\ p \in Pads /\ connected
      BY <1>0, <1>3, <2>1
    <2> HIDE DEF p
    <2>3. rumble' \in Rumbles
      BY <2>1, <2>2 DEF Rumbles
    <2>4. Gamepad!TypeOK'
      BY <2>1, <2>2, <2>3 DEF Gamepad!TypeOK, Rumbles
    <2>5. WrittenDown'
      BY <2>1, <2>2 DEF WrittenDown
    <2>6. AskedFor'
      BY <2>1, <2>2, <1>0 DEF AskedFor, Rumbles
    <2> QED
      BY <2>1, <2>3, <2>4, <2>5, <2>6
  <1>5. ASSUME NEW id \in Gamepad!Ids, Gamepad!RumbleEnds(id)
        PROVE  GamepadInv'
    <2> DEFINE p == slots[id + 1]
    <2>1. /\ id + 1 \in Gamepad!Occupied /\ rumble[p] = "rumbling"
          /\ rumble' = [rumble EXCEPT ![p] = "still"]
          /\ UNCHANGED <<pads, connected, buffered, slots, told, asked, old, plays, controllers,
                         state, active>>
      BY <1>5 DEF Gamepad!RumbleEnds, Gamepad!streamerVars
    <2>2. p \in told /\ p \in pads /\ p \in Pads /\ connected
      BY <1>0, <1>3, <2>1
    <2> HIDE DEF p
    <2>3. rumble' \in Rumbles
      BY <2>1, <2>2 DEF Rumbles
    <2>4. Gamepad!TypeOK'
      BY <2>1, <2>2, <2>3 DEF Gamepad!TypeOK, Rumbles
    <2>5. WrittenDown'
      BY <2>1, <2>2 DEF WrittenDown
    <2>6. AskedFor'
      BY <2>1, <2>2, <1>0 DEF AskedFor, Rumbles
    <2> QED
      BY <2>1, <2>3, <2>4, <2>5, <2>6
  <1>6. CASE Gamepad!RumbleInterval
    <2>1. UNCHANGED <<pads, connected, buffered, slots, rumble, told, asked, old, controllers,
                      state, active>>
      BY <1>6 DEF Gamepad!RumbleInterval, Gamepad!streamerVars
    <2>2. \/ \E i \in Gamepad!Occupied :
                slots[i] \in pads /\ plays' = Gamepad!RefreshGamepadRumble(slots[i])
          \/ \E p \in old \cap pads : plays' = plays \cup {p}
      BY <1>6 DEF Gamepad!RumbleInterval
    <2>3. /\ plays' \subseteq pads
          /\ \A q \in told : q \in plays' => q \in plays \/ q \in asked \cup old
      <3>1. CASE \E p \in old \cap pads : plays' = plays \cup {p}
        BY <3>1 DEF Gamepad!TypeOK
      <3>2. ASSUME NEW i \in Gamepad!Occupied, slots[i] \in pads,
                   plays' = Gamepad!RefreshGamepadRumble(slots[i])
            PROVE  /\ plays' \subseteq pads
                   /\ \A q \in told : q \in plays' => q \in plays \/ q \in asked \cup old
        BY <3>2, <1>3 DEF Gamepad!RefreshGamepadRumble, Gamepad!TypeOK, AskedFor
      <3> QED
        BY <2>2, <3>1, <3>2
    <2>4. Gamepad!TypeOK'
      BY <2>1, <2>3 DEF Gamepad!TypeOK
    <2>5. WrittenDown' /\ AskedFor'
      BY <2>1, <2>3 DEF WrittenDown, AskedFor
    <2> QED
      BY <2>1, <2>4, <2>5
  <1>7. ASSUME NEW p \in Pads, Gamepad!EffectEnds(p)
        PROVE  GamepadInv'
    <2>1. /\ UNCHANGED <<pads, connected, buffered, slots, rumble, told, asked, old, controllers,
                         state, active>>
          /\ plays' = plays \ {p}
      BY <1>7 DEF Gamepad!EffectEnds, Gamepad!streamerVars
    <2>2. Gamepad!TypeOK'
      BY <2>1 DEF Gamepad!TypeOK
    <2>3. WrittenDown' /\ AskedFor'
      BY <2>1 DEF WrittenDown, AskedFor
    <2> QED
      BY <2>1, <2>2, <2>3
  <1> QED
    BY <1>4, <1>5, <1>6, <1>7

\* Every step keeps the gamepads right.
LEMMA GamepadKeeps ==
    ASSUME GamepadConstants, GamepadInv, Gamepad!Next
    PROVE  GamepadInv'
  BY ConnectKeeps, DisconnectKeeps, StreamStartKeeps, NewInputKeeps, WayKeeps, RumbleKeeps
     DEF Gamepad!Next

\* Every pad the input was told of has its slot, and rumbles for itself.
LEMMA GamepadRight ==
    GamepadInv => Gamepad!SlotsFollowPads /\ Gamepad!NoRumbleLeftOver
  BY DEF GamepadInv, AskedFor, Seats, Seated, Gamepad!SlotsFollowPads, Gamepad!NoRumbleLeftOver,
         Gamepad!Range, Gamepad!Occupied

-------------------------------------------------------------------------------
(* Full screen and pointer lock *)

\* The flows whose transition is going to leave a timer behind.
InTransit == {f \in Immersive!Flows : flow[f] \in {"fullscreen", "change"}}

\* There is room for the timer of every transition that was begun.
TimersFit == timers \in Nat /\ timers + Cardinality(InTransit) <= MaxTimers

ImmersiveInv ==
    /\ Immersive!TypeOK /\ TimersFit
    /\ Immersive!RelativeNeedsLock /\ Immersive!SidebarInReach

\* The view starts with the side bar in sight and the mouse free.
LEMMA ImmersiveInit == ASSUME ImmersiveConstants, Immersive!Init PROVE ImmersiveInv
  <1>1. /\ fullscreen \in BOOLEAN /\ locked \in BOOLEAN /\ unlocking \in BOOLEAN
        /\ viewTransition \in BOOLEAN /\ onboarded \in BOOLEAN
        /\ guide \in BOOLEAN /\ sidebar \in BOOLEAN /\ extended \in BOOLEAN
        /\ sidebar /\ ~guide
    BY Zenon DEF Immersive!Init
  <1>2. Immersive!TypeOK
    BY <1>1 DEF Immersive!Init, Immersive!TypeOK, Immersive!Modes, ImmersiveConstants
  <1>3. TimersFit
    <2>1. InTransit = {} /\ timers = 0
      BY DEF Immersive!Init, InTransit
    <2> QED
      BY <2>1, FS_EmptySet DEF ImmersiveConstants, TimersFit
  <1>4. Immersive!RelativeNeedsLock /\ Immersive!SidebarInReach
    BY <1>1 DEF Immersive!Init, Immersive!RelativeNeedsLock, Immersive!SidebarInReach
  <1> QED
    BY <1>2, <1>3, <1>4 DEF ImmersiveInv

\* A handler that finds the pointer free goes back to the mode from before.
LEMMA RestoreFrees ==
    ASSUME ImmersiveInv, Immersive!Restore
    PROVE  viewMouseMode' = "follow" /\ inputMode' = "follow"
  BY DEF ImmersiveInv, Immersive!TypeOK, Immersive!Modes, Immersive!RelativeNeedsLock,
         Immersive!Restore, Immersive!SetMode

\* What the view does when the browser has changed to or from full screen.
LEMMA FullscreenChanges ==
    ASSUME ImmersiveInv, NEW full \in BOOLEAN, Immersive!FullscreenChange(full)
    PROVE  /\ fullscreen' \in BOOLEAN /\ (fullscreen' <=> full)
           /\ guide' \in BOOLEAN /\ (guide' => ~full)
           /\ sidebar' \in BOOLEAN /\ (~sidebar' => full /\ locked)
           /\ inputMode' = viewMouseMode' /\ viewMouseMode' \in Immersive!Modes
           /\ viewMouseMode' = "relative" => viewMouseMode = "relative"
  <1>1. /\ fullscreen' \in BOOLEAN /\ (fullscreen' <=> full)
        /\ guide' \in BOOLEAN /\ (guide' => ~full)
        /\ sidebar' \in BOOLEAN /\ (~sidebar' => full /\ locked)
    BY Zenon DEF Immersive!FullscreenChange, Immersive!ShowSidebar
  <1>2. /\ inputMode' = viewMouseMode' /\ viewMouseMode' \in Immersive!Modes
        /\ viewMouseMode' = "relative" => viewMouseMode = "relative"
    <2>1. CASE full
      <3>1. UNCHANGED <<viewMouseMode, inputMode>>
        BY <2>1 DEF Immersive!FullscreenChange
      <3> QED
        BY <3>1 DEF ImmersiveInv, Immersive!TypeOK, Immersive!RelativeNeedsLock
    <2>2. CASE ~full
      <3>1. Immersive!Restore
        BY <2>2 DEF Immersive!FullscreenChange
      <3> QED
        BY <3>1, RestoreFrees DEF Immersive!Modes
    <2> QED
      BY <2>1, <2>2
  <1> QED
    BY <1>1, <1>2

\* What the view does when the pointer was locked or set free.
LEMMA PointerLockChanges ==
    ASSUME ImmersiveInv, NEW lock \in BOOLEAN, Immersive!PointerLockChange(lock)
    PROVE  /\ locked' \in BOOLEAN /\ (locked' <=> lock)
           /\ sidebar' \in BOOLEAN /\ (~sidebar' => fullscreen /\ lock)
           /\ inputMode' = viewMouseMode' /\ viewMouseMode' \in Immersive!Modes
           /\ viewMouseMode' = "relative" => lock
  <1>1. /\ locked' \in BOOLEAN /\ (locked' <=> lock)
        /\ sidebar' \in BOOLEAN /\ (~sidebar' => fullscreen /\ lock)
    BY Zenon DEF Immersive!PointerLockChange, Immersive!ShowSidebar
  <1>2. /\ inputMode' = viewMouseMode' /\ viewMouseMode' \in Immersive!Modes
        /\ viewMouseMode' = "relative" => lock
    <2>1. CASE lock
      BY <2>1 DEF Immersive!PointerLockChange, Immersive!SetMode, Immersive!Modes
    <2>2. CASE ~lock
      <3>1. Immersive!Restore
        BY <2>2 DEF Immersive!PointerLockChange
      <3> QED
        BY <3>1, RestoreFrees DEF Immersive!Modes
    <2> QED
      BY <2>1, <2>2
  <1> QED
    BY <1>1, <1>2

\* The flags of the view stay true or false.
LEMMA ImmersiveFlags ==
    ASSUME ImmersiveInv, Immersive!Next
    PROVE  /\ fullscreen' \in BOOLEAN /\ locked' \in BOOLEAN /\ unlocking' \in BOOLEAN
           /\ viewTransition' \in BOOLEAN /\ onboarded' \in BOOLEAN
           /\ guide' \in BOOLEAN /\ sidebar' \in BOOLEAN /\ extended' \in BOOLEAN
  <1> USE DEF ImmersiveInv, Immersive!TypeOK, Immersive!browserVars, Immersive!modeVars,
              Immersive!flagVars, Immersive!barVars
  <1>1. CASE \E f \in Immersive!Flows : Immersive!GrantFullscreen(f) \/ Immersive!Exited(f)
    BY <1>1, Zenon DEF Immersive!GrantFullscreen, Immersive!Exited, Immersive!FullscreenChange,
       Immersive!ShowSidebar
  <1>2. CASE \E f \in Immersive!Flows : Immersive!DenyFullscreen(f) \/ Immersive!ChangeSeen(f)
    BY <1>2, Zenon DEF Immersive!DenyFullscreen, Immersive!ChangeSeen, Immersive!Transited,
       Immersive!BeginLock
  <1>3. CASE \E f \in Immersive!Flows : Immersive!GrantLock(f)
    BY <1>3, Zenon DEF Immersive!GrantLock, Immersive!PointerLockChange, Immersive!ShowSidebar
  <1>4. CASE \E f \in Immersive!Flows : Immersive!DenyLock(f)
    BY <1>4, Zenon DEF Immersive!DenyLock
  <1>5. CASE Immersive!Combination \/ Immersive!Keybind
    BY <1>5, Zenon DEF Immersive!Combination, Immersive!Keybind, Immersive!BeginExit,
       Immersive!BeginFullscreen
  <1>6. CASE Immersive!Button \/ Immersive!ButtonInPrompt
    BY <1>6, Zenon DEF Immersive!Button, Immersive!ButtonInPrompt, Immersive!BeginExit,
       Immersive!BeginFullscreen, Immersive!HideGuide
  <1>7. CASE Immersive!Onboarding \/ Immersive!Continue
    BY <1>7, Zenon DEF Immersive!Onboarding, Immersive!Continue, Immersive!BeginFullscreen,
       Immersive!HideGuide, Immersive!ShowGuide
  <1>8. CASE Immersive!Unlock \/ Immersive!LeaveFullscreen
    BY <1>8, Zenon DEF Immersive!Unlock, Immersive!LeaveFullscreen, Immersive!FullscreenChange,
       Immersive!PointerLockChange, Immersive!ShowSidebar
  <1>9. CASE Immersive!TransitionTimer \/ Immersive!ToggleSidebar \/ Immersive!NewStream
    BY <1>9, Zenon DEF Immersive!TransitionTimer, Immersive!ToggleSidebar, Immersive!NewStream
  <1> QED
    BY <1>1, <1>2, <1>3, <1>4, <1>5, <1>6, <1>7, <1>8, <1>9 DEF Immersive!Next

\* The three modes, each with its type.
ModesRight ==
    /\ viewMouseMode \in Immersive!Modes /\ previous \in Immersive!Modes
    /\ Immersive!RelativeNeedsLock

\* The relative mode is only in force while the pointer is locked.
LEMMA ModesKept ==
    ASSUME ImmersiveInv, Immersive!Next
    PROVE  ModesRight'
  <1> USE DEF ModesRight, Immersive!RelativeNeedsLock
  <1>1. CASE \E f \in Immersive!Flows : Immersive!GrantFullscreen(f)
    <2>1. Immersive!FullscreenChange(TRUE) /\ UNCHANGED <<locked, previous>>
      BY <1>1 DEF Immersive!GrantFullscreen
    <2> QED
      BY <2>1, FullscreenChanges DEF ImmersiveInv, Immersive!TypeOK
  <1>2. CASE \E f \in Immersive!Flows : Immersive!DenyFullscreen(f) \/ Immersive!ChangeSeen(f)
    <2>1. UNCHANGED <<locked, viewMouseMode, inputMode>>
      BY <1>2 DEF Immersive!DenyFullscreen, Immersive!ChangeSeen, Immersive!Transited,
         Immersive!browserVars
    <2>2. previous' \in {previous, IF locked THEN previous ELSE viewMouseMode}
      BY <1>2 DEF Immersive!DenyFullscreen, Immersive!ChangeSeen, Immersive!Transited,
         Immersive!BeginLock
    <2> QED
      BY <2>1, <2>2 DEF ImmersiveInv, Immersive!TypeOK
  <1>3. CASE \E f \in Immersive!Flows : Immersive!GrantLock(f)
    <2>1. Immersive!PointerLockChange(TRUE) /\ UNCHANGED previous
      BY <1>3 DEF Immersive!GrantLock
    <2> QED
      BY <2>1, PointerLockChanges DEF ImmersiveInv, Immersive!TypeOK
  <1>4. CASE \E f \in Immersive!Flows : Immersive!DenyLock(f)
    <2>1. UNCHANGED <<locked, previous>>
      BY <1>4 DEF Immersive!DenyLock, Immersive!browserVars
    <2>2. Immersive!Restore \/ UNCHANGED <<viewMouseMode, inputMode>>
      BY <1>4, Zenon DEF Immersive!DenyLock
    <2> QED
      BY <2>1, <2>2, RestoreFrees DEF ImmersiveInv, Immersive!TypeOK, Immersive!Modes
  <1>5. CASE \E f \in Immersive!Flows : Immersive!Exited(f)
    <2>1. UNCHANGED <<locked, previous>>
      BY <1>5 DEF Immersive!Exited
    <2>2. Immersive!FullscreenChange(FALSE) \/ UNCHANGED <<viewMouseMode, inputMode>>
      BY <1>5, Zenon DEF Immersive!Exited
    <2> QED
      BY <2>1, <2>2, FullscreenChanges DEF ImmersiveInv, Immersive!TypeOK
  <1>6. CASE Immersive!LeaveFullscreen
    <2>1. Immersive!FullscreenChange(FALSE) /\ UNCHANGED <<locked, previous>>
      BY <1>6 DEF Immersive!LeaveFullscreen
    <2> QED
      BY <2>1, FullscreenChanges DEF ImmersiveInv, Immersive!TypeOK
  <1>7. CASE Immersive!Unlock
    <2>1. Immersive!PointerLockChange(FALSE) /\ UNCHANGED previous
      BY <1>7 DEF Immersive!Unlock
    <2> QED
      BY <2>1, PointerLockChanges DEF ImmersiveInv, Immersive!TypeOK
  <1>8. CASE Immersive!NewStream
    BY <1>8 DEF Immersive!NewStream, Immersive!browserVars, ImmersiveInv, Immersive!TypeOK
  <1>9. CASE \/ Immersive!Combination \/ Immersive!Keybind \/ Immersive!Button
             \/ Immersive!ButtonInPrompt \/ Immersive!Onboarding \/ Immersive!Continue
             \/ Immersive!TransitionTimer \/ Immersive!ToggleSidebar
    <2>1. UNCHANGED <<locked, viewMouseMode, inputMode, previous>>
      BY <1>9, Zenon DEF Immersive!Combination, Immersive!Keybind, Immersive!Button,
            Immersive!ButtonInPrompt, Immersive!Onboarding, Immersive!Continue,
            Immersive!TransitionTimer, Immersive!ToggleSidebar, Immersive!browserVars,
            Immersive!modeVars
    <2> QED
      BY <2>1 DEF ImmersiveInv, Immersive!TypeOK
  <1> QED
    BY <1>1, <1>2, <1>3, <1>4, <1>5, <1>6, <1>7, <1>8, <1>9 DEF Immersive!Next

\* The side bar is hidden only in full screen with the pointer locked.
LEMMA SidebarKept ==
    ASSUME ImmersiveInv, Immersive!Next
    PROVE  Immersive!SidebarInReach'
  <1> USE DEF Immersive!SidebarInReach
  <1>1. CASE \E f \in Immersive!Flows : Immersive!GrantFullscreen(f)
    <2>1. Immersive!FullscreenChange(TRUE) /\ UNCHANGED locked
      BY <1>1 DEF Immersive!GrantFullscreen
    <2> QED
      BY <2>1, FullscreenChanges
  <1>2. CASE Immersive!LeaveFullscreen
    <2>1. Immersive!FullscreenChange(FALSE) /\ UNCHANGED locked
      BY <1>2 DEF Immersive!LeaveFullscreen
    <2> QED
      BY <2>1, FullscreenChanges
  <1>3. CASE \E f \in Immersive!Flows : Immersive!Exited(f)
    <2>1. /\ UNCHANGED locked
          /\ Immersive!FullscreenChange(FALSE) \/ UNCHANGED <<fullscreen, guide, sidebar>>
      BY <1>3, Zenon DEF Immersive!Exited
    <2>2. CASE Immersive!FullscreenChange(FALSE)
      BY <2>2, FullscreenChanges
    <2>3. CASE UNCHANGED <<fullscreen, guide, sidebar>>
      BY <2>1, <2>3 DEF ImmersiveInv
    <2> QED
      BY <2>1, <2>2, <2>3
  <1>4. CASE \E f \in Immersive!Flows : Immersive!GrantLock(f)
    <2>1. Immersive!PointerLockChange(TRUE) /\ UNCHANGED <<fullscreen, guide>>
      BY <1>4 DEF Immersive!GrantLock
    <2> QED
      BY <2>1, PointerLockChanges DEF ImmersiveInv
  <1>5. CASE Immersive!Unlock
    <2>1. Immersive!PointerLockChange(FALSE) /\ UNCHANGED <<fullscreen, guide>>
      BY <1>5 DEF Immersive!Unlock
    <2> QED
      BY <2>1, PointerLockChanges DEF ImmersiveInv
  <1>6. CASE Immersive!Onboarding
    <2>1. sidebar' /\ (guide' => guide \/ ~fullscreen) /\ UNCHANGED fullscreen
      BY <1>6, Zenon DEF Immersive!Onboarding, Immersive!ShowGuide, Immersive!browserVars
    <2> QED
      BY <2>1 DEF ImmersiveInv
  <1>7. CASE Immersive!Button \/ Immersive!ButtonInPrompt \/ Immersive!Continue
    <2>1. ~guide' /\ UNCHANGED <<sidebar, fullscreen, locked>>
      BY <1>7, Zenon DEF Immersive!Button, Immersive!ButtonInPrompt, Immersive!Continue,
         Immersive!HideGuide,
                         Immersive!browserVars
    <2> QED
      BY <2>1 DEF ImmersiveInv
  <1>8. CASE \/ \E f \in Immersive!Flows : \/ Immersive!DenyFullscreen(f) \/ Immersive!ChangeSeen(f)
                                           \/ Immersive!DenyLock(f)
             \/ Immersive!Combination \/ Immersive!Keybind \/ Immersive!TransitionTimer
             \/ Immersive!ToggleSidebar \/ Immersive!NewStream
    <2>1. UNCHANGED <<sidebar, guide, fullscreen, locked>>
      BY <1>8, Zenon DEF Immersive!DenyFullscreen, Immersive!ChangeSeen, Immersive!Transited,
            Immersive!DenyLock, Immersive!Combination, Immersive!Keybind,
            Immersive!TransitionTimer,
            Immersive!ToggleSidebar, Immersive!NewStream, Immersive!browserVars,
            Immersive!barVars
    <2> QED
      BY <2>1 DEF ImmersiveInv
  <1> QED
    BY <1>1, <1>2, <1>3, <1>4, <1>5, <1>6, <1>7, <1>8 DEF Immersive!Next

Places == {"idle", "prompt", "exit", "fullscreen", "change", "lock", "lockAgain"}

\* The module takes its cardinalities from an instance of its own.
LEMMA SameCardinality == \A S : Immersive!Cardinality(S) = Cardinality(S)
  BY DEF Cardinality, Immersive!Cardinality

\* There are three ways into full screen.
LEMMA FlowsFinite == IsFiniteSet(Immersive!Flows)
  <1>1. Immersive!Flows = (({} \cup {"keybind"}) \cup {"button"}) \cup {"onboarding"}
    BY DEF Immersive!Flows
  <1> QED
    BY <1>1, FS_EmptySet, FS_AddElement

\* A transition leaves at most one timer.
LEMMA TransitsCounted ==
    ASSUME NEW S \in SUBSET Immersive!Flows, NEW T \in SUBSET Immersive!Flows
    PROVE  /\ Cardinality(S) \in Nat /\ Cardinality(T) \in Nat
           /\ T \subseteq S => Cardinality(T) <= Cardinality(S)
           /\ \A f : T \subseteq S \cup {f} => Cardinality(T) <= Cardinality(S) + 1
           /\ \A f \in S : f \notin T /\ T \subseteq S => Cardinality(T) <= Cardinality(S) - 1
  <1>1. IsFiniteSet(S) /\ IsFiniteSet(T)
    BY FlowsFinite, FS_Subset
  <1>2. Cardinality(S) \in Nat /\ Cardinality(T) \in Nat
    BY <1>1, FS_CardinalityType
  <1>3. T \subseteq S => Cardinality(T) <= Cardinality(S)
    BY <1>1, FS_Subset
  <1>4. ASSUME NEW f, T \subseteq S \cup {f}
        PROVE  Cardinality(T) <= Cardinality(S) + 1
    <2>1. IsFiniteSet(S \cup {f}) /\ Cardinality(S \cup {f}) <= Cardinality(S) + 1
      <3>1. /\ IsFiniteSet(S \cup {f})
            /\ Cardinality(S \cup {f}) = IF f \in S THEN Cardinality(S) ELSE Cardinality(S) + 1
        BY <1>1, FS_AddElement
      <3> QED
        BY <1>2, <3>1
    <2> QED
      BY <1>2, <1>4, <2>1, FS_Subset, FS_CardinalityType
  <1>5. ASSUME NEW f \in S, f \notin T, T \subseteq S
        PROVE  Cardinality(T) <= Cardinality(S) - 1
    <2>1. IsFiniteSet(S \ {f}) /\ Cardinality(S \ {f}) = Cardinality(S) - 1
      BY <1>1, FS_RemoveElement
    <2>2. T \subseteq S \ {f}
      BY <1>5
    <2> QED
      BY <2>1, <2>2, FS_Subset
  <1> QED
    BY <1>2, <1>3, <1>4, <1>5

\* Every flow stays in one of its places and leaves room for the timers of the others.
LEMMA FlowsKept ==
    ASSUME ImmersiveConstants, ImmersiveInv, Immersive!Next
    PROVE  (flow \in [Immersive!Flows -> Places])' /\ TimersFit'
            /\ (toggle \in {"none", "waitForCtrl", "makingFullscreen"})'
  <1> USE DEF ImmersiveConstants, ImmersiveInv, Immersive!TypeOK, Places
  <1>0. /\ flow \in [Immersive!Flows -> Places] /\ toggle \in {"none", "waitForCtrl", "makingFullscreen"}
        /\ timers \in Nat /\ timers + Cardinality(InTransit) <= MaxTimers
        /\ InTransit \in SUBSET Immersive!Flows /\ InTransit' \in SUBSET Immersive!Flows
        /\ Cardinality(InTransit) \in Nat /\ Cardinality(InTransit') \in Nat
    BY TransitsCounted DEF TimersFit, InTransit
  <1>1. CASE \E f \in Immersive!Flows : Immersive!DenyFullscreen(f) \/ Immersive!ChangeSeen(f)
    <2>1. PICK f \in Immersive!Flows : Immersive!DenyFullscreen(f) \/ Immersive!ChangeSeen(f)
      BY <1>1
    <2>2. /\ f \in InTransit /\ timers' = timers + 1
          /\ flow' \in {[flow EXCEPT ![f] = "lock"], [flow EXCEPT ![f] = "idle"]}
          /\ toggle' = toggle
      BY <2>1 DEF Immersive!DenyFullscreen, Immersive!ChangeSeen, Immersive!Transited,
         Immersive!BeginLock,
                  Immersive!Settles, InTransit
    <2>3. InTransit' \subseteq InTransit /\ f \notin InTransit'
      BY <1>0, <2>2 DEF InTransit
    <2>4. Cardinality(InTransit') <= Cardinality(InTransit) - 1
      BY <1>0, <2>2, <2>3, TransitsCounted
    <2> QED
      BY <1>0, <2>2, <2>4 DEF TimersFit
  <1>2. CASE \/ \E f \in Immersive!Flows : \/ Immersive!GrantFullscreen(f) \/ Immersive!GrantLock(f)
                                           \/ Immersive!DenyLock(f) \/ Immersive!Exited(f)
             \/ Immersive!Onboarding \/ Immersive!Combination \/ Immersive!Unlock
             \/ Immersive!LeaveFullscreen \/ Immersive!ToggleSidebar \/ Immersive!NewStream
    <2>1. /\ timers' = timers
          /\ \/ flow' = flow
             \/ \E f \in Immersive!Flows :
                  \/ flow[f] = "fullscreen" /\ flow' = [flow EXCEPT ![f] = "change"]
                  \/ \E p \in {"lockAgain", "idle", "prompt"} : flow' = [flow EXCEPT ![f] = p]
      BY <1>2 DEF Immersive!GrantFullscreen, Immersive!GrantLock, Immersive!DenyLock,
         Immersive!Exited,
                  Immersive!Onboarding, Immersive!Combination, Immersive!Unlock,
                  Immersive!LeaveFullscreen,
                  Immersive!ToggleSidebar, Immersive!NewStream, Immersive!flagVars,
                  Immersive!Flows
    <2>2. toggle' \in {toggle, "none", "waitForCtrl"}
      BY <1>2 DEF Immersive!GrantFullscreen, Immersive!GrantLock, Immersive!DenyLock,
         Immersive!Exited,
                  Immersive!Onboarding, Immersive!Combination, Immersive!Unlock,
                  Immersive!LeaveFullscreen,
                  Immersive!ToggleSidebar, Immersive!NewStream, Immersive!flagVars,
                  Immersive!Settles
    <2>3. flow' \in [Immersive!Flows -> Places] /\ InTransit' \subseteq InTransit
      BY <1>0, <2>1 DEF InTransit
    <2>4. Cardinality(InTransit') <= Cardinality(InTransit)
      BY <1>0, <2>3, TransitsCounted
    <2> QED
      BY <1>0, <2>1, <2>2, <2>3, <2>4 DEF TimersFit
  <1>3. CASE Immersive!TransitionTimer
    <2>1. timers > 0 /\ timers' = timers - 1 /\ flow' = flow /\ toggle' = toggle
      BY <1>3 DEF Immersive!TransitionTimer
    <2> QED
      BY <1>0, <2>1 DEF TimersFit, InTransit
  <1>4. CASE Immersive!Keybind \/ Immersive!Button \/ Immersive!ButtonInPrompt \/ Immersive!Continue
    <2>1. timers + Cardinality(InTransit) < MaxTimers
      <3>1. Immersive!Room
        BY <1>4 DEF Immersive!Keybind, Immersive!Button, Immersive!ButtonInPrompt,
           Immersive!Continue
      <3> QED
        BY <3>1, SameCardinality DEF Immersive!Room, InTransit
    <2>5. timers' = timers /\ toggle' \in {toggle, "makingFullscreen"}
      BY <1>4 DEF Immersive!Keybind, Immersive!Button, Immersive!ButtonInPrompt,
         Immersive!Continue
    <2>2. \E f \in Immersive!Flows :
             \E p \in {"exit", "fullscreen", "change"} :
                 \/ flow' = [flow EXCEPT ![f] = p]
                 \/ flow' = [flow EXCEPT !["onboarding"] = "idle", ![f] = p]
      BY <1>4 DEF Immersive!Keybind, Immersive!Button, Immersive!ButtonInPrompt,
         Immersive!Continue,
                  Immersive!BeginExit, Immersive!BeginFullscreen, Immersive!Flows
    <2>3. /\ flow' \in [Immersive!Flows -> Places]
          /\ \E f \in Immersive!Flows : InTransit' \subseteq InTransit \cup {f}
      BY <1>0, <2>2 DEF InTransit, Immersive!Flows
    <2>4. Cardinality(InTransit') <= Cardinality(InTransit) + 1
      BY <1>0, <2>3, TransitsCounted
    <2> QED
      BY <1>0, <2>1, <2>3, <2>4, <2>5 DEF TimersFit
  <1> QED
    BY <1>1, <1>2, <1>3, <1>4 DEF Immersive!Next

\* Every step keeps the view right.
LEMMA ImmersiveKeeps ==
    ASSUME ImmersiveConstants, ImmersiveInv, Immersive!Next
    PROVE  ImmersiveInv'
  <1>1. timers' \in 0..MaxTimers
    <2>1. Cardinality(InTransit') \in Nat
      BY TransitsCounted DEF InTransit
    <2> QED
      BY <2>1, FlowsKept DEF TimersFit, ImmersiveConstants
  <1>2. inputMode' \in Immersive!Modes
    BY ModesKept DEF ModesRight, Immersive!RelativeNeedsLock
  <1>3. Immersive!TypeOK'
    BY <1>1, <1>2, ImmersiveFlags, ModesKept, FlowsKept DEF ModesRight, Immersive!TypeOK, Places
  <1> QED
    BY <1>3, ModesKept, SidebarKept, FlowsKept DEF ImmersiveInv, ModesRight

-------------------------------------------------------------------------------
(* The dialogs *)

\* Also while somebody is about to go on, only the call with the current controller can be
\* open, it is the one that is mounted, and the overlay is there for it.
OneModal ==
    /\ visible <=> modalAbort # NoModal
    /\ modalAbort # NoModal => mounted = modalAbort
    /\ \A m \in Modals : phase[m] = "open" => m = modalAbort
    /\ modalAbort # NoModal /\ microtasks = <<>> => phase[modalAbort] = "open"

DialogsInv == Dialogs!TypeOK /\ OneModal

\* No dialog is shown at the start.
LEMMA DialogsInit == ASSUME Dialogs!Init PROVE DialogsInv
  <1>1. visible \in BOOLEAN /\ ~visible
    BY Zenon DEF Dialogs!Init
  <1>2. Dialogs!TypeOK
    BY <1>1 DEF Dialogs!Init, Dialogs!TypeOK
  <1>3. OneModal
    BY <1>1 DEF Dialogs!Init, OneModal
  <1> QED
    BY <1>2, <1>3 DEF DialogsInv

\* An abort leaves no modal open, and makes nobody go on but the one it aborts.
LEMMA AbortCloses ==
    ASSUME ModalsConstants, DialogsInv
    PROVE  /\ Dialogs!Aborted \in [Modals -> {"new", "open", "deaf", "finished", "returned", "threw"}]
           /\ \A m \in Modals : Dialogs!Aborted[m] # "open"
           /\ Dialogs!Resumed \in Seq(Modals)
           /\ microtasks # <<>> => Tail(Dialogs!Resumed) \in Seq(Modals)
  <1> USE DEF ModalsConstants, DialogsInv, Dialogs!TypeOK, OneModal
  <1>1. /\ Dialogs!Aborted \in [Modals -> {"new", "open", "deaf", "finished", "returned", "threw"}]
        /\ \A m \in Modals : Dialogs!Aborted[m] # "open"
    BY DEF Dialogs!Aborted
  <1>2. Dialogs!Resumed \in Seq(Modals) /\ (microtasks # <<>> => Dialogs!Resumed # <<>>)
    BY DEF Dialogs!Resumed
  <1> QED
    BY <1>1, <1>2

\* Every step keeps the dialogs right.
LEMMA DialogsKeeps ==
    ASSUME ModalsConstants, DialogsInv, Dialogs!Next
    PROVE  DialogsInv'
  <1> USE DEF ModalsConstants
  <1>1. ASSUME NEW m \in Modals, Dialogs!Show(m)
        PROVE  DialogsInv'
    <2>1. visible' \in BOOLEAN /\ visible'
      BY <1>1, Zenon DEF Dialogs!Show
    <2>2. Dialogs!TypeOK'
      BY <1>1, <2>1, AbortCloses DEF Dialogs!Show, Dialogs!TypeOK
    <2>3. OneModal'
      BY <1>1, <2>1, AbortCloses DEF Dialogs!Show, OneModal
    <2> QED
      BY <2>2, <2>3 DEF DialogsInv
  <1>2. ASSUME NEW m \in Modals, Dialogs!Answer(m)
        PROVE  DialogsInv'
    <2>1. Dialogs!TypeOK' /\ microtasks' # <<>>
      BY <1>2 DEF Dialogs!Answer, Dialogs!TypeOK, DialogsInv
    <2>3. OneModal'
      BY <1>2, <2>1 DEF Dialogs!Answer, OneModal, DialogsInv, Dialogs!TypeOK
    <2> QED
      BY <2>1, <2>3 DEF DialogsInv
  <1>3. CASE Dialogs!Close
    <2>1. visible' \in BOOLEAN /\ ~visible'
      BY <1>3, Zenon DEF Dialogs!Close
    <2>2. Dialogs!TypeOK'
      BY <1>3, <2>1, AbortCloses DEF Dialogs!Close, Dialogs!TypeOK, DialogsInv
    <2>3. OneModal'
      BY <1>3, <2>1, AbortCloses DEF Dialogs!Close, OneModal
    <2> QED
      BY <2>2, <2>3 DEF DialogsInv
  <1>4. CASE Dialogs!GoOn
    <2>1. visible' \in BOOLEAN /\ ~visible'
      BY <1>4, Zenon DEF Dialogs!GoOn
    <2>2. Head(microtasks) \in Modals /\ Tail(microtasks) \in Seq(Modals)
      BY <1>4 DEF Dialogs!GoOn, DialogsInv, Dialogs!TypeOK
    <2>3. /\ phase' \in [Modals -> {"new", "open", "deaf", "finished", "returned", "threw"}]
          /\ \A m \in Modals : phase'[m] # "open"
      <3>1. CASE modalAbort = NoModal
        BY <1>4, <2>2, <3>1 DEF Dialogs!GoOn, DialogsInv, OneModal, Dialogs!TypeOK
      <3>2. CASE modalAbort # NoModal
        BY <1>4, <2>2, <3>2, AbortCloses DEF Dialogs!GoOn
      <3> QED
        BY <3>1, <3>2
    <2>4. microtasks' \in Seq(Modals)
      BY <1>4, <2>2, AbortCloses DEF Dialogs!GoOn
    <2>5. modalAbort' = NoModal /\ mounted' = mounted
      BY <1>4 DEF Dialogs!GoOn
    <2>6. Dialogs!TypeOK'
      BY <2>1, <2>3, <2>4, <2>5 DEF DialogsInv, Dialogs!TypeOK
    <2>7. OneModal'
      BY <2>1, <2>3, <2>5 DEF OneModal
    <2> QED
      BY <2>6, <2>7 DEF DialogsInv
  <1> QED
    BY <1>1, <1>2, <1>3, <1>4 DEF Dialogs!Next

\* The one dialog that is shown is one somebody waits for.
LEMMA DialogsAwaited == DialogsInv => Dialogs!ShownIsAwaited
  BY DEF DialogsInv, OneModal, Dialogs!ShownIsAwaited

-------------------------------------------------------------------------------
(* Leaving the page *)

\* A call of the listener that still asks has asked less often than it may.
AsksLeft == \A e \in Exits : loop[e].at # "over" => loop[e].attempt < MaxAsks

\* Only navigateHome starts the fallback timer, and only that timer the recovery.
OneTimerAtATime ==
    /\ fallback # Off => ~inProgress
    /\ ~navigating => fallback = Off /\ ~inProgress /\ timeout = Off

\* On a page that should be gone and has no connection one of the two timers runs, in time,
\* or the message is shown, unless it is gone.
TimersOrDialog ==
    here /\ navigating /\ ~sound /\ ~dismissed =>
        /\ status = "Poor"
        /\ \/ fallback # Off /\ since + fallback <= FallbackAfter
           \/ inProgress /\ timeout # Off /\ since + timeout <= FallbackAfter + DialogAfter
           \/ dialog = "lost"

LeavingInv == Leaving!TypeOK /\ AsksLeft /\ OneTimerAtATime /\ TimersOrDialog

\* The page starts with no timer and no message about a lost connection.
LEMMA LeavingInit == ASSUME LeavingConstants, Leaving!Init PROVE LeavingInv
  <1> USE DEF LeavingConstants
  <1>1. /\ here \in BOOLEAN /\ replaced \in BOOLEAN /\ navigating \in BOOLEAN
        /\ inProgress \in BOOLEAN /\ sound \in BOOLEAN /\ dismissed \in BOOLEAN
        /\ ~navigating /\ ~inProgress
    BY Zenon DEF Leaving!Init
  <1> QED
    BY <1>1 DEF Leaving!Init, Leaving!TypeOK, Leaving!Waits, Leaving!Phases, LeavingInv,
       AsksLeft,
                OneTimerAtATime, TimersOrDialog

\* What a step does to the flags, said so that no flag is compared with a formula.
LEMMA LeavingFlags ==
    ASSUME LeavingInv, Leaving!Next
    PROVE  /\ here' \in BOOLEAN /\ replaced' \in BOOLEAN /\ navigating' \in BOOLEAN
           /\ inProgress' \in BOOLEAN /\ sound' \in BOOLEAN /\ dismissed' \in BOOLEAN
  <1> USE DEF LeavingInv, Leaving!TypeOK, Leaving!recovery, Leaving!watch
  <1>1. CASE \E value \in {"Ok", "Poor"} : Leaving!ConnectionStatus(value)
    BY <1>1, Zenon DEF Leaving!ConnectionStatus
  <1>2. CASE \E e \in Exits : Leaving!GameExit(e) \/ Leaving!SessionOver(e) \/ Leaving!SessionActive(e)
    BY <1>2, Zenon DEF Leaving!GameExit, Leaving!SessionOver, Leaving!SessionActive,
       Leaving!NavigateHome
  <1>3. CASE Leaving!HandleConnectionFailed \/ Leaving!RecoveryTimeout \/ Leaving!RecoveryInterval
    BY <1>3, Zenon DEF Leaving!HandleConnectionFailed, Leaving!RecoveryTimeout,
       Leaving!RecoveryInterval, Leaving!ShowMessage
  <1>4. CASE Leaving!EndStream \/ Leaving!EndAnswered \/ Leaving!EndFails
          \/ Leaving!CloseMessage \/ Leaving!Confirm
          \/ Leaving!Unload \/ Leaving!Tick
    BY <1>4, Zenon DEF Leaving!EndStream, Leaving!EndAnswered, Leaving!EndFails,
       Leaving!CloseMessage, Leaving!Confirm, Leaving!Unload, Leaving!ShowMessage,
       Leaving!Tick
  <1> QED
    BY <1>1, <1>2, <1>3, <1>4 DEF Leaving!Next

\* The timers and statuses of the page keep their types.
LEMMA LeavingTypes ==
    ASSUME LeavingConstants, LeavingInv, Leaving!Next
    PROVE  Leaving!TypeOK'
  <1> USE DEF LeavingConstants, LeavingInv, Leaving!recovery, Leaving!watch
  <1>1. CASE \E value \in {"Ok", "Poor"} : Leaving!ConnectionStatus(value)
    BY <1>1, LeavingFlags DEF Leaving!ConnectionStatus, Leaving!TypeOK, Leaving!Waits
  <1>2. CASE \E e \in Exits : Leaving!GameExit(e) \/ Leaving!SessionOver(e) \/ Leaving!SessionActive(e)
    BY <1>2, LeavingFlags DEF Leaving!GameExit, Leaving!SessionOver, Leaving!SessionActive,
       Leaving!NavigateHome,
                Leaving!Phases, Leaving!TypeOK, Leaving!Waits
  <1>3. CASE Leaving!HandleConnectionFailed \/ Leaving!RecoveryTimeout \/ Leaving!RecoveryInterval
    BY <1>3, LeavingFlags DEF Leaving!HandleConnectionFailed, Leaving!RecoveryTimeout,
       Leaving!RecoveryInterval, Leaving!ShowMessage,
        Leaving!TypeOK, Leaving!Waits
  <1>5. CASE Leaving!EndStream \/ Leaving!EndAnswered \/ Leaving!EndFails
          \/ Leaving!CloseMessage \/ Leaving!Confirm
          \/ Leaving!Unload
    BY <1>5, LeavingFlags DEF Leaving!EndStream, Leaving!EndAnswered, Leaving!EndFails,
       Leaving!CloseMessage, Leaving!Confirm, Leaving!ShowMessage,
           Leaving!Unload, Leaving!TypeOK
  <1>7. CASE Leaving!Tick
    BY <1>7 DEF Leaving!Tick, Leaving!TypeOK, Leaving!Waits, Leaving!Phases, Leaving!Later,
       Leaving!Awake, AsksLeft
  <1> QED
    BY <1>1, <1>2, <1>3, <1>5, <1>7 DEF Leaving!Next

\* Every step leaves a way out: a timer that still runs, or the dialog it ends in.
LEMMA LeavingKeeps ==
    ASSUME LeavingConstants, LeavingInv, Leaving!Next
    PROVE  AsksLeft' /\ OneTimerAtATime' /\ TimersOrDialog'
  <1> USE DEF LeavingConstants, LeavingInv, Leaving!recovery, Leaving!watch
  <1>1. AsksLeft'
    BY DEF Leaving!Next, Leaving!ConnectionStatus, Leaving!GameExit, Leaving!SessionActive,
       Leaving!SessionOver,
           Leaving!HandleConnectionFailed, Leaving!RecoveryTimeout, Leaving!RecoveryInterval,
           Leaving!EndStream, Leaving!EndAnswered, Leaving!EndFails, Leaving!CloseMessage,
           Leaving!Confirm, Leaving!Unload,
           Leaving!Tick, Leaving!TypeOK, Leaving!Phases, Leaving!Awake, AsksLeft
  <1>2. OneTimerAtATime'
    BY DEF Leaving!Next, Leaving!ConnectionStatus, Leaving!GameExit, Leaving!SessionActive,
       Leaving!SessionOver,
           Leaving!HandleConnectionFailed, Leaving!RecoveryTimeout, Leaving!RecoveryInterval,
           Leaving!EndStream, Leaving!EndAnswered, Leaving!EndFails, Leaving!CloseMessage,
           Leaving!Confirm, Leaving!Unload,
           Leaving!Tick, Leaving!TypeOK, Leaving!NavigateHome, Leaving!Later, Leaving!Waits,
           OneTimerAtATime
  <1>3. TimersOrDialog'
    <2>1. CASE Leaving!Tick
      BY <2>1 DEF Leaving!Tick, Leaving!TypeOK, Leaving!Later, Leaving!Waits, OneTimerAtATime,
         TimersOrDialog
    <2>2. CASE Leaving!HandleConnectionFailed
      BY <2>2 DEF Leaving!HandleConnectionFailed, Leaving!TypeOK, Leaving!Waits,
         OneTimerAtATime, TimersOrDialog
    <2>8. CASE Leaving!RecoveryTimeout
      <3>1. UNCHANGED <<navigating, status, fallback, since, sound>>
        BY <2>8 DEF Leaving!RecoveryTimeout
      <3>2. /\ here /\ timeout = 0 /\ inProgress' = FALSE /\ timeout' = Off
            /\ ~dismissed' => ~dismissed /\ dialog' = "lost"
        BY <2>8, Zenon DEF Leaving!RecoveryTimeout, Leaving!ShowMessage
      <3> QED
        BY <3>1, <3>2 DEF TimersOrDialog
    <2>9. CASE Leaving!RecoveryInterval
      BY <2>9 DEF Leaving!RecoveryInterval, TimersOrDialog
    <2>3. CASE \E value \in {"Ok", "Poor"} : Leaving!ConnectionStatus(value)
      <3>1. ~sound' => ~sound /\ status' = "Poor"
        BY <2>3 DEF Leaving!ConnectionStatus
      <3>2. UNCHANGED <<here, navigating, fallback, dialog, since, dismissed>>
        BY <2>3 DEF Leaving!ConnectionStatus
      <3>3. status' = "Poor" => UNCHANGED <<inProgress, timeout>>
        BY <2>3 DEF Leaving!ConnectionStatus
      <3> QED
        BY <3>1, <3>2, <3>3 DEF TimersOrDialog
    <2>4. CASE \E e \in Exits : Leaving!GameExit(e) \/ Leaving!SessionActive(e)
      <3>1. UNCHANGED <<here, navigating, sound, status, fallback, since, inProgress, timeout, dialog,
                       dismissed>>
        BY <2>4, Zenon DEF Leaving!GameExit, Leaving!SessionActive
      <3> QED
        BY <3>1 DEF TimersOrDialog
    <2>5. CASE \E e \in Exits : Leaving!SessionOver(e)
      <3>1. UNCHANGED <<here, status, inProgress, timeout, dialog, dismissed>>
        BY <2>5 DEF Leaving!SessionOver
      <3>2. CASE navigating
        BY <2>5, <3>1, <3>2 DEF Leaving!SessionOver, Leaving!NavigateHome, TimersOrDialog
      <3>3. CASE ~navigating
        <4>1. ~sound' => status # "Ok"
          BY <2>5, <3>3, Zenon DEF Leaving!SessionOver, Leaving!NavigateHome
        <4>2. fallback' = FallbackAfter /\ since' = 0
          BY <2>5, <3>3 DEF Leaving!SessionOver, Leaving!NavigateHome
        <4> QED
          BY <3>1, <4>1, <4>2 DEF Leaving!TypeOK, TimersOrDialog
      <3> QED
        BY <3>2, <3>3
    <2>6. CASE Leaving!EndStream \/ Leaving!EndAnswered \/ Leaving!Unload
      BY <2>6 DEF Leaving!EndStream, Leaving!EndAnswered, Leaving!Unload, TimersOrDialog
    <2>7. CASE Leaving!EndFails \/ Leaving!CloseMessage \/ Leaving!Confirm
      <3>1. here' /\ ~dismissed' => here /\ ~dismissed /\ dialog # "lost"
        BY <2>7, Zenon DEF Leaving!EndFails, Leaving!CloseMessage, Leaving!Confirm,
           Leaving!ShowMessage
      <3>2. UNCHANGED <<navigating, status, fallback, inProgress, timeout, since, sound>>
        BY <2>7 DEF Leaving!EndFails, Leaving!CloseMessage, Leaving!Confirm
      <3> QED
        BY <3>1, <3>2 DEF TimersOrDialog
    <2> QED
      BY <2>1, <2>2, <2>3, <2>4, <2>5, <2>6, <2>7, <2>8, <2>9 DEF Leaving!Next
  <1> QED
    BY <1>1, <1>2, <1>3

\* A page that is stuck and lost for as long as its timers take asks, as long as its message
\* is not gone.
LEMMA LeavingAsks ==
    ASSUME LeavingConstants, LeavingInv
    PROVE  Leaving!StuckAndLostAsks
  BY DEF LeavingConstants, LeavingInv, TimersOrDialog, Leaving!StuckAndLostAsks, Leaving!Stuck,
     Leaving!TypeOK,
         Leaving!Waits

-------------------------------------------------------------------------------
(* The forms *)

\* The inputs with a box that enables them.
WithBox == [none |-> {}, login |-> {}, addUser |-> {"client_unique_id"}, user |-> {"password"},
            keycode |-> {}]

\* What an input that is not enabled stands for is what the form is going to send for it.
StandFor(kind, ins, pending) ==
    /\ \A f \in Inputs!Fields[kind] :
          /\ ins[f].hasBox <=> f \in WithBox[kind]
          /\ ins[f].hasBox => (ins[f].disabled <=> ~ins[f].checked)
    /\ kind = "addUser" /\ "name" \notin pending =>
          ins["client_unique_id"].placeholder = ins["name"].value
    /\ kind = "user" => ins["password"].placeholder = Unchanged

InputsStandFor == StandFor(form, inputs, unfired)

FormsInv == Inputs!TypeOK /\ reading \in Seq(FormTexts) /\ InputsStandFor

\* Enabling an input changes neither its text nor whether it has a box.
LEMMA SetEnabledMakes ==
    ASSUME NEW i \in Inputs!Input, NEW enabled \in BOOLEAN
    PROVE  /\ Inputs!SetEnabled(i, enabled) \in Inputs!Input
           /\ Inputs!SetEnabled(i, enabled).value = i.value
           /\ Inputs!SetEnabled(i, enabled).placeholder = i.placeholder
           /\ Inputs!SetEnabled(i, enabled).hasBox = i.hasBox
           /\ Inputs!SetEnabled(i, enabled).checked <=> i.hasBox /\ enabled
           /\ Inputs!SetEnabled(i, enabled).disabled <=> ~enabled
  <1> DEFINE c == i.hasBox /\ enabled
             d == ~enabled
  <1>1. c \in BOOLEAN /\ d \in BOOLEAN
          /\ Inputs!SetEnabled(i, enabled) = [i EXCEPT !.checked = c, !.disabled = d]
    BY DEF Inputs!SetEnabled
  <1> HIDE DEF c, d
  <1>2. /\ Inputs!SetEnabled(i, enabled) \in Inputs!Input
        /\ Inputs!SetEnabled(i, enabled).value = i.value
        /\ Inputs!SetEnabled(i, enabled).placeholder = i.placeholder
        /\ Inputs!SetEnabled(i, enabled).hasBox = i.hasBox
        /\ Inputs!SetEnabled(i, enabled).checked = c
        /\ Inputs!SetEnabled(i, enabled).disabled = d
    BY <1>1 DEF Inputs!Input
  <1> QED
    BY <1>2 DEF c, d

\* A new input holds what it is given, and is disabled when it has a box.
LEMMA NewInputMakes ==
    ASSUME NEW value \in Inputs!Values, NEW hasBox \in BOOLEAN, NEW placeholder \in Inputs!Values
    PROVE  /\ Inputs!NewInput(value, hasBox, placeholder) \in Inputs!Input
           /\ Inputs!NewInput(value, hasBox, placeholder).value = value
           /\ Inputs!NewInput(value, hasBox, placeholder).placeholder = placeholder
           /\ Inputs!NewInput(value, hasBox, placeholder).hasBox = hasBox
           /\ ~Inputs!NewInput(value, hasBox, placeholder).checked
           /\ Inputs!NewInput(value, hasBox, placeholder).disabled <=> hasBox
  <1> DEFINE input == [value |-> value, disabled |-> FALSE, hasBox |-> hasBox, checked |-> FALSE,
                       placeholder |-> placeholder]
  <1>1. /\ input \in Inputs!Input /\ input.value = value /\ input.placeholder = placeholder
        /\ input.hasBox = hasBox
    BY DEF Inputs!Input
  <1>2. CASE hasBox
    <2>1. Inputs!NewInput(value, hasBox, placeholder) = Inputs!SetEnabled(input, FALSE)
      BY <1>2 DEF Inputs!NewInput
    <2> HIDE DEF input
    <2>2. FALSE \in BOOLEAN
      OBVIOUS
    <2> QED
      BY <1>1, <1>2, <2>1, <2>2, SetEnabledMakes
  <1>3. CASE ~hasBox
    BY <1>1, <1>3 DEF Inputs!NewInput
  <1> QED
    BY <1>2, <1>3

\* What the user types belongs to the values an input can have.
LEMMA ValuesHave ==
    /\ Empty \in Inputs!Values /\ Unchanged \in Inputs!Values /\ FormTexts \subseteq Inputs!Values
    /\ Inputs!Roles \subseteq Inputs!Values /\ Inputs!KeyNames \subseteq Inputs!Values
  BY DEF Inputs!Values

\* An input with a text only has no box and no placeholder.
LEMMA PlainMakes ==
    ASSUME NEW value \in Inputs!Values
    PROVE  LET i == Inputs!Plain(value)
           IN  i \in Inputs!Input /\ i.value = value /\ i.placeholder = Empty /\ i.hasBox = FALSE
  <1>1. FALSE \in BOOLEAN /\ Empty \in Inputs!Values
    BY ValuesHave
  <1> QED
    BY <1>1, NewInputMakes DEF Inputs!Plain

\* The selection of a role shows the role it was given.
LEMMA SelectMakes ==
    ASSUME NEW value \in Inputs!Values
    PROVE  LET i == Inputs!SelectRoleInput(value)
           IN  i \in Inputs!Input /\ i.value = value /\ i.placeholder = value /\ i.hasBox = FALSE
  BY NewInputMakes DEF Inputs!SelectRoleInput, Inputs!NewSelect

\* Resetting an input leaves it an input with the same box.
LEMMA ResetMakes ==
    ASSUME NEW i \in Inputs!Input
    PROVE  /\ Inputs!ResetInput(i) \in Inputs!Input /\ Inputs!ResetSelect(i) \in Inputs!Input
           /\ Inputs!ResetInput(i).hasBox = i.hasBox /\ Inputs!ResetSelect(i).hasBox = i.hasBox
           /\ Inputs!ResetInput(i).value = Empty
  BY ValuesHave DEF Inputs!ResetInput, Inputs!ResetSelect, Inputs!Input

\* A form that is opened, of any kind, has nothing pending and every input as it should be.
LEMMA BecomesRight ==
    ASSUME NEW kind \in DOMAIN Inputs!Fields, NEW new \in [Inputs!Fields[kind] -> Inputs!Input],
           StandFor(kind, new, {}), Inputs!Becomes(kind, new)
    PROVE  FormsInv'
  <1>1. form' = kind /\ inputs' = new /\ unfired' = {} /\ reading' = <<>> /\ formSent' = <<>>
    BY DEF Inputs!Becomes
  <1>2. Inputs!TypeOK' /\ (reading \in Seq(FormTexts))'
    BY <1>1 DEF Inputs!TypeOK
  <1> QED
    BY <1>1, <1>2 DEF FormsInv, InputsStandFor

\* No form has no inputs.
LEMMA NoFormOpens ==
    ASSUME Inputs!Becomes("none", <<>>)
    PROVE  FormsInv'
  <1>1. "none" \in DOMAIN Inputs!Fields /\ Inputs!Fields["none"] = {}
    BY DEF Inputs!Fields
  <1>2. <<>> \in [{} -> Inputs!Input]
    OBVIOUS
  <1>3. StandFor("none", <<>>, {})
    BY <1>1 DEF StandFor
  <1> QED
    BY <1>1, <1>2, <1>3, BecomesRight

\* The login opens with two plain inputs.
LEMMA LoginOpens ==
    ASSUME Inputs!OpenLogin
    PROVE  FormsInv'
  <1> DEFINE new == Inputs!ResetLogin(Inputs!NewLogin)
  <1>1. "login" \in DOMAIN Inputs!Fields /\ Inputs!Fields["login"] = {"name", "password"}
          /\ WithBox["login"] = {}
    BY DEF Inputs!Fields, WithBox
  <1>2. new = [f \in {"name", "password"} |-> Inputs!ResetInput(Inputs!Plain(Empty))]
    BY DEF Inputs!ResetLogin, Inputs!NewLogin
  <1>3. new \in [{"name", "password"} -> Inputs!Input]
          /\ \A f \in {"name", "password"} : new[f].hasBox = FALSE
    <2>1. Inputs!ResetInput(Inputs!Plain(Empty)) \in Inputs!Input
          /\ Inputs!ResetInput(Inputs!Plain(Empty)).hasBox = FALSE
      BY PlainMakes, ResetMakes, ValuesHave
    <2> QED
      BY <1>2, <2>1
  <1>4. StandFor("login", new, {})
    BY <1>1, <1>3 DEF StandFor
  <1>5. Inputs!Becomes("login", new)
    BY DEF Inputs!OpenLogin
  <1> QED
    BY <1>1, <1>3, <1>4, <1>5, BecomesRight

\* The form of a new user opens with plain inputs, and the selection of the role.
LEMMA AddUserOpens ==
    ASSUME Inputs!OpenAddUser
    PROVE  FormsInv'
  <1> DEFINE fields == {"name", "password", "role", "client_unique_id"}
             text == Inputs!ResetInput(Inputs!Plain(Empty))
             role == Inputs!ResetSelect(Inputs!SelectRoleInput("User"))
             id == Inputs!NewInput(Empty, TRUE, Empty)
             new == Inputs!ResetAddUser(Inputs!NewAddUser)
  <1>1. /\ "addUser" \in DOMAIN Inputs!Fields /\ Inputs!Fields["addUser"] = fields
        /\ WithBox["addUser"] = {"client_unique_id"}
    BY DEF Inputs!Fields, WithBox
  <1>2. text \in Inputs!Input /\ text.hasBox = FALSE /\ text.value = Empty
    BY PlainMakes, ResetMakes, ValuesHave
  <1>3. role \in Inputs!Input /\ role.hasBox = FALSE
    BY SelectMakes, ResetMakes, ValuesHave DEF Inputs!Roles
  <1>4. id \in Inputs!Input /\ id.hasBox = TRUE /\ id.disabled /\ ~id.checked /\ id.placeholder = Empty
    BY NewInputMakes, ValuesHave
  <1>5. new = [name |-> text, password |-> text, role |-> role, client_unique_id |-> id]
    <2> DEFINE plain == Inputs!Plain(Empty)
               chosen == Inputs!SelectRoleInput("User")
               made == Inputs!NewAddUser
    <2>1. made = [name |-> plain, password |-> plain, role |-> chosen, client_unique_id |-> id]
      BY DEF Inputs!NewAddUser
    <2>2. new = [made EXCEPT !.name = Inputs!ResetInput(made.name),
                             !.password = Inputs!ResetInput(made.password),
                             !.role = Inputs!ResetSelect(made.role)]
      BY DEF Inputs!ResetAddUser
    <2> HIDE DEF plain, chosen, made, id, new
    <2>3. new = [name |-> Inputs!ResetInput(plain), password |-> Inputs!ResetInput(plain),
                 role |-> Inputs!ResetSelect(chosen), client_unique_id |-> id]
      BY <2>1, <2>2
    <2> QED
      BY <2>3 DEF plain, chosen
  <1> HIDE DEF text, role, id, new
  <1>6. new \in [fields -> Inputs!Input]
    <2>1. text \in Inputs!Input /\ role \in Inputs!Input /\ id \in Inputs!Input
      BY <1>2, <1>3, <1>4
    <2>2. [name |-> text, password |-> text, role |-> role, client_unique_id |-> id]
              \in [fields -> Inputs!Input]
      BY <2>1
    <2> QED
      BY <1>5, <2>2
  <1>7. StandFor("addUser", new, {})
    BY <1>1, <1>2, <1>3, <1>4, <1>5 DEF StandFor
  <1>8. Inputs!Becomes("addUser", new)
    BY DEF Inputs!OpenAddUser, new
  <1> QED
    BY <1>1, <1>6, <1>7, <1>8, BecomesRight

\* The page of a user opens with the name and the role of that user, and boxes closed.
LEMMA UserPageOpens ==
    ASSUME Inputs!OpenUserPage
    PROVE  FormsInv'
  <1>1. PICK name \in FormTexts, id \in FormTexts, role \in Inputs!Roles :
           Inputs!Becomes("user", Inputs!NewUserPage([name |-> name, id |-> id, role |-> role]))
    BY DEF Inputs!OpenUserPage
  <1> DEFINE fields == {"name", "password", "role", "client_unique_id"}
             n == Inputs!SetEnabled(Inputs!Plain(name), FALSE)
             p == Inputs!SetEnabled(Inputs!NewInput(Empty, TRUE, Unchanged), FALSE)
             r == Inputs!SelectRoleInput(role)
             c == Inputs!Plain(id)
             new == Inputs!NewUserPage([name |-> name, id |-> id, role |-> role])
  <1>2. /\ "user" \in DOMAIN Inputs!Fields /\ Inputs!Fields["user"] = fields
        /\ WithBox["user"] = {"password"}
    BY DEF Inputs!Fields, WithBox
  <1>3. n \in Inputs!Input /\ n.hasBox = FALSE
    <2>1. Inputs!Plain(name) \in Inputs!Input /\ Inputs!Plain(name).hasBox = FALSE
      BY PlainMakes, ValuesHave
    <2> QED
      BY <2>1, SetEnabledMakes
  <1>4. p \in Inputs!Input /\ p.hasBox = TRUE /\ p.disabled /\ ~p.checked /\ p.placeholder = Unchanged
    <2> DEFINE i == Inputs!NewInput(Empty, TRUE, Unchanged)
    <2>1. i \in Inputs!Input /\ i.hasBox = TRUE /\ i.placeholder = Unchanged
      BY NewInputMakes, ValuesHave
    <2> HIDE DEF i
    <2>2. Inputs!SetEnabled(i, FALSE) \in Inputs!Input
          /\ Inputs!SetEnabled(i, FALSE).hasBox = TRUE
          /\ Inputs!SetEnabled(i, FALSE).disabled /\ ~Inputs!SetEnabled(i, FALSE).checked
          /\ Inputs!SetEnabled(i, FALSE).placeholder = Unchanged
      BY <2>1, SetEnabledMakes
    <2> QED
      BY <2>2 DEF i
  <1>5. r \in Inputs!Input /\ r.hasBox = FALSE
    BY SelectMakes, ValuesHave
  <1>6. c \in Inputs!Input /\ c.hasBox = FALSE
    BY PlainMakes, ValuesHave
  <1>7. new = [name |-> n, password |-> p, role |-> r, client_unique_id |-> c]
    BY DEF Inputs!NewUserPage
  <1> HIDE DEF n, p, r, c
  <1>8. new \in [fields -> Inputs!Input]
    BY <1>3, <1>4, <1>5, <1>6, <1>7
  <1>9. StandFor("user", new, {})
    BY <1>2, <1>3, <1>4, <1>5, <1>6, <1>7 DEF StandFor
  <1> QED
    BY <1>1, <1>2, <1>8, <1>9, BecomesRight

\* The form of the key opens with one plain input.
LEMMA KeycodeOpens ==
    ASSUME Inputs!OpenSendKeycode
    PROVE  FormsInv'
  <1> DEFINE k == Inputs!ResetInput(Inputs!Plain(Empty))
  <1>1. "keycode" \in DOMAIN Inputs!Fields /\ Inputs!Fields["keycode"] = {"key"} /\ WithBox["keycode"] = {}
    BY DEF Inputs!Fields, WithBox
  <1>2. k \in Inputs!Input /\ k.hasBox = FALSE
    BY PlainMakes, ResetMakes, ValuesHave
  <1>3. Inputs!SendKeycode = [key |-> k]
    BY DEF Inputs!SendKeycode
  <1> HIDE DEF k
  <1>4. Inputs!SendKeycode \in [{"key"} -> Inputs!Input] /\ Inputs!SendKeycode["key"].hasBox = FALSE
    BY <1>2, <1>3
  <1>5. StandFor("keycode", Inputs!SendKeycode, {})
    BY <1>1, <1>4 DEF StandFor
  <1> QED
    BY <1>1, <1>4, <1>5, BecomesRight DEF Inputs!OpenSendKeycode

\* What the form is made of, by its kind.
LEMMA FieldsOf ==
    ASSUME Inputs!TypeOK
    PROVE  /\ form \in {"none", "login", "addUser", "user", "keycode"}
           /\ form = "none" => Inputs!Fields[form] = {} /\ WithBox[form] = {}
           /\ form = "login" => Inputs!Fields[form] = {"name", "password"} /\ WithBox[form] = {}
           /\ form = "addUser" => Inputs!Fields[form] = {"name", "password", "role", "client_unique_id"}
                                  /\ WithBox[form] = {"client_unique_id"}
           /\ form = "user" => Inputs!Fields[form] = {"name", "password", "role", "client_unique_id"}
                               /\ WithBox[form] = {"password"}
           /\ form = "keycode" => Inputs!Fields[form] = {"key"} /\ WithBox[form] = {}
  BY DEF Inputs!TypeOK, Inputs!Fields, WithBox

\* An input that changes keeps its box, and with it what it stands for.
LEMMA InputChanges ==
    ASSUME FormsInv, NEW f \in Inputs!Fields[form], NEW i \in Inputs!Input,
           i.hasBox = inputs[f].hasBox, i.hasBox => (i.disabled <=> ~i.checked),
           f = "name" /\ form = "addUser" => i.value = inputs[f].value \/ "name" \in unfired',
           f = "client_unique_id" /\ form = "addUser" /\ "name" \notin unfired' =>
               i.placeholder = inputs["name"].value,
           f = "password" /\ form = "user" => i.placeholder = inputs[f].placeholder,
           inputs' = [inputs EXCEPT ![f] = i], form' = form,
           unfired' \in SUBSET Inputs!Fields[form],
           "name" \in unfired /\ f # "client_unique_id" => "name" \in unfired'
    PROVE  (inputs \in [Inputs!Fields[form] -> Inputs!Input])' /\ InputsStandFor'
  <1>1. inputs \in [Inputs!Fields[form] -> Inputs!Input]
    BY DEF FormsInv, Inputs!TypeOK
  <1>2. inputs' \in [Inputs!Fields[form] -> Inputs!Input]
    BY <1>1
  <1>3. ASSUME NEW g \in Inputs!Fields[form]
        PROVE  /\ inputs'[g].hasBox <=> g \in WithBox[form]
               /\ inputs'[g].hasBox => (inputs'[g].disabled <=> ~inputs'[g].checked)
    BY <1>1 DEF FormsInv, InputsStandFor, StandFor
  <1>4. form = "addUser" /\ "name" \notin unfired' =>
            inputs'["client_unique_id"].placeholder = inputs'["name"].value
    <2> SUFFICES ASSUME form = "addUser", "name" \notin unfired'
                 PROVE  inputs'["client_unique_id"].placeholder = inputs'["name"].value
      OBVIOUS
    <2>1. {"name", "client_unique_id"} \subseteq Inputs!Fields[form]
      BY FieldsOf DEF FormsInv
    <2>2. CASE f = "client_unique_id"
      BY <1>1, <2>1, <2>2
    <2>3. CASE f # "client_unique_id"
      <3>1. inputs["client_unique_id"].placeholder = inputs["name"].value
        BY <2>3 DEF FormsInv, InputsStandFor, StandFor
      <3> QED
        BY <1>1, <2>1, <2>3, <3>1
    <2> QED
      BY <2>2, <2>3
  <1>5. form = "user" => inputs'["password"].placeholder = Unchanged
    <2> SUFFICES ASSUME form = "user"
                 PROVE  inputs'["password"].placeholder = Unchanged
      OBVIOUS
    <2>1. "password" \in Inputs!Fields[form]
      BY FieldsOf DEF FormsInv
    <2>2. inputs["password"].placeholder = Unchanged
      BY DEF FormsInv, InputsStandFor, StandFor
    <2> QED
      BY <1>1, <2>1, <2>2
  <1> QED
    BY <1>2, <1>3, <1>4, <1>5 DEF InputsStandFor, StandFor

\* Typing changes the text of one input.
LEMMA TypeKeeps ==
    ASSUME FormsInv, NEW f \in DOMAIN inputs, NEW v \in Inputs!Choices(f), Inputs!Type(f, v)
    PROVE  FormsInv'
  <1>1. f \in Inputs!Fields[form] /\ inputs[f] \in Inputs!Input
    BY DEF FormsInv, Inputs!TypeOK
  <1>2. v \in Inputs!Values
    BY ValuesHave DEF Inputs!Choices
  <1> DEFINE i == [inputs[f] EXCEPT !.value = v]
  <1>3. /\ i \in Inputs!Input /\ i.hasBox = inputs[f].hasBox /\ i.disabled = inputs[f].disabled
        /\ i.checked = inputs[f].checked /\ i.placeholder = inputs[f].placeholder
    BY <1>1, <1>2 DEF Inputs!Input
  <1>4. /\ inputs' = [inputs EXCEPT ![f] = i] /\ unfired' = unfired \cup {f}
        /\ UNCHANGED <<form, reading, formSent>>
    BY DEF Inputs!Type
  <1> HIDE DEF i
  <1>5. i.hasBox => (i.disabled <=> ~i.checked)
    BY <1>1, <1>3 DEF FormsInv, InputsStandFor, StandFor
  <1>6. unfired' \in SUBSET Inputs!Fields[form]
    BY <1>1, <1>4 DEF FormsInv, Inputs!TypeOK
  <1>7. f = "client_unique_id" /\ form = "addUser" /\ "name" \notin unfired' =>
            i.placeholder = inputs["name"].value
    BY <1>3, <1>4 DEF FormsInv, InputsStandFor, StandFor
  <1>8. (inputs \in [Inputs!Fields[form] -> Inputs!Input])' /\ InputsStandFor'
    BY <1>1, <1>3, <1>4, <1>5, <1>6, <1>7, InputChanges
  <1> QED
    BY <1>4, <1>6, <1>8 DEF FormsInv, Inputs!TypeOK

\* Ticking the box enables the input, or disables it again.
LEMMA TickKeeps ==
    ASSUME FormsInv, NEW f \in DOMAIN inputs, Inputs!Tick(f)
    PROVE  FormsInv'
  <1>1. f \in Inputs!Fields[form] /\ inputs[f] \in Inputs!Input
    BY DEF FormsInv, Inputs!TypeOK
  <1>2. (~inputs[f].checked) \in BOOLEAN
    OBVIOUS
  <1> DEFINE i == Inputs!SetEnabled(inputs[f], ~inputs[f].checked)
  <1>3. /\ i \in Inputs!Input /\ i.hasBox = inputs[f].hasBox /\ i.value = inputs[f].value
        /\ i.placeholder = inputs[f].placeholder
        /\ i.checked <=> inputs[f].hasBox /\ ~inputs[f].checked
        /\ i.disabled <=> ~(~inputs[f].checked)
    BY <1>1, <1>2, SetEnabledMakes
  <1>4. /\ inputs' = [inputs EXCEPT ![f] = i] /\ inputs[f].hasBox
        /\ UNCHANGED <<form, unfired, reading, formSent>>
    BY DEF Inputs!Tick
  <1> HIDE DEF i
  <1>5. i.hasBox => (i.disabled <=> ~i.checked)
    BY <1>3, <1>4
  <1>6. unfired' \in SUBSET Inputs!Fields[form]
    BY <1>4 DEF FormsInv, Inputs!TypeOK
  <1>7. f = "client_unique_id" /\ form = "addUser" /\ "name" \notin unfired' =>
            i.placeholder = inputs["name"].value
    BY <1>3, <1>4 DEF FormsInv, InputsStandFor, StandFor
  <1>8. (inputs \in [Inputs!Fields[form] -> Inputs!Input])' /\ InputsStandFor'
    BY <1>1, <1>3, <1>4, <1>5, <1>6, <1>7, InputChanges
  <1> QED
    BY <1>4, <1>6, <1>8 DEF FormsInv, Inputs!TypeOK

\* The change event of an input comes once, and after it the text is what was typed.
LEMMA ChangeKeeps ==
    ASSUME FormsInv, NEW f \in DOMAIN inputs, Inputs!Change(f)
    PROVE  FormsInv'
  <1>1. inputs \in [Inputs!Fields[form] -> Inputs!Input] /\ unfired' \in SUBSET Inputs!Fields[form]
    BY DEF FormsInv, Inputs!TypeOK, Inputs!Change
  <1>2. f \in unfired /\ unfired' = unfired \ {f} /\ UNCHANGED <<form, reading, formSent>>
    BY DEF Inputs!Change
  <1>3. CASE f = "name" /\ form = "addUser"
    <2> DEFINE i == [inputs["client_unique_id"] EXCEPT !.placeholder = inputs["name"].value]
    <2>1. {"name", "client_unique_id"} \subseteq Inputs!Fields[form]
      BY <1>3, FieldsOf DEF FormsInv
    <2>2. inputs["client_unique_id"] \in Inputs!Input /\ inputs["name"].value \in Inputs!Values
      BY <1>1, <2>1 DEF Inputs!Input
    <2>3. /\ i \in Inputs!Input /\ i.placeholder = inputs["name"].value
          /\ i.hasBox = inputs["client_unique_id"].hasBox
          /\ i.disabled = inputs["client_unique_id"].disabled
          /\ i.checked = inputs["client_unique_id"].checked
      BY <2>2 DEF Inputs!Input
    <2>4. inputs' = [inputs EXCEPT !["client_unique_id"] = i]
      BY <1>3 DEF Inputs!Change, Inputs!UpdateClientUniqueId
    <2> HIDE DEF i
    <2>5. i.hasBox => (i.disabled <=> ~i.checked)
      BY <2>1, <2>3 DEF FormsInv, InputsStandFor, StandFor
    <2>6. (inputs \in [Inputs!Fields[form] -> Inputs!Input])' /\ InputsStandFor'
      BY <1>1, <1>2, <1>3, <2>1, <2>3, <2>4, <2>5, InputChanges
    <2> QED
      BY <1>1, <1>2, <2>6 DEF FormsInv, Inputs!TypeOK
  <1>4. CASE ~(f = "name" /\ form = "addUser")
    <2>1. inputs' = inputs
      BY <1>4 DEF Inputs!Change, Inputs!UpdateClientUniqueId
    <2>2. InputsStandFor'
      BY <1>2, <1>4, <2>1 DEF FormsInv, InputsStandFor, StandFor
    <2> QED
      BY <1>1, <1>2, <2>1, <2>2 DEF FormsInv, Inputs!TypeOK
  <1> QED
    BY <1>3, <1>4

\* A file is read later, and its text replaces what was typed.
LEMMA FilesKeep ==
    ASSUME FormsInv,
           \/ \E t \in FormTexts : Inputs!ChooseFile(t)
           \/ \E i \in DOMAIN reading : Inputs!FileRead(i)
    PROVE  FormsInv'
  <1>1. CASE \E t \in FormTexts : Inputs!ChooseFile(t)
    <2>1. reading' \in Seq(FormTexts) /\ UNCHANGED <<form, inputs, unfired, formSent>>
      BY <1>1 DEF Inputs!ChooseFile, FormsInv
    <2>2. \A i \in DOMAIN reading' : reading'[i] \in FormTexts
      BY <2>1
    <2> QED
      BY <2>1, <2>2 DEF FormsInv, Inputs!TypeOK, InputsStandFor
  <1>2. CASE \E i \in DOMAIN reading : Inputs!FileRead(i)
    <2>1. PICK i \in DOMAIN reading : Inputs!FileRead(i)
      BY <1>2
    <2>2. i \in 1..Len(reading) /\ Len(reading) \in Nat /\ reading[i] \in FormTexts
      BY DEF FormsInv
    <2>3. UNCHANGED <<form, unfired, formSent>> /\ inputs' = [inputs EXCEPT !.password.value = reading[i]]
      BY <2>1 DEF Inputs!FileRead
    <2>4. reading' \in Seq(FormTexts)
      <3>1. SubSeq(reading, 1, i - 1) \in Seq(FormTexts)
        BY <2>2, SubSeqProperties DEF FormsInv
      <3>2. SubSeq(reading, i + 1, Len(reading)) \in Seq(FormTexts)
        BY <2>2, SubSeqProperties DEF FormsInv
      <3>3. reading' = SubSeq(reading, 1, i - 1) \o SubSeq(reading, i + 1, Len(reading))
        BY <2>1 DEF Inputs!FileRead
      <3> QED
        BY <3>1, <3>2, <3>3, ConcatProperties
    <2>5. \A j \in DOMAIN reading' : reading'[j] \in FormTexts
      BY <2>4
    <2>6. inputs \in [Inputs!Fields[form] -> Inputs!Input] /\ unfired \in SUBSET Inputs!Fields[form]
      BY DEF FormsInv, Inputs!TypeOK
    <2>7. (inputs \in [Inputs!Fields[form] -> Inputs!Input])' /\ InputsStandFor'
      <3>1. CASE "password" \in Inputs!Fields[form]
        <4> DEFINE n == [inputs["password"] EXCEPT !.value = reading[i]]
        <4>1. inputs["password"] \in Inputs!Input /\ reading[i] \in Inputs!Values
          BY <2>2, <2>6, <3>1, ValuesHave
        <4>2. /\ n \in Inputs!Input /\ n.placeholder = inputs["password"].placeholder
              /\ n.hasBox = inputs["password"].hasBox /\ n.disabled = inputs["password"].disabled
              /\ n.checked = inputs["password"].checked
          BY <4>1 DEF Inputs!Input
        <4>3. inputs' = [inputs EXCEPT !["password"] = n]
          BY <2>3
        <4> HIDE DEF n
        <4>4. n.hasBox => (n.disabled <=> ~n.checked)
          BY <3>1, <4>2 DEF FormsInv, InputsStandFor, StandFor
        <4> QED
          BY <2>3, <2>6, <3>1, <4>2, <4>3, <4>4, InputChanges
      <3>2. CASE "password" \notin Inputs!Fields[form]
        <4>1. inputs' = inputs
          BY <2>3, <2>6, <3>2
        <4> QED
          BY <2>3, <2>6, <4>1 DEF FormsInv, InputsStandFor
      <3> QED
        BY <3>1, <3>2
    <2> QED
      BY <2>3, <2>4, <2>5, <2>6, <2>7 DEF FormsInv, Inputs!TypeOK
  <1> QED
    BY <1>1, <1>2

\* What a form sends: each of its fields, as it is shown.
LEMMA SubmitSends ==
    ASSUME FormsInv, Inputs!Submit
    PROVE  \A f \in DOMAIN formSent' :
              /\ f \in Inputs!Fields[form] /\ formSent'[f] \in Inputs!Values
              /\ formSent'[f] = IF f = "key" THEN Inputs!Chosen(inputs.key.value)
                                            ELSE Inputs!Shown(inputs[f])
  <1>1. /\ inputs \in [Inputs!Fields[form] -> Inputs!Input] /\ InputsStandFor
        /\ form # "none" /\ unfired = {}
    BY DEF FormsInv, Inputs!TypeOK, Inputs!Submit
  <1>2. \A f \in Inputs!Fields[form] : /\ inputs[f].value \in Inputs!Values
                                        /\ inputs[f].placeholder \in Inputs!Values
    BY <1>1 DEF Inputs!Input
  <1>3. CASE form = "login"
    <2>1. formSent' = [name |-> inputs["name"].value, password |-> inputs["password"].value]
      BY <1>3 DEF Inputs!Submit, Inputs!LoginAnswer
    <2>2. Inputs!Fields[form] = {"name", "password"} /\ ~inputs["name"].hasBox
            /\ ~inputs["password"].hasBox
      BY <1>1, <1>3, FieldsOf DEF FormsInv, InputsStandFor, StandFor
    <2> QED
      BY <1>2, <2>1, <2>2 DEF Inputs!Shown
  <1>4. CASE form = "addUser"
    <2>1. /\ Inputs!Fields[form] = {"name", "password", "role", "client_unique_id"}
          /\ ~inputs["name"].hasBox /\ ~inputs["password"].hasBox /\ ~inputs["role"].hasBox
          /\ inputs["client_unique_id"].hasBox
          /\ inputs["client_unique_id"].disabled <=> ~inputs["client_unique_id"].checked
          /\ inputs["client_unique_id"].placeholder = inputs["name"].value
      BY <1>1, <1>4, FieldsOf DEF FormsInv, InputsStandFor, StandFor
    <2>2. formSent' = [name |-> inputs["name"].value, password |-> inputs["password"].value,
                       role |-> inputs["role"].value,
                       client_unique_id |-> IF ~inputs["client_unique_id"].disabled
                                            THEN inputs["client_unique_id"].value
                                            ELSE inputs["name"].value]
      BY <1>4 DEF Inputs!Submit, Inputs!AddUserAnswer
    <2> QED
      BY <1>2, <2>1, <2>2 DEF Inputs!Shown
  <1>5. CASE form = "user"
    <2>1. /\ Inputs!Fields[form] = {"name", "password", "role", "client_unique_id"}
          /\ ~inputs["name"].hasBox /\ ~inputs["role"].hasBox /\ ~inputs["client_unique_id"].hasBox
          /\ inputs["password"].hasBox
          /\ inputs["password"].disabled <=> ~inputs["password"].checked
          /\ inputs["password"].placeholder = Unchanged
      BY <1>1, <1>5, FieldsOf DEF FormsInv, InputsStandFor, StandFor
    <2>2. formSent' = [password |-> IF ~inputs["password"].disabled THEN inputs["password"].value
                                    ELSE Unchanged,
                       role |-> inputs["role"].value,
                       client_unique_id |-> inputs["client_unique_id"].value]
      BY <1>5 DEF Inputs!Submit, Inputs!ApplyRequest
    <2> QED
      BY <1>2, <2>1, <2>2 DEF Inputs!Shown
  <1>6. CASE form = "keycode"
    <2>1. formSent' = [key |-> Inputs!Chosen(inputs["key"].value)]
      BY <1>6 DEF Inputs!Submit, Inputs!KeycodeAnswer
    <2>2. Inputs!Fields[form] = {"key"}
      BY <1>6, FieldsOf DEF FormsInv
    <2>3. Inputs!Chosen(inputs["key"].value) \in Inputs!Values
      BY ValuesHave DEF Inputs!Chosen, Inputs!Values
    <2> QED
      BY <2>1, <2>2, <2>3
  <1> QED
    BY <1>1, <1>3, <1>4, <1>5, <1>6, FieldsOf DEF FormsInv

\* Every step keeps the forms right.
LEMMA FormsKeeps ==
    ASSUME FormsInv, Inputs!Next
    PROVE  FormsInv'
  <1>1. CASE form = "none" /\ (Inputs!OpenLogin \/ Inputs!OpenAddUser \/ Inputs!OpenUserPage
                                \/ Inputs!OpenSendKeycode)
    BY <1>1, LoginOpens, AddUserOpens, UserPageOpens, KeycodeOpens
  <1>2. CASE Inputs!Edit
    BY <1>2, ChangeKeeps, TickKeeps, TypeKeeps, FilesKeep DEF Inputs!Edit
  <1>3. CASE Inputs!Submit
    <2>1. UNCHANGED <<form, inputs, unfired, reading>>
      BY <1>3 DEF Inputs!Submit
    <2> QED
      BY <1>3, <2>1, SubmitSends DEF FormsInv, Inputs!TypeOK, InputsStandFor
  <1>4. CASE Inputs!Leave
    BY <1>4, NoFormOpens DEF Inputs!Leave
  <1> QED
    BY <1>1, <1>2, <1>3, <1>4 DEF Inputs!Next

\* No form is open at the start.
LEMMA FormsInit ==
    ASSUME Inputs!Init
    PROVE  FormsInv
  <1>1. "none" \in DOMAIN Inputs!Fields /\ Inputs!Fields["none"] = {}
    BY DEF Inputs!Fields
  <1>2. Inputs!TypeOK /\ reading \in Seq(FormTexts)
    BY <1>1 DEF Inputs!Init, Inputs!TypeOK
  <1>3. InputsStandFor
    BY <1>1 DEF Inputs!Init, InputsStandFor, StandFor
  <1> QED
    BY <1>2, <1>3 DEF FormsInv

\* The answer of a form changes when it is submitted, and is forgotten with the form.
LEMMA FormsSend ==
    ASSUME FormsInv, Inputs!Next, formSent' # formSent
    PROVE  \A f \in DOMAIN formSent' :
              formSent'[f] = IF f = "key" THEN Inputs!Chosen(inputs.key.value)
                                          ELSE Inputs!Shown(inputs[f])
  <1>1. CASE Inputs!Submit
    BY <1>1, SubmitSends
  <1>2. CASE ~Inputs!Submit
    <2>1. formSent' = <<>>
      BY <1>2 DEF Inputs!Next, Inputs!OpenLogin, Inputs!OpenAddUser, Inputs!OpenUserPage,
         Inputs!OpenSendKeycode,
           Inputs!Becomes, Inputs!Leave, Inputs!Edit, Inputs!Change, Inputs!Tick, Inputs!Type,
           Inputs!ChooseFile,
           Inputs!FileRead
    <2> QED
      BY <2>1
  <1> QED
    BY <1>1, <1>2

-------------------------------------------------------------------------------
(* Messages in buffers *)

Kinds == {"key", "text", "move", "position", "button", "wheel", "touch", "rumble", "id", "in", "out"}
Field == Kinds \X (1..8)

\* The buffer of a packet that went out begins at its start, and holds what it counts.
WellFilled ==
    /\ small.position <= Len(small.fields)
    /\ ~unsent => small.position = 0

\* What is given to the listeners, and what each of them was given, is the message received.
WhatIsHeard ==
    /\ hearing.data \in {<<>>, Buffers!Fields("in", 3)}
    /\ hearing.left # 0 => hearing.data # <<>>
    /\ heard \in Seq(Seq(Field))

BuffersInv ==
    /\ Buffers!TypeOK /\ hearing \in [data : Seq(Field), left : Nat]
    /\ WellFilled /\ WhatIsHeard /\ Buffers!MessagesSurvive

\* A buffer is a list of fields with a position and a limit within its size.
LEMMA BuffersAre ==
    Buffers!Buffers = [fields : Seq(Field), position : 0..MaxFields, limit : 0..MaxFields]
  BY DEF Buffers!Buffers, Field, Kinds

\* The fields of a message are as many as asked for, and in order.
LEMMA FieldsTyped ==
    ASSUME NEW k \in Kinds, NEW n \in 0..8
    PROVE  Buffers!Fields(k, n) \in Seq(Field) /\ Len(Buffers!Fields(k, n)) = n
  <1>1. Buffers!Fields(k, n) \in [1..n -> Field]
    BY DEF Buffers!Fields, Field
  <1>2. n \in Nat
    OBVIOUS
  <1> HIDE DEF Field
  <1> QED
    BY <1>1, <1>2

\* No message has more than eight fields, and a text has three.
LEMMA MessagesTyped ==
    ASSUME NEW k \in {"key", "text", "move", "position", "button", "wheel", "touch", "rumble"}
    PROVE  /\ Buffers!Message(k) \in Seq(Field) /\ Len(Buffers!Message(k)) \in 1..8
           /\ k = "text" => Len(Buffers!Message(k)) = 3
  <1>1. Buffers!Length[k] \in 1..8 /\ (k = "text" => Buffers!Length[k] = 3)
    BY DEF Buffers!Length
  <1>2. k \in Kinds
    BY DEF Kinds
  <1> QED
    BY <1>1, <1>2, FieldsTyped DEF Buffers!Message

\* What is put behind the position of a buffer and flipped is what was there and the new.
LEMMA PutAndFlipped ==
    ASSUME BuffersConstants, NEW b \in Buffers!Buffers, b.position <= Len(b.fields),
           NEW m \in Seq(Field), b.position + Len(m) <= MaxFields
    PROVE  LET p == Buffers!Put(b, m)
               f == Buffers!Flip(p)
           IN  /\ p \in Buffers!Buffers /\ f \in Buffers!Buffers
               /\ p.position = b.position + Len(m) /\ p.position = Len(p.fields)
               /\ f.position = 0 /\ f.limit = b.position + Len(m)
               /\ Buffers!Remaining(f) = SubSeq(b.fields, 1, b.position) \o m
               /\ f.fields = SubSeq(b.fields, 1, b.position) \o m
  <1> DEFINE p == Buffers!Put(b, m)
             f == Buffers!Flip(p)
             s == SubSeq(b.fields, 1, b.position)
             w == s \o m
             n == b.position
  <1>1. /\ n \in Nat /\ n <= MaxFields /\ Len(m) \in Nat /\ MaxFields \in Nat
        /\ b.fields \in Seq(Field) /\ b.limit \in 0..MaxFields
    BY BuffersAre DEF BuffersConstants
  <1>2. s \in Seq(Field) /\ Len(s) = n
    <2>1. \A i \in 1..n : b.fields[i] \in Field
      BY <1>1
    <2> QED
      BY <1>1, <2>1, SubSeqProperties
  <1> HIDE DEF s
  <1>3. w \in Seq(Field) /\ Len(w) = n + Len(m)
    BY <1>1, <1>2, ConcatProperties
  <1>4. SubSeq(w, 1, n + Len(m)) = w
    BY <1>3, SubSeqFull
  <1> HIDE DEF w, n
  <1>5. p = [b EXCEPT !.fields = w, !.position = n + Len(m)]
    BY DEF Buffers!Put, w, s, n
  <1>6. 0 \in 0..MaxFields /\ n + Len(m) \in 0..MaxFields
    BY <1>1 DEF n
  <1> HIDE DEF p
  <1>7. p \in Buffers!Buffers /\ p.fields = w /\ p.position = n + Len(m)
    BY <1>3, <1>5, <1>6, BuffersAre
  <1>8. f = [p EXCEPT !.limit = p.position, !.position = 0]
    BY DEF Buffers!Flip
  <1> HIDE DEF f
  <1>9. /\ f \in Buffers!Buffers /\ f.fields = w
        /\ f.position = 0 /\ f.limit = n + Len(m)
    BY <1>3, <1>6, <1>7, <1>8, BuffersAre
  <1>10. Buffers!Remaining(f) = w
    <2>1. 0 + 1 = 1
      OBVIOUS
    <2> QED
      BY <1>4, <1>9, <2>1 DEF Buffers!Remaining
  <1> QED
    BY <1>3, <1>7, <1>9, <1>10 DEF p, f, w, s, n

\* A message that is put into a buffer that was reset is all there is in it.
LEMMA Alone ==
    ASSUME BuffersConstants, NEW b \in Buffers!Buffers, NEW m \in Seq(Field), Len(m) <= MaxFields
    PROVE  LET p == Buffers!Put(Buffers!Reset(b), m)
               f == Buffers!Flip(p)
           IN  /\ p \in Buffers!Buffers /\ f \in Buffers!Buffers
               /\ p.position = Len(m) /\ p.position = Len(p.fields)
               /\ f.position = 0 /\ f.limit = Len(m) /\ f.fields = m
               /\ Buffers!Remaining(f) = m
  <1> DEFINE r == Buffers!Reset(b)
  <1>1. /\ r \in Buffers!Buffers /\ r.position = 0
        /\ r.fields = b.fields /\ r.fields \in Seq(Field)
    <2>1. r = [b EXCEPT !.position = 0, !.limit = 0] /\ 0 \in 0..MaxFields
      BY DEF Buffers!Reset, BuffersConstants
    <2> HIDE DEF r
    <2> QED
      BY <2>1, BuffersAre
  <1>2. r.position <= Len(r.fields) /\ r.position + Len(m) <= MaxFields
    BY <1>1
  <1>3. SubSeq(r.fields, 1, r.position) = <<>>
    BY <1>1, SubSeqEmpty
  <1>4. <<>> \o m = m
    BY ConcatEmptySeq
  <1> HIDE DEF r
  <1>5. LET p == Buffers!Put(r, m)
            f == Buffers!Flip(p)
        IN  /\ p \in Buffers!Buffers /\ f \in Buffers!Buffers
            /\ p.position = r.position + Len(m) /\ p.position = Len(p.fields)
            /\ f.position = 0 /\ f.limit = r.position + Len(m)
            /\ Buffers!Remaining(f) = SubSeq(r.fields, 1, r.position) \o m
            /\ f.fields = SubSeq(r.fields, 1, r.position) \o m
    BY <1>1, <1>2, PutAndFlipped
  <1> QED
    BY <1>1, <1>3, <1>4, <1>5 DEF r

\* The buffers start empty, and nothing was sent.
LEMMA BuffersInit == ASSUME BuffersConstants, Buffers!Init PROVE BuffersInv
  <1>1. /\ channels \in BOOLEAN /\ unsent \in BOOLEAN
        /\ small = Buffers!EmptyBuffer /\ big = Buffers!EmptyBuffer /\ bufferSent = Buffers!Nothing
        /\ hearing = [data |-> <<>>, left |-> 0] /\ heard = <<>>
    BY Zenon DEF Buffers!Init
  <1>2. small \in Buffers!Buffers /\ small.position = 0 /\ small.fields = <<>> /\ big \in Buffers!Buffers
    BY <1>1, BuffersAre DEF Buffers!EmptyBuffer, BuffersConstants
  <1>3. /\ bufferSent.kind = "none" /\ bufferSent.afterUnsent = FALSE
        /\ bufferSent.fields = <<>>
    BY <1>1 DEF Buffers!Nothing
  <1>4. Buffers!TypeOK
    <2>1. bufferSent.kind = "none" /\ bufferSent.afterUnsent \in BOOLEAN
          /\ Len(bufferSent.fields) <= MaxFields
      <3>1. MaxFields \in Nat /\ Len(<<>>) = 0
        BY DEF BuffersConstants
      <3>2. bufferSent.afterUnsent \in BOOLEAN
        BY <1>3, Zenon
      <3> QED
        BY <1>3, <3>1, <3>2
    <2>2. hearing.left \in 0..Listeners /\ hearing.data = <<>> /\ Len(heard) = 0
      BY <1>1 DEF BuffersConstants
    <2> QED
      BY <1>1, <1>2, <2>1, <2>2 DEF Buffers!TypeOK
  <1>5. WellFilled /\ WhatIsHeard
    BY <1>1, <1>2 DEF WellFilled, WhatIsHeard
  <1>6. Buffers!MessagesSurvive
    BY <1>1, <1>3 DEF Buffers!MessagesSurvive, Buffers!PacketsAreWhole, Buffers!MeansTheSame,
                      Buffers!ListenersHearAll
  <1> QED
    BY <1>1, <1>4, <1>5, <1>6 DEF BuffersInv

\* A packet of StreamInput: it is given up, or all of it goes out, behind nothing but what
\* a text finds in the buffer.
LEMMA PacketKeeps ==
    ASSUME BuffersConstants, BuffersInv, NEW b \in Buffers!Buffers, NEW m \in Seq(Field),
           NEW kind \in {"key", "text", "move", "position", "button", "wheel", "touch"},
           NEW value, NEW meant,
           b.position = Len(b.fields),
           Buffers!Flip(b) \in Buffers!Buffers, Buffers!Flip(b).position = 0,
           Len(Buffers!Remaining(Buffers!Flip(b))) <= MaxFields,
           ~(kind = "text" /\ unsent) =>
               Buffers!Remaining(Buffers!Flip(b)) = Buffers!Message(kind),
           kind = "text" => Buffers!EndsWithText(Buffers!Remaining(Buffers!Flip(b))),
           kind = "wheel" /\ meant \in -128..127 => value = meant,
           kind = "text" /\ meant.units = meant.chars /\ meant.units < 256 => value = meant.units,
           Buffers!TrySendChannel(b, kind, value, meant) \/ Buffers!GiveUp(b)
    PROVE  BuffersInv'
  <1>1. CASE Buffers!GiveUp(b)
    <2>1. /\ small' = b /\ unsent' \in BOOLEAN /\ unsent'
          /\ UNCHANGED <<channels, bufferSent, big, hearing, heard>>
      BY <1>1, Zenon DEF Buffers!GiveUp
    <2>2. Buffers!TypeOK'
      BY <2>1 DEF BuffersInv, Buffers!TypeOK
    <2>3. Len(b.fields) \in Nat
      BY BuffersAre
    <2>4. WellFilled'
      BY <2>1, <2>3 DEF WellFilled
    <2>5. WhatIsHeard' /\ Buffers!MessagesSurvive'
      BY <2>1 DEF BuffersInv, WhatIsHeard, Buffers!MessagesSurvive, Buffers!PacketsAreWhole,
                  Buffers!MeansTheSame, Buffers!ListenersHearAll
    <2> QED
      BY <2>1, <2>2, <2>4, <2>5 DEF BuffersInv
  <1>2. CASE ~Buffers!GiveUp(b)
    <2> DEFINE f == Buffers!Flip(b)
    <2>1. /\ small' = f /\ unsent' \in BOOLEAN /\ ~unsent'
          /\ bufferSent' = [kind |-> kind, fields |-> Buffers!Remaining(f), value |-> value,
                            meant |-> meant, afterUnsent |-> unsent]
          /\ UNCHANGED <<channels, big, hearing, heard>>
      BY <1>2, Zenon DEF Buffers!TrySendChannel
    <2>2. /\ bufferSent'.kind = kind /\ bufferSent'.fields = Buffers!Remaining(f)
          /\ bufferSent'.value = value /\ bufferSent'.meant = meant
          /\ bufferSent'.afterUnsent = unsent
      BY <2>1
    <2>3. unsent \in BOOLEAN
      BY DEF BuffersInv, Buffers!TypeOK
    <2>4. kind \in DOMAIN Buffers!Length
      BY DEF Buffers!Length
    <2> HIDE DEF f
    <2>5. Buffers!TypeOK'
      BY <2>1, <2>2, <2>3, <2>4 DEF BuffersInv, Buffers!TypeOK, f
    <2>6. f \in Buffers!Buffers /\ f.position = 0 /\ Len(f.fields) \in Nat
      BY BuffersAre DEF f
    <2>7. WellFilled'
      BY <2>1, <2>6 DEF WellFilled
    <2>8. WhatIsHeard' /\ Buffers!ListenersHearAll'
      BY <2>1 DEF BuffersInv, WhatIsHeard, Buffers!MessagesSurvive, Buffers!ListenersHearAll
    <2>9. Buffers!PacketsAreWhole'
      <3>1. bufferSent'.kind = "text" => Buffers!EndsWithText(bufferSent'.fields)
        BY <2>2 DEF f
      <3>2. bufferSent'.kind # "none" /\ ~(bufferSent'.kind = "text" /\ bufferSent'.afterUnsent)
              => bufferSent'.fields = Buffers!Message(bufferSent'.kind)
        BY <2>2, <2>3 DEF f
      <3> QED
        BY <3>1, <3>2, Zenon DEF Buffers!PacketsAreWhole
    <2>10. Buffers!MeansTheSame'
      BY <2>2 DEF Buffers!MeansTheSame
    <2> QED
      BY <2>1, <2>5, <2>7, <2>8, <2>9, <2>10 DEF BuffersInv, Buffers!MessagesSurvive
  <1> QED
    BY <1>1, <1>2

\* All packets but texts begin with reset().
LEMMA PreparedKeeps ==
    ASSUME BuffersConstants, BuffersInv,
           NEW kind \in {"key", "move", "position", "button", "wheel", "touch"},
           NEW value, NEW meant, kind = "wheel" /\ meant \in -128..127 => value = meant,
           \/ Buffers!TrySendChannel(Buffers!Prepared(kind), kind, value, meant)
           \/ Buffers!GiveUp(Buffers!Prepared(kind))
    PROVE  BuffersInv'
  <1> DEFINE m == Buffers!Message(kind)
             b == Buffers!Prepared(kind)
             f == Buffers!Flip(b)
  <1>1. m \in Seq(Field) /\ Len(m) \in 1..8 /\ Len(m) <= MaxFields
    <2>1. m \in Seq(Field) /\ Len(m) \in 1..8
      BY MessagesTyped, Zenon
    <2> HIDE DEF m
    <2>2. MaxFields \in Nat /\ MaxFields >= 8
      BY DEF BuffersConstants
    <2>3. \A n \in 1..8 : n <= MaxFields
      BY <2>2
    <2> QED
      BY <2>1, <2>3, Zenon
  <1>2. small \in Buffers!Buffers
    BY DEF BuffersInv, Buffers!TypeOK
  <1>3. /\ b \in Buffers!Buffers /\ f \in Buffers!Buffers
        /\ b.position = Len(m) /\ b.position = Len(b.fields)
        /\ f.position = 0 /\ f.limit = Len(m) /\ f.fields = m
        /\ Buffers!Remaining(f) = m
    BY <1>1, <1>2, Alone, Zenon DEF Buffers!Prepared
  <1> HIDE DEF m, b
  <1>4. Buffers!Remaining(f) = Buffers!Message(kind) /\ Len(Buffers!Remaining(f)) <= MaxFields
    BY <1>1, <1>3 DEF m
  <1> QED
    <2>1. kind # "text" /\ kind \in {"key", "text", "move", "position", "button", "wheel", "touch"}
      OBVIOUS
    <2>2. Buffers!TrySendChannel(b, kind, value, meant) \/ Buffers!GiveUp(b)
      BY DEF b
    <2> QED
      BY <1>1, <1>3, <1>4, <2>1, <2>2, PacketKeeps, Zenon

\* A touch that is given up in the middle leaves a buffer the next message resets.
LEMMA TouchGivenUp ==
    ASSUME BuffersConstants, BuffersInv,
           Buffers!GiveUp(Buffers!Put(Buffers!Reset(small), Buffers!Fields("touch", 2)))
    PROVE  BuffersInv'
  <1> DEFINE m == Buffers!Fields("touch", 2)
             b == Buffers!Put(Buffers!Reset(small), m)
  <1>1. m \in Seq(Field) /\ Len(m) = 2 /\ Len(m) <= MaxFields
    <2>1. "touch" \in Kinds /\ 2 \in 0..8
      BY DEF Kinds
    <2>2. m \in Seq(Field) /\ Len(m) = 2
      BY <2>1, FieldsTyped
    <2> HIDE DEF m
    <2> QED
      BY <2>2 DEF BuffersConstants
  <1>2. small \in Buffers!Buffers
    BY DEF BuffersInv, Buffers!TypeOK
  <1>3. b \in Buffers!Buffers /\ b.position = Len(b.fields)
    BY <1>1, <1>2, Alone, Zenon
  <1> HIDE DEF m, b
  <1>4. /\ small' = b /\ unsent' \in BOOLEAN /\ unsent'
        /\ UNCHANGED <<channels, bufferSent, big, hearing, heard>>
    BY Zenon DEF Buffers!GiveUp, m, b
  <1>5. Buffers!TypeOK'
    BY <1>3, <1>4 DEF BuffersInv, Buffers!TypeOK
  <1>6. Len(b.fields) \in Nat
    BY <1>3, BuffersAre
  <1>7. WellFilled'
    BY <1>3, <1>4, <1>6 DEF WellFilled
  <1>8. WhatIsHeard' /\ Buffers!MessagesSurvive'
    BY <1>4 DEF BuffersInv, WhatIsHeard, Buffers!MessagesSurvive, Buffers!PacketsAreWhole,
                Buffers!MeansTheSame, Buffers!ListenersHearAll
  <1> QED
    BY <1>4, <1>5, <1>7, <1>8 DEF BuffersInv

\* What is put last is found behind what was there.
LEMMA PutLast ==
    ASSUME NEW a \in Seq(Field), NEW n \in Nat, Len(a) = n, NEW b \in Seq(Field), Len(b) = 3
    PROVE  /\ a \o b \in Seq(Field) /\ Len(a \o b) = n + 3
           /\ SubSeq(a \o b, n + 1, n + 3) = b
  <1> DEFINE m == a \o b
  <1>1. /\ m \in Seq(Field) /\ Len(m) = n + 3
        /\ \A i \in 1..(n + 3) : m[i] = IF i <= n THEN a[i] ELSE b[i - n]
    <2>1. /\ m \in Seq(Field) /\ Len(m) = Len(a) + Len(b)
          /\ \A i \in 1..(Len(a) + Len(b)) :
                 m[i] = IF i <= Len(a) THEN a[i] ELSE b[i - Len(a)]
      BY ConcatProperties, Zenon
    <2> HIDE DEF m
    <2> QED
      BY <2>1
  <1> HIDE DEF m
  <1>2. \A i \in (n + 1)..(n + 3) : m[i] = b[i - n] /\ m[i] \in Field
    <2>1. \A i \in (n + 1)..(n + 3) : m[i] = b[i - n] /\ i \in 1..(n + 3)
      <3> SUFFICES ASSUME NEW i \in (n + 1)..(n + 3)
                   PROVE  m[i] = b[i - n] /\ i \in 1..(n + 3)
        OBVIOUS
      <3>1. i \in 1..(n + 3) /\ ~(i <= n)
        OBVIOUS
      <3> QED
        BY <1>1, <3>1
    <2>2. \A i \in 1..(n + 3) : m[i] \in Field
      BY <1>1, ElementOfSeq, Zenon
    <2> QED
      BY <2>1, <2>2
  <1>3. /\ SubSeq(m, n + 1, n + 3) \in Seq(Field) /\ Len(SubSeq(m, n + 1, n + 3)) = 3
        /\ \A i \in 1..3 : SubSeq(m, n + 1, n + 3)[i] = m[i + n]
    <2>1. n + 1 \in Int /\ n + 3 \in Int /\ (n + 3) - (n + 1) + 1 = 3 /\ n + 1 <= n + 3
      OBVIOUS
    <2>2. /\ SubSeq(m, n + 1, n + 3) \in Seq(Field)
          /\ Len(SubSeq(m, n + 1, n + 3)) = 3
      BY <1>2, <2>1, SubSeqProperties
    <2>3. \A i \in 1..3 : SubSeq(m, n + 1, n + 3)[i] = m[i + n]
      BY <1>2, <2>1, SubSeqProperties
    <2> QED
      BY <2>2, <2>3
  <1>4. \A i \in 1..3 : SubSeq(m, n + 1, n + 3)[i] = b[i]
    <2>1. \A i \in 1..3 : i + n \in (n + 1)..(n + 3) /\ (i + n) - n = i
      OBVIOUS
    <2>2. \A i \in 1..3 : m[i + n] = b[(i + n) - n]
      BY <1>2, <2>1
    <2>3. \A i \in 1..3 : b[(i + n) - n] = b[i]
      BY <2>1
    <2> QED
      BY <1>3, <2>2, <2>3
  <1>5. SubSeq(m, n + 1, n + 3) = b
    BY <1>3, <1>4, SeqEqual
  <1> QED
    BY <1>1, <1>5 DEF m

\* A message for the gamepads is all there is in the buffer, and stays there.
LEMMA ControllerDataKeeps ==
    ASSUME BuffersConstants, BuffersInv, Buffers!OnControllerData
    PROVE  BuffersInv'
  <1> DEFINE m == Buffers!Message("rumble")
             f == Buffers!Flip(Buffers!Prepared("rumble"))
  <1>1. m \in Seq(Field) /\ Len(m) = 4 /\ Buffers!Length["rumble"] = 4
    <2>1. Buffers!Length["rumble"] = 4
      BY DEF Buffers!Length
    <2>2. "rumble" \in Kinds /\ 4 \in 0..8
      BY DEF Kinds
    <2> QED
      BY <2>1, <2>2, FieldsTyped DEF Buffers!Message
  <1>2. MaxFields \in Nat /\ MaxFields >= 8 /\ Len(m) <= MaxFields /\ 4 \in 0..MaxFields
    <2>1. MaxFields \in Nat /\ MaxFields >= 8
      BY DEF BuffersConstants
    <2> HIDE DEF m
    <2> QED
      BY <1>1, <2>1
  <1>3. small \in Buffers!Buffers
    BY DEF BuffersInv, Buffers!TypeOK
  <1>4. f \in Buffers!Buffers /\ f.fields = m
    BY <1>1, <1>2, <1>3, Alone, Zenon DEF Buffers!Prepared
  <1>5. /\ small' = [f EXCEPT !.position = 4] /\ unsent' \in BOOLEAN /\ unsent'
        /\ UNCHANGED <<channels, bufferSent, big, hearing, heard>>
    <2>1. small' = [f EXCEPT !.position = Buffers!Length["rumble"]]
      BY DEF Buffers!OnControllerData
    <2>2. unsent' \in BOOLEAN /\ unsent' /\ UNCHANGED <<channels, bufferSent, big, hearing, heard>>
      BY Zenon DEF Buffers!OnControllerData
    <2> QED
      BY <1>1, <2>1, <2>2
  <1> HIDE DEF m, f
  <1>6. small' \in Buffers!Buffers /\ small'.position = 4 /\ Len(small'.fields) = 4
    BY <1>1, <1>2, <1>4, <1>5, BuffersAre
  <1>7. Buffers!TypeOK'
    BY <1>5, <1>6 DEF BuffersInv, Buffers!TypeOK
  <1>8. WellFilled'
    BY <1>5, <1>6 DEF WellFilled
  <1>9. WhatIsHeard' /\ Buffers!MessagesSurvive'
    BY <1>5 DEF BuffersInv, WhatIsHeard, Buffers!MessagesSurvive, Buffers!PacketsAreWhole,
                Buffers!MeansTheSame, Buffers!ListenersHearAll
  <1> QED
    BY <1>5, <1>7, <1>8, <1>9 DEF BuffersInv

\* A text that fits is sent with its length, and one that does not is not sent.
LEMMA TextKeeps ==
    ASSUME BuffersConstants, BuffersInv, Buffers!SendText
    PROVE  BuffersInv'
  <1> DEFINE m == Buffers!Message("text")
             b == Buffers!Put(small, m)
             f == Buffers!Flip(b)
  <1>1. PICK t \in BufferTexts :
            /\ small.position + Buffers!Length["text"] <= MaxFields
            /\ IF t.fits THEN Buffers!TrySendChannel(b, "text", Buffers!Typed(t), t)
                         ELSE Buffers!GiveUp(b)
    BY DEF Buffers!SendText
  <1>2. m \in Seq(Field) /\ Len(m) = 3 /\ Buffers!Length["text"] = 3
    BY MessagesTyped DEF Buffers!Length
  <1>3. small \in Buffers!Buffers /\ small.position <= Len(small.fields)
    BY DEF BuffersInv, Buffers!TypeOK, WellFilled
  <1>4. small.position + Len(m) <= MaxFields
    BY <1>1, <1>2
  <1>5. /\ b \in Buffers!Buffers /\ f \in Buffers!Buffers
        /\ b.position = small.position + Len(m) /\ b.position = Len(b.fields)
        /\ f.position = 0 /\ f.limit = small.position + Len(m)
        /\ Buffers!Remaining(f) = SubSeq(small.fields, 1, small.position) \o m
        /\ f.fields = SubSeq(small.fields, 1, small.position) \o m
    BY <1>2, <1>3, <1>4, PutAndFlipped, Zenon
  <1>6. Len(f.fields) <= MaxFields
    <2>1. b.fields = f.fields
      BY <1>5, BuffersAre DEF Buffers!Flip
    <2> QED
      BY <2>1, <1>4, <1>5
  <1> HIDE DEF m, b
  <1>7. ~unsent => Buffers!Remaining(f) = Buffers!Message("text")
    <2>1. ~unsent => small.position = 0
      BY DEF BuffersInv, WellFilled
    <2>2. SubSeq(small.fields, 1, 0) = <<>>
      BY SubSeqEmpty
    <2>3. <<>> \o m = m
      BY <1>2
    <2> QED
      BY <2>1, <2>2, <2>3, <1>5 DEF m
  <1>9. Buffers!EndsWithText(Buffers!Remaining(f))
    <2> DEFINE s == SubSeq(small.fields, 1, small.position)
               w == s \o m
    <2>1. /\ small.position \in Nat /\ small.position \in 0..MaxFields
          /\ small.fields \in Seq(Field) /\ small.position <= Len(small.fields)
      BY <1>3, BuffersAre DEF BuffersConstants
    <2>2. s \in Seq(Field) /\ Len(s) = small.position
      <3>1. \A i \in 1..small.position : small.fields[i] \in Field
        BY <2>1
      <3> QED
        BY <2>1, <3>1, SubSeqProperties
    <2> HIDE DEF s
    <2>3. /\ w \in Seq(Field) /\ Len(w) = small.position + 3
          /\ SubSeq(w, small.position + 1, small.position + 3) = m
      BY <1>2, <2>1, <2>2, PutLast
    <2> HIDE DEF w
    <2>4. Buffers!Remaining(f) = w
      BY <1>5 DEF w, s
    <2> QED
      BY <1>2, <2>1, <2>3, <2>4 DEF Buffers!EndsWithText, m
  <1>8. t.units = t.chars /\ t.units < 256 => Buffers!Typed(t) = t.units
    <2>1. t.units \in Nat
      BY DEF BuffersConstants
    <2> QED
      BY <2>1 DEF Buffers!Typed, Buffers!UInt8
  <1> QED
    BY <1>1, <1>2, <1>5, <1>6, <1>7, <1>8, <1>9, PacketKeeps DEF b

\* A wheel that turns by what a byte can hold is told as it is.
LEMMA WheelSays ==
    ASSUME BuffersConstants, NEW delta \in Deltas, NEW mode \in {"highres", "normal"}
    PROVE  delta \in -128..127 => Buffers!WheelSent(delta, mode) = delta
  BY DEF BuffersConstants, Buffers!WheelSent, Buffers!Int8

\* Every packet of the input leaves the buffer as it must be found.
LEMMA PacketsKeep ==
    ASSUME BuffersConstants, BuffersInv,
           \/ Buffers!SendSimple \/ Buffers!OnMouseWheel \/ Buffers!SendMousePosition
           \/ Buffers!SendTouch \/ Buffers!SendText
    PROVE  BuffersInv'
  <1>1. CASE Buffers!SendSimple
    BY <1>1, PreparedKeeps DEF Buffers!SendSimple
  <1>2. CASE Buffers!OnMouseWheel
    BY <1>2, PreparedKeeps, WheelSays DEF Buffers!OnMouseWheel
  <1>3. CASE Buffers!SendMousePosition
    BY <1>3, PreparedKeeps DEF Buffers!SendMousePosition
  <1>4. CASE Buffers!SendTouch
    BY <1>4, PreparedKeeps, TouchGivenUp DEF Buffers!SendTouch
  <1> QED
    BY <1>1, <1>2, <1>3, <1>4, TextKeeps

\* A message with its id before it.
LEMMA IdBefore ==
    ASSUME NEW a \in Seq(Field), NEW b \in Seq(Field), Len(a) = 1, Len(b) = 3
    PROVE  /\ a \o b \in Seq(Field) /\ Len(a \o b) = 4
           /\ SubSeq(a \o b, 2, 4) = b
  <1> DEFINE m == a \o b
  <1>1. /\ m \in Seq(Field) /\ Len(m) = Len(a) + Len(b)
        /\ \A i \in 1..(Len(a) + Len(b)) :
               m[i] = IF i <= Len(a) THEN a[i] ELSE b[i - Len(a)]
    BY ConcatProperties, Zenon
  <1> HIDE DEF m
  <1>2. Len(m) = 4 /\ \A i \in 2..4 : m[i] = b[i - 1] /\ m[i] \in Field
    <2>1. Len(m) = 4 /\ \A i \in 1..4 : m[i] = IF i <= 1 THEN a[i] ELSE b[i - 1]
      BY <1>1
    <2>2. \A i \in 2..4 : m[i] = b[i - 1]
      BY <2>1
    <2>3. \A i \in 1..4 : m[i] \in Field
      BY <1>1, <2>1, ElementOfSeq, Zenon
    <2> QED
      BY <2>1, <2>2, <2>3
  <1>3. /\ SubSeq(m, 2, 4) \in Seq(Field) /\ Len(SubSeq(m, 2, 4)) = 3
        /\ \A i \in 1..3 : SubSeq(m, 2, 4)[i] = m[i + 1]
    BY <1>2, SubSeqProperties
  <1>4. \A i \in 1..3 : SubSeq(m, 2, 4)[i] = b[i]
    BY <1>2, <1>3
  <1>5. SubSeq(m, 2, 4) = b
    BY <1>3, <1>4, SeqEqual
  <1> QED
    BY <1>1, <1>2, <1>5 DEF m

\* A message is taken out of BIG_BUFFER before its listeners hear of it.
LEMMA MessageComes ==
    ASSUME BuffersConstants, BuffersInv, Buffers!OnMessage
    PROVE  BuffersInv'
  <1> DEFINE i == Buffers!Fields("id", 1)
             d == Buffers!Fields("in", 3)
             m == i \o d
             f == Buffers!Flip(Buffers!Put(Buffers!Reset(big), m))
             g == [f EXCEPT !.position = 1]
  <1>1. i \in Seq(Field) /\ Len(i) = 1 /\ d \in Seq(Field) /\ Len(d) = 3
    <2>1. "id" \in Kinds /\ "in" \in Kinds /\ 1 \in 0..8 /\ 3 \in 0..8
      BY DEF Kinds
    <2> QED
      BY <2>1, FieldsTyped
  <1> HIDE DEF i, d
  <1>2. m \in Seq(Field) /\ Len(m) = 4 /\ SubSeq(m, 2, 4) = d
    BY <1>1, IdBefore DEF m
  <1> HIDE DEF m
  <1>3. MaxFields \in Nat /\ MaxFields >= 8 /\ Listeners \in Nat
    BY DEF BuffersConstants
  <1>4. big \in Buffers!Buffers /\ Len(m) <= MaxFields
    BY <1>2, <1>3 DEF BuffersInv, Buffers!TypeOK
  <1>5. f \in Buffers!Buffers /\ f.fields = m /\ f.limit = 4
    BY <1>2, <1>4, Alone
  <1> HIDE DEF f
  <1>6. 1 \in 0..MaxFields
    BY <1>3
  <1>7. g \in Buffers!Buffers /\ g.fields = m /\ g.limit = 4 /\ g.position = 1
    BY <1>5, <1>6, BuffersAre
  <1> HIDE DEF g
  <1>8. Buffers!Remaining(g) = d
    <2>1. Buffers!Remaining(g) = SubSeq(m, 2, 4)
      BY <1>7 DEF Buffers!Remaining
    <2> QED
      BY <1>2, <2>1
  <1>9. /\ big' = g /\ hearing' = [data |-> Buffers!Remaining(big'), left |-> Listeners]
        /\ heard' = <<>> /\ UNCHANGED <<small, channels, unsent, bufferSent>>
    BY DEF Buffers!OnMessage, g, f, m, i, d
  <1>10. /\ hearing'.data = d /\ hearing'.left = Listeners
         /\ hearing' \in [data : Seq(Field), left : Nat]
    BY <1>1, <1>3, <1>8, <1>9
  <1>11. d # <<>> /\ Len(<<>>) = 0 /\ Listeners \in 0..Listeners /\ Listeners - Listeners = 0
    BY <1>1, <1>3
  <1>12. Buffers!TypeOK'
    BY <1>7, <1>9, <1>10, <1>11 DEF BuffersInv, Buffers!TypeOK
  <1>13. WellFilled'
    BY <1>9 DEF BuffersInv, WellFilled
  <1>14. WhatIsHeard'
    BY <1>9, <1>10, <1>11 DEF WhatIsHeard, d
  <1>15. Buffers!MessagesSurvive'
    BY <1>9 DEF BuffersInv, Buffers!MessagesSurvive, Buffers!PacketsAreWhole,
                Buffers!MeansTheSame, Buffers!ListenersHearAll
  <1> QED
    BY <1>10, <1>12, <1>13, <1>14, <1>15 DEF BuffersInv

\* Each listener is given the message, also when the one before it has used the buffer.
LEMMA HearKeeps ==
    ASSUME BuffersConstants, BuffersInv, Buffers!OnRawData \/ Buffers!OnTouchData
    PROVE  BuffersInv'
  <1> DEFINE d == Buffers!Fields("in", 3)
  <1>1. Listeners \in Nat /\ MaxFields \in Nat /\ MaxFields >= 8
    BY DEF BuffersConstants
  <1>2. /\ hearing.left # 0 /\ hearing' = [hearing EXCEPT !.left = hearing.left - 1]
        /\ heard' = Append(heard, hearing.data)
        /\ UNCHANGED <<small, channels, unsent, bufferSent>>
    BY DEF Buffers!OnRawData, Buffers!OnTouchData, Buffers!Hear, Buffers!Idle, Buffers!Given
  <1>3. /\ hearing \in [data : Seq(Field), left : Nat] /\ hearing.left \in 0..Listeners
        /\ hearing.data # <<>> /\ hearing.data = d /\ heard \in Seq(Seq(Field))
        /\ Len(heard) = Listeners - hearing.left
    BY <1>2 DEF BuffersInv, WhatIsHeard, Buffers!TypeOK
  <1>4. d \in Seq(Field) /\ Len(d) = 3
    <2>1. "in" \in Kinds /\ 3 \in 0..8
      BY DEF Kinds
    <2> QED
      BY <2>1, FieldsTyped
  <1> HIDE DEF d
  <1>5. big' \in Buffers!Buffers
    <2>1. big \in Buffers!Buffers
      BY DEF BuffersInv, Buffers!TypeOK
    <2>2. CASE Buffers!OnRawData
      <3> DEFINE f == Buffers!Flip(Buffers!Put(Buffers!Reset(big), d))
      <3>1. Len(d) <= MaxFields /\ 3 \in 0..MaxFields
        BY <1>1, <1>4
      <3>2. f \in Buffers!Buffers
        BY <1>4, <2>1, <3>1, Alone
      <3>3. big' = [f EXCEPT !.position = 3]
        BY <2>2, <1>3, <1>4 DEF Buffers!OnRawData, Buffers!Given
      <3> HIDE DEF f
      <3> QED
        BY <3>1, <3>2, <3>3, BuffersAre
    <2>3. CASE Buffers!OnTouchData
      BY <2>1, <2>3 DEF Buffers!OnTouchData
    <2> QED
      BY <2>2, <2>3
  <1>6. /\ hearing' \in [data : Seq(Field), left : Nat] /\ hearing'.left = hearing.left - 1
        /\ hearing'.data = d
    BY <1>2, <1>3
  <1>7. /\ heard' \in Seq(Seq(Field)) /\ Len(heard') = Len(heard) + 1
        /\ \A n \in DOMAIN heard' : (n \in DOMAIN heard /\ heard'[n] = heard[n]) \/ heard'[n] = d
    BY <1>2, <1>3
  <1>8. Buffers!TypeOK'
    <2>1. hearing'.left \in 0..Listeners /\ Len(heard') = Listeners - hearing'.left
      BY <1>1, <1>2, <1>3, <1>6, <1>7
    <2>2. hearing'.data # <<>>
      BY <1>3, <1>6
    <2> QED
      BY <1>2, <1>5, <2>1, <2>2 DEF BuffersInv, Buffers!TypeOK
  <1>9. WellFilled'
    BY <1>2 DEF BuffersInv, WellFilled
  <1>10. WhatIsHeard'
    BY <1>3, <1>6, <1>7 DEF WhatIsHeard, d
  <1>11. Buffers!ListenersHearAll'
    BY <1>7 DEF BuffersInv, Buffers!MessagesSurvive, Buffers!ListenersHearAll, d
  <1>12. Buffers!PacketsAreWhole' /\ Buffers!MeansTheSame'
    BY <1>2 DEF BuffersInv, Buffers!MessagesSurvive, Buffers!PacketsAreWhole,
                Buffers!MeansTheSame
  <1> QED
    BY <1>6, <1>8, <1>9, <1>10, <1>11, <1>12 DEF BuffersInv, Buffers!MessagesSurvive

\* The big buffer carries the id of its channel in front of the message.
LEMMA SendKeeps ==
    ASSUME BuffersConstants, BuffersInv, Buffers!Send
    PROVE  BuffersInv'
  <1> DEFINE i == Buffers!Fields("id", 1)
             d == Buffers!Fields("out", 3)
             m == i \o d
  <1>1. i \in Seq(Field) /\ Len(i) = 1 /\ d \in Seq(Field) /\ Len(d) = 3
    <2>1. "id" \in Kinds /\ "out" \in Kinds /\ 1 \in 0..8 /\ 3 \in 0..8
      BY DEF Kinds
    <2> QED
      BY <2>1, FieldsTyped
  <1> HIDE DEF i, d
  <1>2. m \in Seq(Field) /\ Len(m) = 4
    BY <1>1, IdBefore DEF m
  <1>3. big \in Buffers!Buffers /\ MaxFields \in Nat /\ MaxFields >= 8
    BY DEF BuffersConstants, BuffersInv, Buffers!TypeOK
  <1>4. /\ big' = Buffers!Flip(Buffers!Put(Buffers!Reset(big), m))
        /\ UNCHANGED <<small, channels, unsent, bufferSent, hearing, heard>>
    BY DEF Buffers!Send, m, i, d
  <1> HIDE DEF m
  <1>5. big' \in Buffers!Buffers
    <2>1. Len(m) <= MaxFields
      BY <1>2, <1>3
    <2> QED
      BY <1>2, <1>3, <1>4, <2>1, Alone
  <1>6. Buffers!TypeOK'
    BY <1>4, <1>5 DEF BuffersInv, Buffers!TypeOK
  <1>7. WellFilled' /\ WhatIsHeard'
    BY <1>4 DEF BuffersInv, WellFilled, WhatIsHeard
  <1>8. Buffers!MessagesSurvive'
    BY <1>4 DEF BuffersInv, Buffers!MessagesSurvive, Buffers!PacketsAreWhole,
                Buffers!MeansTheSame, Buffers!ListenersHearAll
  <1> QED
    BY <1>4, <1>6, <1>7, <1>8 DEF BuffersInv

\* Every step keeps the buffers right.
LEMMA BuffersKeeps ==
    ASSUME BuffersConstants, BuffersInv, Buffers!Next
    PROVE  BuffersInv'
  <1>1. CASE Buffers!SetTransport
    <2>1. channels' \in BOOLEAN /\ UNCHANGED <<small, unsent, bufferSent, big, hearing, heard>>
      BY <1>1, Zenon DEF Buffers!SetTransport
    <2>2. Buffers!TypeOK'
      BY <2>1 DEF BuffersInv, Buffers!TypeOK
    <2>3. WellFilled' /\ WhatIsHeard'
      BY <2>1 DEF BuffersInv, WellFilled, WhatIsHeard
    <2>4. Buffers!MessagesSurvive'
      BY <2>1 DEF BuffersInv, Buffers!MessagesSurvive, Buffers!PacketsAreWhole,
                  Buffers!MeansTheSame, Buffers!ListenersHearAll
    <2> QED
      BY <2>1, <2>2, <2>3, <2>4 DEF BuffersInv
  <1> QED
    BY <1>1, PacketsKeep, ControllerDataKeeps, MessageComes, HearKeeps, SendKeeps DEF Buffers!Next

-------------------------------------------------------------------------------
(* The whole page *)

PageInputInv ==
    /\ KeyboardInv /\ PointerInv /\ GamepadInv /\ ImmersiveInv
    /\ DialogsInv /\ LeavingInv /\ FormsInv /\ BuffersInv

\* A part that stays where it is stays right.
LEMMA PartsStay ==
    ASSUME PageInputInv
    PROVE  /\ UNCHANGED keyboardVars => KeyboardInv'
           /\ UNCHANGED pointerVars => PointerInv'
           /\ UNCHANGED gamepadVars => GamepadInv'
           /\ UNCHANGED immersiveVars => ImmersiveInv'
           /\ UNCHANGED modalsVars => DialogsInv'
           /\ UNCHANGED leavingVars => LeavingInv'
           /\ UNCHANGED formsVars => FormsInv'
           /\ UNCHANGED buffersVars => BuffersInv'
  <1> USE DEF PageInputInv
  <1>1. UNCHANGED keyboardVars => KeyboardInv'
    BY DEF keyboardVars, KeyboardInv, Keyboard!TypeOK, NothingAhead, PageKnows
  <1>2. UNCHANGED pointerVars => PointerInv'
    BY DEF pointerVars, PointerInv, Pointer!TypeOK, DragsInPlace, AimedInTime, Pointer!PlaysMouse,
           Pointer!DragIsHeld, Pointer!ClickWhereTouched
  <1>3. UNCHANGED gamepadVars => GamepadInv'
    BY DEF gamepadVars, GamepadInv, Gamepad!TypeOK, WrittenDown, AskedFor
  <1>4. UNCHANGED immersiveVars => ImmersiveInv'
    BY DEF immersiveVars, ImmersiveInv, Immersive!TypeOK, TimersFit, InTransit,
           Immersive!RelativeNeedsLock, Immersive!SidebarInReach
  <1>5. UNCHANGED modalsVars => DialogsInv'
    BY DEF modalsVars, DialogsInv, Dialogs!TypeOK, OneModal
  <1>6. UNCHANGED leavingVars => LeavingInv'
    BY DEF leavingVars, LeavingInv, Leaving!TypeOK, AsksLeft, OneTimerAtATime, TimersOrDialog
  <1>7. UNCHANGED formsVars => FormsInv'
    BY DEF formsVars, FormsInv, Inputs!TypeOK, InputsStandFor
  <1>8. UNCHANGED buffersVars => BuffersInv'
    BY DEF buffersVars, BuffersInv, Buffers!TypeOK, WellFilled, WhatIsHeard,
           Buffers!MessagesSurvive, Buffers!PacketsAreWhole, Buffers!MeansTheSame,
           Buffers!ListenersHearAll
  <1> QED
    BY <1>1, <1>2, <1>3, <1>4, <1>5, <1>6, <1>7, <1>8

\* All parts start right.
LEMMA PageInputInit == Init => PageInputInv
  BY PageInputConstants, KeyboardInit, PointerInit, GamepadInit, ImmersiveInit, DialogsInit,
     LeavingInit, FormsInit, BuffersInit DEF Init, PageInputInv

\* What a step does: one part moves, and the others stay.
LEMMA OnePartMoves ==
    ASSUME [Next]_allVars
    PROVE  /\ Keyboard!Next \/ UNCHANGED keyboardVars
           /\ Pointer!Next \/ UNCHANGED pointerVars
           /\ Gamepad!Next \/ UNCHANGED gamepadVars
           /\ Immersive!Next \/ UNCHANGED immersiveVars
           /\ Dialogs!Next \/ UNCHANGED modalsVars
           /\ Leaving!Next \/ UNCHANGED leavingVars
           /\ Inputs!Next \/ UNCHANGED formsVars
           /\ Buffers!Next \/ UNCHANGED buffersVars
  <1>1. CASE UNCHANGED allVars
    BY <1>1 DEF allVars
  <1>2. CASE Next
    BY <1>2, Zenon DEF Next, KeyboardNext, PointerNext, GamepadNext, ImmersiveNext, DialogsNext,
       LeavingNext, InputsNext, BuffersNext, OthersStay
  <1> QED
    BY <1>1, <1>2

\* Every step keeps all parts right.
LEMMA PageInputKeeps ==
    ASSUME PageInputInv, [Next]_allVars
    PROVE  PageInputInv'
  <1>1. KeyboardInv'
    BY PageInputConstants, OnePartMoves, PartsStay, KeyboardKeeps DEF PageInputInv
  <1>2. PointerInv'
    BY PageInputConstants, OnePartMoves, PartsStay, PointerKeeps DEF PageInputInv
  <1>3. GamepadInv'
    BY PageInputConstants, OnePartMoves, PartsStay, GamepadKeeps DEF PageInputInv
  <1>4. ImmersiveInv'
    BY PageInputConstants, OnePartMoves, PartsStay, ImmersiveKeeps DEF PageInputInv
  <1>5. DialogsInv'
    BY PageInputConstants, OnePartMoves, PartsStay, DialogsKeeps DEF PageInputInv
  <1>6. LeavingInv'
    BY PageInputConstants, OnePartMoves, PartsStay, LeavingTypes, LeavingKeeps
       DEF PageInputInv, LeavingInv
  <1>7. FormsInv'
    BY OnePartMoves, PartsStay, FormsKeeps DEF PageInputInv
  <1>8. BuffersInv'
    BY PageInputConstants, OnePartMoves, PartsStay, BuffersKeeps DEF PageInputInv
  <1> QED
    BY <1>1, <1>2, <1>3, <1>4, <1>5, <1>6, <1>7, <1>8 DEF PageInputInv

\* The inductive invariant holds.
THEOREM PageInputIsRight == Spec => []PageInputInv
  BY PageInputInit, PageInputKeeps, PTL DEF Spec

\* Every variable of every part keeps its type.
THEOREM InputTypes == Spec => []TypesOK
  <1>1. PageInputInv => TypesOK
    BY DEF PageInputInv, KeyboardInv, PointerInv, GamepadInv, ImmersiveInv, DialogsInv,
           LeavingInv, FormsInv, BuffersInv, TypesOK
  <1> QED
    BY <1>1, PageInputIsRight, PTL

\* The host is told what the user does: no key stays down behind who leaves the page; the
\* button is held for a finger only while it drags, except where a third finger or the
\* settings took the drag from it; a click whose place was sent lands there; every gamepad
\* has its slot and rumbles for itself; and messages come out of the shared buffers as they
\* were put in, a text at least as the end of its packet.
THEOREM HostIsToldWhatIsDone == Spec => []InputMatches
  <1>1. PageInputInv => InputMatches
    BY KeyboardReleases, GamepadRight DEF PageInputInv, PointerInv, BuffersInv, InputMatches
  <1> QED
    BY <1>1, PageInputIsRight, PTL

\* The user can always get out: of the captured mouse and to the sidebar; a dialog that is
\* shown is waited for; and a page that should be gone and is without a connection shows
\* the message that loads it again, unless another message was open when it was due or the
\* button for the full screen closed it.
THEOREM WayOutStays == Spec => []ControlsInReach
  <1>1. PageInputInv => ControlsInReach
    BY PageInputConstants, DialogsAwaited, LeavingAsks DEF PageInputInv, ImmersiveInv, ControlsInReach
  <1> QED
    BY <1>1, PageInputIsRight, PTL

\* What a form sends is what it shows when it is submitted.
THEOREM FormsSendWhatTheyShow == Spec => SentAsShown
  <1>1. ASSUME PageInputInv, [Next]_allVars
        PROVE  [formSent' # formSent => \A f \in DOMAIN formSent' :
                  formSent'[f] = IF f = "key" THEN Inputs!Chosen(inputs.key.value)
                                              ELSE Inputs!Shown(inputs[f])]_formsVars
    BY <1>1, OnePartMoves, FormsSend DEF PageInputInv
  <1> QED
    BY <1>1, PageInputIsRight, PTL DEF Spec, SentAsShown, Inputs!SentAsShown, Inputs!vars, formsVars
===============================================================================
