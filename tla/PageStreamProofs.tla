--------------------------- MODULE PageStreamProofs ---------------------------
(***************************************************************************)
(* What the page does with a stream, proved for every number of messages,  *)
(* pictures, units, browsers, codecs, players, lines and users: every part *)
(* has an inductive invariant of its own, and as the parts share no state  *)
(* their conjunction is the invariant of the page.                         *)
(***************************************************************************)
EXTENDS MCPageStream, Sequences, FiniteSetTheorems, WellFoundedInduction, TLAPS

-------------------------------------------------------------------------------
(* Lists and numbers *)

\* Every nonempty set of numbers has a least one.
LEMMA Least ==
    ASSUME NEW T \in SUBSET Nat, T # {}
    PROVE  \E x \in T : \A y \in T : x <= y
  <1>1. IsWellFoundedOn(OpToRel(<, Nat), Nat)
    BY NatLessThanWellFounded
  <1>2. \E x \in T : \A y \in T : ~(<<y, x>> \in OpToRel(<, Nat))
    BY <1>1, WFMin
  <1>3. ASSUME NEW x \in Nat, NEW y \in Nat, y < x
        PROVE  <<y, x>> \in OpToRel(<, Nat)
    BY <1>3, Zenon DEF OpToRel
  <1>4. ASSUME NEW x \in T, NEW y \in T, ~(<<y, x>> \in OpToRel(<, Nat))
        PROVE  x <= y
    <2>1. x \in Nat /\ y \in Nat
      OBVIOUS
    <2>2. ~(y < x)
      BY <1>3, <1>4, <2>1
    <2> QED
      BY <2>1, <2>2
  <1> QED
    BY <1>2, <1>4

\* The greatest number of a set up to n that has it is n.
LEMMA MaxIs ==
    ASSUME NEW n \in Nat, NEW s \in SUBSET (1..n), n \in s
    PROVE  Decoding!Max(s) = n
  <1>1. n \in s /\ \A y \in s : n >= y
    OBVIOUS
  <1>2. \A x \in s : (\A y \in s : x >= y) => x = n
    OBVIOUS
  <1> QED
    BY <1>1, <1>2 DEF Decoding!Max

\* One turn of the recursion Decoding!FoldLeft is defined by.
Turn(g, base, seq, s) ==
    IF s = {} THEN base
    ELSE Decoding!Submit(g[s \ {Decoding!Max(s)}], seq[Decoding!Max(s)])

Fits(g, base, seq, k) == g = [s \in SUBSET (1..k) |-> Turn(g, base, seq, s)]

\* A fold has a value for every prefix: there is none of least length without one.
LEMMA FoldExists ==
    ASSUME NEW n \in Nat, NEW seq, NEW base
    PROVE  \E g : Fits(g, base, seq, n)
  <1> DEFINE Bad == {k \in 0..n : ~\E g : Fits(g, base, seq, k)}
  <1>1. ASSUME Bad # {}
        PROVE  FALSE
    <2>0. Bad \in SUBSET Nat
      OBVIOUS
    <2>1. PICK m \in Bad : \A k \in Bad : m <= k
      BY <1>1, <2>0, Least, Zenon
    <2>2. m \in Nat /\ m <= n
      BY <2>1
    <2>3. CASE m = 0
      <3> DEFINE g == [s \in SUBSET (1..m) |-> base]
      <3>1. \A s \in SUBSET (1..m) : s = {}
        BY <2>3
      <3>2. \A s \in SUBSET (1..m) : Turn(g, base, seq, s) = base
        BY <3>1, Zenon DEF Turn
      <3>3. g = [s \in SUBSET (1..m) |-> Turn(g, base, seq, s)]
        BY <3>2, Zenon
      <3> QED
        BY <2>1, <3>3 DEF Fits
    <2>4. CASE m # 0
      <3>1. m - 1 \in 0..n /\ ~(m <= m - 1)
        BY <2>2, <2>4
      <3>2. PICK g : Fits(g, base, seq, m - 1)
        BY <2>1, <3>1
      <3> DEFINE h == [s \in SUBSET (1..m) |->
                         IF m \in s THEN Decoding!Submit(g[s \ {m}], seq[m]) ELSE g[s]]
      <3>3. \A s \in SUBSET (1..m) : m \notin s => s \in SUBSET (1..(m - 1))
        BY <2>2
      <3>4. \A s \in SUBSET (1..(m - 1)) : s \in SUBSET (1..m) /\ m \notin s
        BY <2>2
      <3>5. \A s \in SUBSET (1..(m - 1)) : g[s] = Turn(g, base, seq, s) /\ h[s] = g[s]
        BY <3>2, <3>4, Zenon DEF Fits
      <3>6. ASSUME NEW s \in SUBSET (1..m)
            PROVE  h[s] = Turn(h, base, seq, s)
        <4>1. CASE m \in s
          <5>1. Decoding!Max(s) = m
            BY <2>2, <4>1, MaxIs
          <5>2. s \ {m} \in SUBSET (1..(m - 1)) /\ s # {}
            BY <3>3, <4>1
          <5>3. h[s] = Decoding!Submit(g[s \ {m}], seq[m])
            BY <4>1, Zenon
          <5> HIDE DEF h
          <5>4. h[s] = Decoding!Submit(h[s \ {m}], seq[m])
            BY <3>5, <5>2, <5>3
          <5> QED
            BY <5>1, <5>2, <5>4 DEF Turn
        <4>2. CASE m \notin s
          <5>1. s \in SUBSET (1..(m - 1)) /\ s \ {Decoding!Max(s)} \in SUBSET (1..(m - 1))
            BY <3>3, <4>2
          <5> HIDE DEF h
          <5>2. h[s] = Turn(g, base, seq, s) /\ h[s \ {Decoding!Max(s)}] = g[s \ {Decoding!Max(s)}]
            BY <3>5, <5>1
          <5> QED
            BY <5>2 DEF Turn
        <4> QED
          BY <4>1, <4>2
      <3>7. h = [s \in SUBSET (1..m) |-> h[s]]
        BY Zenon
      <3> HIDE DEF h
      <3>8. h = [s \in SUBSET (1..m) |-> Turn(h, base, seq, s)]
        BY <3>6, <3>7
      <3> QED
        BY <2>1, <3>8 DEF Fits
    <2> QED
      BY <2>3, <2>4
  <1>2. n \in 0..n
    OBVIOUS
  <1> QED
    BY <1>1, <1>2

\* What the units make of the pipe, one after the other.
LEMMA FoldSteps ==
    ASSUME NEW S, NEW seq \in Seq(S), NEW base
    PROVE  \E f : /\ f[0] = base
                  /\ \A k \in 1..Len(seq) :
                        f[k] = Decoding!Submit(f[k - 1], seq[k])
                  /\ Decoding!FoldLeft(Decoding!Submit, base, seq) = f[Len(seq)]
  <1> DEFINE n == Len(seq)
             it == CHOOSE g : Fits(g, base, seq, n)
             f == [k \in 0..n |-> it[1..k]]
  <1>1. n \in Nat /\ DOMAIN seq = 1..n
    OBVIOUS
  <1>2. Decoding!FoldLeft(Decoding!Submit, base, seq) =
          (CHOOSE g : g = [s \in SUBSET DOMAIN seq |-> Turn(g, base, seq, s)])[DOMAIN seq]
    BY DEF Decoding!FoldLeft, Decoding!MapThenFoldSet, Turn
  <1>3. Decoding!FoldLeft(Decoding!Submit, base, seq) = it[1..n]
    BY <1>1, <1>2 DEF Fits
  <1> HIDE DEF n
  <1>4. \E g : Fits(g, base, seq, n)
    BY <1>1, FoldExists
  <1>5. it = [s \in SUBSET (1..n) |-> Turn(it, base, seq, s)]
    BY <1>4, Zenon DEF Fits
  <1> HIDE DEF it
  <1>6. \A s \in SUBSET (1..n) : it[s] = Turn(it, base, seq, s)
    BY <1>5
  <1>7. f[0] = base
    <2>1. 1..0 = {} /\ 0 \in 0..n /\ 1..0 \in SUBSET (1..n)
      BY <1>1
    <2>2. it[1..0] = base
      BY <1>6, <2>1 DEF Turn
    <2> QED
      BY <2>1, <2>2
  <1>8. ASSUME NEW k \in 1..n
        PROVE  f[k] = Decoding!Submit(f[k - 1], seq[k])
    <2>1. /\ k \in Nat /\ k \in 0..n /\ k - 1 \in 0..n /\ k \in 1..k /\ 1..k # {}
          /\ 1..k \in SUBSET (1..n) /\ (1..k) \ {k} = 1..(k - 1)
      <3>1. k \in Nat /\ k \in 0..n /\ k - 1 \in 0..n /\ k \in 1..k
        BY <1>1
      <3>2. 1..k \subseteq 1..n
        BY <1>1, <3>1
      <3>3. (1..k) \ {k} = 1..(k - 1)
        BY <3>1
      <3> QED
        BY <3>1, <3>2, <3>3, Zenon
    <2>2. Decoding!Max(1..k) = k
      BY <2>1, MaxIs
    <2>3. it[1..k] = Decoding!Submit(it[1..(k - 1)], seq[k])
      BY <1>6, <2>1, <2>2 DEF Turn
    <2> QED
      BY <2>1, <2>3
  <1>9. f[n] = it[1..n]
    <2>1. n \in 0..n
      BY <1>1
    <2> QED
      BY <2>1
  <1> QED
    BY <1>3, <1>7, <1>8, <1>9 DEF n

\* A message is put behind those on their way.
LEMMA Posted ==
    ASSUME NEW S, NEW q \in Seq(S), NEW m \in S
    PROVE  /\ Append(q, m) \in Seq(S) /\ Len(Append(q, m)) = Len(q) + 1
           /\ Append(q, m)[Len(q) + 1] = m
           /\ \A i \in 1..Len(q) : Append(q, m)[i] = q[i]
  OBVIOUS

\* What is taken from the front of what is on its way leaves the rest as it is.
LEMMA Taken ==
    ASSUME NEW S, NEW q \in Seq(S), q # <<>>
    PROVE  /\ Tail(q) \in Seq(S) /\ Len(Tail(q)) = Len(q) - 1 /\ Len(q) \in Nat /\ Len(q) > 0
           /\ \A i \in 1..(Len(q) - 1) : Tail(q)[i] = q[i + 1]
           /\ Head(q) = q[1] /\ q[1] \in S
           /\ \A i \in 1..Len(q) : q[i] \in S
  OBVIOUS

\* A piece of a sequence.
LEMMA Piece ==
    ASSUME NEW S, NEW q \in Seq(S), NEW m \in Nat, NEW n \in Nat, 1 <= m, m <= n + 1, n <= Len(q)
    PROVE  /\ SubSeq(q, m, n) \in Seq(S) /\ Len(SubSeq(q, m, n)) = n - m + 1
           /\ \A k \in 1..(n - m + 1) : SubSeq(q, m, n)[k] = q[k + m - 1]
  <1>1. Len(q) \in Nat /\ \A k \in 1..(n - m + 1) : k + m - 1 \in 1..Len(q)
    OBVIOUS
  <1>2. Len(SubSeq(q, m, n)) = n - m + 1
    BY <1>1
  <1>3. \A k \in 1..(n - m + 1) : SubSeq(q, m, n)[k] = q[k + m - 1]
    BY <1>1
  <1>4. SubSeq(q, m, n) \in Seq(S)
    BY <1>1
  <1> QED
    BY <1>2, <1>3, <1>4

\* One sequence behind another.
LEMMA JoinedIs ==
    ASSUME NEW S, NEW q \in Seq(S), NEW r \in Seq(S)
    PROVE  /\ q \o r \in Seq(S) /\ Len(q \o r) = Len(q) + Len(r)
           /\ \A k \in 1..(Len(q) + Len(r)) :
                 \/ k \in 1..Len(q) /\ (q \o r)[k] = q[k]
                 \/ k - Len(q) \in 1..Len(r) /\ (q \o r)[k] = r[k - Len(q)]
           /\ \A k \in 1..Len(r) : k + Len(q) \in 1..(Len(q) + Len(r))
                                   /\ (q \o r)[k + Len(q)] = r[k]
  <1>1. Len(q) \in Nat /\ Len(r) \in Nat
    OBVIOUS
  <1>2. q \o r \in Seq(S) /\ Len(q \o r) = Len(q) + Len(r)
    OBVIOUS
  <1>3. \A k \in 1..(Len(q) + Len(r)) : k \in 1..Len(q) \/ k - Len(q) \in 1..Len(r)
    BY <1>1
  <1>4. \A k \in 1..(Len(q) + Len(r)) :
           (q \o r)[k] = IF k <= Len(q) THEN q[k] ELSE r[k - Len(q)]
    BY <1>1
  <1>5. \A k \in 1..Len(q) : k <= Len(q) /\ k \in 1..(Len(q) + Len(r))
    BY <1>1
  <1>6. \A k \in 1..(Len(q) + Len(r)) : k - Len(q) \in 1..Len(r) => ~(k <= Len(q))
    BY <1>1
  <1>7. \A k \in 1..Len(r) : /\ k + Len(q) \in 1..(Len(q) + Len(r))
                             /\ k + Len(q) - Len(q) = k /\ ~(k + Len(q) <= Len(q))
    BY <1>1
  <1> QED
    BY <1>2, <1>3, <1>4, <1>5, <1>6, <1>7

\* Sequences: what there is of a kind K in one, and what is last of it.

NoneOf(q, K) == \A i \in 1..Len(q) : q[i] \notin K
AtMostOne(q, K) == \A i, j \in 1..Len(q) : q[i] \in K /\ q[j] \in K => i = j
LastIn(q, K, G) ==
    \E i \in 1..Len(q) : q[i] \in K /\ q[i] \in G /\ \A j \in 1..Len(q) : j > i => q[j] \notin K
Preceded(q, K, A) ==
    \A i \in 1..Len(q) : q[i] \in K => \E j \in 1..Len(q) : j < i /\ q[j] \in A

\* What one message more at the end changes.
LEMMA Behind ==
    ASSUME NEW S, NEW q \in Seq(S), NEW m \in S, NEW K
    PROVE  /\ NoneOf(Append(q, m), K) <=> NoneOf(q, K) /\ m \notin K
           /\ AtMostOne(q, K) /\ (m \in K => NoneOf(q, K)) => AtMostOne(Append(q, m), K)
           /\ \A G : m \in K /\ m \in G => LastIn(Append(q, m), K, G)
           /\ \A G : m \notin K /\ LastIn(q, K, G) => LastIn(Append(q, m), K, G)
           /\ \A A : Preceded(q, K, A) /\ (m \in K => ~NoneOf(q, A)) =>
                        Preceded(Append(q, m), K, A)
  <1> DEFINE r == Append(q, m)
             n == Len(q)
  <1>1. /\ n \in Nat /\ Len(r) = n + 1 /\ r[n + 1] = m /\ \A i \in 1..n : r[i] = q[i]
    OBVIOUS
  <1>2. \A i \in 1..(n + 1) : i \in 1..n \/ i = n + 1
    BY <1>1
  <1>3. \A i \in 1..n : i \in 1..(n + 1) /\ i < n + 1
    BY <1>1
  <1>4. n + 1 \in 1..(n + 1)
    BY <1>1
  <1> HIDE DEF r, n
  <1>5. NoneOf(r, K) <=> (\A i \in 1..n : q[i] \notin K) /\ m \notin K
    BY <1>1, <1>2, <1>3, <1>4 DEF NoneOf
  <1>6. ASSUME AtMostOne(q, K), m \in K => \A i \in 1..n : q[i] \notin K
        PROVE  AtMostOne(r, K)
    BY <1>1, <1>2, <1>3, <1>6 DEF AtMostOne, n
  <1>7. ASSUME NEW G, m \in K, m \in G
        PROVE  LastIn(r, K, G)
    <2>1. \A j \in 1..(n + 1) : ~(j > n + 1)
      BY <1>1
    <2> QED
      BY <1>1, <1>4, <1>7, <2>1 DEF LastIn
  <1>8. ASSUME NEW G, m \notin K, LastIn(q, K, G)
        PROVE  LastIn(r, K, G)
    <2>1. PICK i \in 1..n : q[i] \in K /\ q[i] \in G /\ \A j \in 1..n : j > i => q[j] \notin K
      BY <1>8 DEF LastIn, n
    <2>2. \A j \in 1..(n + 1) : j > i => r[j] \notin K
      BY <1>1, <1>2, <1>8, <2>1
    <2> QED
      BY <1>1, <1>3, <2>1, <2>2 DEF LastIn
  <1>9. ASSUME NEW A, Preceded(q, K, A), m \in K => \E i \in 1..n : q[i] \in A
        PROVE  Preceded(r, K, A)
    <2> SUFFICES ASSUME NEW i \in 1..(n + 1), r[i] \in K
                 PROVE  \E j \in 1..(n + 1) : j < i /\ r[j] \in A
      BY <1>1 DEF Preceded
    <2>1. CASE i \in 1..n
      <3>1. \E j \in 1..n : j < i /\ q[j] \in A
        BY <1>1, <1>9, <2>1 DEF Preceded, n
      <3> QED
        BY <1>1, <1>3, <3>1
    <2>2. CASE i = n + 1
      <3>1. PICK j \in 1..n : q[j] \in A
        BY <1>1, <1>9, <2>2
      <3> QED
        BY <1>1, <1>3, <2>2, <3>1
    <2> QED
      BY <1>2, <2>1, <2>2
  <1> QED
    BY <1>5, <1>6, <1>7, <1>8, <1>9 DEF NoneOf, r, n

\* What one message less at the front changes.
LEMMA Ahead ==
    ASSUME NEW S, NEW q \in Seq(S), q # <<>>, NEW K
    PROVE  /\ Tail(q) \in Seq(S) /\ Head(q) \in S
           /\ NoneOf(q, K) <=> NoneOf(Tail(q), K) /\ Head(q) \notin K
           /\ AtMostOne(q, K) => AtMostOne(Tail(q), K) /\ (Head(q) \in K => NoneOf(Tail(q), K))
           /\ \A G : LastIn(q, K, G) =>
                 \/ LastIn(Tail(q), K, G)
                 \/ Head(q) \in K /\ Head(q) \in G /\ NoneOf(Tail(q), K)
           /\ \A A : Preceded(q, K, A) =>
                 Head(q) \notin K /\ (Head(q) \notin A => Preceded(Tail(q), K, A))
  <1> DEFINE t == Tail(q)
             n == Len(q)
  <1>1. /\ n \in Nat /\ n > 0 /\ Len(t) = n - 1 /\ \A i \in 1..(n - 1) : t[i] = q[i + 1]
        /\ t \in Seq(S) /\ Head(q) = q[1] /\ q[1] \in S
    OBVIOUS
  <1>2. \A i \in 1..n : i = 1 \/ (i - 1 \in 1..(n - 1) /\ t[i - 1] = q[i])
    <2>1. \A i \in 1..n : i = 1 \/ (i - 1 \in 1..(n - 1) /\ (i - 1) + 1 = i)
      BY <1>1
    <2> QED
      BY <1>1, <2>1
  <1>3. \A i \in 1..(n - 1) : i + 1 \in 1..n /\ i + 1 # 1 /\ t[i] = q[i + 1]
    BY <1>1
  <1>4. 1 \in 1..n
    BY <1>1
  <1>0. n = Len(q)
    OBVIOUS
  <1> HIDE DEF t, n
  <1>5. NoneOf(q, K) <=> NoneOf(t, K) /\ q[1] \notin K
    BY <1>0, <1>1, <1>2, <1>3, <1>4 DEF NoneOf
  <1>6. ASSUME AtMostOne(q, K)
        PROVE  AtMostOne(t, K) /\ (q[1] \in K => NoneOf(t, K))
    <2>1. \A i, j \in 1..n : q[i] \in K /\ q[j] \in K => i = j
      BY <1>0, <1>6 DEF AtMostOne
    <2>2. \A i, j \in 1..(n - 1) : t[i] \in K /\ t[j] \in K => i = j
      <3>1. \A i, j \in 1..(n - 1) : i + 1 = j + 1 => i = j
        BY <1>1
      <3> QED
        BY <1>3, <2>1, <3>1
    <2>3. q[1] \in K => \A i \in 1..(n - 1) : t[i] \notin K
      BY <1>3, <1>4, <2>1
    <2> QED
      BY <1>1, <2>2, <2>3 DEF AtMostOne, NoneOf
  <1>7. ASSUME NEW G, LastIn(q, K, G)
        PROVE  LastIn(t, K, G) \/ (q[1] \in K /\ q[1] \in G /\ NoneOf(t, K))
    <2>1. PICK i \in 1..n : q[i] \in K /\ q[i] \in G /\ \A j \in 1..n : j > i => q[j] \notin K
      BY <1>0, <1>7 DEF LastIn
    <2>2. CASE i = 1
      <3>1. \A j \in 1..(n - 1) : j + 1 > 1
        BY <1>1
      <3> QED
        BY <1>1, <1>3, <2>1, <2>2, <3>1 DEF NoneOf
    <2>3. CASE i # 1
      <3>1. i - 1 \in 1..(n - 1) /\ t[i - 1] = q[i]
        BY <1>2, <2>3
      <3>2. \A j \in 1..(n - 1) : j > i - 1 => j + 1 > i
        BY <1>1
      <3> QED
        BY <1>1, <1>3, <2>1, <3>1, <3>2 DEF LastIn
    <2> QED
      BY <2>2, <2>3
  <1>8. ASSUME NEW A, Preceded(q, K, A)
        PROVE  q[1] \notin K /\ (q[1] \notin A => Preceded(t, K, A))
    <2>1. \A i \in 1..n : q[i] \in K => \E j \in 1..n : j < i /\ q[j] \in A
      BY <1>0, <1>8 DEF Preceded
    <2>2. q[1] \notin K
      <3>1. \A j \in 1..n : ~(j < 1)
        BY <1>1
      <3> QED
        BY <1>4, <2>1, <3>1
    <2>3. ASSUME q[1] \notin A, NEW i \in 1..(n - 1), t[i] \in K
          PROVE  \E j \in 1..(n - 1) : j < i /\ t[j] \in A
      <3>1. PICK j \in 1..n : j < i + 1 /\ q[j] \in A
        BY <1>3, <2>1, <2>3
      <3>2. j - 1 \in 1..(n - 1) /\ t[j - 1] = q[j]
        BY <1>2, <2>3, <3>1
      <3>3. j - 1 < i
        BY <1>1, <3>1
      <3> QED
        BY <3>1, <3>2, <3>3
    <2> QED
      BY <1>1, <2>2, <2>3 DEF Preceded
  <1> QED
    BY <1>1, <1>5, <1>6, <1>7, <1>8 DEF t

-------------------------------------------------------------------------------
(* The stream is set up *)

BeforeStart == flow \in {"idle", "negotiating", "probing", "building"}
Connected == flow \in {"probing", "building", "running"}

\* Init is sent once and taken once, so there is one flow.
OneFlow ==
    /\ ws = "connecting" =>
          flow = "idle" /\ wire = <<>> /\ inbox = <<>> /\ wsSendBuffer = <<"Init">>
    /\ AtMostOne(wire, {"Init"}) /\ AtMostOne(inbox, {"Setup"})
    /\ NoneOf(wire, {"Init"}) \/ NoneOf(inbox, {"Setup"})
    /\ flow # "idle" => NoneOf(wire, {"Init"}) /\ NoneOf(inbox, {"Setup"})

\* A stream is asked for by a flow that comes to that point.
AskedFor ==
    /\ BeforeStart => remote.streams = 0 /\ NoneOf(wire, {"StartStream"})
    /\ remote.streams <= 1 /\ AtMostOne(wire, {"StartStream"})
    /\ remote.streams = 1 => NoneOf(wire, {"StartStream"})

\* A flow beyond the negotiation of a peer has had that peer connected.
PeerWas ==
    /\ flow = "negotiating" => path = "webrtc"
    /\ Connected => path \in Setup!Transports
    /\ Connected /\ path = "webrtc" => wasConnected /\ ice
    /\ peer \in {"connecting", "connected", "disconnected", "failed"} => ice

\* What the streamer is going to use is what the flow works on.
SidesAgree ==
    /\ ws = "open" /\ flow # "idle" =>
          \/ LastIn(wire, Setup!Transports, {path})
          \/ NoneOf(wire, Setup!Transports) /\ remote.transport = path
    /\ ~destroyed /\ (Connected \/ flow = "negotiating") => setupTransport = path

\* What is built is built for the transport there is.
MediaFit ==
    /\ flow # "building" => video = "idle"
    /\ flow \notin {"building", "over"} => audio = "idle"
    /\ flow = "building" /\ ~destroyed =>
          /\ video = "done" => setupRenderer = Setup!PipeOf(path)
          /\ setupPlayer \in {"none", Setup!PipeOf(path)}
    /\ flow = "running" /\ ~destroyed =>
          setupRenderer = Setup!PipeOf(path) /\ setupPlayer \in {"none", Setup!PipeOf(path)}

SetupInv == Setup!TypeOK /\ OneFlow /\ AskedFor /\ PeerWas /\ SidesAgree /\ MediaFit

\* What the invariant says of the types, for the proofs that follow.
LEMMA SetupTypes ==
    ASSUME SetupInv
    PROVE  /\ ws \in {"connecting", "open", "closed"}
           /\ wsSendBuffer \in Seq(Setup!Messages) /\ wire \in Seq(Setup!Messages)
           /\ inbox \in Seq({"Setup", "WebRtc", "ConnectionComplete"})
           /\ remote \in [transport : Setup!Transports \cup {"none"}, streams : 0..2]
           /\ setupTransport \in Setup!Transports \cup {"none"}
           /\ path \in Setup!Transports \cup {"none"}
           /\ flow \in {"idle", "negotiating", "probing", "building", "running", "over"}
           /\ OneFlow /\ AskedFor /\ PeerWas /\ SidesAgree /\ MediaFit
  BY DEF SetupInv, Setup!TypeOK

\* Nothing is in an empty sequence.
LEMMA EmptyHasNone ==
    /\ \A K : NoneOf(<<>>, K) /\ AtMostOne(<<>>, K)
    /\ \A K, G : ~LastIn(<<>>, K, G)
  BY DEF NoneOf, AtMostOne, LastIn

\* A Stream starts with nothing on its way, and with Init for when its socket opens.
LEMMA SetupInit ==
    ASSUME Setup!Init
    PROVE  SetupInv
  <1>1. ws = "connecting" /\ wsSendBuffer = <<"Init">> /\ wire = <<>> /\ inbox = <<>>
        /\ remote = [transport |-> "none", streams |-> 0]
        /\ setupTransport = "none" /\ path = "none" /\ flow = "idle" /\ peer = "none"
        /\ video = "idle" /\ audio = "idle" /\ setupRenderer = "none" /\ setupPlayer = "none"
        /\ dataTransport \in Setup!Transports \cup {"auto"}
    BY DEF Setup!Init
  <1>2. ice = FALSE /\ gathered = FALSE /\ wasConnected = FALSE /\ destroyed = FALSE
    BY DEF Setup!Init
  <1>3. remote.transport = "none" /\ remote.streams = 0
        /\ remote \in [transport : Setup!Transports \cup {"none"}, streams : 0..2]
    BY <1>1
  <1>4. <<"Init">> \in Seq(Setup!Messages) /\ <<>> \in Seq(Setup!Messages)
        /\ <<>> \in Seq({"Setup", "WebRtc", "ConnectionComplete"})
    BY DEF Setup!Messages
  <1>5. Setup!TypeOK
    BY <1>1, <1>2, <1>3, <1>4 DEF Setup!TypeOK, Setup!Pipes
  <1>6. OneFlow /\ AskedFor
    BY <1>1, <1>3, EmptyHasNone DEF OneFlow, AskedFor
  <1>7. PeerWas /\ SidesAgree /\ MediaFit
    BY <1>1, <1>2 DEF PeerWas, SidesAgree, MediaFit, Connected
  <1> QED
    BY <1>5, <1>6, <1>7 DEF SetupInv

\* What the page sends goes behind what is on its way, if the socket is open.
LEMMA SentIsLast ==
    ASSUME SetupInv, NEW m \in Setup!Messages, Setup!SendWsMessage(m)
    PROVE  /\ ws' = ws /\ wire' \in Seq(Setup!Messages)
           /\ wsSendBuffer' \in Seq(Setup!Messages)
           /\ \A K : m \notin K => (NoneOf(wire', K) <=> NoneOf(wire, K))
           /\ \A K : AtMostOne(wire, K) /\ (m \in K => NoneOf(wire, K)) => AtMostOne(wire', K)
           /\ \A K, G : ws = "open" /\ m \in K /\ m \in G => LastIn(wire', K, G)
           /\ \A K, G : m \notin K /\ LastIn(wire, K, G) => LastIn(wire', K, G)
  <1>1. wire \in Seq(Setup!Messages) /\ wsSendBuffer \in Seq(Setup!Messages)
    BY SetupTypes
  <1>2. CASE ws = "open"
    <2>1. wire' = Append(wire, m) /\ UNCHANGED <<ws, wsSendBuffer>>
      BY <1>2 DEF Setup!SendWsMessage
    <2>2. Append(wire, m) \in Seq(Setup!Messages)
      BY <1>1
    <2> QED
      BY <1>1, <2>1, <2>2, Behind
  <1>3. CASE ws # "open"
    <2>1. wsSendBuffer' = Append(wsSendBuffer, m) /\ UNCHANGED <<ws, wire>>
      BY <1>3 DEF Setup!SendWsMessage
    <2>2. Append(wsSendBuffer, m) \in Seq(Setup!Messages)
      BY <1>1
    <2> QED
      BY <1>1, <1>3, <2>1, <2>2
  <1> QED
    BY <1>2, <1>3

\* The socket opens and Init goes out.
LEMMA OnWsOpenKeeps ==
    ASSUME SetupInv, Setup!OnWsOpen
    PROVE  SetupInv'
  <1>1. ws = "connecting" /\ ws' = "open" /\ wire' = wire \o wsSendBuffer /\ wsSendBuffer' = <<>>
        /\ UNCHANGED <<dataTransport, inbox, remote, setupTransport, path, flow, peer, ice,
                       gathered, wasConnected, video, audio, setupRenderer, setupPlayer,
                       destroyed>>
    BY DEF Setup!OnWsOpen, Setup!remoteVars, Setup!flowVars, Setup!peerVars, Setup!mediaVars
  <1>2. flow = "idle" /\ wire = <<>> /\ inbox = <<>> /\ wsSendBuffer = <<"Init">>
    BY <1>1, SetupTypes DEF OneFlow
  <1>3. wire' = <<"Init">>
    <2>1. <<>> \o <<"Init">> = <<"Init">>
      OBVIOUS
    <2> QED
      BY <1>1, <1>2, <2>1
  <1>4. /\ wire' \in Seq(Setup!Messages) /\ wsSendBuffer' \in Seq(Setup!Messages)
        /\ NoneOf(wire', {"StartStream"}) /\ AtMostOne(wire', {"StartStream"})
        /\ NoneOf(wire', Setup!Transports) /\ AtMostOne(wire', {"Init"})
    <2>1. <<"Init">> \in Seq(Setup!Messages) /\ <<>> \in Seq(Setup!Messages)
      BY DEF Setup!Messages
    <2>2. Len(<<"Init">>) = 1 /\ <<"Init">>[1] = "Init" /\ \A i \in 1..1 : i = 1
      OBVIOUS
    <2> QED
      BY <1>1, <1>3, <2>1, <2>2 DEF NoneOf, AtMostOne, Setup!Transports
  <1>5. Setup!TypeOK'
    <2>1. Setup!TypeOK
      BY DEF SetupInv
    <2> QED
      BY <1>1, <1>4, <2>1 DEF Setup!TypeOK
  <1>6. OneFlow'
    BY <1>1, <1>2, <1>4, EmptyHasNone DEF OneFlow
  <1>7. AskedFor'
    BY <1>1, <1>2, <1>4, SetupTypes DEF AskedFor, BeforeStart
  <1>8. PeerWas' /\ MediaFit'
    BY <1>1, <1>2, SetupTypes DEF PeerWas, MediaFit, Connected
  <1>9. SidesAgree'
    BY <1>1, <1>2 DEF SidesAgree, Connected
  <1> QED
    BY <1>5, <1>6, <1>7, <1>8, <1>9 DEF SetupInv

\* The flow turns to the Web Socket and tells the streamer.
LEMMA FallBack ==
    ASSUME SetupInv, flow \in {"negotiating", "building"}, Setup!TryWebSocket,
           UNCHANGED <<inbox, remote, ice, wasConnected, destroyed>>,
           peer' \in {peer, "closed"}, video' = "idle", audio' = "idle"
    PROVE  /\ OneFlow' /\ AskedFor' /\ PeerWas' /\ SidesAgree' /\ MediaFit'
           /\ ws' = ws /\ wire' \in Seq(Setup!Messages) /\ wsSendBuffer' \in Seq(Setup!Messages)
           /\ setupTransport' = "websocket" /\ path' = "websocket" /\ flow' = "probing"
  <1>1. /\ Setup!SendWsMessage("websocket") /\ setupTransport' = "websocket"
        /\ path' = "websocket" /\ flow' = "probing"
    BY DEF Setup!TryWebSocket
  <1>2. "websocket" \in Setup!Messages /\ "websocket" \in Setup!Transports
        /\ "Init" \notin Setup!Transports /\ "StartStream" \notin Setup!Transports
    BY DEF Setup!Messages, Setup!Transports
  <1>3. /\ ws' = ws /\ wire' \in Seq(Setup!Messages) /\ wsSendBuffer' \in Seq(Setup!Messages)
        /\ \A K : "websocket" \notin K => (NoneOf(wire', K) <=> NoneOf(wire, K))
        /\ \A K : AtMostOne(wire, K) /\ ("websocket" \in K => NoneOf(wire, K)) =>
                     AtMostOne(wire', K)
        /\ ws = "open" => LastIn(wire', Setup!Transports, {"websocket"})
    BY <1>1, <1>2, SentIsLast
  <1>4. OneFlow'
    <2>1. OneFlow
      BY SetupTypes
    <2> QED
      BY <1>1, <1>3, <2>1 DEF OneFlow
  <1>5. AskedFor'
    <2>1. AskedFor
      BY SetupTypes
    <2> QED
      BY <1>1, <1>3, <2>1 DEF AskedFor, BeforeStart
  <1>6. PeerWas'
    BY <1>1, <1>2, SetupTypes DEF PeerWas, Connected
  <1>7. SidesAgree' /\ MediaFit'
    BY <1>1, <1>3 DEF SidesAgree, MediaFit
  <1> QED
    BY <1>1, <1>3, <1>4, <1>5, <1>6, <1>7

\* A flow that is over, or goes on waiting, has nothing more on its way.
LEMMA FlowKept ==
    ASSUME SetupInv, flow' = flow \/ (flow \in {"negotiating", "running"} /\ flow' = "over"),
           UNCHANGED <<ws, wsSendBuffer, wire, inbox, remote, setupTransport, path, ice,
                       wasConnected, destroyed, video, audio, setupRenderer, setupPlayer>>,
           peer' \in {"connecting", "connected", "disconnected", "failed"} => ice
    PROVE  OneFlow' /\ AskedFor' /\ PeerWas' /\ SidesAgree' /\ MediaFit'
  <1>1. OneFlow /\ AskedFor /\ PeerWas /\ SidesAgree /\ MediaFit
    BY SetupTypes
  <1>2. OneFlow'
    BY <1>1 DEF OneFlow
  <1>3. AskedFor'
    BY <1>1 DEF AskedFor, BeforeStart
  <1>4. PeerWas'
    BY <1>1 DEF PeerWas, Connected
  <1>5. SidesAgree'
    BY <1>1 DEF SidesAgree, Connected
  <1>6. MediaFit'
    BY <1>1 DEF MediaFit
  <1> QED
    BY <1>2, <1>3, <1>4, <1>5, <1>6

\* A transport that closes ends a try, or the flow.
LEMMA CloseKept ==
    ASSUME SetupInv, NEW noconnect \in BOOLEAN, Setup!OnClose(noconnect),
           flow = "running" /\ path = "webrtc" => ~noconnect,
           UNCHANGED <<inbox, remote, ice, wasConnected, destroyed, video, audio,
                       setupRenderer, setupPlayer>>,
           peer' \in {"connecting", "connected", "disconnected", "failed"} => ice,
           path' # "webrtc" => peer' = "closed"
    PROVE  /\ OneFlow' /\ AskedFor' /\ PeerWas' /\ SidesAgree' /\ MediaFit'
           /\ ws' = ws /\ wire' \in Seq(Setup!Messages) /\ wsSendBuffer' \in Seq(Setup!Messages)
           /\ setupTransport' \in Setup!Transports \cup {"none"}
           /\ path' \in Setup!Transports \cup {"none"}
           /\ flow' \in {"idle", "negotiating", "probing", "building", "running", "over"}
  <1>1. \/ flow = "negotiating" /\ dataTransport = "auto" /\ Setup!TryWebSocket
        \/ /\ flow' = flow \/ (flow \in {"negotiating", "running"} /\ flow' = "over")
           /\ UNCHANGED <<setupTransport, path, ws, wsSendBuffer, wire>>
    <2>1. CASE flow = "negotiating"
      BY <2>1 DEF Setup!OnClose, Setup!EndWebRtc, Setup!socketVars
    <2>2. CASE flow = "running" /\ path = "webrtc"
      BY <2>2 DEF Setup!OnClose, Setup!EndWebRtc, Setup!socketVars
    <2>3. CASE flow # "negotiating" /\ ~(flow = "running" /\ path = "webrtc")
      BY <2>3 DEF Setup!OnClose, Setup!flowVars, Setup!socketVars
    <2> QED
      BY <2>1, <2>2, <2>3
  <1>2. CASE flow = "negotiating" /\ Setup!TryWebSocket
    <2>1. video' = "idle" /\ audio' = "idle"
      BY <1>2, SetupTypes DEF MediaFit
    <2>2. path' = "websocket"
      BY <1>2 DEF Setup!TryWebSocket
    <2> QED
      BY <1>2, <2>1, <2>2, FallBack DEF Setup!Transports
  <1>3. CASE /\ flow' = flow \/ (flow \in {"negotiating", "running"} /\ flow' = "over")
             /\ UNCHANGED <<setupTransport, path, ws, wsSendBuffer, wire>>
    BY <1>3, FlowKept, SetupTypes
  <1> QED
    BY <1>1, <1>2, <1>3

\* The streamer is ready: the flow begins.
LEMMA SetupStartKeeps ==
    ASSUME SetupInv, Setup!Setup
    PROVE  SetupInv'
  <1> DEFINE m == IF dataTransport = "websocket" THEN "websocket" ELSE "webrtc"
  <1>1. /\ inbox # <<>> /\ Head(inbox) = "Setup" /\ inbox' = Tail(inbox)
        /\ Setup!SendWsMessage(m) /\ setupTransport' = m /\ path' = m
        /\ flow' = IF m = "websocket" THEN "probing" ELSE "negotiating"
        /\ peer' = IF m = "websocket" THEN peer ELSE "new"
        /\ UNCHANGED <<dataTransport, remote, ice, gathered, wasConnected, video, audio,
                       setupRenderer, setupPlayer, destroyed>>
    BY DEF Setup!Setup, Setup!TryWebSocket, Setup!mediaVars
  <1>2. m \in Setup!Messages /\ m \in Setup!Transports /\ m \in {"websocket", "webrtc"}
        /\ "Init" \notin Setup!Transports /\ "StartStream" \notin Setup!Transports
    BY DEF Setup!Messages, Setup!Transports
  <1> HIDE DEF m
  <1>3. /\ ws' = ws /\ wire' \in Seq(Setup!Messages) /\ wsSendBuffer' \in Seq(Setup!Messages)
        /\ \A K : m \notin K => (NoneOf(wire', K) <=> NoneOf(wire, K))
        /\ \A K : AtMostOne(wire, K) /\ (m \in K => NoneOf(wire, K)) => AtMostOne(wire', K)
        /\ ws = "open" => LastIn(wire', Setup!Transports, {m})
    BY <1>1, <1>2, SentIsLast
  <1>4. /\ inbox' \in Seq({"Setup", "WebRtc", "ConnectionComplete"})
        /\ \A K : NoneOf(inbox, K) <=> NoneOf(inbox', K) /\ "Setup" \notin K
        /\ \A K : AtMostOne(inbox, K) => AtMostOne(inbox', K) /\ ("Setup" \in K => NoneOf(inbox', K))
    <2>1. inbox \in Seq({"Setup", "WebRtc", "ConnectionComplete"})
      BY SetupTypes
    <2> QED
      BY <1>1, <2>1, Ahead
  <1>5. flow = "idle" /\ ws # "connecting" /\ NoneOf(wire, {"Init"}) /\ NoneOf(inbox', {"Setup"})
    <2>1. OneFlow
      BY SetupTypes
    <2> QED
      BY <1>1, <1>4, <2>1 DEF OneFlow
  <1>6. Setup!TypeOK'
    <2>1. Setup!TypeOK
      BY DEF SetupInv
    <2> QED
      BY <1>1, <1>2, <1>3, <1>4, <2>1 DEF Setup!TypeOK
  <1>7. OneFlow'
    <2>1. OneFlow
      BY SetupTypes
    <2> QED
      BY <1>2, <1>3, <1>4, <1>5, <2>1 DEF OneFlow
  <1>8. AskedFor'
    BY <1>1, <1>2, <1>3, <1>5, SetupTypes DEF AskedFor, BeforeStart
  <1>9. PeerWas'
    BY <1>1, <1>2, SetupTypes DEF PeerWas, Connected
  <1>10. SidesAgree'
    BY <1>1, <1>3 DEF SidesAgree
  <1>11. MediaFit'
    BY <1>1, <1>5, SetupTypes DEF MediaFit
  <1> QED
    BY <1>6, <1>7, <1>8, <1>9, <1>10, <1>11 DEF SetupInv

\* What shows the picture and what plays the sound are looked for and built.
LEMMA MediaKeeps ==
    ASSUME SetupInv,
           \/ \E codec \in BOOLEAN : Setup!CreatePipelines(codec)
           \/ \E ok \in BOOLEAN : Setup!VideoBuilt(ok) \/ Setup!AudioBuilt(ok)
           \/ Setup!VideoSupport \/ Setup!PipelineThrew
    PROVE  SetupInv'
  <1>1. /\ UNCHANGED <<dataTransport, ws, wsSendBuffer, wire, inbox, remote, setupTransport, path,
                       peer, ice, gathered, wasConnected, destroyed>>
        /\ \/ flow = "probing" /\ flow' = "building"
           \/ flow = "building" /\ flow' = "over"
           \/ flow' = flow
    BY DEF Setup!CreatePipelines, Setup!VideoBuilt, Setup!AudioBuilt, Setup!VideoSupport,
       Setup!PipelineThrew, Setup!socketVars, Setup!remoteVars, Setup!flowVars, Setup!peerVars
  <1>2. OneFlow /\ AskedFor /\ PeerWas /\ SidesAgree /\ MediaFit /\ Setup!TypeOK
    BY SetupTypes DEF SetupInv
  <1>3. OneFlow'
    BY <1>1, <1>2 DEF OneFlow
  <1>4. AskedFor'
    BY <1>1, <1>2 DEF AskedFor, BeforeStart
  <1>5. PeerWas'
    BY <1>1, <1>2 DEF PeerWas, Connected
  <1>6. SidesAgree'
    BY <1>1, <1>2 DEF SidesAgree, Connected
  <1>7. path \in Setup!Transports \cup {"none"} /\ Setup!PipeOf(path) \in Setup!Pipes
        /\ "none" \in Setup!Pipes
    BY SetupTypes DEF Setup!PipeOf, Setup!Pipes
  <1>8. CASE \E codec \in BOOLEAN : Setup!CreatePipelines(codec)
    <2>1. /\ flow = "probing" /\ flow' = "building" /\ setupRenderer' = "none" /\ setupPlayer' = "none"
          /\ video' \in {"support", "failed"} /\ audio' \in {"building", "done"}
      BY <1>8 DEF Setup!CreatePipelines, Setup!CleanUpOld
    <2>2. MediaFit'
      BY <2>1 DEF MediaFit
    <2>3. Setup!TypeOK'
      BY <1>1, <1>2, <1>7, <2>1 DEF Setup!TypeOK
    <2> QED
      BY <1>3, <1>4, <1>5, <1>6, <2>2, <2>3 DEF SetupInv
  <1>9. CASE \E ok \in BOOLEAN : Setup!VideoBuilt(ok)
    <2>1. /\ video = "building" /\ UNCHANGED <<audio, setupPlayer, flow>>
          /\ \/ video' = "done" /\ setupRenderer' = Setup!PipeOf(path)
             \/ video' = "failed" /\ setupRenderer' = setupRenderer
      BY <1>9 DEF Setup!VideoBuilt, Setup!flowVars
    <2>2. MediaFit'
      BY <1>1, <1>2, <2>1 DEF MediaFit, Setup!PipeOf
    <2>3. Setup!TypeOK'
      BY <1>1, <1>2, <1>7, <2>1 DEF Setup!TypeOK
    <2> QED
      BY <1>3, <1>4, <1>5, <1>6, <2>2, <2>3 DEF SetupInv
  <1>10. CASE \E ok \in BOOLEAN : Setup!AudioBuilt(ok)
    <2>1. /\ audio = "building" /\ audio' = "done" /\ UNCHANGED <<video, setupRenderer, flow>>
          /\ setupPlayer' = Setup!PipeOf(path) \/ setupPlayer' = setupPlayer
      BY <1>10 DEF Setup!AudioBuilt, Setup!flowVars
    <2>2. MediaFit'
      BY <1>1, <1>2, <2>1 DEF MediaFit, Setup!PipeOf
    <2>3. Setup!TypeOK'
      BY <1>1, <1>2, <1>7, <2>1 DEF Setup!TypeOK
    <2> QED
      BY <1>3, <1>4, <1>5, <1>6, <2>2, <2>3 DEF SetupInv
  <1>11. CASE Setup!VideoSupport \/ Setup!PipelineThrew
    <2>1. /\ UNCHANGED <<audio, setupRenderer, setupPlayer>>
          /\ \/ video' = "threw" /\ flow' = flow /\ video = "support"
             \/ video' = "building" /\ flow' = flow /\ video = "support"
             \/ video' = "idle" /\ flow' = "over" /\ flow = "building"
      BY <1>11 DEF Setup!VideoSupport, Setup!PipelineThrew, Setup!flowVars
    <2>2. MediaFit'
      BY <1>1, <1>2, <2>1 DEF MediaFit, Setup!PipeOf
    <2>3. Setup!TypeOK'
      BY <1>1, <1>2, <1>7, <2>1 DEF Setup!TypeOK
    <2> QED
      BY <1>3, <1>4, <1>5, <1>6, <2>2, <2>3 DEF SetupInv
  <1> QED
    BY <1>8, <1>9, <1>10, <1>11

\* The stream is asked for once what shows and plays it is there.
LEMMA StartStreamKeeps ==
    ASSUME SetupInv, Setup!StartStream
    PROVE  SetupInv'
  <1>1. /\ flow = "building" /\ video = "done" /\ Setup!SendWsMessage("StartStream")
        /\ flow' = "running" /\ video' = "idle" /\ audio' = "idle"
        /\ UNCHANGED <<dataTransport, inbox, remote, setupTransport, path, peer, ice, gathered,
                       wasConnected, setupRenderer, setupPlayer, destroyed>>
    BY DEF Setup!StartStream, Setup!remoteVars, Setup!peerVars
  <1>2. "StartStream" \in Setup!Messages /\ "StartStream" \notin Setup!Transports
    BY DEF Setup!Messages, Setup!Transports
  <1>3. /\ ws' = ws /\ wire' \in Seq(Setup!Messages) /\ wsSendBuffer' \in Seq(Setup!Messages)
        /\ \A K : "StartStream" \notin K => (NoneOf(wire', K) <=> NoneOf(wire, K))
        /\ \A K : AtMostOne(wire, K) /\ ("StartStream" \in K => NoneOf(wire, K)) =>
                     AtMostOne(wire', K)
        /\ \A K, G : "StartStream" \notin K /\ LastIn(wire, K, G) => LastIn(wire', K, G)
    BY <1>1, <1>2, SentIsLast
  <1>4. OneFlow /\ AskedFor /\ PeerWas /\ SidesAgree /\ MediaFit /\ Setup!TypeOK
    BY SetupTypes DEF SetupInv
  <1>5. Setup!TypeOK'
    BY <1>1, <1>3, <1>4 DEF Setup!TypeOK
  <1>6. OneFlow'
    BY <1>1, <1>3, <1>4 DEF OneFlow
  <1>7. AskedFor'
    BY <1>1, <1>3, <1>4 DEF AskedFor, BeforeStart
  <1>8. PeerWas' /\ MediaFit'
    BY <1>1, <1>4 DEF PeerWas, Connected, MediaFit
  <1>9. SidesAgree'
    BY <1>1, <1>2, <1>3, <1>4 DEF SidesAgree, Connected
  <1> QED
    BY <1>5, <1>6, <1>7, <1>8, <1>9 DEF SetupInv

\* Without a pipeline the flow falls back, or gives up.
LEMMA NoPipelineKeeps ==
    ASSUME SetupInv, Setup!NoPipeline
    PROVE  SetupInv'
  <1>1. /\ flow = "building" /\ video' = "idle" /\ audio' = "idle"
        /\ \/ path = "webrtc" /\ dataTransport = "auto" /\ Setup!TryWebSocket
           \/ /\ flow' = "over"
              /\ UNCHANGED <<setupTransport, path, ws, wsSendBuffer, wire>>
        /\ peer' = IF path = "webrtc" THEN "closed" ELSE peer
        /\ UNCHANGED <<dataTransport, inbox, remote, ice, gathered, wasConnected, setupRenderer,
                       setupPlayer, destroyed>>
    BY DEF Setup!NoPipeline, Setup!remoteVars, Setup!socketVars
  <1>2. OneFlow /\ AskedFor /\ PeerWas /\ SidesAgree /\ MediaFit /\ Setup!TypeOK
    BY SetupTypes DEF SetupInv
  <1>3. CASE path = "webrtc" /\ Setup!TryWebSocket
    <2>1. peer' \in {peer, "closed"}
      BY <1>1
    <2>2. /\ OneFlow' /\ AskedFor' /\ PeerWas' /\ SidesAgree' /\ MediaFit'
          /\ ws' = ws /\ wire' \in Seq(Setup!Messages) /\ wsSendBuffer' \in Seq(Setup!Messages)
          /\ setupTransport' = "websocket" /\ path' = "websocket" /\ flow' = "probing"
      BY <1>1, <1>3, <2>1, FallBack
    <2>3. Setup!TypeOK'
      BY <1>1, <1>2, <2>2 DEF Setup!TypeOK, Setup!Transports
    <2> QED
      BY <2>2, <2>3 DEF SetupInv
  <1>4. CASE flow' = "over" /\ UNCHANGED <<setupTransport, path, ws, wsSendBuffer, wire>>
    <2>1. OneFlow'
      BY <1>1, <1>2, <1>4 DEF OneFlow
    <2>2. AskedFor'
      BY <1>1, <1>2, <1>4 DEF AskedFor, BeforeStart
    <2>3. PeerWas' /\ MediaFit'
      BY <1>1, <1>2, <1>4 DEF PeerWas, Connected, MediaFit
    <2>4. SidesAgree'
      BY <1>1, <1>2, <1>4 DEF SidesAgree, Connected
    <2>5. Setup!TypeOK'
      BY <1>1, <1>2, <1>4 DEF Setup!TypeOK
    <2> QED
      BY <2>1, <2>2, <2>3, <2>4, <2>5 DEF SetupInv
  <1> QED
    BY <1>1, <1>3, <1>4

\* The peer connects, and the flow goes on; or its connection breaks off.
LEMMA PeerChangesKeeps ==
    ASSUME SetupInv, Setup!PeerConnected \/ Setup!PeerDisconnected
    PROVE  SetupInv'
  <1>1. /\ \/ peer' = "connected" /\ wasConnected' = TRUE
              /\ flow' = (IF flow = "negotiating" THEN "probing" ELSE flow)
              /\ peer \in {"connecting", "disconnected"}
           \/ peer' = "disconnected" /\ wasConnected' = wasConnected /\ flow' = flow
              /\ peer = "connected"
        /\ UNCHANGED <<dataTransport, ws, wsSendBuffer, wire, inbox, remote, setupTransport, path,
                       ice, gathered, video, audio, setupRenderer, setupPlayer, destroyed>>
    BY DEF Setup!PeerConnected, Setup!PeerDisconnected, Setup!ConnectedRemembered,
       Setup!socketVars, Setup!remoteVars, Setup!mediaVars, Setup!flowVars
  <1>2. OneFlow /\ AskedFor /\ PeerWas /\ SidesAgree /\ MediaFit /\ Setup!TypeOK
    BY SetupTypes DEF SetupInv
  <1>3. OneFlow'
    BY <1>1, <1>2 DEF OneFlow
  <1>4. AskedFor'
    BY <1>1, <1>2 DEF AskedFor, BeforeStart
  <1>5. PeerWas'
    BY <1>1, <1>2 DEF PeerWas, Connected, Setup!Transports
  <1>6. SidesAgree'
    BY <1>1, <1>2 DEF SidesAgree, Connected
  <1>7. MediaFit'
    BY <1>1, <1>2 DEF MediaFit
  <1>8. Setup!TypeOK'
    <2>1. wasConnected' \in BOOLEAN
      BY <1>1, <1>2, Zenon DEF Setup!TypeOK
    <2>2. /\ peer' \in {"none", "new", "connecting", "connected", "disconnected", "failed", "closed"}
          /\ flow' \in {"idle", "negotiating", "probing", "building", "running", "over"}
      BY <1>1, <1>2 DEF Setup!TypeOK
    <2>3. UNCHANGED <<dataTransport, ws, wsSendBuffer, wire, inbox, remote, setupTransport, path,
                      ice, gathered, video, audio, setupRenderer, setupPlayer, destroyed>>
      BY <1>1
    <2> QED
      BY <1>2, <2>1, <2>2, <2>3 DEF Setup!TypeOK
  <1> QED
    BY <1>3, <1>4, <1>5, <1>6, <1>7, <1>8 DEF SetupInv

\* The connection of the peer fails.
LEMMA PeerFailedKeeps ==
    ASSUME SetupInv, Setup!PeerFailed
    PROVE  SetupInv'
  <1> DEFINE noconnect == ~wasConnected
  <1>1. /\ Setup!OnClose(noconnect) /\ peer \in {"connecting", "disconnected"}
        /\ peer' = IF path' = "webrtc" THEN "failed" ELSE "closed"
        /\ UNCHANGED <<dataTransport, inbox, remote, ice, gathered, wasConnected, video, audio,
                       setupRenderer, setupPlayer, destroyed>>
    BY DEF Setup!PeerFailed, Setup!remoteVars, Setup!mediaVars
  <1>2. PeerWas /\ Setup!TypeOK
    BY SetupTypes DEF SetupInv
  <1>3. noconnect \in BOOLEAN
    BY Zenon
  <1>4. flow = "running" /\ path = "webrtc" => ~noconnect
    BY <1>2 DEF PeerWas, Connected
  <1> HIDE DEF noconnect
  <1>5. /\ peer' \in {"connecting", "connected", "disconnected", "failed"} => ice
        /\ path' # "webrtc" => peer' = "closed"
    BY <1>1, <1>2 DEF PeerWas
  <1>6. /\ OneFlow' /\ AskedFor' /\ PeerWas' /\ SidesAgree' /\ MediaFit'
        /\ ws' = ws /\ wire' \in Seq(Setup!Messages) /\ wsSendBuffer' \in Seq(Setup!Messages)
        /\ setupTransport' \in Setup!Transports \cup {"none"}
        /\ path' \in Setup!Transports \cup {"none"}
        /\ flow' \in {"idle", "negotiating", "probing", "building", "running", "over"}
    BY <1>1, <1>3, <1>4, <1>5, CloseKept
  <1>7. Setup!TypeOK'
    BY <1>1, <1>2, <1>6 DEF Setup!TypeOK
  <1> QED
    BY <1>6, <1>7 DEF SetupInv

\* The page has found all its candidates.
LEMMA GatheredKeeps ==
    ASSUME SetupInv, Setup!Gathered
    PROVE  SetupInv'
  <1>1. /\ IF ~ice THEN Setup!OnClose(TRUE)
                   ELSE UNCHANGED <<setupTransport, path, flow, ws, wsSendBuffer, wire>>
        /\ peer \notin {"none", "closed"} /\ gathered' = TRUE
        /\ peer' = IF path' = "webrtc" THEN peer ELSE "closed"
        /\ UNCHANGED <<dataTransport, inbox, remote, ice, wasConnected, video, audio,
                       setupRenderer, setupPlayer, destroyed>>
    BY DEF Setup!Gathered, Setup!PeerReports, Setup!remoteVars, Setup!mediaVars, Setup!flowVars,
       Setup!socketVars
  <1>2. PeerWas /\ Setup!TypeOK
    BY SetupTypes DEF SetupInv
  <1>3. /\ peer' \in {"connecting", "connected", "disconnected", "failed"} => ice
        /\ path' # "webrtc" => peer' = "closed"
    BY <1>1, <1>2 DEF PeerWas
  <1>4. /\ OneFlow' /\ AskedFor' /\ PeerWas' /\ SidesAgree' /\ MediaFit'
        /\ ws' = ws /\ wire' \in Seq(Setup!Messages) /\ wsSendBuffer' \in Seq(Setup!Messages)
        /\ setupTransport' \in Setup!Transports \cup {"none"}
        /\ path' \in Setup!Transports \cup {"none"}
        /\ flow' \in {"idle", "negotiating", "probing", "building", "running", "over"}
    <2>1. CASE ~ice
      <3>1. Setup!OnClose(TRUE) /\ ~(flow = "running" /\ path = "webrtc")
        BY <1>1, <1>2, <2>1 DEF PeerWas, Connected
      <3> QED
        BY <1>1, <1>3, <3>1, CloseKept
    <2>2. CASE ice
      <3>1. UNCHANGED <<setupTransport, path, flow, ws, wsSendBuffer, wire>>
        BY <1>1, <2>2
      <3> QED
        BY <1>1, <1>3, <3>1, FlowKept, SetupTypes
    <2> QED
      BY <2>1, <2>2
  <1>5. Setup!TypeOK'
    BY <1>1, <1>2, <1>4 DEF Setup!TypeOK
  <1> QED
    BY <1>4, <1>5 DEF SetupInv

\* The page hears of the streamer's side of the peer, or that it streams.
LEMMA HearsKeeps ==
    ASSUME SetupInv, Setup!WebRtcMessage \/ Setup!ConnectionComplete
    PROVE  SetupInv'
  <1>1. /\ inbox # <<>> /\ inbox' = Tail(inbox)
        /\ UNCHANGED <<peer, ice>> \/ (peer' = "connecting" /\ ice' = TRUE)
        /\ UNCHANGED <<dataTransport, ws, wsSendBuffer, wire, remote, setupTransport, path, flow,
                       gathered, wasConnected, video, audio, setupRenderer, setupPlayer,
                       destroyed>>
    BY DEF Setup!WebRtcMessage, Setup!ConnectionComplete, Setup!socketVars, Setup!mediaVars,
       Setup!flowVars, Setup!peerVars
  <1>2. /\ inbox' \in Seq({"Setup", "WebRtc", "ConnectionComplete"})
        /\ \A K : NoneOf(inbox, K) => NoneOf(inbox', K)
        /\ \A K : AtMostOne(inbox, K) => AtMostOne(inbox', K)
    <2>1. inbox \in Seq({"Setup", "WebRtc", "ConnectionComplete"})
      BY SetupTypes
    <2> QED
      BY <1>1, <2>1, Ahead
  <1>3. OneFlow /\ AskedFor /\ PeerWas /\ SidesAgree /\ MediaFit /\ Setup!TypeOK
    BY SetupTypes DEF SetupInv
  <1>4. OneFlow'
    BY <1>1, <1>2, <1>3 DEF OneFlow
  <1>5. AskedFor'
    BY <1>1, <1>3 DEF AskedFor, BeforeStart
  <1>6. PeerWas'
    BY <1>1, <1>3 DEF PeerWas, Connected
  <1>7. SidesAgree'
    BY <1>1, <1>3 DEF SidesAgree, Connected
  <1>8. MediaFit'
    BY <1>1, <1>3 DEF MediaFit
  <1>9. Setup!TypeOK'
    <2>1. ice' \in BOOLEAN
      BY <1>1, <1>3, Zenon DEF Setup!TypeOK
    <2>2. peer' \in {"none", "new", "connecting", "connected", "disconnected", "failed", "closed"}
      BY <1>1, <1>3 DEF Setup!TypeOK
    <2>3. UNCHANGED <<dataTransport, ws, wsSendBuffer, wire, remote, setupTransport, path, flow,
                      gathered, wasConnected, video, audio, setupRenderer, setupPlayer,
                      destroyed>>
      BY <1>1
    <2> QED
      BY <1>2, <1>3, <2>1, <2>2, <2>3 DEF Setup!TypeOK
  <1> QED
    BY <1>4, <1>5, <1>6, <1>7, <1>8, <1>9 DEF SetupInv

\* The socket closes, or the viewer leaves the Stream.
LEMMA EndKeeps ==
    ASSUME SetupInv, Setup!OnWsClose \/ Setup!Destroy
    PROVE  SetupInv'
  <1>1. /\ ws' = "closed" /\ wire' = <<>> /\ inbox' = <<>>
        /\ flow' = IF flow = "running" /\ path = "websocket" THEN "over" ELSE flow
        /\ \/ UNCHANGED <<setupTransport, peer, setupRenderer, setupPlayer, destroyed>>
           \/ /\ destroyed' = TRUE /\ setupTransport' = "none" /\ peer' \in {peer, "closed"}
              /\ setupRenderer' = "none" /\ setupPlayer' = "none"
        /\ UNCHANGED <<dataTransport, wsSendBuffer, remote, path, ice, gathered, wasConnected,
                       video, audio>>
    BY DEF Setup!OnWsClose, Setup!Destroy, Setup!peerVars, Setup!mediaVars
  <1>2. OneFlow /\ AskedFor /\ PeerWas /\ SidesAgree /\ MediaFit /\ Setup!TypeOK
    BY SetupTypes DEF SetupInv
  <1>3. <<>> \in Seq({"Setup", "WebRtc", "ConnectionComplete"}) /\ <<>> \in Seq(Setup!Messages)
    OBVIOUS
  <1>4. OneFlow'
    BY <1>1, <1>2, EmptyHasNone DEF OneFlow
  <1>5. AskedFor'
    BY <1>1, <1>2, EmptyHasNone DEF AskedFor, BeforeStart
  <1>6. PeerWas'
    BY <1>1, <1>2 DEF PeerWas, Connected
  <1>7. SidesAgree'
    BY <1>1, <1>2 DEF SidesAgree, Connected
  <1>8. MediaFit'
    BY <1>1, <1>2 DEF MediaFit
  <1>9. Setup!TypeOK'
    <2>1. destroyed' \in BOOLEAN
      BY <1>1, <1>2, Zenon DEF Setup!TypeOK
    <2>2. /\ flow' \in {"idle", "negotiating", "probing", "building", "running", "over"}
          /\ setupTransport' \in Setup!Transports \cup {"none"}
          /\ peer' \in {"none", "new", "connecting", "connected", "disconnected", "failed", "closed"}
          /\ setupRenderer' \in Setup!Pipes /\ setupPlayer' \in Setup!Pipes
          /\ ws' \in {"connecting", "open", "closed"}
          /\ wire' \in Seq(Setup!Messages)
          /\ inbox' \in Seq({"Setup", "WebRtc", "ConnectionComplete"})
      BY <1>1, <1>2, <1>3 DEF Setup!TypeOK, Setup!Pipes
    <2>3. UNCHANGED <<dataTransport, wsSendBuffer, remote, path, ice, gathered, wasConnected, video,
                      audio>>
      BY <1>1
    <2> QED
      BY <1>2, <2>1, <2>2, <2>3 DEF Setup!TypeOK
  <1> QED
    BY <1>4, <1>5, <1>6, <1>7, <1>8, <1>9 DEF SetupInv

\* The streamer takes what is said to it, one after the other.
LEMMA StreamerTakesKeeps ==
    ASSUME SetupInv, Setup!StreamerTakes
    PROVE  SetupInv'
  <1> DEFINE m == Head(wire)
             Inward == {"Setup", "WebRtc", "ConnectionComplete"}
  <1>1. /\ wire # <<>> /\ wire' = Tail(wire)
        /\ UNCHANGED <<dataTransport, ws, wsSendBuffer, setupTransport, path, flow, peer, ice,
                       gathered, wasConnected, video, audio, setupRenderer, setupPlayer,
                       destroyed>>
    BY DEF Setup!StreamerTakes, Setup!flowVars, Setup!peerVars, Setup!mediaVars
  <1>2. OneFlow /\ AskedFor /\ PeerWas /\ SidesAgree /\ MediaFit /\ Setup!TypeOK
        /\ wire \in Seq(Setup!Messages) /\ inbox \in Seq(Inward)
        /\ remote \in [transport : Setup!Transports \cup {"none"}, streams : 0..2]
    BY SetupTypes DEF SetupInv
  <1>3. /\ wire' \in Seq(Setup!Messages) /\ m \in Setup!Messages
        /\ \A K : NoneOf(wire, K) <=> NoneOf(wire', K) /\ m \notin K
        /\ \A K : AtMostOne(wire, K) => AtMostOne(wire', K) /\ (m \in K => NoneOf(wire', K))
        /\ \A K, G : LastIn(wire, K, G) =>
              LastIn(wire', K, G) \/ (m \in K /\ m \in G /\ NoneOf(wire', K))
    BY <1>1, <1>2, Ahead
  <1>4. /\ "Init" \notin Setup!Transports /\ "StartStream" \notin Setup!Transports
        /\ m = "Init" \/ m \in Setup!Transports \/ m = "StartStream"
    BY <1>3 DEF Setup!Messages, Setup!Transports
  <1>5. \/ m = "Init" /\ inbox' = Append(inbox, "Setup") /\ remote' = remote
        \/ /\ m \in Setup!Transports
           /\ remote' = [remote EXCEPT !.transport = m]
           /\ inbox' = IF m = "webrtc" THEN Append(inbox, "WebRtc") ELSE inbox
        \/ /\ m = "StartStream"
           /\ remote' = [remote EXCEPT !.streams = @ + 1]
           /\ inbox' = Append(inbox, "ConnectionComplete")
    BY Zenon DEF Setup!StreamerTakes
  <1> HIDE DEF m
  <1>6. /\ inbox' \in Seq(Inward)
        /\ m # "Init" => /\ NoneOf(inbox, {"Setup"}) => NoneOf(inbox', {"Setup"})
                         /\ AtMostOne(inbox, {"Setup"}) => AtMostOne(inbox', {"Setup"})
        /\ AtMostOne(inbox, {"Setup"}) /\ NoneOf(inbox, {"Setup"}) => AtMostOne(inbox', {"Setup"})
    <2>1. \A x \in Inward :
             /\ Append(inbox, x) \in Seq(Inward)
             /\ x # "Setup" => (NoneOf(inbox, {"Setup"}) => NoneOf(Append(inbox, x), {"Setup"}))
             /\ AtMostOne(inbox, {"Setup"}) /\ (x # "Setup" \/ NoneOf(inbox, {"Setup"})) =>
                   AtMostOne(Append(inbox, x), {"Setup"})
      <3> SUFFICES ASSUME NEW x \in Inward
                   PROVE  /\ Append(inbox, x) \in Seq(Inward)
                          /\ x # "Setup" =>
                                (NoneOf(inbox, {"Setup"}) => NoneOf(Append(inbox, x), {"Setup"}))
                          /\ AtMostOne(inbox, {"Setup"}) /\ (x # "Setup" \/ NoneOf(inbox, {"Setup"}))
                                => AtMostOne(Append(inbox, x), {"Setup"})
        OBVIOUS
      <3>1. /\ NoneOf(Append(inbox, x), {"Setup"}) <=> NoneOf(inbox, {"Setup"}) /\ x \notin {"Setup"}
            /\ AtMostOne(inbox, {"Setup"}) /\ (x \in {"Setup"} => NoneOf(inbox, {"Setup"})) =>
                  AtMostOne(Append(inbox, x), {"Setup"})
        BY <1>2, Behind
      <3>2. Append(inbox, x) \in Seq(Inward)
        BY <1>2
      <3> QED
        BY <3>1, <3>2
    <2> QED
      BY <1>2, <1>4, <1>5, <2>1
  <1>7. /\ remote' \in [transport : Setup!Transports \cup {"none"}, streams : 0..2]
        /\ m \in Setup!Transports => remote'.transport = m /\ remote'.streams = remote.streams
        /\ m = "StartStream" => /\ remote.streams = 0 /\ remote'.streams = 1
                                /\ remote'.transport = remote.transport
        /\ m = "Init" => remote' = remote
    <2>1. /\ remote.streams \in 0..2 /\ remote.transport \in Setup!Transports \cup {"none"}
          /\ remote = [transport |-> remote.transport, streams |-> remote.streams]
      BY <1>2
    <2>2. m = "StartStream" => remote.streams = 0
      BY <1>2, <1>3, <2>1 DEF AskedFor
    <2>3. CASE m = "Init"
      <3>1. remote' = remote
        BY <1>4, <1>5, <2>3
      <3> QED
        BY <1>2, <1>4, <2>3, <3>1
    <2>4. CASE m = "StartStream"
      <3>1. remote' = [remote EXCEPT !.streams = @ + 1]
        BY <1>4, <1>5, <2>4
      <3> QED
        BY <1>4, <2>1, <2>2, <2>4, <3>1
    <2>5. CASE m \in Setup!Transports
      <3>1. remote' = [remote EXCEPT !.transport = m]
        BY <1>4, <1>5, <2>5
      <3> QED
        BY <1>4, <2>1, <2>5, <3>1
    <2> QED
      BY <1>4, <2>3, <2>4, <2>5
  <1>8. Setup!TypeOK'
    BY <1>1, <1>2, <1>3, <1>6, <1>7 DEF Setup!TypeOK
  <1>9. OneFlow'
    BY <1>1, <1>2, <1>3, <1>6 DEF OneFlow
  <1>10. AskedFor'
    BY <1>1, <1>2, <1>3, <1>4, <1>7 DEF AskedFor, BeforeStart
  <1>11. PeerWas' /\ MediaFit'
    BY <1>1, <1>2 DEF PeerWas, Connected, MediaFit
  <1>12. SidesAgree'
    BY <1>1, <1>2, <1>3, <1>4, <1>7 DEF SidesAgree, Connected
  <1> QED
    BY <1>8, <1>9, <1>10, <1>11, <1>12 DEF SetupInv

\* Every step of the set-up keeps the invariant.
LEMMA SetupKeeps ==
    ASSUME SetupInv, Setup!Next
    PROVE  SetupInv'
  BY OnWsOpenKeeps, SetupStartKeeps, HearsKeeps, EndKeeps, MediaKeeps, StartStreamKeeps,
     NoPipelineKeeps, PeerChangesKeeps, PeerFailedKeeps, GatheredKeeps, StreamerTakesKeeps
     DEF Setup!Next

\* A stream is asked for once, and both sides then use what was set up for it.
LEMMA SetupSound ==
    ASSUME SetupInv
    PROVE  Setup!TypeOK /\ Setup!StartedOnce /\ Setup!PipelinesFit
  <1>1. OneFlow /\ AskedFor /\ PeerWas /\ SidesAgree /\ MediaFit /\ Setup!TypeOK
        /\ wire \in Seq(Setup!Messages)
        /\ remote \in [transport : Setup!Transports \cup {"none"}, streams : 0..2]
    BY SetupTypes DEF SetupInv
  <1>2. DOMAIN wire = 1..Len(wire) /\ Len(wire) \in Nat
    BY <1>1
  <1>3. Setup!StartedOnce
    <2> DEFINE A == {i \in DOMAIN wire : wire[i] = "StartStream"}
    <2>1. A = {} \/ \E i \in 1..Len(wire) : A = {i}
      <3>1. \A i, j \in 1..Len(wire) : wire[i] = "StartStream" /\ wire[j] = "StartStream" => i = j
        BY <1>1 DEF AskedFor, AtMostOne
      <3>2. ASSUME NEW i \in A
            PROVE  A = {i}
        BY <1>2, <3>1
      <3> QED
        BY <1>2, <3>2
    <2>2. remote.streams = 1 => A = {}
      BY <1>1, <1>2 DEF AskedFor, NoneOf
    <2> HIDE DEF A
    <2>3. Cardinality(A) \in 0..1 /\ (A = {} => Cardinality(A) = 0)
      <3>1. CASE A = {}
        BY <3>1, FS_EmptySet
      <3>2. CASE A # {}
        <4>1. PICK i : A = {i}
          BY <2>1, <3>2
        <4>2. Cardinality({i}) = 1
          BY FS_Singleton, Zenon
        <4> QED
          BY <3>2, <4>1, <4>2
      <3> QED
        BY <3>1, <3>2
    <2>4. remote.streams \in 0..1
      BY <1>1 DEF AskedFor
    <2>5. remote.streams + Cardinality(A) <= 1
      BY <2>2, <2>3, <2>4
    <2>6. Setup!Cardinality(A) = Cardinality(A)
      BY DEF Setup!Cardinality, Cardinality
    <2> QED
      BY <2>5, <2>6 DEF Setup!StartedOnce, A
  <1>4. ASSUME flow = "running", ~destroyed
        PROVE  /\ setupTransport = path /\ setupRenderer = Setup!PipeOf(setupTransport)
               /\ setupPlayer \in {"none", Setup!PipeOf(setupTransport)}
               /\ ws = "open" => Setup!RemoteTransport = setupTransport
    <2>1. /\ setupTransport = path /\ setupRenderer = Setup!PipeOf(setupTransport)
          /\ setupPlayer \in {"none", Setup!PipeOf(setupTransport)}
      BY <1>1, <1>4 DEF SidesAgree, MediaFit, Connected
    <2> DEFINE toldThen == {i \in DOMAIN wire : wire[i] \in Setup!Transports}
    <2>2. CASE NoneOf(wire, Setup!Transports) /\ remote.transport = path
      <3>1. toldThen = {}
        BY <1>2, <2>2 DEF NoneOf
      <3> QED
        BY <2>1, <2>2, <3>1 DEF Setup!RemoteTransport
    <2>3. CASE LastIn(wire, Setup!Transports, {path})
      <3>1. PICK i \in 1..Len(wire) : /\ wire[i] \in Setup!Transports /\ wire[i] = path
                                      /\ \A j \in 1..Len(wire) : j > i => wire[j] \notin Setup!Transports
        BY <2>3 DEF LastIn
      <3>2. i \in toldThen /\ \A j \in toldThen : i >= j
        BY <1>2, <3>1
      <3>3. toldThen \subseteq Int
        BY <1>2
      <3> HIDE DEF toldThen
      <3>4. Setup!Max(toldThen) = i
        <4>1. \E x \in toldThen : \A y \in toldThen : x >= y
          BY <3>2, Zenon
        <4> DEFINE m == Setup!Max(toldThen)
        <4>2. m \in toldThen /\ \A y \in toldThen : m >= y
          BY <4>1, Zenon DEF Setup!Max
        <4> HIDE DEF m
        <4>3. m >= i /\ i >= m /\ i \in Int /\ m \in Int
          BY <3>2, <3>3, <4>2
        <4>4. m = i
          BY <4>3
        <4> QED
          BY <4>4 DEF m
      <3> QED
        BY <2>1, <3>1, <3>2, <3>4 DEF Setup!RemoteTransport, toldThen
    <2>4. ws = "open" => Setup!RemoteTransport = setupTransport
      BY <1>1, <1>4, <2>2, <2>3, <2>1 DEF SidesAgree
    <2> QED
      BY <2>1, <2>4
  <1> QED
    BY <1>1, <1>3, <1>4 DEF Setup!PipelinesFit

-------------------------------------------------------------------------------
(* The connection is watched *)

\* What is written down of an outage is no longer than the outage: it begins later, and
\* is forgotten as soon as the peer is connected.
NotTooLong ==
    /\ disconnectStart # Never => disconnectStart <= away
    /\ connectionState = "connected" => disconnectStart = Never

MonitorInv == Monitor!TypeOK /\ NotTooLong /\ Monitor!LossIsWatched

\* Nothing has been lost at the start.
LEMMA MonitorInit == ASSUME MonitorConstants, Monitor!Init PROVE MonitorInv
  <1>1. told \in BOOLEAN /\ untrue \in BOOLEAN /\ ~untrue
    BY DEF Monitor!Init
  <1>2. connectionState \in Monitor!States /\ ~Monitor!Down /\ connectionState # "connected"
    BY DEF Monitor!Init, Monitor!States, Monitor!Down
  <1>3. Monitor!TypeOK
    BY <1>1, <1>2 DEF MonitorConstants, Monitor!Init, Monitor!TypeOK
  <1> QED
    BY <1>1, <1>2, <1>3 DEF Monitor!Init, MonitorInv, NotTooLong, Monitor!LossIsWatched

\* A change of the peer starts the check anew when the peer is away.
LEMMA ChangeKept ==
    ASSUME MonitorConstants, MonitorInv,
           \/ Monitor!Connected \/ Monitor!Connecting \/ Monitor!Disconnected
           \/ Monitor!Failed \/ Monitor!Destroy
    PROVE  MonitorInv'
  <1> USE DEF MonitorConstants, MonitorInv, Monitor!Down
  <1>1. Monitor!Started \in 0..MaxTime /\ (disconnectStart = Never => Monitor!Started = 0)
        /\ (disconnectStart # Never => Monitor!Started = disconnectStart)
    BY DEF Monitor!Started, Monitor!TypeOK
  <1>5. told' \in BOOLEAN /\ untrue' = untrue /\ poorTimers' \subseteq 0..PoorAfter
        /\ connectionState' \in Monitor!States
    <2>1. CASE Monitor!Connected
      BY <2>1 DEF Monitor!Connected, Monitor!TypeOK, Monitor!States
    <2>2. CASE Monitor!Connecting \/ Monitor!Disconnected \/ Monitor!Failed \/ Monitor!Destroy
      <3>1. told' = told /\ untrue' = untrue /\ told \in BOOLEAN
        BY <2>2, Zenon
           DEF Monitor!Connecting, Monitor!Disconnected, Monitor!Failed, Monitor!Destroy, Monitor!TypeOK
      <3>2. poorTimers' \in {poorTimers, poorTimers \cup {PoorAfter}}
            /\ connectionState' \in {"connecting", "disconnected", "failed", "closed"}
        BY <2>2 DEF Monitor!Connecting, Monitor!Disconnected, Monitor!Failed, Monitor!Destroy
      <3>3. poorTimers \subseteq 0..PoorAfter /\ PoorAfter \in 0..PoorAfter
        BY DEF Monitor!TypeOK
      <3>4. poorTimers' \subseteq 0..PoorAfter /\ connectionState' \in Monitor!States
        BY <3>2, <3>3 DEF Monitor!States
      <3> QED
        BY <3>1, <3>4
    <2> QED
      BY <2>1, <2>2
  <1>2. Monitor!TypeOK'
    <2>1. /\ disconnectStart' \in 0..MaxTime \cup {Never}
          /\ connectionCheckTimeout' \in 0..CheckAfter \cup {Never}
          /\ away' \in 0..MaxTime
      BY <1>1
         DEF Monitor!Connected, Monitor!Connecting, Monitor!Disconnected, Monitor!Failed,
             Monitor!Destroy, Monitor!TypeOK
    <2> QED
      BY <1>5, <2>1 DEF Monitor!TypeOK
  <1>3. NotTooLong'
    BY <1>1
         DEF Monitor!Connected, Monitor!Connecting, Monitor!Disconnected, Monitor!Failed,
             Monitor!Destroy, Monitor!TypeOK, NotTooLong
  <1>4. Monitor!LossIsWatched'
    BY DEF Monitor!Connected, Monitor!Connecting, Monitor!Disconnected, Monitor!Failed,
           Monitor!Destroy, Monitor!LossIsWatched
  <1> QED
    BY <1>2, <1>3, <1>4

\* The check renews itself unless the peer is back or the loss is reported, and what it
\* finds written down is no longer than the outage.
LEMMA CheckKept ==
    ASSUME MonitorConstants, MonitorInv, Monitor!Check
    PROVE  MonitorInv'
  <1> USE DEF MonitorConstants, MonitorInv, Monitor!Down
  <1> DEFINE lost == Monitor!Down /\ Monitor!Started > LostAfter
  <1>1. /\ connectionCheckTimeout' = IF Monitor!Down /\ ~lost THEN CheckAfter ELSE Never
        /\ told' = (told \/ lost) /\ untrue' = (untrue \/ (lost /\ away <= LostAfter))
        /\ UNCHANGED <<connectionState, disconnectStart, poorTimers, away>>
    BY DEF Monitor!Check
  <1>2. Monitor!Started > LostAfter => away > LostAfter
    BY DEF Monitor!Started, Monitor!TypeOK, NotTooLong
  <1>3. told \in BOOLEAN /\ untrue = FALSE
    BY DEF Monitor!TypeOK, Monitor!LossIsWatched
  <1>4. untrue' = FALSE
    <2>1. ~(lost /\ away <= LostAfter)
      BY <1>2 DEF Monitor!TypeOK
    <2> QED
      BY <1>1, <1>3, <2>1
  <1>5. told' \in BOOLEAN
    BY <1>1, <1>3, Zenon
  <1>6. Monitor!Down' => connectionCheckTimeout' # Never \/ told'
    <2>1. CASE lost
      BY <1>1, <2>1
    <2>2. CASE ~lost
      BY <1>1, <2>2
    <2> QED
      BY <2>1, <2>2
  <1>7. Monitor!TypeOK' /\ NotTooLong'
    BY <1>1, <1>4, <1>5 DEF Monitor!TypeOK, NotTooLong
  <1> QED
    BY <1>4, <1>6, <1>7 DEF Monitor!LossIsWatched

\* Time goes by.
LEMMA TimeKept ==
    ASSUME MonitorConstants, MonitorInv, Monitor!Poor \/ Monitor!Tick \/ UNCHANGED Monitor!vars
    PROVE  MonitorInv'
  <1> USE DEF MonitorConstants, MonitorInv, Monitor!Down
  <1>1. CASE Monitor!Poor
    BY <1>1 DEF Monitor!Poor, Monitor!TypeOK, NotTooLong, Monitor!LossIsWatched
  <1>2. CASE Monitor!Tick
    <2>1. \A t \in 0..MaxTime : /\ Monitor!Older(t) \in 0..MaxTime
                               /\ \A u \in 0..t : Monitor!Older(u) <= Monitor!Older(t)
      BY DEF Monitor!Older
    <2>2. \A t \in 0..CheckAfter : Monitor!Nearer(t) \in 0..CheckAfter
      BY DEF Monitor!Nearer
    <2>3. \A t \in 0..PoorAfter : Monitor!Nearer(t) \in 0..PoorAfter
      BY DEF Monitor!Nearer
    <2>4. Monitor!Older(Never) = Never /\ Monitor!Nearer(Never) = Never
      BY DEF Monitor!Older, Monitor!Nearer
    <2>5. Monitor!TypeOK'
      BY <1>2, <2>1, <2>2, <2>3, <2>4 DEF Monitor!Tick, Monitor!TypeOK
    <2>6. NotTooLong'
      BY <1>2, <2>1, <2>4 DEF Monitor!Tick, Monitor!TypeOK, NotTooLong
    <2>7. Monitor!LossIsWatched'
      <3>1. connectionCheckTimeout # Never => connectionCheckTimeout' # Never
        BY <1>2, <2>2 DEF Monitor!Tick, Monitor!TypeOK
      <3> QED
        BY <1>2, <3>1 DEF Monitor!Tick, Monitor!LossIsWatched
    <2> QED
      BY <2>5, <2>6, <2>7
  <1>3. CASE UNCHANGED Monitor!vars
    BY <1>3 DEF Monitor!vars, Monitor!TypeOK, NotTooLong, Monitor!LossIsWatched
  <1> QED
    BY <1>1, <1>2, <1>3

\* Every step of the watch keeps the invariant.
LEMMA MonitorKeeps ==
    ASSUME MonitorConstants, MonitorInv, Monitor!Next
    PROVE  MonitorInv'
  BY ChangeKept, CheckKept, TimeKept DEF Monitor!Next

-------------------------------------------------------------------------------
(* Offers, answers and candidates *)

OfferMessages == {m \in Signals!Messages : m.kind = "offer"}
AnswerMessages == {m \in Signals!Messages : m.kind = "answer"}
OwnCandidates == {m \in Signals!Messages : m.kind = "candidate" /\ m.of = 1}
Descriptions == {m \in Signals!Messages : m.kind # "candidate"}
ToSet == {x \in Signals!Operations : x.op = "setRemote"}
ToSend == {x \in Signals!Operations : x.op = "setLocal"}
ToChange == {x \in Signals!Operations : x.op # "add"}

NoMaking == making["reply"] = 0 /\ making["setup"] = 0
NoOffer == NoneOf(signallingToPage, OfferMessages)
NoChange == NoneOf(chain, ToChange)
NoDescription == NoneOf(toStreamer, Descriptions)

\* The offers that name every track the peer has.
Full == {n \in 1..Len(offers) : offers[n] = added}

\* Before the last track is added, one offer or answer at most is anywhere.
Alone ==
    /\ AtMostOne(signallingToPage, OfferMessages) /\ AtMostOne(chain, ToChange)
    /\ AtMostOne(toStreamer, Descriptions) /\ (making["reply"] = 0 \/ making["setup"] = 0)
    /\ NoOffer \/ NoChange
    /\ NoOffer \/ NoDescription
    /\ NoOffer \/ NoMaking
    /\ NoChange \/ NoDescription
    /\ NoChange \/ NoMaking
    /\ NoDescription \/ NoMaking

SomeTrackToCome ==
    added # SignallingTracks =>
        /\ Alone
        /\ described => making["reply"] = 0
        /\ offers # <<>> => /\ NoneOf(toStreamer, OfferMessages)
                            /\ signaling = "have-remote-offer" \/ NoneOf(chain, ToSend)
        /\ described /\ added = {} => NoOffer /\ NoChange /\ NoDescription /\ NoMaking

\* The offer that is heard last names every track.
LastIsFull ==
    /\ \A w \in Signals!Makers : making[w] # 0 => making[w] \in Full
    /\ offers # <<>> /\ NoMaking =>
          \/ LastIn(signallingToPage, OfferMessages, {m \in OfferMessages : m.of \in Full})
          \/ NoOffer /\ LastIn(chain, ToSet, {x \in ToSet : x.of \in Full})
          \/ NoOffer /\ NoneOf(chain, ToSet) /\ signallingHeard \in Full

NumbersFit ==
    /\ NoneOf(signallingToPage, {m \in OfferMessages : m.of \notin 1..Len(offers)})
    /\ NoneOf(chain, {x \in ToSet : x.of \notin 1..Len(offers)})
    /\ offers = <<>> => ~described /\ ~unanswered /\ added = {}
    /\ offers # <<>> => described \/ unanswered
    /\ ~NoneOf(toStreamer, AnswerMessages) => offers # <<>>

\* Whoever is not settled has something to hear.
Unsettled ==
    /\ signaling = "have-remote-offer" => signallingHeard # 0 /\ ~NoneOf(chain, ToSend)
    /\ signaling = "have-local-offer" =>
          \/ ~NoneOf(toStreamer, OfferMessages) \/ ~NoMaking \/ ~NoOffer \/ ~NoneOf(chain, ToSet)
    /\ signallingHeard = 0 => signaling = "have-local-offer" \/ ~NoneOf(chain, ToSend)
    /\ unanswered =>
          \/ ~NoMaking \/ ~NoOffer \/ ~NoneOf(chain, ToSet) \/ signaling = "have-remote-offer"
          \/ ~NoneOf(toStreamer, AnswerMessages)

CandidatesFollow ==
    /\ gathering = "answer" /\ ~described => ~NoneOf(toStreamer, AnswerMessages)
    /\ ~described => Preceded(toStreamer, OwnCandidates, AnswerMessages)
    /\ Signals!AnsweredCandidatesCount

SignalsInv ==
    /\ Signals!TypeOK /\ NumbersFit /\ SomeTrackToCome /\ LastIsFull /\ Unsettled
    /\ CandidatesFollow

\* Which kinds a message and an operation are of.
LEMMA KindsAre ==
    ASSUME NEW n \in Nat
    PROVE  /\ Signals!Offer(n) \in Signals!Messages /\ Signals!Offer(n).of = n
           /\ Signals!Offer(n) \in OfferMessages /\ Signals!Offer(n) \in Descriptions
           /\ Signals!Offer(n) \notin AnswerMessages /\ Signals!Offer(n) \notin OwnCandidates
           /\ Signals!Answer(n) \in Signals!Messages /\ Signals!Answer(n).of = n
           /\ Signals!Answer(n) \in AnswerMessages /\ Signals!Answer(n) \in Descriptions
           /\ Signals!Answer(n) \notin OfferMessages /\ Signals!Answer(n) \notin OwnCandidates
           /\ Signals!Candidate(n) \in Signals!Messages
           /\ Signals!Candidate(n) \notin OfferMessages /\ Signals!Candidate(n) \notin AnswerMessages
           /\ Signals!Candidate(n) \notin Descriptions
           /\ Signals!Candidate(n) \in OwnCandidates => n = 1
  BY DEF Signals!Offer, Signals!Answer, Signals!Candidate, Signals!Messages, OfferMessages,
     AnswerMessages, OwnCandidates, Descriptions

\* Which operations change a description.
LEMMA OperationsAre ==
    ASSUME NEW n \in Nat
    PROVE  /\ Signals!Operation("setRemote", n) \in Signals!Operations
           /\ Signals!Operation("setRemote", n).of = n
           /\ Signals!Operation("setRemote", n) \in ToSet
           /\ Signals!Operation("setRemote", n) \notin ToSend
           /\ Signals!Operation("setRemote", n) \in ToChange
           /\ Signals!Operation("setLocal", n) \in Signals!Operations
           /\ Signals!Operation("setLocal", n) \notin ToSet
           /\ Signals!Operation("setLocal", n) \in ToSend
           /\ Signals!Operation("setLocal", n) \in ToChange
           /\ Signals!Operation("add", n) \in Signals!Operations
           /\ Signals!Operation("add", n) \notin ToSet
           /\ Signals!Operation("add", n) \notin ToSend
           /\ Signals!Operation("add", n) \notin ToChange
  BY DEF Signals!Operation, Signals!Operations, ToSet, ToSend, ToChange

\* The kinds of messages and operations, by their fields.
LEMMA KindOf ==
    /\ \A m \in Signals!Messages :
          /\ m \in OfferMessages <=> m.kind = "offer"
          /\ m \in AnswerMessages <=> m.kind = "answer"
          /\ m \in OwnCandidates <=> m.kind = "candidate" /\ m.of = 1
          /\ m \in Descriptions <=> m.kind # "candidate"
          /\ m.kind \in {"offer", "answer", "candidate"} /\ m.of \in Nat
    /\ \A x \in Signals!Operations :
          /\ x \in ToSet <=> x.op = "setRemote"
          /\ x \in ToSend <=> x.op = "setLocal"
          /\ x \in ToChange <=> x.op # "add"
          /\ x.op \in {"setRemote", "setLocal", "add"} /\ x.of \in Nat
  BY DEF Signals!Messages, Signals!Operations, OfferMessages, AnswerMessages, OwnCandidates,
     Descriptions, ToSet, ToSend, ToChange

\* Neither an offer nor an answer is no description; neither kind of change is no change.
LEMMA NoneSplits ==
    /\ \A q : NoneOf(q, Descriptions) => NoneOf(q, OfferMessages) /\ NoneOf(q, AnswerMessages)
    /\ \A q : NoneOf(q, ToChange) => NoneOf(q, ToSet) /\ NoneOf(q, ToSend)
    /\ \A q \in Seq(Signals!Operations) :
          NoneOf(q, ToSet) /\ NoneOf(q, ToSend) => NoneOf(q, ToChange)
  <1>1. OfferMessages \subseteq Descriptions /\ AnswerMessages \subseteq Descriptions
        /\ ToSet \subseteq ToChange /\ ToSend \subseteq ToChange
    BY DEF OfferMessages, AnswerMessages, Descriptions, ToSet, ToSend, ToChange
  <1>2. ASSUME NEW q \in Seq(Signals!Operations), NoneOf(q, ToSet), NoneOf(q, ToSend)
        PROVE  NoneOf(q, ToChange)
    <2>1. \A i \in 1..Len(q) : q[i] \in Signals!Operations
      OBVIOUS
    <2> QED
      BY <1>2, <2>1, KindOf DEF NoneOf
  <1> QED
    BY <1>1, <1>2 DEF NoneOf

\* What the invariant says of the types, for the proofs that follow.
LEMMA SignalsTypes ==
    ASSUME SignalsInv
    PROVE  /\ chain \in Seq(Signals!Operations)
           /\ signaling \in {"stable", "have-local-offer", "have-remote-offer"}
           /\ signallingHeard \in 0..Len(offers)
           /\ gathering \in {"none", "offer", "answer"} /\ found \in 0..MaxCandidates
           /\ added \subseteq SignallingTracks /\ offers \in Seq(SUBSET SignallingTracks)
           /\ Len(offers) \in Nat /\ (offers = <<>> <=> Len(offers) = 0)
           /\ unanswered \in BOOLEAN /\ described \in BOOLEAN
           /\ making \in [Signals!Makers -> 0..Len(offers)]
           /\ making["reply"] \in 0..Len(offers) /\ making["setup"] \in 0..Len(offers)
           /\ searched \in 0..MaxCandidates
           /\ signallingToPage \in Seq(Signals!Messages)
           /\ toStreamer \in Seq(Signals!Messages)
           /\ refused \subseteq {"page", "streamer"} /\ "streamer" \notin refused
           /\ NumbersFit /\ SomeTrackToCome /\ LastIsFull /\ Unsettled /\ CandidatesFollow
  <1>1. Signals!TypeOK /\ Signals!AnsweredCandidatesCount
    BY DEF SignalsInv, CandidatesFollow
  <1>2. offers \in Seq(SUBSET SignallingTracks)
    BY <1>1 DEF Signals!TypeOK
  <1>3. Len(offers) \in Nat /\ (offers = <<>> <=> Len(offers) = 0)
    BY <1>2
  <1>4. making["reply"] \in 0..Len(offers) /\ making["setup"] \in 0..Len(offers)
    BY <1>1 DEF Signals!TypeOK, Signals!Makers
  <1> QED
    BY <1>1, <1>2, <1>3, <1>4 DEF Signals!TypeOK, Signals!AnsweredCandidatesCount, SignalsInv

\* Nothing has been said at the start but that the page is about to make an offer.
LEMMA SignalsInit ==
    ASSUME SignalsConstants, Signals!Init
    PROVE  SignalsInv
  <1>1. /\ chain = <<Signals!Operation("setLocal", 0)>> /\ signaling = "stable"
        /\ signallingHeard = 0 /\ gathering = "none" /\ found = 0
        /\ added = {} /\ offers = <<>>
        /\ making = [w \in Signals!Makers |-> 0] /\ searched = 0
        /\ signallingToPage = <<>> /\ toStreamer = <<>> /\ refused = {}
    BY DEF Signals!Init
  <1>2. unanswered \in BOOLEAN /\ described \in BOOLEAN /\ ~unanswered /\ ~described
    BY Zenon DEF Signals!Init
  <1> DEFINE x == Signals!Operation("setLocal", 0)
  <1>3. x \in Signals!Operations /\ x \in ToSend /\ x \notin ToSet
    BY OperationsAre
  <1> HIDE DEF x
  <1>4. /\ chain \in Seq(Signals!Operations) /\ Len(chain) = 1 /\ chain[1] = x
    <2>1. <<x>> \in Seq(Signals!Operations) /\ Len(<<x>>) = 1 /\ <<x>>[1] = x
      BY <1>3
    <2> QED
      BY <1>1, <2>1 DEF x
  <1>5. Len(<<>>) = 0 /\ <<>> \in Seq(SUBSET SignallingTracks) /\ <<>> \in Seq(Signals!Messages)
    OBVIOUS
  <1>6. /\ \A K : NoneOf(<<>>, K) /\ AtMostOne(<<>>, K)
        /\ \A K, A : Preceded(<<>>, K, A)
    BY <1>5 DEF NoneOf, AtMostOne, Preceded
  <1>7. /\ ~NoneOf(chain, ToSend) /\ AtMostOne(chain, ToChange)
        /\ NoneOf(chain, {y \in ToSet : y.of \notin 1..Len(offers)})
    <2>1. 1 \in 1..1 /\ \A i \in 1..1 : i = 1
      OBVIOUS
    <2> QED
      BY <1>3, <1>4, <2>1 DEF NoneOf, AtMostOne
  <1>8. making["reply"] = 0 /\ making["setup"] = 0 /\ making \in [Signals!Makers -> 0..0]
        /\ \A w \in Signals!Makers : making[w] = 0
    BY <1>1 DEF Signals!Makers
  <1>9. Signals!TypeOK
    <2>1. 0 \in 0..MaxCandidates /\ 0 \in 0..0
      BY DEF SignalsConstants
    <2>2. Len(offers) = 0
      BY <1>1, <1>5
    <2> QED
      BY <1>1, <1>2, <1>4, <1>5, <1>8, <2>1, <2>2 DEF Signals!TypeOK
  <1>10. NumbersFit
    BY <1>1, <1>2, <1>6, <1>7 DEF NumbersFit
  <1>11. SomeTrackToCome
    BY <1>1, <1>2, <1>6, <1>7, <1>8 DEF SomeTrackToCome, Alone, NoOffer, NoDescription, NoMaking
  <1>12. LastIsFull /\ Unsettled
    BY <1>1, <1>2, <1>7, <1>8 DEF LastIsFull, Unsettled
  <1>13. CandidatesFollow
    BY <1>1, <1>6 DEF CandidatesFollow, Signals!AnsweredCandidatesCount
  <1> QED
    BY <1>9, <1>10, <1>11, <1>12, <1>13 DEF SignalsInv

\* A description that the page is given starts the operation it is for.
LEMMA PageReceivesKeeps ==
    ASSUME SignalsConstants, SignalsInv, Signals!PageReceives
    PROVE  SignalsInv'
  <1> DEFINE p == signallingToPage
             m == Head(p)
             x == Signals!Operation(IF m.kind = "offer" THEN "setRemote" ELSE "add", m.of)
  <1>1. /\ p # <<>> /\ p' = Tail(p) /\ chain' = Append(chain, x)
        /\ UNCHANGED <<signaling, signallingHeard, gathering, found, added, offers, unanswered,
                       described, making, searched, toStreamer, refused>>
    BY DEF Signals!PageReceives, Signals!streamerVars
  <1>2. p \in Seq(Signals!Messages) /\ chain \in Seq(Signals!Operations)
    BY SignalsTypes
  <1>3. /\ p' \in Seq(Signals!Messages) /\ m \in Signals!Messages
        /\ \A K : NoneOf(p, K) <=> NoneOf(p', K) /\ m \notin K
        /\ \A K : AtMostOne(p, K) => AtMostOne(p', K) /\ (m \in K => NoneOf(p', K))
        /\ \A K, G : LastIn(p, K, G) =>
              LastIn(p', K, G) \/ (m \in K /\ m \in G /\ NoneOf(p', K))
    BY <1>1, <1>2, Ahead
  <1>4. /\ m.of \in Nat /\ x \in Signals!Operations /\ x \notin ToSend
        /\ m \in OfferMessages => x \in ToSet /\ x \in ToChange /\ x.of = m.of
        /\ m \notin OfferMessages => x \notin ToSet /\ x \notin ToChange
    <2>1. m.of \in Nat /\ (m \in OfferMessages <=> m.kind = "offer")
      BY <1>3, KindOf
    <2>2. CASE m.kind = "offer"
      BY <2>1, <2>2, OperationsAre
    <2>3. CASE m.kind # "offer"
      BY <2>1, <2>3, OperationsAre
    <2> QED
      BY <2>1, <2>2, <2>3
  <1> HIDE DEF x, m
  <1>5. /\ chain' \in Seq(Signals!Operations)
        /\ \A K : NoneOf(chain', K) <=> NoneOf(chain, K) /\ x \notin K
        /\ \A K : AtMostOne(chain, K) /\ (x \in K => NoneOf(chain, K)) => AtMostOne(chain', K)
        /\ \A K, G : x \in K /\ x \in G => LastIn(chain', K, G)
        /\ \A K, G : x \notin K /\ LastIn(chain, K, G) => LastIn(chain', K, G)
    <2>1. Append(chain, x) \in Seq(Signals!Operations)
      BY <1>2, <1>4
    <2> QED
      BY <1>1, <1>2, <1>4, <2>1, Behind
  <1>6. Signals!TypeOK'
    <2>1. Signals!TypeOK
      BY DEF SignalsInv
    <2> QED
      BY <1>1, <1>3, <1>5, <2>1, Zenon DEF Signals!TypeOK
  <1>7. Full' = Full
    BY <1>1 DEF Full
  <1>8. m \in OfferMessages => m.of \in 1..Len(offers)
    <2>1. NoneOf(p, {y \in OfferMessages : y.of \notin 1..Len(offers)})
      BY SignalsTypes DEF NumbersFit
    <2> QED
      BY <1>3, <2>1
  <1>9. NumbersFit'
    <2>1. NumbersFit
      BY SignalsTypes
    <2>2. /\ NoneOf(p', {y \in OfferMessages : y.of \notin 1..Len(offers)})
          /\ NoneOf(chain', {y \in ToSet : y.of \notin 1..Len(offers)})
      BY <1>3, <1>4, <1>5, <1>8, <2>1 DEF NumbersFit
    <2> QED
      BY <1>1, <2>1, <2>2 DEF NumbersFit
  <1>10. SomeTrackToCome'
    <2>1. SomeTrackToCome
      BY SignalsTypes
    <2> QED
      BY <1>1, <1>3, <1>4, <1>5, <2>1 DEF SomeTrackToCome, Alone, NoOffer, NoChange, NoDescription,
         NoMaking
  <1>11. LastIsFull'
    <2>1. LastIsFull
      BY SignalsTypes
    <2> QED
      BY <1>1, <1>3, <1>4, <1>5, <1>7, <2>1 DEF LastIsFull, NoOffer, NoMaking
  <1>12. Unsettled'
    <2>1. Unsettled
      BY SignalsTypes
    <2> QED
      BY <1>1, <1>3, <1>4, <1>5, <2>1 DEF Unsettled, NoOffer, NoMaking
  <1>13. CandidatesFollow'
    <2>1. CandidatesFollow
      BY SignalsTypes
    <2> QED
      BY <1>1, <2>1 DEF CandidatesFollow, Signals!AnsweredCandidatesCount
  <1> QED
    BY <1>6, <1>9, <1>10, <1>11, <1>12, <1>13 DEF SignalsInv

\* An offer of the streamer is set, and an own one withdrawn for it.
LEMMA SetRemoteKeeps ==
    ASSUME SignalsConstants, SignalsInv, Signals!SetRemote
    PROVE  SignalsInv'
  <1> DEFINE h == Head(chain)
             t == Tail(chain)
             x == Signals!Operation("setLocal", 0)
  <1>1. /\ chain # <<>> /\ h.op = "setRemote" /\ signaling' = "have-remote-offer"
        /\ signallingHeard' = h.of /\ chain' = Append(t, x)
        /\ gathering' = IF signaling = "have-local-offer" /\ gathering = "offer" THEN "none"
                                                                                 ELSE gathering
        /\ UNCHANGED <<found, added, offers, unanswered,
                       described, making, searched, signallingToPage, toStreamer, refused>>
    BY DEF Signals!SetRemote, Signals!Runs, Signals!streamerVars
  <1>2. chain \in Seq(Signals!Operations)
    BY SignalsTypes
  <1>3. /\ t \in Seq(Signals!Operations) /\ h \in Signals!Operations
        /\ \A K : NoneOf(chain, K) <=> NoneOf(t, K) /\ h \notin K
        /\ \A K : AtMostOne(chain, K) => AtMostOne(t, K) /\ (h \in K => NoneOf(t, K))
        /\ \A K, G : LastIn(chain, K, G) =>
              LastIn(t, K, G) \/ (h \in K /\ h \in G /\ NoneOf(t, K))
    BY <1>1, <1>2, Ahead
  <1>4. /\ x \in Signals!Operations /\ x \in ToSend /\ x \notin ToSet /\ x \in ToChange
        /\ h \in ToSet /\ h \in ToChange /\ h \notin ToSend
    BY <1>1, <1>3, OperationsAre, KindOf
  <1> HIDE DEF x, h, t
  <1>5. /\ chain' \in Seq(Signals!Operations)
        /\ \A K : NoneOf(chain', K) <=> NoneOf(t, K) /\ x \notin K
        /\ \A K : AtMostOne(t, K) /\ (x \in K => NoneOf(t, K)) => AtMostOne(chain', K)
        /\ \A K, G : x \notin K /\ LastIn(t, K, G) => LastIn(chain', K, G)
    <2>1. Append(t, x) \in Seq(Signals!Operations)
      BY <1>3, <1>4
    <2> QED
      BY <1>1, <1>3, <1>4, <2>1, Behind
  <1>6. h.of \in 1..Len(offers)
    <2>1. NoneOf(chain, {y \in ToSet : y.of \notin 1..Len(offers)})
      BY SignalsTypes DEF NumbersFit
    <2> QED
      BY <1>3, <1>4, <2>1
  <1>7. Signals!TypeOK'
    <2>1. Signals!TypeOK
      BY DEF SignalsInv
    <2>2. /\ signallingHeard' \in 0..Len(offers')
          /\ signaling' \in {"stable", "have-local-offer", "have-remote-offer"}
          /\ gathering' \in {"none", "offer", "answer"}
      BY <1>1, <1>6, SignalsTypes
    <2> QED
      BY <1>1, <1>5, <2>1, <2>2, Zenon DEF Signals!TypeOK
  <1>8. Full' = Full
    BY <1>1 DEF Full
  <1>9. NumbersFit'
    <2>1. NumbersFit
      BY SignalsTypes
    <2>2. NoneOf(chain', {y \in ToSet : y.of \notin 1..Len(offers)})
      BY <1>3, <1>4, <1>5, <2>1 DEF NumbersFit
    <2> QED
      BY <1>1, <2>1, <2>2 DEF NumbersFit
  <1>10. SomeTrackToCome'
    <2>1. SomeTrackToCome
      BY SignalsTypes
    <2> QED
      BY <1>1, <1>3, <1>4, <1>5, <2>1 DEF SomeTrackToCome, Alone, NoOffer, NoChange, NoDescription,
         NoMaking
  <1>11. LastIsFull'
    <2>1. LastIsFull
      BY SignalsTypes
    <2> QED
      BY <1>1, <1>3, <1>4, <1>5, <1>8, <2>1 DEF LastIsFull, NoOffer, NoMaking
  <1>12. Unsettled'
    BY <1>1, <1>4, <1>5, <1>6 DEF Unsettled
  <1>13. CandidatesFollow'
    <2>1. CandidatesFollow
      BY SignalsTypes
    <2>2. gathering' = "answer" => gathering = "answer"
      BY <1>1
    <2> QED
      BY <1>1, <2>1, <2>2 DEF CandidatesFollow, Signals!AnsweredCandidatesCount
  <1> QED
    BY <1>7, <1>9, <1>10, <1>11, <1>12, <1>13 DEF SignalsInv

\* The page answers what it has heard, or makes an offer.
LEMMA SetLocalKeeps ==
    ASSUME SignalsConstants, SignalsInv, Signals!SetLocal
    PROVE  SignalsInv'
  <1> DEFINE h == Head(chain)
             t == Tail(chain)
             m == IF signaling = "have-remote-offer" THEN Signals!Answer(signallingHeard)
                                                     ELSE Signals!Offer(0)
  <1>1. /\ chain # <<>> /\ h.op = "setLocal" /\ chain' = t
        /\ toStreamer' = Append(toStreamer, m)
        /\ signaling = "have-remote-offer" => signaling' = "stable" /\ gathering' = "answer"
        /\ signaling # "have-remote-offer" =>
              /\ signaling' = "have-local-offer"
              /\ gathering' = IF gathering = "none" THEN "offer" ELSE gathering
        /\ found' = IF gathering' = gathering THEN found ELSE 0
        /\ UNCHANGED <<signallingHeard, added, offers, unanswered,
                       described, making, searched, signallingToPage, refused>>
    BY DEF Signals!SetLocal, Signals!Runs, Signals!streamerVars
  <1>2. chain \in Seq(Signals!Operations) /\ toStreamer \in Seq(Signals!Messages)
        /\ signallingHeard \in Nat
    BY SignalsTypes
  <1>3. /\ t \in Seq(Signals!Operations) /\ h \in Signals!Operations
        /\ \A K : NoneOf(chain, K) <=> NoneOf(t, K) /\ h \notin K
        /\ \A K : AtMostOne(chain, K) => AtMostOne(t, K) /\ (h \in K => NoneOf(t, K))
        /\ \A K, G : LastIn(chain, K, G) =>
              LastIn(t, K, G) \/ (h \in K /\ h \in G /\ NoneOf(t, K))
    BY <1>1, <1>2, Ahead
  <1>4. /\ h \in ToSend /\ h \in ToChange /\ h \notin ToSet /\ m \in Signals!Messages
        /\ m \in Descriptions /\ m \notin OwnCandidates
        /\ signaling = "have-remote-offer" => m \in AnswerMessages /\ m \notin OfferMessages
        /\ signaling # "have-remote-offer" => m \in OfferMessages /\ m \notin AnswerMessages
    <2>1. h \in ToSend /\ h \in ToChange /\ h \notin ToSet
      BY <1>1, <1>3, KindOf
    <2> QED
      BY <1>2, <2>1, KindsAre
  <1> HIDE DEF h, t, m
  <1>5. /\ toStreamer' \in Seq(Signals!Messages)
        /\ \A K : NoneOf(toStreamer', K) <=> NoneOf(toStreamer, K) /\ m \notin K
        /\ \A K : AtMostOne(toStreamer, K) /\ (m \in K => NoneOf(toStreamer, K)) =>
                     AtMostOne(toStreamer', K)
        /\ \A K, A : Preceded(toStreamer, K, A) /\ (m \in K => ~NoneOf(toStreamer, A)) =>
                        Preceded(toStreamer', K, A)
    <2>1. Append(toStreamer, m) \in Seq(Signals!Messages)
      BY <1>2, <1>4
    <2> QED
      BY <1>1, <1>2, <1>4, <2>1, Behind
  <1>6. Signals!TypeOK'
    <2>1. Signals!TypeOK
      BY DEF SignalsInv
    <2>2. /\ signaling' \in {"stable", "have-local-offer", "have-remote-offer"}
          /\ gathering' \in {"none", "offer", "answer"}
          /\ found' \in 0..MaxCandidates
      BY <1>1, SignalsTypes DEF SignalsConstants
    <2> QED
      BY <1>1, <1>3, <1>5, <2>1, <2>2, Zenon DEF Signals!TypeOK
  <1>7. Full' = Full
    BY <1>1 DEF Full
  <1>8. signaling = "have-remote-offer" => offers # <<>>
    BY SignalsTypes DEF Unsettled
  <1>9. NumbersFit'
    <2>1. NumbersFit
      BY SignalsTypes
    <2>2. NoneOf(chain', {y \in ToSet : y.of \notin 1..Len(offers)})
      BY <1>1, <1>3, <2>1 DEF NumbersFit
    <2>3. ~NoneOf(toStreamer', AnswerMessages) => offers # <<>>
      BY <1>4, <1>5, <1>8, <2>1 DEF NumbersFit
    <2> QED
      BY <1>1, <2>1, <2>2, <2>3 DEF NumbersFit
  <1>10. SomeTrackToCome'
    <2>1. SomeTrackToCome
      BY SignalsTypes
    <2>2. added # SignallingTracks /\ offers # <<>> => signaling = "have-remote-offer"
      BY <1>3, <1>4, <2>1 DEF SomeTrackToCome
    <2>3. added # SignallingTracks => Alone' /\ NoneOf(chain', ToSend) /\ ~NoChange
      <3>1. NoneOf(t, ToChange) => NoneOf(t, ToSend)
        BY NoneSplits
      <3> QED
        BY <1>1, <1>3, <1>4, <1>5, <2>1, <3>1 DEF SomeTrackToCome, Alone, NoOffer, NoChange,
           NoDescription,
           NoMaking
    <2> QED
      BY <1>1, <1>4, <1>5, <2>1, <2>2, <2>3 DEF SomeTrackToCome
  <1>11. LastIsFull'
    <2>1. LastIsFull
      BY SignalsTypes
    <2> QED
      BY <1>1, <1>3, <1>4, <1>7, <2>1 DEF LastIsFull, NoOffer, NoMaking
  <1>12. Unsettled'
    <2>1. Unsettled
      BY SignalsTypes
    <2> QED
      BY <1>1, <1>3, <1>4, <1>5, <2>1 DEF Unsettled, NoOffer, NoMaking
  <1>13. CandidatesFollow'
    <2>1. CandidatesFollow
      BY SignalsTypes
    <2>2. gathering' = "answer" => gathering = "answer" \/ signaling = "have-remote-offer"
      BY <1>1
    <2> QED
      BY <1>1, <1>4, <1>5, <2>1, <2>2 DEF CandidatesFollow, Signals!AnsweredCandidatesCount
  <1> QED
    BY <1>6, <1>9, <1>10, <1>11, <1>12, <1>13 DEF SignalsInv

\* A candidate of the streamer is added, or refused.
LEMMA AddCandidateKeeps ==
    ASSUME SignalsConstants, SignalsInv, Signals!AddCandidate
    PROVE  SignalsInv'
  <1> DEFINE h == Head(chain)
             t == Tail(chain)
  <1>1. /\ chain # <<>> /\ h.op = "add" /\ chain' = t
        /\ refused' \in {refused, refused \cup {"page"}}
        /\ UNCHANGED <<signaling, signallingHeard, gathering, found, added, offers, unanswered,
                       described, making, searched, signallingToPage, toStreamer>>
    BY DEF Signals!AddCandidate, Signals!Runs, Signals!streamerVars
  <1>2. chain \in Seq(Signals!Operations)
    BY SignalsTypes
  <1>3. /\ t \in Seq(Signals!Operations) /\ h \in Signals!Operations
        /\ \A K : NoneOf(chain, K) <=> NoneOf(t, K) /\ h \notin K
        /\ \A K : AtMostOne(chain, K) => AtMostOne(t, K)
        /\ \A K, G : LastIn(chain, K, G) =>
              LastIn(t, K, G) \/ (h \in K /\ h \in G /\ NoneOf(t, K))
    BY <1>1, <1>2, Ahead
  <1>4. h \notin ToSend /\ h \notin ToChange /\ h \notin ToSet
    BY <1>1, <1>3, KindOf
  <1> HIDE DEF h, t
  <1>5. refused' \subseteq {"page", "streamer"} /\ "streamer" \notin refused'
    BY <1>1, SignalsTypes
  <1>6. Signals!TypeOK'
    <2>1. Signals!TypeOK
      BY DEF SignalsInv
    <2> QED
      BY <1>1, <1>3, <1>5, <2>1, Zenon DEF Signals!TypeOK
  <1>7. Full' = Full
    BY <1>1 DEF Full
  <1>9. NumbersFit'
    <2>1. NumbersFit
      BY SignalsTypes
    <2>2. NoneOf(chain', {y \in ToSet : y.of \notin 1..Len(offers)})
      BY <1>1, <1>3, <2>1 DEF NumbersFit
    <2> QED
      BY <1>1, <2>1, <2>2 DEF NumbersFit
  <1>10. SomeTrackToCome'
    <2>1. SomeTrackToCome
      BY SignalsTypes
    <2> QED
      BY <1>1, <1>3, <1>4, <2>1 DEF SomeTrackToCome, Alone, NoOffer, NoChange, NoDescription,
         NoMaking
  <1>11. LastIsFull'
    <2>1. LastIsFull
      BY SignalsTypes
    <2> QED
      BY <1>1, <1>3, <1>4, <1>7, <2>1 DEF LastIsFull, NoOffer, NoMaking
  <1>12. Unsettled'
    <2>1. Unsettled
      BY SignalsTypes
    <2> QED
      BY <1>1, <1>3, <1>4, <2>1 DEF Unsettled, NoOffer, NoMaking
  <1>13. CandidatesFollow'
    <2>1. CandidatesFollow
      BY SignalsTypes
    <2> QED
      BY <1>1, <1>5, <2>1 DEF CandidatesFollow, Signals!AnsweredCandidatesCount
  <1> QED
    BY <1>6, <1>9, <1>10, <1>11, <1>12, <1>13 DEF SignalsInv

\* The page finds a candidate: for an answer it goes behind that answer.
LEMMA PageCandidateKeeps ==
    ASSUME SignalsConstants, SignalsInv, Signals!PageCandidate
    PROVE  SignalsInv'
  <1> DEFINE m == Signals!Candidate(IF gathering = "answer" THEN 1 ELSE 0)
  <1>1. /\ found < MaxCandidates /\ found' = found + 1
        /\ toStreamer' = Append(toStreamer, m)
        /\ UNCHANGED <<chain, signaling, signallingHeard, gathering, added, offers, unanswered,
                       described, making, searched, signallingToPage, refused>>
    BY DEF Signals!PageCandidate, Signals!streamerVars
  <1>2. toStreamer \in Seq(Signals!Messages)
    BY SignalsTypes
  <1>4. /\ m \in Signals!Messages /\ m \notin Descriptions
        /\ m \notin OfferMessages /\ m \notin AnswerMessages
        /\ m \in OwnCandidates => gathering = "answer"
    <2>1. CASE gathering = "answer"
      BY <2>1, KindsAre
    <2>2. CASE gathering # "answer"
      BY <2>2, KindsAre
    <2> QED
      BY <2>1, <2>2
  <1> HIDE DEF m
  <1>5. /\ toStreamer' \in Seq(Signals!Messages)
        /\ \A K : NoneOf(toStreamer', K) <=> NoneOf(toStreamer, K) /\ m \notin K
        /\ \A K : AtMostOne(toStreamer, K) /\ (m \in K => NoneOf(toStreamer, K)) =>
                     AtMostOne(toStreamer', K)
        /\ \A K, A : Preceded(toStreamer, K, A) /\ (m \in K => ~NoneOf(toStreamer, A)) =>
                        Preceded(toStreamer', K, A)
    <2>1. Append(toStreamer, m) \in Seq(Signals!Messages)
      BY <1>2, <1>4
    <2> QED
      BY <1>1, <1>2, <1>4, <2>1, Behind
  <1>6. Signals!TypeOK'
    <2>1. Signals!TypeOK
      BY DEF SignalsInv
    <2>2. found' \in 0..MaxCandidates
      BY <1>1, SignalsTypes DEF SignalsConstants
    <2> QED
      BY <1>1, <1>5, <2>1, <2>2, Zenon DEF Signals!TypeOK
  <1>7. Full' = Full
    BY <1>1 DEF Full
  <1>9. NumbersFit'
    <2>1. NumbersFit
      BY SignalsTypes
    <2> QED
      BY <1>1, <1>4, <1>5, <2>1 DEF NumbersFit
  <1>10. SomeTrackToCome'
    <2>1. SomeTrackToCome
      BY SignalsTypes
    <2> QED
      BY <1>1, <1>4, <1>5, <2>1 DEF SomeTrackToCome, Alone, NoOffer, NoChange, NoDescription,
         NoMaking
  <1>11. LastIsFull'
    <2>1. LastIsFull
      BY SignalsTypes
    <2> QED
      BY <1>1, <1>7, <2>1 DEF LastIsFull, NoOffer, NoMaking
  <1>12. Unsettled'
    <2>1. Unsettled
      BY SignalsTypes
    <2> QED
      BY <1>1, <1>4, <1>5, <2>1 DEF Unsettled, NoOffer, NoMaking
  <1>13. CandidatesFollow'
    <2>1. CandidatesFollow
      BY SignalsTypes
    <2> QED
      BY <1>1, <1>4, <1>5, <2>1 DEF CandidatesFollow, Signals!AnsweredCandidatesCount
  <1> QED
    BY <1>6, <1>9, <1>10, <1>11, <1>12, <1>13 DEF SignalsInv

\* The streamer sends an offer it has made.
LEMMA SendOfferKeeps ==
    ASSUME SignalsConstants, SignalsInv, NEW w \in Signals!Makers, Signals!SendOffer(w)
    PROVE  SignalsInv'
  <1> DEFINE p == signallingToPage
             m == Signals!Offer(making[w])
  <1>1. /\ making[w] # 0 /\ p' = Append(p, m) /\ making' = [making EXCEPT ![w] = 0]
        /\ UNCHANGED <<chain, signaling, signallingHeard, gathering, found, added, offers,
                       unanswered, described, searched, toStreamer, refused>>
    BY DEF Signals!SendOffer, Signals!pageVars
  <1>2. /\ p \in Seq(Signals!Messages) /\ making \in [Signals!Makers -> 0..Len(offers)]
        /\ Len(offers) \in Nat
    BY SignalsTypes
  <1>3. /\ w \in {"reply", "setup"} /\ Signals!Makers = {"reply", "setup"}
        /\ making[w] \in 1..Len(offers)
        /\ making' \in [Signals!Makers -> 0..Len(offers)] /\ making'[w] = 0
        /\ \A v \in Signals!Makers : v # w => making'[v] = making[v]
    BY <1>1, <1>2 DEF Signals!Makers
  <1>4. /\ m \in Signals!Messages /\ m \in OfferMessages /\ m.of = making[w]
    BY <1>2, <1>3, KindsAre
  <1> HIDE DEF m
  <1>5. /\ p' \in Seq(Signals!Messages)
        /\ \A K : NoneOf(p', K) <=> NoneOf(p, K) /\ m \notin K
        /\ \A K : AtMostOne(p, K) /\ (m \in K => NoneOf(p, K)) => AtMostOne(p', K)
        /\ \A K, G : m \in K /\ m \in G => LastIn(p', K, G)
    <2>1. Append(p, m) \in Seq(Signals!Messages)
      BY <1>2, <1>4
    <2> QED
      BY <1>1, <1>2, <1>4, <2>1, Behind
  <1>6. Signals!TypeOK'
    <2>1. Signals!TypeOK
      BY DEF SignalsInv
    <2> QED
      BY <1>1, <1>3, <1>5, <2>1, Zenon DEF Signals!TypeOK
  <1>7. Full' = Full
    BY <1>1 DEF Full
  <1>9. NumbersFit'
    <2>1. NumbersFit
      BY SignalsTypes
    <2>2. NoneOf(p', {y \in OfferMessages : y.of \notin 1..Len(offers)})
      BY <1>3, <1>4, <1>5, <2>1 DEF NumbersFit
    <2> QED
      BY <1>1, <2>1, <2>2 DEF NumbersFit
  <1>10. SomeTrackToCome'
    <2>1. SomeTrackToCome
      BY SignalsTypes
    <2>2. ~NoMaking /\ (making["reply"] = 0 => making'["reply"] = 0)
          /\ (making["reply"] = 0 \/ making["setup"] = 0 => making'["reply"] = 0 /\ making'["setup"] = 0)
      BY <1>1, <1>3 DEF NoMaking
    <2> QED
      BY <1>1, <1>4, <1>5, <2>1, <2>2 DEF SomeTrackToCome, Alone, NoOffer, NoChange, NoDescription,
         NoMaking
  <1>11. LastIsFull'
    <2>1. LastIsFull
      BY SignalsTypes
    <2>2. m \in {y \in OfferMessages : y.of \in Full}
      BY <1>1, <1>4, <2>1 DEF LastIsFull
    <2>3. \A v \in Signals!Makers : making'[v] # 0 => making'[v] \in Full
      BY <1>3, <2>1 DEF LastIsFull
    <2> QED
      BY <1>4, <1>5, <1>7, <2>2, <2>3 DEF LastIsFull
  <1>12. Unsettled'
    <2>1. Unsettled
      BY SignalsTypes
    <2> QED
      BY <1>1, <1>4, <1>5, <2>1 DEF Unsettled, NoOffer
  <1>13. CandidatesFollow'
    <2>1. CandidatesFollow
      BY SignalsTypes
    <2> QED
      BY <1>1, <2>1 DEF CandidatesFollow, Signals!AnsweredCandidatesCount
  <1> QED
    BY <1>6, <1>9, <1>10, <1>11, <1>12, <1>13 DEF SignalsInv

\* The streamer finds a candidate, which may overtake the offer.
LEMMA StreamerCandidateKeeps ==
    ASSUME SignalsConstants, SignalsInv, Signals!StreamerCandidate
    PROVE  SignalsInv'
  <1> DEFINE p == signallingToPage
             m == Signals!Candidate(1)
  <1>1. /\ p' = Append(p, m) /\ searched < MaxCandidates /\ searched' = searched + 1
        /\ UNCHANGED <<chain, signaling, signallingHeard, gathering, found, added, offers,
                       unanswered, described, making, toStreamer, refused>>
    BY DEF Signals!StreamerCandidate, Signals!pageVars
  <1>2. p \in Seq(Signals!Messages)
    BY SignalsTypes
  <1>4. m \in Signals!Messages /\ m \notin OfferMessages
    BY KindsAre
  <1> HIDE DEF m
  <1>5. /\ p' \in Seq(Signals!Messages)
        /\ \A K : NoneOf(p', K) <=> NoneOf(p, K) /\ m \notin K
        /\ \A K : AtMostOne(p, K) /\ (m \in K => NoneOf(p, K)) => AtMostOne(p', K)
        /\ \A K, G : m \notin K /\ LastIn(p, K, G) => LastIn(p', K, G)
    <2>1. Append(p, m) \in Seq(Signals!Messages)
      BY <1>2, <1>4
    <2> QED
      BY <1>1, <1>2, <1>4, <2>1, Behind
  <1>6. Signals!TypeOK'
    <2>1. Signals!TypeOK
      BY DEF SignalsInv
    <2>2. searched' \in 0..MaxCandidates
      BY <1>1, SignalsTypes DEF SignalsConstants
    <2> QED
      BY <1>1, <1>5, <2>1, <2>2, Zenon DEF Signals!TypeOK
  <1>7. Full' = Full
    BY <1>1 DEF Full
  <1>9. NumbersFit'
    <2>1. NumbersFit
      BY SignalsTypes
    <2>2. NoneOf(p', {y \in OfferMessages : y.of \notin 1..Len(offers)})
      BY <1>4, <1>5, <2>1 DEF NumbersFit
    <2> QED
      BY <1>1, <2>1, <2>2 DEF NumbersFit
  <1>10. SomeTrackToCome'
    <2>1. SomeTrackToCome
      BY SignalsTypes
    <2> QED
      BY <1>1, <1>4, <1>5, <2>1 DEF SomeTrackToCome, Alone, NoOffer, NoChange, NoDescription,
         NoMaking
  <1>11. LastIsFull'
    <2>1. LastIsFull
      BY SignalsTypes
    <2> QED
      BY <1>1, <1>4, <1>5, <1>7, <2>1 DEF LastIsFull, NoOffer, NoMaking
  <1>12. Unsettled'
    <2>1. Unsettled
      BY SignalsTypes
    <2> QED
      BY <1>1, <1>4, <1>5, <2>1 DEF Unsettled, NoOffer, NoMaking
  <1>13. CandidatesFollow'
    <2>1. CandidatesFollow
      BY SignalsTypes
    <2> QED
      BY <1>1, <2>1 DEF CandidatesFollow, Signals!AnsweredCandidatesCount
  <1> QED
    BY <1>6, <1>9, <1>10, <1>11, <1>12, <1>13 DEF SignalsInv

\* An offer that is made names the tracks there are, and waits to be sent.
LEMMA MakeOfferIs ==
    ASSUME SignalsInv, NEW w \in Signals!Makers, NEW tracks \in SUBSET SignallingTracks,
           Signals!MakeOffer(w, tracks)
    PROVE  /\ added' = tracks /\ offers' \in Seq(SUBSET SignallingTracks)
           /\ Len(offers) \in Nat /\ Len(offers') = Len(offers) + 1 /\ offers' # <<>>
           /\ unanswered' = TRUE
           /\ making' \in [Signals!Makers -> 0..Len(offers')] /\ making'[w] = Len(offers) + 1
           /\ \A v \in Signals!Makers : v # w => making'[v] = making[v]
           /\ making'[w] \in Full' /\ ~NoMaking'
           /\ added' = added => Full \subseteq Full'
           /\ \A n : n \in 1..Len(offers) => n \in 1..Len(offers')
           /\ Signals!Makers = {"reply", "setup"}
  <1>1. /\ offers \in Seq(SUBSET SignallingTracks) /\ Len(offers) \in Nat
        /\ making \in [Signals!Makers -> 0..Len(offers)]
    BY SignalsTypes
  <1>2. /\ added' = tracks /\ offers' = Append(offers, tracks) /\ unanswered' = TRUE
        /\ making' = [making EXCEPT ![w] = Len(offers) + 1]
    BY DEF Signals!MakeOffer
  <1>3. /\ offers' \in Seq(SUBSET SignallingTracks) /\ Len(offers') = Len(offers) + 1
        /\ offers'[Len(offers) + 1] = tracks /\ offers' # <<>>
        /\ \A n \in 1..Len(offers) : offers'[n] = offers[n]
    BY <1>1, <1>2
  <1>4. Signals!Makers = {"reply", "setup"}
    BY DEF Signals!Makers
  <1>5. /\ making' \in [Signals!Makers -> 0..Len(offers')] /\ making'[w] = Len(offers) + 1
        /\ \A v \in Signals!Makers : v # w => making'[v] = making[v]
    <2>1. Len(offers) + 1 \in 0..Len(offers')
          /\ \A v \in Signals!Makers : making[v] \in 0..Len(offers')
      BY <1>1, <1>3
    <2> QED
      BY <1>1, <1>2, <2>1
  <1>6. making'[w] \in Full'
    BY <1>1, <1>2, <1>3, <1>5 DEF Full
  <1>7. added' = added => Full \subseteq Full'
    BY <1>1, <1>3 DEF Full
  <1>8. ~NoMaking'
    <2>1. making'[w] # 0
      BY <1>1, <1>5
    <2> QED
      BY <1>4, <2>1 DEF NoMaking
  <1> QED
    BY <1>1, <1>2, <1>3, <1>4, <1>5, <1>6, <1>7, <1>8

\* An offer of the page is answered by an offer.
LEMMA OnOfferKeeps ==
    ASSUME SignalsConstants, SignalsInv, Signals!OnOffer
    PROVE  SignalsInv'
  <1> DEFINE s == toStreamer
             h == Head(s)
  <1>1. /\ s # <<>> /\ h.kind = "offer" /\ s' = Tail(s) /\ making["reply"] = 0
        /\ Signals!MakeOffer("reply", added)
        /\ UNCHANGED <<chain, signaling, signallingHeard, gathering, found, described, searched,
                       signallingToPage, refused>>
    BY DEF Signals!OnOffer, Signals!StreamerMessage, Signals!pageVars
  <1>2. /\ s \in Seq(Signals!Messages) /\ added \in SUBSET SignallingTracks
        /\ "reply" \in Signals!Makers /\ "setup" \in Signals!Makers
    BY SignalsTypes DEF Signals!Makers
  <1>3. /\ added' = added /\ offers' \in Seq(SUBSET SignallingTracks)
        /\ Len(offers) \in Nat /\ Len(offers') = Len(offers) + 1 /\ offers' # <<>>
        /\ unanswered' = TRUE
        /\ making' \in [Signals!Makers -> 0..Len(offers')]
        /\ making'["setup"] = making["setup"]
        /\ making'["reply"] \in Full' /\ ~NoMaking'
        /\ Full \subseteq Full' /\ \A n : n \in 1..Len(offers) => n \in 1..Len(offers')
        /\ Signals!Makers = {"reply", "setup"}
    BY <1>1, <1>2, MakeOfferIs
  <1>4. /\ s' \in Seq(Signals!Messages) /\ h \in Signals!Messages
        /\ \A K : NoneOf(s, K) <=> NoneOf(s', K) /\ h \notin K
        /\ \A K : AtMostOne(s, K) => AtMostOne(s', K) /\ (h \in K => NoneOf(s', K))
        /\ \A K, A : Preceded(s, K, A) => h \notin K /\ (h \notin A => Preceded(s', K, A))
    BY <1>1, <1>2, Ahead
  <1>5. h \in OfferMessages /\ h \in Descriptions /\ h \notin AnswerMessages
    BY <1>1, <1>4, KindOf
  <1> HIDE DEF h
  <1>6. Signals!TypeOK'
    <2>1. Signals!TypeOK
      BY DEF SignalsInv
    <2>2. signallingHeard' \in 0..Len(offers') /\ unanswered' \in BOOLEAN /\ described' \in BOOLEAN
      <3>1. signallingHeard \in 0..Len(offers) /\ described \in BOOLEAN
        BY SignalsTypes
      <3>2. signallingHeard' \in 0..Len(offers')
        BY <1>1, <1>3, <3>1
      <3> QED
        BY <1>1, <1>3, <3>1, <3>2, Zenon
    <2> QED
      BY <1>1, <1>3, <1>4, <2>1, <2>2, Zenon DEF Signals!TypeOK
  <1>9. NumbersFit'
    <2>1. NumbersFit
      BY SignalsTypes
    <2>2. /\ NoneOf(signallingToPage, {m \in OfferMessages : m.of \notin 1..Len(offers')})
          /\ NoneOf(chain, {x \in ToSet : x.of \notin 1..Len(offers')})
      BY <1>3, <2>1 DEF NumbersFit, NoneOf
    <2> QED
      BY <1>1, <1>3, <2>2 DEF NumbersFit
  <1>10. SomeTrackToCome'
    <2>1. SomeTrackToCome /\ NumbersFit
      BY SignalsTypes
    <2>2. ~NoDescription /\ ~NoneOf(s, OfferMessages)
      BY <1>4, <1>5 DEF NoDescription
    <2>3. NoneOf(s', Descriptions) => NoneOf(s', OfferMessages)
      BY NoneSplits
    <2>4. offers = <<>> => ~described
      BY <2>1 DEF NumbersFit
    <2>5. added # SignallingTracks => offers = <<>> /\ NoChange /\ NoOffer /\ NoMaking
                                      /\ NoneOf(s', Descriptions)
      BY <1>4, <1>5, <2>1, <2>2 DEF SomeTrackToCome, Alone, NoDescription
    <2>6. NoneOf(chain, ToChange) => NoneOf(chain, ToSend)
      BY NoneSplits
    <2> QED
      BY <1>1, <1>3, <1>4, <2>1, <2>3, <2>4, <2>5, <2>6 DEF SomeTrackToCome, Alone, NoOffer,
         NoChange, NoDescription, NoMaking
  <1>11. LastIsFull'
    <2>1. LastIsFull
      BY SignalsTypes
    <2>2. \A v \in Signals!Makers : making'[v] # 0 => making'[v] \in Full'
      BY <1>2, <1>3, <2>1 DEF LastIsFull
    <2> QED
      BY <1>3, <2>2 DEF LastIsFull
  <1>12. Unsettled'
    <2>1. Unsettled
      BY SignalsTypes
    <2> QED
      BY <1>1, <1>3, <2>1 DEF Unsettled
  <1>13. CandidatesFollow'
    <2>1. CandidatesFollow
      BY SignalsTypes
    <2>2. NoneOf(s', AnswerMessages) => NoneOf(s, AnswerMessages)
      BY <1>4, <1>5
    <2>3. Preceded(s, OwnCandidates, AnswerMessages) => Preceded(s', OwnCandidates, AnswerMessages)
      BY <1>4, <1>5
    <2> QED
      BY <1>1, <2>1, <2>2, <2>3 DEF CandidatesFollow, Signals!AnsweredCandidatesCount
  <1> QED
    BY <1>6, <1>9, <1>10, <1>11, <1>12, <1>13 DEF SignalsInv

\* A track is added and offered at once.
LEMMA SetUpKeeps ==
    ASSUME SignalsConstants, SignalsInv, NEW t \in SignallingTracks, Signals!SetUp(t)
    PROVE  SignalsInv'
  <1> DEFINE tracks == added \cup {t}
  <1>1. /\ described /\ making["setup"] = 0 /\ t \notin added
        /\ Signals!MakeOffer("setup", tracks)
        /\ UNCHANGED <<chain, signaling, signallingHeard, gathering, found, described, searched,
                       signallingToPage, toStreamer, refused>>
    BY DEF Signals!SetUp, Signals!pageVars
  <1>2. /\ tracks \in SUBSET SignallingTracks /\ added \in SUBSET SignallingTracks
        /\ "reply" \in Signals!Makers /\ "setup" \in Signals!Makers /\ added # SignallingTracks
    BY <1>1, SignalsTypes DEF Signals!Makers
  <1>3. /\ added' = tracks /\ offers' \in Seq(SUBSET SignallingTracks)
        /\ Len(offers) \in Nat /\ Len(offers') = Len(offers) + 1 /\ offers' # <<>>
        /\ unanswered' = TRUE
        /\ making' \in [Signals!Makers -> 0..Len(offers')]
        /\ making'["reply"] = making["reply"]
        /\ making'["setup"] \in Full' /\ ~NoMaking'
        /\ \A n : n \in 1..Len(offers) => n \in 1..Len(offers')
        /\ Signals!Makers = {"reply", "setup"}
    BY <1>1, <1>2, MakeOfferIs
  <1>4. /\ making["reply"] = 0 /\ Alone
        /\ NoneOf(toStreamer, OfferMessages)
        /\ signaling = "have-remote-offer" \/ NoneOf(chain, ToSend)
        /\ added = {} => NoOffer /\ NoChange /\ NoDescription /\ NoMaking
    <2>1. SomeTrackToCome /\ NumbersFit
      BY SignalsTypes
    <2>2. offers # <<>>
      BY <1>1, <2>1 DEF NumbersFit
    <2> QED
      BY <1>1, <1>2, <2>1, <2>2 DEF SomeTrackToCome
  <1>5. tracks # SignallingTracks => added = {}
    BY <1>1, <1>2 DEF SignalsConstants
  <1>6. Signals!TypeOK'
    <2>1. Signals!TypeOK
      BY DEF SignalsInv
    <2>2. signallingHeard' \in 0..Len(offers') /\ unanswered' \in BOOLEAN /\ described' \in BOOLEAN
      <3>1. signallingHeard \in 0..Len(offers) /\ described \in BOOLEAN
        BY SignalsTypes
      <3>2. signallingHeard' \in 0..Len(offers')
        BY <1>1, <1>3, <3>1
      <3> QED
        BY <1>1, <1>3, <3>1, <3>2, Zenon
    <2>3. added' \subseteq SignallingTracks
      BY <1>2, <1>3
    <2> QED
      BY <1>1, <1>3, <2>1, <2>2, <2>3, Zenon DEF Signals!TypeOK
  <1>9. NumbersFit'
    <2>1. NumbersFit
      BY SignalsTypes
    <2>2. /\ NoneOf(signallingToPage, {m \in OfferMessages : m.of \notin 1..Len(offers')})
          /\ NoneOf(chain, {x \in ToSet : x.of \notin 1..Len(offers')})
      BY <1>3, <2>1 DEF NumbersFit, NoneOf
    <2> QED
      BY <1>1, <1>3, <2>2 DEF NumbersFit
  <1>10. SomeTrackToCome'
    <2>1. added' # {}
      BY <1>3
    <2>2. added' # SignallingTracks => NoOffer /\ NoChange /\ NoDescription /\ NoMaking
      BY <1>3, <1>4, <1>5
    <2> QED
      BY <1>1, <1>3, <1>4, <2>1, <2>2 DEF SomeTrackToCome, Alone, NoOffer, NoChange,
         NoDescription, NoMaking
  <1>11. LastIsFull'
    <2>1. \A v \in Signals!Makers : making'[v] # 0 => making'[v] \in Full'
      BY <1>3, <1>4
    <2> QED
      BY <1>3, <2>1 DEF LastIsFull
  <1>12. Unsettled'
    <2>1. Unsettled
      BY SignalsTypes
    <2> QED
      BY <1>1, <1>3, <2>1 DEF Unsettled
  <1>13. CandidatesFollow'
    <2>1. CandidatesFollow
      BY SignalsTypes
    <2> QED
      BY <1>1, <2>1 DEF CandidatesFollow, Signals!AnsweredCandidatesCount
  <1> QED
    BY <1>6, <1>9, <1>10, <1>11, <1>12, <1>13 DEF SignalsInv

\* An answer settles the offer made last.
LEMMA OnAnswerKeeps ==
    ASSUME SignalsConstants, SignalsInv, Signals!OnAnswer
    PROVE  SignalsInv'
  <1> DEFINE s == toStreamer
             h == Head(s)
  <1>1. /\ s # <<>> /\ h.kind = "answer" /\ s' = Tail(s)
        /\ UNCHANGED <<chain, signaling, signallingHeard, gathering, found, added, offers, making,
                       searched, signallingToPage, refused>>
    BY DEF Signals!OnAnswer, Signals!StreamerMessage, Signals!pageVars
  <1>2. s \in Seq(Signals!Messages) /\ NumbersFit
    BY SignalsTypes
  <1>4. /\ s' \in Seq(Signals!Messages) /\ h \in Signals!Messages
        /\ \A K : NoneOf(s, K) <=> NoneOf(s', K) /\ h \notin K
        /\ \A K : AtMostOne(s, K) => AtMostOne(s', K) /\ (h \in K => NoneOf(s', K))
    BY <1>1, <1>2, Ahead
  <1>5. h \in AnswerMessages /\ h \in Descriptions /\ h \notin OfferMessages
    BY <1>1, <1>4, KindOf
  <1> HIDE DEF h
  <1>3. unanswered' = FALSE /\ described' = TRUE /\ offers # <<>>
    <2>1. ~NoneOf(s, AnswerMessages)
      BY <1>4, <1>5
    <2>2. offers # <<>> /\ (described \/ unanswered)
      BY <1>2, <2>1 DEF NumbersFit
    <2>3. unanswered' = FALSE /\ described' = (described \/ unanswered)
      BY Zenon DEF Signals!OnAnswer
    <2> QED
      BY <2>2, <2>3
  <1>6. Signals!TypeOK'
    <2>1. Signals!TypeOK /\ unanswered' \in BOOLEAN /\ described' \in BOOLEAN
      BY <1>3 DEF SignalsInv
    <2> QED
      BY <1>1, <1>4, <2>1, Zenon DEF Signals!TypeOK
  <1>7. Full' = Full
    BY <1>1 DEF Full
  <1>9. NumbersFit'
    <2>1. NumbersFit
      BY SignalsTypes
    <2> QED
      BY <1>1, <1>3, <2>1 DEF NumbersFit
  <1>10. SomeTrackToCome'
    <2>1. SomeTrackToCome
      BY SignalsTypes
    <2>2. NoneOf(s', Descriptions) => NoneOf(s', OfferMessages)
      BY NoneSplits
    <2>3. added # SignallingTracks => /\ NoOffer /\ NoChange /\ NoMaking /\ NoneOf(s', Descriptions)
                                      /\ Alone
                                      /\ signaling = "have-remote-offer" \/ NoneOf(chain, ToSend)
      BY <1>3, <1>4, <1>5, <2>1 DEF SomeTrackToCome, Alone, NoDescription
    <2> QED
      BY <1>1, <1>3, <1>4, <2>2, <2>3 DEF SomeTrackToCome, Alone, NoOffer, NoChange,
         NoDescription, NoMaking
  <1>11. LastIsFull'
    <2>1. LastIsFull
      BY SignalsTypes
    <2> QED
      BY <1>1, <1>7, <2>1 DEF LastIsFull, NoOffer, NoMaking
  <1>12. Unsettled'
    <2>1. Unsettled
      BY SignalsTypes
    <2> QED
      BY <1>1, <1>3, <1>4, <1>5, <2>1 DEF Unsettled, NoOffer, NoMaking
  <1>13. CandidatesFollow'
    <2>1. CandidatesFollow
      BY SignalsTypes
    <2> QED
      BY <1>1, <1>3, <2>1 DEF CandidatesFollow, Signals!AnsweredCandidatesCount
  <1> QED
    BY <1>6, <1>9, <1>10, <1>11, <1>12, <1>13 DEF SignalsInv

\* A candidate for an answer comes behind that answer.
LEMMA OnCandidateKeeps ==
    ASSUME SignalsConstants, SignalsInv, Signals!OnCandidate
    PROVE  SignalsInv'
  <1> DEFINE s == toStreamer
             h == Head(s)
  <1>1. /\ s # <<>> /\ h.kind = "candidate" /\ s' = Tail(s)
        /\ refused' = IF ~described /\ h.of = 1 THEN refused \cup {"streamer"} ELSE refused
        /\ UNCHANGED <<chain, signaling, signallingHeard, gathering, found, added, offers,
                       unanswered, described, making, searched, signallingToPage>>
    BY DEF Signals!OnCandidate, Signals!StreamerMessage, Signals!pageVars, Signals!streamerVars
  <1>2. s \in Seq(Signals!Messages) /\ CandidatesFollow
    BY SignalsTypes
  <1>4. /\ s' \in Seq(Signals!Messages) /\ h \in Signals!Messages
        /\ \A K : NoneOf(s, K) <=> NoneOf(s', K) /\ h \notin K
        /\ \A K : AtMostOne(s, K) => AtMostOne(s', K) /\ (h \in K => NoneOf(s', K))
        /\ \A K, A : Preceded(s, K, A) => h \notin K /\ (h \notin A => Preceded(s', K, A))
    BY <1>1, <1>2, Ahead
  <1>5. /\ h \notin AnswerMessages /\ h \notin Descriptions /\ h \notin OfferMessages
        /\ (h \in OwnCandidates <=> h.of = 1)
    BY <1>1, <1>4, KindOf
  <1> HIDE DEF h
  <1>3. refused' = refused
    <2>1. ~described => h \notin OwnCandidates
      BY <1>2, <1>4 DEF CandidatesFollow
    <2> QED
      BY <1>1, <1>5, <2>1
  <1>6. Signals!TypeOK'
    <2>1. Signals!TypeOK
      BY DEF SignalsInv
    <2> QED
      BY <1>1, <1>3, <1>4, <2>1, Zenon DEF Signals!TypeOK
  <1>7. Full' = Full
    BY <1>1 DEF Full
  <1>9. NumbersFit'
    <2>1. NumbersFit
      BY SignalsTypes
    <2> QED
      BY <1>1, <1>4, <1>5, <2>1 DEF NumbersFit
  <1>10. SomeTrackToCome'
    <2>1. SomeTrackToCome
      BY SignalsTypes
    <2> QED
      BY <1>1, <1>4, <1>5, <2>1 DEF SomeTrackToCome, Alone, NoOffer, NoChange,
         NoDescription, NoMaking
  <1>11. LastIsFull'
    <2>1. LastIsFull
      BY SignalsTypes
    <2> QED
      BY <1>1, <1>7, <2>1 DEF LastIsFull, NoOffer, NoMaking
  <1>12. Unsettled'
    <2>1. Unsettled
      BY SignalsTypes
    <2> QED
      BY <1>1, <1>4, <1>5, <2>1 DEF Unsettled, NoOffer, NoMaking
  <1>13. CandidatesFollow'
    <2>1. ~described => Preceded(s', OwnCandidates, AnswerMessages)
      BY <1>2, <1>4, <1>5 DEF CandidatesFollow
    <2> QED
      BY <1>1, <1>2, <1>3, <1>4, <1>5, <2>1 DEF CandidatesFollow, Signals!AnsweredCandidatesCount
  <1> QED
    BY <1>6, <1>9, <1>10, <1>11, <1>12, <1>13 DEF SignalsInv

\* Every step of the negotiation keeps the invariant.
LEMMA SignalsKeeps ==
    ASSUME SignalsConstants, SignalsInv, Signals!Next
    PROVE  SignalsInv'
  BY PageReceivesKeeps, SetRemoteKeeps, SetLocalKeeps, AddCandidateKeeps, PageCandidateKeeps,
     SendOfferKeeps, StreamerCandidateKeeps, OnOfferKeeps, OnAnswerKeeps, OnCandidateKeeps,
     SetUpKeeps DEF Signals!Next

\* When nothing is on its way, both sides are settled and the page has heard of every track.
LEMMA SignalsSound ==
    ASSUME SignalsInv
    PROVE  Signals!TypeOK /\ Signals!SettledIsComplete /\ Signals!AnsweredCandidatesCount
  <1>1. Signals!TypeOK /\ Signals!AnsweredCandidatesCount
    BY DEF SignalsInv, CandidatesFollow
  <1>2. ASSUME Signals!Quiet
        PROVE  /\ signaling = "stable" /\ ~unanswered
               /\ signallingHeard # 0 /\ offers[signallingHeard] = added
    <2>1. /\ chain = <<>> /\ signallingToPage = <<>> /\ toStreamer = <<>> /\ NoMaking
      BY <1>2 DEF Signals!Quiet, Signals!Makers, NoMaking
    <2>2. /\ \A K : NoneOf(<<>>, K)
          /\ \A K, G : ~LastIn(<<>>, K, G)
      BY DEF NoneOf, LastIn
    <2>3. /\ signaling \in {"stable", "have-local-offer", "have-remote-offer"}
          /\ Unsettled /\ LastIsFull /\ signallingHeard \in 0..Len(offers)
          /\ Len(offers) \in Nat /\ (offers = <<>> <=> Len(offers) = 0)
      BY SignalsTypes
    <2>4. signaling = "stable" /\ ~unanswered /\ signallingHeard # 0
      BY <2>1, <2>2, <2>3 DEF Unsettled, NoOffer
    <2>5. offers # <<>>
      BY <2>3, <2>4
    <2>6. signallingHeard \in Full
      BY <2>1, <2>2, <2>3, <2>5 DEF LastIsFull, NoOffer
    <2> QED
      BY <2>4, <2>6 DEF Full
  <1> QED
    BY <1>1, <1>2 DEF Signals!SettledIsComplete

-------------------------------------------------------------------------------
(* The channels and the track *)

\* Messages and pictures are neither lost nor made up, nothing is said of HDR before there is
\* a renderer, and what the renderer shows of it is what was heard.
InboundInv ==
    /\ Inbound!TypeOK
    /\ Inbound!TrackReachesRenderer
    /\ sent = handled + Len(inboundToPage)
    /\ inboundMade = pictures + inboundShown
    /\ inboundRenderer = "none" =>
          /\ rendererHdr = hdr
          /\ \A i \in 1..Len(inboundToPage) : inboundToPage[i] \in {"status", "short"}

\* At the start there are no channels and nothing was said.
LEMMA InboundInit ==
    ASSUME InboundConstants, Inbound!Init
    PROVE  InboundInv
  <1>1. /\ channels \in BOOLEAN /\ hdr \in BOOLEAN /\ rendererHdr \in BOOLEAN /\ track \in BOOLEAN
        /\ newProcessor \in BOOLEAN /\ running \in BOOLEAN /\ ~track /\ rendererHdr = hdr
    BY Zenon DEF Inbound!Init
  <1> QED
    BY <1>1 DEF Inbound!Init, InboundInv, Inbound!TypeOK, InboundConstants,
       Inbound!TrackReachesRenderer

\* The flags of the page stay true or false.
LEMMA InboundFlags ==
    ASSUME InboundConstants, InboundInv, Inbound!Next
    PROVE  /\ channels' \in BOOLEAN /\ hdr' \in BOOLEAN /\ rendererHdr' \in BOOLEAN
           /\ track' \in BOOLEAN /\ newProcessor' \in BOOLEAN /\ running' \in BOOLEAN
  <1>1. /\ channels \in BOOLEAN /\ hdr \in BOOLEAN /\ rendererHdr \in BOOLEAN
        /\ track \in BOOLEAN /\ newProcessor \in BOOLEAN /\ running \in BOOLEAN
    BY Zenon DEF InboundInv, Inbound!TypeOK
  <1>2. CASE Inbound!InitChannels \/ Inbound!ReplaceChannel \/ \E m \in Inbound!Messages : Inbound!Sends(m)
    BY <1>1, <1>2, Zenon DEF Inbound!InitChannels, Inbound!ReplaceChannel, Inbound!Sends,
       Inbound!reader
  <1>3. CASE Inbound!OnGeneralChannelMessage
    BY <1>1, <1>3, Zenon DEF Inbound!OnGeneralChannelMessage, Inbound!SetHdrMode, Inbound!reader
  <1>4. CASE Inbound!OnTrack
    BY <1>1, <1>4, Zenon DEF Inbound!OnTrack, Inbound!SetTrack, Inbound!general, Inbound!reader
  <1>5. CASE \E made \in {"element", "pipes"} : Inbound!CreateVideoRenderer(made)
    BY <1>1, <1>5, Zenon DEF Inbound!CreateVideoRenderer, Inbound!SetTrack, Inbound!general,
       Inbound!reader
  <1>6. CASE Inbound!Setup \/ Inbound!Cleanup \/ Inbound!Look \/ Inbound!Picture \/ Inbound!Read
    BY <1>1, <1>6, Zenon DEF Inbound!Setup, Inbound!Cleanup, Inbound!Look, Inbound!Picture,
       Inbound!Read, Inbound!general
  <1> QED
    BY <1>2, <1>3, <1>4, <1>5, <1>6 DEF Inbound!Next

\* What is sent is handled or on its way, and of HDR nothing is said without a renderer.
LEMMA MessagesKeep ==
    ASSUME InboundConstants, InboundInv,
           \/ Inbound!InitChannels \/ Inbound!ReplaceChannel \/ Inbound!OnGeneralChannelMessage
           \/ \E m \in Inbound!Messages : Inbound!Sends(m)
    PROVE  InboundInv'
  <1> USE DEF InboundConstants
  <1>1. /\ channels' \in BOOLEAN /\ hdr' \in BOOLEAN /\ rendererHdr' \in BOOLEAN
        /\ track' \in BOOLEAN /\ newProcessor' \in BOOLEAN /\ running' \in BOOLEAN
    BY InboundFlags DEF Inbound!Next
  <1>2. /\ inboundToPage \in Seq(Inbound!Messages) /\ Len(inboundToPage) \in Nat
        /\ sent \in 0..MaxMessages /\ handled \in 0..MaxMessages
        /\ sent = handled + Len(inboundToPage)
        /\ listensOn \in {"none", "own", "remote"}
        /\ inboundRenderer = "none" =>
              /\ rendererHdr = hdr
              /\ \A i \in 1..Len(inboundToPage) : inboundToPage[i] \in {"status", "short"}
    BY DEF InboundInv, Inbound!TypeOK
  <1>3. UNCHANGED <<inboundRenderer, track, trackSet, reading, newProcessor, running, processor,
                    pictures, inboundMade, inboundShown>>
    BY DEF Inbound!InitChannels, Inbound!ReplaceChannel, Inbound!OnGeneralChannelMessage,
       Inbound!Sends, Inbound!reader
  <1>4. listensOn' \in {"none", "own", "remote"}
    BY <1>2 DEF Inbound!InitChannels, Inbound!ReplaceChannel, Inbound!OnGeneralChannelMessage,
       Inbound!Sends
  <1> DEFINE Counted ==
        /\ inboundToPage' \in Seq(Inbound!Messages) /\ Len(inboundToPage') <= MaxMessages
        /\ sent' \in 0..MaxMessages /\ handled' \in 0..MaxMessages
        /\ sent' = handled' + Len(inboundToPage')
        /\ inboundRenderer = "none" =>
              /\ rendererHdr' = hdr'
              /\ \A i \in 1..Len(inboundToPage') : inboundToPage'[i] \in {"status", "short"}
        /\ inboundRenderer = "element" => rendererHdr' = hdr'
  <1>5. inboundRenderer = "element" => rendererHdr = hdr
    BY Zenon DEF InboundInv, Inbound!TrackReachesRenderer
  <1>6. ASSUME Inbound!InitChannels \/ Inbound!ReplaceChannel
        PROVE  Counted
    <2>1. UNCHANGED <<inboundToPage, sent, handled, hdr, rendererHdr>>
      BY <1>6 DEF Inbound!InitChannels, Inbound!ReplaceChannel
    <2> QED
      BY <1>2, <1>5, <2>1
  <1>7. ASSUME \E m \in Inbound!Messages : Inbound!Sends(m)
        PROVE  Counted
    <2>1. PICK m \in Inbound!Messages : Inbound!Sends(m)
      BY <1>7
    <2>2. /\ sent < MaxMessages /\ sent' = sent + 1
          /\ inboundToPage' = Append(inboundToPage, m)
          /\ UNCHANGED <<handled, hdr, rendererHdr>>
          /\ m \in {"hdrOn", "hdrOff"} => inboundRenderer # "none"
      BY <2>1 DEF Inbound!Sends
    <2>3. /\ inboundToPage' \in Seq(Inbound!Messages)
          /\ Len(inboundToPage') = Len(inboundToPage) + 1
          /\ \A i \in 1..Len(inboundToPage) : inboundToPage'[i] = inboundToPage[i]
          /\ inboundToPage'[Len(inboundToPage) + 1] = m
      BY <1>2, <2>2
    <2>4. inboundRenderer = "none" => m \in {"status", "short"}
      BY <2>2 DEF Inbound!Messages
    <2>5. \A i \in 1..Len(inboundToPage') :
            i \in 1..Len(inboundToPage) \/ i = Len(inboundToPage) + 1
      BY <1>2, <2>3
    <2> QED
      BY <1>2, <1>5, <2>2, <2>3, <2>4, <2>5
  <1>8. ASSUME Inbound!OnGeneralChannelMessage
        PROVE  Counted
    <2>1. /\ inboundToPage # <<>> /\ inboundToPage' = Tail(inboundToPage)
          /\ handled' = handled + 1 /\ sent' = sent
      BY <1>8 DEF Inbound!OnGeneralChannelMessage
    <2>2. /\ Tail(inboundToPage) \in Seq(Inbound!Messages)
          /\ Len(Tail(inboundToPage)) = Len(inboundToPage) - 1 /\ Len(inboundToPage) > 0
          /\ \A i \in 1..(Len(inboundToPage) - 1) : Tail(inboundToPage)[i] = inboundToPage[i + 1]
          /\ Head(inboundToPage) = inboundToPage[1]
      BY <1>2, <2>1
    <2>3. inboundRenderer = "none" => Head(inboundToPage) \notin {"hdrOn", "hdrOff"}
      BY <1>2, <2>2
    <2>4. inboundRenderer = "none" => UNCHANGED <<hdr, rendererHdr>>
      BY <1>8, <2>3, Zenon DEF Inbound!OnGeneralChannelMessage
    <2>5. inboundRenderer = "element" => rendererHdr' = hdr'
      BY <1>5, <1>8, Zenon DEF Inbound!OnGeneralChannelMessage, Inbound!SetHdrMode
    <2>6. inboundRenderer = "none" => rendererHdr' = hdr'
      BY <1>2, <2>4
    <2>7. \A i \in 1..(Len(inboundToPage) - 1) : i + 1 \in 1..Len(inboundToPage)
      BY <1>2
    <2>8. inboundRenderer = "none" =>
            \A i \in 1..Len(inboundToPage') : inboundToPage'[i] \in {"status", "short"}
      BY <1>2, <2>1, <2>2, <2>7
    <2> QED
      BY <1>2, <2>1, <2>2, <2>5, <2>6, <2>8
  <1>9. Counted
    BY <1>6, <1>7, <1>8
  <1> QED
    BY <1>1, <1>3, <1>4, <1>9 DEF InboundInv, Inbound!TypeOK, Inbound!TrackReachesRenderer

\* Whichever comes first, the renderer or the track, the one is given the other once.
LEMMA TrackKeeps ==
    ASSUME InboundConstants, InboundInv,
           \/ Inbound!OnTrack
           \/ \E made \in {"element", "pipes"} : Inbound!CreateVideoRenderer(made)
    PROVE  InboundInv'
  <1>1. /\ channels' \in BOOLEAN /\ hdr' \in BOOLEAN /\ rendererHdr' \in BOOLEAN
        /\ track' \in BOOLEAN /\ newProcessor' \in BOOLEAN /\ running' \in BOOLEAN
    BY InboundFlags DEF Inbound!Next
  <1>2. UNCHANGED <<listensOn, inboundToPage, sent, handled, hdr, rendererHdr, reading, running,
                    pictures, inboundMade, inboundShown>>
    BY DEF Inbound!OnTrack, Inbound!CreateVideoRenderer, Inbound!SetTrack, Inbound!general,
       Inbound!reader
  <1>3. /\ processor' \in {"none", "here"} /\ inboundRenderer' \in {"none", "element", "pipes"}
        /\ trackSet' = IF track' /\ inboundRenderer' # "none" THEN 1 ELSE 0
    BY DEF InboundInv, Inbound!TypeOK, Inbound!OnTrack, Inbound!CreateVideoRenderer,
       Inbound!SetTrack, Inbound!reader, Inbound!general, Inbound!TrackReachesRenderer
  <1>4. /\ inboundRenderer' = "element" => rendererHdr' = hdr'
        /\ inboundRenderer' = "none" => inboundRenderer = "none"
    <2>1. inboundRenderer' = inboundRenderer \/ inboundRenderer = "none"
      BY DEF Inbound!OnTrack, Inbound!CreateVideoRenderer
    <2>2. inboundRenderer' = "none" => inboundRenderer = "none"
      BY DEF Inbound!OnTrack, Inbound!CreateVideoRenderer
    <2> QED
      BY <1>2, <2>1, <2>2 DEF InboundInv, Inbound!TrackReachesRenderer
  <1>5. Inbound!TypeOK'
    BY <1>1, <1>2, <1>3 DEF InboundConstants, InboundInv, Inbound!TypeOK
  <1>6. Inbound!TrackReachesRenderer'
    BY <1>3, <1>4, Zenon DEF Inbound!TrackReachesRenderer
  <1> QED
    BY <1>2, <1>4, <1>5, <1>6 DEF InboundInv

\* Every picture of the track is held or shown.
LEMMA ReaderKeeps ==
    ASSUME InboundConstants, InboundInv,
           Inbound!Setup \/ Inbound!Cleanup \/ Inbound!Look \/ Inbound!Picture \/ Inbound!Read
    PROVE  InboundInv'
  <1>1. /\ channels' \in BOOLEAN /\ hdr' \in BOOLEAN /\ rendererHdr' \in BOOLEAN
        /\ track' \in BOOLEAN /\ newProcessor' \in BOOLEAN /\ running' \in BOOLEAN
    BY InboundFlags DEF Inbound!Next
  <1>2. UNCHANGED <<channels, listensOn, inboundToPage, sent, handled, hdr, rendererHdr,
                    inboundRenderer, track, trackSet>>
    BY DEF Inbound!Setup, Inbound!Cleanup, Inbound!Look, Inbound!Picture, Inbound!Read,
       Inbound!general
  <1>3. /\ reading' \in {"idle", "looking", "reading", "over"} /\ processor' \in {"none", "here"}
    BY DEF InboundInv, Inbound!TypeOK, Inbound!Setup, Inbound!Cleanup, Inbound!Look,
       Inbound!Picture, Inbound!Read
  <1>4. /\ pictures' \in 0..InboundMaxPictures /\ inboundMade' \in 0..InboundMaxPictures
        /\ inboundShown' \in 0..InboundMaxPictures
        /\ inboundMade' = pictures' + inboundShown'
    <2>1. /\ InboundMaxPictures \in Nat
          /\ pictures \in 0..InboundMaxPictures /\ inboundMade \in 0..InboundMaxPictures
          /\ inboundShown \in 0..InboundMaxPictures
          /\ inboundMade = pictures + inboundShown
      BY DEF InboundConstants, InboundInv, Inbound!TypeOK
    <2>2. CASE UNCHANGED <<pictures, inboundMade, inboundShown>>
      BY <2>1, <2>2
    <2>3. CASE /\ inboundMade < InboundMaxPictures /\ inboundMade' = inboundMade + 1
               /\ pictures' = pictures + 1 /\ inboundShown' = inboundShown
      BY <2>1, <2>3
    <2>4. CASE /\ pictures > 0 /\ pictures' = pictures - 1
               /\ inboundShown' = inboundShown + 1 /\ inboundMade' = inboundMade
      BY <2>1, <2>4
    <2> QED
      BY <2>2, <2>3, <2>4, Zenon
         DEF Inbound!Setup, Inbound!Cleanup, Inbound!Look, Inbound!Picture, Inbound!Read
  <1>5. Inbound!TypeOK'
    BY <1>1, <1>2, <1>3, <1>4 DEF InboundInv, Inbound!TypeOK
  <1>6. Inbound!TrackReachesRenderer'
    BY <1>2, Zenon DEF InboundInv, Inbound!TrackReachesRenderer
  <1> QED
    BY <1>2, <1>4, <1>5, <1>6 DEF InboundInv

\* Every step keeps the renderer and what it is told.
LEMMA InboundKeeps ==
    ASSUME InboundConstants, InboundInv, Inbound!Next
    PROVE  InboundInv'
  BY MessagesKeep, TrackKeeps, ReaderKeeps DEF Inbound!Next

-------------------------------------------------------------------------------
(* The decoder *)

Decoders == [state : {"unconfigured", "configured", "closed"}, needsKey : BOOLEAN,
             queue : Seq(1..MaxUnits)]
Pipes == [buffered : Seq(Decoding!Unit), requested : BOOLEAN, needsKey : BOOLEAN,
          described : BOOLEAN, decoder : Decoders, last : 0..MaxUnits, misused : BOOLEAN,
          thrown : BOOLEAN]

\* Pictures that wait come after the one that is shown and in their order, up to unit k.
InOrder(q, frame, k) ==
    /\ \A i \in 1..Len(q) : q[i] > frame /\ q[i] <= k
    /\ \A i, j \in 1..Len(q) : i < j => q[i] < q[j]

\* After unit k a pipe that takes deltas gave the decoder that very unit last.
InBandSound(s, k) ==
    /\ ~s.thrown /\ s.decoder.state = "configured"
    /\ s.needsKey \/ (s.last = k /\ ~s.decoder.needsKey)
    /\ s.requested => s.needsKey
TranslatedSound(s, k) ==
    s.described => /\ ~s.thrown /\ s.decoder.state = "configured"
                   /\ ~s.decoder.needsKey /\ s.last = k
PipeSound(s, k) ==
    /\ ~s.misused
    /\ IF mode = "translated" THEN TranslatedSound(s, k) ELSE InBandSound(s, k)

\* The units that wait for the setup are all that have come, in their order.
Numbered(units, k) ==
    \A i \in 1..Len(units) : units[i].n = k - Len(units) + i /\ (units[i].sets => units[i].key)

DecodingInv ==
    /\ Decoding!TypeOK /\ decoder \in Decoders
    /\ Decoding!DeltasContinue /\ Decoding!OneKeyFrameAsked
    /\ open \subseteq {currentFrame}
    /\ currentFrame <= arrived /\ InOrder(decoder.queue, currentFrame, arrived)
    /\ decoderAsked = 1 => requestedIdr
    /\ bufferedUnits # <<>> =>
          decoderAsked = 0 /\ ~requestedIdr /\ decoder.queue = <<>> /\ currentFrame = 0
    /\ mode = "none" => decoderErrored
    /\ decoderErrored => decoder.queue = <<>>
    /\ mode = "setup" =>
          /\ decoder = Decoding!Fresh("unconfigured") /\ ~requestedIdr /\ decoderAsked = 0
          /\ needsKeyFrame /\ ~hasDescription /\ ~decoderErrored
          /\ currentFrame = 0
    /\ ~decoderErrored /\ mode # "gone" =>
          /\ Len(bufferedUnits) <= arrived
          /\ Numbered(bufferedUnits, arrived)
          /\ mode # "setup" => PipeSound(Decoding!Pipe, arrived - Len(bufferedUnits))

\* A list of numbers that has one more behind it.
LEMMA InOrderAppend ==
    ASSUME NEW q \in Seq(1..MaxUnits), NEW frame \in Nat, NEW k \in Nat, MaxUnits \in Nat,
           InOrder(q, frame, k), frame <= k, k + 1 \in 1..MaxUnits
    PROVE  /\ Append(q, k + 1) \in Seq(1..MaxUnits)
           /\ InOrder(Append(q, k + 1), frame, k + 1)
  <1>1. /\ Append(q, k + 1) \in Seq(1..MaxUnits) /\ Len(Append(q, k + 1)) = Len(q) + 1
        /\ Len(q) \in Nat /\ Append(q, k + 1)[Len(q) + 1] = k + 1
        /\ \A i \in 1..Len(q) : Append(q, k + 1)[i] = q[i] /\ q[i] \in Nat
    OBVIOUS
  <1>2. \A i \in 1..(Len(q) + 1) : i \in 1..Len(q) \/ i = Len(q) + 1
    BY <1>1
  <1> DEFINE r == Append(q, k + 1)
  <1>3. \A i \in 1..Len(r) : r[i] > frame /\ r[i] <= k + 1
    BY <1>1, <1>2 DEF InOrder
  <1>4. ASSUME NEW i \in 1..Len(r), NEW j \in 1..Len(r), i < j
        PROVE  r[i] < r[j]
    <2>1. i \in 1..Len(q)
      BY <1>1, <1>4
    <2>2. CASE j \in 1..Len(q)
      BY <1>1, <1>4, <2>1, <2>2 DEF InOrder
    <2>3. CASE j = Len(q) + 1
      BY <1>1, <2>1, <2>3 DEF InOrder
    <2> QED
      BY <1>1, <1>2, <2>2, <2>3
  <1> QED
    BY <1>1, <1>3, <1>4 DEF InOrder

\* The decoder is given one more unit, or refuses it.
LEMMA DecodeGives ==
    ASSUME DecodingConstants, NEW s \in Pipes, NEW u \in Decoding!Unit,
           NEW k \in Nat, k + 1 = u.n,
           NEW frame \in Nat, frame <= k, InOrder(s.decoder.queue, frame, k),
           ~s.misused, u.key \/ s.last = k,
           s.decoder.state = "configured" => u.key \/ ~s.decoder.needsKey
    PROVE  LET r == Decoding!Decode(s, u) IN
           /\ r \in Pipes /\ ~r.misused
           /\ r.buffered = s.buffered /\ r.requested = s.requested
           /\ r.needsKey = s.needsKey /\ r.described = s.described
           /\ InOrder(r.decoder.queue, frame, k + 1)
           /\ s.decoder.state = "configured" =>
                 ~r.thrown /\ r.decoder.state = "configured" /\ ~r.decoder.needsKey /\ r.last = k + 1
  <1> USE DEF DecodingConstants
  <1> DEFINE no == s.decoder.state # "configured" \/ (s.decoder.needsKey /\ ~u.key)
             hole == s.misused \/ (~u.key /\ s.last # u.n - 1)
             d == [s.decoder EXCEPT !.needsKey = FALSE, !.queue = Append(@, u.n)]
             t == [s EXCEPT !.thrown = no, !.misused = hole,
                            !.last = IF no THEN @ ELSE u.n,
                            !.decoder = IF no THEN @ ELSE d]
  <1>1. Decoding!Decode(s, u) = t
    <2>1. Decoding!Decode(s, u) =
            [s EXCEPT !.thrown = no, !.misused = hole,
                      !.last = IF no THEN s.last ELSE u.n,
                      !.decoder = IF no THEN s.decoder ELSE d]
      BY Zenon DEF Decoding!Decode
    <2> HIDE DEF no, hole, d
    <2> QED
      BY <2>1, Zenon
  <1>2. no \in BOOLEAN /\ hole \in BOOLEAN
    BY Zenon
  <1>3. s.decoder \in Decoders /\ u.n \in 1..MaxUnits /\ u.key \in BOOLEAN /\ s.last \in 0..MaxUnits
    BY DEF Pipes, Decoding!Unit
  <1>4. ~hole
    BY <1>3
  <1>5. (no <=> s.decoder.state # "configured")
    BY <1>3
  <1>6. /\ Append(s.decoder.queue, k + 1) \in Seq(1..MaxUnits)
        /\ InOrder(Append(s.decoder.queue, k + 1), frame, k + 1)
    <2>1. s.decoder.queue \in Seq(1..MaxUnits)
      BY <1>3 DEF Decoders
    <2> QED
      BY <1>3, <2>1, InOrderAppend
  <1>7. d \in Decoders /\ d.state = s.decoder.state /\ ~d.needsKey
        /\ d.queue = Append(s.decoder.queue, k + 1)
    BY <1>3, <1>6 DEF Decoders
  <1>8. InOrder(s.decoder.queue, frame, k + 1)
    <2>1. s.decoder.queue \in Seq(1..MaxUnits)
      BY <1>3 DEF Decoders
    <2>2. \A i \in 1..Len(s.decoder.queue) : s.decoder.queue[i] \in Nat
      BY <2>1
    <2> QED
      BY <2>2 DEF InOrder
  <1> HIDE DEF no, hole, d
  <1>9. CASE no
    <2>1. t = [s EXCEPT !.thrown = no, !.misused = hole]
      BY <1>9 DEF Pipes
    <2>2. t \in Pipes /\ ~t.misused /\ t.decoder = s.decoder
          /\ t.buffered = s.buffered /\ t.requested = s.requested
          /\ t.needsKey = s.needsKey /\ t.described = s.described
      BY <1>2, <1>4, <2>1 DEF Pipes
    <2> HIDE DEF t
    <2> QED
      BY <1>1, <1>5, <1>8, <1>9, <2>2
  <1>10. CASE ~no
    <2>1. t = [s EXCEPT !.thrown = no, !.misused = hole, !.last = u.n, !.decoder = d]
      BY <1>10
    <2>2. t \in Pipes /\ ~t.misused /\ t.decoder = d /\ ~t.thrown /\ t.last = k + 1
          /\ t.buffered = s.buffered /\ t.requested = s.requested
          /\ t.needsKey = s.needsKey /\ t.described = s.described
      <3>1. /\ t \in Pipes /\ t.misused = hole /\ t.decoder = d /\ t.thrown = no /\ t.last = u.n
            /\ t.buffered = s.buffered /\ t.requested = s.requested
            /\ t.needsKey = s.needsKey /\ t.described = s.described
        <4>1. u.n \in 0..MaxUnits /\ d \in Decoders
          BY <1>3, <1>7
        <4> HIDE DEF t
        <4> QED
          BY <1>2, <2>1, <4>1 DEF Pipes
      <3> HIDE DEF t
      <3> QED
        BY <1>4, <1>10, <3>1
    <2> HIDE DEF t
    <2> QED
      BY <1>1, <1>5, <1>6, <1>7, <1>10, <2>2
  <1> QED
    BY <1>9, <1>10

\* A decoder that is configured anew waits for a key frame and has nothing to decode.
LEMMA ConfiguredIs ==
    ASSUME DecodingConstants, NEW s \in Pipes
    PROVE  LET r == Decoding!Configured(s) IN
           /\ r \in Pipes /\ r = [s EXCEPT !.decoder = r.decoder, !.last = 0]
           /\ r.decoder = Decoding!Fresh("configured") /\ r.decoder \in Decoders
           /\ r.decoder.state = "configured" /\ r.decoder.needsKey /\ r.decoder.queue = <<>>
           /\ r.last = 0
           /\ r.misused = s.misused /\ r.thrown = s.thrown /\ r.buffered = s.buffered
           /\ r.requested = s.requested /\ r.needsKey = s.needsKey /\ r.described = s.described
  <1>1. <<>> \in Seq(1..MaxUnits)
    OBVIOUS
  <1>2. /\ Decoding!Fresh("configured") \in Decoders
        /\ Decoding!Fresh("configured").state = "configured"
        /\ Decoding!Fresh("configured").needsKey
        /\ Decoding!Fresh("configured").queue = <<>>
    BY <1>1 DEF Decoding!Fresh, Decoders
  <1>3. Decoding!Configured(s) = [s EXCEPT !.decoder = Decoding!Fresh("configured"), !.last = 0]
    BY DEF Decoding!Configured
  <1> QED
    <2> DEFINE d == Decoding!Fresh("configured")
               t == [s EXCEPT !.decoder = d, !.last = 0]
    <2>1. d \in Decoders
      BY <1>2
    <2> HIDE DEF d
    <2>5. t = [s EXCEPT !.decoder = d, !.last = 0]
      OBVIOUS
    <2>6. Decoding!Configured(s) = t
      BY <1>3 DEF d
    <2> HIDE DEF t
    <2>2. /\ t \in Pipes /\ t.decoder = d /\ t.last = 0
          /\ t.misused = s.misused /\ t.thrown = s.thrown /\ t.buffered = s.buffered
          /\ t.requested = s.requested /\ t.needsKey = s.needsKey /\ t.described = s.described
      <3>1. 0 \in 0..MaxUnits
        BY DEF DecodingConstants
      <3>2. t \in Pipes
        BY <2>1, <2>5, <3>1 DEF Pipes
      <3>3. /\ t.decoder = d /\ t.last = 0
            /\ t.misused = s.misused /\ t.thrown = s.thrown /\ t.buffered = s.buffered
        BY <2>5 DEF Pipes
      <3>4. t.requested = s.requested /\ t.needsKey = s.needsKey /\ t.described = s.described
        BY <2>5 DEF Pipes
      <3> QED
        BY <3>2, <3>3, <3>4
    <2>4. t = [s EXCEPT !.decoder = t.decoder, !.last = 0]
      BY <2>2, <2>5
    <2> QED
      BY <1>2, <2>1, <2>2, <2>4, <2>6 DEF d

\* Nothing waits in a queue that is empty.
LEMMA InOrderEmpty == ASSUME NEW frame, NEW k PROVE InOrder(<<>>, frame, k)
  BY DEF InOrder

\* A unit that is submitted leaves the pipe sound, whether it is decoded, dropped or refused.
LEMMA SubmitKeeps ==
    ASSUME DecodingConstants, NEW s \in Pipes, NEW u \in Decoding!Unit,
           NEW k \in Nat, k + 1 = u.n, u.sets => u.key,
           NEW frame \in Nat, frame <= k, InOrder(s.decoder.queue, frame, k), PipeSound(s, k)
    PROVE  LET r == Decoding!Submit(s, u) IN
           /\ r \in Pipes /\ PipeSound(r, k + 1) /\ InOrder(r.decoder.queue, frame, k + 1)
           /\ r.buffered = s.buffered
           /\ ~u.key /\ s.requested => r.requested
  <1> USE DEF DecodingConstants
  <1>0. /\ s.decoder.queue \in Seq(1..MaxUnits) /\ u.key \in BOOLEAN /\ u.sets \in BOOLEAN
        /\ InOrder(s.decoder.queue, frame, k + 1)
    <2>1. s.decoder.queue \in Seq(1..MaxUnits) /\ u.key \in BOOLEAN /\ u.sets \in BOOLEAN
      BY DEF Pipes, Decoders, Decoding!Unit
    <2>2. \A i \in 1..Len(s.decoder.queue) : s.decoder.queue[i] \in Nat
      BY <2>1
    <2> QED
      BY <2>1, <2>2 DEF InOrder
  <1>1. CASE mode = "translated"
    <2>0. ~s.misused /\ TranslatedSound(s, k)
      BY <1>1 DEF PipeSound
    <2>1. CASE s.thrown \/ (~u.key /\ ~s.described)
      <3>1. Decoding!Submit(s, u) = s
        BY <1>1, <2>1 DEF Decoding!Submit, Decoding!SubmitTranslated
      <3>2. ~s.described
        BY <2>0, <2>1 DEF TranslatedSound
      <3> QED
        BY <1>0, <1>1, <2>0, <3>1, <3>2 DEF PipeSound, TranslatedSound
    <2>2. CASE ~s.thrown /\ ~(~u.key /\ ~s.described) /\ ~u.sets
      <3>1. Decoding!Submit(s, u) = Decoding!Decode(s, u)
        BY <1>1, <2>2 DEF Decoding!Submit, Decoding!SubmitTranslated
      <3>2. /\ u.key \/ s.last = k
            /\ s.decoder.state = "configured" => u.key \/ ~s.decoder.needsKey
        BY <2>0, <2>2 DEF TranslatedSound
      <3> DEFINE r == Decoding!Decode(s, u)
      <3>3. /\ r \in Pipes /\ ~r.misused
            /\ r.buffered = s.buffered /\ r.requested = s.requested
            /\ r.described = s.described
            /\ InOrder(r.decoder.queue, frame, k + 1)
            /\ s.decoder.state = "configured" =>
                 ~r.thrown /\ r.decoder.state = "configured" /\ ~r.decoder.needsKey /\ r.last = k + 1
        BY <2>0, <3>2, DecodeGives
      <3> HIDE DEF r
      <3>4. TranslatedSound(r, k + 1)
        BY <2>0, <3>3 DEF TranslatedSound
      <3> QED
        BY <1>1, <3>1, <3>3, <3>4 DEF PipeSound, r
    <2>3. CASE ~s.thrown /\ u.sets
      <3> DEFINE c == Decoding!Configured(s)
                 t == [c EXCEPT !.described = TRUE, !.requested = FALSE]
                 r == Decoding!Decode(t, u)
      <3>1. Decoding!Submit(s, u) = r
        BY <1>1, <2>3 DEF Decoding!Submit, Decoding!SubmitTranslated
      <3>2. /\ c \in Pipes /\ c.decoder.state = "configured" /\ c.decoder.queue = <<>>
            /\ c.misused = s.misused /\ c.buffered = s.buffered
        BY ConfiguredIs
      <3> HIDE DEF c
      <3>3. /\ t \in Pipes /\ t.decoder.state = "configured" /\ t.decoder.queue = <<>>
            /\ ~t.misused /\ t.buffered = s.buffered /\ t.described
        BY <2>0, <3>2 DEF Pipes
      <3> HIDE DEF t
      <3>4. InOrder(t.decoder.queue, frame, k)
        BY <3>3, InOrderEmpty
      <3>5. /\ r \in Pipes /\ ~r.misused /\ r.buffered = s.buffered /\ r.described
            /\ InOrder(r.decoder.queue, frame, k + 1)
            /\ ~r.thrown /\ r.decoder.state = "configured" /\ ~r.decoder.needsKey /\ r.last = k + 1
        BY <2>3, <3>3, <3>4, DecodeGives
      <3> HIDE DEF r
      <3> QED
        BY <1>1, <2>3, <3>1, <3>5 DEF PipeSound, TranslatedSound
    <2> QED
      BY <2>1, <2>2, <2>3
  <1>2. CASE mode # "translated"
    <2>0. ~s.misused /\ InBandSound(s, k)
      BY <1>2 DEF PipeSound
    <2>1. CASE ~u.key /\ s.needsKey
      <3>1. Decoding!Submit(s, u) = s
        BY <1>2, <2>1 DEF Decoding!Submit, Decoding!SubmitInBand
      <3> QED
        BY <1>0, <1>2, <2>0, <2>1, <3>1 DEF PipeSound, InBandSound
    <2>2. CASE ~(~u.key /\ s.needsKey)
      <3> DEFINE t == [s EXCEPT !.needsKey = FALSE, !.requested = FALSE]
                 r == Decoding!Decode(t, u)
      <3>1. Decoding!Submit(s, u) = r
        BY <1>2, <2>0, <2>2 DEF Decoding!Submit, Decoding!SubmitInBand, InBandSound
      <3>2. /\ t \in Pipes /\ t.decoder = s.decoder /\ t.last = s.last /\ ~t.misused
            /\ t.buffered = s.buffered /\ ~t.needsKey /\ ~t.requested
        BY <2>0 DEF Pipes
      <3> HIDE DEF t
      <3>3. /\ u.key \/ t.last = k
            /\ t.decoder.state = "configured" /\ (u.key \/ ~t.decoder.needsKey)
        BY <2>0, <2>2, <3>2 DEF InBandSound
      <3>4. /\ r \in Pipes /\ ~r.misused /\ r.buffered = s.buffered
            /\ ~r.requested /\ ~r.needsKey
            /\ InOrder(r.decoder.queue, frame, k + 1)
            /\ ~r.thrown /\ r.decoder.state = "configured" /\ ~r.decoder.needsKey /\ r.last = k + 1
        BY <3>2, <3>3, DecodeGives
      <3> HIDE DEF r
      <3>5. InBandSound(r, k + 1)
        BY <3>4 DEF InBandSound
      <3>6. ~u.key /\ s.requested => FALSE
        BY <2>0, <2>2 DEF InBandSound
      <3> QED
        BY <1>2, <3>1, <3>4, <3>5, <3>6 DEF PipeSound
    <2> QED
      BY <2>1, <2>2
  <1> QED
    BY <1>1, <1>2

\* So do all the units that waited, one after the other.
LEMMA FoldKeeps ==
    ASSUME DecodingConstants, NEW s \in Pipes, NEW units \in Seq(Decoding!Unit),
           NEW a \in Nat, Numbered(units, a + Len(units)),
           NEW frame \in Nat, frame <= a, InOrder(s.decoder.queue, frame, a), PipeSound(s, a)
    PROVE  LET r == Decoding!FoldLeft(Decoding!Submit, s, units) IN
           /\ r \in Pipes /\ PipeSound(r, a + Len(units))
           /\ InOrder(r.decoder.queue, frame, a + Len(units))
           /\ r.buffered = s.buffered
           /\ Len(units) = 1 /\ ~units[1].key /\ s.requested => r.requested
  <1> DEFINE n == Len(units)
  <1>1. n \in Nat
    OBVIOUS
  <1>2. PICK f : /\ f[0] = s
                 /\ \A k \in 1..n : f[k] = Decoding!Submit(f[k - 1], units[k])
                 /\ Decoding!FoldLeft(Decoding!Submit, s, units) = f[n]
    BY FoldSteps
  <1> DEFINE Good(k) == /\ f[k] \in Pipes /\ PipeSound(f[k], a + k)
                        /\ InOrder(f[k].decoder.queue, frame, a + k)
                        /\ f[k].buffered = s.buffered
             Bad == {k \in 0..n : ~Good(k)}
  <1>3. \A k \in 1..n : /\ units[k] \in Decoding!Unit /\ units[k].n = a + k
                        /\ units[k].sets => units[k].key
    <2>1. \A k \in 1..n : /\ units[k].n = (a + n) - n + k /\ (units[k].sets => units[k].key)
      BY DEF Numbered
    <2>2. \A k \in 1..n : units[k] \in Decoding!Unit
      OBVIOUS
    <2> QED
      BY <1>1, <2>1, <2>2
  <1> HIDE DEF n
  <1>4. Good(0)
    BY <1>2
  <1>5. ASSUME NEW m \in 1..n, Good(m - 1)
        PROVE  /\ Good(m)
               /\ ~units[m].key /\ f[m - 1].requested => f[m].requested
    <2>1. /\ f[m] = Decoding!Submit(f[m - 1], units[m]) /\ units[m] \in Decoding!Unit
          /\ units[m].n = a + m /\ (units[m].sets => units[m].key)
      BY <1>2, <1>3
    <2> DEFINE k == a + (m - 1)
    <2>2. k \in Nat /\ k + 1 = units[m].n /\ k + 1 = a + m /\ frame <= k
      BY <1>1, <2>1
    <2>3. /\ f[m - 1] \in Pipes /\ PipeSound(f[m - 1], k)
          /\ InOrder(f[m - 1].decoder.queue, frame, k) /\ f[m - 1].buffered = s.buffered
      BY <1>5
    <2> HIDE DEF k, Good
    <2>4. /\ f[m] \in Pipes /\ PipeSound(f[m], k + 1)
          /\ InOrder(f[m].decoder.queue, frame, k + 1)
          /\ f[m].buffered = f[m - 1].buffered
          /\ ~units[m].key /\ f[m - 1].requested => f[m].requested
      BY <2>1, <2>2, <2>3, SubmitKeeps
    <2> QED
      BY <2>2, <2>3, <2>4 DEF Good
  <1> HIDE DEF Good
  <1>6. ASSUME Bad # {}
        PROVE  FALSE
    <2>1. Bad \in SUBSET Nat
      BY <1>1
    <2>2. PICK m \in Bad : \A k \in Bad : m <= k
      BY <1>6, <2>1, Least, Zenon
    <2>3. m \in 0..n /\ ~Good(m)
      BY <2>2
    <2>4. m # 0
      BY <1>4, <2>3
    <2>5. m \in 1..n /\ m - 1 \in 0..n /\ ~(m <= m - 1)
      BY <1>1, <2>3, <2>4
    <2>6. Good(m - 1)
      BY <2>2, <2>5
    <2> QED
      BY <1>5, <2>3, <2>5, <2>6
  <1>7. Good(n)
    BY <1>1, <1>6
  <1>8. n = 1 /\ ~units[1].key /\ s.requested => f[n].requested
    <2>1. n = 1 => 1 \in 1..n /\ Good(1 - 1) /\ f[1 - 1] = s
      BY <1>2, <1>4
    <2> QED
      BY <1>5, <2>1
  <1> QED
    BY <1>2, <1>7, <1>8 DEF Good, n

\* The pipe has the state of a pipe.
LEMMA PipeIs ==
    ASSUME DecodingConstants, DecodingInv
    PROVE  /\ Decoding!Pipe \in Pipes
           /\ Decoding!Pipe.buffered = bufferedUnits /\ Decoding!Pipe.requested = requestedIdr
           /\ Decoding!Pipe.needsKey = needsKeyFrame /\ Decoding!Pipe.described = hasDescription
           /\ Decoding!Pipe.decoder = decoder /\ Decoding!Pipe.last = last
           /\ Decoding!Pipe.misused = misused /\ Decoding!Pipe.thrown = FALSE
  <1>1. /\ bufferedUnits \in Seq(Decoding!Unit) /\ requestedIdr \in BOOLEAN
        /\ needsKeyFrame \in BOOLEAN /\ hasDescription \in BOOLEAN /\ decoder \in Decoders
        /\ last \in 0..MaxUnits /\ misused \in BOOLEAN
    BY DEF DecodingInv, Decoding!TypeOK
  <1> QED
    BY <1>1 DEF Pipes, Decoding!Pipe

\* Nothing has come at the start.
LEMMA DecodingInit ==
    ASSUME DecodingConstants, Decoding!Init
    PROVE  DecodingInv
  <1>1. /\ decoderErrored \in BOOLEAN /\ misused \in BOOLEAN /\ requestedIdr \in BOOLEAN
        /\ needsKeyFrame \in BOOLEAN /\ hasDescription \in BOOLEAN
        /\ ~decoderErrored /\ ~misused /\ ~requestedIdr /\ needsKeyFrame /\ ~hasDescription
    BY Zenon DEF Decoding!Init
  <1>2. /\ mode = "setup" /\ bufferedUnits = <<>> /\ decoder = Decoding!Fresh("unconfigured")
        /\ last = 0 /\ currentFrame = 0 /\ open = {} /\ arrived = 0 /\ decoderAsked = 0
    BY DEF Decoding!Init
  <1>3. /\ decoder \in Decoders /\ decoder.queue = <<>>
        /\ decoder.state = "unconfigured" /\ decoder.needsKey
    <2>1. <<>> \in Seq(1..MaxUnits)
      OBVIOUS
    <2> QED
      BY <1>2, <2>1 DEF Decoders, Decoding!Fresh
  <1>4. bufferedUnits \in Seq(Decoding!Unit) /\ decoder.queue \in Seq(1..MaxUnits)
        /\ Len(bufferedUnits) = 0
    <2>1. <<>> \in Seq(Decoding!Unit) /\ <<>> \in Seq(1..MaxUnits) /\ Len(<<>>) = 0
      OBVIOUS
    <2> QED
      BY <1>2, <1>3, <2>1, Zenon
  <1>5. Decoding!TypeOK
    <2>1. /\ 0 \in 0..MaxUnits /\ {} \subseteq 1..MaxUnits
          /\ "setup" \in {"setup", "inBand", "translated", "none", "gone"}
          /\ "unconfigured" \in {"unconfigured", "configured", "closed"} /\ TRUE \in BOOLEAN
      BY DEF DecodingConstants
    <2>2. decoder.needsKey \in BOOLEAN
      BY <1>3 DEF Decoders
    <2> QED
      BY <1>1, <1>2, <1>3, <1>4, <2>1, <2>2, Zenon DEF Decoding!TypeOK
  <1>6. InOrder(decoder.queue, currentFrame, arrived) /\ Numbered(bufferedUnits, arrived)
    BY <1>2, <1>3, <1>4, InOrderEmpty DEF Numbered
  <1> QED
    BY <1>1, <1>2, <1>3, <1>4, <1>5, <1>6 DEF DecodingInv, Decoding!DeltasContinue,
       Decoding!OneKeyFrameAsked

\* What the invariant says of the numbers and the pipe, for the proofs that follow.
LEMMA DecodingTypes ==
    ASSUME DecodingConstants, DecodingInv
    PROVE  /\ mode \in {"setup", "inBand", "translated", "none", "gone"}
           /\ decoderErrored \in BOOLEAN /\ misused \in BOOLEAN /\ ~misused
           /\ bufferedUnits \in Seq(Decoding!Unit) /\ Len(bufferedUnits) \in Nat
           /\ requestedIdr \in BOOLEAN /\ needsKeyFrame \in BOOLEAN /\ hasDescription \in BOOLEAN
           /\ decoder \in Decoders /\ decoder.queue \in Seq(1..MaxUnits)
           /\ decoder.state \in {"unconfigured", "configured", "closed"}
           /\ decoder.needsKey \in BOOLEAN
           /\ last \in 0..MaxUnits /\ currentFrame \in 0..MaxUnits
           /\ open \subseteq 1..MaxUnits /\ open \subseteq {currentFrame}
           /\ arrived \in 0..MaxUnits /\ decoderAsked \in {0, 1}
           /\ currentFrame <= arrived /\ InOrder(decoder.queue, currentFrame, arrived)
           /\ MaxUnits \in Nat /\ Backlog \in Nat
  <1>1. DecodingInv
    OBVIOUS
  <1> QED
    BY <1>1 DEF DecodingConstants, DecodingInv, Decoding!TypeOK, Decoding!DeltasContinue,
       Decoding!OneKeyFrameAsked

\* A decoder that is closed or not configured has nothing to decode.
LEMMA FreshIs ==
    ASSUME NEW how \in {"unconfigured", "configured", "closed"}
    PROVE  /\ Decoding!Fresh(how) \in Decoders
           /\ Decoding!Fresh(how).queue = <<>> /\ Decoding!Fresh(how).needsKey
           /\ Decoding!Fresh(how).state = how
  <1>1. <<>> \in Seq(1..MaxUnits)
    OBVIOUS
  <1> QED
    BY <1>1 DEF Decoding!Fresh, Decoders

\* When the setup is over nothing was decoded yet.
LEMMA SetupFinishedKeeps ==
    ASSUME DecodingConstants, DecodingInv, NEW m \in {"inBand", "translated", "none"},
           Decoding!SetupFinished(m)
    PROVE  DecodingInv'
  <1>1. /\ mode = "setup" /\ mode' = m
        /\ decoder' = IF m = "inBand" THEN Decoding!Fresh("configured") ELSE decoder
        /\ UNCHANGED <<bufferedUnits, requestedIdr, needsKeyFrame, hasDescription, last,
                       currentFrame, open, arrived, decoderAsked, misused>>
    BY DEF Decoding!SetupFinished, Decoding!pipe
  <1>2. /\ decoder = Decoding!Fresh("unconfigured") /\ ~requestedIdr /\ decoderAsked = 0
        /\ needsKeyFrame /\ ~hasDescription /\ ~decoderErrored /\ currentFrame = 0
        /\ Len(bufferedUnits) <= arrived /\ Numbered(bufferedUnits, arrived)
    BY <1>1 DEF DecodingInv
  <1>3. /\ decoderErrored' \in BOOLEAN
        /\ (decoderErrored' <=> m = "none")
    BY <1>2, Zenon DEF Decoding!SetupFinished
  <1>4. /\ decoder' \in Decoders /\ decoder'.queue = <<>>
        /\ m = "inBand" => decoder'.state = "configured"
    BY <1>1, <1>2, FreshIs
  <1>5. decoder'.queue \in Seq(1..MaxUnits) /\ decoder'.needsKey \in BOOLEAN
        /\ decoder'.state \in {"unconfigured", "configured", "closed"}
    BY <1>4 DEF Decoders
  <1>6. Decoding!TypeOK'
    <2>1. Decoding!TypeOK /\ mode' \in {"setup", "inBand", "translated", "none", "gone"}
      BY <1>1 DEF DecodingInv
    <2> QED
      BY <1>1, <1>3, <1>5, <2>1, Zenon DEF Decoding!TypeOK
  <1>7. InOrder(decoder'.queue, currentFrame', arrived')
    BY <1>4, InOrderEmpty
  <1>8. m # "none" => PipeSound(Decoding!Pipe, arrived - Len(bufferedUnits))'
    <2>1. /\ Decoding!Pipe'.thrown = FALSE /\ Decoding!Pipe'.decoder = decoder'
          /\ Decoding!Pipe'.needsKey = needsKeyFrame /\ Decoding!Pipe'.requested = requestedIdr
          /\ Decoding!Pipe'.described = hasDescription /\ Decoding!Pipe'.misused = misused
      BY <1>1 DEF Decoding!Pipe
    <2>2. ~misused
      BY DecodingTypes
    <2> QED
      BY <1>1, <1>2, <1>4, <2>1, <2>2 DEF PipeSound, InBandSound, TranslatedSound
  <1> QED
    BY <1>1, <1>2, <1>3, <1>4, <1>6, <1>7, <1>8, DecodingTypes DEF DecodingInv,
       Decoding!DeltasContinue, Decoding!OneKeyFrameAsked

\* A picture that is decoded is the one after which the rest comes.
LEMMA OutputKeeps ==
    ASSUME DecodingConstants, DecodingInv, Decoding!Output
    PROVE  DecodingInv'
  <1> DEFINE q == decoder.queue
  <1>1. /\ q # <<>> /\ decoder' = [decoder EXCEPT !.queue = Tail(q)]
        /\ currentFrame' = Head(q) /\ open' = Decoding!CloseCurrent(open) \cup {Head(q)}
        /\ UNCHANGED <<mode, decoderErrored, bufferedUnits, requestedIdr, needsKeyFrame,
                       hasDescription, last, arrived, decoderAsked, misused>>
    BY DEF Decoding!Output, Decoding!pipe
  <1>2. q \in Seq(1..MaxUnits) /\ open \subseteq {currentFrame} /\ arrived \in Nat
        /\ InOrder(q, currentFrame, arrived) /\ decoder \in Decoders
    BY DecodingTypes
  <1>3. /\ decoder' \in Decoders /\ decoder'.queue = Tail(q) /\ Tail(q) \in Seq(1..MaxUnits)
        /\ decoder'.state = decoder.state /\ decoder'.needsKey = decoder.needsKey
    <2>0. q \in Seq(1..MaxUnits) /\ q # <<>>
      BY <1>1, <1>2, Zenon
    <2> HIDE DEF q
    <2>1. Tail(q) \in Seq(1..MaxUnits)
      BY <2>0
    <2> QED
      BY <1>1, <1>2, <2>1 DEF Decoders
  <1>4. /\ Head(q) = q[1] /\ Len(q) \in Nat /\ Len(q) > 0 /\ Len(Tail(q)) = Len(q) - 1
        /\ \A i \in 1..(Len(q) - 1) : Tail(q)[i] = q[i + 1]
        /\ \A i \in 1..Len(q) : q[i] \in 1..MaxUnits
    <2>0. q \in Seq(1..MaxUnits) /\ q # <<>>
      BY <1>1, <1>2, Zenon
    <2> HIDE DEF q
    <2> QED
      BY <2>0, Taken
  <1> HIDE DEF q
  <1>5. /\ Head(q) \in 1..MaxUnits /\ Head(q) <= arrived
        /\ InOrder(Tail(q), Head(q), arrived)
    <2>1. 1 \in 1..Len(q) /\ \A i \in 1..(Len(q) - 1) : i + 1 \in 1..Len(q) /\ 1 < i + 1
      BY <1>4
    <2>2. \A i, j \in 1..(Len(q) - 1) : i < j => i + 1 < j + 1
      BY <1>4
    <2> QED
      BY <1>2, <1>4, <2>1, <2>2 DEF InOrder
  <1>6. open' = {Head(q)}
    BY <1>1, <1>2 DEF Decoding!CloseCurrent
  <1>7. Decoding!TypeOK'
    <2>1. decoder'.state \in {"unconfigured", "configured", "closed"}
          /\ decoder'.needsKey \in BOOLEAN
      BY <1>3 DEF Decoders
    <2> QED
      BY <1>1, <1>3, <1>5, <1>6, <2>1, DecodingTypes DEF Decoding!TypeOK
  <1>8. mode # "setup" /\ bufferedUnits = <<>> /\ ~decoderErrored
    <2>1. mode = "setup" => q = <<>>
      BY FreshIs DEF DecodingInv, q
    <2> QED
      BY <1>1, <2>1 DEF DecodingInv, q
  <1>9. mode # "gone" => PipeSound(Decoding!Pipe, arrived - Len(bufferedUnits))'
    <2>1. mode # "gone" => PipeSound(Decoding!Pipe, arrived - Len(bufferedUnits))
      BY <1>8 DEF DecodingInv
    <2>2. /\ Decoding!Pipe'.thrown = FALSE /\ Decoding!Pipe'.decoder = decoder'
          /\ Decoding!Pipe'.needsKey = needsKeyFrame /\ Decoding!Pipe'.requested = requestedIdr
          /\ Decoding!Pipe'.described = hasDescription /\ Decoding!Pipe'.misused = misused
          /\ Decoding!Pipe'.last = last
      BY <1>1 DEF Decoding!Pipe
    <2> QED
      BY <1>1, <1>3, <2>1, <2>2, PipeIs DEF PipeSound, InBandSound, TranslatedSound
  <1>10. InOrder(decoder'.queue, currentFrame', arrived')
    BY <1>1, <1>3, <1>5
  <1> QED
    BY <1>1, <1>3, <1>5, <1>6, <1>7, <1>8, <1>9, <1>10, DecodingTypes DEF DecodingInv,
       Decoding!DeltasContinue, Decoding!OneKeyFrameAsked

\* A decoder that gave up or was closed has nothing more to decode.
LEMMA StopKeeps ==
    ASSUME DecodingConstants, DecodingInv, Decoding!DecoderError \/ Decoding!Cleanup
    PROVE  DecodingInv'
  <1>1. /\ decoder' = Decoding!Fresh("closed")
        /\ UNCHANGED <<bufferedUnits, requestedIdr, needsKeyFrame, hasDescription, last,
                       currentFrame, open, arrived, decoderAsked, misused>>
    BY DEF Decoding!DecoderError, Decoding!Cleanup, Decoding!pipe
  <1>2. /\ decoder' \in Decoders /\ decoder'.queue = <<>> /\ decoder'.needsKey \in BOOLEAN
        /\ decoder'.state \in {"unconfigured", "configured", "closed"}
        /\ decoder'.queue \in Seq(1..MaxUnits)
    <2>1. <<>> \in Seq(1..MaxUnits)
      OBVIOUS
    <2> QED
      BY <1>1, <2>1, FreshIs
  <1>3. /\ decoderErrored' \in BOOLEAN
        /\ mode' \in {"setup", "inBand", "translated", "none", "gone"}
        /\ (decoderErrored' /\ mode' = mode /\ mode # "setup")
           \/ (decoderErrored' = decoderErrored /\ mode' = "gone")
    <2>1. CASE Decoding!DecoderError
      <3>1. decoderErrored' = TRUE /\ mode' = mode /\ decoder.state = "configured"
        BY <2>1 DEF Decoding!DecoderError
      <3>2. mode = "setup" => decoder.state = "unconfigured"
        BY FreshIs DEF DecodingInv
      <3> QED
        BY <3>1, <3>2, DecodingTypes
    <2>2. CASE Decoding!Cleanup
      BY <2>2, DecodingTypes DEF Decoding!Cleanup
    <2> QED
      BY <2>1, <2>2
  <1>4. Decoding!TypeOK'
    <2>1. Decoding!TypeOK
      BY DEF DecodingInv
    <2> QED
      BY <1>1, <1>2, <1>3, <2>1, Zenon DEF Decoding!TypeOK
  <1>5. InOrder(decoder'.queue, currentFrame', arrived')
    BY <1>2, InOrderEmpty
  <1>6. mode' = "none" => decoderErrored'
    BY <1>3 DEF DecodingInv
  <1>7. /\ Decoding!DeltasContinue' /\ Decoding!OneKeyFrameAsked'
        /\ open' \subseteq {currentFrame'} /\ currentFrame' <= arrived'
        /\ decoderAsked' = 1 => requestedIdr'
        /\ bufferedUnits' # <<>> => decoderAsked' = 0 /\ ~requestedIdr' /\ currentFrame' = 0
    BY <1>1 DEF DecodingInv, Decoding!DeltasContinue, Decoding!OneKeyFrameAsked
  <1>8. mode' # "setup" /\ ~(~decoderErrored' /\ mode' # "gone")
    BY <1>3
  <1> QED
    BY <1>2, <1>4, <1>5, <1>6, <1>7, <1>8 DEF DecodingInv

\* Asking for a key frame empties a decoder that finds its parameters in the stream.
LEMMA PollKeeps ==
    ASSUME DecodingConstants, NEW s \in Pipes, NEW k \in Nat, PipeSound(s, k),
           NEW frame \in Nat, InOrder(s.decoder.queue, frame, k)
    PROVE  LET r == IF s.thrown THEN s ELSE Decoding!Poll(s) IN
           /\ r \in Pipes /\ PipeSound(r, k) /\ InOrder(r.decoder.queue, frame, k)
           /\ r.buffered = s.buffered
           /\ ~s.thrown /\ Decoding!Asks(s) => r.requested
           /\ ~(~s.thrown /\ Decoding!Asks(s)) => r = s
  <1> DEFINE r == IF s.thrown THEN s ELSE Decoding!Poll(s)
  <1> SUFFICES /\ r \in Pipes /\ PipeSound(r, k) /\ InOrder(r.decoder.queue, frame, k)
               /\ r.buffered = s.buffered
               /\ ~s.thrown /\ Decoding!Asks(s) => r.requested
               /\ ~(~s.thrown /\ Decoding!Asks(s)) => r = s
    BY Zenon
  <1> HIDE DEF r
  <1>1. CASE s.thrown \/ ~Decoding!Asks(s)
    <2>1. r = s
      BY <1>1 DEF Decoding!Poll, r
    <2> QED
      BY <1>1, <2>1
  <1>2. CASE ~s.thrown /\ Decoding!Asks(s) /\ mode = "translated"
    <2>1. r = [s EXCEPT !.requested = TRUE]
      BY <1>2 DEF Decoding!Poll, Decoding!Reset, r
    <2>2. /\ r \in Pipes /\ r.requested /\ r.decoder = s.decoder /\ r.buffered = s.buffered
          /\ r.misused = s.misused /\ r.described = s.described /\ r.thrown = s.thrown
          /\ r.last = s.last
      BY <2>1 DEF Pipes
    <2> QED
      BY <1>2, <2>2 DEF PipeSound, TranslatedSound
  <1>3. CASE ~s.thrown /\ Decoding!Asks(s) /\ mode # "translated"
    <2> DEFINE c == Decoding!Configured(s)
    <2>1. r = [[c EXCEPT !.needsKey = TRUE] EXCEPT !.requested = TRUE]
      BY <1>3 DEF Decoding!Poll, Decoding!Reset, r
    <2>2. /\ c \in Pipes /\ c.decoder.queue = <<>> /\ c.decoder.state = "configured"
          /\ c.misused = s.misused /\ c.thrown = s.thrown /\ c.buffered = s.buffered
      BY ConfiguredIs
    <2> HIDE DEF c
    <2>3. /\ r \in Pipes /\ r.requested /\ r.needsKey /\ r.decoder = c.decoder
          /\ r.misused = c.misused /\ r.thrown = c.thrown /\ r.buffered = c.buffered
      <3> DEFINE d == [c EXCEPT !.needsKey = TRUE]
      <3>1. d \in Pipes /\ d.needsKey /\ d.decoder = c.decoder
            /\ d.misused = c.misused /\ d.thrown = c.thrown /\ d.buffered = c.buffered
        BY <2>2 DEF Pipes
      <3>2. r = [d EXCEPT !.requested = TRUE]
        BY <2>1
      <3> HIDE DEF d
      <3> QED
        BY <3>1, <3>2 DEF Pipes
    <2>4. InOrder(r.decoder.queue, frame, k)
      BY <2>2, <2>3, InOrderEmpty
    <2>5. PipeSound(r, k)
      BY <1>3, <2>2, <2>3 DEF PipeSound, InBandSound
    <2> QED
      BY <1>3, <2>2, <2>3, <2>4, <2>5
  <1> QED
    BY <1>1, <1>2, <1>3

\* What the state is when the pipe has become r.
LEMMA BecomesIs ==
    ASSUME NEW r \in Pipes, Decoding!Becomes(r)
    PROVE  /\ bufferedUnits' = r.buffered /\ decoder' = r.decoder /\ last' = r.last
           /\ bufferedUnits' \in Seq(Decoding!Unit) /\ last' \in 0..MaxUnits
           /\ decoder' \in Decoders /\ decoder'.queue \in Seq(1..MaxUnits)
           /\ decoder'.state \in {"unconfigured", "configured", "closed"}
           /\ decoder'.needsKey \in BOOLEAN
           /\ requestedIdr' \in BOOLEAN /\ needsKeyFrame' \in BOOLEAN
           /\ hasDescription' \in BOOLEAN /\ misused' \in BOOLEAN
           /\ requestedIdr' = r.requested /\ needsKeyFrame' = r.needsKey
           /\ hasDescription' = r.described /\ misused' = r.misused
  <1>1. /\ r.buffered \in Seq(Decoding!Unit) /\ r.requested \in BOOLEAN /\ r.needsKey \in BOOLEAN
        /\ r.described \in BOOLEAN /\ r.decoder \in Decoders /\ r.last \in 0..MaxUnits
        /\ r.misused \in BOOLEAN
    BY DEF Pipes
  <1>2. /\ bufferedUnits' = r.buffered /\ decoder' = r.decoder /\ last' = r.last
        /\ requestedIdr' = r.requested /\ needsKeyFrame' = r.needsKey
        /\ hasDescription' = r.described /\ misused' = r.misused
    BY Zenon DEF Decoding!Becomes
  <1>3. decoder' \in Decoders
    BY <1>1, <1>2, Zenon
  <1>4. /\ decoder'.queue \in Seq(1..MaxUnits)
        /\ decoder'.state \in {"unconfigured", "configured", "closed"}
        /\ decoder'.needsKey \in BOOLEAN
    BY <1>3 DEF Decoders
  <1> QED
    BY <1>1, <1>2, <1>3, <1>4, Zenon

\* The pipe is as sound as r is, when its state has become r.
LEMMA SoundIs ==
    ASSUME NEW r \in Pipes, Decoding!Becomes(r), UNCHANGED mode,
           PipeSound(r, arrived' - Len(bufferedUnits'))
    PROVE  PipeSound(Decoding!Pipe, arrived - Len(bufferedUnits))'
  <1>1. /\ decoder' = r.decoder /\ last' = r.last
        /\ requestedIdr' = r.requested /\ needsKeyFrame' = r.needsKey
        /\ hasDescription' = r.described /\ misused' = r.misused
    BY BecomesIs
  <1>2. /\ Decoding!Pipe'.thrown = FALSE /\ Decoding!Pipe'.decoder = r.decoder
        /\ Decoding!Pipe'.needsKey = r.needsKey /\ Decoding!Pipe'.requested = r.requested
        /\ Decoding!Pipe'.described = r.described /\ Decoding!Pipe'.misused = r.misused
        /\ Decoding!Pipe'.last = r.last
    BY <1>1 DEF Decoding!Pipe
  <1> QED
    BY <1>2 DEF PipeSound, InBandSound, TranslatedSound

\* The units that wait have one more behind them.
LEMMA NumberedAppend ==
    ASSUME NEW units \in Seq(Decoding!Unit), NEW k \in Nat, Numbered(units, k),
           NEW u \in Decoding!Unit, u.n = k + 1, u.sets => u.key
    PROVE  /\ Append(units, u) \in Seq(Decoding!Unit) /\ Len(Append(units, u)) = Len(units) + 1
           /\ Len(units) \in Nat /\ Append(units, u) # <<>> /\ Append(units, u)[Len(units) + 1] = u
           /\ Numbered(Append(units, u), k + 1)
  <1> DEFINE a == Append(units, u)
  <1>1. /\ a \in Seq(Decoding!Unit) /\ Len(a) = Len(units) + 1 /\ Len(units) \in Nat
        /\ a # <<>> /\ a[Len(units) + 1] = u
        /\ \A i \in 1..Len(units) : a[i] = units[i]
    OBVIOUS
  <1> HIDE DEF a
  <1>2. \A i \in 1..Len(a) : i \in 1..Len(units) \/ i = Len(units) + 1
    BY <1>1
  <1>3. Numbered(a, k + 1)
    <2>1. ASSUME NEW i \in 1..Len(a)
          PROVE  a[i].n = k + 1 - Len(a) + i /\ (a[i].sets => a[i].key)
      <3>1. CASE i \in 1..Len(units)
        <4>1. units[i].n = k - Len(units) + i /\ (units[i].sets => units[i].key)
          BY <3>1 DEF Numbered
        <4>2. k - Len(units) + i = k + 1 - Len(a) + i /\ a[i] = units[i]
          BY <1>1, <3>1
        <4> QED
          BY <4>1, <4>2
      <3>2. CASE i = Len(units) + 1
        BY <1>1, <3>2
      <3> QED
        BY <1>2, <3>1, <3>2
    <2> QED
      BY <2>1 DEF Numbered
  <1> QED
    BY <1>1, <1>3 DEF a

\* What an arrival does, once it is known what the pipe becomes.
ArrivedAs(r, key, asks) ==
    /\ arrived' = arrived + 1 /\ arrived < MaxUnits
    /\ Decoding!Becomes(r) /\ r \in Pipes /\ ~r.misused
    /\ decoderAsked' = (IF key THEN 0 ELSE decoderAsked) + (IF asks THEN 1 ELSE 0)
    /\ UNCHANGED <<mode, decoderErrored, currentFrame, open>>
    /\ InOrder(r.decoder.queue, currentFrame, arrived + 1)

\* The types and what an arrival leaves alone.
LEMMA ArrivedTypes ==
    ASSUME DecodingConstants, DecodingInv, NEW r, NEW key \in BOOLEAN, NEW asks \in BOOLEAN,
           ArrivedAs(r, key, asks), decoderAsked = 1 /\ ~key => ~asks
    PROVE  /\ Decoding!TypeOK' /\ decoder' \in Decoders
           /\ Decoding!DeltasContinue' /\ Decoding!OneKeyFrameAsked'
           /\ open' \subseteq {currentFrame'}
           /\ currentFrame' <= arrived' /\ InOrder(decoder.queue, currentFrame, arrived)'
           /\ mode' = "none" => decoderErrored'
  <1>1. /\ arrived \in 0..MaxUnits /\ decoderAsked \in {0, 1} /\ MaxUnits \in Nat
        /\ currentFrame \in 0..MaxUnits /\ currentFrame <= arrived
        /\ mode = "none" => decoderErrored
    BY DecodingTypes DEF DecodingInv
  <1>2. /\ arrived' = arrived + 1 /\ arrived < MaxUnits /\ Decoding!Becomes(r) /\ r \in Pipes
        /\ ~r.misused
        /\ decoderAsked' = (IF key THEN 0 ELSE decoderAsked) + (IF asks THEN 1 ELSE 0)
        /\ UNCHANGED <<mode, decoderErrored, currentFrame, open>>
        /\ InOrder(r.decoder.queue, currentFrame, arrived + 1)
    BY DEF ArrivedAs
  <1>3. /\ arrived' \in 0..MaxUnits /\ decoderAsked' \in {0, 1} /\ decoderAsked' \in 0..MaxUnits
        /\ decoderAsked' <= 1 /\ currentFrame <= arrived + 1
    BY <1>1, <1>2
  <1>4. /\ bufferedUnits' \in Seq(Decoding!Unit) /\ last' \in 0..MaxUnits
        /\ decoder' \in Decoders /\ decoder'.queue \in Seq(1..MaxUnits)
        /\ decoder'.state \in {"unconfigured", "configured", "closed"}
        /\ decoder'.needsKey \in BOOLEAN
        /\ requestedIdr' \in BOOLEAN /\ needsKeyFrame' \in BOOLEAN
        /\ hasDescription' \in BOOLEAN /\ misused' \in BOOLEAN
        /\ misused' = r.misused /\ decoder' = r.decoder
    BY <1>2, BecomesIs
  <1>5. Decoding!TypeOK'
    <2>1. Decoding!TypeOK
      BY DEF DecodingInv
    <2> QED
      BY <1>2, <1>3, <1>4, <2>1, Zenon DEF Decoding!TypeOK
  <1>6. InOrder(decoder.queue, currentFrame, arrived)'
    BY <1>2, <1>4 DEF InOrder
  <1>7. open' \subseteq {currentFrame'}
    BY <1>2 DEF DecodingInv
  <1> QED
    BY <1>1, <1>2, <1>3, <1>4, <1>5, <1>6, <1>7 DEF Decoding!DeltasContinue,
       Decoding!OneKeyFrameAsked

\* The unit that arrives.
Arrived(key, sets) == [n |-> arrived + 1, key |-> key, sets |-> sets]

\* The unit that arrives next.
LEMMA ArrivedIs ==
    ASSUME DecodingConstants, DecodingInv, arrived < MaxUnits,
           NEW key \in BOOLEAN, NEW sets \in BOOLEAN, sets => key
    PROVE  /\ Arrived(key, sets) \in Decoding!Unit /\ Arrived(key, sets).n = arrived + 1
           /\ (Arrived(key, sets).key <=> key) /\ (Arrived(key, sets).sets => Arrived(key, sets).key)
           /\ arrived \in Nat
  <1>1. arrived \in 0..MaxUnits /\ MaxUnits \in Nat
    BY DecodingTypes
  <1>2. arrived + 1 \in 1..MaxUnits /\ arrived \in Nat
    BY <1>1
  <1> QED
    BY <1>2 DEF Arrived, Decoding!Unit

\* Before the setup is over the unit waits.
LEMMA ArriveWaits ==
    ASSUME DecodingConstants, DecodingInv, NEW key \in BOOLEAN, NEW sets \in BOOLEAN, sets => key,
           Decoding!Arrive(key, sets), ~decoderErrored, mode = "setup"
    PROVE  DecodingInv'
  <1> DEFINE u == Arrived(key, sets)
             r == [Decoding!Pipe EXCEPT !.buffered = Append(bufferedUnits, u)]
             polled == IF r.thrown THEN r ELSE Decoding!Poll(r)
  <1>1. /\ arrived < MaxUnits /\ arrived' = arrived + 1
        /\ Decoding!Becomes(polled)
        /\ decoderAsked' = (IF key THEN 0 ELSE decoderAsked)
                           + (IF ~r.thrown /\ Decoding!Asks(r) THEN 1 ELSE 0)
        /\ UNCHANGED <<mode, decoderErrored, currentFrame, open>>
    <2>1. r = [Decoding!Pipe EXCEPT !.buffered = Append(@, u)]
      BY DEF Decoding!Pipe
    <2> QED
      BY <2>1, Zenon DEF Decoding!Arrive, Arrived
  <1>2. u \in Decoding!Unit /\ u.n = arrived + 1 /\ (u.sets => u.key) /\ arrived \in Nat
    BY <1>1, ArrivedIs
  <1>3. /\ decoder = Decoding!Fresh("unconfigured") /\ ~requestedIdr /\ decoderAsked = 0
        /\ needsKeyFrame /\ ~hasDescription /\ currentFrame = 0
        /\ Len(bufferedUnits) <= arrived /\ Numbered(bufferedUnits, arrived)
        /\ bufferedUnits \in Seq(Decoding!Unit)
    BY DecodingTypes DEF DecodingInv
  <1> DEFINE a == Append(bufferedUnits, u)
  <1>4. a \in Seq(Decoding!Unit) /\ Len(a) = Len(bufferedUnits) + 1 /\ Len(bufferedUnits) \in Nat
        /\ Numbered(a, arrived + 1)
    BY <1>2, <1>3, NumberedAppend
  <1>5. decoder.queue = <<>> /\ decoder.state = "unconfigured" /\ decoder.needsKey
    BY <1>3, FreshIs
  <1> HIDE DEF u, a
  <1>6. /\ r \in Pipes /\ r.buffered = a /\ r.decoder = decoder /\ r.requested = requestedIdr
        /\ r.misused = misused /\ r.thrown = FALSE
        /\ r.needsKey = needsKeyFrame /\ r.described = hasDescription
    <2>1. r = [Decoding!Pipe EXCEPT !.buffered = a]
      BY DEF a
    <2> QED
      BY <1>4, <2>1, PipeIs DEF Pipes
  <1> HIDE DEF r
  <1>7. ~Decoding!Asks(r)
    <2>1. Len(<<>>) = 0 /\ Backlog \in Nat
      BY DecodingTypes
    <2> QED
      BY <1>5, <1>6, <2>1 DEF Decoding!Asks, Decoding!TooSlow
  <1>8. polled = r
    BY <1>6, <1>7 DEF Decoding!Poll
  <1> HIDE DEF polled
  <1>9. InOrder(r.decoder.queue, currentFrame, arrived + 1)
    BY <1>5, <1>6, InOrderEmpty
  <1>10. ArrivedAs(r, key, FALSE)
    BY <1>1, <1>6, <1>7, <1>8, <1>9, DecodingTypes DEF ArrivedAs
  <1>11. decoderAsked' = 0
    BY <1>1, <1>3, <1>7
  <1>12. /\ bufferedUnits' = a /\ decoder' = decoder /\ ~requestedIdr' /\ needsKeyFrame'
         /\ ~hasDescription'
    BY <1>1, <1>3, <1>6, <1>8, BecomesIs
  <1>13. Numbered(bufferedUnits', arrived') /\ Len(bufferedUnits') <= arrived'
    BY <1>1, <1>2, <1>3, <1>4, <1>12
  <1>14. /\ decoder' = Decoding!Fresh("unconfigured") /\ ~decoderErrored' /\ currentFrame' = 0
         /\ mode' = "setup"
    BY <1>1, <1>3, <1>12, Zenon
  <1>15. decoder'.queue = <<>>
    BY <1>5, <1>12
  <1>16. /\ Decoding!TypeOK' /\ decoder' \in Decoders
         /\ Decoding!DeltasContinue' /\ Decoding!OneKeyFrameAsked'
         /\ open' \subseteq {currentFrame'}
         /\ currentFrame' <= arrived' /\ InOrder(decoder.queue, currentFrame, arrived)'
    BY <1>10, ArrivedTypes
  <1> QED
    BY <1>11, <1>12, <1>13, <1>14, <1>15, <1>16 DEF DecodingInv

\* After an error nothing is decoded any more.
LEMMA ArriveInVain ==
    ASSUME DecodingConstants, DecodingInv, NEW key \in BOOLEAN, NEW sets \in BOOLEAN, sets => key,
           Decoding!Arrive(key, sets), decoderErrored
    PROVE  DecodingInv'
  <1> DEFINE r == Decoding!Pipe
             polled == IF r.thrown THEN r ELSE Decoding!Poll(r)
  <1>1. /\ arrived < MaxUnits /\ arrived' = arrived + 1
        /\ Decoding!Becomes(polled)
        /\ decoderAsked' = (IF key THEN 0 ELSE decoderAsked)
                           + (IF ~r.thrown /\ Decoding!Asks(r) THEN 1 ELSE 0)
        /\ UNCHANGED <<mode, decoderErrored, currentFrame, open>>
    BY Zenon DEF Decoding!Arrive
  <1>2. /\ r \in Pipes /\ r.buffered = bufferedUnits /\ r.decoder = decoder
        /\ r.requested = requestedIdr
        /\ r.misused = misused /\ r.thrown = FALSE
        /\ r.needsKey = needsKeyFrame /\ r.described = hasDescription
    BY PipeIs
  <1> HIDE DEF r
  <1>3. decoder.queue = <<>> /\ mode # "setup"
    BY DEF DecodingInv
  <1>4. ~Decoding!Asks(r)
    <2>1. Len(<<>>) = 0 /\ Backlog \in Nat
      BY DecodingTypes
    <2> QED
      BY <1>2, <1>3, <2>1 DEF Decoding!Asks, Decoding!TooSlow
  <1>5. polled = r
    BY <1>2, <1>4 DEF Decoding!Poll
  <1> HIDE DEF polled
  <1>6. InOrder(r.decoder.queue, currentFrame, arrived + 1)
    BY <1>2, <1>3, InOrderEmpty
  <1>7. ArrivedAs(r, key, FALSE)
    BY <1>1, <1>2, <1>4, <1>5, <1>6, DecodingTypes DEF ArrivedAs
  <1>8. bufferedUnits' = bufferedUnits /\ decoder' = decoder /\ requestedIdr' = requestedIdr
    BY <1>1, <1>2, <1>5, BecomesIs
  <1>9. decoderAsked' = IF key THEN 0 ELSE decoderAsked
    BY <1>1, <1>4, DecodingTypes
  <1>10. /\ decoderAsked' = 1 => requestedIdr'
         /\ bufferedUnits' # <<>> => decoderAsked' = 0 /\ ~requestedIdr' /\ currentFrame' = 0
    <2>1. /\ decoderAsked = 1 => requestedIdr
          /\ bufferedUnits # <<>> => decoderAsked = 0 /\ ~requestedIdr /\ currentFrame = 0
      BY DEF DecodingInv
    <2>2. (requestedIdr' <=> requestedIdr) /\ currentFrame' = currentFrame
      BY <1>1, <1>8, Zenon
    <2> QED
      BY <1>8, <1>9, <2>1, <2>2
  <1> QED
    BY <1>1, <1>3, <1>7, <1>8, <1>10, ArrivedTypes DEF DecodingInv

\* Once it runs the pipe is given all that waited and the new unit.
LEMMA ArriveRuns ==
    ASSUME DecodingConstants, DecodingInv, NEW key \in BOOLEAN, NEW sets \in BOOLEAN, sets => key,
           Decoding!Arrive(key, sets), ~decoderErrored, mode # "setup"
    PROVE  DecodingInv'
  <1> DEFINE u == Arrived(key, sets)
             units == Append(bufferedUnits, u)
             base == [Decoding!Pipe EXCEPT !.buffered = <<>>]
             r == Decoding!FoldLeft(Decoding!Submit, base, units)
             polled == IF r.thrown THEN r ELSE Decoding!Poll(r)
             asks == ~r.thrown /\ Decoding!Asks(r)
             k == arrived - Len(bufferedUnits)
  <1>1. /\ arrived < MaxUnits /\ arrived' = arrived + 1 /\ mode # "gone"
        /\ Decoding!Becomes(polled)
        /\ decoderAsked' = (IF key THEN 0 ELSE decoderAsked) + (IF asks THEN 1 ELSE 0)
        /\ UNCHANGED <<mode, decoderErrored, currentFrame, open>>
    <2>1. Decoding!WithBuffered(Decoding!Pipe, u) = units
      BY PipeIs DEF Decoding!WithBuffered
    <2> QED
      BY <2>1, Zenon DEF Decoding!Arrive, Arrived
  <1>2. /\ u \in Decoding!Unit /\ u.n = arrived + 1 /\ (u.sets => u.key) /\ (u.key <=> key)
        /\ arrived \in Nat
    BY <1>1, ArrivedIs
  <1>3. /\ Len(bufferedUnits) <= arrived /\ Numbered(bufferedUnits, arrived)
        /\ PipeSound(Decoding!Pipe, k)
        /\ bufferedUnits \in Seq(Decoding!Unit) /\ Len(bufferedUnits) \in Nat
    BY <1>1, DecodingTypes DEF DecodingInv
  <1>4. units \in Seq(Decoding!Unit) /\ Len(units) = Len(bufferedUnits) + 1
        /\ units[Len(bufferedUnits) + 1] = u
        /\ Numbered(units, arrived + 1)
    BY <1>2, <1>3, NumberedAppend
  <1> HIDE DEF u, units
  <1>5. /\ base \in Pipes /\ base.buffered = <<>> /\ base.decoder = decoder
        /\ base.requested = requestedIdr /\ base.misused = misused /\ base.thrown = FALSE
        /\ base.needsKey = needsKeyFrame /\ base.described = hasDescription /\ base.last = last
    <2>1. <<>> \in Seq(Decoding!Unit)
      OBVIOUS
    <2> QED
      BY <2>1, PipeIs DEF Pipes
  <1>6. k \in Nat /\ k + Len(units) = arrived + 1
    BY <1>2, <1>3, <1>4
  <1>7. /\ currentFrame \in Nat /\ currentFrame <= k /\ InOrder(decoder.queue, currentFrame, k)
    <2>1. CASE bufferedUnits = <<>>
      <3>1. k = arrived
        BY <1>2, <2>1
      <3> QED
        BY <3>1, DecodingTypes
    <2>2. CASE bufferedUnits # <<>>
      <3>1. decoder.queue = <<>> /\ currentFrame = 0
        BY <2>2 DEF DecodingInv
      <3> QED
        BY <1>6, <3>1, InOrderEmpty
    <2> QED
      BY <2>1, <2>2
  <1> HIDE DEF k, base
  <1>8. PipeSound(base, k)
    BY <1>3, <1>5, PipeIs DEF PipeSound, InBandSound, TranslatedSound
  <1>9. /\ r \in Pipes /\ PipeSound(r, arrived + 1) /\ InOrder(r.decoder.queue, currentFrame, arrived + 1)
        /\ r.buffered = <<>>
        /\ Len(units) = 1 /\ ~units[1].key /\ requestedIdr => r.requested
    <2>1. Numbered(units, k + Len(units)) /\ InOrder(base.decoder.queue, currentFrame, k)
      BY <1>4, <1>5, <1>6, <1>7
    <2>2. /\ r \in Pipes /\ PipeSound(r, k + Len(units))
          /\ InOrder(r.decoder.queue, currentFrame, k + Len(units))
          /\ r.buffered = base.buffered
          /\ Len(units) = 1 /\ ~units[1].key /\ base.requested => r.requested
      BY <1>4, <1>5, <1>6, <1>7, <1>8, <2>1, FoldKeeps
    <2> HIDE DEF r
    <2> QED
      BY <1>5, <1>6, <2>2
  <1> HIDE DEF r
  <1>10. /\ polled \in Pipes /\ PipeSound(polled, arrived + 1)
         /\ InOrder(polled.decoder.queue, currentFrame, arrived + 1)
         /\ polled.buffered = <<>>
         /\ asks => polled.requested
         /\ ~asks => polled = r
    <2>1. arrived + 1 \in Nat
      BY <1>2
    <2>2. LET p == IF r.thrown THEN r ELSE Decoding!Poll(r) IN
          /\ p \in Pipes /\ PipeSound(p, arrived + 1)
                  /\ InOrder(p.decoder.queue, currentFrame, arrived + 1)
          /\ p.buffered = r.buffered
          /\ ~r.thrown /\ Decoding!Asks(r) => p.requested
          /\ ~(~r.thrown /\ Decoding!Asks(r)) => p = r
      BY <1>7, <1>9, <2>1, PollKeeps
    <2> QED
      BY <1>9, <2>2, Zenon
  <1>11. decoderAsked = 1 /\ ~key => r.requested /\ ~Decoding!Asks(r)
    <2>1. ASSUME decoderAsked = 1, ~key
          PROVE  r.requested
      <3>1. requestedIdr /\ bufferedUnits = <<>>
        BY <2>1 DEF DecodingInv
      <3>2. Len(units) = 1 /\ units[1] = u
        BY <1>4, <3>1
      <3> QED
        BY <1>2, <1>9, <2>1, <3>1, <3>2
    <2> QED
      BY <2>1 DEF Decoding!Asks
  <1>12. asks \in BOOLEAN /\ (decoderAsked = 1 /\ ~key => ~asks)
    BY <1>11
  <1> HIDE DEF polled, asks
  <1>13. ArrivedAs(polled, key, asks)
    BY <1>1, <1>10 DEF ArrivedAs, PipeSound
  <1>14. /\ bufferedUnits' = <<>> /\ requestedIdr' = polled.requested
         /\ PipeSound(Decoding!Pipe, arrived - Len(bufferedUnits))'
    <2>1. bufferedUnits' = <<>> /\ requestedIdr' = polled.requested
      BY <1>1, <1>10, BecomesIs
    <2>2. arrived' - Len(bufferedUnits') = arrived + 1
      BY <1>1, <1>2, <2>1
    <2> QED
      BY <1>1, <1>10, <2>1, <2>2, SoundIs
  <1>15. decoderAsked' = 1 => requestedIdr'
    <2>1. CASE asks
      BY <1>10, <1>14, <2>1
    <2>2. CASE ~asks
      BY <1>1, <1>10, <1>11, <1>14, <2>2, DecodingTypes
    <2> QED
      BY <2>1, <2>2
  <1>16. Numbered(bufferedUnits', arrived') /\ Len(bufferedUnits') <= arrived'
    BY <1>1, <1>2, <1>14 DEF Numbered
  <1> QED
    BY <1>1, <1>12, <1>13, <1>14, <1>15, <1>16, ArrivedTypes DEF DecodingInv

\* Every step of the pipe keeps the invariant.
LEMMA DecodingKeeps ==
    ASSUME DecodingConstants, DecodingInv, Decoding!Next
    PROVE  DecodingInv'
  <1>1. ASSUME NEW m \in {"inBand", "translated", "none"}, Decoding!SetupFinished(m)
        PROVE  DecodingInv'
    BY <1>1, SetupFinishedKeeps
  <1>2. ASSUME NEW key \in BOOLEAN, NEW sets \in {FALSE, key}, Decoding!Arrive(key, sets)
        PROVE  DecodingInv'
    <2>1. sets = FALSE \/ sets = key
      BY Zenon
    <2>2. sets \in BOOLEAN /\ (sets => key)
      <3>1. CASE sets = FALSE
        BY <3>1
      <3>2. CASE sets = key
        BY <3>2, Zenon
      <3> QED
        BY <2>1, <3>1, <3>2
    <2> QED
      BY <1>2, <2>2, ArriveWaits, ArriveInVain, ArriveRuns
  <1> QED
    BY <1>1, <1>2, OutputKeeps, StopKeeps DEF Decoding!Next

\* Pictures are decoded in their order, each one upon the one it continues.
LEMMA DecodingSound ==
    ASSUME DecodingConstants, DecodingInv
    PROVE  /\ Decoding!TypeOK /\ Decoding!DeltasContinue /\ Decoding!OneKeyFrameAsked
           /\ Decoding!PicturesAdvance
  <1>1. /\ Decoding!TypeOK /\ Decoding!DeltasContinue /\ Decoding!OneKeyFrameAsked
        /\ open \subseteq {currentFrame} /\ InOrder(decoder.queue, currentFrame, arrived)
    BY DEF DecodingInv
  <1> QED
    BY <1>1 DEF InOrder, Decoding!PicturesAdvance

-------------------------------------------------------------------------------
(* The choice of pipelines *)

\* What the browser offers an entry, said of the browser itself.
SupportedBy(b, p) ==
    /\ Pipelines!Needs(p, FALSE) \subseteq b.features
    /\ p \in DOMAIN Pipelines!WorkerPipelines =>
          /\ "Worker" \in b.features
          /\ \A q \in Pipelines!InWorker(p) : Pipelines!Needs(q, TRUE) \subseteq b.features
Understands(b, p) ==
    IF "VideoDecoderPipe" \in Pipelines!InWorker(p) \cup {p} THEN b.decodes
    ELSE IF p = "VideoElementRenderer" THEN b.plays ELSE Codecs
Way(e) == Pipelines!Range(Pipelines!Along(e))
Common(b, e, wanted) == {c \in wanted : \A p \in Way(e) : c \in Understands(b, p)}
Would(b, r, e) ==
    /\ e.input = r.input
    /\ \A p \in Way(e) : SupportedBy(b, p)
    /\ r.kind = "video" => Common(b, e, r.wanted) # {}
    /\ Pipelines!Connects(e)
TableOf(r) ==
    IF r.kind = "audio" THEN Pipelines!AudioPipelines
    ELSE IF r.canvas THEN Pipelines!ForceCanvasPipelines ELSE Pipelines!VideoPipelines
Passed(b, r, n) == \A i \in 1..Len(TableOf(r)) : i < n => ~Would(b, r, TableOf(r)[i])

PipelinesInv ==
    /\ Pipelines!TypeOK
    /\ result.state = "built" /\ ~request.force =>
          /\ Would(browser, request, result.entry)
          /\ result.codecs = Common(browser, result.entry, request.wanted)
    /\ result.state = "searching" /\ ~request.force =>
          position <= Len(TableOf(request)) + 1 /\ Passed(browser, request, position)
    /\ result.state = "error" /\ ~request.force =>
          Passed(browser, request, Len(TableOf(request)) + 1)

\* The definitions of the search say what these say.
LEMMA SaysTheSame ==
    /\ \A p : Pipelines!Supported(p) <=> SupportedBy(browser, p)
    /\ \A p : Pipelines!CodecsOf(p) = Understands(browser, p)
    /\ \A e : Pipelines!AllSupported(e) <=> \A p \in Way(e) : SupportedBy(browser, p)
    /\ \A e, wanted : Pipelines!CommonCodecs(e, wanted) = Common(browser, e, wanted)
    /\ \A e : Pipelines!Usable(e) /\ Pipelines!Connects(e) <=> Would(browser, request, e)
  <1>1. \A p : Pipelines!Supported(p) <=> SupportedBy(browser, p)
    BY DEF Pipelines!Supported, Pipelines!WorkerSupported, SupportedBy
  <1>2. \A p : Pipelines!CodecsOf(p) = Understands(browser, p)
    <2> TAKE p
    <2>1. CASE "VideoDecoderPipe" \in Pipelines!InWorker(p) \cup {p}
      <3>1. p # "VideoElementRenderer"
        BY <2>1 DEF Pipelines!InWorker, Pipelines!WorkerPipelines
      <3> QED
        BY <2>1, <3>1 DEF Pipelines!CodecsOf, Understands
    <2>2. CASE ~("VideoDecoderPipe" \in Pipelines!InWorker(p) \cup {p}) /\ p = "VideoElementRenderer"
      BY <2>2 DEF Pipelines!CodecsOf, Understands
    <2>3. CASE ~("VideoDecoderPipe" \in Pipelines!InWorker(p) \cup {p}) /\ p # "VideoElementRenderer"
      BY <2>3 DEF Pipelines!CodecsOf, Understands
    <2> QED
      BY <2>1, <2>2, <2>3
  <1>3. \A e : Pipelines!AllSupported(e) <=> \A p \in Way(e) : SupportedBy(browser, p)
    BY <1>1 DEF Pipelines!AllSupported, Way
  <1>4. \A e, wanted : Pipelines!CommonCodecs(e, wanted) = Common(browser, e, wanted)
    BY <1>2 DEF Pipelines!CommonCodecs, Common, Way
  <1>5. \A e : Pipelines!Usable(e) /\ Pipelines!Connects(e) <=> Would(browser, request, e)
    BY <1>3, <1>4 DEF Pipelines!Usable, Would
  <1> QED
    BY <1>1, <1>2, <1>3, <1>4, <1>5

\* The table of a request is one of the three, with at most seven entries.
LEMMA TableIs ==
    ASSUME request \in Pipelines!Requests
    PROVE  /\ Pipelines!Table = TableOf(request)
           /\ Len(Pipelines!Table) \in 1..7 /\ Len(Pipelines!VideoPipelines) = 7
           /\ \A i \in 1..Len(Pipelines!Table) : Pipelines!Table[i] \in Pipelines!Entries
           /\ Pipelines!VideoPipelines[1] \in Pipelines!Entries
  <1>1. request.kind \in {"audio", "video"}
    BY DEF Pipelines!Requests
  <1>2. Pipelines!Table = TableOf(request)
    BY <1>1 DEF Pipelines!Table, TableOf
  <1>3. /\ Len(Pipelines!VideoPipelines) = 7 /\ DOMAIN Pipelines!VideoPipelines = 1..7
        /\ Len(Pipelines!ForceCanvasPipelines) = 4 /\ DOMAIN Pipelines!ForceCanvasPipelines = 1..4
        /\ Len(Pipelines!AudioPipelines) = 3 /\ DOMAIN Pipelines!AudioPipelines = 1..3
    BY DEF Pipelines!VideoPipelines, Pipelines!ForceCanvasPipelines, Pipelines!AudioPipelines
  <1>4. /\ \A i \in 1..7 : Pipelines!VideoPipelines[i] \in Pipelines!Entries
        /\ \A i \in 1..4 : Pipelines!ForceCanvasPipelines[i] \in Pipelines!Entries
        /\ \A i \in 1..3 : Pipelines!AudioPipelines[i] \in Pipelines!Entries
    BY <1>3 DEF Pipelines!Entries, Pipelines!Range
  <1> DEFINE V == Pipelines!VideoPipelines
             F == Pipelines!ForceCanvasPipelines
             A == Pipelines!AudioPipelines
             T == Pipelines!Table
  <1>5. T = V \/ T = F \/ T = A
    BY <1>2 DEF TableOf
  <1> HIDE DEF V, F, A, T
  <1>6. /\ Len(T) \in 1..7 /\ \A i \in 1..Len(T) : T[i] \in Pipelines!Entries
    <2>1. /\ Len(V) = 7 /\ Len(F) = 4 /\ Len(A) = 3
          /\ \A i \in 1..7 : V[i] \in Pipelines!Entries
          /\ \A i \in 1..4 : F[i] \in Pipelines!Entries
          /\ \A i \in 1..3 : A[i] \in Pipelines!Entries
      BY <1>3, <1>4 DEF V, F, A
    <2> QED
      BY <1>5, <2>1
  <1> QED
    BY <1>2, <1>3, <1>4, <1>6 DEF T

\* A way of two pipes and an end.
LEMMA Along2 ==
    ASSUME NEW e, NEW a, NEW b, NEW c, e.pipes = <<a, b>>, e.end = c
    PROVE  /\ Pipelines!Along(e)[1] = a /\ Pipelines!Along(e)[2] = b /\ Pipelines!Along(e)[3] = c
  <1> DEFINE q == <<a, b>>
  <1>1. q \in Seq({a, b, c}) /\ Len(q) = 2 /\ q[1] = a /\ q[2] = b
    OBVIOUS
  <1> HIDE DEF q
  <1>2. Append(q, c)[1] = a /\ Append(q, c)[2] = b /\ Append(q, c)[3] = c
    <2>1. /\ \A i \in 1..Len(q) : Append(q, c)[i] = q[i]
          /\ Append(q, c)[Len(q) + 1] = c
      <3> DEFINE S == {a, b, c}
      <3>1. q \in Seq(S) /\ c \in S
        BY <1>1
      <3> HIDE DEF S
      <3> QED
        BY <3>1
    <2> QED
      BY <1>1, <2>1
  <1> QED
    BY <1>2 DEF Pipelines!Along, q

\* The pipes of the players of sound fit together.
LEMMA AudioConnects ==
    \A i \in 1..Len(Pipelines!AudioPipelines) : Pipelines!Connects(Pipelines!AudioPipelines[i])
  <1> DEFINE e1 == Pipelines!Entry("audiotrack", <<>>, "AudioElementPlayer")
             e2 == Pipelines!Entry("data", <<"AudioDecoderPipe", "AudioMediaStreamTrackGeneratorPipe">>,
                                   "AudioElementPlayer")
             e3 == Pipelines!Entry("data", <<"AudioDecoderPcmPipe", "AudioBufferPipe">>,
                                   "ContextDestinationNodeAudioPlayer")
  <1>1. Pipelines!Connects(e1)
    <2>1. e1.pipes = <<>> /\ Len(<<>>) = 0
      BY DEF Pipelines!Entry
    <2> QED
      BY <2>1 DEF Pipelines!Connects
  <1>2. Pipelines!Connects(e2)
    <2>1. /\ e2.pipes = <<"AudioDecoderPipe", "AudioMediaStreamTrackGeneratorPipe">>
          /\ e2.end = "AudioElementPlayer"
      BY DEF Pipelines!Entry
    <2>2. Len(e2.pipes) = 2
      BY <2>1
    <2>3. /\ Pipelines!Along(e2)[1] = "AudioDecoderPipe"
          /\ Pipelines!Along(e2)[2] = "AudioMediaStreamTrackGeneratorPipe"
          /\ Pipelines!Along(e2)[3] = "AudioElementPlayer"
      BY <2>1, Along2
    <2>4. /\ Pipelines!Pipes["AudioDecoderPipe"] = Pipelines!Pipe("audiodata_opus", "audiosample")
          /\ Pipelines!Pipes["AudioMediaStreamTrackGeneratorPipe"]
                = Pipelines!Pipe("audiosample", "audiotrack")
          /\ Pipelines!Pipes["AudioElementPlayer"] = Pipelines!Pipe("audiotrack", "nobody")
      BY DEF Pipelines!Pipes
    <2>5. /\ Pipelines!Pipes["AudioDecoderPipe"].baseType = "audiosample"
          /\ Pipelines!Pipes["AudioMediaStreamTrackGeneratorPipe"].type = "audiosample"
          /\ Pipelines!Pipes["AudioMediaStreamTrackGeneratorPipe"].baseType = "audiotrack"
          /\ Pipelines!Pipes["AudioElementPlayer"].type = "audiotrack"
      BY <2>4 DEF Pipelines!Pipe
    <2> HIDE DEF e2
    <2>6. \A i \in 1..2 : i = 1 \/ i = 2
      OBVIOUS
    <2> QED
      BY <2>2, <2>3, <2>5, <2>6 DEF Pipelines!Connects
  <1>3. Pipelines!Connects(e3)
    <2>1. /\ e3.pipes = <<"AudioDecoderPcmPipe", "AudioBufferPipe">>
          /\ e3.end = "ContextDestinationNodeAudioPlayer"
      BY DEF Pipelines!Entry
    <2>2. Len(e3.pipes) = 2
      BY <2>1
    <2>3. /\ Pipelines!Along(e3)[1] = "AudioDecoderPcmPipe"
          /\ Pipelines!Along(e3)[2] = "AudioBufferPipe"
          /\ Pipelines!Along(e3)[3] = "ContextDestinationNodeAudioPlayer"
      BY <2>1, Along2
    <2>4. /\ Pipelines!Pipes["AudioDecoderPcmPipe"] = Pipelines!Pipe("audiodata", "audiopcm")
          /\ Pipelines!Pipes["AudioBufferPipe"] = Pipelines!Pipe("audiopcm", "audionode")
          /\ Pipelines!Pipes["ContextDestinationNodeAudioPlayer"] = Pipelines!Pipe("audionode", "nobody")
      BY DEF Pipelines!Pipes
    <2>5. /\ Pipelines!Pipes["AudioDecoderPcmPipe"].baseType = "audiopcm"
          /\ Pipelines!Pipes["AudioBufferPipe"].type = "audiopcm"
          /\ Pipelines!Pipes["AudioBufferPipe"].baseType = "audionode"
          /\ Pipelines!Pipes["ContextDestinationNodeAudioPlayer"].type = "audionode"
      BY <2>4 DEF Pipelines!Pipe
    <2> HIDE DEF e3
    <2>6. \A i \in 1..2 : i = 1 \/ i = 2
      OBVIOUS
    <2> QED
      BY <2>2, <2>3, <2>5, <2>6 DEF Pipelines!Connects
  <1>4. /\ Pipelines!AudioPipelines[1] = e1 /\ Pipelines!AudioPipelines[2] = e2
        /\ Pipelines!AudioPipelines[3] = e3 /\ Len(Pipelines!AudioPipelines) = 3
    BY DEF Pipelines!AudioPipelines
  <1>5. \A i \in 1..3 : i = 1 \/ i = 2 \/ i = 3
    OBVIOUS
  <1> HIDE DEF e1, e2, e3
  <1> QED
    BY <1>1, <1>2, <1>3, <1>4, <1>5

\* The types of the search, one by one.
LEMMA PipelinesTypes ==
    ASSUME PipelinesInv
    PROVE  /\ browser \in [features : Browsers, decodes : SUBSET Codecs, plays : SUBSET Codecs]
           /\ pipeInfo \in {"unasked", "pending", "known", "failed"}
           /\ request \in Pipelines!Requests /\ position \in 1..8
           /\ request.wanted \subseteq Codecs /\ request.force \in BOOLEAN
           /\ Pipelines!Table = TableOf(request)
           /\ Len(Pipelines!Table) \in 1..7
           /\ \A i \in 1..Len(Pipelines!Table) : Pipelines!Table[i] \in Pipelines!Entries
           /\ Pipelines!VideoPipelines[1] \in Pipelines!Entries
           /\ result.codecs \subseteq Codecs /\ result.entry \in Pipelines!Entries \cup {Pipelines!NoEntry}
           /\ result.state \in {"idle", "searching", "built", "error", "rejected"}
  <1>1. /\ browser \in [features : Browsers, decodes : SUBSET Codecs, plays : SUBSET Codecs]
        /\ pipeInfo \in {"unasked", "pending", "known", "failed"}
        /\ request \in Pipelines!Requests /\ position \in 1..(Len(Pipelines!VideoPipelines) + 1)
        /\ result \in [state : {"idle", "searching", "built", "error", "rejected"},
                       entry : Pipelines!Entries \cup {Pipelines!NoEntry}, codecs : SUBSET Codecs]
    BY DEF PipelinesInv, Pipelines!TypeOK
  <1>2. request.wanted \subseteq Codecs /\ request.force \in BOOLEAN
    BY <1>1 DEF Pipelines!Requests
  <1>3. position \in 1..8
    <2>1. Len(Pipelines!VideoPipelines) = 7
      BY <1>1, TableIs, Zenon
    <2>2. position \in 1..(7 + 1)
      BY <1>1, <2>1, Zenon
    <2> QED
      BY <2>2
  <1> QED
    BY <1>1, <1>2, <1>3, TableIs

\* What a search may come to.
LEMMA ResultIs ==
    ASSUME NEW how \in {"idle", "searching", "built", "error", "rejected"},
           NEW e \in Pipelines!Entries \cup {Pipelines!NoEntry}, NEW c \in SUBSET Codecs
    PROVE  /\ Pipelines!Result(how, e, c) \in
                [state : {"idle", "searching", "built", "error", "rejected"},
                 entry : Pipelines!Entries \cup {Pipelines!NoEntry}, codecs : SUBSET Codecs]
           /\ Pipelines!Result(how, e, c).state = how /\ Pipelines!Result(how, e, c).entry = e
           /\ Pipelines!Result(how, e, c).codecs = c
  BY DEF Pipelines!Result

\* Nothing was asked for at the start.
LEMMA PipelinesInit ==
    ASSUME PipelinesConstants, Pipelines!Init
    PROVE  PipelinesInv
  <1>1. /\ browser \in [features : Browsers, decodes : SUBSET Codecs, plays : SUBSET Codecs]
        /\ pipeInfo = "unasked" /\ request = (CHOOSE r \in Pipelines!Requests : TRUE)
        /\ position = 1 /\ result = Pipelines!Result("idle", Pipelines!NoEntry, {})
    BY DEF Pipelines!Init
  <1>2. request \in Pipelines!Requests
    <2>1. [kind |-> "audio", input |-> "data", canvas |-> FALSE, force |-> FALSE, wanted |-> {}]
            \in Pipelines!Requests
      BY DEF Pipelines!Requests
    <2> QED
      BY <1>1, <2>1, Zenon
  <1>3. /\ result \in [state : {"idle", "searching", "built", "error", "rejected"},
                       entry : Pipelines!Entries \cup {Pipelines!NoEntry}, codecs : SUBSET Codecs]
        /\ result.state = "idle"
    BY <1>1, ResultIs
  <1>4. position \in 1..(Len(Pipelines!VideoPipelines) + 1)
    BY <1>1, <1>2, TableIs
  <1> QED
    BY <1>1, <1>2, <1>3, <1>4 DEF PipelinesInv, Pipelines!TypeOK

\* A new request starts the search anew.
LEMMA AskKeeps ==
    ASSUME PipelinesConstants, PipelinesInv, NEW r \in Pipelines!Requests, Pipelines!Ask(r)
    PROVE  PipelinesInv'
  <1>1. /\ request' = r /\ position' = 1 /\ browser' = browser
        /\ result' = Pipelines!Result("searching", Pipelines!NoEntry, {})
        /\ pipeInfo' = IF pipeInfo = "unasked" THEN "pending" ELSE pipeInfo
    BY DEF Pipelines!Ask
  <1>2. /\ result' \in [state : {"idle", "searching", "built", "error", "rejected"},
                        entry : Pipelines!Entries \cup {Pipelines!NoEntry}, codecs : SUBSET Codecs]
        /\ result'.state = "searching"
    BY <1>1, ResultIs
  <1>3. position' \in 1..(Len(Pipelines!VideoPipelines) + 1)
    BY <1>1, PipelinesTypes, TableIs
  <1>4. pipeInfo' \in {"unasked", "pending", "known", "failed"}
    BY <1>1, PipelinesTypes
  <1>5. Pipelines!TypeOK'
    BY <1>1, <1>2, <1>3, <1>4, PipelinesTypes DEF Pipelines!TypeOK
  <1>6. position' <= Len(TableOf(request')) + 1 /\ Passed(browser', request', position')
    <2>1. Len(TableOf(r)) \in Nat
      BY DEF TableOf, Pipelines!VideoPipelines, Pipelines!ForceCanvasPipelines, Pipelines!AudioPipelines
    <2>2. \A i \in 1..Len(TableOf(r)) : ~(i < 1)
      BY <2>1
    <2> QED
      BY <1>1, <2>1, <2>2 DEF Passed
  <1> QED
    BY <1>2, <1>5, <1>6 DEF PipelinesInv

\* What the pipes answer, and a worker that fails, find nothing.
LEMMA AnswerKeeps ==
    ASSUME PipelinesConstants, PipelinesInv, Pipelines!Gathered \/ Pipelines!Rejected
    PROVE  PipelinesInv'
  <1>1. CASE Pipelines!Gathered
    <2>1. /\ pipeInfo' \in {"known", "failed"}
          /\ UNCHANGED <<browser, request, position, result>>
      BY <1>1 DEF Pipelines!Gathered
    <2> QED
      BY <2>1 DEF PipelinesInv, Pipelines!TypeOK
  <1>2. CASE Pipelines!Rejected
    <2>1. /\ result' = Pipelines!Result("rejected", Pipelines!NoEntry, {})
          /\ UNCHANGED <<browser, pipeInfo, request, position>>
      BY <1>2 DEF Pipelines!Rejected
    <2>2. /\ result' \in [state : {"idle", "searching", "built", "error", "rejected"},
                          entry : Pipelines!Entries \cup {Pipelines!NoEntry}, codecs : SUBSET Codecs]
          /\ result'.state = "rejected"
      BY <2>1, ResultIs
    <2> QED
      BY <2>1, <2>2 DEF PipelinesInv, Pipelines!TypeOK
  <1> QED
    BY <1>1, <1>2

\* The video element is built when it is forced.
LEMMA ForceKeeps ==
    ASSUME PipelinesConstants, PipelinesInv, Pipelines!ForceElement
    PROVE  PipelinesInv'
  <1> DEFINE c == IF request.wanted = {} THEN {H264} ELSE request.wanted
  <1>1. /\ request.force
        /\ result' = IF request.input = "data" THEN Pipelines!Result("error", Pipelines!NoEntry, {})
                     ELSE Pipelines!Result("built", Pipelines!VideoPipelines[1], c)
        /\ UNCHANGED <<browser, pipeInfo, request, position>>
    BY DEF Pipelines!ForceElement
  <1>2. c \in SUBSET Codecs
    BY PipelinesTypes DEF PipelinesConstants
  <1> HIDE DEF c
  <1>3. /\ result' \in [state : {"idle", "searching", "built", "error", "rejected"},
                        entry : Pipelines!Entries \cup {Pipelines!NoEntry}, codecs : SUBSET Codecs]
        /\ result'.state \in {"error", "built"}
    <2>1. Pipelines!VideoPipelines[1] \in Pipelines!Entries
      BY PipelinesTypes
    <2>2. CASE result' = Pipelines!Result("error", Pipelines!NoEntry, {})
      BY <2>2, ResultIs
    <2>3. CASE result' = Pipelines!Result("built", Pipelines!VideoPipelines[1], c)
      BY <1>2, <2>1, <2>3, ResultIs
    <2> QED
      BY <1>1, <2>2, <2>3
  <1>4. request'.force
    BY <1>1, Zenon
  <1> QED
    BY <1>1, <1>3, <1>4 DEF PipelinesInv, Pipelines!TypeOK

\* An entry of the table is built if it would do, or the next one is looked at.
LEMMA ConsiderKeeps ==
    ASSUME PipelinesConstants, PipelinesInv, Pipelines!Consider
    PROVE  PipelinesInv'
  <1> DEFINE e == Pipelines!Table[position]
             c == Pipelines!CommonCodecs(e, request.wanted)
  <1>1. /\ result.state = "searching" /\ ~request.force /\ position <= Len(Pipelines!Table)
        /\ result' = CASE Pipelines!Usable(e) /\ Pipelines!EndsSearch(e) ->
                             Pipelines!Result("error", Pipelines!NoEntry, {})
                       [] Pipelines!Usable(e) /\ Pipelines!Connects(e) ->
                             Pipelines!Result("built", e, c)
                       [] OTHER -> result
        /\ position' = position + 1
        /\ UNCHANGED <<browser, pipeInfo, request>>
    BY DEF Pipelines!Consider, Pipelines!Searching, Pipelines!InTable
  <1>2. /\ position \in 1..7 /\ position + 1 <= Len(Pipelines!Table) + 1
        /\ e \in Pipelines!Entries /\ position \in 1..Len(Pipelines!Table)
        /\ Passed(browser, request, position)
        /\ Pipelines!Table = TableOf(request)
    BY <1>1, PipelinesTypes DEF PipelinesInv
  <1>3. ~Pipelines!EndsSearch(e)
    <2>1. request.kind = "audio" => Pipelines!Table = Pipelines!AudioPipelines
      BY <1>2 DEF TableOf
    <2> QED
      BY <1>2, <2>1, AudioConnects DEF Pipelines!EndsSearch
  <1>4. Pipelines!Usable(e) /\ Pipelines!Connects(e) <=> Would(browser, request, e)
    BY SaysTheSame
  <1>5. c = Common(browser, e, request.wanted) /\ c \in SUBSET Codecs
    BY PipelinesTypes, SaysTheSame DEF Common
  <1> HIDE DEF c
  <1>6. position' \in 1..(Len(Pipelines!VideoPipelines) + 1)
    <2>1. Len(Pipelines!VideoPipelines) = 7
      BY PipelinesTypes, TableIs, Zenon
    <2>2. position' \in 1..(7 + 1)
      BY <1>1, <1>2
    <2> QED
      BY <2>1, <2>2, Zenon
  <1>7. CASE Would(browser, request, e)
    <2>1. result' = Pipelines!Result("built", e, c)
      BY <1>1, <1>3, <1>4, <1>7
    <2> HIDE DEF e
    <2>2. /\ result' \in [state : {"idle", "searching", "built", "error", "rejected"},
                          entry : Pipelines!Entries \cup {Pipelines!NoEntry}, codecs : SUBSET Codecs]
          /\ result'.state = "built" /\ result'.entry = e /\ result'.codecs = c
      BY <1>2, <1>5, <2>1, ResultIs
    <2> QED
      BY <1>1, <1>5, <1>6, <1>7, <2>2 DEF PipelinesInv, Pipelines!TypeOK
  <1>8. CASE ~Would(browser, request, e)
    <2>1. result' = result
      BY <1>1, <1>3, <1>4, <1>8
    <2>2. Passed(browser, request, position + 1)
      <3>1. \A i \in 1..Len(TableOf(request)) : i < position + 1 => i < position \/ i = position
        BY <1>2, PipelinesTypes
      <3> QED
        BY <1>2, <1>8, <3>1 DEF Passed
    <2> QED
      BY <1>1, <1>2, <1>6, <2>1, <2>2 DEF PipelinesInv, Pipelines!TypeOK
  <1> QED
    BY <1>7, <1>8

\* The search ends when the whole table was passed.
LEMMA NothingFoundKeeps ==
    ASSUME PipelinesConstants, PipelinesInv, Pipelines!NothingFound
    PROVE  PipelinesInv'
  <1>1. /\ result.state = "searching" /\ ~request.force /\ ~(position <= Len(Pipelines!Table))
        /\ result' = Pipelines!Result("error", Pipelines!NoEntry, {})
        /\ UNCHANGED <<browser, pipeInfo, request, position>>
    BY DEF Pipelines!NothingFound, Pipelines!Searching, Pipelines!InTable
  <1>2. /\ Passed(browser, request, position) /\ position <= Len(TableOf(request)) + 1
        /\ Pipelines!Table = TableOf(request)
    BY <1>1, PipelinesTypes DEF PipelinesInv
  <1>3. Passed(browser, request, Len(TableOf(request)) + 1)
    BY <1>1, <1>2, PipelinesTypes
  <1>4. /\ result' \in [state : {"idle", "searching", "built", "error", "rejected"},
                        entry : Pipelines!Entries \cup {Pipelines!NoEntry}, codecs : SUBSET Codecs]
        /\ result'.state = "error"
    BY <1>1, ResultIs
  <1> QED
    BY <1>1, <1>3, <1>4 DEF PipelinesInv, Pipelines!TypeOK

\* Every step of the search keeps the invariant.
LEMMA PipelinesKeeps ==
    ASSUME PipelinesConstants, PipelinesInv, Pipelines!Next
    PROVE  PipelinesInv'
  BY AskKeeps, AnswerKeeps, ForceKeeps, ConsiderKeeps, NothingFoundKeeps DEF Pipelines!Next

\* What is built works, and the default of a table is found if it would do.
LEMMA PipelinesSound ==
    ASSUME PipelinesInv
    PROVE  Pipelines!TypeOK /\ Pipelines!BuiltWorks /\ Pipelines!DefaultIsFound
  <1>1. Pipelines!TypeOK
    BY DEF PipelinesInv
  <1>2. Pipelines!BuiltWorks
    <2> SUFFICES ASSUME result.state = "built", ~request.force
                 PROVE  /\ result.entry.input = request.input /\ Pipelines!Connects(result.entry)
                        /\ Pipelines!AllSupported(result.entry)
                        /\ \A c \in result.codecs, p \in Pipelines!Range(Pipelines!Along(result.entry)) :
                              c \in Pipelines!CodecsOf(p)
                        /\ request.kind = "video" => result.codecs # {}
      BY DEF Pipelines!BuiltWorks
    <2>1. /\ Would(browser, request, result.entry)
          /\ result.codecs = Common(browser, result.entry, request.wanted)
      BY DEF PipelinesInv
    <2> QED
      BY <2>1, SaysTheSame DEF Would, Common, Way
  <1>3. Pipelines!DefaultIsFound
    <2> SUFFICES ASSUME result.state = "error", ~request.force
                 PROVE  \A i \in {1, Len(Pipelines!Table)} :
                           ~(/\ Pipelines!Usable(Pipelines!Table[i])
                             /\ Pipelines!Connects(Pipelines!Table[i]))
      BY DEF Pipelines!DefaultIsFound
    <2> DEFINE T == Pipelines!Table
    <2>1. Len(T) \in 1..7 /\ \A i \in 1..Len(T) : ~Would(browser, request, T[i])
      <3>1. Passed(browser, request, Len(TableOf(request)) + 1)
            /\ T = TableOf(request) /\ Len(T) \in 1..7
        BY PipelinesTypes DEF PipelinesInv
      <3>2. \A i \in 1..Len(T) : i < Len(T) + 1
        BY <3>1
      <3> QED
        BY <3>1, <3>2 DEF Passed
    <2>2. 1 \in 1..Len(T) /\ Len(T) \in 1..Len(T)
      <3> DEFINE n == Len(T)
      <3>1. n \in 1..7
        BY <2>1, Zenon
      <3> HIDE DEF n
      <3>2. 1 \in 1..n /\ n \in 1..n
        BY <3>1
      <3> QED
        BY <3>2 DEF n
    <2> QED
      BY <2>1, <2>2, SaysTheSame
  <1> QED
    BY <1>1, <1>2, <1>3

-------------------------------------------------------------------------------
(* The pipeline in a worker *)

\* The canvas is set, or on its way before the n-th message, unless the worker has failed.
CanvasBefore(n) ==
    canvas \/ pipelineErrored \/ \E j \in 1..Len(toWorker) : j < n /\ toWorker[j] = "canvas"

\* The set-up has come back, or is on its way before the n-th message.
SetUpBefore(n) == rendererSetUp \/ \E j \in 1..Len(workerToPage) : j < n /\ workerToPage[j] = "setUp"

\* Pictures may come out of the pipes in the worker.
MayShow == stage = "done" \/ workerReading \/ (kind = "track" /\ workerPictures > 0)

\* What is on its way to the worker: the pipeline first, and the canvas before whatever is
\* drawn on it.
ToWorkerFits ==
    /\ \A i \in 1..Len(toWorker) :
          /\ toWorker[i] = "create" => i = 1 /\ ~pipelineErrored
          /\ toWorker[i] = "track" => kind # "track"
          /\ kind = "canvas" /\ toWorker[i] \in InWorker!Input => CanvasBefore(i)
    /\ kind = "canvas" /\ page = "mounted" => CanvasBefore(Len(toWorker) + 1)

\* What is on its way back: the set-up before anything else, and one track.
ToPageFits ==
    /\ \A i \in 1..Len(workerToPage) :
          /\ workerToPage[i] # "setUp" => SetUpBefore(i)
          /\ workerToPage[i] = "track" => ~isFirstSample /\ ~attached
    /\ \A i, j \in 1..Len(workerToPage) :
          workerToPage[i] = "track" /\ workerToPage[j] = "track" => i = j
    /\ MayShow /\ page # "gone" => SetUpBefore(Len(workerToPage) + 1)

WorkerInv ==
    /\ InWorker!TypeOK
    /\ currentPipeline => ~pipelineErrored
    /\ kind # "canvas" /\ (workerShown > 0 \/ attached) => rendererSetUp
    /\ trackProcessor => kind # "track" /\ (kind = "canvas" => canvas)
    /\ workerReading => trackProcessor
    /\ attached => ~isFirstSample
    /\ page = "gone" => toWorker = <<>> /\ workerToPage = <<>>
    /\ ToWorkerFits /\ ToPageFits

\* To begin with only the pipeline is on its way.
LEMMA WorkerInit ==
    ASSUME WorkerConstants, InWorker!Init
    PROVE  WorkerInv
  <1>1. /\ InWorker!TypeOK /\ Len(toWorker) = 1 /\ toWorker[1] = "create" /\ workerToPage = <<>>
    <2>1. toWorker = <<"create">> /\ workerToPage = <<>>
      BY DEF InWorker!Init
    <2>2. <<"create">> \in Seq(InWorker!Message) /\ <<>> \in Seq(InWorker!Output)
      BY DEF InWorker!Message, InWorker!Output
    <2>3. InWorker!TypeOK
      <3>1. /\ {submitted, workerMade, workerBuffered, workerPictures, workerShown} \subseteq Nat
            /\ {setUpPosted, currentPipeline, canvas, pipelineErrored, trackProcessor,
                workerReading, isFirstSample, rendererSetUp, attached} \subseteq BOOLEAN
        <4>1. TRUE \in BOOLEAN /\ FALSE \in BOOLEAN /\ 0 \in Nat
          OBVIOUS
        <4>2. /\ submitted = 0 /\ workerMade = 0 /\ workerBuffered = 0 /\ workerPictures = 0
              /\ workerShown = 0 /\ setUpPosted = FALSE /\ currentPipeline = FALSE
              /\ canvas = FALSE /\ pipelineErrored = FALSE /\ trackProcessor = FALSE
              /\ workerReading = FALSE /\ isFirstSample = TRUE /\ rendererSetUp = FALSE
              /\ attached = FALSE
          BY DEF InWorker!Init
        <4> QED
          BY <4>1, <4>2, Zenon
      <3>2. /\ kind \in {"canvas", "frames", "track"} /\ page = "constructed" /\ stage = "none"
        BY DEF InWorker!Init
      <3> QED
        BY <2>1, <2>2, <3>1, <3>2 DEF InWorker!TypeOK
    <2> QED
      BY <2>1, <2>3
  <1>2. ToWorkerFits
    BY <1>1 DEF InWorker!Init, ToWorkerFits, InWorker!Input
  <1>3. ToPageFits
    BY <1>1 DEF InWorker!Init, ToPageFits, MayShow
  <1> QED
    BY <1>1, <1>2, <1>3 DEF InWorker!Init, WorkerInv

\* A message that is posted keeps what is on its way in order.
LEMMA PostedFits ==
    ASSUME WorkerConstants, WorkerInv, NEW m \in InWorker!Message,
           toWorker' = Append(toWorker, m), UNCHANGED <<kind, canvas, pipelineErrored>>,
           m # "create", m = "track" => kind # "track",
           page = "mounted" \/ (page = "constructed" /\ (kind = "canvas" => m = "canvas"))
    PROVE  ToWorkerFits'
  <1>0. PICK n : n = Len(toWorker)
    OBVIOUS
  <1>1. /\ toWorker' \in Seq(InWorker!Message) /\ Len(toWorker') = n + 1 /\ n \in Nat
        /\ toWorker'[n + 1] = m /\ \A i \in 1..n : toWorker'[i] = toWorker[i]
    BY <1>0, Posted DEF WorkerInv, InWorker!TypeOK
  <1>2. \A k \in 1..(n + 1) : CanvasBefore(k) => CanvasBefore(k)'
    <2> SUFFICES ASSUME NEW k \in 1..(n + 1), NEW j \in 1..n, j < k, toWorker[j] = "canvas"
                 PROVE  j \in 1..Len(toWorker') /\ toWorker'[j] = "canvas"
      BY <1>0 DEF CanvasBefore
    <2> QED
      BY <1>1
  <1>3. kind = "canvas" => m = "canvas" \/ CanvasBefore(n + 1)
    BY <1>0 DEF WorkerInv, ToWorkerFits
  <1>4. kind = "canvas" => CanvasBefore(n + 2)'
    <2>1. CASE m = "canvas"
      BY <1>1, <2>1 DEF CanvasBefore
    <2>2. CASE kind = "canvas" /\ CanvasBefore(n + 1)
      <3>1. CanvasBefore(n + 1)'
        BY <1>1, <1>2, <2>2
      <3> QED
        BY <1>1, <3>1 DEF CanvasBefore
    <2> QED
      BY <1>3, <2>1, <2>2
  <1>5. ASSUME NEW i \in 1..Len(toWorker')
        PROVE  /\ toWorker'[i] = "create" => i = 1 /\ ~pipelineErrored'
               /\ toWorker'[i] = "track" => kind' # "track"
               /\ kind' = "canvas" /\ toWorker'[i] \in InWorker!Input => CanvasBefore(i)'
    <2>1. CASE i = n + 1
      <3>1. kind = "canvas" /\ m \in InWorker!Input => CanvasBefore(n + 1)'
        BY <1>1, <1>2, <1>3 DEF InWorker!Input
      <3> QED
        BY <1>1, <2>1, <3>1
    <2>2. CASE i \in 1..n
      <3>1. /\ toWorker[i] = "create" => i = 1 /\ ~pipelineErrored
            /\ toWorker[i] = "track" => kind # "track"
            /\ kind = "canvas" /\ toWorker[i] \in InWorker!Input => CanvasBefore(i)
        BY <1>0, <2>2 DEF WorkerInv, ToWorkerFits
      <3> QED
        BY <1>1, <1>2, <2>2, <3>1
    <2> QED
      BY <1>1, <1>5, <2>1, <2>2
  <1>6. Len(toWorker') + 1 = n + 2
    BY <1>1
  <1> QED
    BY <1>4, <1>5, <1>6 DEF ToWorkerFits

\* So does one that is taken, if the canvas is when it is.
LEMMA TakenFits ==
    ASSUME WorkerConstants, WorkerInv, toWorker # <<>>,
           toWorker' = Tail(toWorker), UNCHANGED <<kind, page>>,
           canvas => canvas', pipelineErrored => pipelineErrored',
           Head(toWorker) = "canvas" => canvas' \/ pipelineErrored'
    PROVE  ToWorkerFits'
  <1>0. PICK n : n = Len(toWorker)
    OBVIOUS
  <1>1. /\ toWorker' \in Seq(InWorker!Message) /\ Len(toWorker') = n - 1 /\ n \in Nat /\ n > 0
        /\ \A i \in 1..(n - 1) : toWorker'[i] = toWorker[i + 1]
        /\ Head(toWorker) = toWorker[1]
    BY <1>0, Taken DEF WorkerInv, InWorker!TypeOK
  <1>2. \A k \in 1..n : CanvasBefore(k + 1) => CanvasBefore(k)'
    <2> SUFFICES ASSUME NEW k \in 1..n, NEW j \in 1..n, j < k + 1, toWorker[j] = "canvas",
                        ~canvas', ~pipelineErrored'
                 PROVE  \E l \in 1..Len(toWorker') : l < k /\ toWorker'[l] = "canvas"
      BY <1>0 DEF CanvasBefore
    <2>1. j # 1
      BY <1>1
    <2>2. j - 1 \in 1..(n - 1) /\ j - 1 < k /\ toWorker'[j - 1] = toWorker[j]
      BY <1>1, <2>1
    <2> QED
      BY <1>1, <2>2
  <1>3. ASSUME NEW i \in 1..Len(toWorker')
        PROVE  /\ toWorker'[i] # "create"
               /\ toWorker'[i] = "track" => kind' # "track"
               /\ kind' = "canvas" /\ toWorker'[i] \in InWorker!Input => CanvasBefore(i)'
    <2>1. i + 1 \in 1..n /\ i \in 1..n /\ toWorker'[i] = toWorker[i + 1] /\ i + 1 # 1
      BY <1>1
    <2>2. /\ toWorker[i + 1] = "create" => i + 1 = 1
          /\ toWorker[i + 1] = "track" => kind # "track"
          /\ kind = "canvas" /\ toWorker[i + 1] \in InWorker!Input => CanvasBefore(i + 1)
      BY <1>0, <2>1 DEF WorkerInv, ToWorkerFits
    <2> QED
      BY <1>2, <2>1, <2>2
  <1>4. kind' = "canvas" /\ page' = "mounted" => CanvasBefore(Len(toWorker) + 1)'
    <2>1. kind = "canvas" /\ page = "mounted" => CanvasBefore(n + 1)
      BY <1>0 DEF WorkerInv, ToWorkerFits
    <2>2. Len(toWorker') + 1 = n /\ n \in 1..n
      BY <1>1
    <2> QED
      BY <1>2, <2>1, <2>2
  <1> QED
    BY <1>3, <1>4 DEF ToWorkerFits

\* What is sent back behind the set-up, or is the set-up, keeps what comes back in order.
LEMMA SentBackFits ==
    ASSUME WorkerConstants, WorkerInv, NEW m \in InWorker!Output,
           workerToPage' = Append(workerToPage, m), UNCHANGED <<page, rendererSetUp, attached>>,
           page # "gone", m # "setUp" => MayShow, m = "track" => isFirstSample /\ ~isFirstSample',
           isFirstSample' => isFirstSample, MayShow' => MayShow \/ m = "setUp"
    PROVE  ToPageFits'
  <1>0. PICK n : n = Len(workerToPage)
    OBVIOUS
  <1>1. /\ workerToPage' \in Seq(InWorker!Output) /\ Len(workerToPage') = n + 1 /\ n \in Nat
        /\ workerToPage'[n + 1] = m /\ \A i \in 1..n : workerToPage'[i] = workerToPage[i]
    BY <1>0, Posted DEF WorkerInv, InWorker!TypeOK
  <1>2. \A k \in 1..(n + 1) : SetUpBefore(k) => SetUpBefore(k)'
    <2> SUFFICES ASSUME NEW k \in 1..(n + 1), NEW j \in 1..n, j < k, workerToPage[j] = "setUp"
                 PROVE  j \in 1..Len(workerToPage') /\ workerToPage'[j] = "setUp"
      BY <1>0 DEF SetUpBefore
    <2> QED
      BY <1>1
  <1>3. MayShow => SetUpBefore(n + 1)
    BY <1>0 DEF WorkerInv, ToPageFits
  <1>4. ASSUME NEW i \in 1..Len(workerToPage')
        PROVE  /\ workerToPage'[i] # "setUp" => SetUpBefore(i)'
               /\ workerToPage'[i] = "track" => ~isFirstSample' /\ ~attached'
    <2>1. CASE i = n + 1
      <3>1. m # "setUp" => SetUpBefore(n + 1)'
        BY <1>1, <1>2, <1>3
      <3>2. m = "track" => ~isFirstSample' /\ ~attached'
        BY DEF WorkerInv
      <3> QED
        BY <1>1, <2>1, <3>1, <3>2
    <2>2. CASE i \in 1..n
      <3>1. /\ workerToPage[i] # "setUp" => SetUpBefore(i)
            /\ workerToPage[i] = "track" => ~isFirstSample /\ ~attached
        BY <1>0, <2>2 DEF WorkerInv, ToPageFits
      <3> QED
        BY <1>1, <1>2, <2>2, <3>1
    <2> QED
      BY <1>1, <1>4, <2>1, <2>2
  <1>5. ASSUME NEW i \in 1..Len(workerToPage'), NEW j \in 1..Len(workerToPage'),
               workerToPage'[i] = "track", workerToPage'[j] = "track"
        PROVE  i = j
    <2>1. \A k \in 1..n : workerToPage[k] = "track" => ~isFirstSample
      BY <1>0 DEF WorkerInv, ToPageFits
    <2>2. \A k, l \in 1..n : workerToPage[k] = "track" /\ workerToPage[l] = "track" => k = l
      BY <1>0 DEF WorkerInv, ToPageFits
    <2> QED
      BY <1>1, <1>5, <2>1, <2>2
  <1>6. MayShow' => SetUpBefore(Len(workerToPage) + 1)'
    <2>1. CASE m = "setUp"
      BY <1>1, <2>1 DEF SetUpBefore
    <2>2. CASE MayShow
      <3>1. SetUpBefore(n + 1)'
        BY <1>1, <1>2, <1>3, <2>2
      <3> QED
        BY <1>1, <3>1 DEF SetUpBefore
    <2> QED
      BY <2>1, <2>2
  <1> QED
    BY <1>4, <1>5, <1>6 DEF ToPageFits

\* So does a step that sends nothing back and begins to show nothing.
LEMMA NothingBackFits ==
    ASSUME WorkerInv, UNCHANGED <<workerToPage, rendererSetUp, attached, page>>,
           isFirstSample' => isFirstSample, MayShow' => MayShow
    PROVE  ToPageFits'
  BY DEF WorkerInv, ToPageFits, SetUpBefore

\* What the page posts keeps everything in order.
LEMMA PostsKeep ==
    ASSUME WorkerConstants, WorkerInv, InWorker!Mount \/ InWorker!Setup \/ InWorker!Submit
    PROVE  WorkerInv'
  <1>1. /\ UNCHANGED <<kind, workerToPage, canvas, pipelineErrored, currentPipeline>>
        /\ UNCHANGED <<stage, trackProcessor, workerReading, workerMade, workerBuffered,
                       workerPictures, isFirstSample, rendererSetUp, attached, workerShown>>
    BY DEF InWorker!Mount, InWorker!Setup, InWorker!Submit, InWorker!worker, InWorker!pipes,
           InWorker!seen
  <1>2. /\ page' = "mounted" /\ page # "gone"
        /\ setUpPosted' \in BOOLEAN /\ submitted' \in Nat
    <2>1. page' = "mounted" /\ page # "gone"
      BY DEF InWorker!Mount, InWorker!Setup, InWorker!Submit
    <2>2. setUpPosted' \in BOOLEAN
      <3>1. setUpPosted \in BOOLEAN /\ TRUE \in BOOLEAN
        BY DEF WorkerInv, InWorker!TypeOK
      <3>2. setUpPosted' = setUpPosted \/ setUpPosted' = TRUE
        BY DEF InWorker!Mount, InWorker!Setup, InWorker!Submit
      <3> QED
        BY <3>1, <3>2, Zenon
    <2>3. submitted' \in Nat
      <3>1. submitted \in Nat
        BY DEF WorkerInv, InWorker!TypeOK
      <3>2. submitted' = submitted \/ submitted' = submitted + 1
        BY DEF InWorker!Mount, InWorker!Setup, InWorker!Submit
      <3> QED
        BY <3>1, <3>2
    <2> QED
      BY <2>1, <2>2, <2>3
  <1>3. ToPageFits'
    BY <1>1, <1>2 DEF WorkerInv, ToPageFits, MayShow, SetUpBefore
  <1>4. ToWorkerFits' /\ toWorker' \in Seq(InWorker!Message)
    <2>1. CASE InWorker!Mount /\ kind # "canvas"
      <3>1. toWorker' = toWorker
        BY <2>1 DEF InWorker!Mount
      <3> QED
        BY <1>1, <2>1, <3>1 DEF WorkerInv, ToWorkerFits, InWorker!TypeOK, CanvasBefore
    <2>2. CASE InWorker!Mount /\ kind = "canvas"
      <3>1. toWorker' = Append(toWorker, "canvas") /\ page = "constructed"
        BY <2>2 DEF InWorker!Mount
      <3>2. "canvas" \in InWorker!Message
        BY DEF InWorker!Message
      <3> QED
        BY <1>1, <3>1, <3>2, PostedFits, Posted DEF WorkerInv, InWorker!TypeOK
    <2>3. CASE InWorker!Setup
      <3>1. toWorker' = Append(toWorker, "setUp") /\ page = "mounted"
        BY <2>3 DEF InWorker!Setup
      <3>2. "setUp" \in InWorker!Message
        BY DEF InWorker!Message, InWorker!Input
      <3> QED
        BY <1>1, <3>1, <3>2, PostedFits, Posted DEF WorkerInv, InWorker!TypeOK
    <2>4. CASE InWorker!Submit
      <3> DEFINE m == IF kind = "track" THEN "packet" ELSE "track"
      <3>1. toWorker' = Append(toWorker, m) /\ page = "mounted"
        BY <2>4 DEF InWorker!Submit
      <3>2. m \in InWorker!Message /\ m # "create" /\ (m = "track" => kind # "track")
        BY DEF InWorker!Message, InWorker!Input
      <3> HIDE DEF m
      <3> QED
        BY <1>1, <3>1, <3>2, PostedFits, Posted DEF WorkerInv, InWorker!TypeOK
    <2> QED
      BY <2>1, <2>2, <2>3, <2>4
  <1>5. InWorker!TypeOK'
    BY <1>1, <1>2, <1>4 DEF WorkerInv, InWorker!TypeOK
  <1> QED
    BY <1>1, <1>2, <1>3, <1>4, <1>5 DEF WorkerInv

\* A worker that has a pipeline has not failed, and gets the canvas before anything is drawn.
LEMMA TakesInOrder ==
    ASSUME WorkerConstants, WorkerInv, NEW m \in InWorker!Message, InWorker!Takes(m)
    PROVE  /\ toWorker # <<>> /\ toWorker' = Tail(toWorker) /\ Head(toWorker) = m
           /\ currentPipeline /\ ~pipelineErrored /\ page # "gone"
           /\ UNCHANGED <<kind, page, setUpPosted, submitted, currentPipeline, pipelineErrored,
                          rendererSetUp, attached, workerShown>>
           /\ toWorker' \in Seq(InWorker!Message)
           /\ m = "track" => kind # "track" /\ (kind = "canvas" => canvas)
  <1>1. /\ toWorker # <<>> /\ toWorker' = Tail(toWorker) /\ Head(toWorker) = m
        /\ currentPipeline /\ ~pipelineErrored
        /\ UNCHANGED <<kind, page, setUpPosted, submitted, currentPipeline, pipelineErrored,
                       rendererSetUp, attached, workerShown>>
    BY DEF InWorker!Takes, InWorker!posted, InWorker!seen
  <1>2. page # "gone"
    BY <1>1 DEF WorkerInv
  <1>3. toWorker' \in Seq(InWorker!Message) /\ Len(toWorker) \in Nat /\ Len(toWorker) > 0
        /\ toWorker[1] = m
    BY <1>1, Taken DEF WorkerInv, InWorker!TypeOK
  <1>4. m = "track" => kind # "track" /\ (kind = "canvas" => canvas)
    <2>1. 1 \in 1..Len(toWorker)
      BY <1>3
    <2>2. /\ toWorker[1] = "track" => kind # "track"
          /\ kind = "canvas" /\ toWorker[1] \in InWorker!Input => CanvasBefore(1)
      BY <2>1 DEF WorkerInv, ToWorkerFits
    <2>3. CanvasBefore(1) => canvas
      BY <1>1, <1>3 DEF CanvasBefore
    <2> QED
      BY <1>3, <2>2, <2>3 DEF InWorker!Input
  <1> QED
    BY <1>1, <1>2, <1>3, <1>4

\* The worker takes a message, or fails.
LEMMA TakesKeep ==
    ASSUME WorkerConstants, WorkerInv, InWorker!Taken
    PROVE  WorkerInv'
  <1> USE DEF WorkerInv, InWorker!TypeOK
  <1>0. \A m \in {"canvas", "setUp", "track", "packet"} : m \in InWorker!Message
    BY DEF InWorker!Message, InWorker!Input
  <1>1. CASE InWorker!CreatePipeline \/ InWorker!Refuse
    <2>1. /\ toWorker # <<>> /\ toWorker' = Tail(toWorker) /\ page # "gone"
          /\ UNCHANGED <<kind, workerToPage, page, setUpPosted, submitted, canvas, stage,
                         trackProcessor, workerReading, workerMade, workerBuffered,
                         workerPictures, isFirstSample, rendererSetUp, attached, workerShown>>
      BY <1>1 DEF InWorker!CreatePipeline, InWorker!Refuse, InWorker!posted, InWorker!pipes,
                  InWorker!seen
    <2>2. /\ toWorker' \in Seq(InWorker!Message) /\ Len(toWorker) \in Nat /\ Len(toWorker) > 0
          /\ Head(toWorker) = toWorker[1]
      BY <2>1, Taken
    <2>3. /\ currentPipeline' \in BOOLEAN /\ pipelineErrored' \in BOOLEAN
          /\ currentPipeline' => ~pipelineErrored'
          /\ pipelineErrored => pipelineErrored'
          /\ Head(toWorker) = "canvas" => canvas' \/ pipelineErrored'
      <3>1. CASE InWorker!CreatePipeline
        <4>1. Head(toWorker) = "create" /\ pipelineErrored' = pipelineErrored
              /\ currentPipeline' \in BOOLEAN
          BY <3>1 DEF InWorker!CreatePipeline
        <4>2. ~pipelineErrored
          <5>1. 1 \in 1..Len(toWorker)
            BY <2>2
          <5> QED
            BY <2>2, <4>1, <5>1 DEF ToWorkerFits
        <4> QED
          BY <4>1, <4>2
      <3>2. CASE InWorker!Refuse
        BY <3>2 DEF InWorker!Refuse
      <3> QED
        BY <1>1, <3>1, <3>2
    <2>4. ToWorkerFits'
      BY <2>1, <2>3, TakenFits
    <2>5. ToPageFits'
      BY <2>1, NothingBackFits DEF MayShow
    <2> QED
      BY <2>1, <2>2, <2>3, <2>4, <2>5
  <1>2. CASE InWorker!TakeCanvas
    <2>1. InWorker!Takes("canvas") /\ canvas' = TRUE
          /\ UNCHANGED <<workerToPage, stage, trackProcessor, workerReading, workerMade,
                         workerBuffered, workerPictures, isFirstSample>>
      BY <1>2 DEF InWorker!TakeCanvas, InWorker!pipes
    <2>2. ToWorkerFits'
      BY <1>0, <2>1, TakesInOrder, TakenFits
    <2>3. ToPageFits'
      BY <1>0, <2>1, TakesInOrder, NothingBackFits DEF MayShow
    <2> QED
      BY <1>0, <2>1, <2>2, <2>3, TakesInOrder
  <1>3. CASE InWorker!TakeSetUp
    <2>1. InWorker!Takes("setUp")
          /\ UNCHANGED <<canvas, trackProcessor, workerReading, workerMade, workerBuffered,
                         workerPictures, isFirstSample>>
      BY <1>3 DEF InWorker!TakeSetUp
    <2>2. ToWorkerFits'
      BY <1>0, <2>1, TakesInOrder, TakenFits
    <2>3. /\ ToPageFits' /\ workerToPage' \in Seq(InWorker!Output)
          /\ stage' \in {"none", "begun", "done", "failed"}
      <3>1. CASE kind = "track"
        <4>1. stage' = "begun" /\ workerToPage' = workerToPage
          BY <1>3, <3>1 DEF InWorker!TakeSetUp
        <4> QED
          BY <1>0, <2>1, <4>1, TakesInOrder, NothingBackFits DEF MayShow
      <3>2. CASE kind # "track"
        <4>1. stage' = "done" /\ workerToPage' = Append(workerToPage, "setUp")
          BY <1>3, <3>2 DEF InWorker!TakeSetUp
        <4>2. "setUp" \in InWorker!Output
          BY DEF InWorker!Output
        <4>3. workerToPage' \in Seq(InWorker!Output)
          BY <4>1, <4>2, Posted
        <4>4. ToPageFits'
          BY <1>0, <2>1, <4>1, <4>2, TakesInOrder, SentBackFits
        <4> QED
          BY <4>1, <4>3, <4>4
      <3> QED
        BY <3>1, <3>2
    <2> QED
      BY <1>0, <2>1, <2>2, <2>3, TakesInOrder
  <1>4. CASE InWorker!TakeTrack
    <2>1. InWorker!Takes("track") /\ trackProcessor' = TRUE
          /\ UNCHANGED <<workerToPage, canvas, stage, workerReading, workerMade, workerBuffered,
                         workerPictures, isFirstSample>>
      BY <1>4 DEF InWorker!TakeTrack
    <2>2. ToWorkerFits'
      BY <1>0, <2>1, TakesInOrder, TakenFits
    <2>3. ToPageFits'
      BY <1>0, <2>1, TakesInOrder, NothingBackFits DEF MayShow
    <2> QED
      BY <1>0, <2>1, <2>2, <2>3, TakesInOrder
  <1>5. CASE InWorker!TakePacket
    <2>1. InWorker!Takes("packet")
          /\ UNCHANGED <<workerToPage, canvas, stage, trackProcessor, workerReading, workerMade,
                         isFirstSample>>
      BY <1>5 DEF InWorker!TakePacket
    <2>2. workerBuffered' \in Nat /\ workerPictures' \in Nat
          /\ (workerPictures' = workerPictures \/ stage = "done")
      BY <1>5 DEF InWorker!TakePacket
    <2>3. ToWorkerFits'
      BY <1>0, <2>1, TakesInOrder, TakenFits
    <2>4. ToPageFits'
      <3>1. MayShow' => MayShow
        BY <1>0, <2>1, <2>2, TakesInOrder DEF MayShow
      <3> QED
        BY <1>0, <2>1, <3>1, TakesInOrder, NothingBackFits
    <2> QED
      BY <1>0, <2>1, <2>2, <2>3, <2>4, TakesInOrder
  <1> QED
    BY <1>1, <1>2, <1>3, <1>4, <1>5 DEF InWorker!Taken

\* What the pipes in the worker do by themselves
LEMMA PipesKeep ==
    ASSUME WorkerConstants, WorkerInv,
           InWorker!DecoderSetup \/ InWorker!DecoderError \/ InWorker!Look \/ InWorker!Picture
               \/ InWorker!ReadTrack \/ InWorker!OnOutput
    PROVE  WorkerInv'
  <1> USE DEF WorkerInv, InWorker!TypeOK
  <1>1. /\ UNCHANGED <<kind, toWorker, page, setUpPosted, submitted, currentPipeline, canvas,
                       pipelineErrored, trackProcessor, rendererSetUp, attached>>
        /\ page # "gone"
    BY DEF InWorker!DecoderSetup, InWorker!DecoderError, InWorker!Look, InWorker!Picture,
       InWorker!ReadTrack, InWorker!OnOutput, InWorker!posted, InWorker!worker, InWorker!seen
  <1>2. ToWorkerFits'
    BY <1>1 DEF ToWorkerFits, CanvasBefore
  <1>3. \A m \in {"setUp", "frame", "track"} :
          workerToPage' = Append(workerToPage, m) => workerToPage' \in Seq(InWorker!Output)
    BY Posted DEF InWorker!Output
  <1>4. \A m \in {"setUp", "frame", "track"} : m \in InWorker!Output
    BY DEF InWorker!Output
  <1>5. CASE InWorker!DecoderSetup
    <2>1. UNCHANGED <<workerReading, workerMade, workerBuffered, workerPictures, isFirstSample,
                      workerShown>>
      BY <1>5 DEF InWorker!DecoderSetup, InWorker!seen
    <2>2. CASE stage' = "done" /\ workerToPage' = Append(workerToPage, "setUp")
      <3>1. ToPageFits'
        BY <1>1, <1>4, <2>1, <2>2, SentBackFits
      <3> QED
        BY <1>1, <1>2, <1>3, <2>1, <2>2, <3>1
    <2>3. CASE stage' = "failed" /\ workerToPage' = workerToPage
      <3>1. ToPageFits'
        BY <1>1, <2>1, <2>3, NothingBackFits DEF MayShow
      <3> QED
        BY <1>1, <1>2, <2>1, <2>3, <3>1
    <2> QED
      BY <1>5, <2>2, <2>3 DEF InWorker!DecoderSetup
  <1>6. CASE InWorker!DecoderError
    <2>1. /\ stage' = "failed" /\ workerPictures' = 0
          /\ UNCHANGED <<workerToPage, workerReading, workerMade, workerBuffered, isFirstSample,
                         workerShown>>
      BY <1>6 DEF InWorker!DecoderError, InWorker!seen
    <2>2. ToPageFits'
      BY <1>1, <2>1, NothingBackFits DEF MayShow
    <2> QED
      BY <1>1, <1>2, <2>1, <2>2
  <1>7. CASE InWorker!Look
    <2>1. /\ stage = "done" /\ trackProcessor /\ workerReading' = TRUE
          /\ UNCHANGED <<workerToPage, stage, workerMade, workerBuffered, workerPictures,
                         isFirstSample, workerShown>>
      BY <1>7 DEF InWorker!Look, InWorker!Running, InWorker!seen
    <2>2. ToPageFits'
      BY <1>1, <2>1, NothingBackFits DEF MayShow
    <2> QED
      BY <1>1, <1>2, <2>1, <2>2
  <1>8. CASE InWorker!Picture
    <2>1. /\ workerMade' \in Nat /\ workerPictures' \in Nat /\ trackProcessor
          /\ UNCHANGED <<workerToPage, stage, workerReading, workerBuffered, isFirstSample,
                         workerShown>>
      BY <1>8 DEF InWorker!Picture, InWorker!seen
    <2>2. ToPageFits'
      BY <1>1, <2>1, NothingBackFits DEF MayShow
    <2> QED
      BY <1>1, <1>2, <2>1, <2>2
  <1>9. CASE InWorker!ReadTrack
    <2>1. /\ workerPictures' \in Nat /\ workerReading
          /\ UNCHANGED <<stage, workerReading, workerMade, workerBuffered, isFirstSample>>
      BY <1>9 DEF InWorker!ReadTrack
    <2>2. CASE kind = "canvas"
      <3>1. workerToPage' = workerToPage /\ workerShown' \in Nat
        BY <1>9, <2>2 DEF InWorker!ReadTrack
      <3>2. ToPageFits'
        BY <1>1, <2>1, <3>1, NothingBackFits DEF MayShow
      <3> QED
        BY <1>1, <1>2, <2>1, <2>2, <3>1, <3>2
    <2>3. CASE kind # "canvas"
      <3>1. workerToPage' = Append(workerToPage, "frame") /\ workerShown' = workerShown
        BY <1>9, <2>3 DEF InWorker!ReadTrack
      <3>2. ToPageFits'
        BY <1>1, <1>4, <2>1, <3>1, SentBackFits DEF MayShow
      <3> QED
        BY <1>1, <1>2, <1>3, <2>1, <3>1, <3>2
    <2> QED
      BY <2>2, <2>3
  <1>10. CASE InWorker!OnOutput
    <2>1. /\ workerPictures' \in Nat /\ kind = "track" /\ workerPictures > 0
          /\ isFirstSample' = FALSE
          /\ workerShown' \in Nat /\ (workerShown' = workerShown \/ attached)
          /\ UNCHANGED <<stage, workerReading, workerMade, workerBuffered>>
      BY <1>10 DEF InWorker!OnOutput
    <2>2. CASE isFirstSample
      <3>1. workerToPage' = Append(workerToPage, "track")
        BY <1>10, <2>2 DEF InWorker!OnOutput
      <3>2. ToPageFits'
        BY <1>1, <1>4, <2>1, <2>2, <3>1, SentBackFits DEF MayShow
      <3> QED
        BY <1>1, <1>2, <1>3, <2>1, <3>1, <3>2
    <2>3. CASE ~isFirstSample
      <3>1. workerToPage' = workerToPage
        BY <1>10, <2>3 DEF InWorker!OnOutput
      <3>2. ToPageFits'
        BY <1>1, <2>1, <3>1, NothingBackFits DEF MayShow
      <3> QED
        BY <1>1, <1>2, <2>1, <3>1, <3>2
    <2> QED
      BY <2>2, <2>3
  <1> QED
    BY <1>5, <1>6, <1>7, <1>8, <1>9, <1>10

\* What the pipes on the page get from the worker, and the end
LEMMA BackKeeps ==
    ASSUME WorkerConstants, WorkerInv, InWorker!TakeOutput \/ InWorker!Cleanup
    PROVE  WorkerInv'
  <1> USE DEF WorkerInv, InWorker!TypeOK
  <1>1. CASE InWorker!TakeOutput
    <2>0. PICK n : n = Len(workerToPage)
      OBVIOUS
    <2>1. /\ workerToPage # <<>> /\ workerToPage' = Tail(workerToPage)
          /\ rendererSetUp' = (rendererSetUp \/ Head(workerToPage) = "setUp")
          /\ attached' = (attached \/ Head(workerToPage) = "track")
          /\ workerShown' = IF Head(workerToPage) = "frame" THEN workerShown + 1 ELSE workerShown
          /\ UNCHANGED <<kind, toWorker, page, setUpPosted, submitted, currentPipeline, canvas,
                         pipelineErrored, stage, trackProcessor, workerReading, workerMade,
                         workerBuffered, workerPictures, isFirstSample>>
      BY <1>1 DEF InWorker!TakeOutput, InWorker!posted, InWorker!worker, InWorker!pipes
    <2>2. /\ workerToPage' \in Seq(InWorker!Output) /\ Len(workerToPage') = n - 1
          /\ n \in Nat /\ n > 0 /\ Head(workerToPage) = workerToPage[1]
          /\ \A i \in 1..(n - 1) : workerToPage'[i] = workerToPage[i + 1]
      BY <2>0, <2>1, Taken
    <2>3. /\ rendererSetUp' \in BOOLEAN /\ attached' \in BOOLEAN /\ workerShown' \in Nat
          /\ page # "gone"
      BY <2>1
    <2>4. \A k \in 1..n : SetUpBefore(k + 1) => SetUpBefore(k)'
      <3> SUFFICES ASSUME NEW k \in 1..n, NEW j \in 1..n, j < k + 1, workerToPage[j] = "setUp",
                          ~rendererSetUp'
                   PROVE  \E l \in 1..Len(workerToPage') : l < k /\ workerToPage'[l] = "setUp"
        BY <2>0, <2>1 DEF SetUpBefore
      <3>1. j # 1
        BY <2>1, <2>2
      <3>2. j - 1 \in 1..(n - 1) /\ j - 1 < k /\ workerToPage'[j - 1] = workerToPage[j]
        <4>1. j - 1 \in 1..(n - 1) /\ j - 1 < k /\ (j - 1) + 1 = j
          BY <2>2, <3>1
        <4> QED
          BY <2>2, <4>1
      <3> QED
        BY <2>2, <3>2
    <2>5. \A i \in 1..n : /\ workerToPage[i] # "setUp" => SetUpBefore(i)
                          /\ workerToPage[i] = "track" => ~isFirstSample /\ ~attached
      BY <2>0 DEF ToPageFits
    <2>6. \A i, j \in 1..n : workerToPage[i] = "track" /\ workerToPage[j] = "track" => i = j
      BY <2>0 DEF ToPageFits
    <2>7. workerToPage[1] # "setUp" => rendererSetUp
      <3>1. 1 \in 1..n /\ \A j \in 1..n : ~(j < 1)
        BY <2>2
      <3> QED
        BY <2>0, <2>5, <3>1 DEF SetUpBefore
    <2>8. ToPageFits'
      <3>1. ASSUME NEW i \in 1..Len(workerToPage')
            PROVE  /\ workerToPage'[i] # "setUp" => SetUpBefore(i)'
                   /\ workerToPage'[i] = "track" => ~isFirstSample' /\ ~attached'
        <4>1. i + 1 \in 1..n /\ i \in 1..n /\ workerToPage'[i] = workerToPage[i + 1]
              /\ 1 \in 1..n /\ i + 1 # 1
          BY <2>2
        <4>2. workerToPage[i + 1] = "track" => workerToPage[1] # "track"
          BY <2>6, <4>1
        <4>3. workerToPage'[i] # "setUp" => SetUpBefore(i)'
          BY <2>4, <2>5, <4>1
        <4>4. workerToPage[i + 1] = "track" => ~isFirstSample' /\ ~attached'
          <5>1. attached' <=> attached \/ workerToPage[1] = "track"
            BY <2>1, <2>2
          <5>2. isFirstSample' = isFirstSample
            BY <2>1
          <5> QED
            BY <2>5, <4>1, <4>2, <5>1, <5>2
        <4> QED
          BY <4>1, <4>3, <4>4
      <3>2. ASSUME NEW i \in 1..Len(workerToPage'), NEW j \in 1..Len(workerToPage'),
                   workerToPage'[i] = "track", workerToPage'[j] = "track"
            PROVE  i = j
        <4>1. i + 1 \in 1..n /\ j + 1 \in 1..n /\ workerToPage'[i] = workerToPage[i + 1]
              /\ workerToPage'[j] = workerToPage[j + 1]
          <5>1. i \in 1..(n - 1) /\ j \in 1..(n - 1)
            BY <2>2
          <5>2. i + 1 \in 1..n /\ j + 1 \in 1..n
            BY <2>2, <5>1
          <5> QED
            BY <2>2, <5>1, <5>2
        <4>2. i + 1 = j + 1
          BY <2>6, <3>2, <4>1
        <4> QED
          BY <4>2
      <3>3. MayShow' => SetUpBefore(Len(workerToPage) + 1)'
        <4>1. MayShow' => SetUpBefore(n + 1)
          BY <2>0, <2>1, <2>3 DEF MayShow, ToPageFits
        <4>2. Len(workerToPage') + 1 = n /\ n \in 1..n
          BY <2>2
        <4> QED
          BY <2>4, <4>1, <4>2
      <3> QED
        BY <3>1, <3>2, <3>3 DEF ToPageFits
    <2>9. ToWorkerFits'
      BY <2>1 DEF ToWorkerFits, CanvasBefore
    <2>10. attached' => ~isFirstSample'
      <3>1. 1 \in 1..n
        BY <2>2
      <3> QED
        BY <2>1, <2>2, <2>5, <3>1
    <2>11. kind' # "canvas" /\ (workerShown' > 0 \/ attached') => rendererSetUp'
      BY <2>1, <2>2, <2>7
    <2> QED
      BY <2>1, <2>2, <2>3, <2>8, <2>9, <2>10, <2>11
  <1>2. CASE InWorker!Cleanup
    <2>1. /\ page' = "gone" /\ toWorker' = <<>> /\ workerToPage' = <<>>
          /\ UNCHANGED <<kind, setUpPosted, submitted, currentPipeline, canvas, pipelineErrored,
                         stage, trackProcessor, workerReading, workerMade, workerBuffered,
                         workerPictures, isFirstSample, rendererSetUp, attached, workerShown>>
      BY <1>2 DEF InWorker!Cleanup, InWorker!worker, InWorker!pipes, InWorker!seen
    <2>2. ToWorkerFits' /\ ToPageFits'
      BY <2>1 DEF ToWorkerFits, ToPageFits
    <2> QED
      BY <2>1, <2>2
  <1> QED
    BY <1>1, <1>2

\* Every step of the pipeline keeps its order.
LEMMA WorkerKeeps ==
    ASSUME WorkerConstants, WorkerInv, InWorker!Next
    PROVE  WorkerInv'
  BY PostsKeep, TakesKeep, PipesKeep, BackKeeps DEF InWorker!Next

\* Whatever comes first, everything is set up before it is used.
LEMMA WorkerSound ==
    ASSUME WorkerInv
    PROVE  InWorker!SetupComesFirst
  <1>1. attached => \A i \in DOMAIN workerToPage : workerToPage[i] # "track"
    <2>1. DOMAIN workerToPage = 1..Len(workerToPage)
      BY DEF WorkerInv, InWorker!TypeOK
    <2> QED
      BY <2>1 DEF WorkerInv, ToPageFits
  <1> QED
    BY <1>1 DEF WorkerInv, InWorker!SetupComesFirst

-------------------------------------------------------------------------------
(* The player of sound *)

PlaybackInv == Playback!TypeOK /\ ~late

\* Nothing was played at the start.
LEMMA PlaybackInit ==
    ASSUME PlaybackConstants, Playback!Init
    PROVE  PlaybackInv
  <1>1. /\ setUp \in BOOLEAN /\ opusModule \in BOOLEAN /\ audioErrored \in BOOLEAN
        /\ isFirstPacket \in BOOLEAN /\ needsKey \in BOOLEAN /\ hadUserInteraction \in BOOLEAN
        /\ audioHeard \in BOOLEAN /\ resumes \in BOOLEAN /\ late \in BOOLEAN /\ gone \in BOOLEAN
        /\ ~late
    BY Zenon DEF Playback!Init
  <1>2. audioPlayer \in {"decoder", "pcm"} /\ ahead = Unset /\ audioContext = "null"
    BY DEF Playback!Init
  <1> QED
    BY <1>1, <1>2, Zenon DEF PlaybackInv, Playback!TypeOK

\* The flags of the player of sound stay true or false, and no packet starts in the past.
LEMMA PlaybackFlags ==
    ASSUME PlaybackConstants, PlaybackInv, Playback!Next
    PROVE  /\ setUp' \in BOOLEAN /\ opusModule' \in BOOLEAN /\ audioErrored' \in BOOLEAN
           /\ isFirstPacket' \in BOOLEAN /\ needsKey' \in BOOLEAN
           /\ hadUserInteraction' \in BOOLEAN /\ audioHeard' \in BOOLEAN
           /\ resumes' \in BOOLEAN /\ late' \in BOOLEAN /\ gone' \in BOOLEAN
           /\ audioPlayer' = audioPlayer
           /\ late' => Playback!StartAt(ahead) < 0
  <1>1. /\ setUp \in BOOLEAN /\ opusModule \in BOOLEAN /\ audioErrored \in BOOLEAN
        /\ isFirstPacket \in BOOLEAN /\ needsKey \in BOOLEAN /\ hadUserInteraction \in BOOLEAN
        /\ audioHeard \in BOOLEAN /\ resumes \in BOOLEAN /\ late \in BOOLEAN /\ gone \in BOOLEAN
        /\ ~late
    BY Zenon DEF PlaybackInv, Playback!TypeOK
  <1>2. CASE Playback!Setup \/ Playback!OpusLoaded \/ Playback!UserInteraction
             \/ Playback!Tick \/ Playback!Cleanup
    <2>1. CASE Playback!Setup
      BY <1>1, <2>1, Zenon DEF Playback!Setup, Playback!context
    <2>2. CASE Playback!OpusLoaded
      BY <1>1, <2>2, Zenon DEF Playback!OpusLoaded, Playback!context
    <2>3. CASE Playback!UserInteraction
      BY <1>1, <2>3, Zenon DEF Playback!UserInteraction, Playback!context
    <2>4. CASE Playback!Tick
      BY <1>1, <2>4, Zenon DEF Playback!Tick, Playback!context
    <2>5. CASE Playback!Cleanup
      BY <1>1, <2>5, Zenon DEF Playback!Cleanup, Playback!context
    <2> QED
      BY <1>2, <2>1, <2>2, <2>3, <2>4, <2>5, Zenon
  <1>3. CASE Playback!Packet
    <2>1. CASE Playback!PcmPacket
      BY <1>1, <1>3, <2>1, Zenon DEF Playback!Packet, Playback!PcmPacket, Playback!PlayPcm
    <2>2. CASE Playback!DecoderPacket
      BY <1>1, <1>3, <2>2, Zenon DEF Playback!Packet, Playback!DecoderPacket
    <2> QED
      BY <1>3, <2>1, <2>2 DEF Playback!Packet
  <1> QED
    BY <1>2, <1>3 DEF Playback!Next

\* Every step keeps the sound within its latency.
LEMMA PlaybackKeeps ==
    ASSUME PlaybackConstants, PlaybackInv, Playback!Next
    PROVE  PlaybackInv'
  <1> USE DEF PlaybackConstants
  <1>1. ahead \in (-Slack)..(MaxLatency + Duration) \cup {Unset}
    BY DEF PlaybackInv, Playback!TypeOK
  <1>2. Playback!StartAt(ahead) \in 0..MaxLatency
    BY <1>1 DEF Playback!StartAt
  <1>3. /\ ahead' = ahead \/ ahead' = Playback!StartAt(ahead) + Duration
           \/ (ahead # Unset /\ ahead > -Slack /\ ahead' = ahead - 1)
    BY Zenon DEF Playback!Next, Playback!Setup, Playback!OpusLoaded, Playback!UserInteraction,
       Playback!Tick, Playback!Cleanup, Playback!Packet, Playback!PcmPacket, Playback!PlayPcm,
       Playback!DecoderPacket
  <1>4. ahead' \in (-Slack)..(MaxLatency + Duration) \cup {Unset}
    BY <1>1, <1>2, <1>3
  <1>5. ~late'
    <2>1. ~(Playback!StartAt(ahead) < 0)
      BY <1>2
    <2> QED
      BY <2>1, PlaybackFlags
  <1>6. audioPlayer' \in {"decoder", "pcm"}
    BY PlaybackFlags DEF PlaybackInv, Playback!TypeOK
  <1>7. audioContext' \in {"null", "suspended", "running"}
    <2>1. audioContext \in {"null", "suspended", "running"}
      BY DEF PlaybackInv, Playback!TypeOK
    <2>2. audioContext' \in {audioContext, "null", "suspended", "running"}
      BY Zenon DEF Playback!Next, Playback!Setup, Playback!OpusLoaded, Playback!UserInteraction,
         Playback!Tick, Playback!Cleanup, Playback!Packet, Playback!PcmPacket, Playback!PlayPcm,
         Playback!DecoderPacket, Playback!context
    <2> QED
      BY <2>1, <2>2
  <1> QED
    BY <1>4, <1>5, <1>6, <1>7, PlaybackFlags, Zenon DEF PlaybackInv, Playback!TypeOK

\* So it does not lag, and no packet is asked to start in the past.
LEMMA PlaybackRight == PlaybackConstants /\ PlaybackInv => Playback!LatencyBounded
  BY DEF PlaybackConstants, PlaybackInv, Playback!TypeOK, Playback!LatencyBounded

-------------------------------------------------------------------------------
(* The statistics *)

\* A channel has no more listeners than there were occasions to listen to it.
StatsInv ==
    /\ Stats!TypeOK /\ Stats!StatsFollowTransport
    /\ \A t \in Stats!Transports : listeners[t] <= toggles + statsTransport

\* At the start there are no statistics.
LEMMA StatsInit ==
    ASSUME StatsConstants, Stats!Init
    PROVE  StatsInv
  <1>1. enabled \in BOOLEAN /\ interval \in BOOLEAN /\ ~enabled
    BY Zenon DEF Stats!Init
  <1> QED
    BY <1>1 DEF StatsConstants, Stats!Init, StatsInv, Stats!TypeOK, Stats!StatsFollowTransport,
       Stats!Transports

\* Every step of the statistics leaves them those of the transport in use.
LEMMA StatsKeeps ==
    ASSUME StatsConstants, StatsInv, Stats!Next
    PROVE  StatsInv'
  <1> USE DEF StatsConstants, Stats!Transports
  <1>0. /\ enabled \in BOOLEAN /\ interval \in BOOLEAN
        /\ statsTransport \in 0..MaxTransports /\ statsChannel \in 0..MaxTransports
        /\ statsShown \in 0..MaxTransports /\ toggles \in 0..MaxToggles
        /\ listeners \in [Stats!Transports -> 0..(MaxToggles + MaxTransports)]
        /\ statsAsked \subseteq Stats!Transports
        /\ \A t \in Stats!Transports : listeners[t] <= toggles + statsTransport
    BY DEF StatsInv, Stats!TypeOK
  <1>1. ASSUME NEW on \in BOOLEAN, NEW t \in 0..MaxTransports, Stats!CheckEnabled(on, t),
               NEW n \in Nat, n <= MaxToggles + MaxTransports,
               \A u \in Stats!Transports : listeners[u] + 1 <= n
        PROVE  /\ listeners' \in [Stats!Transports -> 0..(MaxToggles + MaxTransports)]
               /\ \A u \in Stats!Transports : listeners'[u] <= n
               /\ statsChannel' \in 0..MaxTransports
               /\ on => statsChannel' = t /\ (t # 0 => listeners'[t] > 0)
    <2>1. CASE on
      <3>1. /\ statsChannel' = t
            /\ listeners' = [u \in Stats!Transports |->
                               IF u = t /\ u = Stats!ChannelFor(t) THEN listeners[u] + 1
                                                                   ELSE listeners[u]]
        BY <1>1, <2>1 DEF Stats!CheckEnabled, Stats!ChannelFor
      <3>2. t # 0 => t \in Stats!Transports
        OBVIOUS
      <3> QED
        BY <1>0, <1>1, <2>1, <3>1, <3>2 DEF Stats!ChannelFor
    <2>2. CASE ~on
      BY <1>0, <1>1, <2>2 DEF Stats!CheckEnabled
    <2> QED
      BY <2>1, <2>2
  <1>2. CASE Stats!SetTransport
    <2>1. /\ statsTransport < MaxTransports /\ statsTransport' = statsTransport + 1
          /\ Stats!CheckEnabled(enabled, statsTransport + 1)
          /\ UNCHANGED <<enabled, statsAsked, statsShown, toggles>>
      BY <1>2 DEF Stats!SetTransport
    <2>2. interval' \in BOOLEAN /\ (interval' <=> enabled) /\ enabled' \in BOOLEAN
      BY <1>0, <2>1, Zenon DEF Stats!CheckEnabled
    <2> DEFINE n == toggles + statsTransport + 1
    <2>3. /\ statsTransport + 1 \in 0..MaxTransports /\ n \in Nat
          /\ n <= MaxToggles + MaxTransports
          /\ \A u \in Stats!Transports : listeners[u] + 1 <= n
      BY <1>0, <2>1
    <2>4. /\ listeners' \in [Stats!Transports -> 0..(MaxToggles + MaxTransports)]
          /\ \A u \in Stats!Transports : listeners'[u] <= n
          /\ statsChannel' \in 0..MaxTransports
          /\ enabled => statsChannel' = statsTransport + 1 /\ listeners'[statsTransport + 1] > 0
      BY <1>0, <1>1, <2>1, <2>3
    <2>5. n = toggles' + statsTransport'
      BY <1>0, <2>1
    <2> HIDE DEF n
    <2>6. Stats!TypeOK'
      BY <1>0, <2>1, <2>2, <2>3, <2>4 DEF Stats!TypeOK
    <2>7. Stats!StatsFollowTransport'
      BY <2>1, <2>2, <2>4 DEF Stats!StatsFollowTransport
    <2> QED
      BY <2>4, <2>5, <2>6, <2>7 DEF StatsInv
  <1>3. CASE Stats!Toggle
    <2>1. /\ toggles < MaxToggles /\ toggles' = toggles + 1
          /\ Stats!CheckEnabled(~enabled, statsTransport)
          /\ UNCHANGED <<statsTransport, statsAsked, statsShown>>
      BY <1>3 DEF Stats!Toggle
    <2>2. /\ interval' \in BOOLEAN /\ (interval' <=> ~enabled)
          /\ enabled' \in BOOLEAN /\ (enabled' <=> ~enabled)
      BY <1>0, <1>3, Zenon DEF Stats!CheckEnabled, Stats!Toggle
    <2> DEFINE n == toggles + 1 + statsTransport
    <2>3. /\ n \in Nat /\ n <= MaxToggles + MaxTransports
          /\ \A u \in Stats!Transports : listeners[u] + 1 <= n
      BY <1>0, <2>1
    <2> DEFINE on == ~enabled
    <2>4. on \in BOOLEAN
      BY Zenon
    <2>5. Stats!CheckEnabled(on, statsTransport)
      BY <2>1
    <2>6. enabled' => on
      BY <2>2, Zenon
    <2> HIDE DEF on
    <2>7. /\ listeners' \in [Stats!Transports -> 0..(MaxToggles + MaxTransports)]
          /\ \A u \in Stats!Transports : listeners'[u] <= n
          /\ statsChannel' \in 0..MaxTransports
          /\ on => /\ statsChannel' = statsTransport
                   /\ statsTransport # 0 => listeners'[statsTransport] > 0
      BY <1>0, <1>1, <2>3, <2>4, <2>5
    <2>8. n = toggles' + statsTransport'
      BY <1>0, <2>1
    <2> HIDE DEF n
    <2>9. Stats!TypeOK'
      BY <1>0, <2>1, <2>2, <2>7 DEF Stats!TypeOK
    <2>10. Stats!StatsFollowTransport'
      BY <2>1, <2>2, <2>6, <2>7 DEF Stats!StatsFollowTransport
    <2> QED
      BY <2>7, <2>8, <2>9, <2>10 DEF StatsInv
  <1>4. CASE Stats!AskTransport
    BY <1>0, <1>4 DEF StatsInv, Stats!TypeOK, Stats!StatsFollowTransport, Stats!AskTransport
  <1>5. CASE \E t \in Stats!Transports : Stats!Answer(t)
    BY <1>0, <1>5 DEF StatsInv, Stats!TypeOK, Stats!StatsFollowTransport, Stats!Answer
  <1> QED
    BY <1>2, <1>3, <1>4, <1>5 DEF Stats!Next

-------------------------------------------------------------------------------
(* The elements that play *)

\* What a player shows when it follows its track.
ShowsItsTrack(p) == p.tracks = IF p.oldTrack = NoTrack THEN {} ELSE {p.oldTrack}

\* A player that is not in use has nothing to play, and the one in use plays one track.
ElementsInv ==
    /\ Elements!TypeOK
    /\ \A i \in 1..elementMade : i # current => ~players[i].srcObject /\ players[i].context # "open"
    /\ current # 0 => ShowsItsTrack(players[current])

\* What a player that is cleaned up keeps is silent.
LEMMA CleanUpSilences ==
    ASSUME ElementsConstants, NEW p \in Elements!Player
    PROVE  /\ Elements!CleanUp(p) \in Elements!Player
           /\ ~Elements!CleanUp(p).srcObject
           /\ Elements!CleanUp(p).context # "open"
  BY DEF ElementsConstants, Elements!CleanUp, Elements!Player

\* A player that is given a track plays it instead of the one before.
LEMMA SetTrackReplaces ==
    ASSUME ElementsConstants, NEW p \in Elements!Player, NEW t \in ElementTracks \cup {Generated}
    PROVE  /\ Elements!SetTrack(p, t) \in Elements!Player
           /\ Elements!SetTrack(p, t).srcObject = p.srcObject
           /\ Elements!SetTrack(p, t).context = p.context
           /\ ShowsItsTrack(p) => ShowsItsTrack(Elements!SetTrack(p, t))
  BY DEF ElementsConstants, Elements!SetTrack, Elements!Player, ShowsItsTrack

\* A new player plays nothing yet.
LEMMA NewPlayerFits ==
    ASSUME ElementsConstants, NEW which \in Elements!Kinds
    PROVE  /\ Elements!NewPlayer(which) \in Elements!Player
           /\ ShowsItsTrack(Elements!NewPlayer(which))
  <1> DEFINE b == which # "node"
  <1>1. b \in BOOLEAN
    BY Zenon
  <1>2. Elements!NewPlayer(which) =
          [kind |-> which, mounted |-> TRUE, srcObject |-> b,
           tracks |-> {}, oldTrack |-> NoTrack, muted |-> TRUE, paused |-> TRUE,
           isFirstSample |-> TRUE, context |-> "none", source |-> FALSE]
    BY Zenon DEF Elements!NewPlayer
  <1> HIDE DEF b
  <1> QED
    BY <1>1, <1>2 DEF Elements!Player, ShowsItsTrack

\* A video that starts is the same player, no longer paused.
LEMMA StartsKeeps ==
    ASSUME ElementsConstants, NEW p \in Elements!Player, NEW q \in Elements!Starts(p)
    PROVE  /\ q \in Elements!Player /\ q.srcObject = p.srcObject /\ q.context = p.context
           /\ ShowsItsTrack(p) => ShowsItsTrack(q)
  <1>1. q = p \/ q = [p EXCEPT !.paused = FALSE]
    BY DEF Elements!Starts
  <1> QED
    BY <1>1 DEF Elements!Player, ShowsItsTrack

\* There is no player at the start.
LEMMA ElementsInit ==
    ASSUME ElementsConstants, Elements!Init
    PROVE  ElementsInv
  BY DEF ElementsConstants, Elements!Init, ElementsInv, Elements!TypeOK

\* Every step leaves the players that are not in use with nothing to play.
LEMMA ElementsKeeps ==
    ASSUME ElementsConstants, ElementsInv, Elements!Next
    PROVE  ElementsInv'
  <1>1. /\ medium \in {"video", "audio"}
        /\ elementMade \in 0..MaxPlayers /\ current \in 0..elementMade
        /\ players \in [1..elementMade -> Elements!Player]
        /\ \A i \in 1..elementMade :
              i # current => ~players[i].srcObject /\ players[i].context # "open"
        /\ current # 0 => ShowsItsTrack(players[current])
        /\ MaxPlayers \in Nat
    BY DEF ElementsConstants, ElementsInv, Elements!TypeOK
  <1>2. CASE \E k \in Elements!Kinds : Elements!Create(k)
    <2>1. PICK k \in Elements!Kinds : Elements!Create(k)
      BY <1>2
    <2>2. /\ elementMade' = elementMade + 1 /\ current' = elementMade + 1
          /\ elementMade + 1 \in 0..MaxPlayers /\ medium' = medium
          /\ players' = [i \in 1..(elementMade + 1) |->
                IF i = elementMade + 1 THEN Elements!NewPlayer(k) ELSE Elements!WithoutCurrent[i]]
      BY <1>1, <2>1 DEF Elements!Create
    <2>3. \A i \in 1..elementMade :
             /\ Elements!WithoutCurrent[i] \in Elements!Player
             /\ ~Elements!WithoutCurrent[i].srcObject
             /\ Elements!WithoutCurrent[i].context # "open"
      BY <1>1, CleanUpSilences DEF Elements!WithoutCurrent
    <2>4. \A i \in 1..(elementMade + 1) : i # elementMade + 1 => i \in 1..elementMade
      BY <1>1
    <2>5. players' \in [1..(elementMade + 1) -> Elements!Player]
      BY <2>2, <2>3, <2>4, NewPlayerFits
    <2>6. \A i \in 1..elementMade' :
              i # current' => ~players'[i].srcObject /\ players'[i].context # "open"
      BY <2>2, <2>3, <2>4
    <2>7. ShowsItsTrack(players'[current'])
      <3>1. players'[current'] = Elements!NewPlayer(k)
        BY <1>1, <2>2
      <3> QED
        BY <3>1, NewPlayerFits
    <2> QED
      BY <1>1, <2>2, <2>5, <2>6, <2>7 DEF ElementsInv, Elements!TypeOK, ShowsItsTrack
  <1>3. CASE \E t \in ElementTracks : Elements!Track(t)
    <2>1. PICK t \in ElementTracks : Elements!Track(t)
      BY <1>3
    <2>2. PICK starts \in BOOLEAN :
            players' = [i \in 1..elementMade |->
              IF players[i].kind # "track" THEN players[i]
              ELSE IF starts /\ Elements!SetTrack(players[i], t).srcObject
                   THEN [Elements!SetTrack(players[i], t) EXCEPT !.paused = FALSE]
                   ELSE Elements!SetTrack(players[i], t)]
      BY <2>1, Zenon DEF Elements!Track
    <2>3. UNCHANGED <<medium, elementMade, current>>
      BY <2>1 DEF Elements!Track
    <2>4. ASSUME NEW i \in 1..elementMade
          PROVE  /\ players'[i] \in Elements!Player
                 /\ players'[i].srcObject = players[i].srcObject
                 /\ players'[i].context = players[i].context
                 /\ ShowsItsTrack(players[i]) => ShowsItsTrack(players'[i])
      <3>1. players[i] \in Elements!Player
        BY <1>1
      <3> DEFINE p == Elements!SetTrack(players[i], t)
      <3>2. /\ p \in Elements!Player /\ p.srcObject = players[i].srcObject
            /\ p.context = players[i].context
            /\ ShowsItsTrack(players[i]) => ShowsItsTrack(p)
        BY <3>1, SetTrackReplaces
      <3>3. players'[i] \in {players[i], p, [p EXCEPT !.paused = FALSE]}
        BY <2>2
      <3> HIDE DEF p
      <3> QED
        BY <3>1, <3>2, <3>3 DEF Elements!Player, ShowsItsTrack
    <2>5. players' \in [1..elementMade -> Elements!Player]
      BY <2>2, <2>4
    <2>6. current # 0 => current \in 1..elementMade
      BY <1>1
    <2> QED
      BY <1>1, <2>3, <2>4, <2>5, <2>6 DEF ElementsInv, Elements!TypeOK, ShowsItsTrack
  <1>4. ASSUME current # 0, NEW p \in Elements!Player,
               players' = [players EXCEPT ![current] = p],
               UNCHANGED <<medium, elementMade, current>>, ShowsItsTrack(p)
        PROVE  ElementsInv'
    <2>1. current \in 1..elementMade
      BY <1>1, <1>4
    <2>2. /\ players' \in [1..elementMade -> Elements!Player]
          /\ players'[current] = p
          /\ \A i \in 1..elementMade : i # current => players'[i] = players[i]
      BY <1>1, <1>4, <2>1
    <2> QED
      BY <1>1, <1>4, <2>1, <2>2 DEF ElementsInv, Elements!TypeOK, ShowsItsTrack
  <1>5. current # 0 => players[current] \in Elements!Player
    BY <1>1
  <1>6. CASE Elements!Sample
    <2>1. PICK p \in Elements!Starts(Elements!SetTrack(players[current], Generated)) :
            players' = [players EXCEPT ![current] = [p EXCEPT !.isFirstSample = FALSE]]
      BY <1>6, Zenon DEF Elements!Sample
    <2>2. current # 0 /\ UNCHANGED <<medium, elementMade, current>>
      BY <1>6 DEF Elements!Sample
    <2>3. /\ Elements!SetTrack(players[current], Generated) \in Elements!Player
          /\ ShowsItsTrack(Elements!SetTrack(players[current], Generated))
      BY <1>1, <1>5, <2>2, SetTrackReplaces
    <2>4. p \in Elements!Player /\ ShowsItsTrack(p)
      BY <2>1, <2>3, StartsKeeps
    <2>5. /\ [p EXCEPT !.isFirstSample = FALSE] \in Elements!Player
          /\ ShowsItsTrack([p EXCEPT !.isFirstSample = FALSE])
      BY <2>4 DEF Elements!Player, ShowsItsTrack
    <2> QED
      BY <1>4, <2>1, <2>2, <2>5
  <1>7. CASE Elements!Setup
    <2> DEFINE p == [players[current] EXCEPT !.context = "open", !.source = TRUE]
    <2>1. current # 0 /\ UNCHANGED <<medium, elementMade, current>>
      BY <1>7 DEF Elements!Setup
    <2>2. current \in DOMAIN players
      BY <1>1, <2>1
    <2>3. players' = [players EXCEPT ![current] = p]
      BY <1>1, <1>5, <1>7, <2>1, <2>2 DEF Elements!Setup, Elements!Player
    <2>4. p \in Elements!Player /\ ShowsItsTrack(p)
      BY <1>1, <1>5, <2>1 DEF Elements!Player, ShowsItsTrack
    <2> QED
      BY <1>4, <2>1, <2>3, <2>4
  <1>8. CASE Elements!UserInteraction
    <2>1. current # 0 /\ UNCHANGED <<medium, elementMade, current>>
      BY <1>8 DEF Elements!UserInteraction
    <2>2. CASE medium = "audio"
      <3> DEFINE p == [players[current] EXCEPT !.muted = FALSE]
      <3>1. players' = [players EXCEPT ![current] = p]
        BY <1>1, <1>8, <2>2 DEF Elements!UserInteraction
      <3>2. p \in Elements!Player /\ ShowsItsTrack(p)
        BY <1>1, <1>5, <2>1 DEF Elements!Player, ShowsItsTrack
      <3> QED
        BY <1>4, <2>1, <3>1, <3>2
    <2>3. CASE medium # "audio"
      <3>1. PICK p \in Elements!Starts(players[current]) :
              players' = [players EXCEPT ![current] = p]
        BY <1>8, <2>3, Zenon DEF Elements!UserInteraction
      <3>2. p \in Elements!Player /\ ShowsItsTrack(p)
        BY <1>1, <1>5, <2>1, <3>1, StartsKeeps
      <3> QED
        BY <1>4, <2>1, <3>1, <3>2
    <2> QED
      BY <2>2, <2>3
  <1>9. CASE Elements!Destroy
    <2>1. players' = Elements!WithoutCurrent /\ current' = 0 /\ UNCHANGED <<medium, elementMade>>
      BY <1>9 DEF Elements!Destroy
    <2>2. /\ Elements!WithoutCurrent \in [1..elementMade -> Elements!Player]
          /\ \A i \in 1..elementMade :
               /\ ~Elements!WithoutCurrent[i].srcObject
               /\ Elements!WithoutCurrent[i].context # "open"
      BY <1>1, CleanUpSilences DEF Elements!WithoutCurrent
    <2> QED
      BY <1>1, <2>1, <2>2 DEF ElementsInv, Elements!TypeOK, ShowsItsTrack
  <1> QED
    BY <1>2, <1>3, <1>6, <1>7, <1>8, <1>9 DEF Elements!Next

\* Nothing but the player in use is seen or heard.
LEMMA ElementsSound ==
    ASSUME ElementsConstants, ElementsInv
    PROVE  Elements!OnlyCurrentPlays
  BY DEF ElementsConstants, ElementsInv, Elements!TypeOK, Elements!OnlyCurrentPlays,
     Elements!Plays, ShowsItsTrack

-------------------------------------------------------------------------------
(* The start page *)

PortalInv == Portal!TypeOK /\ Portal!AsksOnlyWhoMust

\* The page begins by asking who the viewer is.
LEMMA PortalInit ==
    ASSUME PortalConstants, Portal!Init
    PROVE  PortalInv
  BY DEF PortalConstants, Portal!Init, PortalInv, Portal!TypeOK, Portal!Requests,
     Portal!AsksOnlyWhoMust

\* Every step of the start page keeps who logs in by itself from being asked.
LEMMA PortalKeeps ==
    ASSUME PortalConstants, PortalInv, Portal!Next
    PROVE  PortalInv'
  <1> USE DEF PortalConstants, PortalInv, Portal!TypeOK, Portal!Requests
  <1>1. /\ autoLogin' = autoLogin /\ account' = account
        /\ up' \in BOOLEAN /\ desktop' \in BOOLEAN
        /\ autoLogin' \in BOOLEAN /\ account' \in BOOLEAN
    BY Zenon DEF Portal!Next, Portal!Page, Portal!Authenticate, Portal!LoginAuthenticate,
       Portal!FetchHosts, Portal!FetchApps, Portal!Request, Portal!Slept, Portal!Prompted,
       Portal!LoggedIn, Portal!NotLoggedIn, Portal!Confirmed, Portal!Down, Portal!Up,
       Portal!Expires, Portal!HostsChange, Portal!Trouble, Portal!server
  <1>2. hosts' \in 0..2 /\ troubles' \in 0..MaxTroubles /\ attempt' \in 0..LastDelay
    BY DEF Portal!Next, Portal!Page, Portal!Authenticate, Portal!LoginAuthenticate,
       Portal!FetchHosts, Portal!FetchApps, Portal!Request, Portal!Slept, Portal!Prompted,
       Portal!LoggedIn, Portal!NotLoggedIn, Portal!Confirmed, Portal!Down, Portal!Up,
       Portal!Expires, Portal!HostsChange, Portal!Trouble, Portal!server, Portal!NextAttempt
  <1>3. cookie' \in {"none", "valid", "stale"}
    BY DEF Portal!Next, Portal!Page, Portal!Authenticate, Portal!LoginAuthenticate,
       Portal!FetchHosts, Portal!FetchApps, Portal!Request, Portal!Slept, Portal!Prompted,
       Portal!LoggedIn, Portal!NotLoggedIn, Portal!Confirmed, Portal!Down, Portal!Up,
       Portal!Expires, Portal!HostsChange, Portal!WithRemovalCookie
  <1>4. /\ pc' \in Portal!Requests \cup {"prompt", "invalid", "sleep", "opened"}
        /\ pc' \in {"prompt", "login", "invalid"} =>
              pc \in {"prompt", "login", "invalid"} \/ ~autoLogin
    BY DEF Portal!Next, Portal!Page, Portal!Authenticate, Portal!LoginAuthenticate,
       Portal!FetchHosts, Portal!FetchApps, Portal!Request, Portal!Slept, Portal!Prompted,
       Portal!LoggedIn, Portal!NotLoggedIn, Portal!Confirmed, Portal!Down, Portal!Up,
       Portal!Expires, Portal!HostsChange, Portal!Trouble, Portal!server, Portal!Throws
  <1> QED
    BY <1>1, <1>2, <1>3, <1>4 DEF Portal!AsksOnlyWhoMust

-------------------------------------------------------------------------------
(* An answer that comes in pieces *)

\* Where a character is in the whole answer
Place(x) == 3 * x[1] - (IF x[2] = "begin" THEN 2 ELSE IF x[2] = "end" THEN 1 ELSE 0)

\* How far the page has read
HasRead == 3 * written - Len(onItsWay)

PlacesRise(text) == \A i, j \in 1..Len(text) : i < j => Place(text[i]) < Place(text[j])

GotBack(i) == \E k \in 1..Len(returned) : returned[k] = i

\* What was read up to a place was thrown away, or returned, or is in the text.
NoneIsLost(text, place) ==
    \A x \in Responses!Text :
        Place(x) <= place =>
            x[1] \in thrownAway \/ GotBack(x[1]) \/ \E k \in 1..Len(text) : text[k] = x

\* The page reads what the server wrote, in its order, and has of it what was not thrown away:
\* the lines it returned, and behind them text that ends no line.
NothingIsTorn ==
    /\ HasRead >= 0
    /\ \A k \in 1..Len(onItsWay) : Place(onItsWay[k]) = HasRead + k
    /\ \A k \in 1..Len(bufferedText) :
          Place(bufferedText[k]) <= HasRead /\ bufferedText[k][2] # "newLine"
    /\ PlacesRise(bufferedText)
    /\ \A i \in 1..Len(returned) :
          /\ 3 * returned[i] <= HasRead
          /\ \A k \in 1..Len(bufferedText) : returned[i] < bufferedText[k][1]
          /\ \A j \in 1..Len(returned) : i < j => returned[i] < returned[j]
    /\ \A i \in 2..Lines : i \in updated <=> GotBack(i)
    /\ state # "mangled" => NoneIsLost(bufferedText, HasRead)
    /\ state = "mangled" => thrownAway # {}
    /\ separate => thrownAway = {}
    /\ state = "done" => written = Lines /\ onItsWay = <<>>

ResponsesInv == Responses!TypeOK /\ NothingIsTorn

\* A place tells the character, and every third one is the end of a line.
LEMMA PlaceIs ==
    ASSUME ResponsesConstants, NEW x \in Responses!Text
    PROVE  /\ x[1] \in 1..Lines /\ x[1] \in Nat /\ Place(x) \in Nat
           /\ 3 * x[1] - 2 <= Place(x) /\ Place(x) <= 3 * x[1]
           /\ Place(x) = 3 * x[1] <=> x[2] = "newLine"
           /\ x = <<x[1], "begin">> \/ x = <<x[1], "end">> \/ x = <<x[1], "newLine">>
           /\ \A y \in Responses!Text : Place(x) = Place(y) => x = y
  <1>1. ASSUME NEW y \in Responses!Text
        PROVE  /\ y[1] \in 1..Lines /\ y[2] \in {"begin", "end", "newLine"}
               /\ y = <<y[1], y[2]>>
    BY DEF Responses!Text
  <1>2. ASSUME NEW y \in Responses!Text
        PROVE  \/ y[2] = "begin" /\ Place(y) = 3 * y[1] - 2
               \/ y[2] = "end" /\ Place(y) = 3 * y[1] - 1
               \/ y[2] = "newLine" /\ Place(y) = 3 * y[1]
    BY <1>1 DEF Place, ResponsesConstants
  <1>3. ASSUME NEW y \in Responses!Text, Place(x) = Place(y)
        PROVE  x = y
    <2>1. x[1] = y[1] /\ x[2] = y[2]
      BY <1>1, <1>2, <1>3 DEF ResponsesConstants
    <2> QED
      BY <1>1, <2>1
  <1>4. /\ x[1] \in 1..Lines /\ x[1] \in Nat /\ Place(x) \in Nat
        /\ 3 * x[1] - 2 <= Place(x) /\ Place(x) <= 3 * x[1]
        /\ Place(x) = 3 * x[1] <=> x[2] = "newLine"
    BY <1>1, <1>2 DEF ResponsesConstants
  <1>5. x = <<x[1], "begin">> \/ x = <<x[1], "end">> \/ x = <<x[1], "newLine">>
    BY <1>1
  <1> QED
    BY <1>3, <1>4, <1>5

\* The three characters of a line
LEMMA LineHas ==
    ASSUME ResponsesConstants, NEW i \in 1..Lines
    PROVE  /\ <<i, "begin">> \in Responses!Text /\ Place(<<i, "begin">>) = 3 * i - 2
           /\ <<i, "end">> \in Responses!Text /\ Place(<<i, "end">>) = 3 * i - 1
           /\ <<i, "newLine">> \in Responses!Text /\ Place(<<i, "newLine">>) = 3 * i
           /\ Responses!Line(i) \in Seq(Responses!Text) /\ Len(Responses!Line(i)) = 2
           /\ Responses!Line(i)[1] = <<i, "begin">> /\ Responses!Line(i)[2] = <<i, "end">>
  <1>1. /\ <<i, "begin">> \in Responses!Text /\ <<i, "end">> \in Responses!Text
        /\ <<i, "newLine">> \in Responses!Text
    BY DEF Responses!Text
  <1>2. /\ Place(<<i, "begin">>) = 3 * i - 2 /\ Place(<<i, "end">>) = 3 * i - 1
        /\ Place(<<i, "newLine">>) = 3 * i
    BY DEF Place
  <1>3. /\ Responses!Line(i) \in Seq(Responses!Text) /\ Len(Responses!Line(i)) = 2
        /\ Responses!Line(i)[1] = <<i, "begin">> /\ Responses!Line(i)[2] = <<i, "end">>
    BY <1>1 DEF Responses!Line
  <1> QED
    BY <1>1, <1>2, <1>3

\* The least of a set of places.
LEMMA LeastIs ==
    ASSUME NEW T \in SUBSET Nat, T # {}
    PROVE  Responses!Min(T) \in T /\ \A y \in T : Responses!Min(T) <= y
  <1>1. \E x \in T : \A y \in T : x <= y
    BY Least
  <1> QED
    BY <1>1 DEF Responses!Min

\* The page has nothing yet.
LEMMA ResponsesInit ==
    ASSUME ResponsesConstants, Responses!Init
    PROVE  ResponsesInv
  <1>1. /\ written = 0 /\ onItsWay = <<>> /\ bufferedText = <<>> /\ returned = <<>>
        /\ state = "reading" /\ separate = TRUE /\ thrownAway = {} /\ updated = {}
    BY DEF Responses!Init
  <1>2. /\ <<>> \in Seq(Responses!Text) /\ <<>> \in Seq(1..Lines) /\ Len(<<>>) = 0 /\ 1..0 = {}
    OBVIOUS
  <1>3. Responses!TypeOK
    BY <1>1, <1>2 DEF Responses!TypeOK, ResponsesConstants
  <1>4. HasRead = 0
    <2>1. Len(onItsWay) = 0 /\ written = 0
      BY <1>1, <1>2
    <2> QED
      BY <2>1 DEF HasRead
  <1>5. NoneIsLost(bufferedText, HasRead)
    <2>1. ASSUME NEW x \in Responses!Text
          PROVE  ~(Place(x) <= 0)
      BY PlaceIs
    <2> QED
      BY <1>4, <2>1 DEF NoneIsLost
  <1>6. NothingIsTorn
    BY <1>1, <1>2, <1>4, <1>5 DEF NothingIsTorn, PlacesRise, GotBack
  <1> QED
    BY <1>3, <1>6 DEF ResponsesInv

\* The server writes a line: its two halves and its end.
LEMMA WriteKeeps ==
    ASSUME ResponsesConstants, ResponsesInv, Responses!Write
    PROVE  ResponsesInv'
  <1>0. PICK v, w, more : /\ v = written + 1 /\ w = Len(onItsWay)
                          /\ more = Append(Responses!Line(v), Responses!NewLine(v))
    OBVIOUS
  <1>1. /\ written < Lines /\ written' = v
        /\ onItsWay' = onItsWay \o more
        /\ UNCHANGED <<bufferedText, returned, state, separate, thrownAway, updated>>
    BY <1>0 DEF Responses!Write
  <1>2. /\ written \in 0..Lines /\ onItsWay \in Seq(Responses!Text) /\ Lines \in Nat
        /\ Responses!TypeOK /\ NothingIsTorn
    BY DEF ResponsesInv, Responses!TypeOK, ResponsesConstants
  <1>3. v \in 1..Lines /\ w \in Nat
    BY <1>0, <1>1, <1>2
  <1>4. /\ more \in Seq(Responses!Text) /\ Len(more) = 3
        /\ Place(more[1]) = 3 * v - 2 /\ Place(more[2]) = 3 * v - 1 /\ Place(more[3]) = 3 * v
    <2>0. PICK line, nl : line = Responses!Line(v) /\ nl = <<v, "newLine">>
      OBVIOUS
    <2>1. /\ line \in Seq(Responses!Text) /\ Len(line) = 2 /\ Place(line[1]) = 3 * v - 2
          /\ Place(line[2]) = 3 * v - 1 /\ nl \in Responses!Text /\ Place(nl) = 3 * v
      BY <1>3, <2>0, LineHas
    <2>2. more = Append(line, nl)
      BY <1>0, <2>0 DEF Responses!NewLine
    <2>3. /\ more \in Seq(Responses!Text) /\ Len(more) = Len(line) + 1 /\ more[Len(line) + 1] = nl
          /\ \A k \in 1..Len(line) : more[k] = line[k]
      <3>1. line \in Seq(Responses!Text) /\ nl \in Responses!Text
        BY <2>1
      <3> QED
        BY <2>2, <3>1, Posted
    <2>4. 1 \in 1..2 /\ 2 \in 1..2 /\ 2 + 1 = 3
      OBVIOUS
    <2> QED
      BY <2>1, <2>3, <2>4
  <1>5. /\ onItsWay' \in Seq(Responses!Text) /\ Len(onItsWay') = w + 3
        /\ \A k \in 1..(w + 3) : \/ k \in 1..w /\ onItsWay'[k] = onItsWay[k]
                                 \/ k - w \in 1..3 /\ onItsWay'[k] = more[k - w]
    <2>1. onItsWay \in Seq(Responses!Text) /\ more \in Seq(Responses!Text)
      BY <1>2, <1>4
    <2>2. /\ onItsWay \o more \in Seq(Responses!Text)
          /\ Len(onItsWay \o more) = Len(onItsWay) + Len(more)
          /\ \A k \in 1..(Len(onItsWay) + Len(more)) :
                \/ k \in 1..Len(onItsWay) /\ (onItsWay \o more)[k] = onItsWay[k]
                \/ /\ k - Len(onItsWay) \in 1..Len(more)
                   /\ (onItsWay \o more)[k] = more[k - Len(onItsWay)]
      BY <2>1, JoinedIs
    <2> QED
      BY <1>0, <1>1, <1>4, <2>2
  <1>6. Responses!TypeOK'
    BY <1>1, <1>2, <1>3, <1>5 DEF Responses!TypeOK
  <1>7. HasRead' = HasRead /\ HasRead = 3 * written - w
    BY <1>0, <1>1, <1>2, <1>5 DEF HasRead
  <1>8. ASSUME NEW k \in 1..Len(onItsWay')
        PROVE  Place(onItsWay'[k]) = HasRead + k
    <2>1. CASE k \in 1..w /\ onItsWay'[k] = onItsWay[k]
      BY <1>0, <1>2, <2>1 DEF NothingIsTorn
    <2>2. CASE k - w \in 1..3 /\ onItsWay'[k] = more[k - w]
      <3>1. k - w = 1 \/ k - w = 2 \/ k - w = 3
        BY <1>3, <2>2
      <3>2. Place(more[k - w]) = 3 * v - 3 + (k - w)
        BY <1>3, <1>4, <3>1
      <3>3. HasRead + k = 3 * v - 3 + (k - w)
        BY <1>0, <1>2, <1>3, <1>5, <1>7
      <3> QED
        BY <2>2, <3>2, <3>3
    <2> QED
      BY <1>5, <2>1, <2>2
  <1>9. state # "done"
    BY <1>1, <1>2 DEF NothingIsTorn
  <1>10. NothingIsTorn'
    <2>1. NoneIsLost(bufferedText, HasRead) => NoneIsLost(bufferedText, HasRead)'
      BY <1>1, <1>7 DEF NoneIsLost, GotBack, Responses!Text
    <2>2. PlacesRise(bufferedText)' = PlacesRise(bufferedText) /\ \A i : GotBack(i)' = GotBack(i)
      BY <1>1 DEF PlacesRise, GotBack
    <2> QED
      BY <1>1, <1>2, <1>7, <1>8, <1>9, <2>1, <2>2 DEF NothingIsTorn
  <1> QED
    BY <1>6, <1>10 DEF ResponsesInv

\* What a sequence has at a place
LEMMA ItemIs ==
    ASSUME NEW S, NEW q \in Seq(S), NEW k \in 1..Len(q)
    PROVE  q[k] \in S
  OBVIOUS

\* A sequence of two
LEMMA PairIs ==
    ASSUME NEW S, NEW q \in Seq(S), Len(q) = 2
    PROVE  q = <<q[1], q[2]>>
  OBVIOUS

\* A chunk, and the buffer with it
Chunk(n) == SubSeq(onItsWay, 1, n)
WithChunk(n) == bufferedText \o Chunk(n)

\* What the page has once it read a chunk: text in its order, behind what it returned.
LEMMA ChunkIs ==
    ASSUME ResponsesConstants, ResponsesInv, state = "reading", NEW n \in 1..Len(onItsWay),
           NEW chunk, chunk = Chunk(n), NEW text, text = WithChunk(n)
    PROVE  /\ text \in Seq(Responses!Text) /\ HasRead \in Nat
           /\ \A k \in 1..Len(text) :
                 /\ Place(text[k]) <= HasRead + n
                 /\ \A i \in 1..Len(returned) : returned[i] < text[k][1]
           /\ PlacesRise(text) /\ NoneIsLost(text, HasRead + n)
           /\ (\A i, j \in Responses!Ends(chunk) : i = j) =>
                 \A i, j \in Responses!Ends(text) : i = j
  <1>0. PICK b, w : b = Len(bufferedText) /\ w = Len(onItsWay)
    OBVIOUS
  <1>1. /\ onItsWay \in Seq(Responses!Text) /\ bufferedText \in Seq(Responses!Text)
        /\ returned \in Seq(1..Lines) /\ written \in Nat /\ NothingIsTorn
    BY DEF ResponsesInv, Responses!TypeOK
  <1>2. b \in Nat /\ w \in Nat /\ n \in 1..w /\ n \in Nat /\ HasRead \in Nat
    <2>1. HasRead \in Int
      BY <1>1 DEF HasRead
    <2>2. HasRead >= 0
      BY <1>1 DEF NothingIsTorn
    <2> QED
      BY <1>0, <1>1, <2>1, <2>2
  <1>3. /\ chunk \in Seq(Responses!Text) /\ Len(chunk) = n
        /\ \A k \in 1..n : chunk[k] = onItsWay[k]
    <2>1. n \in Nat /\ 1 <= n + 1 /\ n <= Len(onItsWay) /\ 1 \in Nat /\ 1 <= 1
      BY <1>0, <1>2
    <2>2. /\ SubSeq(onItsWay, 1, n) \in Seq(Responses!Text)
          /\ Len(SubSeq(onItsWay, 1, n)) = n - 1 + 1
          /\ \A k \in 1..(n - 1 + 1) : SubSeq(onItsWay, 1, n)[k] = onItsWay[k + 1 - 1]
      BY <1>1, <2>1, Piece
    <2>3. n - 1 + 1 = n /\ \A k \in 1..n : k + 1 - 1 = k
      BY <2>1
    <2> QED
      BY <2>2, <2>3 DEF Chunk
  <1>4. /\ text \in Seq(Responses!Text) /\ Len(text) = b + n
        /\ \A k \in 1..(b + n) : \/ k \in 1..b /\ text[k] = bufferedText[k]
                                 \/ k - b \in 1..n /\ text[k] = chunk[k - b]
        /\ \A k \in 1..n : k + b \in 1..(b + n) /\ text[k + b] = chunk[k]
    <2>1. /\ bufferedText \o chunk \in Seq(Responses!Text)
          /\ Len(bufferedText \o chunk) = Len(bufferedText) + Len(chunk)
          /\ \A k \in 1..(Len(bufferedText) + Len(chunk)) :
                \/ k \in 1..Len(bufferedText) /\ (bufferedText \o chunk)[k] = bufferedText[k]
                \/ /\ k - Len(bufferedText) \in 1..Len(chunk)
                   /\ (bufferedText \o chunk)[k] = chunk[k - Len(bufferedText)]
          /\ \A k \in 1..Len(chunk) :
                /\ k + Len(bufferedText) \in 1..(Len(bufferedText) + Len(chunk))
                /\ (bufferedText \o chunk)[k + Len(bufferedText)] = chunk[k]
      <3>1. bufferedText \in Seq(Responses!Text) /\ chunk \in Seq(Responses!Text)
        BY <1>1, <1>3
      <3> QED
        BY <3>1, JoinedIs
    <2>2. text = bufferedText \o chunk
      BY DEF WithChunk
    <2> QED
      BY <1>0, <1>3, <2>1, <2>2
  <1>5. \A k \in 1..b : /\ Place(bufferedText[k]) <= HasRead /\ bufferedText[k][2] # "newLine"
                        /\ \A i \in 1..Len(returned) : returned[i] < bufferedText[k][1]
                        /\ bufferedText[k] \in Responses!Text
    BY <1>0, <1>1 DEF NothingIsTorn
  <1>6. \A k \in 1..n : Place(chunk[k]) = HasRead + k /\ chunk[k] \in Responses!Text
    <2>1. \A k \in 1..n : k \in 1..Len(onItsWay)
      BY <1>0, <1>2
    <2> QED
      BY <1>1, <1>3, <2>1 DEF NothingIsTorn
  <1>7. ASSUME NEW k \in 1..n
        PROVE  \A i \in 1..Len(returned) : returned[i] < chunk[k][1]
    <2> SUFFICES ASSUME NEW i \in 1..Len(returned)
                 PROVE  returned[i] < chunk[k][1]
      OBVIOUS
    <2>1. 3 * returned[i] <= HasRead /\ returned[i] \in Nat
      <3>1. returned[i] \in 1..Lines
        <4>1. returned \in Seq(1..Lines)
          BY <1>1
        <4> QED
          BY <4>1, ItemIs
      <3>2. 3 * returned[i] <= HasRead
        BY <1>1, Zenon DEF NothingIsTorn
      <3> QED
        BY <3>1, <3>2 DEF ResponsesConstants
    <2>2. chunk[k][1] \in Nat /\ Place(chunk[k]) <= 3 * chunk[k][1]
      BY <1>6, PlaceIs
    <2> QED
      BY <1>2, <1>6, <2>1, <2>2
  <1>8. ASSUME NEW k \in 1..Len(text)
        PROVE  /\ Place(text[k]) <= HasRead + n
               /\ \A i \in 1..Len(returned) : returned[i] < text[k][1]
    <2>1. CASE k \in 1..b /\ text[k] = bufferedText[k]
      <3>1. Place(text[k]) <= HasRead /\ Place(text[k]) \in Nat
        BY <1>5, <2>1, PlaceIs
      <3> QED
        BY <1>2, <1>5, <2>1, <3>1
    <2>2. CASE k - b \in 1..n /\ text[k] = chunk[k - b]
      BY <1>2, <1>6, <1>7, <2>2
    <2> QED
      BY <1>4, <2>1, <2>2
  <1>9. PlacesRise(text)
    <2> SUFFICES ASSUME NEW i \in 1..(b + n), NEW j \in 1..(b + n), i < j
                 PROVE  Place(text[i]) < Place(text[j])
      BY <1>4 DEF PlacesRise
    <2>1. CASE j \in 1..b /\ text[j] = bufferedText[j]
      <3>1. i \in 1..b /\ text[i] = bufferedText[i]
        BY <1>2, <1>4, <2>1
      <3> QED
        BY <1>0, <1>1, <2>1, <3>1 DEF NothingIsTorn, PlacesRise
    <2>2. CASE j - b \in 1..n /\ text[j] = chunk[j - b]
      <3>1. Place(text[j]) = HasRead + (j - b)
        BY <1>6, <2>2
      <3>2. CASE i \in 1..b /\ text[i] = bufferedText[i]
        <4>1. Place(text[i]) <= HasRead /\ Place(text[i]) \in Nat
          BY <1>5, <3>2, PlaceIs
        <4> QED
          BY <1>2, <2>2, <3>1, <4>1
      <3>3. CASE i - b \in 1..n /\ text[i] = chunk[i - b]
        <4>1. Place(text[i]) = HasRead + (i - b)
          BY <1>6, <3>3
        <4> QED
          BY <1>2, <3>1, <4>1
      <3> QED
        BY <1>4, <3>2, <3>3
    <2> QED
      BY <1>4, <2>1, <2>2
  <1>10. NoneIsLost(text, HasRead + n)
    <2> SUFFICES ASSUME NEW x \in Responses!Text, Place(x) <= HasRead + n,
                        x[1] \notin thrownAway, ~GotBack(x[1])
                 PROVE  \E k \in 1..Len(text) : text[k] = x
      BY DEF NoneIsLost
    <2>1. Place(x) \in Nat /\ \A y \in Responses!Text : Place(x) = Place(y) => x = y
      BY PlaceIs
    <2>2. CASE Place(x) <= HasRead
      <3>1. PICK k \in 1..b : bufferedText[k] = x
        BY <1>0, <1>1, <2>2 DEF NothingIsTorn, NoneIsLost
      <3>2. k \in 1..(b + n) /\ ~(k - b \in 1..n)
        BY <1>2, <3>1
      <3>3. text[k] = x
        BY <1>4, <3>1, <3>2
      <3> QED
        BY <1>4, <3>2, <3>3
    <2>3. CASE Place(x) > HasRead
      <3>1. PICK k \in 1..n : Place(x) = HasRead + k
        <4>1. Place(x) - HasRead \in 1..n /\ Place(x) = HasRead + (Place(x) - HasRead)
          BY <1>2, <2>1, <2>3
        <4> QED
          BY <4>1
      <3>2. chunk[k] = x
        BY <1>6, <2>1, <3>1
      <3> QED
        BY <1>4, <3>2
    <2> QED
      BY <1>2, <2>1, <2>2, <2>3
  <1>11. ASSUME \A i, j \in Responses!Ends(chunk) : i = j
         PROVE  \A i, j \in Responses!Ends(text) : i = j
    <2>1. ASSUME NEW i \in Responses!Ends(text)
          PROVE  i \in Nat /\ i - b \in Responses!Ends(chunk)
      <3>1. i \in 1..(b + n) /\ text[i][2] = "newLine"
        BY <1>4 DEF Responses!Ends
      <3>2. ~(i \in 1..b /\ text[i] = bufferedText[i])
        BY <1>5, <3>1
      <3>3. i - b \in 1..n /\ text[i] = chunk[i - b]
        BY <1>4, <3>1, <3>2
      <3> QED
        BY <1>2, <1>3, <3>1, <3>3 DEF Responses!Ends
    <2> SUFFICES ASSUME NEW i \in Responses!Ends(text), NEW j \in Responses!Ends(text)
                 PROVE  i = j
      OBVIOUS
    <2>2. i - b = j - b
      BY <1>11, <2>1
    <2> QED
      BY <1>2, <2>1, <2>2
  <1> QED
    BY <1>2, <1>4, <1>8, <1>9, <1>10, <1>11

\* What is kept of a text is what is behind the first end of line and before the second.
LEMMA RestIs ==
    ASSUME NEW text \in Seq(Responses!Text), Responses!Ends(text) # {}, NEW f, NEW g,
           f = Responses!Min(Responses!Ends(text)), g = Responses!KeptTo(text)
    PROVE  /\ f \in 1..Len(text) /\ text[f][2] = "newLine" /\ g \in f..Len(text)
           /\ \A k \in 1..Len(text) : k < f => text[k][2] # "newLine"
           /\ Responses!Rest(text) \in Seq(Responses!Text) /\ Len(Responses!Rest(text)) = g - f
           /\ \A k \in 1..(g - f) : /\ k + f \in 1..Len(text)
                                  /\ Responses!Rest(text)[k] = text[k + f]
                                  /\ text[k + f][2] # "newLine"
           /\ (\A i, j \in Responses!Ends(text) : i = j) => g = Len(text)
  <1>0. PICK u, ends, behind : /\ u = Len(text) /\ ends = Responses!Ends(text)
                               /\ behind = ends \ {f}
    OBVIOUS
  <1>1. /\ u \in Nat /\ ends \subseteq 1..u /\ ends \in SUBSET Nat /\ behind \in SUBSET Nat
        /\ \A k \in 1..u : k \in ends <=> text[k][2] = "newLine"
    BY <1>0 DEF Responses!Ends
  <1>2. f \in ends /\ \A y \in ends : f <= y
    BY <1>0, <1>1, LeastIs
  <1>3. f \in 1..u /\ f \in Nat
    BY <1>1, <1>2
  <1>4. g = IF behind = {} THEN u ELSE Responses!Min(behind) - 1
    BY <1>0 DEF Responses!KeptTo
  <1>5. g \in f..u /\ g \in Nat /\ \A k \in 1..u : f < k /\ k <= g => k \notin ends
    <2>1. CASE behind = {}
      BY <1>0, <1>1, <1>3, <1>4, <2>1
    <2>2. CASE behind # {}
      <3>1. PICK h : h = Responses!Min(behind)
        OBVIOUS
      <3>2. h \in behind /\ \A y \in behind : h <= y
        BY <1>1, <2>2, <3>1, LeastIs
      <3>3. h \in 1..u /\ f < h
        BY <1>0, <1>1, <1>2, <1>3, <3>2
      <3>4. g = h - 1
        BY <1>4, <2>2, <3>1
      <3>5. ASSUME NEW k \in ends, f < k
            PROVE  h <= k
        BY <1>0, <1>3, <3>2, <3>5
      <3> QED
        BY <1>1, <1>3, <3>3, <3>4, <3>5
    <2> QED
      BY <2>1, <2>2
  <1>6. /\ Responses!Rest(text) = SubSeq(text, f + 1, g)
        /\ f + 1 \in Nat /\ 1 <= f + 1 /\ f + 1 <= g + 1 /\ g <= Len(text)
    BY <1>0, <1>1, <1>3, <1>5 DEF Responses!Rest
  <1>7. /\ SubSeq(text, f + 1, g) \in Seq(Responses!Text)
        /\ Len(SubSeq(text, f + 1, g)) = g - (f + 1) + 1
        /\ \A k \in 1..(g - (f + 1) + 1) : SubSeq(text, f + 1, g)[k] = text[k + (f + 1) - 1]
    BY <1>5, <1>6, Piece
  <1>8. g - (f + 1) + 1 = g - f /\ \A k \in 1..(g - f) : k + (f + 1) - 1 = k + f
    BY <1>3, <1>5
  <1>9. ASSUME NEW k \in 1..(g - f)
        PROVE  k + f \in 1..u /\ k + f \notin ends
    <2>1. k + f \in 1..u /\ f < k + f /\ k + f <= g
      BY <1>1, <1>3, <1>5
    <2> QED
      BY <1>5, <2>1
  <1>10. \A k \in 1..u : k < f => k \notin ends
    BY <1>1, <1>2, <1>3
  <1>11. (\A i, j \in ends : i = j) => behind = {}
    BY <1>0, <1>2
  <1>12. /\ f \in 1..Len(text) /\ text[f][2] = "newLine" /\ g \in f..Len(text)
         /\ \A k \in 1..Len(text) : k < f => text[k][2] # "newLine"
    BY <1>0, <1>1, <1>2, <1>3, <1>5, <1>10
  <1>13. /\ Responses!Rest(text) \in Seq(Responses!Text) /\ Len(Responses!Rest(text)) = g - f
         /\ \A k \in 1..(g - f) : Responses!Rest(text)[k] = text[k + f]
    BY <1>6, <1>7, <1>8
  <1>14. \A k \in 1..(g - f) : k + f \in 1..Len(text) /\ text[k + f][2] # "newLine"
    BY <1>0, <1>1, <1>9
  <1>15. (\A i, j \in Responses!Ends(text) : i = j) => g = Len(text)
    BY <1>0, <1>4, <1>11
  <1> QED
    BY <1>12, <1>13, <1>14, <1>15

\* The text before the first end of line is a whole line as long as nothing was thrown away,
\* and if it is one it is later than all that were returned.
LEMMA FirstLineIs ==
    ASSUME ResponsesConstants, NEW text \in Seq(Responses!Text), NEW place \in Nat, PlacesRise(text),
           NoneIsLost(text, place),
           \A k \in 1..Len(text) : /\ Place(text[k]) <= place
                                   /\ \A i \in 1..Len(returned) : returned[i] < text[k][1],
           NEW f \in 1..Len(text), text[f][2] = "newLine",
           \A k \in 1..Len(text) : k < f => text[k][2] # "newLine",
           thrownAway = {}
    PROVE  f = 3 /\ \E i \in 1..Lines : text[1] = <<i, "begin">> /\ text[2] = <<i, "end">>
  <1>1. PICK v : v = text[f][1]
    OBVIOUS
  <1>2. /\ v \in 1..Lines /\ v \in Nat /\ Place(text[f]) = 3 * v /\ 3 * v <= place
    <2>1. text[f] \in Responses!Text /\ Place(text[f]) <= place
      OBVIOUS
    <2> QED
      BY <1>1, <2>1, PlaceIs
  <1>3. ASSUME NEW x \in Responses!Text, Place(x) <= place, NEW k \in 1..Len(text), x[1] = text[k][1]
        PROVE  \E j \in 1..Len(text) : text[j] = x
    <2>1. ~GotBack(x[1])
      <3> SUFFICES ASSUME NEW i \in 1..Len(returned), returned[i] = x[1]
                   PROVE  FALSE
        BY DEF GotBack
      <3>1. returned[i] < x[1] /\ x[1] \in Nat
        BY <1>3, PlaceIs
      <3> QED
        BY <3>1
    <2> QED
      BY <1>3, <2>1 DEF NoneIsLost
  <1>4. ASSUME NEW x \in Responses!Text, Place(x) < 3 * v, NEW k \in 1..Len(text), x[1] = text[k][1]
        PROVE  \E j \in 1..Len(text) : text[j] = x /\ j < f
    <2>1. Place(x) <= place /\ Place(x) \in Nat
      BY <1>2, <1>4, PlaceIs
    <2>2. PICK j \in 1..Len(text) : text[j] = x
      BY <1>3, <1>4, <2>1
    <2>3. ~(f < j)
      BY <1>2, <1>4, <2>1, <2>2 DEF PlacesRise
    <2>4. j # f
      BY <1>2, <1>4, <2>1, <2>2
    <2> QED
      BY <2>2, <2>3, <2>4
  <1>5. ASSUME NEW k \in 1..Len(text), k < f
        PROVE  text[k] = <<v, "begin">> \/ text[k] = <<v, "end">>
    <2>0. PICK l : l = text[k][1]
      OBVIOUS
    <2>1. /\ text[k] \in Responses!Text /\ text[k][2] # "newLine" /\ Place(text[k]) < 3 * v
      BY <1>2, <1>5 DEF PlacesRise
    <2>2. /\ l \in 1..Lines /\ l \in Nat /\ 3 * l - 2 <= Place(text[k]) /\ Place(text[k]) \in Nat
          /\ text[k] = <<l, "begin">> \/ text[k] = <<l, "end">>
      <3>1. text[k] = <<l, "begin">> \/ text[k] = <<l, "end">> \/ text[k] = <<l, "newLine">>
        BY <2>0, <2>1, PlaceIs
      <3>2. text[k] # <<l, "newLine">>
        BY <2>1
      <3> QED
        BY <2>0, <2>1, <3>1, <3>2, PlaceIs
    <2>3. ~(l < v)
      <3> SUFFICES ASSUME l < v
                   PROVE  FALSE
        OBVIOUS
      <3>1. PICK x : x = <<l, "newLine">>
        OBVIOUS
      <3>2. x \in Responses!Text /\ Place(x) = 3 * l /\ x[1] = l /\ x[2] = "newLine"
        BY <2>2, <3>1, LineHas
      <3>3. Place(x) < 3 * v
        BY <1>2, <2>2, <3>2
      <3>4. PICK j \in 1..Len(text) : text[j] = x /\ j < f
        BY <1>4, <2>0, <3>2, <3>3
      <3> QED
        BY <3>2, <3>4
    <2>4. l = v
      BY <1>2, <2>1, <2>2, <2>3
    <2> QED
      BY <2>2, <2>4
  <1>6. PICK p \in 1..Len(text) : text[p] = <<v, "begin">> /\ p < f
    <2>1. PICK x : x = <<v, "begin">>
      OBVIOUS
    <2>2. x \in Responses!Text /\ Place(x) = 3 * v - 2
      BY <1>2, <2>1, LineHas
    <2>3. x[1] = text[f][1]
      BY <1>1, <2>1
    <2>4. Place(x) < 3 * v
      BY <1>2, <2>2
    <2> QED
      BY <1>4, <2>1, <2>2, <2>3, <2>4
  <1>7. PICK q \in 1..Len(text) : text[q] = <<v, "end">> /\ q < f
    <2>1. PICK x : x = <<v, "end">>
      OBVIOUS
    <2>2. x \in Responses!Text /\ Place(x) = 3 * v - 1
      BY <1>2, <2>1, LineHas
    <2>3. x[1] = text[f][1]
      BY <1>1, <2>1
    <2>4. Place(x) < 3 * v
      BY <1>2, <2>2
    <2> QED
      BY <1>4, <2>1, <2>2, <2>3, <2>4
  <1>8. \A i, j \in 1..Len(text) : text[i] = text[j] => i = j
    <2> SUFFICES ASSUME NEW i \in 1..Len(text), NEW j \in 1..Len(text), text[i] = text[j]
                 PROVE  i = j
      OBVIOUS
    <2>1. ~(i < j) /\ ~(j < i)
      <3>1. Place(text[i]) = Place(text[j]) /\ Place(text[i]) \in Nat
        BY PlaceIs
      <3> QED
        BY <3>1 DEF PlacesRise
    <2> QED
      BY <2>1
  <1>9. p < q
    <2>1. /\ Place(text[p]) = 3 * v - 2 /\ Place(text[q]) = 3 * v - 1
      BY <1>2, <1>6, <1>7, LineHas
    <2>2. ~(q < p) /\ p # q
      BY <1>2, <2>1 DEF PlacesRise
    <2> QED
      BY <2>2
  <1>10. \A k \in 1..Len(text) : k < f => k = p \/ k = q
    BY <1>5, <1>6, <1>7, <1>8
  <1>11. p = 1 /\ q = 2 /\ f = 3
    <2>1. 1 \in 1..Len(text) /\ 1 < f
      BY <1>6
    <2>2. p = 1
      BY <1>9, <1>10, <2>1
    <2>3. 2 \in 1..Len(text) /\ 2 < f
      BY <1>7, <1>9, <2>2
    <2>4. q = 2
      BY <1>10, <2>2, <2>3
    <2>5. ~(3 < f)
      <3> SUFFICES ASSUME 3 < f
                   PROVE  FALSE
        OBVIOUS
      <3>1. 3 \in 1..Len(text)
        OBVIOUS
      <3> QED
        BY <1>10, <2>2, <2>4, <3>1
    <2> QED
      BY <2>2, <2>3, <2>4, <2>5
  <1> QED
    BY <1>2, <1>6, <1>7, <1>11

\* A chunk is read, and the line it ends, if it does, is returned.
LEMMA ReadKeeps ==
    ASSUME ResponsesConstants, ResponsesInv, Responses!Read
    PROVE  ResponsesInv'
  <1>0. PICK n \in DOMAIN onItsWay :
          LET chunk == SubSeq(onItsWay, 1, n)
              text == bufferedText \o chunk
          IN /\ onItsWay' = SubSeq(onItsWay, n + 1, Len(onItsWay))
             /\ separate' = (separate /\ \A i, j \in Responses!Ends(chunk) : i = j)
             /\ IF Responses!Ends(text) = {}
                THEN bufferedText' = text /\ UNCHANGED <<returned, state, thrownAway, updated>>
                ELSE /\ bufferedText' = Responses!Rest(text)
                     /\ thrownAway' = thrownAway \cup Responses!Loses(text)
                     /\ Responses!Parse(SubSeq(text, 1, Responses!Min(Responses!Ends(text)) - 1))
    BY DEF Responses!Read
  <1>1. PICK chunk, text, w, read : /\ chunk = Chunk(n) /\ text = WithChunk(n)
                                    /\ w = Len(onItsWay) /\ read = HasRead
    OBVIOUS
  <1>2. /\ onItsWay' = SubSeq(onItsWay, n + 1, w)
        /\ separate' = (separate /\ \A i, j \in Responses!Ends(chunk) : i = j)
        /\ Responses!Ends(text) = {} =>
              bufferedText' = text /\ UNCHANGED <<returned, state, thrownAway, updated>>
        /\ Responses!Ends(text) # {} =>
              /\ bufferedText' = Responses!Rest(text)
              /\ thrownAway' = thrownAway \cup Responses!Loses(text)
              /\ Responses!Parse(SubSeq(text, 1, Responses!Min(Responses!Ends(text)) - 1))
        /\ state = "reading" /\ written' = written
    BY <1>0, <1>1 DEF Responses!Read, Chunk, WithChunk
  <1>3. /\ onItsWay \in Seq(Responses!Text) /\ returned \in Seq(1..Lines) /\ written \in Nat
        /\ written \in 0..Lines /\ thrownAway \subseteq 1..Lines /\ updated \subseteq 2..Lines
        /\ separate \in BOOLEAN /\ NothingIsTorn /\ Lines \in Nat
    BY DEF ResponsesInv, Responses!TypeOK, ResponsesConstants
  <1>4. w \in Nat /\ n \in 1..Len(onItsWay) /\ n \in 1..w /\ n \in Nat
    BY <1>1, <1>3
  <1>5. /\ text \in Seq(Responses!Text) /\ read \in Nat
        /\ \A k \in 1..Len(text) :
              /\ Place(text[k]) <= read + n
              /\ \A i \in 1..Len(returned) : returned[i] < text[k][1]
        /\ PlacesRise(text) /\ NoneIsLost(text, read + n)
        /\ (\A i, j \in Responses!Ends(chunk) : i = j) =>
              \A i, j \in Responses!Ends(text) : i = j
    BY <1>1, <1>2, <1>4, ChunkIs
  <1>6. /\ onItsWay' \in Seq(Responses!Text) /\ Len(onItsWay') = w - n
        /\ \A k \in 1..(w - n) : onItsWay'[k] = onItsWay[k + n]
    <2>1. n + 1 \in Nat /\ 1 <= n + 1 /\ n + 1 <= w + 1 /\ w <= Len(onItsWay)
      BY <1>1, <1>4
    <2>2. /\ SubSeq(onItsWay, n + 1, w) \in Seq(Responses!Text)
          /\ Len(SubSeq(onItsWay, n + 1, w)) = w - (n + 1) + 1
          /\ \A k \in 1..(w - (n + 1) + 1) :
                SubSeq(onItsWay, n + 1, w)[k] = onItsWay[k + (n + 1) - 1]
      BY <1>3, <1>4, <2>1, Piece
    <2>3. w - (n + 1) + 1 = w - n /\ \A k \in 1..(w - n) : k + (n + 1) - 1 = k + n
      BY <1>4
    <2> QED
      BY <1>2, <2>2, <2>3
  <1>7. /\ HasRead' = read + n /\ HasRead' >= 0
        /\ \A k \in 1..Len(onItsWay') : Place(onItsWay'[k]) = HasRead' + k
    <2>1. HasRead' = read + n
      <3>1. read = 3 * written - w /\ HasRead' = 3 * written - (w - n)
        BY <1>1, <1>2, <1>6 DEF HasRead
      <3> QED
        BY <1>3, <1>4, <3>1
    <2>2. ASSUME NEW k \in 1..(w - n)
          PROVE  Place(onItsWay'[k]) = read + n + k
      <3>1. k + n \in 1..Len(onItsWay)
        BY <1>1, <1>4
      <3>2. Place(onItsWay[k + n]) = read + (k + n)
        BY <1>1, <1>3, <3>1 DEF NothingIsTorn
      <3>3. read + (k + n) = read + n + k
        BY <1>4, <1>5
      <3> QED
        BY <1>6, <3>2, <3>3
    <2> QED
      BY <1>4, <1>5, <1>6, <2>1, <2>2
  <1>8. separate' \in BOOLEAN
    <2>1. separate' = TRUE \/ separate' = FALSE
      BY <1>2
    <2> QED
      BY <2>1
  <1>9. CASE Responses!Ends(text) = {}
    <2>1. bufferedText' = text /\ UNCHANGED <<returned, state, thrownAway, updated>>
      BY <1>2, <1>9
    <2>2. Responses!TypeOK'
      BY <1>2, <1>3, <1>5, <1>6, <1>8, <2>1 DEF ResponsesInv, Responses!TypeOK
    <2>3. ASSUME NEW k \in 1..Len(text)
          PROVE  text[k][2] # "newLine"
      BY <1>5, <1>9 DEF Responses!Ends
    <2>4. NoneIsLost(bufferedText, HasRead)'
      BY <1>5, <1>7, <2>1 DEF NoneIsLost, GotBack, Responses!Text
    <2>5. PlacesRise(bufferedText)' /\ \A i : GotBack(i)' = GotBack(i)
      BY <1>5, <2>1 DEF PlacesRise, GotBack
    <2>6. ASSUME NEW i \in 1..Len(returned)
          PROVE  /\ 3 * returned[i] <= read + n
                 /\ \A j \in 1..Len(returned) : i < j => returned[i] < returned[j]
      <3>1. /\ 3 * returned[i] <= read
            /\ \A j \in 1..Len(returned) : i < j => returned[i] < returned[j]
        BY <1>1, <1>3 DEF NothingIsTorn
      <3>2. returned[i] \in Nat
        BY <1>3, ItemIs
      <3> QED
        BY <1>4, <1>5, <3>1, <3>2
    <2>7. \A i \in 2..Lines : i \in updated <=> GotBack(i)
      BY <1>3 DEF NothingIsTorn
    <2>8. separate' => thrownAway' = {}
      BY <1>2, <1>3, <2>1 DEF NothingIsTorn
    <2>9. NothingIsTorn'
      BY <1>2, <1>5, <1>7, <2>1, <2>3, <2>4, <2>5, <2>6, <2>7, <2>8 DEF NothingIsTorn
    <2> QED
      BY <2>2, <2>9 DEF ResponsesInv
  <1>10. CASE Responses!Ends(text) # {}
    <2>0. PICK f, g, line, lost : /\ f = Responses!Min(Responses!Ends(text))
                                  /\ g = Responses!KeptTo(text)
                                  /\ line = SubSeq(text, 1, f - 1)
                                  /\ lost = Responses!Loses(text)
      OBVIOUS
    <2>1. /\ bufferedText' = Responses!Rest(text) /\ thrownAway' = thrownAway \cup lost
          /\ Responses!Parse(line)
      BY <1>2, <1>10, <2>0
    <2>2. /\ f \in 1..Len(text) /\ text[f][2] = "newLine" /\ g \in f..Len(text)
          /\ \A k \in 1..Len(text) : k < f => text[k][2] # "newLine"
          /\ bufferedText' \in Seq(Responses!Text) /\ Len(bufferedText') = g - f
          /\ \A k \in 1..(g - f) : /\ k + f \in 1..Len(text)
                                 /\ bufferedText'[k] = text[k + f]
                                 /\ text[k + f][2] # "newLine"
          /\ (\A i, j \in Responses!Ends(text) : i = j) => g = Len(text)
      <3>1. PICK rest : rest = Responses!Rest(text)
        OBVIOUS
      <3>2. /\ f \in 1..Len(text) /\ text[f][2] = "newLine" /\ g \in f..Len(text)
            /\ \A k \in 1..Len(text) : k < f => text[k][2] # "newLine"
            /\ rest \in Seq(Responses!Text) /\ Len(rest) = g - f
            /\ \A k \in 1..(g - f) : /\ k + f \in 1..Len(text)
                                   /\ rest[k] = text[k + f]
                                   /\ text[k + f][2] # "newLine"
            /\ (\A i, j \in Responses!Ends(text) : i = j) => g = Len(text)
        <4>1. /\ text \in Seq(Responses!Text) /\ Responses!Ends(text) # {}
              /\ f = Responses!Min(Responses!Ends(text)) /\ g = Responses!KeptTo(text)
          BY <1>5, <1>10, <2>0
        <4> QED
          BY <3>1, <4>1, RestIs
      <3>3. bufferedText' = rest
        BY <2>1, <3>1
      <3> QED
        BY <3>2, <3>3
    <2>3. /\ f \in Nat /\ g \in Nat /\ Len(text) \in Nat
          /\ lost = {text[k][1] : k \in (g + 1)..Len(text)}
      BY <1>5, <2>0, <2>2 DEF Responses!Loses
    <2>4. /\ line \in Seq(Responses!Text) /\ Len(line) = f - 1
          /\ \A k \in 1..(f - 1) : line[k] = text[k]
      <3>1. 1 \in Nat /\ f - 1 \in Nat /\ 1 <= 1 /\ 1 <= f - 1 + 1 /\ f - 1 <= Len(text)
        BY <2>2, <2>3
      <3>2. /\ SubSeq(text, 1, f - 1) \in Seq(Responses!Text)
            /\ Len(SubSeq(text, 1, f - 1)) = f - 1 - 1 + 1
            /\ \A k \in 1..(f - 1 - 1 + 1) : SubSeq(text, 1, f - 1)[k] = text[k + 1 - 1]
        BY <1>5, <3>1, Piece
      <3>3. f - 1 - 1 + 1 = f - 1 /\ \A k \in 1..(f - 1) : k + 1 - 1 = k
        BY <2>3
      <3> QED
        BY <2>0, <3>2, <3>3
    <2>5. thrownAway' \subseteq 1..Lines
      <3>1. ASSUME NEW k \in (g + 1)..Len(text)
            PROVE  text[k][1] \in 1..Lines
        <4>1. k \in 1..Len(text)
          BY <2>3
        <4>2. text[k] \in Responses!Text
          BY <1>5, <4>1, ItemIs
        <4> QED
          BY <4>2, PlaceIs
      <3> QED
        BY <1>3, <2>1, <2>3, <3>1
    <2>6. ASSUME NEW k \in 1..Len(bufferedText')
          PROVE  /\ Place(bufferedText'[k]) <= read + n /\ bufferedText'[k][2] # "newLine"
                 /\ \A i \in 1..Len(returned) : returned[i] < bufferedText'[k][1]
      BY <1>5, <2>2
    <2>7. PlacesRise(bufferedText)'
      <3> SUFFICES ASSUME NEW i \in 1..Len(bufferedText'), NEW j \in 1..Len(bufferedText'), i < j
                   PROVE  Place(bufferedText'[i]) < Place(bufferedText'[j])
        BY DEF PlacesRise
      <3>1. i + f \in 1..Len(text) /\ j + f \in 1..Len(text) /\ i + f < j + f
        BY <2>2, <2>3
      <3>2. Place(text[i + f]) < Place(text[j + f])
        BY <1>5, <3>1 DEF PlacesRise
      <3> QED
        BY <2>2, <3>2
    <2>8. separate' => thrownAway' = {}
      <3> SUFFICES ASSUME separate'
                   PROVE  thrownAway' = {}
        OBVIOUS
      <3>1. separate /\ \A i, j \in Responses!Ends(text) : i = j
        BY <1>2, <1>5
      <3>2. thrownAway = {}
        BY <1>3, <3>1 DEF NothingIsTorn
      <3>3. g = Len(text)
        BY <2>2, <3>1
      <3>4. lost = {}
        BY <2>3, <3>3
      <3> QED
        BY <2>1, <3>2, <3>4
    <2>9. ASSUME NEW i \in 1..Len(returned)
          PROVE  /\ 3 * returned[i] <= read + n /\ returned[i] \in Nat
                 /\ \A j \in 1..Len(returned) : i < j => returned[i] < returned[j]
      <3>1. /\ 3 * returned[i] <= read
            /\ \A j \in 1..Len(returned) : i < j => returned[i] < returned[j]
        BY <1>1, <1>3 DEF NothingIsTorn
      <3>2. returned[i] \in Nat
        BY <1>3, ItemIs
      <3> QED
        BY <1>4, <1>5, <3>1, <3>2
    <2>10. \A i \in 2..Lines : i \in updated <=> GotBack(i)
      BY <1>3 DEF NothingIsTorn
    <2>11. CASE \E v \in 1..Lines : line = Responses!Line(v)
      <3>1. PICK v \in 1..Lines : line = Responses!Line(v)
        BY <2>11
      <3>2. /\ Len(line) = 2 /\ line[1] = <<v, "begin">> /\ line[2] = <<v, "end">>
        BY <3>1, LineHas
      <3>3. /\ f = 3 /\ text[1] = <<v, "begin">> /\ text[2] = <<v, "end">>
        <4>1. f = 3
          <5>1. f - 1 = 2 /\ f \in Nat
            BY <2>3, <2>4, <3>2
          <5> QED
            BY <5>1
        <4>2. 1 \in 1..(f - 1) /\ 2 \in 1..(f - 1)
          BY <4>1
        <4> QED
          BY <2>4, <3>2, <4>1, <4>2
      <3>4. /\ returned' = Append(returned, v) /\ updated' = updated \cup ({v} \ {1})
            /\ state' = state
        <4>1. line[1][1] = v
          BY <3>2
        <4> QED
          BY <2>1, <3>1, <4>1 DEF Responses!Parse, Responses!Return
      <3>5. v \in Nat /\ Place(<<v, "begin">>) = 3 * v - 2 /\ Place(<<v, "end">>) = 3 * v - 1
        <4>1. v \in 1..Lines
          BY <3>1
        <4>2. v \in Nat
          BY <4>1 DEF ResponsesConstants
        <4>3. Place(<<v, "begin">>) = 3 * v - 2 /\ Place(<<v, "end">>) = 3 * v - 1
          BY <4>1, LineHas
        <4> QED
          BY <4>2, <4>3
      <3>6. /\ 1 \in 1..Len(text) /\ 2 \in 1..Len(text) /\ 3 \in 1..Len(text)
            /\ text[3] \in Responses!Text /\ text[3][2] = "newLine" /\ Place(text[3]) \in Nat
            /\ Place(text[3]) > 3 * v - 1
        <4>1. /\ 1 \in 1..Len(text) /\ 2 \in 1..Len(text) /\ 3 \in 1..Len(text)
          BY <2>2, <3>3
        <4>2. text[3] \in Responses!Text /\ text[3][2] = "newLine"
          BY <1>5, <2>2, <3>3, <4>1, ItemIs
        <4>3. Place(text[2]) < Place(text[3])
          BY <1>5, <4>1 DEF PlacesRise
        <4> QED
          BY <3>3, <3>5, <4>1, <4>2, <4>3, PlaceIs
      <3>7. 3 * v <= read + n
        BY <1>4, <1>5, <3>5, <3>6
      <3>8. ASSUME NEW k \in 1..Len(bufferedText')
            PROVE  v < bufferedText'[k][1]
        <4>1. k + 3 \in 1..Len(text) /\ bufferedText'[k] = text[k + 3] /\ 3 < k + 3
          BY <2>2, <3>3
        <4>2. Place(text[3]) < Place(text[k + 3])
          BY <1>5, <3>6, <4>1 DEF PlacesRise
        <4>3. /\ text[k + 3][1] \in Nat /\ Place(text[k + 3]) \in Nat
              /\ Place(text[k + 3]) <= 3 * text[k + 3][1]
          <5>1. text[k + 3] \in Responses!Text
            BY <1>5, <4>1, ItemIs
          <5> QED
            BY <5>1, PlaceIs
        <4> QED
          BY <3>5, <3>6, <4>1, <4>2, <4>3
      <3>9. /\ returned' \in Seq(1..Lines) /\ Len(returned') = Len(returned) + 1
            /\ returned'[Len(returned) + 1] = v /\ Len(returned) \in Nat
            /\ \A i \in 1..Len(returned) : returned'[i] = returned[i]
        <4>1. returned \in Seq(1..Lines)
          BY <1>3
        <4> QED
          BY <3>4, <4>1, Posted
      <3>10. ASSUME NEW i
             PROVE  GotBack(i)' <=> GotBack(i) \/ i = v
        BY <3>9 DEF GotBack
      <3>11. ASSUME NEW i \in 1..Len(returned')
             PROVE  /\ 3 * returned'[i] <= read + n
                    /\ \A k \in 1..Len(bufferedText') : returned'[i] < bufferedText'[k][1]
                    /\ \A j \in 1..Len(returned') : i < j => returned'[i] < returned'[j]
        <4>1. CASE i = Len(returned) + 1
          BY <3>7, <3>8, <3>9, <4>1
        <4>2. CASE i \in 1..Len(returned)
          <5>1. returned[i] < v
            <6>1. text[1][1] = v
              BY <3>3
            <6> QED
              BY <1>5, <3>6, <4>2, <6>1
          <5>2. ASSUME NEW j \in 1..Len(returned'), i < j
                PROVE  returned'[i] < returned'[j]
            <6>1. CASE j = Len(returned) + 1
              BY <3>9, <4>2, <5>1, <6>1
            <6>2. CASE j \in 1..Len(returned)
              BY <2>9, <3>9, <4>2, <5>2, <6>2
            <6> QED
              BY <3>9, <6>1, <6>2
          <5> QED
            BY <2>6, <2>9, <3>9, <4>2, <5>2
        <4> QED
          BY <3>9, <4>1, <4>2
      <3>12. NoneIsLost(bufferedText, HasRead)'
        <4> SUFFICES ASSUME NEW x \in Responses!Text, Place(x) <= read + n,
                            x[1] \notin thrownAway', ~GotBack(x[1]), x[1] # v
                     PROVE  \E k \in 1..Len(bufferedText') : bufferedText'[k] = x
          BY <1>7, <3>10 DEF NoneIsLost, Responses!Text
        <4>1. x[1] \notin thrownAway /\ x[1] \notin lost
          BY <2>1
        <4>2. PICK k \in 1..Len(text) : text[k] = x
          BY <1>5, <4>1 DEF NoneIsLost
        <4>3. k # 1 /\ k # 2
          BY <3>3, <4>2
        <4>4. k # 3
          <5> SUFFICES ASSUME k = 3
                       PROVE  FALSE
            OBVIOUS
          <5>1. PICK y : y = <<x[1], "begin">>
            OBVIOUS
          <5>2. /\ y \in Responses!Text /\ y[1] = x[1] /\ Place(y) = 3 * x[1] - 2 /\ x[1] \in Nat
                /\ Place(x) = 3 * x[1]
            <6>1. x[1] \in 1..Lines /\ x[1] \in Nat /\ (x[2] = "newLine" => Place(x) = 3 * x[1])
              BY PlaceIs
            <6>2. x[2] = "newLine"
              BY <3>6, <4>2
            <6>3. y[1] = x[1]
              BY <5>1
            <6> QED
              BY <5>1, <6>1, <6>2, <6>3, LineHas
          <5>3. Place(y) <= read + n
            BY <1>4, <1>5, <5>2
          <5>4. PICK j \in 1..Len(text) : text[j] = y
            BY <1>5, <4>1, <5>2, <5>3 DEF NoneIsLost
          <5>5. ~(3 < j) /\ j # 3
            <6>1. Place(text[j]) < Place(text[3])
              BY <4>2, <5>2, <5>4
            <6>2. 3 < j => Place(text[3]) < Place(text[j])
              BY <1>5, <3>6 DEF PlacesRise
            <6> QED
              BY <3>6, <5>2, <5>4, <6>1, <6>2
          <5>6. j = 1 \/ j = 2
            BY <5>5
          <5> QED
            BY <3>3, <5>2, <5>4, <5>6
        <4>5. ~(k > g)
          BY <2>3, <4>1, <4>2
        <4>6. k - 3 \in 1..(g - f) /\ (k - 3) + f = k
          BY <2>3, <3>3, <4>3, <4>4, <4>5
        <4>7. bufferedText'[k - 3] = x /\ k - 3 \in 1..Len(bufferedText')
          BY <2>2, <4>2, <4>6
        <4> QED
          BY <4>7
      <3>13. updated' \subseteq 2..Lines /\ \A i \in 2..Lines : i \in updated' <=> GotBack(i)'
        BY <1>3, <2>10, <3>4, <3>5, <3>10
      <3>14. Responses!TypeOK'
        BY <1>2, <1>3, <1>6, <1>8, <2>2, <2>5, <3>4, <3>9, <3>13 DEF Responses!TypeOK
      <3>15. NothingIsTorn'
        BY <1>2, <1>7, <2>6, <2>7, <2>8, <3>4, <3>11, <3>12, <3>13 DEF NothingIsTorn
      <3> QED
        BY <3>14, <3>15 DEF ResponsesInv
    <2>12. CASE ~ \E v \in 1..Lines : line = Responses!Line(v)
      <3>1. state' = "mangled" /\ UNCHANGED <<returned, updated>>
        BY <2>1, <2>12 DEF Responses!Parse
      <3>2. thrownAway # {}
        <4> SUFFICES ASSUME thrownAway = {}
                     PROVE  FALSE
          OBVIOUS
        <4>1. read + n \in Nat
          BY <1>4, <1>5
        <4>2. f = 3 /\ \E v \in 1..Lines : text[1] = <<v, "begin">> /\ text[2] = <<v, "end">>
          BY <1>5, <2>2, <4>1, FirstLineIs
        <4>3. PICK v \in 1..Lines : text[1] = <<v, "begin">> /\ text[2] = <<v, "end">>
          BY <4>2
        <4>4. Len(line) = 2 /\ line[1] = <<v, "begin">> /\ line[2] = <<v, "end">>
          <5>1. 1 \in 1..(f - 1) /\ 2 \in 1..(f - 1) /\ f - 1 = 2
            BY <4>2
          <5> QED
            BY <2>4, <4>3, <5>1
        <4>5. line = Responses!Line(v)
          <5>1. \A q \in Seq(Responses!Text) : Len(q) = 2 => q = <<q[1], q[2]>>
            BY Zenon, PairIs
          <5> QED
            BY <2>4, <4>4, <5>1, Zenon DEF Responses!Line
        <4> QED
          BY <2>12, <4>5
      <3>3. thrownAway' # {}
        BY <2>1, <3>2
      <3>4. Responses!TypeOK'
        BY <1>2, <1>3, <1>6, <1>8, <2>2, <2>5, <3>1 DEF Responses!TypeOK
      <3>5. \A i : GotBack(i)' = GotBack(i)
        BY <3>1 DEF GotBack
      <3>6. NothingIsTorn'
        BY <1>2, <1>7, <2>6, <2>7, <2>8, <2>9, <2>10, <3>1, <3>3, <3>5 DEF NothingIsTorn
      <3> QED
        BY <3>4, <3>6 DEF ResponsesInv
    <2> QED
      BY <2>11, <2>12
  <1> QED
    BY <1>9, <1>10

\* The server has said everything, or the answer is broken off.
LEMMA EndOfAnswerKeeps ==
    ASSUME ResponsesConstants, ResponsesInv, Responses!Done \/ Responses!Abort
    PROVE  ResponsesInv'
  <1>1. /\ state' = "aborted" \/ (state' = "done" /\ written = Lines /\ onItsWay = <<>>)
        /\ state = "reading"
        /\ UNCHANGED <<written, onItsWay, bufferedText, returned, separate, thrownAway, updated>>
    BY DEF Responses!Done, Responses!Abort
  <1>2. Responses!TypeOK /\ NothingIsTorn
    BY DEF ResponsesInv
  <1>3. Responses!TypeOK'
    BY <1>1, <1>2 DEF Responses!TypeOK
  <1>4. /\ HasRead' = HasRead /\ PlacesRise(bufferedText)' = PlacesRise(bufferedText)
        /\ \A i : GotBack(i)' = GotBack(i)
    BY <1>1 DEF HasRead, PlacesRise, GotBack
  <1>5. NoneIsLost(bufferedText, HasRead)' = NoneIsLost(bufferedText, HasRead)
    BY <1>1, <1>4 DEF NoneIsLost, Responses!Text
  <1>6. NothingIsTorn'
    BY <1>1, <1>2, <1>4, <1>5 DEF NothingIsTorn
  <1> QED
    BY <1>3, <1>6 DEF ResponsesInv

\* Every step of the answer keeps the invariant.
LEMMA ResponsesKeeps ==
    ASSUME ResponsesConstants, ResponsesInv, Responses!Next
    PROVE  ResponsesInv'
  BY WriteKeeps, ReadKeeps, EndOfAnswerKeeps DEF Responses!Next

\* What is returned are lines of the answer in its order, and at its end all of them of which
\* no text was thrown away.
LEMMA ResponsesSound ==
    ASSUME ResponsesConstants, ResponsesInv
    PROVE  Responses!TypeOK /\ Responses!WholeLines
  <1>1. /\ Responses!TypeOK /\ NothingIsTorn /\ returned \in Seq(1..Lines) /\ Lines \in Nat
        /\ updated \subseteq 2..Lines /\ bufferedText \in Seq(Responses!Text)
    BY DEF ResponsesInv, Responses!TypeOK, ResponsesConstants
  <1>2. DOMAIN returned = 1..Len(returned)
    BY <1>1
  <1>3. \A i : i \in Responses!Range(returned) <=> GotBack(i)
    BY <1>2 DEF Responses!Range, GotBack
  <1>4. \A i \in DOMAIN returned : returned[i] \in 1..Lines
    BY <1>1, <1>2, ItemIs
  <1>5. updated = Responses!Range(returned) \ {1}
    <2>1. ASSUME NEW i
          PROVE  i \in updated <=> GotBack(i) /\ i # 1
      <3>1. GotBack(i) => i \in 1..Lines
        BY <1>2, <1>4 DEF GotBack
      <3>2. i \in updated => i \in 2..Lines
        BY <1>1
      <3>3. i \in 2..Lines => (i \in updated <=> GotBack(i))
        BY <1>1 DEF NothingIsTorn
      <3> QED
        BY <1>1, <3>1, <3>2, <3>3
    <2> QED
      BY <1>3, <2>1
  <1>6. ASSUME state = "done", NEW i \in 1..Lines, i \notin thrownAway
        PROVE  GotBack(i)
    <2>1. PICK x : x = <<i, "newLine">>
      OBVIOUS
    <2>2. x \in Responses!Text /\ Place(x) = 3 * i /\ x[1] = i /\ x[2] = "newLine"
      BY <2>1, LineHas
    <2>3. HasRead = 3 * Lines
      <3>1. written = Lines /\ Len(onItsWay) = 0
        BY <1>1, <1>6 DEF NothingIsTorn
      <3> QED
        BY <1>1, <3>1 DEF HasRead
    <2>4. Place(x) <= HasRead
      BY <1>1, <2>2, <2>3
    <2>5. NoneIsLost(bufferedText, HasRead)
      BY <1>1, <1>6 DEF NothingIsTorn
    <2>6. ~ \E k \in 1..Len(bufferedText) : bufferedText[k] = x
      BY <1>1, <2>2 DEF NothingIsTorn
    <2> QED
      BY <1>6, <2>2, <2>4, <2>5, <2>6 DEF NoneIsLost
  <1>7. /\ \A i, j \in DOMAIN returned : i < j => returned[i] < returned[j]
        /\ state = "mangled" => thrownAway # {}
        /\ separate => thrownAway = {}
    BY <1>1, <1>2 DEF NothingIsTorn
  <1>8. state = "done" => (1..Lines) \ thrownAway \subseteq Responses!Range(returned)
    BY <1>3, <1>6
  <1> QED
    BY <1>1, <1>5, <1>7, <1>8 DEF Responses!WholeLines

-------------------------------------------------------------------------------
(* The page of an administrator *)

\* Every user of the list has an li, and the screen shows the list.
EachHasItsLi ==
    /\ liElements \in Seq(Seq(Users)) /\ listElement \in Seq(Nat)
    /\ Len(list) <= Len(liElements)
    /\ UserList!OnScreen

IsListed(q, u) == \E i \in 1..Len(q) : q[i] = u

ListedOnce(q, u) == \A i, j \in 1..Len(q) : q[i] = u /\ q[j] = u => i = j

\* A user of whom no change was asked for before the list came: who is being added is not in
\* the list yet and is not deleted meanwhile, and the list follows the server.
UserFits(u) ==
    /\ u \in deleted => deleting[u] = "page" /\ u \notin server
    /\ adding[u] # "no" => deleting[u] = "no"
    /\ adding[u] = "asked" => u \notin server
    /\ adding[u] = "added" => u \in server
    /\ u \in opening \/ info = u => deleting[u] # "no" \/ (u \in server /\ adding[u] = "no")
    /\ fetched = "done" =>
          /\ IsListed(unfilteredList, u) <=> u \in UserList!Known
          /\ ListedOnce(unfilteredList, u)
    /\ fetched # "done" =>
          /\ ~IsListed(unfilteredList, u) /\ u \notin opening /\ info # u /\ u \notin deleted
          /\ adding[u] = "no" /\ deleting[u] = "no"
    /\ fetched = "onItsWay" => (u \in snapshot <=> u \in server)

UsersInv ==
    /\ UserList!TypeOK /\ EachHasItsLi
    /\ \A u \in Users \ crossed : UserFits(u)

\* What is kept of a sequence after each of its elements.
KeptOf(f, q, S, m) ==
    f = [n \in 0..m |-> IF n = 0 THEN <<>>
                        ELSE IF q[n] \in S THEN Append(f[n - 1], q[n]) ELSE f[n - 1]]

\* That is defined for each sequence.
LEMMA KeptExists ==
    ASSUME NEW T, NEW q \in Seq(T), NEW S
    PROVE  \E f : KeptOf(f, q, S, Len(q)) /\ UserList!Matches(q, S) = f[Len(q)]
  <1> DEFINE N == Len(q)
             Bad == {m \in 0..N : ~\E f : KeptOf(f, q, S, m)}
  <1>1. N \in Nat /\ Bad \in SUBSET Nat
    OBVIOUS
  <1> HIDE DEF N
  <1>2. Bad = {}
    <2> SUFFICES ASSUME Bad # {}
                 PROVE  FALSE
      OBVIOUS
    <2>1. PICK m \in Bad : \A y \in Bad : m <= y
      BY <1>1, Least, Zenon
    <2>2. m \in 0..N /\ ~\E f : KeptOf(f, q, S, m)
      OBVIOUS
    <2>3. CASE m = 0
      <3> DEFINE g == [n \in 0..m |-> <<>>]
      <3>1. g = [n \in 0..m |-> IF n = 0 THEN <<>>
                        ELSE IF q[n] \in S THEN Append(g[n - 1], q[n]) ELSE g[n - 1]]
        BY <2>3
      <3> QED
        BY <2>2, <3>1 DEF KeptOf
    <2>4. CASE m # 0
      <3>1. m - 1 \in 0..N /\ ~(m <= m - 1)
        BY <1>1, <2>2, <2>4
      <3>2. PICK g : KeptOf(g, q, S, m - 1)
        BY <2>1, <3>1
      <3> DEFINE last_ == IF q[m] \in S THEN Append(g[m - 1], q[m]) ELSE g[m - 1]
                 h == [n \in 0..m |-> IF n = m THEN last_ ELSE g[n]]
                 Step(f, n) == IF n = 0 THEN <<>>
                               ELSE IF q[n] \in S THEN Append(f[n - 1], q[n]) ELSE f[n - 1]
      <3>3. \A n \in 0..m : n = m \/ (n \in 0..(m - 1) /\ n # m)
        BY <1>1, <2>2
      <3>4. \A n \in 0..m : n # 0 => n - 1 \in 0..m /\ n - 1 # m
        BY <1>1, <2>2
      <3>5. \A n \in 0..(m - 1) : g[n] = Step(g, n)
        BY <3>2, Zenon DEF KeptOf
      <3>6. \A n \in 0..m : n # 0 => h[n - 1] = g[n - 1]
        BY <3>4
      <3>7. ASSUME NEW n \in 0..m
            PROVE  h[n] = Step(h, n)
        <4>1. CASE n = m
          <5>1. h[n] = last_ /\ h[m - 1] = g[m - 1]
            BY <3>6, <4>1, <2>4
          <5> HIDE DEF h
          <5> QED
            BY <2>4, <4>1, <5>1
        <4>2. CASE n # m
          <5>1. h[n] = g[n] /\ n \in 0..(m - 1)
            BY <3>3, <4>2
          <5>2. n # 0 => h[n - 1] = g[n - 1]
            BY <3>6
          <5> HIDE DEF h
          <5> QED
            BY <3>5, <5>1, <5>2
        <4> QED
          BY <4>1, <4>2
      <3>8. h = [n \in 0..m |-> h[n]]
        BY Zenon
      <3>9. h = [n \in 0..m |-> Step(h, n)]
        <4>1. DOMAIN h = 0..m
          OBVIOUS
        <4> HIDE DEF h, Step
        <4> QED
          BY <3>7, <3>8, <4>1, Zenon
      <3>10. KeptOf(h, q, S, m)
        BY <3>9, Zenon DEF KeptOf
      <3> QED
        BY <2>2, <3>10
    <2> QED
      BY <2>3, <2>4
  <1>3. N \in 0..N
    BY <1>1
  <1>4. \E f : KeptOf(f, q, S, N)
    BY <1>2, <1>3
  <1> DEFINE f == CHOOSE f : KeptOf(f, q, S, N)
  <1>5. KeptOf(f, q, S, N)
    BY <1>4, Zenon
  <1>6. UserList!Matches(q, S) = f[N]
    BY Zenon DEF UserList!Matches, KeptOf, N
  <1> QED
    BY <1>5, <1>6 DEF N

\* f is what is kept of q after each of its N elements, and at last.
KeptIn(f, q, S, N) ==
    /\ UserList!Matches(q, S) = f[N] /\ f[0] = <<>>
    /\ \A n \in 1..N : f[n] = IF q[n] \in S THEN Append(f[n - 1], q[n]) ELSE f[n - 1]

\* Step by step.
LEMMA KeptSteps ==
    ASSUME NEW T, NEW q \in Seq(T), NEW S
    PROVE  \E f : KeptIn(f, q, S, Len(q))
  <1> DEFINE N == Len(q)
  <1>1. PICK f : KeptOf(f, q, S, N) /\ UserList!Matches(q, S) = f[N]
    BY KeptExists
  <1>2. \A n \in 0..N : f[n] = IF n = 0 THEN <<>>
                        ELSE IF q[n] \in S THEN Append(f[n - 1], q[n]) ELSE f[n - 1]
    BY <1>1, Zenon DEF KeptOf
  <1>3. N \in Nat /\ 0 \in 0..N /\ \A n \in 1..N : n \in 0..N /\ n # 0
    OBVIOUS
  <1> HIDE DEF N
  <1>4. KeptIn(f, q, S, N)
    BY <1>1, <1>2, <1>3, Zenon DEF KeptIn
  <1> QED
    BY <1>4 DEF N

\* What is kept was there, and matches.
LEMMA MatchesAre ==
    ASSUME NEW T, NEW q \in Seq(T), NEW S
    PROVE  /\ UserList!Matches(q, S) \in Seq(T)
           /\ \A i \in 1..Len(UserList!Matches(q, S)) :
                 \E j \in 1..Len(q) : UserList!Matches(q, S)[i] = q[j]
  <1> DEFINE N == Len(q)
             From == {q[j] : j \in 1..N}
  <1>1. PICK f : /\ UserList!Matches(q, S) = f[N] /\ f[0] = <<>>
                 /\ \A n \in 1..N : f[n] = IF q[n] \in S THEN Append(f[n - 1], q[n]) ELSE f[n - 1]
    BY KeptSteps DEF KeptIn
  <1>2. N \in Nat /\ From \subseteq T
    OBVIOUS
  <1> DEFINE Bad == {m \in 0..N : f[m] \notin Seq(From)}
  <1>3. \A j \in 1..N : q[j] \in From
    OBVIOUS
  <1> HIDE DEF N, From
  <1>4. Bad = {}
    <2> SUFFICES ASSUME Bad # {}
                 PROVE  FALSE
      OBVIOUS
    <2>1. Bad \in SUBSET Nat
      BY <1>2
    <2>2. PICK m \in Bad : \A y \in Bad : m <= y
      BY <2>1, Least, Zenon
    <2>3. m \in 0..N /\ f[m] \notin Seq(From)
      OBVIOUS
    <2>4. CASE m = 0
      <3>1. <<>> \in Seq(From)
        OBVIOUS
      <3> QED
        BY <1>1, <2>3, <2>4, <3>1
    <2>5. CASE m # 0
      <3>1. m \in 1..N /\ m - 1 \in 0..N /\ ~(m <= m - 1)
        BY <1>2, <2>3, <2>5
      <3>2. f[m - 1] \in Seq(From)
        BY <2>2, <3>1
      <3>3. f[m] = Append(f[m - 1], q[m]) \/ f[m] = f[m - 1]
        BY <1>1, <3>1
      <3>4. Append(f[m - 1], q[m]) \in Seq(From)
        <4>1. \A s \in Seq(From), x \in From : Append(s, x) \in Seq(From)
          OBVIOUS
        <4> QED
          BY <1>3, <3>1, <3>2, <4>1
      <3> QED
        BY <2>3, <3>2, <3>3, <3>4
    <2> QED
      BY <2>4, <2>5
  <1>5. N \in 0..N
    BY <1>2
  <1>6. UserList!Matches(q, S) \in Seq(From)
    BY <1>1, <1>4, <1>5
  <1>7. \A s \in Seq(From) : s \in Seq(T) /\ \A i \in 1..Len(s) : s[i] \in From
    BY <1>2
  <1>8. \A i \in 1..Len(UserList!Matches(q, S)) : UserList!Matches(q, S)[i] \in From
    BY <1>6, <1>7
  <1> QED
    BY <1>6, <1>7, <1>8 DEF From, N

\* Nothing is kept of what does not match.
LEMMA NoneMatches ==
    ASSUME NEW S
    PROVE  /\ UserList!Matches(<<>>, S) = <<>>
           /\ \A x : x \notin S => UserList!Matches(<<x>>, S) = <<>>
  <1>1. UserList!Matches(<<>>, S) = <<>>
    <2>1. <<>> \in Seq({}) /\ Len(<<>>) = 0
      OBVIOUS
    <2>2. PICK f : KeptIn(f, <<>>, S, 0)
      BY <2>1, KeptSteps
    <2> QED
      BY <2>2 DEF KeptIn
  <1>2. ASSUME NEW x, x \notin S
        PROVE  UserList!Matches(<<x>>, S) = <<>>
    <2>1. <<x>> \in Seq({x}) /\ Len(<<x>>) = 1 /\ <<x>>[1] = x /\ 1 \in 1..1 /\ 1 - 1 = 0
      OBVIOUS
    <2>2. PICK f : KeptIn(f, <<x>>, S, 1)
      BY <2>1, KeptSteps
    <2>3. f[1] = f[0]
      BY <1>2, <2>1, <2>2 DEF KeptIn
    <2> QED
      BY <2>2, <2>3 DEF KeptIn
  <1> QED
    BY <1>1, <1>2

\* Of the numbers up to m those up to k are kept.
LEMMA FirstMatch ==
    ASSUME NEW m \in Nat, NEW k \in 0..m, NEW S, \A i \in 1..m : i \in S <=> i <= k
    PROVE  UserList!Matches([i \in 1..m |-> i], S) = [i \in 1..k |-> i]
  <1> DEFINE q == [i \in 1..m |-> i]
             Up(n) == [i \in 1..n |-> i]
  <1>1. q \in Seq(Nat) /\ Len(q) = m /\ \A i \in 1..m : q[i] = i
    OBVIOUS
  <1> HIDE DEF q
  <1>2. PICK f : /\ UserList!Matches(q, S) = f[m] /\ f[0] = <<>>
                 /\ \A n \in 1..m : f[n] = IF q[n] \in S THEN Append(f[n - 1], q[n]) ELSE f[n - 1]
    <2>1. PICK f : KeptIn(f, q, S, m)
      BY <1>1, KeptSteps
    <2> QED
      BY <2>1 DEF KeptIn
  <1>3. \A n \in Nat : /\ Up(n) \in Seq(Nat) /\ Len(Up(n)) = n
                       /\ \A i \in 1..n : Up(n)[i] = i
    OBVIOUS
  <1>4. \A n \in Nat : Append(Up(n), n + 1) = Up(n + 1)
    <2> SUFFICES ASSUME NEW n \in Nat
                 PROVE  Append(Up(n), n + 1) = Up(n + 1)
      OBVIOUS
    <2>1. /\ Append(Up(n), n + 1) \in Seq(Nat) /\ Len(Append(Up(n), n + 1)) = n + 1
          /\ \A i \in 1..n : Append(Up(n), n + 1)[i] = i
          /\ Append(Up(n), n + 1)[n + 1] = n + 1
      BY <1>3
    <2>2. \A i \in 1..(n + 1) : i \in 1..n \/ i = n + 1
      OBVIOUS
    <2>3. Append(Up(n), n + 1) = [i \in 1..(n + 1) |-> Append(Up(n), n + 1)[i]]
      BY <2>1
    <2> QED
      BY <2>1, <2>2, <2>3
  <1>5. Up(0) = <<>>
    OBVIOUS
  <1> DEFINE Least2(n) == IF n <= k THEN n ELSE k
             Bad == {n \in 0..m : f[n] # Up(Least2(n))}
  <1> HIDE DEF Up
  <1>6. Bad = {}
    <2> SUFFICES ASSUME Bad # {}
                 PROVE  FALSE
      OBVIOUS
    <2>1. Bad \in SUBSET Nat
      OBVIOUS
    <2>2. PICK n \in Bad : \A y \in Bad : n <= y
      BY <2>1, Least, Zenon
    <2>3. n \in 0..m /\ f[n] # Up(Least2(n))
      OBVIOUS
    <2>4. CASE n = 0
      BY <1>2, <1>5, <2>3, <2>4
    <2>5. CASE n # 0
      <3>1. n \in 1..m /\ n - 1 \in 0..m /\ ~(n <= n - 1)
        BY <2>3, <2>5
      <3>2. f[n - 1] = Up(Least2(n - 1))
        BY <2>2, <3>1
      <3>3. CASE n <= k
        <4>1. f[n] = Append(f[n - 1], n)
          BY <1>1, <1>2, <3>1, <3>3
        <4>2. f[n - 1] = Up(n - 1) /\ Least2(n) = n /\ n - 1 \in Nat /\ (n - 1) + 1 = n
          BY <3>1, <3>2, <3>3
        <4>3. Append(Up(n - 1), (n - 1) + 1) = Up((n - 1) + 1)
          BY <1>4, <4>2
        <4> QED
          BY <2>3, <4>1, <4>2, <4>3
      <3>4. CASE ~(n <= k)
        <4>1. f[n] = f[n - 1]
          BY <1>1, <1>2, <3>1, <3>4
        <4>2. Least2(n) = k /\ Least2(n - 1) = k
          BY <3>1, <3>4
        <4> QED
          BY <2>3, <3>2, <4>1, <4>2
      <3> QED
        BY <3>3, <3>4
    <2> QED
      BY <2>4, <2>5
  <1>7. m \in 0..m /\ Least2(m) = k
    OBVIOUS
  <1>8. f[m] = Up(k)
    BY <1>6, <1>7
  <1> QED
    BY <1>2, <1>8 DEF Up, q

\* A list without the first of a user is the list without that user.
LEMMA RemoveFirstIs ==
    ASSUME NEW T, NEW q \in Seq(T), NEW u
    PROVE  /\ UserList!RemoveFirst(q, u) \in Seq(T)
           /\ ListedOnce(q, u) => ~IsListed(UserList!RemoveFirst(q, u), u)
           /\ \A v : v # u => (IsListed(UserList!RemoveFirst(q, u), v) <=> IsListed(q, v))
           /\ \A v : ListedOnce(q, v) => ListedOnce(UserList!RemoveFirst(q, u), v)
  <1> DEFINE I == {i \in 1..Len(q) : q[i] = u}
             f == UserList!Min(I)
             r == UserList!RemoveFirst(q, u)
             n == Len(q)
  <1>1. r = IF \E i \in 1..Len(q) : q[i] = u THEN SubSeq(q, 1, f - 1) \o SubSeq(q, f + 1, n) ELSE q
    BY DEF UserList!RemoveFirst, UserList!SelectInSeq, UserList!RemoveAt
  <1>2. n \in Nat /\ DOMAIN q = 1..n /\ I \in SUBSET Nat
    OBVIOUS
  <1>4. CASE I = {}
    <2>1. r = q /\ ~IsListed(q, u)
      BY <1>1, <1>4 DEF IsListed
    <2> HIDE DEF r
    <2> QED
      BY <2>1 DEF r
  <1>5. CASE I # {}
    <2>1. f \in I /\ \A y \in I : f <= y
      <3>1. \E x \in I : \A y \in I : x <= y
        BY <1>2, <1>5, Least
      <3> HIDE DEF I
      <3> QED
        BY <3>1 DEF UserList!Min
    <2>2. f \in 1..n /\ q[f] = u /\ f - 1 \in Nat /\ f + 1 \in Nat
      BY <1>2, <2>1
    <2> HIDE DEF f
    <2> DEFINE a == SubSeq(q, 1, f - 1)
               b == SubSeq(q, f + 1, n)
    <2>3. a \in Seq(T) /\ Len(a) = f - 1 /\ \A k \in 1..(f - 1) : a[k] = q[k]
      <3>1. 1 <= f - 1 + 1 /\ f - 1 <= n /\ f - 1 - 1 + 1 = f - 1 /\ \A k \in 1..(f - 1) : k + 1 - 1 = k
        BY <1>2, <2>2
      <3>2. /\ a \in Seq(T) /\ Len(a) = f - 1 - 1 + 1
            /\ \A k \in 1..(f - 1 - 1 + 1) : a[k] = q[k + 1 - 1]
        BY <2>2, <3>1, Piece
      <3> HIDE DEF a
      <3> QED
        BY <3>1, <3>2
    <2>4. b \in Seq(T) /\ Len(b) = n - f /\ \A k \in 1..(n - f) : b[k] = q[k + f]
      <3>1. /\ 1 <= f + 1 /\ f + 1 <= n + 1 /\ n <= n /\ n - (f + 1) + 1 = n - f
            /\ \A k \in 1..(n - f) : k + (f + 1) - 1 = k + f
        BY <1>2, <2>2
      <3>2. /\ b \in Seq(T) /\ Len(b) = n - (f + 1) + 1
            /\ \A k \in 1..(n - (f + 1) + 1) : b[k] = q[k + (f + 1) - 1]
        BY <1>2, <2>2, <3>1, Piece
      <3> HIDE DEF b, n
      <3> QED
        BY <3>1, <3>2
    <2>5. r = a \o b
      BY <1>1, <1>5
    <2> HIDE DEF a, b, r, n
    <2>6. /\ r \in Seq(T) /\ Len(r) = n - 1
          /\ \A k \in 1..(n - 1) : \/ k \in 1..(f - 1) /\ r[k] = q[k]
                                   \/ k \in f..(n - 1) /\ r[k] = q[k + 1]
      <3>1. /\ a \o b \in Seq(T) /\ Len(a \o b) = Len(a) + Len(b)
            /\ \A k \in 1..(Len(a) + Len(b)) :
                  \/ k \in 1..Len(a) /\ (a \o b)[k] = a[k]
                  \/ k - Len(a) \in 1..Len(b) /\ (a \o b)[k] = b[k - Len(a)]
        <4>1. a \in Seq(T) /\ b \in Seq(T)
          BY <2>3, <2>4
        <4> QED
          BY <4>1, JoinedIs
      <3>2. (f - 1) + (n - f) = n - 1
        BY <1>2, <2>2
      <3>3. \A k \in 1..(n - 1) : \/ k \in 1..(f - 1) /\ r[k] = a[k]
                                  \/ k - (f - 1) \in 1..(n - f) /\ r[k] = b[k - (f - 1)]
        <4>1. Len(a) = f - 1 /\ Len(b) = n - f /\ a \o b = r
          BY <2>3, <2>4, <2>5
        <4>2. \A k \in 1..(n - 1) : \/ k \in 1..Len(a) /\ (a \o b)[k] = a[k]
                                    \/ k - Len(a) \in 1..Len(b) /\ (a \o b)[k] = b[k - Len(a)]
          BY <3>1, <3>2, <4>1
        <4> QED
          BY <4>1, <4>2, Zenon
      <3>4. \A k \in 1..(n - 1) : k - (f - 1) \in 1..(n - f) => k \in f..(n - 1) /\ k - (f - 1) + f = k + 1
        BY <1>2, <2>2
      <3>5. r \in Seq(T) /\ Len(r) = n - 1
        BY <2>3, <2>4, <2>5, <3>1, <3>2
      <3> QED
        BY <2>3, <2>4, <3>3, <3>4, <3>5
    <2>7. ASSUME NEW k \in 1..(n - 1)
          PROVE  \E i \in 1..n : i # f /\ r[k] = q[i] /\ i = IF k < f THEN k ELSE k + 1
      <3>1. /\ k \in 1..(f - 1) => k \in 1..n /\ k # f /\ k < f
            /\ k \in f..(n - 1) => k + 1 \in 1..n /\ k + 1 # f /\ ~(k < f)
        BY <1>2, <2>2
      <3> QED
        BY <2>6, <3>1
    <2>8. \A i \in 1..n : i # f => \E k \in 1..(n - 1) : r[k] = q[i]
      <3> SUFFICES ASSUME NEW i \in 1..n, i # f
                   PROVE  \E k \in 1..(n - 1) : r[k] = q[i]
        OBVIOUS
      <3>1. CASE i < f
        <4>1. i \in 1..(n - 1) /\ i \notin f..(n - 1)
          BY <1>2, <2>2, <3>1
        <4> QED
          BY <2>6, <4>1
      <3>2. CASE ~(i < f)
        <4>1. i - 1 \in 1..(n - 1) /\ i - 1 \notin 1..(f - 1) /\ i - 1 + 1 = i
          BY <1>2, <2>2, <3>2
        <4> QED
          BY <2>6, <4>1
      <3> QED
        BY <3>1, <3>2
    <2>9. n = Len(q) /\ Len(r) = n - 1
      BY <2>6 DEF n
    <2>10. ASSUME NEW v, v # u
           PROVE  IsListed(r, v) <=> IsListed(q, v)
      <3>1. ASSUME IsListed(r, v)
            PROVE  IsListed(q, v)
        <4>1. PICK k \in 1..(n - 1) : r[k] = v
          BY <2>9, <3>1 DEF IsListed
        <4>2. PICK i \in 1..n : r[k] = q[i]
          BY <2>7, <4>1
        <4> QED
          BY <2>9, <4>1, <4>2 DEF IsListed
      <3>2. ASSUME IsListed(q, v)
            PROVE  IsListed(r, v)
        <4>1. PICK i \in 1..n : q[i] = v
          BY <2>9, <3>2 DEF IsListed
        <4>2. i # f
          BY <2>2, <2>10, <4>1
        <4>3. PICK k \in 1..(n - 1) : r[k] = q[i]
          BY <2>8, <4>1, <4>2
        <4> QED
          BY <2>9, <4>1, <4>3 DEF IsListed
      <3> QED
        BY <3>1, <3>2
    <2>11. ASSUME NEW v, ListedOnce(q, v)
           PROVE  ListedOnce(r, v)
      <3> SUFFICES ASSUME NEW k \in 1..(n - 1), NEW l \in 1..(n - 1), r[k] = v, r[l] = v
                   PROVE  k = l
        BY <2>9 DEF ListedOnce
      <3> DEFINE kk == IF k < f THEN k ELSE k + 1
                 ll == IF l < f THEN l ELSE l + 1
      <3>1. kk \in 1..n /\ ll \in 1..n /\ r[k] = q[kk] /\ r[l] = q[ll]
        BY <2>7
      <3>2. kk = ll => k = l
        BY <1>2, <2>2
      <3> HIDE DEF kk, ll
      <3>3. kk = ll
        BY <2>9, <2>11, <3>1 DEF ListedOnce
      <3> QED
        BY <3>2, <3>3
    <2>12. ASSUME ListedOnce(q, u)
           PROVE  ~IsListed(r, u)
      <3> SUFFICES ASSUME NEW k \in 1..(n - 1), r[k] = u
                   PROVE  FALSE
        BY <2>9 DEF IsListed
      <3>1. PICK i \in 1..n : i # f /\ q[i] = u
        BY <2>7
      <3> QED
        BY <2>2, <2>9, <2>12, <3>1 DEF ListedOnce
    <2> QED
      BY <2>6, <2>10, <2>11, <2>12 DEF r
  <1> QED
    BY <1>4, <1>5

\* A list with one user more.
LEMMA OneMore ==
    ASSUME NEW T, NEW q \in Seq(T), NEW u \in T
    PROVE  /\ Append(q, u) \in Seq(T)
           /\ \A v : IsListed(Append(q, u), v) <=> IsListed(q, v) \/ v = u
           /\ \A v : ListedOnce(q, v) /\ (v = u => ~IsListed(q, u)) => ListedOnce(Append(q, u), v)
  <1> DEFINE n == Len(q)
             r == Append(q, u)
  <1>1. /\ r \in Seq(T) /\ n \in Nat /\ Len(r) = n + 1 /\ Len(q) = n
        /\ r[n + 1] = u /\ \A k \in 1..n : r[k] = q[k]
    OBVIOUS
  <1>2. /\ n + 1 \in 1..(n + 1) /\ \A k \in 1..(n + 1) : k \in 1..n \/ k = n + 1
        /\ \A k \in 1..n : k \in 1..(n + 1)
    BY <1>1
  <1> HIDE DEF n, r
  <1>3. \A v : IsListed(r, v) <=> IsListed(q, v) \/ v = u
    BY <1>1, <1>2 DEF IsListed
  <1>4. ASSUME NEW v, ListedOnce(q, v), v = u => ~IsListed(q, u)
        PROVE  ListedOnce(r, v)
    <2> SUFFICES ASSUME NEW i \in 1..(n + 1), NEW j \in 1..(n + 1), r[i] = v, r[j] = v
                 PROVE  i = j
      BY <1>1 DEF ListedOnce
    <2>1. v = u => \A k \in 1..n : q[k] # v
      BY <1>1, <1>4 DEF IsListed
    <2> QED
      BY <1>1, <1>2, <1>4, <2>1 DEF ListedOnce
  <1> QED
    BY <1>1, <1>3, <1>4 DEF r

\* The users of a finite set, one after the other.
LEMMA EachOnce ==
    ASSUME NEW S, IsFiniteSet(S)
    PROVE  /\ UserList!SetToSeq(S) \in Seq(S)
           /\ \A v : IsListed(UserList!SetToSeq(S), v) <=> v \in S
           /\ \A v : ListedOnce(UserList!SetToSeq(S), v)
  <1> DEFINE n == Cardinality(S)
             f == UserList!SetToSeq(S)
  <1>1. n \in Nat /\ ExistsBijection(1..n, S)
    BY FS_CardinalityType
  <1>2. \E g \in [1..n -> S] : \A a, b \in 1..n : g[a] = g[b] => a = b
    BY <1>1, Zenon DEF ExistsBijection, Bijection, Injection, Surjection, IsInjective
  <1>3. \A g \in [1..n -> S] : UserList!IsInjective(g) <=> \A a, b \in 1..n : g[a] = g[b] => a = b
    BY DEF UserList!IsInjective
  <1>4. f = CHOOSE g \in [1..n -> S] : UserList!IsInjective(g)
    <2>1. UserList!Cardinality(S) = Cardinality(S)
      BY DEF UserList!Cardinality, Cardinality
    <2> QED
      BY <2>1 DEF UserList!SetToSeq
  <1> HIDE DEF f, n
  <1>5. f \in [1..n -> S] /\ UserList!IsInjective(f)
    BY <1>2, <1>3, <1>4, Zenon
  <1>6. f \in Injection(1..n, S)
    BY <1>3, <1>5, Zenon DEF Injection, IsInjective
  <1>7. Cardinality(1..n) = n
    BY <1>1, FS_Interval
  <1>8. f \in Surjection(1..n, S)
    BY <1>6, <1>7, FS_Injection DEF n
  <1>9. \A x \in S : \E a \in 1..n : f[a] = x
    BY <1>8, Zenon DEF Surjection
  <1>10. f \in Seq(S) /\ Len(f) = n
    BY <1>1, <1>5
  <1>11. \A v : IsListed(f, v) <=> v \in S
    BY <1>5, <1>9, <1>10 DEF IsListed
  <1>12. \A v : ListedOnce(f, v)
    <2>1. \A a, b \in 1..n : f[a] = f[b] => a = b
      BY <1>3, <1>5
    <2> QED
      BY <1>10, <2>1 DEF ListedOnce
  <1> QED
    BY <1>10, <1>11, <1>12 DEF f

\* Some of the numbers up to m, and those after it, are all up to k.
LEMMA UpTo ==
    ASSUME NEW m \in Nat, NEW k \in Nat
    PROVE  [i \in 1..(IF k <= m THEN k ELSE m) |-> i] \o [i \in 1..(k - m) |-> m + i]
               = [i \in 1..k |-> i]
  <1> DEFINE a == [i \in 1..(IF k <= m THEN k ELSE m) |-> i]
             b == [i \in 1..(k - m) |-> m + i]
             c == [i \in 1..k |-> i]
  <1>1. /\ a \in Seq(Nat) /\ Len(a) = IF k <= m THEN k ELSE m
        /\ \A i \in 1..Len(a) : a[i] = i
    OBVIOUS
  <1>2. /\ b \in Seq(Nat) /\ Len(b) = IF k <= m THEN 0 ELSE k - m
        /\ \A i \in 1..Len(b) : b[i] = m + i
    <2>1. CASE k <= m
      <3>1. 1..(k - m) = {}
        BY <2>1
      <3>2. b = <<>>
        BY <3>1
      <3> HIDE DEF b
      <3> QED
        BY <2>1, <3>2
    <2>2. CASE ~(k <= m)
      <3>1. k - m \in Nat
        BY <2>2
      <3> QED
        BY <2>2, <3>1
    <2> QED
      BY <2>1, <2>2
  <1> HIDE DEF a, b
  <1>3. /\ a \o b \in Seq(Nat) /\ Len(a \o b) = Len(a) + Len(b)
        /\ \A i \in 1..(Len(a) + Len(b)) :
              \/ i \in 1..Len(a) /\ (a \o b)[i] = a[i]
              \/ i - Len(a) \in 1..Len(b) /\ (a \o b)[i] = b[i - Len(a)]
    <2>1. a \in Seq(Nat) /\ b \in Seq(Nat)
      BY <1>1, <1>2
    <2> QED
      BY <2>1, JoinedIs
  <1>4. Len(a) + Len(b) = k
    BY <1>1, <1>2
  <1>5. \A i \in 1..k : (a \o b)[i] = i
    <2> SUFFICES ASSUME NEW i \in 1..k
                 PROVE  (a \o b)[i] = i
      OBVIOUS
    <2>1. \/ i \in 1..Len(a) /\ (a \o b)[i] = a[i]
          \/ i - Len(a) \in 1..Len(b) /\ (a \o b)[i] = b[i - Len(a)]
      BY <1>3, <1>4
    <2>2. i - Len(a) \in 1..Len(b) => Len(a) = m /\ m + (i - Len(a)) = i
      BY <1>1, <1>2
    <2> QED
      BY <1>1, <1>2, <2>1, <2>2
  <1>6. a \o b = [i \in 1..k |-> (a \o b)[i]]
    <2> DEFINE s == a \o b
    <2>1. s \in Seq(Nat) /\ Len(s) = k
      BY <1>3, <1>4
    <2> HIDE DEF s
    <2>2. s = [i \in 1..k |-> s[i]]
      BY <2>1
    <2> QED
      BY <2>2 DEF s
  <1>7. a \o b = c
    BY <1>5, <1>6
  <1> QED
    BY <1>7 DEF a, b

ListTypes ==
    /\ unfilteredList \in Seq(Users) /\ list \in Seq(Users)
    /\ \A i \in DOMAIN liElements : liElements[i] \in Seq(Users)
    /\ \A i \in DOMAIN listElement : listElement[i] \in DOMAIN liElements

\* Whatever the new list is, the users of it that match are on the screen.
LEMMA SyncKeeps ==
    ASSUME UserList!TypeOK, EachHasItsLi, NEW all \in Seq(Users), NEW filter,
           UserList!SyncLists(all, filter), matching' = filter
    PROVE  EachHasItsLi' /\ unfilteredList' = all /\ ListTypes'
  <1> DEFINE new == UserList!Matches(all, filter)
             k == Len(new)
             m == Len(list)
             n == Len(liElements)
             many == IF k > n THEN k ELSE n
             Emptied(i) == IF i <= m
                           THEN UserList!Matches(UserList!ElementAt(i), Users \ {list[i]})
                           ELSE UserList!ElementAt(i)
             shown == UserList!Remaining(list, new)
             more == [i \in 1..(k - m) |-> m + i]
  <1>1. /\ unfilteredList' = all /\ list' = new
        /\ liElements' = [i \in 1..many |-> IF i <= k THEN Append(Emptied(i), new[i])
                                                      ELSE Emptied(i)]
        /\ listElement' = shown \o more
    BY DEF UserList!SyncLists
  <1>2. new \in Seq(Users)
    BY MatchesAre, Zenon
  <1>3. /\ list \in Seq(Users) /\ liElements \in Seq(Seq(Users)) /\ listElement \in Seq(Nat)
        /\ m <= n /\ DOMAIN list = 1..m /\ DOMAIN liElements = 1..n
    BY DEF EachHasItsLi, UserList!TypeOK
  <1>4. /\ listElement = [i \in 1..m |-> i]
        /\ \A i \in 1..n : liElements[i] = IF i \in 1..m THEN <<list[i]>> ELSE <<>>
    BY <1>3 DEF EachHasItsLi, UserList!OnScreen
  <1>5. k \in Nat /\ m \in Nat /\ n \in Nat /\ DOMAIN new = 1..k
    BY <1>2, <1>3
  <1> HIDE DEF new, k, m, n, shown, more
  <1>6. many \in Nat /\ k <= many
    BY <1>5
  <1>7. ASSUME NEW i \in 1..many
        PROVE  Emptied(i) = <<>>
    <2>1. CASE i <= m
      <3>1. i \in 1..n /\ i \in 1..m
        BY <1>3, <1>5, <1>6, <2>1
      <3>2. UserList!ElementAt(i) = <<list[i]>>
        BY <1>3, <1>4, <3>1 DEF UserList!ElementAt
      <3>3. list[i] \notin Users \ {list[i]}
        OBVIOUS
      <3>4. UserList!Matches(<<list[i]>>, Users \ {list[i]}) = <<>>
        BY <3>3, NoneMatches, Zenon
      <3> QED
        BY <2>1, <3>2, <3>4
    <2>2. CASE ~(i <= m)
      <3>1. i \notin 1..m
        BY <2>2
      <3>2. UserList!ElementAt(i) = <<>>
        BY <1>3, <1>4, <3>1 DEF UserList!ElementAt
      <3> QED
        BY <2>2, <3>2
    <2> QED
      BY <2>1, <2>2
  <1>8. liElements' = [i \in 1..many |-> IF i \in 1..k THEN <<new[i]>> ELSE <<>>]
    <2>1. \A x : Append(<<>>, x) = <<x>>
      OBVIOUS
    <2>2. \A i \in 1..many : i <= k <=> i \in 1..k
      BY <1>5, <1>6
    <2> HIDE DEF many, Emptied
    <2> QED
      BY <1>1, <1>7, <2>1, <2>2
  <1>9. \A i \in 1..k : new[i] \in Users
    BY <1>2, <1>5
  <1>10. liElements' \in Seq(Seq(Users)) /\ Len(liElements') = many
    <2>1. \A x \in Users : <<x>> \in Seq(Users)
      OBVIOUS
    <2>2. \A i \in 1..many : (IF i \in 1..k THEN <<new[i]>> ELSE <<>>) \in Seq(Users)
      BY <1>9, <2>1
    <2> HIDE DEF many
    <2>3. liElements' \in [1..many -> Seq(Users)]
      BY <1>8, <2>2
    <2> QED
      BY <1>6, <2>3
  <1>11. shown = [i \in 1..(IF k <= m THEN k ELSE m) |-> i]
    <2> DEFINE low == IF k <= m THEN k ELSE m
               S == DOMAIN liElements \ ((k + 1)..m)
    <2>1. shown = UserList!Matches(listElement, S)
      BY DEF shown, UserList!Remaining, k, m
    <2>2. \A i \in 1..m : i \in S <=> i <= low
      BY <1>3, <1>5
    <2>3. low \in 0..m
      BY <1>5
    <2> HIDE DEF low, S
    <2>4. UserList!Matches([i \in 1..m |-> i], S) = [i \in 1..low |-> i]
      BY <1>5, <2>2, <2>3, FirstMatch
    <2> QED
      BY <1>4, <2>1, <2>4 DEF low
  <1>12. listElement' = [i \in 1..k |-> i]
    BY <1>1, <1>5, <1>11, UpTo DEF more
  <1>13. listElement' \in Seq(Nat)
    BY <1>5, <1>12
  <1>14. DOMAIN list' = 1..k /\ Len(list') = k /\ DOMAIN liElements' = 1..many
    BY <1>1, <1>5, <1>6, <1>10 DEF k
  <1>15. UserList!OnScreen'
    <2>1. list' = UserList!Matches(unfilteredList', matching')
      BY <1>1 DEF new
    <2>2. listElement' = [i \in DOMAIN list' |-> i]
      BY <1>12, <1>14
    <2> HIDE DEF many
    <2>3. \A i \in DOMAIN liElements' :
             liElements'[i] = IF i \in DOMAIN list' THEN <<list'[i]>> ELSE <<>>
      BY <1>1, <1>8, <1>14
    <2> QED
      BY <2>1, <2>2, <2>3 DEF UserList!OnScreen
  <1>16. EachHasItsLi'
    BY <1>6, <1>10, <1>13, <1>14, <1>15 DEF EachHasItsLi
  <1>17. /\ \A i \in DOMAIN liElements' : liElements'[i] \in Seq(Users)
         /\ \A i \in DOMAIN listElement' : listElement'[i] \in DOMAIN liElements'
    <2>1. \A s \in Seq(Seq(Users)) : \A i \in DOMAIN s : s[i] \in Seq(Users)
      OBVIOUS
    <2>2. DOMAIN listElement' = 1..k /\ \A i \in 1..k : listElement'[i] = i /\ i \in 1..many
      BY <1>5, <1>6, <1>12
    <2> HIDE DEF many
    <2> QED
      BY <1>10, <1>14, <2>1, <2>2
  <1>18. ListTypes'
    BY <1>1, <1>2, <1>17 DEF ListTypes
  <1> QED
    BY <1>1, <1>16, <1>18

\* The list stays as it is.
LEMMA ListsKept ==
    ASSUME UserList!TypeOK, EachHasItsLi, UNCHANGED <<unfilteredList, list, liElements, listElement>>,
           UNCHANGED matching
    PROVE  EachHasItsLi' /\ ListTypes'
  <1>1. EachHasItsLi'
    BY DEF EachHasItsLi, UserList!OnScreen
  <1>2. ListTypes
    BY DEF ListTypes, UserList!TypeOK
  <1>3. ListTypes'
    BY <1>2 DEF ListTypes
  <1> QED
    BY <1>1, <1>3

\* At first nobody is in the list.
LEMMA UsersInit ==
    ASSUME UsersConstants, UserList!Init
    PROVE  UsersInv
  <1>1. /\ server = Initial /\ snapshot = {} /\ fetched = "asked"
        /\ unfilteredList = <<>> /\ list = <<>> /\ liElements = <<>> /\ listElement = <<>>
        /\ matching = Users /\ adding = [u \in Users |-> "no"] /\ deleting = [u \in Users |-> "no"]
        /\ deleted = {} /\ opening = {} /\ info = Nobody /\ crossed = {}
    BY DEF UserList!Init
  <1>2. <<>> \in Seq(Users) /\ <<>> \in Seq(Seq(Users)) /\ <<>> \in Seq(Nat) /\ Len(<<>>) = 0
        /\ DOMAIN <<>> = {} /\ 1..0 = {}
    OBVIOUS
  <1>3. UserList!TypeOK
    BY <1>1, <1>2 DEF UserList!TypeOK, UsersConstants
  <1>4. EachHasItsLi
    <2>1. UserList!Matches(<<>>, matching) = <<>>
      BY NoneMatches
    <2>2. <<>> = [i \in {} |-> i]
      OBVIOUS
    <2>3. UserList!OnScreen
      BY <1>1, <1>2, <2>1, <2>2 DEF UserList!OnScreen
    <2> QED
      BY <1>1, <1>2, <2>3 DEF EachHasItsLi
  <1>5. ASSUME NEW u \in Users
        PROVE  UserFits(u)
    <2>1. ~IsListed(unfilteredList, u)
      BY <1>1, <1>2 DEF IsListed
    <2> QED
      BY <1>1, <2>1 DEF UserFits, UsersConstants
  <1> QED
    BY <1>3, <1>4, <1>5 DEF UsersInv

\* Whoever a step has nothing to do with is in the list as before.
LEMMA OthersFit ==
    ASSUME NEW v \in Users, UserFits(v),
           fetched' = fetched, v \in snapshot' <=> v \in snapshot,
           adding'[v] = adding[v], deleting'[v] = deleting[v],
           v \in server' <=> v \in server, v \in deleted' <=> v \in deleted,
           v \in opening' => v \in opening, info' = v => info = v,
           IsListed(unfilteredList', v) <=> IsListed(unfilteredList, v),
           ListedOnce(unfilteredList, v) => ListedOnce(unfilteredList', v)
    PROVE  UserFits(v)'
  <1>1. v \in UserList!Known' <=> v \in UserList!Known
    BY DEF UserList!Known
  <1> QED
    BY <1>1 DEF UserFits

\* The server sends its users.
LEMMA ListedKeeps ==
    ASSUME UsersConstants, UsersInv, UserList!Listed
    PROVE  UsersInv'
  <1>1. /\ fetched = "asked" /\ fetched' = "onItsWay" /\ snapshot' = server
        /\ UNCHANGED <<unfilteredList, list, liElements, listElement>> /\ UNCHANGED matching
        /\ UNCHANGED <<server, adding, deleting, deleted, opening, info, crossed>>
    BY DEF UserList!Listed, UserList!lists, UserList!requests
  <1>2. UserList!TypeOK /\ EachHasItsLi
    BY DEF UsersInv
  <1>3. EachHasItsLi' /\ ListTypes'
    BY <1>1, <1>2, ListsKept
  <1>4. UserList!TypeOK'
    BY <1>1, <1>2, <1>3 DEF UserList!TypeOK, ListTypes
  <1>5. ASSUME NEW v \in Users \ crossed
        PROVE  UserFits(v)'
    <2>1. UserFits(v)
      BY DEF UsersInv
    <2> QED
      BY <1>1, <2>1 DEF UserFits
  <1> QED
    BY <1>1, <1>3, <1>4, <1>5 DEF UsersInv

\* A new search.
LEMMA SearchKeeps ==
    ASSUME UsersConstants, UsersInv, NEW filter \in SUBSET Users, UserList!Search(filter)
    PROVE  UsersInv'
  <1>1. /\ matching' = filter /\ UserList!SyncLists(unfilteredList, filter)
        /\ UNCHANGED <<server, fetched, snapshot, adding, deleting, deleted, opening, info>>
        /\ UNCHANGED crossed
    BY DEF UserList!Search, UserList!requests
  <1>2. UserList!TypeOK /\ EachHasItsLi /\ unfilteredList \in Seq(Users)
    BY DEF UsersInv, UserList!TypeOK
  <1>3. EachHasItsLi' /\ ListTypes' /\ unfilteredList' = unfilteredList
    BY <1>1, <1>2, SyncKeeps
  <1>4. UserList!TypeOK'
    BY <1>1, <1>2, <1>3 DEF UserList!TypeOK, ListTypes
  <1>5. ASSUME NEW v \in Users \ crossed
        PROVE  UserFits(v)'
    <2>1. UserFits(v)
      BY DEF UsersInv
    <2> QED
      BY <1>1, <1>3, <2>1, OthersFit
  <1> QED
    BY <1>1, <1>3, <1>4, <1>5 DEF UsersInv

\* The list comes.
LEMMA UpdateCacheKeeps ==
    ASSUME UsersConstants, UsersInv, UserList!UpdateCache
    PROVE  UsersInv'
  <1> DEFINE stay == UserList!Matches(unfilteredList, snapshot)
             new == {u \in snapshot : ~UserList!Contains(unfilteredList, u)}
             come == UserList!SetToSeq(new)
  <1>1. /\ fetched = "onItsWay" /\ fetched' = "done"
        /\ UserList!SyncLists(stay \o come, matching)
        /\ UNCHANGED matching
        /\ UNCHANGED <<server, snapshot, adding, deleting, deleted, opening, info, crossed>>
    BY DEF UserList!UpdateCache, UserList!requests
  <1>2. UserList!TypeOK /\ EachHasItsLi /\ unfilteredList \in Seq(Users) /\ snapshot \subseteq Users
    BY DEF UsersInv, UserList!TypeOK
  <1>3. stay \in Seq(Users) /\ \A v : IsListed(stay, v) => IsListed(unfilteredList, v)
    <2>1. /\ UserList!Matches(unfilteredList, snapshot) \in Seq(Users)
          /\ \A i \in 1..Len(UserList!Matches(unfilteredList, snapshot)) :
                \E j \in 1..Len(unfilteredList) :
                   UserList!Matches(unfilteredList, snapshot)[i] = unfilteredList[j]
      <3>1. unfilteredList \in Seq(Users)
        BY <1>2
      <3> QED
        BY <3>1, MatchesAre
    <2> HIDE DEF stay
    <2>2. stay \in Seq(Users) /\ \A i \in 1..Len(stay) : \E j \in 1..Len(unfilteredList) :
             stay[i] = unfilteredList[j]
      BY <2>1 DEF stay
    <2> QED
      BY <2>2 DEF IsListed
  <1>4. IsFiniteSet(new)
    <2>1. new \subseteq Users /\ IsFiniteSet(Users)
      BY <1>2 DEF UsersConstants
    <2> QED
      BY <2>1, FS_Subset
  <1>5. /\ come \in Seq(new) /\ \A v : IsListed(come, v) <=> v \in new
        /\ \A v : ListedOnce(come, v)
    BY <1>4, EachOnce
  <1>6. \A v \in Users : v \in new <=> v \in snapshot /\ ~IsListed(unfilteredList, v)
    BY <1>2 DEF UserList!Contains, IsListed
  <1>7. come \in Seq(Users)
    <2>1. new \subseteq Users
      BY <1>2
    <2> HIDE DEF new, come
    <2> QED
      BY <1>5, <2>1
  <1> HIDE DEF come, stay, new
  <1>8. /\ stay \o come \in Seq(Users) /\ Len(stay \o come) = Len(stay) + Len(come)
        /\ \A k \in 1..(Len(stay) + Len(come)) :
              \/ k \in 1..Len(stay) /\ (stay \o come)[k] = stay[k]
              \/ k - Len(stay) \in 1..Len(come) /\ (stay \o come)[k] = come[k - Len(stay)]
        /\ \A k \in 1..Len(come) : k + Len(stay) \in 1..(Len(stay) + Len(come))
                                   /\ (stay \o come)[k + Len(stay)] = come[k]
    <2>1. stay \in Seq(Users) /\ come \in Seq(Users)
      BY <1>3, <1>7
    <2> QED
      BY <2>1, JoinedIs
  <1>9. EachHasItsLi' /\ ListTypes' /\ unfilteredList' = stay \o come
    BY <1>1, <1>2, <1>8, SyncKeeps
  <1>10. UserList!TypeOK'
    BY <1>1, <1>2, <1>9 DEF UserList!TypeOK, ListTypes
  <1>11. ASSUME NEW v \in Users \ crossed
         PROVE  UserFits(v)'
    <2>1. /\ UserFits(v) /\ ~IsListed(unfilteredList, v) /\ v \notin deleted
          /\ adding[v] = "no" /\ deleting[v] = "no" /\ (v \in snapshot <=> v \in server)
          /\ v \notin opening /\ info # v
      BY <1>1 DEF UsersInv, UserFits
    <2>2. \A k \in 1..Len(stay) : stay[k] # v
      BY <1>3, <2>1 DEF IsListed
    <2>3. \A k \in 1..(Len(stay) + Len(come)) : (stay \o come)[k] = v =>
             k \in Int /\ k - Len(stay) \in 1..Len(come) /\ come[k - Len(stay)] = v
      BY <1>8, <2>2
    <2>4. IsListed(stay \o come, v) <=> IsListed(come, v)
      BY <1>8, <2>3 DEF IsListed
    <2>5. ListedOnce(stay \o come, v)
      <3> SUFFICES ASSUME NEW i \in 1..(Len(stay) + Len(come)),
                          NEW j \in 1..(Len(stay) + Len(come)),
                          (stay \o come)[i] = v, (stay \o come)[j] = v
                   PROVE  i = j
        BY <1>8 DEF ListedOnce
      <3>1. i - Len(stay) = j - Len(stay)
        BY <1>5, <2>3 DEF ListedOnce
      <3>2. Len(stay) \in Nat
        BY <1>3
      <3> QED
        BY <3>1, <3>2
    <2>6. IsListed(unfilteredList', v) <=> v \in server
      BY <1>5, <1>6, <1>9, <2>1, <2>4
    <2>7. v \in UserList!Known' <=> v \in server
      BY <1>1, <2>1 DEF UserList!Known
    <2>8. ListedOnce(unfilteredList', v)
      BY <1>9, <2>5
    <2> QED
      BY <1>1, <2>1, <2>6, <2>7, <2>8 DEF UserFits
  <1> QED
    BY <1>1, <1>9, <1>10, <1>11 DEF UsersInv

\* Who is in the list on the screen is in the list.
LEMMA WhoIsShown ==
    ASSUME UserList!TypeOK, EachHasItsLi, NEW u, UserList!Contains(list, u)
    PROVE  IsListed(unfilteredList, u)
  <1>1. /\ unfilteredList \in Seq(Users) /\ list \in Seq(Users)
        /\ list = UserList!Matches(unfilteredList, matching)
    BY DEF EachHasItsLi, UserList!OnScreen, UserList!TypeOK
  <1>2. PICK i \in 1..Len(list) : list[i] = u
    BY DEF UserList!Contains
  <1>3. \A n \in 1..Len(UserList!Matches(unfilteredList, matching)) :
           \E m \in 1..Len(unfilteredList) :
              UserList!Matches(unfilteredList, matching)[n] = unfilteredList[m]
    <2>1. unfilteredList \in Seq(Users)
      BY <1>1
    <2> QED
      BY <2>1, MatchesAre
  <1> QED
    BY <1>1, <1>2, <1>3 DEF IsListed

\* A change that is asked for before the list has come crosses it.
LEMMA CrossedIs ==
    ASSUME UserList!TypeOK, NEW u \in Users, crossed' = UserList!Crossed(u)
    PROVE  /\ crossed' \subseteq Users /\ crossed \subseteq crossed'
           /\ u \notin crossed' => fetched = "done"
  BY DEF UserList!TypeOK, UserList!Crossed

\* An administrator asks for a new user.
LEMMA AskAddKeeps ==
    ASSUME UsersConstants, UsersInv, NEW u \in Users, UserList!AskAdd(u)
    PROVE  UsersInv'
  <1>1. /\ u \notin server /\ adding[u] = "no" /\ deleting[u] = "no"
        /\ adding' = [adding EXCEPT ![u] = "asked"] /\ crossed' = UserList!Crossed(u)
        /\ UNCHANGED <<unfilteredList, list, liElements, listElement>> /\ UNCHANGED matching
        /\ UNCHANGED <<server, fetched, snapshot, deleting, deleted, opening, info>>
    BY DEF UserList!AskAdd, UserList!lists
  <1>2. UserList!TypeOK /\ EachHasItsLi
    BY DEF UsersInv
  <1>3. /\ crossed' \subseteq Users /\ crossed \subseteq crossed'
        /\ u \notin crossed' => fetched = "done"
    BY <1>1, <1>2, CrossedIs
  <1>4. EachHasItsLi' /\ ListTypes'
    BY <1>1, <1>2, ListsKept
  <1>5. UserList!TypeOK'
    BY <1>1, <1>2, <1>3, <1>4 DEF UserList!TypeOK, ListTypes
  <1>6. \A v \in Users : adding'[v] = IF v = u THEN "asked" ELSE adding[v]
    BY <1>1, <1>2 DEF UserList!TypeOK
  <1>7. ASSUME NEW v \in Users \ crossed'
        PROVE  UserFits(v)'
    <2>1. UserFits(v)
      BY <1>3 DEF UsersInv
    <2>2. CASE v # u
      BY <1>1, <1>6, <2>1, <2>2, OthersFit
    <2>3. CASE v = u
      <3>1. v \in UserList!Known' <=> v \in UserList!Known
        BY <1>1, <1>6, <2>3 DEF UserList!Known
      <3> QED
        BY <1>1, <1>3, <1>6, <2>1, <2>3, <3>1 DEF UserFits
    <2> QED
      BY <2>2, <2>3
  <1> QED
    BY <1>4, <1>5, <1>7 DEF UsersInv

\* The server adds it, or does not.
LEMMA AddOnServerKeeps ==
    ASSUME UsersConstants, UsersInv, NEW u \in Users, UserList!AddOnServer(u)
    PROVE  UsersInv'
  <1>1. /\ adding[u] = "asked"
        /\ \/ adding' = [adding EXCEPT ![u] = "added"] /\ server' = server \cup {u}
           \/ adding' = [adding EXCEPT ![u] = "no"] /\ server' = server
        /\ UNCHANGED <<unfilteredList, list, liElements, listElement>> /\ UNCHANGED matching
        /\ UNCHANGED <<fetched, snapshot, deleting, deleted, opening, info, crossed>>
    BY DEF UserList!AddOnServer, UserList!lists
  <1>2. UserList!TypeOK /\ EachHasItsLi
    BY DEF UsersInv
  <1>3. EachHasItsLi' /\ ListTypes'
    BY <1>1, <1>2, ListsKept
  <1>4. UserList!TypeOK'
    BY <1>1, <1>2, <1>3 DEF UserList!TypeOK, ListTypes
  <1>5. /\ \A v \in Users : v # u => adding'[v] = adding[v]
        /\ \A v \in Users : v # u => (v \in server' <=> v \in server)
        /\ \/ adding'[u] = "added" /\ u \in server'
           \/ adding'[u] = "no" /\ server' = server
    <2>1. adding \in [Users -> {"no", "asked", "added"}]
      BY <1>2 DEF UserList!TypeOK
    <2>2. \A v \in Users : v # u => adding'[v] = adding[v]
      BY <1>1, <2>1
    <2>3. \A v \in Users : v # u => (v \in server' <=> v \in server)
      BY <1>1
    <2>4. \/ adding'[u] = "added" /\ u \in server'
          \/ adding'[u] = "no" /\ server' = server
      BY <1>1, <2>1
    <2> QED
      BY <2>2, <2>3, <2>4
  <1>6. ASSUME NEW v \in Users \ crossed
        PROVE  UserFits(v)'
    <2>1. UserFits(v)
      BY DEF UsersInv
    <2>2. CASE v # u
      BY <1>1, <1>5, <2>1, <2>2, OthersFit
    <2>3. CASE v = u
      <3>1. /\ deleting[u] = "no" /\ u \notin server /\ u \notin opening /\ info # u
            /\ u \notin deleted /\ fetched = "done"
        BY <1>1, <2>1, <2>3 DEF UserFits
      <3>2. v \in UserList!Known' <=> v \in UserList!Known
        BY <1>1, <1>5, <2>3, <3>1 DEF UserList!Known
      <3> QED
        BY <1>1, <1>5, <2>1, <2>3, <3>1, <3>2 DEF UserFits
    <2> QED
      BY <2>2, <2>3
  <1> QED
    BY <1>1, <1>3, <1>4, <1>6 DEF UsersInv

\* The answer enters it in the list.
LEMMA AddedKeeps ==
    ASSUME UsersConstants, UsersInv, NEW u \in Users, UserList!Added(u)
    PROVE  UsersInv'
  <1>0. PICK more : more = Append(unfilteredList, u)
    OBVIOUS
  <1>1. /\ adding[u] = "added" /\ adding' = [adding EXCEPT ![u] = "no"]
        /\ UserList!SyncLists(more, matching)
        /\ UNCHANGED matching
        /\ UNCHANGED <<server, fetched, snapshot, deleting, deleted, opening, info, crossed>>
    BY <1>0 DEF UserList!Added
  <1>2. UserList!TypeOK /\ EachHasItsLi /\ unfilteredList \in Seq(Users)
    BY DEF UsersInv, UserList!TypeOK
  <1>3. /\ more \in Seq(Users)
        /\ \A v : IsListed(more, v) <=> IsListed(unfilteredList, v) \/ v = u
        /\ \A v : ListedOnce(unfilteredList, v) /\ (v = u => ~IsListed(unfilteredList, u)) =>
                     ListedOnce(more, v)
    <2>1. unfilteredList \in Seq(Users)
      BY <1>2
    <2> QED
      BY <1>0, <2>1, OneMore, Zenon
  <1>4. EachHasItsLi' /\ ListTypes' /\ unfilteredList' = more
    BY <1>1, <1>2, <1>3, SyncKeeps
  <1>5. UserList!TypeOK'
    BY <1>1, <1>2, <1>4 DEF UserList!TypeOK, ListTypes
  <1>6. \A v \in Users : adding'[v] = IF v = u THEN "no" ELSE adding[v]
    BY <1>1, <1>2 DEF UserList!TypeOK
  <1>7. ASSUME NEW v \in Users \ crossed
        PROVE  UserFits(v)'
    <2>1. UserFits(v)
      BY DEF UsersInv
    <2>2. CASE v # u
      BY <1>1, <1>3, <1>4, <1>6, <2>1, <2>2, OthersFit
    <2>3. CASE v = u
      <3>1. deleting[u] = "no" /\ u \in server /\ u \notin deleted /\ fetched = "done"
        BY <1>1, <2>1, <2>3 DEF UserFits
      <3>2. v \in UserList!Known' /\ v \notin UserList!Known
        BY <1>1, <1>6, <2>3, <3>1 DEF UserList!Known
      <3>3. ~IsListed(unfilteredList, u) /\ ListedOnce(unfilteredList, u)
        BY <2>1, <2>3, <3>1, <3>2 DEF UserFits
      <3>4. IsListed(unfilteredList', v) /\ ListedOnce(unfilteredList', v)
        BY <1>3, <1>4, <2>3, <3>3
      <3> QED
        BY <1>1, <1>6, <2>1, <2>3, <3>1, <3>2, <3>4 DEF UserFits
    <2> QED
      BY <2>2, <2>3
  <1> QED
    BY <1>1, <1>4, <1>5, <1>7 DEF UsersInv

\* A user is clicked.
LEMMA ClickKeeps ==
    ASSUME UsersConstants, UsersInv, NEW u \in Users, UserList!Click(u)
    PROVE  UsersInv'
  <1>1. /\ UserList!Contains(list, u) /\ opening' = opening \cup {u}
        /\ UNCHANGED <<unfilteredList, list, liElements, listElement>> /\ UNCHANGED matching
        /\ UNCHANGED <<server, fetched, snapshot, adding, deleting, deleted, info, crossed>>
    BY DEF UserList!Click, UserList!lists
  <1>2. UserList!TypeOK /\ EachHasItsLi
    BY DEF UsersInv
  <1>3. EachHasItsLi' /\ ListTypes'
    BY <1>1, <1>2, ListsKept
  <1>4. UserList!TypeOK'
    BY <1>1, <1>2, <1>3 DEF UserList!TypeOK, ListTypes
  <1>5. ASSUME NEW v \in Users \ crossed
        PROVE  UserFits(v)'
    <2>1. UserFits(v)
      BY DEF UsersInv
    <2>2. CASE v # u
      BY <1>1, <2>1, <2>2, OthersFit
    <2>3. CASE v = u
      <3>1. IsListed(unfilteredList, u)
        BY <1>1, <1>2, WhoIsShown
      <3>2. fetched = "done" /\ u \in UserList!Known
        BY <2>1, <2>3, <3>1 DEF UserFits
      <3>3. deleting[u] # "no" \/ (u \in server /\ adding[u] = "no")
        <4>1. adding[u] \in {"no", "asked", "added"}
          BY <1>2 DEF UserList!TypeOK
        <4> QED
          BY <2>1, <2>3, <3>2, <4>1 DEF UserFits, UserList!Known
      <3>4. v \in UserList!Known' <=> v \in UserList!Known
        BY <1>1 DEF UserList!Known
      <3> QED
        BY <1>1, <2>1, <2>3, <3>2, <3>3, <3>4 DEF UserFits
    <2> QED
      BY <2>2, <2>3
  <1> QED
    BY <1>1, <1>3, <1>4, <1>5 DEF UsersInv

\* Its page opens.
LEMMA SetUserInfoKeeps ==
    ASSUME UsersConstants, UsersInv, NEW u \in Users, UserList!SetUserInfo(u)
    PROVE  UsersInv'
  <1>1. /\ u \in opening /\ opening' = opening \ {u} /\ info' = u
        /\ UNCHANGED <<unfilteredList, list, liElements, listElement>> /\ UNCHANGED matching
        /\ UNCHANGED <<server, fetched, snapshot, adding, deleting, deleted, crossed>>
    BY DEF UserList!SetUserInfo, UserList!lists
  <1>2. UserList!TypeOK /\ EachHasItsLi
    BY DEF UsersInv
  <1>3. EachHasItsLi' /\ ListTypes'
    BY <1>1, <1>2, ListsKept
  <1>4. UserList!TypeOK'
    BY <1>1, <1>2, <1>3 DEF UserList!TypeOK, ListTypes
  <1>5. ASSUME NEW v \in Users \ crossed
        PROVE  UserFits(v)'
    <2>1. UserFits(v)
      BY DEF UsersInv
    <2>2. CASE v # u
      BY <1>1, <2>1, <2>2, OthersFit
    <2>3. CASE v = u
      <3>1. v \in UserList!Known' <=> v \in UserList!Known
        BY <1>1 DEF UserList!Known
      <3> QED
        BY <1>1, <2>1, <2>3, <3>1 DEF UserFits
    <2> QED
      BY <2>2, <2>3
  <1> QED
    BY <1>1, <1>3, <1>4, <1>5 DEF UsersInv

\* "Delete" in the list.
LEMMA OnDeleteKeeps ==
    ASSUME UsersConstants, UsersInv, NEW u \in Users, UserList!OnDelete(u)
    PROVE  UsersInv'
  <1>0. PICK one, all : /\ one = UserList!RemoveFirst(unfilteredList, u)
                        /\ all = UserList!RemoveFirst(one, u)
    OBVIOUS
  <1>1. /\ UserList!Contains(list, u) /\ deleting[u] = "no"
        /\ deleting' = [deleting EXCEPT ![u] = "list"]
        /\ info' = IF info = u THEN Nobody ELSE info
        /\ UserList!SyncLists(all, matching) /\ crossed' = UserList!Crossed(u)
        /\ UNCHANGED matching
        /\ UNCHANGED <<server, fetched, snapshot, adding, deleted, opening>>
    BY <1>0 DEF UserList!OnDelete, UserList!OnUserDeleted
  <1>2. UserList!TypeOK /\ EachHasItsLi /\ unfilteredList \in Seq(Users)
    BY DEF UsersInv, UserList!TypeOK
  <1>3. /\ crossed' \subseteq Users /\ crossed \subseteq crossed'
        /\ u \notin crossed' => fetched = "done"
    BY <1>1, <1>2, CrossedIs
  <1>4. /\ one \in Seq(Users) /\ (ListedOnce(unfilteredList, u) => ~IsListed(one, u))
        /\ \A v : v # u => (IsListed(one, v) <=> IsListed(unfilteredList, v))
        /\ \A v : ListedOnce(unfilteredList, v) => ListedOnce(one, v)
    <2>1. unfilteredList \in Seq(Users)
      BY <1>2
    <2> QED
      BY <1>0, <2>1, RemoveFirstIs
  <1>5. /\ all \in Seq(Users) /\ (ListedOnce(one, u) => ~IsListed(all, u))
        /\ \A v : v # u => (IsListed(all, v) <=> IsListed(one, v))
        /\ \A v : ListedOnce(one, v) => ListedOnce(all, v)
    <2>1. one \in Seq(Users)
      BY <1>4
    <2> QED
      BY <1>0, <2>1, RemoveFirstIs
  <1>6. EachHasItsLi' /\ ListTypes' /\ unfilteredList' = all
    BY <1>1, <1>2, <1>5, SyncKeeps
  <1>7. UserList!TypeOK'
    BY <1>1, <1>2, <1>3, <1>6 DEF UserList!TypeOK, ListTypes
  <1>8. \A v \in Users : deleting'[v] = IF v = u THEN "list" ELSE deleting[v]
    BY <1>1, <1>2 DEF UserList!TypeOK
  <1>9. ASSUME NEW v \in Users \ crossed'
        PROVE  UserFits(v)'
    <2>1. UserFits(v)
      BY <1>3 DEF UsersInv
    <2>2. CASE v # u
      <3>1. /\ IsListed(unfilteredList', v) <=> IsListed(unfilteredList, v)
            /\ ListedOnce(unfilteredList, v) => ListedOnce(unfilteredList', v)
        BY <1>4, <1>5, <1>6, <2>2
      <3>2. info' = v => info = v
        BY <1>1, <2>2 DEF UsersConstants
      <3> QED
        BY <1>1, <1>8, <2>1, <2>2, <3>1, <3>2, OthersFit
    <2>3. CASE v = u
      <3>1. fetched = "done" /\ IsListed(unfilteredList, u)
        BY <1>1, <1>2, <1>3, <2>3, WhoIsShown
      <3>2. u \in server /\ adding[u] = "no" /\ u \notin deleted
        <4>1. adding[u] \in {"no", "asked", "added"}
          BY <1>2 DEF UserList!TypeOK
        <4> QED
          BY <1>1, <2>1, <2>3, <3>1, <4>1 DEF UserFits, UserList!Known
      <3>3. ListedOnce(unfilteredList, u)
        BY <2>1, <2>3, <3>1 DEF UserFits
      <3>4. ~IsListed(unfilteredList', v) /\ ListedOnce(unfilteredList', v)
        BY <1>4, <1>5, <1>6, <2>3, <3>3
      <3>5. v \notin UserList!Known'
        BY <1>1, <1>8, <2>3, <3>2 DEF UserList!Known
      <3>6. info' # u
        BY <1>1 DEF UsersConstants
      <3> QED
        BY <1>1, <1>8, <2>1, <2>3, <3>1, <3>2, <3>4, <3>5, <3>6 DEF UserFits
    <2> QED
      BY <2>2, <2>3
  <1> QED
    BY <1>6, <1>7, <1>9 DEF UsersInv

\* The button of the page.
LEMMA DeleteOnPageKeeps ==
    ASSUME UsersConstants, UsersInv, NEW u \in Users, UserList!DeleteOnPage(u)
    PROVE  UsersInv'
  <1>1. /\ info = u /\ deleting[u] = "no" /\ deleting' = [deleting EXCEPT ![u] = "page"]
        /\ crossed' = UserList!Crossed(u)
        /\ UNCHANGED <<unfilteredList, list, liElements, listElement>> /\ UNCHANGED matching
        /\ UNCHANGED <<server, fetched, snapshot, adding, deleted, opening, info>>
    BY DEF UserList!DeleteOnPage, UserList!lists
  <1>2. UserList!TypeOK /\ EachHasItsLi
    BY DEF UsersInv
  <1>3. /\ crossed' \subseteq Users /\ crossed \subseteq crossed'
        /\ u \notin crossed' => fetched = "done"
    BY <1>1, <1>2, CrossedIs
  <1>4. EachHasItsLi' /\ ListTypes'
    BY <1>1, <1>2, ListsKept
  <1>5. UserList!TypeOK'
    BY <1>1, <1>2, <1>3, <1>4 DEF UserList!TypeOK, ListTypes
  <1>6. \A v \in Users : deleting'[v] = IF v = u THEN "page" ELSE deleting[v]
    BY <1>1, <1>2 DEF UserList!TypeOK
  <1>7. ASSUME NEW v \in Users \ crossed'
        PROVE  UserFits(v)'
    <2>1. UserFits(v)
      BY <1>3 DEF UsersInv
    <2>2. CASE v # u
      BY <1>1, <1>6, <2>1, <2>2, OthersFit
    <2>3. CASE v = u
      <3>1. fetched = "done" /\ u \in server /\ adding[u] = "no"
        BY <1>1, <1>3, <2>1, <2>3 DEF UserFits
      <3>2. v \in UserList!Known' <=> v \in UserList!Known
        BY <1>1, <1>6, <2>3 DEF UserList!Known
      <3> QED
        BY <1>1, <1>6, <2>1, <2>3, <3>1, <3>2 DEF UserFits
    <2> QED
      BY <2>2, <2>3
  <1> QED
    BY <1>4, <1>5, <1>7 DEF UsersInv

\* The server deletes a user.
LEMMA DeleteOnServerKeeps ==
    ASSUME UsersConstants, UsersInv, NEW u \in Users, UserList!DeleteOnServer(u)
    PROVE  UsersInv'
  <1>1. /\ deleting[u] # "no" /\ u \in server /\ server' = server \ {u}
        /\ deleted' = IF deleting[u] = "page" THEN deleted \cup {u} ELSE deleted
        /\ UNCHANGED <<unfilteredList, list, liElements, listElement>> /\ UNCHANGED matching
        /\ UNCHANGED <<fetched, snapshot, adding, deleting, opening, info, crossed>>
    BY DEF UserList!DeleteOnServer, UserList!lists
  <1>2. UserList!TypeOK /\ EachHasItsLi
    BY DEF UsersInv
  <1>3. EachHasItsLi' /\ ListTypes'
    BY <1>1, <1>2, ListsKept
  <1>4. UserList!TypeOK'
    BY <1>1, <1>2, <1>3 DEF UserList!TypeOK, ListTypes
  <1>5. ASSUME NEW v \in Users \ crossed
        PROVE  UserFits(v)'
    <2>1. UserFits(v)
      BY DEF UsersInv
    <2>2. CASE v # u
      BY <1>1, <2>1, <2>2, OthersFit
    <2>3. CASE v = u
      <3>1. adding[u] = "no" /\ u \notin deleted /\ fetched = "done"
        BY <1>1, <2>1, <2>3 DEF UserFits
      <3>2. deleting[u] \in {"list", "page"}
        BY <1>1, <1>2 DEF UserList!TypeOK
      <3>3. v \in UserList!Known' <=> v \in UserList!Known
        BY <1>1, <2>3, <3>1, <3>2 DEF UserList!Known
      <3> QED
        BY <1>1, <2>1, <2>3, <3>1, <3>2, <3>3 DEF UserFits
    <2> QED
      BY <2>2, <2>3
  <1> QED
    BY <1>1, <1>3, <1>4, <1>5 DEF UsersInv

\* Its answer comes to the page that asked for it.
LEMMA DeletedOnPageKeeps ==
    ASSUME UsersConstants, UsersInv, NEW u \in Users, UserList!DeletedOnPage(u)
    PROVE  UsersInv'
  <1>0. PICK all : all = UserList!RemoveFirst(unfilteredList, u)
    OBVIOUS
  <1>1. /\ u \in deleted /\ deleted' = deleted \ {u}
        /\ info' = IF info = u THEN Nobody ELSE info
        /\ UserList!SyncLists(all, matching)
        /\ UNCHANGED matching
        /\ UNCHANGED <<server, fetched, snapshot, adding, deleting, opening, crossed>>
    BY <1>0 DEF UserList!DeletedOnPage, UserList!OnUserDeleted
  <1>2. UserList!TypeOK /\ EachHasItsLi /\ unfilteredList \in Seq(Users)
    BY DEF UsersInv, UserList!TypeOK
  <1>3. /\ all \in Seq(Users) /\ (ListedOnce(unfilteredList, u) => ~IsListed(all, u))
        /\ \A v : v # u => (IsListed(all, v) <=> IsListed(unfilteredList, v))
        /\ \A v : ListedOnce(unfilteredList, v) => ListedOnce(all, v)
    <2>1. unfilteredList \in Seq(Users)
      BY <1>2
    <2> QED
      BY <1>0, <2>1, RemoveFirstIs
  <1>4. EachHasItsLi' /\ ListTypes' /\ unfilteredList' = all
    BY <1>1, <1>2, <1>3, SyncKeeps
  <1>5. UserList!TypeOK'
    BY <1>1, <1>2, <1>4 DEF UserList!TypeOK, ListTypes
  <1>6. ASSUME NEW v \in Users \ crossed
        PROVE  UserFits(v)'
    <2>1. UserFits(v)
      BY DEF UsersInv
    <2>2. CASE v # u
      <3>1. info' = v => info = v
        BY <1>1, <2>2 DEF UsersConstants
      <3> QED
        BY <1>1, <1>3, <1>4, <2>1, <2>2, <3>1, OthersFit
    <2>3. CASE v = u
      <3>1. u \notin server /\ deleting[u] = "page" /\ fetched = "done"
        BY <1>1, <2>1, <2>3 DEF UserFits
      <3>2. ListedOnce(unfilteredList, u)
        BY <2>1, <2>3, <3>1 DEF UserFits
      <3>3. ~IsListed(unfilteredList', v) /\ ListedOnce(unfilteredList', v)
        BY <1>3, <1>4, <2>3, <3>2
      <3>4. v \notin UserList!Known'
        BY <1>1, <2>3, <3>1 DEF UserList!Known
      <3> QED
        BY <1>1, <2>1, <2>3, <3>1, <3>3, <3>4 DEF UserFits
    <2> QED
      BY <2>2, <2>3
  <1> QED
    BY <1>1, <1>4, <1>5, <1>6 DEF UsersInv

\* Every step of the page of an administrator keeps it.
LEMMA UsersKeeps ==
    ASSUME UsersConstants, UsersInv, UserList!Next
    PROVE  UsersInv'
  BY ListedKeeps, UpdateCacheKeeps, SearchKeeps, AskAddKeeps, AddOnServerKeeps, AddedKeeps,
     ClickKeeps, SetUserInfoKeeps, OnDeleteKeeps, DeleteOnPageKeeps, DeleteOnServerKeeps,
     DeletedOnPageKeeps, Zenon DEF UserList!Next

\* On the screen are the users of the list that match, and the list has the server's users, but
\* for those whose change crossed the list.
LEMMA UsersSound ==
    ASSUME UsersInv
    PROVE  UserList!TypeOK /\ UserList!ListIsRight
  <1>1. DOMAIN unfilteredList = 1..Len(unfilteredList)
    BY DEF UsersInv, UserList!TypeOK
  <1>2. ASSUME fetched = "done", NEW u \in Users \ crossed
        PROVE  /\ u \in UserList!Known <=> UserList!Listings(u) # {}
               /\ \A i, j \in UserList!Listings(u) : i = j
    <2>1. (IsListed(unfilteredList, u) <=> u \in UserList!Known) /\ ListedOnce(unfilteredList, u)
      BY <1>2 DEF UsersInv, UserFits
    <2>2. UserList!Listings(u) = {i \in 1..Len(unfilteredList) : unfilteredList[i] = u}
      BY <1>1 DEF UserList!Listings
    <2> QED
      BY <2>1, <2>2 DEF IsListed, ListedOnce
  <1> QED
    BY <1>2 DEF UsersInv, EachHasItsLi, UserList!ListIsRight

-------------------------------------------------------------------------------
(* All parts together *)

PageStreamInv ==
    /\ SetupInv /\ MonitorInv /\ SignalsInv /\ InboundInv /\ DecodingInv /\ PipelinesInv
    /\ WorkerInv /\ PlaybackInv /\ StatsInv /\ ElementsInv /\ PortalInv /\ ResponsesInv
    /\ UsersInv

\* What is heard of the set-up and the connection does not change while they stay.
LEMMA ConnectionStays ==
    ASSUME SetupInv, MonitorInv, SignalsInv
    PROVE  /\ UNCHANGED setupVars => SetupInv'
           /\ UNCHANGED monitorVars => MonitorInv'
           /\ UNCHANGED signallingVars => SignalsInv'
  <1>1. UNCHANGED setupVars => SetupInv'
    BY DEF setupVars, SetupInv, Setup!TypeOK, OneFlow, AskedFor, PeerWas, SidesAgree, MediaFit,
           BeforeStart, Connected
  <1>2. UNCHANGED monitorVars => MonitorInv'
    BY DEF monitorVars, MonitorInv, Monitor!TypeOK, NotTooLong, Monitor!LossIsWatched, Monitor!Down
  <1>3. UNCHANGED signallingVars => SignalsInv'
    BY DEF signallingVars, SignalsInv, Signals!TypeOK, NumbersFit, SomeTrackToCome, Alone,
           LastIsFull, Full, Unsettled, CandidatesFollow, Signals!AnsweredCandidatesCount,
           NoMaking, NoOffer, NoChange, NoDescription
  <1> QED
    BY <1>1, <1>2, <1>3

\* Nor do the pictures and the sound.
LEMMA MediaStay ==
    ASSUME InboundInv, DecodingInv, PipelinesInv, WorkerInv, PlaybackInv, StatsInv, ElementsInv
    PROVE  /\ UNCHANGED inboundVars => InboundInv'
           /\ UNCHANGED decodingVars => DecodingInv'
           /\ UNCHANGED pipelinesVars => PipelinesInv'
           /\ UNCHANGED workerVars => WorkerInv'
           /\ UNCHANGED playbackVars => PlaybackInv'
           /\ UNCHANGED statsVars => StatsInv'
           /\ UNCHANGED elementsVars => ElementsInv'
  <1>1. UNCHANGED inboundVars => InboundInv'
    BY DEF inboundVars, InboundInv, Inbound!TypeOK, Inbound!TrackReachesRenderer
  <1>2. UNCHANGED decodingVars => DecodingInv'
    BY DEF decodingVars, DecodingInv, Decoding!TypeOK, Decoding!DeltasContinue,
           Decoding!OneKeyFrameAsked, PipeSound, TranslatedSound, InBandSound, Decoding!Pipe
  <1>3. UNCHANGED pipelinesVars => PipelinesInv'
    BY DEF pipelinesVars, PipelinesInv, Pipelines!TypeOK
  <1>4. UNCHANGED workerVars => WorkerInv'
    BY DEF workerVars, WorkerInv, InWorker!TypeOK, InWorker!Input, InWorker!Message,
           InWorker!Output, ToWorkerFits, ToPageFits, CanvasBefore, SetUpBefore, MayShow
  <1>5. UNCHANGED playbackVars => PlaybackInv'
    BY DEF playbackVars, PlaybackInv, Playback!TypeOK
  <1>6. UNCHANGED statsVars => StatsInv'
    BY DEF statsVars, StatsInv, Stats!TypeOK, Stats!StatsFollowTransport
  <1>7. UNCHANGED elementsVars => ElementsInv'
    BY DEF elementsVars, ElementsInv, Elements!TypeOK
  <1> QED
    BY <1>1, <1>2, <1>3, <1>4, <1>5, <1>6, <1>7

\* Nor do the pages around the stream.
LEMMA PagesStay ==
    ASSUME PortalInv, ResponsesInv, UsersInv
    PROVE  /\ UNCHANGED portalVars => PortalInv'
           /\ UNCHANGED responsesVars => ResponsesInv'
           /\ UNCHANGED usersVars => UsersInv'
  <1>1. UNCHANGED portalVars => PortalInv'
    BY DEF portalVars, PortalInv, Portal!TypeOK, Portal!AsksOnlyWhoMust
  <1>2. UNCHANGED responsesVars => ResponsesInv'
    BY DEF responsesVars, ResponsesInv, Responses!TypeOK, NothingIsTorn, PlacesRise, HasRead, GotBack,
           NoneIsLost, Place
  <1>3. UNCHANGED usersVars => UsersInv'
    BY DEF usersVars, UsersInv, UserList!TypeOK, EachHasItsLi, UserList!OnScreen, UserFits,
           IsListed, ListedOnce, UserList!Known
  <1> QED
    BY <1>1, <1>2, <1>3

\* All parts start right.
LEMMA PageStreamInit == Init => PageStreamInv
  BY PageStreamConstants, SetupInit, MonitorInit, SignalsInit, InboundInit, DecodingInit,
     PipelinesInit, WorkerInit, PlaybackInit, StatsInit, ElementsInit, PortalInit, ResponsesInit,
     UsersInit DEF Init, PageStreamInv

\* What a step does: one part moves, and the others stay.
LEMMA OnePartMoves ==
    ASSUME [Next]_allVars
    PROVE  /\ Setup!Next \/ UNCHANGED setupVars
           /\ Monitor!Next \/ UNCHANGED monitorVars
           /\ Signals!Next \/ UNCHANGED signallingVars
           /\ Inbound!Next \/ UNCHANGED inboundVars
           /\ Decoding!Next \/ UNCHANGED decodingVars
           /\ Pipelines!Next \/ UNCHANGED pipelinesVars
           /\ InWorker!Next \/ UNCHANGED workerVars
           /\ Playback!Next \/ UNCHANGED playbackVars
           /\ Stats!Next \/ UNCHANGED statsVars
           /\ Elements!Next \/ UNCHANGED elementsVars
           /\ Portal!Next \/ UNCHANGED portalVars
           /\ Responses!Next \/ UNCHANGED responsesVars
           /\ UserList!Next \/ UNCHANGED usersVars
  <1>1. CASE UNCHANGED allVars
    BY <1>1 DEF allVars
  <1>2. CASE Next
    BY <1>2, Zenon DEF Next, SetupNext, MonitorNext, SignalsNext, InboundNext, DecodingNext,
       PipelinesNext, InWorkerNext, PlaybackNext, StatsNext, ElementsNext, PortalNext,
       ResponsesNext, UserListNext, OthersStay
  <1> QED
    BY <1>1, <1>2

\* Every step keeps all parts right.
LEMMA PageStreamKeeps ==
    ASSUME PageStreamInv, [Next]_allVars
    PROVE  PageStreamInv'
  <1>1. SetupInv'
    BY OnePartMoves, ConnectionStays, SetupKeeps DEF PageStreamInv
  <1>2. MonitorInv'
    BY PageStreamConstants, OnePartMoves, ConnectionStays, MonitorKeeps DEF PageStreamInv
  <1>3. SignalsInv'
    BY PageStreamConstants, OnePartMoves, ConnectionStays, SignalsKeeps DEF PageStreamInv
  <1>4. InboundInv'
    BY PageStreamConstants, OnePartMoves, MediaStay, InboundKeeps DEF PageStreamInv
  <1>5. DecodingInv'
    BY PageStreamConstants, OnePartMoves, MediaStay, DecodingKeeps DEF PageStreamInv
  <1>6. PipelinesInv'
    BY PageStreamConstants, OnePartMoves, MediaStay, PipelinesKeeps DEF PageStreamInv
  <1>7. WorkerInv'
    BY PageStreamConstants, OnePartMoves, MediaStay, WorkerKeeps DEF PageStreamInv
  <1>8. PlaybackInv'
    BY PageStreamConstants, OnePartMoves, MediaStay, PlaybackKeeps DEF PageStreamInv
  <1>9. StatsInv'
    BY PageStreamConstants, OnePartMoves, MediaStay, StatsKeeps DEF PageStreamInv
  <1>10. ElementsInv'
    BY PageStreamConstants, OnePartMoves, MediaStay, ElementsKeeps DEF PageStreamInv
  <1>11. PortalInv'
    BY PageStreamConstants, OnePartMoves, PagesStay, PortalKeeps DEF PageStreamInv
  <1>12. ResponsesInv'
    BY PageStreamConstants, OnePartMoves, PagesStay, ResponsesKeeps DEF PageStreamInv
  <1>13. UsersInv'
    BY PageStreamConstants, OnePartMoves, PagesStay, UsersKeeps DEF PageStreamInv
  <1> QED
    BY <1>1, <1>2, <1>3, <1>4, <1>5, <1>6, <1>7, <1>8, <1>9, <1>10, <1>11, <1>12, <1>13
       DEF PageStreamInv

\* The inductive invariant holds.
THEOREM PageStreamIsRight == Spec => []PageStreamInv
  BY PageStreamInit, PageStreamKeeps, PTL DEF Spec

\* Every variable of every part keeps its type.
THEOREM StreamTypes == Spec => []TypesOK
  <1>1. PageStreamInv => TypesOK
    BY PageStreamConstants DEF PageStreamInv, SetupInv, MonitorInv, SignalsInv, InboundInv,
       DecodingInv, PipelinesInv, WorkerInv, PlaybackInv, StatsInv, ElementsInv, PortalInv,
       ResponsesInv, UsersInv, TypesOK
  <1> QED
    BY <1>1, PageStreamIsRight, PTL

\* A stream is set up once and for the pipelines there are; a peer that is away is looked at
\* again or its loss was reported, and no loss is reported before it has lasted; and when the
\* signalling is settled, however the offers crossed, what the page has heard last names every
\* track, and no candidate of its answer came too soon.
THEOREM SettingUpIsSound == Spec => []SetUpSound
  <1>1. PageStreamInv => SetUpSound
    BY SetupSound, SignalsSound DEF PageStreamInv, MonitorInv, SetUpSound
  <1> QED
    BY <1>1, PageStreamIsRight, PTL

\* The decoder is given the units one after the other or from a key frame on, asks once for
\* one, and its pictures are shown in their order.  Through a worker, whatever was posted
\* before the set-up, no picture or track comes to pipes that are not set up, the track comes
\* once, and what the worker draws has a canvas.
THEOREM PicturesKeepTheirOrder == Spec => []PicturesInOrder
  <1>1. PageStreamInv => PicturesInOrder
    BY PageStreamConstants, DecodingSound, WorkerSound DEF PageStreamInv, PicturesInOrder
  <1> QED
    BY <1>1, PageStreamIsRight, PTL

\* A pipeline that is built is one the browser can run, and none is missed; a replaced player
\* is silent; the statistics are those of the transport there is, a track gets to its
\* renderer, and sound is not late.
THEOREM WhatPlaysFits == Spec => []PlayersFit
  <1>1. PageStreamInv => PlayersFit
    BY PageStreamConstants, PipelinesSound, ElementsSound, PlaybackRight
       DEF PageStreamInv, StatsInv, InboundInv, PlayersFit
  <1> QED
    BY <1>1, PageStreamIsRight, PTL

\* However an answer is cut into pieces, its lines are returned in order, none twice, and but
\* for those of which a piece with two ends of line made the page throw text away, all of them
\* and whole; the list shows each user of the server once but for those whose change was asked
\* for before the list had come; and nobody is asked to log in without need.
THEOREM PagesShowWhatIs == Spec => []PortalIsRight
  <1>1. PageStreamInv => PortalIsRight
    BY PageStreamConstants, ResponsesSound, UsersSound DEF PageStreamInv, PortalInv, PortalIsRight
  <1> QED
    BY <1>1, PageStreamIsRight, PTL
===============================================================================
