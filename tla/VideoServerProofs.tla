--------------------------- MODULE VideoServerProofs ---------------------------
(***************************************************************************)
(* Proofs about WebRtcVideo for every size of the queue, about ServerStream*)
(* for any number of messages and any size of the pipe, and about the      *)
(* behaviours MCVideoServer checks.                                        *)
(*                                                                         *)
(* The video: that a dropped frame is never forgotten follows the decoder  *)
(* from the refusal to the result it returns, whatever the queue holds.    *)
(* That the queue stays short and in order needs to know where the IDR     *)
(* frames are in it, and that frames are written without a gap needs the   *)
(* number of the last frame on its way to the one task that writes.        *)
(*                                                                         *)
(* The request: the streamer loses nothing of what the browser says, and   *)
(* the browser nothing of what the streamer says.                          *)
(***************************************************************************)
EXTENDS MCVideoServer, FiniteSetTheorems, WellFoundedInduction, TLAPS

\* A dropped frame is being reported, or has been.
Reported ==
    ~chain =>
        \/ needsIdr \/ requested
        \/ decoder \in {"clear", "mark"}
        \/ decoder = "send" /\ IsIdr(current)

\* While a frame is being sent `chain` keeps the value the frame was built from.
CurrentKnown ==
    decoder = "send" => current.intact = (IsIdr(current) \/ chain)

\* An IDR frame is only sent once nothing else waits; so IDR frames come first.
IdrsFirst ==
    /\ decoder = "send" /\ IsIdr(current) => \A i \in DOMAIN queue : IsIdr(queue[i])
    /\ \A i, j \in DOMAIN queue : i < j /\ IsIdr(queue[j]) => IsIdr(queue[i])

Refusable(q) == {i \in DOMAIN q : ~IsIdr(q[i])}

\* A frame that can be decoded comes after the one with the number n.
ComesAfter(frame, n) ==
    frame.intact /\ ~IsIdr(frame) => frame.n = IF n = MaxRun THEN 1 ELSE n + 1

\* The number of the last frame task w took, and of the last one on its way to it.
Lead(w) == IF sender[w] = "writing" THEN held[w].n ELSE last[w]
Back(w) == IF queue = <<>> THEN Lead(w) ELSE queue[Len(queue)].n

\* With one task, every frame on its way that can be decoded comes after the one before.
NoGap ==
    /\ decoder \in {"clear", "mark"} => ~chain
    /\ \A w \in Senders :
        /\ sender[w] = "writing" => ComesAfter(held[w], last[w])
        /\ \A i \in DOMAIN queue :
            ComesAfter(queue[i], IF i = 1 THEN Lead(w) ELSE queue[i - 1].n)
        /\ decoder = "send" => ComesAfter(current, Back(w))
        /\ alive /\ chain /\ decoder \in {"idle", "report"} => Back(w) = current.n

LossInv ==
    /\ chain \in BOOLEAN
    /\ current.intact \in BOOLEAN
    /\ Reported
    /\ CurrentKnown

VideoInv ==
    /\ VideoTypeOK /\ LossInv
    /\ IdrsFirst /\ Cardinality(Refusable(queue)) <= QueueSize + 1

\* WebRtcVideo::setup is called once, and so create_track spawns one task.
OneSender == \A v, w \in Senders : v = w

\* Every nonempty set of numbers has a least one.
LEMMA Least ==
    ASSUME NEW T \in SUBSET Nat, T # {}
    PROVE  \E x \in T : \A y \in T : x <= y
  <1>1. IsWellFoundedOn(OpToRel(<, Nat), Nat)
    BY NatLessThanWellFounded
  <1>2. \E x \in T : \A y \in T : ~(<<y, x>> \in OpToRel(<, Nat))
    BY <1>1, WFMin
  <1>3. ASSUME NEW x \in Nat, NEW y \in Nat, y < x
        PROVE  <<y, x>> \in OpToRel(<, Nat)
    BY <1>3, Zenon DEF OpToRel
  <1>4. ASSUME NEW x \in T, NEW y \in T, ~(<<y, x>> \in OpToRel(<, Nat))
        PROVE  x <= y
    <2>1. x \in Nat /\ y \in Nat
      OBVIOUS
    <2>2. ~(y < x)
      BY <1>3, <1>4, <2>1
    <2> QED
      BY <2>1, <2>2
  <1> QED
    BY <1>2, <1>4

\* The greatest number of a set up to n that has it is n.
LEMMA MaxIs ==
    ASSUME NEW n \in Nat, NEW s \in SUBSET (1..n), n \in s
    PROVE  Max(s) = n
  <1>1. n \in s /\ \A y \in s : n >= y
    OBVIOUS
  <1>2. \A x \in s : (\A y \in s : x >= y) => x = n
    OBVIOUS
  <1> QED
    BY <1>1, <1>2 DEF Max

\* One turn of the recursion FoldLeft is defined by.
Turn(g, base, seq, s) ==
    IF s = {} THEN base
    ELSE Retain(g[s \ {Max(s)}], seq[Max(s)])

Fits(g, base, seq, k) == g = [s \in SUBSET (1..k) |-> Turn(g, base, seq, s)]

\* A fold has a value for every prefix: there is none of least length without one.
LEMMA FoldExists ==
    ASSUME NEW n \in Nat, NEW seq, NEW base
    PROVE  \E g : Fits(g, base, seq, n)
  <1> DEFINE Bad == {k \in 0..n : ~\E g : Fits(g, base, seq, k)}
  <1>1. ASSUME Bad # {}
        PROVE  FALSE
    <2>0. Bad \in SUBSET Nat
      OBVIOUS
    <2>1. PICK m \in Bad : \A k \in Bad : m <= k
      BY <1>1, <2>0, Least, Zenon
    <2>2. m \in Nat /\ m <= n
      BY <2>1
    <2>3. CASE m = 0
      <3> DEFINE g == [s \in SUBSET (1..m) |-> base]
      <3>1. \A s \in SUBSET (1..m) : s = {}
        BY <2>3
      <3>2. \A s \in SUBSET (1..m) : Turn(g, base, seq, s) = base
        BY <3>1, Zenon DEF Turn
      <3>3. g = [s \in SUBSET (1..m) |-> Turn(g, base, seq, s)]
        BY <3>2, Zenon
      <3> QED
        BY <2>1, <3>3 DEF Fits
    <2>4. CASE m # 0
      <3>1. m - 1 \in 0..n /\ ~(m <= m - 1)
        BY <2>2, <2>4
      <3>2. PICK g : Fits(g, base, seq, m - 1)
        BY <2>1, <3>1
      <3> DEFINE h == [s \in SUBSET (1..m) |->
                         IF m \in s THEN Retain(g[s \ {m}], seq[m]) ELSE g[s]]
      <3>3. \A s \in SUBSET (1..m) : m \notin s => s \in SUBSET (1..(m - 1))
        BY <2>2
      <3>4. \A s \in SUBSET (1..(m - 1)) : s \in SUBSET (1..m) /\ m \notin s
        BY <2>2
      <3>5. \A s \in SUBSET (1..(m - 1)) : g[s] = Turn(g, base, seq, s) /\ h[s] = g[s]
        BY <3>2, <3>4, Zenon DEF Fits
      <3>6. ASSUME NEW s \in SUBSET (1..m)
            PROVE  h[s] = Turn(h, base, seq, s)
        <4>1. CASE m \in s
          <5>1. Max(s) = m
            BY <2>2, <4>1, MaxIs
          <5>2. s \ {m} \in SUBSET (1..(m - 1)) /\ s # {}
            BY <3>3, <4>1
          <5>3. h[s] = Retain(g[s \ {m}], seq[m])
            BY <4>1, Zenon
          <5> HIDE DEF h
          <5>4. h[s] = Retain(h[s \ {m}], seq[m])
            BY <3>5, <5>2, <5>3
          <5> QED
            BY <5>1, <5>2, <5>4 DEF Turn
        <4>2. CASE m \notin s
          <5>1. s \in SUBSET (1..(m - 1)) /\ s \ {Max(s)} \in SUBSET (1..(m - 1))
            BY <3>3, <4>2
          <5> HIDE DEF h
          <5>2. h[s] = Turn(g, base, seq, s) /\ h[s \ {Max(s)}] = g[s \ {Max(s)}]
            BY <3>5, <5>1
          <5> QED
            BY <5>2 DEF Turn
        <4> QED
          BY <4>1, <4>2
      <3>7. h = [s \in SUBSET (1..m) |-> h[s]]
        BY Zenon
      <3> HIDE DEF h
      <3>8. h = [s \in SUBSET (1..m) |-> Turn(h, base, seq, s)]
        BY <3>6, <3>7
      <3> QED
        BY <2>1, <3>8 DEF Fits
    <2> QED
      BY <2>3, <2>4
  <1>2. n \in 0..n
    OBVIOUS
  <1> QED
    BY <1>1, <1>2

\* What clear_queue makes of the frames one after the other.
LEMMA FoldSteps ==
    ASSUME NEW S, NEW seq \in Seq(S), NEW base
    PROVE  \E f : /\ f[0] = base
                  /\ \A k \in 1..Len(seq) :
                        f[k] = Retain(f[k - 1], seq[k])
                  /\ FoldLeft(Retain, base, seq) = f[Len(seq)]
  <1> DEFINE n == Len(seq)
             it == CHOOSE g : Fits(g, base, seq, n)
             f == [k \in 0..n |-> it[1..k]]
  <1>1. n \in Nat /\ DOMAIN seq = 1..n
    OBVIOUS
  <1>2. FoldLeft(Retain, base, seq) =
          (CHOOSE g : g = [s \in SUBSET DOMAIN seq |-> Turn(g, base, seq, s)])[DOMAIN seq]
    BY DEF FoldLeft, MapThenFoldSet, Turn
  <1>3. FoldLeft(Retain, base, seq) = it[1..n]
    BY <1>1, <1>2 DEF Fits
  <1> HIDE DEF n
  <1>4. \E g : Fits(g, base, seq, n)
    BY <1>1, FoldExists
  <1>5. it = [s \in SUBSET (1..n) |-> Turn(it, base, seq, s)]
    BY <1>4, Zenon DEF Fits
  <1> HIDE DEF it
  <1>6. \A s \in SUBSET (1..n) : it[s] = Turn(it, base, seq, s)
    BY <1>5
  <1>7. f[0] = base
    <2>1. 1..0 = {} /\ 0 \in 0..n /\ 1..0 \in SUBSET (1..n)
      BY <1>1
    <2>2. it[1..0] = base
      BY <1>6, <2>1 DEF Turn
    <2> QED
      BY <2>1, <2>2
  <1>8. ASSUME NEW k \in 1..n
        PROVE  f[k] = Retain(f[k - 1], seq[k])
    <2>1. /\ k \in Nat /\ k \in 0..n /\ k - 1 \in 0..n /\ k \in 1..k /\ 1..k # {}
          /\ 1..k \in SUBSET (1..n) /\ (1..k) \ {k} = 1..(k - 1)
      <3>1. k \in Nat /\ k \in 0..n /\ k - 1 \in 0..n /\ k \in 1..k
        BY <1>1
      <3>2. 1..k \subseteq 1..n
        BY <1>1, <3>1
      <3>3. (1..k) \ {k} = 1..(k - 1)
        BY <3>1
      <3> QED
        BY <3>1, <3>2, <3>3, Zenon
    <2>2. Max(1..k) = k
      BY <2>1, MaxIs
    <2>3. it[1..k] = Retain(it[1..(k - 1)], seq[k])
      BY <1>6, <2>1, <2>2 DEF Turn
    <2> QED
      BY <2>1, <2>3
  <1>9. f[n] = it[1..n]
    <2>1. n \in 0..n
      BY <1>1
    <2> QED
      BY <2>1
  <1> QED
    BY <1>3, <1>7, <1>8, <1>9 DEF n

IdrFrames == {frame \in Frame : IsIdr(frame)}

\* clear_queue leaves IDR frames only.
LEMMA RetainedAreIdrs ==
    ASSUME queue \in Seq(Frame)
    PROVE  FoldLeft(Retain, <<>>, queue) \in Seq(IdrFrames)
  <1> DEFINE n == Len(queue)
  <1>1. n \in Nat
    OBVIOUS
  <1>2. PICK f : /\ f[0] = <<>>
                 /\ \A k \in 1..n : f[k] = Retain(f[k - 1], queue[k])
                 /\ FoldLeft(Retain, <<>>, queue) = f[n]
    BY FoldSteps
  <1> DEFINE Bad == {k \in 0..n : f[k] \notin Seq(IdrFrames)}
  <1>3. \A k \in 1..n : queue[k] \in Frame
    OBVIOUS
  <1> HIDE DEF n
  <1>4. ASSUME Bad # {}
        PROVE  FALSE
    <2>1. Bad \in SUBSET Nat
      BY <1>1
    <2>2. PICK m \in Bad : \A k \in Bad : m <= k
      BY <1>4, <2>1, Least, Zenon
    <2>3. m \in 0..n /\ f[m] \notin Seq(IdrFrames)
      BY <2>2
    <2>4. m # 0
      <3>1. <<>> \in Seq(IdrFrames)
        OBVIOUS
      <3>2. m = 0 => f[m] = <<>>
        BY <1>2
      <3> QED
        BY <2>3, <3>1, <3>2, Zenon
    <2>5. m \in 1..n /\ m - 1 \in 0..n /\ ~(m <= m - 1)
      BY <1>1, <2>3, <2>4
    <2>6. f[m - 1] \in Seq(IdrFrames)
      BY <2>2, <2>5
    <2>7. f[m] = Retain(f[m - 1], queue[m]) /\ queue[m] \in Frame
      BY <1>2, <1>3, <2>5
    <2>8. f[m] \in Seq(IdrFrames)
      <3>1. CASE IsIdr(queue[m])
        <4>1. queue[m] \in IdrFrames
          BY <2>7, <3>1 DEF IdrFrames
        <4>2. f[m] = Append(f[m - 1], queue[m])
          BY <2>7, <3>1 DEF Retain
        <4> QED
          BY <2>6, <4>1, <4>2
      <3>2. CASE ~IsIdr(queue[m])
        BY <2>6, <2>7, <3>2 DEF Retain
      <3> QED
        BY <3>1, <3>2
    <2> QED
      BY <2>3, <2>8
  <1>5. n \in 0..n
    BY <1>1
  <1> QED
    BY <1>2, <1>4, <1>5

\* A queue of IDR frames has nothing that may be refused.
LEMMA IdrsOnly ==
    ASSUME NEW q \in Seq(IdrFrames)
    PROVE  /\ q \in Seq(Frame)
           /\ \A i \in DOMAIN q : IsIdr(q[i])
           /\ Refusable(q) = {}
  <1>1. \A i \in DOMAIN q : q[i] \in IdrFrames
    OBVIOUS
  <1>2. IdrFrames \subseteq Frame
    BY DEF IdrFrames
  <1>3. q \in Seq(Frame)
    BY <1>2
  <1>4. \A i \in DOMAIN q : IsIdr(q[i])
    BY <1>1 DEF IdrFrames
  <1> QED
    BY <1>3, <1>4 DEF Refusable

\* There are no more frames that may be refused than frames.
LEMMA RefusableAtMost ==
    ASSUME NEW q \in Seq(Frame)
    PROVE  /\ IsFiniteSet(Refusable(q)) /\ Cardinality(Refusable(q)) \in Nat
           /\ Cardinality(Refusable(q)) <= Len(q)
  <1>1. DOMAIN q = 1..Len(q) /\ Len(q) \in Nat /\ 1 \in Int /\ Len(q) \in Int
    OBVIOUS
  <1>2. IsFiniteSet(1..Len(q)) /\ Cardinality(1..Len(q)) = Len(q)
    BY <1>1, FS_Interval
  <1>3. Refusable(q) \subseteq 1..Len(q)
    BY <1>1 DEF Refusable
  <1> QED
    BY <1>2, <1>3, FS_Subset, FS_CardinalityType

\* Taking a frame away leaves no more of them.
LEMMA RefusableTail ==
    ASSUME NEW q \in Seq(Frame), q # <<>>
    PROVE  Cardinality(Refusable(Tail(q))) <= Cardinality(Refusable(q))
  <1>1. /\ Tail(q) \in Seq(Frame)
        /\ \A i \in DOMAIN Tail(q) : i + 1 \in DOMAIN q /\ Tail(q)[i] = q[i + 1] /\ i \in Int
    OBVIOUS
  <1> DEFINE f == [i \in Refusable(Tail(q)) |-> i + 1]
  <1>2. f \in Injection(Refusable(Tail(q)), Refusable(q))
    <2>1. \A i \in Refusable(Tail(q)) : i + 1 \in Refusable(q) /\ i \in Int
      BY <1>1 DEF Refusable
    <2>2. f \in [Refusable(Tail(q)) -> Refusable(q)]
      BY <2>1
    <2>3. \A a, b \in Refusable(Tail(q)) : f[a] = f[b] => a = b
      BY <2>1
    <2> QED
      BY <2>2, <2>3 DEF Injection, IsInjective
  <1>3. IsFiniteSet(Refusable(q))
    BY RefusableAtMost
  <1> QED
    BY <1>2, <1>3, FS_Injection

\* The flags of the video stay true or false.
LEMMA VideoFlags ==
    ASSUME VideoTypeOK, VideoNext
    PROVE  /\ codec' \in BOOLEAN /\ alive' \in BOOLEAN /\ chain' \in BOOLEAN
           /\ needsIdr' \in BOOLEAN /\ requested' \in BOOLEAN
  <1>0. /\ codec \in BOOLEAN /\ alive \in BOOLEAN /\ chain \in BOOLEAN
        /\ needsIdr \in BOOLEAN /\ requested \in BOOLEAN /\ current.intact \in BOOLEAN
    BY DEF VideoTypeOK, Frame
  <1>1. CASE \E n \in 0..MaxRun : Submit(n)
    BY <1>0, <1>1, Zenon DEF Submit
  <1>2. CASE Decode
    <2>1. CASE SendSamples
      BY <1>0, <2>1, Zenon DEF SendSamples
    <2>2. CASE ClearQueue \/ MarkNeedsIdr \/ ReportNeedIdr \/ ReportNothing
      BY <1>0, <2>2, Zenon DEF ClearQueue, MarkNeedsIdr, ReportNeedIdr, ReportNothing
    <2> QED
      BY <1>2, <2>1, <2>2 DEF Decode
  <1>3. CASE PictureLoss \/ DropSender
    BY <1>0, <1>3, Zenon DEF PictureLoss, DropSender
  <1>4. CASE \E w \in Senders : CreateTrack(w)
    <2>1. \A x : x \in {codec, TRUE} => x \in BOOLEAN
      BY <1>0
    <2> QED
      BY <1>0, <1>4, <2>1, Zenon DEF CreateTrack
  <1>5. CASE \E w \in Senders : SampleSender(w)
    BY <1>0, <1>5, Zenon DEF SampleSender, PollOrphaned, PollAgain, Poll, Wait, Write
  <1> QED
    BY <1>1, <1>2, <1>3, <1>4, <1>5 DEF VideoNext

\* What the decoder and the tasks are doing keeps its type.
LEMMA VideoTypes ==
    ASSUME VideoTypeOK, VideoNext
    PROVE  VideoTypeOK'
  <1> USE QueueAssumption DEF VideoTypeOK
  <1>1. ASSUME NEW n \in 0..MaxRun, Submit(n)
        PROVE  VideoTypeOK'
    <2> DEFINE b == n = 0 \/ chain
    <2>1. b \in BOOLEAN
      BY Zenon
    <2>2. current' = [n |-> n, intact |-> b] /\ decoder' = "send"
      BY <1>1, Zenon DEF Submit
    <2> HIDE DEF b
    <2>3. current' \in Frame
      BY <2>1, <2>2 DEF Frame
    <2>4. queue' \in Seq(Frame)
      <3>1. FoldLeft(Retain, <<>>, queue) \in Seq(Frame)
        BY RetainedAreIdrs, IdrsOnly
      <3>2. queue' = IF n = 0 THEN FoldLeft(Retain, <<>>, queue) ELSE queue
        BY <1>1, Zenon DEF Submit
      <3> QED
        BY <3>1, <3>2, Zenon
    <2>5. UNCHANGED <<sender, held, last>>
      BY <1>1, Zenon DEF Submit, senderVars
    <2> QED
      BY <2>2, <2>3, <2>4, <2>5, VideoFlags DEF VideoNext
  <1>2. CASE Decode
    <2>1. /\ decoder' \in {"idle", "clear", "mark", "report"}
          /\ UNCHANGED <<current, held, last>>
          /\ queue' = queue \/ queue' = <<>> \/ queue' = Append(queue, current)
          /\ sender' = sender \/ sender' = Notified
      BY <1>2, Zenon DEF Decode, SendSamples, ClearQueue, MarkNeedsIdr, ReportNeedIdr,
         ReportNothing, senderVars, PushFront
    <2>2. queue' \in Seq(Frame)
      <3>1. Append(queue, current) \in Seq(Frame) /\ <<>> \in Seq(Frame)
        OBVIOUS
      <3> QED
        BY <2>1, <3>1
    <2>3. sender' \in [Senders -> {"unused", "poll", "empty", "waiting", "writing", "orphan"}]
      BY <2>1 DEF Notified
    <2> QED
      BY <1>2, <2>1, <2>2, <2>3, VideoFlags DEF VideoNext
  <1>3. CASE PictureLoss \/ DropSender
    <2>1. /\ UNCHANGED <<decoder, current, sender, held, last>>
          /\ queue' = queue \/ queue' = <<>>
      BY <1>3, Zenon DEF PictureLoss, DropSender, senderVars
    <2>2. queue' \in Seq(Frame)
      <3>1. <<>> \in Seq(Frame) /\ queue \in Seq(Frame)
        OBVIOUS
      <3> QED
        BY <2>1, <3>1, Zenon
    <2>3. VideoNext
      BY <1>3, Zenon DEF VideoNext
    <2> QED
      BY <2>1, <2>2, <2>3, VideoFlags
  <1>4. ASSUME NEW w \in Senders, CreateTrack(w)
        PROVE  VideoTypeOK'
    <2>1. /\ UNCHANGED <<queue, decoder, current, held, last>>
          /\ sender' = [sender EXCEPT ![w] = "poll"]
      BY <1>4, Zenon DEF CreateTrack
    <2>2. /\ codec' \in BOOLEAN /\ alive' \in BOOLEAN /\ chain' \in BOOLEAN
          /\ needsIdr' \in BOOLEAN /\ requested' \in BOOLEAN
      BY VideoFlags
    <2> QED
      BY <2>1, <2>2
  <1>5. ASSUME NEW w \in Senders, SampleSender(w)
        PROVE  VideoTypeOK'
    <2>1. UNCHANGED <<decoder, current>>
      BY <1>5, Zenon DEF SampleSender, PollOrphaned, PollAgain, Poll, Wait, Write
    <2>2. sender' \in [Senders -> {"unused", "poll", "empty", "waiting", "writing", "orphan"}]
      BY <1>5 DEF SampleSender, PollOrphaned, PollAgain, Poll, Wait, Write
    <2>3. queue' \in Seq(Frame)
      <3>1. queue # <<>> => Tail(queue) \in Seq(Frame)
        OBVIOUS
      <3>2. queue \in Seq(Frame)
        OBVIOUS
      <3>3. UNCHANGED queue \/ (queue # <<>> /\ queue' = Tail(queue))
        BY <1>5, Zenon DEF SampleSender, PollOrphaned, PollAgain, Poll, Wait, Write
      <3> QED
        BY <3>1, <3>2, <3>3, Zenon
    <2>4. held' \in [Senders -> Frame]
      <3>1. queue # <<>> => Head(queue) \in Frame
        OBVIOUS
      <3> QED
        BY <1>5, <3>1 DEF SampleSender, PollOrphaned, PollAgain, Poll, Wait, Write
    <2>5. last' \in [Senders -> -1..MaxRun]
      <3>1. held[w].n \in -1..MaxRun
        BY DEF Frame
      <3> QED
        BY <1>5, <3>1 DEF SampleSender, PollOrphaned, PollAgain, Poll, Wait, Write
    <2> QED
      BY <1>5, <2>1, <2>2, <2>3, <2>4, <2>5, VideoFlags DEF VideoNext
  <1> QED
    BY <1>1, <1>2, <1>3, <1>4, <1>5 DEF VideoNext

\* What a step does to the queue.
LEMMA QueueMoves ==
    ASSUME VideoTypeOK, VideoNext
    PROVE  \/ UNCHANGED queue
           \/ queue' = <<>>
           \/ queue # <<>> /\ queue' = Tail(queue)
           \/ queue' \in Seq(IdrFrames)
           \/ decoder = "send" /\ HasRoom /\ queue' = Append(queue, current)
  <1>1. ASSUME NEW n \in 0..MaxRun, Submit(n)
        PROVE  UNCHANGED queue \/ queue' \in Seq(IdrFrames)
    <2>1. queue' = IF n = 0 THEN FoldLeft(Retain, <<>>, queue) ELSE queue
      BY <1>1, Zenon DEF Submit
    <2>2. FoldLeft(Retain, <<>>, queue) \in Seq(IdrFrames)
      BY RetainedAreIdrs DEF VideoTypeOK
    <2> QED
      BY <2>1, <2>2, Zenon
  <1>2. Decode => UNCHANGED queue \/ queue' = <<>>
                  \/ (decoder = "send" /\ HasRoom /\ queue' = Append(queue, current))
    BY Zenon DEF Decode, SendSamples, ClearQueue, MarkNeedsIdr, ReportNeedIdr, ReportNothing,
       PushFront
  <1>3. PictureLoss \/ DropSender => UNCHANGED queue \/ queue' = <<>>
    BY Zenon DEF PictureLoss, DropSender
  <1>4. \A w \in Senders : CreateTrack(w) => UNCHANGED queue
    BY Zenon DEF CreateTrack
  <1>5. \A w \in Senders : SampleSender(w) =>
          UNCHANGED queue \/ (queue # <<>> /\ queue' = Tail(queue))
    BY Zenon DEF SampleSender, PollOrphaned, PollAgain, Poll, Wait, Write
  <1> QED
    BY <1>1, <1>2, <1>3, <1>4, <1>5, Zenon DEF VideoNext

\* The limit on the queue holds, and an IDR frame never waits behind others.
LEMMA QueueKeeps ==
    ASSUME VideoTypeOK, IdrsFirst, Cardinality(Refusable(queue)) <= QueueSize + 1, VideoNext
    PROVE  IdrsFirst' /\ Cardinality(Refusable(queue')) <= QueueSize + 1
  <1> USE QueueAssumption
  <1>1. queue \in Seq(Frame) /\ current \in Frame /\ QueueSize \in Nat
    BY DEF VideoTypeOK
  <1>0. <<>> \in Seq(IdrFrames)
    OBVIOUS
  <1>2. Cardinality(Refusable(queue')) <= QueueSize + 1
    <2>1. CASE queue' = <<>> \/ queue' \in Seq(IdrFrames)
      <3>1. queue' \in Seq(IdrFrames)
        BY <1>0, <2>1, Zenon
      <3>2. Refusable(queue') = {}
        BY <3>1, IdrsOnly, Zenon
      <3>3. Cardinality(Refusable(queue')) = 0
        BY <3>2, FS_EmptySet
      <3> QED
        BY <1>1, <3>3
    <2>2. CASE queue # <<>> /\ queue' = Tail(queue)
      <3>1. Tail(queue) \in Seq(Frame)
        BY <1>1, <2>2
      <3>2. /\ Cardinality(Refusable(queue)) \in Nat
            /\ Cardinality(Refusable(Tail(queue))) \in Nat
        BY <1>1, <3>1, RefusableAtMost
      <3> QED
        BY <1>1, <2>2, <3>2, RefusableTail
    <2>3. CASE decoder = "send" /\ HasRoom /\ queue' = Append(queue, current)
      <3>1. /\ queue' \in Seq(Frame) /\ Len(queue') = Len(queue) + 1 /\ Len(queue) \in Nat
            /\ \A i \in DOMAIN queue' : queue'[i] = current \/ (i \in DOMAIN queue /\ queue'[i] = queue[i])
        BY <1>1, <2>3
      <3>2. CASE IsIdr(current)
        <4>1. \A i \in DOMAIN queue' : IsIdr(queue'[i])
          BY <2>3, <3>1, <3>2 DEF IdrsFirst
        <4>2. Refusable(queue') = {}
          BY <4>1 DEF Refusable
        <4> QED
          BY <1>1, <4>2, FS_EmptySet
      <3>3. CASE Len(queue) <= QueueSize
        <4>1. Cardinality(Refusable(queue')) <= Len(queue')
              /\ Cardinality(Refusable(queue')) \in Nat
          BY <3>1, RefusableAtMost
        <4> QED
          BY <1>1, <3>1, <3>3, <4>1
      <3> QED
        BY <2>3, <3>2, <3>3 DEF HasRoom
    <2> QED
      BY <2>1, <2>2, <2>3, QueueMoves
  <1>3. decoder' = "send" =>
          \/ UNCHANGED <<decoder, current>> /\ (queue' = queue \/ queue' = <<>>
                                                \/ (queue # <<>> /\ queue' = Tail(queue)))
          \/ IsIdr(current') => queue' \in Seq(IdrFrames)
    <2>1. ASSUME NEW n \in 0..MaxRun, Submit(n)
          PROVE  IsIdr(current') => queue' \in Seq(IdrFrames)
      <3>1. queue' = IF n = 0 THEN FoldLeft(Retain, <<>>, queue) ELSE queue
        BY <2>1, Zenon DEF Submit
      <3>2. FoldLeft(Retain, <<>>, queue) \in Seq(IdrFrames)
        BY <1>1, RetainedAreIdrs
      <3>3. current'.n = n
        BY <2>1 DEF Submit
      <3> QED
        BY <3>1, <3>2, <3>3 DEF IsIdr
    <2>2. Decode => decoder' # "send"
      BY DEF Decode, SendSamples, ClearQueue, MarkNeedsIdr, ReportNeedIdr, ReportNothing
    <2>3. PictureLoss \/ DropSender \/ (\E w \in Senders : CreateTrack(w) \/ SampleSender(w)) =>
            /\ UNCHANGED <<decoder, current>>
            /\ queue' = queue \/ queue' = <<>> \/ (queue # <<>> /\ queue' = Tail(queue))
      BY Zenon DEF PictureLoss, DropSender, CreateTrack, SampleSender, PollOrphaned, PollAgain,
         Poll, Wait, Write
    <2> QED
      BY <2>1, <2>2, <2>3, Zenon DEF VideoNext
  <1>4. \A i \in DOMAIN Tail(queue) : queue # <<>> =>
          i + 1 \in DOMAIN queue /\ Tail(queue)[i] = queue[i + 1] /\ i \in Int
    BY <1>1
  <1>5. decoder' = "send" /\ IsIdr(current') => \A i \in DOMAIN queue' : IsIdr(queue'[i])
    <2> SUFFICES ASSUME decoder' = "send", IsIdr(current')
                 PROVE  \A i \in DOMAIN queue' : IsIdr(queue'[i])
      OBVIOUS
    <2>1. CASE queue' \in Seq(IdrFrames) \/ queue' = <<>>
      <3>1. queue' \in Seq(IdrFrames)
        BY <1>0, <2>1, Zenon
      <3> QED
        BY <3>1, IdrsOnly
    <2>2. CASE /\ UNCHANGED <<decoder, current>>
               /\ queue' = queue \/ (queue # <<>> /\ queue' = Tail(queue))
      <3>1. \A i \in DOMAIN queue : IsIdr(queue[i])
        BY <2>2 DEF IdrsFirst, IsIdr
      <3> QED
        BY <1>4, <2>2, <3>1
    <2> QED
      BY <1>3, <2>1, <2>2
  <1>6. \A i, j \in DOMAIN queue' : i < j /\ IsIdr(queue'[j]) => IsIdr(queue'[i])
    <2>1. CASE queue' \in Seq(IdrFrames) \/ queue' = <<>>
      <3>1. queue' \in Seq(IdrFrames)
        BY <1>0, <2>1, Zenon
      <3> QED
        BY <3>1, IdrsOnly
    <2>2. CASE queue # <<>> /\ queue' = Tail(queue)
      <3> SUFFICES ASSUME NEW i \in DOMAIN Tail(queue), NEW j \in DOMAIN Tail(queue), i < j,
                          IsIdr(Tail(queue)[j])
                   PROVE  IsIdr(Tail(queue)[i])
        BY <2>2
      <3>1. i + 1 \in DOMAIN queue /\ j + 1 \in DOMAIN queue /\ i + 1 < j + 1
        BY <1>4, <2>2
      <3> QED
        BY <1>4, <2>2, <3>1 DEF IdrsFirst
    <2>3. CASE decoder = "send" /\ HasRoom /\ queue' = Append(queue, current)
      <3>1. \A i \in DOMAIN queue' : /\ i \in Int
              /\ \/ i \in DOMAIN queue /\ queue'[i] = queue[i]
                 \/ i = Len(queue) + 1 /\ queue'[i] = current
        BY <1>1, <2>3
      <3>2. \A i \in DOMAIN queue : i < Len(queue) + 1
        BY <1>1
      <3> SUFFICES ASSUME NEW i \in DOMAIN queue', NEW j \in DOMAIN queue', i < j, IsIdr(queue'[j])
                   PROVE  IsIdr(queue'[i])
        OBVIOUS
      <3>3. i \in DOMAIN queue /\ queue'[i] = queue[i]
        <4>1. Len(queue) \in Nat /\ DOMAIN queue' = 1..(Len(queue) + 1)
          BY <1>1, <2>3
        <4> QED
          BY <3>1, <4>1
      <3>4. CASE queue'[j] = current
        BY <2>3, <3>3, <3>4 DEF IdrsFirst
      <3>5. CASE j \in DOMAIN queue /\ queue'[j] = queue[j]
        BY <3>3, <3>5 DEF IdrsFirst
      <3> QED
        BY <3>1, <3>4, <3>5
    <2>4. CASE UNCHANGED queue
      BY <2>4 DEF IdrsFirst
    <2> QED
      BY <2>1, <2>2, <2>3, <2>4, QueueMoves
  <1> QED
    BY <1>2, <1>5, <1>6 DEF IdrsFirst, IsIdr

\* What a frame that is queued changes.
LEMMA Pushed ==
    ASSUME NEW q \in Seq(Frame), NEW m \in Frame
    PROVE  LET r == Append(q, m)
           IN  /\ Len(r) = Len(q) + 1 /\ r # <<>> /\ DOMAIN r = 1..(Len(q) + 1)
               /\ r[Len(q) + 1] = m
               /\ \A i \in 1..Len(q) : r[i] = q[i]
  OBVIOUS

\* The decoder and the one task keep every frame after the one before it.
LEMMA NoGapKeeps ==
    ASSUME OneSender, VideoTypeOK, CurrentKnown, NoGap, VideoNext
    PROVE  NoGap'
  <1> USE QueueAssumption
  <1>1. /\ queue \in Seq(Frame) /\ current \in Frame /\ held \in [Senders -> Frame]
        /\ last \in [Senders -> -1..MaxRun] /\ Len(queue) \in Nat /\ DOMAIN queue = 1..Len(queue)
        /\ decoder \in {"idle", "send", "clear", "mark", "report"}
        /\ sender \in [Senders -> {"unused", "poll", "empty", "waiting", "writing", "orphan"}]
    BY DEF VideoTypeOK
  <1>2. ASSUME NEW n \in 0..MaxRun, Submit(n)
        PROVE  NoGap'
    <2>1. /\ alive /\ decoder = "idle" /\ decoder' = "send"
          /\ current'.n = n /\ (n # 0 => n = Follower(current))
          /\ UNCHANGED <<alive, chain, sender, held, last>>
      BY <1>2 DEF Submit, senderVars
    <2>2. n # 0 /\ current'.intact => chain
      <3> DEFINE b == n = 0 \/ chain
      <3>1. current' = [n |-> n, intact |-> b]
        BY <1>2, Zenon DEF Submit
      <3>2. b /\ n # 0 => chain
        BY Zenon
      <3> HIDE DEF b
      <3>3. current'.intact = b
        BY <3>1
      <3> QED
        BY <3>2, <3>3, Zenon
    <2>3. queue' = IF n = 0 THEN FoldLeft(Retain, <<>>, queue) ELSE queue
      BY <1>2, Zenon DEF Submit
    <2>4. CASE n = 0
      <3>1. queue' \in Seq(IdrFrames)
        BY <1>1, <2>3, <2>4, RetainedAreIdrs
      <3>2. \A i \in DOMAIN queue' : IsIdr(queue'[i])
        BY <3>1, IdrsOnly
      <3>3. IsIdr(current')
        BY <2>1, <2>4 DEF IsIdr
      <3> QED
        BY <2>1, <3>2, <3>3 DEF NoGap, ComesAfter, IsIdr
    <2>5. CASE n # 0
      <3>1. UNCHANGED queue
        BY <2>3, <2>5
      <3>2. \A w \in Senders : Back(w)' = Back(w) /\ Lead(w)' = Lead(w)
        BY <2>1, <3>1 DEF Back, Lead
      <3>3. \A w \in Senders : current'.intact => Back(w) = current.n
        BY <2>1, <2>2, <2>5 DEF NoGap
      <3>4. \A w \in Senders : ComesAfter(current, Back(w))'
        BY <2>1, <2>5, <3>2, <3>3 DEF ComesAfter, Follower
      <3> QED
        BY <2>1, <3>1, <3>2, <3>4 DEF NoGap, ComesAfter, IsIdr
    <2> QED
      BY <2>4, <2>5
  <1>3. CASE SendSamples
    <2>1. /\ decoder = "send" /\ UNCHANGED <<alive, current, held, last>>
          /\ \/ /\ decoder' = "report" /\ queue' = Append(queue, current) /\ sender' = Notified
             \/ /\ decoder' = "clear" /\ UNCHANGED <<queue, sender>> /\ ~chain'
      BY <1>3, Zenon DEF SendSamples, PushFront
    <2>2. \A w \in Senders : Lead(w)' = Lead(w) /\ (sender'[w] = "writing" <=> sender[w] = "writing")
      BY <1>1, <2>1 DEF Lead, Notified
    <2>3. CASE decoder' = "clear" /\ UNCHANGED <<queue, sender>> /\ ~chain'
      BY <2>1, <2>2, <2>3 DEF NoGap, ComesAfter, IsIdr, Back
    <2>4. CASE decoder' = "report" /\ queue' = Append(queue, current) /\ sender' = Notified
      <3>1. /\ Len(queue') = Len(queue) + 1 /\ queue' # <<>> /\ DOMAIN queue' = 1..(Len(queue) + 1)
            /\ queue'[Len(queue) + 1] = current
            /\ \A i \in 1..Len(queue) : queue'[i] = queue[i]
        BY <1>1, <2>4, Pushed, Zenon
      <3>2. \A w \in Senders : Back(w)' = current.n
        BY <3>1 DEF Back
      <3>3. ASSUME NEW w \in Senders, NEW i \in DOMAIN queue'
            PROVE  ComesAfter(queue'[i], IF i = 1 THEN Lead(w) ELSE queue'[i - 1].n)
        <4>1. CASE i \in 1..Len(queue)
          <5>1. i # 1 => i - 1 \in 1..Len(queue)
            BY <1>1, <4>1
          <5> QED
            BY <1>1, <3>1, <4>1, <5>1 DEF NoGap
        <4>2. CASE i = Len(queue) + 1
          <5>1. ComesAfter(current, Back(w))
            BY <2>1 DEF NoGap
          <5>2. Back(w) = IF i = 1 THEN Lead(w) ELSE queue'[i - 1].n
            <6>1. queue = <<>> <=> Len(queue) = 0
              BY <1>1
            <6>2. i # 1 => i - 1 \in 1..Len(queue) /\ i - 1 = Len(queue)
              BY <1>1, <4>2
            <6> QED
              BY <1>1, <3>1, <4>2, <6>1, <6>2 DEF Back
          <5> QED
            BY <3>1, <4>2, <5>1, <5>2
        <4> QED
          BY <1>1, <3>1, <4>1, <4>2
      <3> QED
        BY <2>1, <2>2, <2>4, <3>2, <3>3 DEF NoGap, ComesAfter, IsIdr
    <2> QED
      BY <2>1, <2>3, <2>4
  <1>4. CASE ClearQueue
    <2>1. /\ decoder = "clear" /\ decoder' = "mark" /\ queue' = <<>>
          /\ UNCHANGED <<alive, current, chain, sender, held, last>>
      BY <1>4 DEF ClearQueue, senderVars
    <2> QED
      BY <2>1 DEF NoGap, ComesAfter, IsIdr
  <1>5. CASE MarkNeedsIdr \/ ReportNeedIdr \/ ReportNothing
    <2>1. /\ \/ decoder = "mark" /\ decoder' = "report"
             \/ decoder = "report" /\ decoder' = "idle"
          /\ UNCHANGED <<alive, queue, current, chain, sender, held, last>>
      BY <1>5, Zenon DEF MarkNeedsIdr, ReportNeedIdr, ReportNothing, senderVars
    <2> QED
      BY <2>1 DEF NoGap, ComesAfter, IsIdr, Back, Lead
  <1>6. CASE PictureLoss
    <2>1. UNCHANGED <<alive, queue, decoder, current, chain, sender, held, last>>
      BY <1>6 DEF PictureLoss, senderVars
    <2> QED
      BY <2>1 DEF NoGap, ComesAfter, IsIdr, Back, Lead
  <1>7. CASE DropSender
    <2>1. /\ decoder = "idle" /\ alive' = FALSE
          /\ (queue' = queue \/ queue' = <<>>)
          /\ UNCHANGED <<decoder, current, chain, sender, held, last>>
      BY <1>7 DEF DropSender, senderVars
    <2> QED
      BY <2>1 DEF NoGap, ComesAfter, IsIdr, Lead
  <1>8. ASSUME NEW w \in Senders,
               \/ CreateTrack(w) \/ PollOrphaned(w) \/ PollAgain(w) \/ Wait(w)
               \/ Poll(w) /\ queue = <<>>
        PROVE  NoGap'
    <2>1. /\ UNCHANGED <<alive, queue, decoder, current, chain, held, last>>
          /\ \E p \in {"poll", "orphan", "waiting", "empty"} : sender' = [sender EXCEPT ![w] = p]
          /\ sender[w] # "writing"
      BY <1>8 DEF CreateTrack, PollOrphaned, PollAgain, Wait, Poll
    <2>2. \A v \in Senders : sender'[v] = "writing" <=> sender[v] = "writing"
      BY <1>1, <2>1
    <2> QED
      BY <2>1, <2>2 DEF NoGap, ComesAfter, IsIdr, Back, Lead
  <1>9. ASSUME NEW w \in Senders, Poll(w), queue # <<>>
        PROVE  NoGap'
    <2>1. /\ UNCHANGED <<alive, decoder, current, chain, last>>
          /\ sender[w] = "poll" /\ sender' = [sender EXCEPT ![w] = "writing"]
          /\ held' = [held EXCEPT ![w] = Head(queue)] /\ queue' = Tail(queue)
      BY <1>9 DEF Poll
    <2>2. /\ queue'  \in Seq(Frame) /\ Len(queue') = Len(queue) - 1 /\ Head(queue) = queue[1]
          /\ 1 \in DOMAIN queue /\ DOMAIN queue' = 1..(Len(queue) - 1)
          /\ \A i \in DOMAIN queue' : i + 1 \in DOMAIN queue /\ queue'[i] = queue[i + 1]
      BY <1>1, <1>9, <2>1
    <2>3. \A v \in Senders : v = w
      BY DEF OneSender
    <2>4. sender'[w] = "writing" /\ held'[w] = queue[1]
      BY <1>1, <2>1, <2>2
    <2>5. Lead(w) = last[w] /\ Lead(w)' = queue[1].n
      BY <2>1, <2>4 DEF Lead
    <2>6. ComesAfter(held'[w], last[w])
      BY <2>2, <2>4, <2>5 DEF NoGap
    <2>7. Back(w)' = Back(w)
      <3>1. queue' = <<>> <=> Len(queue) = 1
        BY <1>1, <2>2
      <3>2. Len(queue) # 1 => Len(queue) - 1 \in DOMAIN queue'
        BY <1>1, <1>9, <2>2
      <3>3. Len(queue) # 1 => queue'[Len(queue')] = queue[Len(queue)]
        <4>1. Len(queue) # 1 => queue'[Len(queue) - 1] = queue[(Len(queue) - 1) + 1]
          BY <2>2, <3>2
        <4>2. (Len(queue) - 1) + 1 = Len(queue)
          BY <1>1
        <4> QED
          BY <2>2, <4>1, <4>2
      <3> QED
        BY <1>9, <2>5, <3>1, <3>3 DEF Back
    <2>8. ASSUME NEW i \in DOMAIN queue'
          PROVE  ComesAfter(queue'[i], IF i = 1 THEN Lead(w)' ELSE queue'[i - 1].n)
      <3>1. i + 1 \in DOMAIN queue /\ queue'[i] = queue[i + 1] /\ i + 1 # 1 /\ (i + 1) - 1 = i
        BY <1>1, <2>2
      <3>2. ComesAfter(queue[i + 1], queue[(i + 1) - 1].n)
        BY <3>1 DEF NoGap
      <3>3. i # 1 => i - 1 \in DOMAIN queue' /\ (i - 1) + 1 = i
        BY <1>1, <2>2
      <3>4. i # 1 => queue'[i - 1] = queue[i]
        BY <2>2, <3>3
      <3> QED
        BY <2>5, <3>1, <3>2, <3>4
    <2> QED
      BY <2>1, <2>3, <2>4, <2>6, <2>7, <2>8 DEF NoGap, ComesAfter, IsIdr
  <1>10. ASSUME NEW w \in Senders, Write(w)
         PROVE  NoGap'
    <2>1. /\ UNCHANGED <<alive, queue, decoder, current, chain, held>>
          /\ sender[w] = "writing" /\ sender' = [sender EXCEPT ![w] = "poll"]
          /\ last' = [last EXCEPT ![w] = held[w].n]
      BY <1>10 DEF Write
    <2>2. \A v \in Senders : v = w
      BY DEF OneSender
    <2>3. sender'[w] = "poll" /\ last'[w] = held[w].n
      BY <1>1, <2>1
    <2>4. Lead(w)' = Lead(w)
      BY <2>1, <2>3 DEF Lead
    <2>5. Back(w)' = Back(w)
      BY <2>1, <2>4 DEF Back
    <2> QED
      BY <2>1, <2>2, <2>3, <2>4, <2>5 DEF NoGap, ComesAfter, IsIdr
  <1> QED
    BY <1>2, <1>3, <1>4, <1>5, <1>6, <1>7, <1>8, <1>9, <1>10
    DEF VideoNext, Decode, SampleSender

\* At the start the host owes an IDR frame.
LEMMA InitLoss == VideoInit => LossInv
<1> SUFFICES ASSUME VideoInit PROVE LossInv
  OBVIOUS
<1>1. current.intact = FALSE /\ chain = FALSE /\ requested = TRUE /\ decoder = "idle"
  BY DEF VideoInit
<1> QED BY <1>1 DEF LossInv, Reported, CurrentKnown

\* A frame is built knowing whether the one before was queued.
LEMMA SubmitLoss ==
    ASSUME LossInv, NEW n \in 0..MaxRun, Submit(n)
    PROVE  LossInv'
  BY DEF Submit, LossInv, Reported, CurrentKnown, IsIdr

\* A refused frame is marked before its result is returned.
LEMMA DecodeLoss ==
    ASSUME LossInv, Decode
    PROVE  LossInv'
<1>1. CASE SendSamples
  <2>1. CASE HasRoom
    BY <1>1, <2>1 DEF SendSamples, LossInv, Reported, CurrentKnown, IsIdr
  <2>2. CASE ~HasRoom
    BY <1>1, <2>2 DEF SendSamples, LossInv, Reported, CurrentKnown
  <2> QED BY <2>1, <2>2
<1>2. CASE ClearQueue
  BY <1>2 DEF ClearQueue, LossInv, Reported, CurrentKnown, IsIdr
<1>3. CASE MarkNeedsIdr
  BY <1>3 DEF MarkNeedsIdr, LossInv, Reported, CurrentKnown
<1>4. CASE ReportNeedIdr
  BY <1>4 DEF ReportNeedIdr, LossInv, Reported, CurrentKnown
<1>5. CASE ReportNothing
  BY <1>5 DEF ReportNothing, LossInv, Reported, CurrentKnown
<1> QED BY <1>1, <1>2, <1>3, <1>4, <1>5 DEF Decode

\* Nobody else touches what the decoder knows, but for a reported picture loss.
LEMMA OthersLoss ==
    ASSUME LossInv,
           UNCHANGED <<decoder, current, chain, requested>>,
           needsIdr => needsIdr'
    PROVE  LossInv'
  BY DEF LossInv, Reported, CurrentKnown, IsIdr

\* Every step keeps track of what was lost.
LEMMA NextLoss == LossInv /\ [VideoNext]_videoVars => LossInv'
<1> SUFFICES ASSUME LossInv, [VideoNext]_videoVars
             PROVE  LossInv'
  OBVIOUS
<1>1. ASSUME NEW n \in 0..MaxRun, Submit(n)
      PROVE  LossInv'
  BY <1>1, SubmitLoss
<1>2. CASE Decode
  BY <1>2, DecodeLoss
<1>3. CASE PictureLoss
  BY <1>3, OthersLoss DEF PictureLoss
<1>4. CASE DropSender
  BY <1>4, OthersLoss DEF DropSender
<1>5. ASSUME NEW w \in Senders, CreateTrack(w)
      PROVE  LossInv'
  BY <1>5, OthersLoss DEF CreateTrack
<1>6. ASSUME NEW w \in Senders, SampleSender(w)
      PROVE  LossInv'
  BY <1>6, OthersLoss DEF SampleSender, PollOrphaned, PollAgain, Poll, Wait, Write
<1>7. CASE UNCHANGED videoVars
  BY <1>7, OthersLoss DEF videoVars
<1> QED BY <1>1, <1>2, <1>3, <1>4, <1>5, <1>6, <1>7 DEF VideoNext

\* The queue starts empty and nothing is on its way.
LEMMA InitVideo == VideoInit => VideoInv /\ NoGap
  <1> SUFFICES ASSUME VideoInit
               PROVE  VideoInv /\ NoGap
    OBVIOUS
  <1> USE QueueAssumption
  <1>1. queue = <<>> /\ decoder = "idle" /\ chain = FALSE /\ DOMAIN queue = {}
    BY DEF VideoInit
  <1>2. VideoTypeOK
    <2>1. /\ codec \in BOOLEAN /\ alive \in BOOLEAN /\ chain \in BOOLEAN
          /\ needsIdr \in BOOLEAN /\ requested \in BOOLEAN
      BY Zenon DEF VideoInit
    <2>2. current \in Frame /\ held \in [Senders -> Frame]
      BY DEF VideoInit, Frame
    <2>3. sender \in [Senders -> {"unused", "poll", "empty", "waiting", "writing", "orphan"}]
          /\ last \in [Senders -> -1..MaxRun]
      BY DEF VideoInit
    <2>4. queue \in Seq(Frame)
      BY <1>1
    <2> QED
      BY <1>1, <2>1, <2>2, <2>3, <2>4 DEF VideoTypeOK
  <1>3. Cardinality(Refusable(queue)) <= QueueSize + 1
    <2>1. Refusable(queue) = {}
      BY <1>1 DEF Refusable
    <2> QED
      BY <2>1, FS_EmptySet
  <1>4. NoGap
    BY <1>1 DEF NoGap, VideoInit
  <1> QED
    BY <1>1, <1>2, <1>3, <1>4, InitLoss DEF VideoInv, IdrsFirst

\* The inductive invariant of the track, however many tasks write.
THEOREM VideoInductive == VideoSpec => []VideoInv
  <1>1. ASSUME VideoInv, [VideoNext]_videoVars
        PROVE  VideoInv'
    <2>1. CASE VideoNext
      BY <1>1, <2>1, VideoTypes, QueueKeeps, NextLoss DEF VideoInv, Refusable, IsIdr
    <2>2. CASE UNCHANGED videoVars
      <3>1. VideoTypeOK' /\ IdrsFirst'
        BY <1>1, <2>2 DEF VideoInv, videoVars, VideoTypeOK, IdrsFirst, IsIdr
      <3>2. Refusable(queue)' = Refusable(queue)
        BY <2>2 DEF videoVars, Refusable, IsIdr
      <3> QED
        BY <1>1, <2>2, <3>1, <3>2, NextLoss DEF VideoInv
    <2> QED
      BY <1>1, <2>1, <2>2
  <1> QED
    BY InitVideo, <1>1, PTL DEF VideoSpec

\* A browser that cannot decode because a frame was dropped always has an IDR
\* frame being asked for or on its way.
THEOREM BrokenAlwaysReported == VideoSpec => []BrokenIsReported
  <1>1. VideoInv => BrokenIsReported
    BY DEF VideoInv, LossInv, Reported, BrokenIsReported
  <1> QED
    BY VideoInductive, <1>1, PTL

\* However many tasks write, the queue holds at most QueueSize + 1 frames that may be
\* refused, and an IDR frame never waits behind one it makes superfluous.
THEOREM QueueAlwaysBounded == VideoSpec => []QueueBounded
  <1>1. VideoInv => QueueBounded
    BY DEF VideoInv, IdrsFirst, Refusable, QueueBounded
  <1> QED
    BY VideoInductive, <1>1, PTL

\* One task writes what can be decoded in order and without a gap, within the limit of
\* the queue, whatever is refused, cleared, dropped or lost in between.
THEOREM QueueAlwaysInOrder ==
    ASSUME OneSender
    PROVE  VideoSpec => []QueueInOrder
  <1>1. ASSUME VideoInv, NoGap, [VideoNext]_videoVars
        PROVE  NoGap'
    <2>1. CASE VideoNext
      BY <1>1, <2>1, NoGapKeeps DEF VideoInv, LossInv
    <2>2. CASE UNCHANGED videoVars
      BY <1>1, <2>2 DEF videoVars, NoGap, ComesAfter, IsIdr, Back, Lead
    <2> QED
      BY <1>1, <2>1, <2>2
  <1>2. VideoInv /\ NoGap => QueueInOrder
    <2> SUFFICES ASSUME VideoInv, NoGap, NEW w \in Senders,
                        sender[w] = "writing", held[w].intact, ~IsIdr(held[w])
                 PROVE  \/ last[w] = held[w].n - 1
                        \/ last[w] = MaxRun /\ held[w].n = 1
      BY DEF VideoInv, IdrsFirst, Refusable, QueueInOrder, QueueBounded, GapFree
    <2>1. held[w].n = IF last[w] = MaxRun THEN 1 ELSE last[w] + 1
      BY DEF NoGap, ComesAfter
    <2>2. last[w] \in Int
      BY QueueAssumption DEF VideoInv, VideoTypeOK
    <2> QED
      BY <2>1, <2>2
  <1> QED
    BY InitVideo, VideoInductive, <1>1, <1>2, PTL DEF VideoSpec

-------------------------------------------------------------------------------
(* The request. *)

Message == [kind : ClientKinds, n : Nat]

\* What the proof needs to know of the types.
Types ==
    /\ fromClient \in Seq(Message) /\ said \in Nat
    /\ toStreamer \in Seq(Message) /\ heard \in Nat
    /\ ignored \in Nat

\* Number of the last message the reader took from the Web Socket.
Taken == said - Len(fromClient)

\* The messages on both ways are numbered without a gap, and on the way to the
\* streamer Init is the first one and only the first.
Numbered ==
    /\ \A i \in 1..Len(fromClient) : fromClient[i].n = Taken + i
    /\ \A i \in 1..Len(toStreamer) :
        /\ toStreamer[i].n = heard + i
        /\ toStreamer[i].kind = "init" <=> toStreamer[i].n = 1

\* How far the reader has come says what it has taken and passed on.
Progress ==
    /\ reader = "init" => Taken = 0
    /\ reader \in {"setup", "launch", "configure"} => Taken = 1
    /\ reader \in {"init", "setup", "launch"} => streamer = "none"
    /\ reader = "configure" => streamer # "none"
    /\ reader \in {"init", "setup", "launch", "configure"} => toStreamer = <<>> /\ heard = 0
    /\ streamer = "gone" => toStreamer = <<>>
    /\ reader = "forward" => Taken > 0
    /\ reader = "forward" /\ streamer # "gone" => Taken = heard + Len(toStreamer)

\* Until it has its Init the streamer has taken nothing at all.
NotBeforeInit ==
    /\ streamer \in {"none", "waiting"} => heard = 0
    /\ streamer = "none" => toStreamer = <<>>
    /\ streamer = "none" => reader \in {"init", "setup", "launch", "ended"}
    /\ writer = "none" <=> streamer = "none"

ServerInv == Types /\ Numbered /\ Progress /\ NotBeforeInit /\ NothingIgnored

-------------------------------------------------------------------------------
\* What a task takes from a queue and what it adds to one.
LEMMA TailFacts ==
    ASSUME NEW q \in Seq(Message), q # <<>>
    PROVE  /\ Head(q) \in Message /\ Head(q) = q[1]
           /\ Tail(q) \in Seq(Message) /\ Len(Tail(q)) = Len(q) - 1
           /\ \A i \in 1..Len(Tail(q)) : i + 1 \in 1..Len(q) /\ Tail(q)[i] = q[i + 1]
    OBVIOUS

\* And what a queue has after a message was added to it.
LEMMA AppendFacts ==
    ASSUME NEW q \in Seq(Message), NEW m \in Message
    PROVE  /\ Append(q, m) \in Seq(Message) /\ Len(Append(q, m)) = Len(q) + 1
           /\ \A i \in 1..Len(q) : Append(q, m)[i] = q[i]
           /\ Append(q, m)[Len(q) + 1] = m
    OBVIOUS

\* A step that leaves the messages alone, and what it may do to the rest.
LEMMA QuietStep ==
    ASSUME ServerInv, UNCHANGED <<fromClient, said, toStreamer, heard, ignored>>,
           Progress', NotBeforeInit'
    PROVE  ServerInv'
    BY DEF ServerInv, Types, Numbered, Taken, NothingIgnored

\* At the start nothing was said.
LEMMA InitServer == ServerInit => ServerInv
<1> SUFFICES ASSUME ServerInit
             PROVE  ServerInv
    OBVIOUS
<1> USE DEF ServerInit
<1>1. Types
    BY DEF Types
<1>2. Taken = 0 /\ Len(fromClient) = 0 /\ Len(toStreamer) = 0
  <2>1. fromClient = <<>> /\ toStreamer = <<>> /\ said = 0
      OBVIOUS
  <2>2. \A q : q = <<>> => Len(q) = 0
      OBVIOUS
  <2>3. Len(fromClient) = 0 /\ Len(toStreamer) = 0
      BY <2>1, <2>2, Zenon
  <2>4. \A n, k : n = 0 /\ k = 0 => n - k = 0
      OBVIOUS
  <2> QED
      BY <2>1, <2>3, <2>4, Zenon DEF Taken
<1>3. Numbered
    BY <1>2 DEF Numbered
<1>4. Progress /\ NotBeforeInit
    BY <1>2 DEF Progress, NotBeforeInit
<1> QED
    BY <1>1, <1>3, <1>4 DEF ServerInv, NothingIgnored

\* What the browser says gets the next number.
LEMMA ClientStep ==
    ASSUME ServerInv, NEW kind \in ClientKinds, ClientSends(kind)
    PROVE  ServerInv'
<1> DEFINE m == [kind |-> kind, n |-> said + 1]
<1>1. m \in Message /\ fromClient \in Seq(Message)
    BY DEF ServerInv, Types, Message
<1>2. fromClient' = Append(fromClient, m) /\ said' = said + 1
    BY DEF ClientSends
<1>3. Taken' = Taken /\ Types'
    BY <1>1, <1>2, AppendFacts DEF ServerInv, Types, Taken, ClientSends, process
<1>4. \A i \in 1..Len(fromClient') : fromClient'[i].n = Taken' + i
  <2> SUFFICES ASSUME NEW i \in 1..Len(fromClient')
               PROVE  fromClient'[i].n = Taken + i
      BY <1>3
  <2>1. Len(fromClient') = Len(fromClient) + 1
      BY <1>1, <1>2, AppendFacts
  <2>2. CASE i \in 1..Len(fromClient)
      BY <1>1, <1>2, <2>2, AppendFacts DEF ServerInv, Numbered
  <2>3. CASE i = Len(fromClient) + 1
    <3>1. fromClient'[i] = m
        BY <1>1, <1>2, <2>3, AppendFacts
    <3> QED
        BY <3>1, <2>3 DEF Taken, ServerInv, Types
  <2> QED
      BY <2>1, <2>2, <2>3
<1>5. Numbered'
    BY <1>4 DEF ServerInv, Numbered, ClientSends, process
<1> QED
    BY <1>3, <1>5 DEF ServerInv, Progress, NotBeforeInit, NothingIgnored, ClientSends, process

\* The first message is taken; nothing has been passed on yet.
LEMMA ReadInitStep ==
    ASSUME ServerInv, ReadInit
    PROVE  ServerInv'
<1>1. fromClient \in Seq(Message) /\ fromClient # <<>> /\ fromClient' = Tail(fromClient)
    BY DEF ServerInv, Types, ReadInit
<1>2. UNCHANGED <<said, toStreamer, process, writer>> /\ reader' \in {"setup", "ended"}
    BY DEF ReadInit, GiveUp
<1>3. Taken' = Taken + 1 /\ Types'
    BY <1>1, <1>2, TailFacts DEF ServerInv, Types, Taken, process
<1>4. \A i \in 1..Len(fromClient') : fromClient'[i].n = Taken' + i
  <2> SUFFICES ASSUME NEW i \in 1..Len(fromClient')
               PROVE  fromClient'[i].n = Taken' + i
      OBVIOUS
  <2>1. i + 1 \in 1..Len(fromClient) /\ fromClient'[i] = fromClient[i + 1]
      BY <1>1, TailFacts
  <2>2. Taken \in Int
      BY DEF Taken, ServerInv, Types
  <2> QED
      BY <1>3, <2>1, <2>2 DEF ServerInv, Numbered
<1>5. Numbered'
    BY <1>2, <1>4 DEF ServerInv, Numbered, process
<1> QED
    BY <1>2, <1>3, <1>5 DEF ServerInv, Progress, NotBeforeInit, NothingIgnored, ReadInit, process

\* Looking up the host and launching the streamer forward nothing.
LEMMA StartStep ==
    ASSUME ServerInv, ReadNothing \/ SetUp \/ Launch \/ ReaderEnds
    PROVE  ServerInv'
<1>1. UNCHANGED <<fromClient, said, toStreamer, heard, ignored>>
    BY DEF ReadNothing, SetUp, Launch, ReaderEnds, GiveUp, client, process
<1>2. Progress' /\ NotBeforeInit'
    BY <1>1 DEF ReadNothing, SetUp, Launch, ReaderEnds, GiveUp, client, process,
                ServerInv, Progress, NotBeforeInit, Taken
<1> QED
    BY <1>1, <1>2, QuietStep

\* The Init is the first message the streamer gets.
LEMMA ConfigureStep ==
    ASSUME ServerInv, Configure
    PROVE  ServerInv'
<1> DEFINE m == [kind |-> "init", n |-> 1]
<1>0. m \in Message /\ toStreamer = <<>> /\ toStreamer \in Seq(Message) /\ heard = 0 /\ Taken = 1
    BY DEF ServerInv, Types, Progress, Configure, Message, ClientKinds
<1>1. Taken' = Taken /\ UNCHANGED <<fromClient, said, process, writer>> /\ reader' = "forward"
    BY DEF Configure, client, Taken
<1>2. CASE streamer # "gone" /\ toStreamer' = Append(toStreamer, m)
  <2>1. toStreamer' \in Seq(Message) /\ Len(toStreamer') = 1 /\ toStreamer'[1] = m
      BY <1>0, <1>2
  <2>2. Types' /\ Numbered'
      BY <1>0, <1>1, <2>1 DEF ServerInv, Types, Numbered, process
  <2>3. Progress' /\ NotBeforeInit'
      BY <1>0, <1>1, <1>2, <2>1 DEF ServerInv, Progress, NotBeforeInit, process, Configure
  <2> QED
      BY <1>1, <2>2, <2>3 DEF ServerInv, NothingIgnored, process
<1>3. CASE streamer = "gone" /\ UNCHANGED toStreamer
  <2>1. Progress' /\ NotBeforeInit'
      BY <1>0, <1>1, <1>3 DEF ServerInv, Progress, NotBeforeInit, process
  <2> QED
      BY <1>1, <1>3, <2>1, QuietStep DEF process
<1> QED
    BY <1>2, <1>3 DEF Configure, SendIpc

\* What is forwarded is the successor of what was forwarded before.
LEMMA ForwardStep ==
    ASSUME ServerInv, Forward
    PROVE  ServerInv'
<1>9. PICK m : m = [Head(fromClient) EXCEPT !.kind = "text"]
    OBVIOUS
<1>0. fromClient \in Seq(Message) /\ fromClient # <<>> /\ toStreamer \in Seq(Message) /\ heard \in Nat
    BY DEF ServerInv, Types, Forward
<1>1. UNCHANGED <<said, process, writer>> /\ fromClient' = Tail(fromClient)
    BY DEF Forward
<1>2. Taken' = Taken + 1 /\ fromClient' \in Seq(Message)
      /\ \A i \in 1..Len(fromClient') : fromClient'[i].n = Taken' + i
    BY <1>0, <1>1, TailFacts DEF ServerInv, Types, Numbered, Taken
<1>3. m \in Message /\ m.kind = "text" /\ m.n = Taken + 1
  <2>1. Head(fromClient) \in Message /\ Head(fromClient) = fromClient[1] /\ 1 \in 1..Len(fromClient)
      BY <1>0, TailFacts
  <2>2. Head(fromClient).n = Taken + 1
      BY <2>1 DEF ServerInv, Numbered
  <2> QED
      BY <1>9, <2>1, <2>2 DEF Message, ClientKinds
<1>4. reader = "forward" /\ Taken > 0 /\ Taken \in Int
    BY DEF Forward, ServerInv, Types, Progress, Taken
<1>5. CASE toStreamer' = toStreamer /\ (reader' = "ended" \/ (streamer = "gone" /\ UNCHANGED reader))
  <2>1. Types' /\ Numbered'
      BY <1>1, <1>2, <1>5 DEF ServerInv, Types, Numbered, process
  <2>2. Progress' /\ NotBeforeInit'
      BY <1>1, <1>2, <1>4, <1>5 DEF ServerInv, Progress, NotBeforeInit, process
  <2> QED
      BY <1>1, <2>1, <2>2 DEF ServerInv, NothingIgnored, process
<1>6. CASE streamer # "gone" /\ toStreamer' = Append(toStreamer, m) /\ UNCHANGED reader
  <2>1. Taken = heard + Len(toStreamer)
      BY <1>4, <1>6 DEF ServerInv, Progress
  <2>2. /\ toStreamer' \in Seq(Message) /\ Len(toStreamer') = Len(toStreamer) + 1
        /\ \A i \in 1..Len(toStreamer) : toStreamer'[i] = toStreamer[i]
        /\ toStreamer'[Len(toStreamer) + 1] = m
      BY <1>0, <1>3, <1>6, AppendFacts
  <2>3. \A i \in 1..Len(toStreamer') :
            toStreamer'[i].n = heard + i /\ (toStreamer'[i].kind = "init" <=> toStreamer'[i].n = 1)
    <3> TAKE i \in 1..Len(toStreamer')
    <3>1. CASE i \in 1..Len(toStreamer)
        BY <2>2, <3>1 DEF ServerInv, Numbered
    <3>2. CASE i = Len(toStreamer) + 1
      <4>1. toStreamer'[i] = m
          BY <2>2, <3>2
      <4>2. m.n = heard + i /\ m.n # 1 /\ m.kind # "init"
          BY <1>0, <1>3, <1>4, <2>1, <3>2
      <4> QED
          BY <4>1, <4>2
    <3> QED
        BY <2>2, <3>1, <3>2
  <2>5. Types' /\ Numbered'
      BY <1>1, <1>2, <2>2, <2>3 DEF ServerInv, Types, Numbered, process
  <2>4. Progress' /\ NotBeforeInit'
      BY <1>0, <1>1, <1>2, <1>4, <1>6, <2>1, <2>2 DEF ServerInv, Progress, NotBeforeInit, process
  <2> QED
      BY <1>1, <2>4, <2>5 DEF ServerInv, NothingIgnored, process
<1>7. CASE Head(fromClient).kind = "bad"
  <2>1. toStreamer' = toStreamer /\ reader' = "ended"
      BY <1>7, Zenon DEF Forward
  <2> QED
      BY <1>5, <2>1
<1>8. CASE Head(fromClient).kind # "bad"
  <2>1. SendIpc(m) /\ UNCHANGED reader
      BY <1>8, <1>9, Zenon DEF Forward
  <2> QED
      BY <1>5, <1>6, <2>1 DEF SendIpc
<1> QED
    BY <1>7, <1>8

\* The task that writes the Web Socket takes nothing of the browser, but kills the streamer.
LEMMA WriterStep ==
    ASSUME ServerInv, Writer
    PROVE  ServerInv'
<1>1. CASE WriteWs \/ WriterEof \/ CloseWs
    BY <1>1, QuietStep DEF WriteWs, WriterEof, CloseWs, client, process,
                           ServerInv, Progress, NotBeforeInit, Taken
<1>2. CASE Kill
  <2>1. toStreamer' = <<>> /\ streamer' = "gone" /\ streamer # "none"
        /\ UNCHANGED <<fromClient, said, heard, ignored, reader>> /\ writer' = "ended"
      BY <1>2 DEF Kill, client, ServerInv, NotBeforeInit
  <2> QED
      BY <2>1 DEF ServerInv, Types, Numbered, Progress, NotBeforeInit, NothingIgnored, Taken
<1> QED
    BY <1>1, <1>2 DEF Writer

\* The first message the streamer takes is its Init.
LEMMA TakeStep ==
    ASSUME ServerInv, TakeInit \/ TakeMessage
    PROVE  ServerInv'
<1>0. toStreamer \in Seq(Message) /\ toStreamer # <<>> /\ heard \in Nat
    BY DEF ServerInv, Types, TakeInit, TakeMessage
<1>1. Head(toStreamer).n = heard + 1 /\ (Head(toStreamer).kind = "init" <=> heard + 1 = 1)
    BY <1>0, TailFacts DEF ServerInv, Numbered
<1>2. heard' = heard + 1 /\ ignored' = ignored /\ streamer' = "running"
    BY <1>0, <1>1 DEF TakeInit, TakeMessage, ServerInv, NotBeforeInit
<1>3. toStreamer' = Tail(toStreamer) /\ UNCHANGED <<fromClient, said, reader, writer>>
    BY DEF TakeInit, TakeMessage, client
<1>4. streamer \in {"waiting", "running"} /\ Taken' = Taken
    BY <1>3 DEF TakeInit, TakeMessage, Taken
<1>5. Types' /\ Numbered'
    BY <1>0, <1>2, <1>3, <1>4, TailFacts DEF ServerInv, Types, Numbered
<1>6. Progress' /\ NotBeforeInit'
    BY <1>0, <1>2, <1>3, <1>4, TailFacts DEF ServerInv, Progress, NotBeforeInit
<1> QED
    BY <1>2, <1>5, <1>6 DEF ServerInv, NothingIgnored

\* What the streamer says, and how it ends, takes no message of the browser.
LEMMA StreamerStep ==
    ASSUME ServerInv, StreamerSpeaks \/ SendFrame \/ SendStop \/ StopExits \/ Panic
    PROVE  ServerInv'
<1>1. CASE StreamerSpeaks \/ SendFrame \/ SendStop
    BY <1>1, QuietStep DEF StreamerSpeaks, SendFrame, SendStop, Speak, client,
                           ServerInv, Progress, NotBeforeInit, Taken
<1>2. CASE StopExits \/ Panic
  <2>1. toStreamer' = <<>> /\ streamer' = "gone" /\ streamer # "none"
        /\ UNCHANGED <<fromClient, said, heard, ignored, reader, writer>>
      BY <1>2 DEF StopExits, Panic, Exit, client
  <2> QED
      BY <2>1 DEF ServerInv, Types, Numbered, Progress, NotBeforeInit, NothingIgnored, Taken
<1> QED
    BY <1>1, <1>2

\* Every step keeps the messages of the browser in order.
LEMMA ServerKeeps == ServerInv /\ [ServerNext]_serverVars => ServerInv'
<1> SUFFICES ASSUME ServerInv, [ServerNext]_serverVars
             PROVE  ServerInv'
    OBVIOUS
<1>1. CASE Reader
    BY <1>1, ReadInitStep, StartStep, ConfigureStep, ForwardStep DEF Reader
<1>2. CASE ClientLeaves \/ UNCHANGED serverVars
    BY <1>2, QuietStep DEF ClientLeaves, serverVars, client, process, ServerInv, Progress,
       NotBeforeInit, Taken
<1> QED
    BY <1>1, <1>2, ClientStep, WriterStep, TakeStep, StreamerStep DEF ServerNext

\* The inductive invariant of what the browser says.
LEMMA ServerInductive == ServerSpec => []ServerInv
    BY InitServer, ServerKeeps, PTL DEF ServerSpec

\* The loop that waits for Init passes over no message of the browser.
THEOREM InitAlwaysFirst == ServerSpec => []NothingIgnored
<1>1. ServerInv => NothingIgnored
    BY DEF ServerInv
<1> QED
    BY ServerInductive, <1>1, PTL

\* What the browser says reaches the streamer in order and without a gap.
THEOREM ClientAlwaysInOrder == ServerSpec => []ClientOrder
<1>1. ServerInv => ClientOrder
    BY DEF ServerInv, Types, Numbered, Progress, ClientOrder
<1> QED
    BY ServerInductive, <1>1, PTL

\* From the first moment on, what the browser says is heard, in order.
THEOREM ClientAlwaysHeard == ServerSpec => []ClientIsHeard
<1>1. NothingIgnored /\ ClientOrder => ClientIsHeard
    BY DEF ClientIsHeard
<1> QED
    BY InitAlwaysFirst, ClientAlwaysInOrder, <1>1, PTL

-------------------------------------------------------------------------------
(* The other direction: what the streamer says. *)

Answer == [kind : {"text", "binary", "stop"}, n : Nat]

\* A message has the next number, or is one of the frames beyond the bound.
Follows(n, m) == m.n = n + 1 \/ (m.n = n /\ m.kind = "binary")

AnswerTypes == toServer \in Seq(Answer) /\ spoken \in Nat /\ seen \in Nat

\* The messages on the way follow each other up to the last one said, and Stop is the
\* last one.
Consecutive ==
    /\ streamer # "gone" /\ toServer # <<>> => spoken = toServer[Len(toServer)].n
    /\ \A i \in 1..Len(toServer) - 1 : Follows(toServer[i].n, toServer[i + 1])
    /\ \A i \in 1..Len(toServer) :
        toServer[i].kind = "stop" => i = Len(toServer) /\ streamer \in {"stopping", "gone"}

\* As long as the browser is written to, the first message on the way follows what it
\* has seen; with nothing on the way it has seen all.
UpToDate ==
    ws /\ writer \in {"none", "forward"} =>
        /\ toServer # <<>> => Follows(seen, toServer[1])
        /\ streamer # "gone" /\ toServer = <<>> => spoken = seen

\* The writer leaves its loop because of Stop, or of a process that is gone.
ClosedByStop ==
    ws /\ writer = "close" =>
        /\ streamer \in {"stopping", "gone"}
        /\ streamer = "stopping" => seen = spoken - 1

OInv == AnswerTypes /\ Consecutive /\ UpToDate /\ ClosedByStop

\* What the browser is told next, and what comes after it.
LEMMA AnswerTail ==
    ASSUME NEW q \in Seq(Answer), q # <<>>
    PROVE  /\ Head(q) \in Answer /\ Head(q) = q[1] /\ Len(q) \in Nat /\ Len(q) > 0
           /\ Tail(q) \in Seq(Answer) /\ Len(Tail(q)) = Len(q) - 1
           /\ \A i \in 1..Len(q) - 1 : Tail(q)[i] = q[i + 1]
           /\ Tail(q) = <<>> => Len(q) = 1
<1>1. Len(Tail(q)) = Len(q) - 1 /\ Len(q) \in Nat
    OBVIOUS
<1>2. Len(<<>>) = 0
    OBVIOUS
<1>3. Tail(q) = <<>> => Len(q) = 1
  <2>1. Tail(q) = <<>> => Len(Tail(q)) = 0
      BY <1>2, Zenon
  <2> QED
      BY <1>1, <2>1
<1> QED
    BY <1>3

\* What the streamer says comes last.
LEMMA AnswerAppend ==
    ASSUME NEW q \in Seq(Answer), NEW m \in Answer
    PROVE  /\ Append(q, m) \in Seq(Answer) /\ Len(Append(q, m)) = Len(q) + 1
           /\ \A i \in 1..Len(q) : Append(q, m)[i] = q[i]
           /\ Append(q, m)[Len(q) + 1] = m
           /\ Append(q, m) # <<>> /\ Len(q) \in Nat /\ (q = <<>> <=> Len(q) = 0)
    OBVIOUS

\* What a process leaves in the pipe when it exits.
LEMMA AnswerPrefix ==
    ASSUME NEW q \in Seq(Answer), NEW k \in 0..Len(q)
    PROVE  /\ SubSeq(q, 1, k) \in Seq(Answer) /\ Len(SubSeq(q, 1, k)) = k
           /\ \A i \in 1..k : SubSeq(q, 1, k)[i] = q[i]
           /\ SubSeq(q, 1, k) # <<>> => k > 0
    OBVIOUS

\* A step that neither writes nor reads the way to the server.
LEMMA OtherStep ==
    ASSUME OInv, UNCHANGED <<toServer, spoken, seen>>,
           ws' => ws,
           streamer' = streamer \/ (streamer' \in {"waiting", "running"}
                   /\ streamer \in {"none", "waiting"})
               \/ streamer' = "gone",
           writer' = writer \/ (writer' = "forward" /\ writer = "none") \/ writer' \in {"kill", "ended"}
    PROVE  OInv'
    BY DEF OInv, AnswerTypes, Consecutive, UpToDate, ClosedByStop, Follows

\* Whatever the streamer adds follows what is on the way.
LEMMA SpeakStep ==
    ASSUME OInv, NEW m \in Answer, Follows(spoken, m), streamer \in {"waiting", "running"},
           toServer' = Append(toServer, m), spoken' = m.n, UNCHANGED <<ws, writer, seen>>,
           m.kind = "stop" => m.n = spoken + 1 /\ streamer' = "stopping",
           m.kind # "stop" => UNCHANGED streamer
    PROVE  OInv'
<1> DEFINE l == Len(toServer)
<1>0. toServer \in Seq(Answer) /\ spoken \in Nat /\ seen \in Nat
    BY DEF OInv, AnswerTypes
<1>1. /\ toServer' \in Seq(Answer) /\ Len(toServer') = l + 1
      /\ \A i \in 1..l : toServer'[i] = toServer[i]
      /\ toServer'[l + 1] = m
      /\ toServer' # <<>> /\ l \in Nat /\ (toServer = <<>> <=> l = 0)
    BY <1>0, AnswerAppend
<1>2. AnswerTypes'
    BY <1>0, <1>1 DEF AnswerTypes, Answer
<1>3. ASSUME NEW i \in 1..Len(toServer'), toServer'[i].kind = "stop"
      PROVE  i = Len(toServer') /\ streamer' \in {"stopping", "gone"}
  <2>1. CASE i \in 1..l
      BY <1>1, <1>3, <2>1 DEF OInv, Consecutive
  <2> QED
      BY <1>1, <1>3, <2>1
<1>4. UpToDate'
  <2>1. CASE toServer = <<>>
      BY <1>1, <2>1 DEF OInv, UpToDate
  <2>2. CASE toServer # <<>>
      BY <1>1, <2>2 DEF OInv, UpToDate
  <2> QED
      BY <2>1, <2>2
<1>5. ClosedByStop'
    BY DEF OInv, ClosedByStop
<1>6. ASSUME NEW i \in 1..Len(toServer') - 1
      PROVE  Follows(toServer'[i].n, toServer'[i + 1])
  <2>1. CASE i \in 1..l - 1
      BY <1>1, <2>1 DEF OInv, Consecutive
  <2>2. CASE i = l
      BY <1>1, <2>2 DEF OInv, Consecutive
  <2> QED
      BY <1>1, <2>1, <2>2
<1> QED
    BY <1>2, <1>3, <1>4, <1>5, <1>6 DEF OInv, Consecutive

\* What the browser gets is what follows what it has seen; behind Stop is nothing.
LEMMA WriteStep ==
    ASSUME OInv, WriteWs
    PROVE  OInv'
<1> DEFINE l == Len(toServer)
<1>1. /\ toServer \in Seq(Answer) /\ toServer # <<>> /\ spoken \in Nat /\ seen \in Nat
      /\ writer = "forward" /\ toServer' = Tail(toServer) /\ UNCHANGED <<ws, streamer, spoken>>
    BY DEF OInv, AnswerTypes, WriteWs, process
<1>2. /\ Head(toServer) \in Answer /\ Head(toServer) = toServer[1] /\ l \in Nat /\ l > 0
      /\ toServer' \in Seq(Answer) /\ Len(toServer') = l - 1
      /\ \A i \in 1..l - 1 : toServer'[i] = toServer[i + 1]
      /\ toServer' = <<>> => l = 1
    BY <1>1, AnswerTail
<1>7. \A i \in 1..l :
          toServer[i].kind = "stop" => i = l /\ streamer \in {"stopping", "gone"}
    BY DEF OInv, Consecutive
<1>8. streamer # "gone" => spoken = toServer[l].n
    BY <1>1 DEF OInv, Consecutive
<1>3. Consecutive'
  <2>1. ASSUME NEW i \in 1..Len(toServer') - 1
        PROVE  Follows(toServer'[i].n, toServer'[i + 1])
    <3>1. i + 1 \in 1..l - 1 /\ i \in 1..l - 1
        BY <1>2
    <3>2. toServer'[i] = toServer[i + 1] /\ toServer'[i + 1] = toServer[i + 2]
        BY <1>2, <3>1
    <3>3. Follows(toServer[i + 1].n, toServer[(i + 1) + 1])
        BY <1>2, <3>1 DEF OInv, Consecutive
    <3> QED
        BY <3>2, <3>3
  <2>2. ASSUME NEW i \in 1..Len(toServer'), toServer'[i].kind = "stop"
        PROVE  i = Len(toServer') /\ streamer' \in {"stopping", "gone"}
    <3>1. i \in 1..l - 1 /\ i + 1 \in 1..l /\ toServer[i + 1].kind = "stop"
        BY <1>2, <2>2
    <3>2. i + 1 = l /\ streamer \in {"stopping", "gone"}
        BY <1>7, <3>1
    <3>3. streamer' = streamer /\ Len(toServer') = l - 1 /\ l \in Nat
        BY <1>1, <1>2
    <3> QED
        BY <3>1, <3>2, <3>3
  <2>3. streamer' # "gone" /\ toServer' # <<>> => spoken' = toServer'[Len(toServer')].n
    <3> SUFFICES ASSUME streamer' # "gone", toServer' # <<>>
                 PROVE  spoken' = toServer'[Len(toServer')].n
        OBVIOUS
    <3>1. l - 1 \in 1..l - 1
      <4>1. Len(toServer') > 0
          BY <1>2
      <4> QED
          BY <1>2, <4>1
    <3>2. toServer'[l - 1] = toServer[(l - 1) + 1] /\ (l - 1) + 1 = l /\ Len(toServer') = l - 1
        BY <1>2, <3>1
    <3>3. spoken' = spoken /\ streamer' = streamer
        BY <1>1
    <3> QED
        BY <1>8, <3>2, <3>3
  <2> QED
      BY <2>1, <2>2, <2>3 DEF Consecutive
<1>4. CASE ws /\ Head(toServer).kind # "stop"
  <2>1. seen' = toServer[1].n /\ writer' = "forward" /\ seen' \in Nat
      BY <1>1, <1>2, <1>4 DEF WriteWs, Answer
  <2>2. toServer' # <<>> => Follows(seen', toServer'[1])
    <3> SUFFICES ASSUME toServer' # <<>>
                 PROVE  Follows(seen', toServer'[1])
        OBVIOUS
    <3>1. 1 \in 1..l - 1
      <4>1. Len(toServer') > 0
          BY <1>2
      <4> QED
          BY <1>2, <4>1
    <3>2. Follows(toServer[1].n, toServer[1 + 1]) /\ toServer'[1] = toServer[1 + 1]
        BY <1>2, <3>1 DEF OInv, Consecutive
    <3> QED
        BY <2>1, <3>2
  <2>3. streamer' # "gone" /\ toServer' = <<>> => spoken' = seen'
      BY <1>1, <1>2, <2>1 DEF OInv, Consecutive
  <2> QED
      BY <1>1, <1>2, <1>3, <2>1, <2>2, <2>3 DEF OInv, AnswerTypes, UpToDate, ClosedByStop
<1>5. CASE ~(ws /\ Head(toServer).kind # "stop")
  <2>1. seen' = seen /\ writer' = IF Head(toServer).kind = "text" THEN "forward" ELSE "close"
      BY <1>5 DEF WriteWs
  <2>2. ws => Head(toServer).kind = "stop" /\ writer' = "close"
      BY <1>5, <2>1
  <2>3. ws => l = 1 /\ streamer \in {"stopping", "gone"} /\ Follows(seen, toServer[1])
    <3>1. 1 \in 1..l /\ Head(toServer) = toServer[1] /\ toServer # <<>> /\ writer = "forward"
        BY <1>1, <1>2
    <3>2. Follows(seen, toServer[1]) \/ ~ws
        BY <3>1 DEF OInv, UpToDate
    <3> QED
        BY <1>7, <2>2, <3>1, <3>2
  <2>4. ws /\ streamer = "stopping" => spoken = toServer[1].n /\ toServer[1].n = seen + 1
      BY <1>2, <1>8, <2>2, <2>3 DEF Follows
  <2> QED
      BY <1>1, <1>2, <1>3, <2>1, <2>2, <2>3, <2>4 DEF OInv, AnswerTypes, UpToDate, ClosedByStop
<1> QED
    BY <1>4, <1>5

\* A process that exits leaves the beginning of what it said.
LEMMA ExitStep ==
    ASSUME OInv, Exit
    PROVE  OInv'
<1>1. PICK k \in 0..Len(toServer) : toServer' = SubSeq(toServer, 1, k)
    BY DEF Exit
<1>2. toServer \in Seq(Answer) /\ UNCHANGED <<ws, seen, spoken, writer>> /\ streamer' = "gone"
    BY DEF OInv, AnswerTypes, Exit
<1>3. /\ toServer' \in Seq(Answer) /\ Len(toServer') = k
      /\ \A i \in 1..k : toServer'[i] = toServer[i]
      /\ toServer' # <<>> => k > 0
    BY <1>1, <1>2, AnswerPrefix
<1>4. Consecutive'
  <2>1. ASSUME NEW i \in 1..k - 1
        PROVE  Follows(toServer'[i].n, toServer'[i + 1])
      BY <1>2, <1>3 DEF OInv, Consecutive
  <2>2. ASSUME NEW i \in 1..k, toServer'[i].kind = "stop"
        PROVE  i = k
      BY <1>2, <1>3, <2>2 DEF OInv, Consecutive
  <2> QED
      BY <1>2, <1>3, <2>1, <2>2 DEF Consecutive
<1>5. UpToDate'
    BY <1>2, <1>3 DEF OInv, UpToDate
<1> QED
    BY <1>2, <1>3, <1>4, <1>5 DEF OInv, AnswerTypes, ClosedByStop

\* Every step keeps the messages of the streamer in order.
LEMMA OInvStep ==
    ASSUME ServerInv, OInv, [ServerNext]_serverVars
    PROVE  OInv'
<1>1. CASE \/ ReadInit \/ ReadNothing \/ SetUp \/ Launch \/ Configure \/ Forward \/ ReaderEnds
           \/ ClientLeaves \/ (\E kind \in ClientKinds : ClientSends(kind)) \/ UNCHANGED serverVars
  <2>1. UNCHANGED <<toServer, spoken, seen>> /\ (ws' => ws)
    <3>1. CASE ReadInit
        BY <3>1, Zenon DEF ReadInit, GiveUp
    <3>2. CASE Configure \/ Forward \/ ReaderEnds
      <4>1. UNCHANGED <<toServer, spoken, seen, ws>>
          BY <3>2, Zenon DEF Configure, Forward, ReaderEnds
      <4> QED
          BY <4>1
    <3>3. CASE ClientLeaves \/ (\E kind \in ClientKinds : ClientSends(kind)) \/ UNCHANGED serverVars
      <4>1. UNCHANGED <<toServer, spoken, seen>> /\ (ws' = ws \/ ws' = FALSE)
          BY <3>3, Zenon DEF ClientLeaves, ClientSends, serverVars
      <4> QED
          BY <4>1
    <3>4. CASE ReadNothing \/ SetUp \/ Launch
        BY <3>4 DEF ReadNothing, SetUp, Launch, GiveUp
    <3> QED
        BY <1>1, <3>1, <3>2, <3>3, <3>4
  <2>2. \/ UNCHANGED <<streamer, writer>>
        \/ streamer = "none" /\ writer = "none" /\ streamer' = "waiting" /\ writer' = "forward"
    <3>1. CASE ReadInit
        BY <3>1 DEF ReadInit, GiveUp, process
    <3>2. CASE Configure \/ Forward \/ ReaderEnds
      <4>1. UNCHANGED <<process, writer>>
          BY <3>2, Zenon DEF Configure, Forward, ReaderEnds
      <4> QED
          BY <4>1 DEF process
    <3>3. CASE ClientLeaves \/ (\E kind \in ClientKinds : ClientSends(kind)) \/ UNCHANGED serverVars
        BY <3>3 DEF ClientLeaves, ClientSends, serverVars, process
    <3>4. CASE ReadNothing \/ SetUp \/ Launch
        BY <3>4 DEF ReadNothing, SetUp, Launch, GiveUp, process, ServerInv, Progress, NotBeforeInit
    <3> QED
        BY <1>1, <3>1, <3>2, <3>3, <3>4
  <2> QED
      BY <2>1, <2>2, OtherStep
<1>2. CASE WriterEof \/ CloseWs \/ Kill
  <2>1. CASE WriterEof
      BY <2>1 DEF WriterEof, process, OInv, AnswerTypes, Consecutive, UpToDate, ClosedByStop
  <2>2. CASE CloseWs \/ Kill
      BY <2>2, OtherStep DEF CloseWs, Kill, process
  <2> QED
      BY <1>2, <2>1, <2>2
<1>3. CASE TakeInit \/ TakeMessage
    BY <1>3, OtherStep DEF TakeInit, TakeMessage, client
<1>4. CASE StreamerSpeaks \/ SendStop \/ SendFrame
  <2>1. ASSUME NEW kind \in {"text", "binary", "stop"}, Speak(kind),
               streamer \in {"waiting", "running"},
               streamer' = IF kind = "stop" THEN "stopping" ELSE streamer
        PROVE  OInv'
    <3>1. PICK m : m = [kind |-> kind, n |-> spoken + 1]
        OBVIOUS
    <3>2. m \in Answer /\ m.n = spoken + 1 /\ m.kind = kind
        BY <3>1 DEF OInv, AnswerTypes, Answer
    <3>3. toServer' = Append(toServer, m) /\ spoken' = m.n /\ UNCHANGED <<ws, writer, seen>>
        BY <2>1, <3>1, <3>2 DEF Speak
    <3> QED
        BY <2>1, <3>2, <3>3, SpeakStep DEF Follows
  <2>2. ASSUME streamer = "running", UNCHANGED <<streamer, ws, writer, seen, spoken>>,
               toServer' = Append(toServer, [kind |-> "binary", n |-> spoken])
        PROVE  OInv'
    <3>1. PICK m : m = [kind |-> "binary", n |-> spoken]
        OBVIOUS
    <3>2. m \in Answer /\ m.n = spoken /\ m.kind = "binary"
        BY <3>1 DEF OInv, AnswerTypes, Answer
    <3> QED
        BY <2>2, <3>1, <3>2, SpeakStep DEF Follows
  <2> QED
      BY <1>4, <2>1, <2>2 DEF StreamerSpeaks, SendStop, SendFrame
<1> QED
    BY <1>1, <1>2, <1>3, <1>4, WriteStep, ExitStep
    DEF ServerNext, Reader, Writer, StopExits, Panic

\* What the streamer says reaches the browser in order, and all before Stop is seen.
THEOREM StreamerAlwaysInOrder == ServerSpec => []StreamerOrder
<1>1. ServerInit => OInv
    BY DEF ServerInit, OInv, AnswerTypes, Consecutive, UpToDate, ClosedByStop
<1>2. ServerInv /\ OInv /\ [ServerNext]_serverVars => OInv'
    BY OInvStep
<1>3. OInv => StreamerOrder
  <2> SUFFICES ASSUME OInv
               PROVE  StreamerOrder
      OBVIOUS
  <2>1. toServer # <<>> => Head(toServer) = toServer[1]
      BY AnswerTail DEF OInv, AnswerTypes
  <2> QED
      BY <2>1 DEF OInv, UpToDate, ClosedByStop, StreamerOrder, Follows
<1> QED
    BY ServerInductive, <1>1, <1>2, <1>3, PTL DEF ServerSpec

-------------------------------------------------------------------------------
(* The types of the request, and both beside each other. *)

\* Only Stop may have the number after the last one of the bound, and nothing follows it.
Told == {m \in StreamerMessages : m.kind # "stop" => m.n <= MaxStreamer}

ServerTypesInv ==
    /\ ServerTypeOK
    /\ toServer \in Seq(Told)
    /\ spoken > MaxStreamer => streamer \in {"stopping", "gone"}

\* The types hold at the start.
LEMMA InitServerTypes == ServerInit => ServerTypesInv
  <1> SUFFICES ASSUME ServerInit
               PROVE  ServerTypesInv
    OBVIOUS
  <1>1. ws \in BOOLEAN
    BY Zenon DEF ServerInit
  <1> QED
    BY <1>1, ServerStreamAssumption DEF ServerInit, ServerTypesInv, ServerTypeOK

\* Every step keeps the types; that nothing is ignored is what bounds the count of it.
LEMMA ServerTypesKeep ==
    ASSUME ServerInv, ServerInv', ServerTypesInv, ServerNext
    PROVE  ServerTypesInv'
  <1> USE ServerStreamAssumption DEF ServerTypesInv, ServerTypeOK
  <1>1. ws' \in BOOLEAN
    BY Zenon DEF ServerNext, ClientSends, ClientLeaves, Reader, ReadInit, ReadNothing, GiveUp,
       SetUp, Launch, Configure, Forward, ReaderEnds, Writer, WriteWs, WriterEof, CloseWs, Kill,
       TakeInit, TakeMessage, StreamerSpeaks, SendFrame, Speak, SendStop, StopExits, Panic, Exit
  <1>2. ignored' \in 0..MaxClient
    BY DEF ServerInv, NothingIgnored
  <1>3. fromClient' \in Seq(ClientMessages) /\ said' \in 0..MaxClient
    <2>1. ASSUME NEW kind \in ClientKinds, ClientSends(kind)
          PROVE  fromClient' \in Seq(ClientMessages) /\ said' \in 0..MaxClient
      <3> DEFINE m == [kind |-> kind, n |-> said + 1]
      <3>1. m \in ClientMessages /\ said + 1 \in 0..MaxClient
        BY <2>1 DEF ClientSends, ClientMessages
      <3>2. fromClient' = Append(fromClient, m) /\ said' = said + 1
        BY <2>1 DEF ClientSends
      <3> HIDE DEF m
      <3> QED
        BY <3>1, <3>2
    <2>2. fromClient # <<>> => Tail(fromClient) \in Seq(ClientMessages)
      OBVIOUS
    <2>3. (\A kind \in ClientKinds : ~ClientSends(kind)) =>
            /\ said' = said
            /\ UNCHANGED fromClient \/ (fromClient # <<>> /\ fromClient' = Tail(fromClient))
      BY Zenon DEF ServerNext, ClientLeaves, Reader, ReadInit, ReadNothing, GiveUp,
         SetUp, Launch, Configure, Forward, ReaderEnds, Writer, WriteWs, WriterEof, CloseWs, Kill,
         TakeInit, TakeMessage, StreamerSpeaks, SendFrame, Speak, SendStop, StopExits, Panic, Exit,
         client
    <2>4. fromClient \in Seq(ClientMessages) /\ said \in 0..MaxClient
      OBVIOUS
    <2> QED
      BY <2>1, <2>2, <2>3, <2>4, Zenon
  <1>4. /\ reader' \in {"init", "setup", "launch", "configure", "forward", "ended"}
        /\ writer' \in {"none", "forward", "close", "kill", "ended"}
        /\ streamer' \in {"none", "waiting", "running", "stopping", "gone"}
        /\ transport' \in {"none", "peer", "frames"}
    <2>1. reader' \in {reader, "setup", "launch", "configure", "forward", "ended"}
      BY DEF ServerNext, ClientSends, ClientLeaves, Reader, ReadInit, ReadNothing, GiveUp,
         SetUp, Launch, Configure, Forward, ReaderEnds, Writer, WriteWs, WriterEof, CloseWs, Kill,
         TakeInit, TakeMessage, StreamerSpeaks, SendFrame, Speak, SendStop, StopExits, Panic, Exit,
         client, process
    <2>2. writer' \in {writer, "forward", "close", "kill", "ended"}
      BY DEF ServerNext, ClientSends, ClientLeaves, Reader, ReadInit, ReadNothing, GiveUp,
         SetUp, Launch, Configure, Forward, ReaderEnds, Writer, WriteWs, WriterEof, CloseWs, Kill,
         TakeInit, TakeMessage, StreamerSpeaks, SendFrame, Speak, SendStop, StopExits, Panic, Exit,
         client, process
    <2>3. streamer' \in {streamer, "waiting", "running", "stopping", "gone"}
      BY DEF ServerNext, ClientSends, ClientLeaves, Reader, ReadInit, ReadNothing, GiveUp,
         SetUp, Launch, Configure, Forward, ReaderEnds, Writer, WriteWs, WriterEof, CloseWs, Kill,
         TakeInit, TakeMessage, StreamerSpeaks, SendFrame, Speak, SendStop, StopExits, Panic, Exit,
         client, process
    <2>4. transport' \in {transport, "peer", "frames"}
      BY DEF ServerNext, ClientSends, ClientLeaves, Reader, ReadInit, ReadNothing, GiveUp,
         SetUp, Launch, Configure, Forward, ReaderEnds, Writer, WriteWs, WriterEof, CloseWs, Kill,
         TakeInit, TakeMessage, StreamerSpeaks, SendFrame, Speak, SendStop, StopExits, Panic, Exit,
         client, process
    <2> QED
      BY <2>1, <2>2, <2>3, <2>4
  <1>5. toStreamer' \in Seq(ClientMessages)
    <2>1. /\ toStreamer # <<>> => Tail(toStreamer) \in Seq(ClientMessages)
          /\ <<>> \in Seq(ClientMessages) /\ toStreamer \in Seq(ClientMessages)
      OBVIOUS
    <2>2. CASE Configure
      <3>1. [kind |-> "init", n |-> 1] \in ClientMessages
        BY DEF ClientMessages, ClientKinds
      <3>2. Append(toStreamer, [kind |-> "init", n |-> 1]) \in Seq(ClientMessages)
        BY <3>1
      <3> QED
        BY <2>1, <2>2, <3>2, Zenon DEF Configure, SendIpc
    <2>3. CASE Forward
      <3>1. fromClient # <<>> /\ Head(fromClient) \in ClientMessages
        BY <2>3 DEF Forward
      <3>2. [Head(fromClient) EXCEPT !.kind = "text"] \in ClientMessages
        BY <3>1 DEF ClientMessages, ClientKinds
      <3>3. Append(toStreamer, [Head(fromClient) EXCEPT !.kind = "text"]) \in Seq(ClientMessages)
        BY <3>2
      <3> QED
        BY <2>1, <2>3, <3>3, Zenon DEF Forward, SendIpc
    <2>4. ~Configure /\ ~Forward =>
            \/ UNCHANGED toStreamer \/ toStreamer' = <<>>
            \/ toStreamer # <<>> /\ toStreamer' = Tail(toStreamer)
      BY Zenon DEF ServerNext, ClientSends, ClientLeaves, Reader, ReadInit, ReadNothing, GiveUp,
         SetUp, Launch, ReaderEnds, Writer, WriteWs, WriterEof, CloseWs, Kill,
         TakeInit, TakeMessage, StreamerSpeaks, SendFrame, Speak, SendStop, StopExits, Panic, Exit
    <2> QED
      BY <2>1, <2>2, <2>3, <2>4, Zenon
  <1>6. heard' \in 0..MaxClient
    <2>1. toStreamer # <<>> => Head(toStreamer).n \in 0..MaxClient
      <3>1. toStreamer # <<>> => Head(toStreamer) \in ClientMessages
        OBVIOUS
      <3> QED
        BY <3>1 DEF ClientMessages
    <2>2. 1 \in 0..MaxClient
      OBVIOUS
    <2>3. heard' = heard \/ heard' = 1 \/ (toStreamer # <<>> /\ heard' = Head(toStreamer).n)
      BY Zenon DEF ServerNext, ClientSends, ClientLeaves, Reader, ReadInit, ReadNothing, GiveUp,
         SetUp, Launch, Configure, Forward, ReaderEnds, Writer, WriteWs, WriterEof, CloseWs, Kill,
         TakeInit, TakeMessage, StreamerSpeaks, SendFrame, Speak, SendStop, StopExits, Panic, Exit,
         process
    <2> QED
      BY <2>1, <2>2, <2>3
  <1>7. ASSUME NEW kind \in {"text", "binary", "stop"}, Speak(kind),
               kind # "stop" => spoken < MaxStreamer, spoken <= MaxStreamer
        PROVE  toServer' \in Seq(Told) /\ spoken' \in 0..(MaxStreamer + 1)
    <2> DEFINE m == [kind |-> kind, n |-> spoken + 1]
    <2>1. m \in Told /\ spoken + 1 \in 0..(MaxStreamer + 1)
      BY <1>7 DEF Told, StreamerMessages
    <2>2. toServer' = Append(toServer, m) /\ spoken' = spoken + 1
      BY <1>7 DEF Speak
    <2> HIDE DEF m
    <2> QED
      BY <2>1, <2>2
  <1>8. toServer' \in Seq(Told) /\ spoken' \in 0..(MaxStreamer + 1)
    <2>1. CASE StreamerSpeaks \/ SendStop \/ (SendFrame /\ spoken < MaxStreamer)
      BY <1>7, <2>1 DEF StreamerSpeaks, SendStop, SendFrame
    <2>2. CASE SendFrame /\ ~(spoken < MaxStreamer)
      <3> DEFINE m == [kind |-> "binary", n |-> spoken]
      <3>1. spoken = MaxStreamer /\ toServer' = Append(toServer, m) /\ spoken' = spoken
        BY <2>2 DEF SendFrame
      <3>2. m \in Told
        BY <3>1 DEF Told, StreamerMessages
      <3> HIDE DEF m
      <3> QED
        BY <3>1, <3>2
    <2>3. CASE StopExits \/ Panic
      <3>1. PICK k \in 0..Len(toServer) : toServer' = SubSeq(toServer, 1, k) /\ spoken' = spoken
        BY <2>3 DEF StopExits, Panic, Exit
      <3> QED
        BY <3>1
    <2>4. CASE WriteWs
      <3>1. toServer # <<>> /\ toServer' = Tail(toServer) /\ spoken' = spoken
        BY <2>4 DEF WriteWs
      <3> QED
        BY <3>1
    <2>5. ~(StreamerSpeaks \/ SendStop \/ SendFrame \/ StopExits \/ Panic \/ WriteWs)
            => UNCHANGED <<toServer, spoken>>
      BY Zenon DEF ServerNext, ClientSends, ClientLeaves, Reader, ReadInit, ReadNothing, GiveUp,
         SetUp, Launch, Configure, Forward, ReaderEnds, Writer, WriterEof, CloseWs, Kill,
         TakeInit, TakeMessage
    <2> QED
      BY <2>1, <2>2, <2>3, <2>4, <2>5
  <1>9. toServer' \in Seq(StreamerMessages)
    BY <1>8 DEF Told
  <1>10. seen' \in 0..MaxStreamer
    <2>1. CASE WriteWs
      <3>1. toServer # <<>> /\ Head(toServer) \in Told
        BY <2>1 DEF WriteWs
      <3>2. Head(toServer).kind # "stop" => Head(toServer).n \in 0..MaxStreamer
        BY <3>1 DEF Told, StreamerMessages
      <3> QED
        BY <2>1, <3>2 DEF WriteWs
    <2>2. ~WriteWs => UNCHANGED seen
      BY Zenon DEF ServerNext, ClientSends, ClientLeaves, Reader, ReadInit, ReadNothing, GiveUp,
         SetUp, Launch, Configure, Forward, ReaderEnds, Writer, WriterEof, CloseWs, Kill,
         TakeInit, TakeMessage, StreamerSpeaks, SendFrame, Speak, SendStop, StopExits, Panic, Exit
    <2> QED
      BY <2>1, <2>2
  <1>11. spoken' > MaxStreamer => streamer' \in {"stopping", "gone"}
    <2>1. streamer \in {"stopping", "gone"} => streamer' \in {"stopping", "gone"}
      BY DEF ServerNext, ClientSends, ClientLeaves, Reader, ReadInit, ReadNothing, GiveUp,
         SetUp, Launch, Configure, Forward, ReaderEnds, Writer, WriteWs, WriterEof, CloseWs, Kill,
         TakeInit, TakeMessage, StreamerSpeaks, SendFrame, Speak, SendStop, StopExits, Panic, Exit,
         process, ServerInv, Progress
    <2>2. spoken' = spoken \/ (spoken < MaxStreamer /\ spoken' = spoken + 1) \/ streamer' = "stopping"
      BY Zenon DEF ServerNext, ClientSends, ClientLeaves, Reader, ReadInit, ReadNothing, GiveUp,
         SetUp, Launch, Configure, Forward, ReaderEnds, Writer, WriteWs, WriterEof, CloseWs, Kill,
         TakeInit, TakeMessage, StreamerSpeaks, SendFrame, Speak, SendStop, StopExits, Panic, Exit
    <2> QED
      BY <2>1, <2>2
  <1> QED
    BY <1>1, <1>2, <1>3, <1>4, <1>5, <1>6, <1>8, <1>9, <1>10, <1>11

\* A behaviour of both is one of each: the other one's steps are stutters.
THEOREM EachBehavesAlone == BothSpec => VideoSpec /\ ServerSpec
  <1>1. BothInit => VideoInit /\ ServerInit
    BY DEF BothInit
  <1>2. [BothNext]_allVars => [VideoNext]_videoVars /\ [ServerNext]_serverVars
    BY Zenon DEF BothNext, TrackNext, RequestNext, allVars
  <1> QED
    BY <1>1, <1>2, PTL DEF BothSpec, VideoSpec, ServerSpec

\* Every variable of the track and of the request keeps its type.
THEOREM BothTypes == BothSpec => []TypesOK
  <1>1. ASSUME ServerInv, ServerInv', ServerTypesInv, [ServerNext]_serverVars
        PROVE  ServerTypesInv'
    <2>1. CASE UNCHANGED serverVars
      BY <1>1, <2>1 DEF serverVars, client, process, ServerTypesInv, ServerTypeOK
    <2> QED
      BY <1>1, <2>1, ServerTypesKeep
  <1>2. ServerSpec => []ServerTypesInv
    BY InitServerTypes, ServerInductive, <1>1, PTL DEF ServerSpec
  <1>3. VideoInv /\ ServerTypesInv => TypesOK
    BY DEF VideoInv, ServerTypesInv, TypesOK
  <1> QED
    BY EachBehavesAlone, VideoInductive, <1>2, <1>3, PTL
===============================================================================
