---------------------------- MODULE RelayProofs ----------------------------
(***************************************************************************)
(* TLAPS proofs about Relay, for every stream length, channel capacity,    *)
(* cache size, loss budget and set of faults.                              *)
(***************************************************************************)
EXTENDS Relay, TLAPS

\* The tasks of an end do not exist before its handler spawns them, and a
\* reader that has seen its peer's EOF only has the marker left to publish.
TaskInv ==
  /\ phase["imp"] \in {"init", "declared", "gate", "initial", "listen"} =>
       rd["up"] = "off" /\ wr["down"] = "off"
  /\ phase["exp"] \in {"absent", "dialing", "dialed", "subscribed"} =>
       rd["down"] = "off" /\ wr["up"] = "off"
  /\ \A d \in Dir : eofAt[d] # 0 =>
       rd[d] \notin {"off", "idle"} /\ (rd[d] = "putting" => read[d] = eofAt[d])

\* The last sample a reader has published, or has failed to publish.
Last(d) == IF rd[d] = "putting" THEN read[d] - 1 ELSE read[d]

\* A pipeline: delivered D, the sample h in the writer's hand when w holds,
\* the channel C, the samples W in flight, and the last published sample p.
Increasing(s) == \A i, j \in 1..Len(s) : i < j => s[i] < s[j]
Below(s, t)   == \A i \in 1..Len(s) : \A j \in 1..Len(t) : s[i] < t[j]
UpTo(s, n)    == \A i \in 1..Len(s) : s[i] <= n
AllBelow(s, n) == \A i \in 1..Len(s) : s[i] < n
AllAbove(s, n) == \A i \in 1..Len(s) : n < s[i]

\* It is strictly increasing from end to end.
Ordered(D, w, h, C, W, p) ==
  /\ Increasing(D) /\ Increasing(C) /\ Increasing(W)
  /\ Below(D, C) /\ Below(D, W) /\ Below(C, W)
  /\ UpTo(D, p) /\ UpTo(C, p) /\ UpTo(W, p)
  /\ w => h <= p /\ AllBelow(D, h) /\ AllAbove(C, h) /\ AllAbove(W, h)

\* It is the stream 1, 2, 3, ... cut into pieces.
Base(D, w) == Len(D) + (IF w THEN 1 ELSE 0)
Count(D)   == \A i \in 1..Len(D) : D[i] = i
Contiguous(D, w, h, C) ==
  /\ Count(D)
  /\ w => h = Len(D) + 1
  /\ \A i \in 1..Len(C) : C[i] = Base(D, w) + i
Follows(D, w, C, W) == \A i \in 1..Len(W) : W[i] = Base(D, w) + Len(C) + i
Reaches(D, w, C, W, p) == p = Base(D, w) + Len(C) + Len(W)

Writing(d) == wr[d] = "writing"

OrderInv(d) ==
  Ordered(delivered[d], Writing(d), hand[d], chan[d], wire[d], Last(d))

\* A direction no sample of which has been dropped so far.
Clean(d) == Stream /\ ~cancel[Rcv(d)] /\ ~silent[d]

\* On a clean direction delivered, hand, chan and wire concatenate to the
\* stream, up to what was published, until the writer ends or Zenoh loses.
PipeInv(d) ==
  /\ Count(delivered[d])
  /\ wr[d] \notin TaskEnd =>
       /\ Contiguous(delivered[d], Writing(d), hand[d], chan[d])
       /\ ~gap[d] =>
            /\ Follows(delivered[d], Writing(d), chan[d], wire[d])
            /\ rd[d] \notin TaskEnd =>
                 Reaches(delivered[d], Writing(d), chan[d], wire[d], Last(d))

-----------------------------------------------------------------------------
(* Sequences.                                                              *)

\* Appending a sample: the length grows by one, the old samples stay.
LEMMA AppendFacts ==
  ASSUME NEW s \in Seq(Nat), NEW n \in Nat
  PROVE  /\ Append(s, n) \in Seq(Nat)
         /\ Append(s, n) # <<>>
         /\ Len(Append(s, n)) = Len(s) + 1
         /\ Append(s, n)[Len(s) + 1] = n
         /\ \A i \in 1..Len(s) : Append(s, n)[i] = s[i]
  OBVIOUS

\* Taking the first sample of a nonempty queue.
LEMMA TailFacts ==
  ASSUME NEW s \in Seq(Nat), s # <<>>
  PROVE  /\ Tail(s) \in Seq(Nat)
         /\ Len(s) \in Nat /\ Len(s) > 0
         /\ Len(Tail(s)) = Len(s) - 1
         /\ Head(s) = s[1] /\ s[1] \in Nat
         /\ \A i \in 1..(Len(s) - 1) : Tail(s)[i] = s[i + 1]
  OBVIOUS

\* The ends and the directions of the connection.
LEMMA EndFacts ==
  /\ Snd("up") = "imp" /\ Rcv("up") = "exp"
  /\ Snd("down") = "exp" /\ Rcv("down") = "imp"
  /\ ReadDir("imp") = "up" /\ WriteDir("imp") = "down"
  /\ ReadDir("exp") = "down" /\ WriteDir("exp") = "up"
  BY DEF Snd, Rcv, ReadDir, WriteDir

-----------------------------------------------------------------------------
(* Order and bounds of the samples of a queue.                             *)

\* What holds of the samples of a queue holds of the queue without its head.
LEMMA TailOrder ==
  ASSUME NEW s \in Seq(Nat), s # <<>>
  PROVE  /\ Increasing(s) => Increasing(Tail(s)) /\ AllAbove(Tail(s), Head(s))
         /\ \A n \in Int : UpTo(s, n) => UpTo(Tail(s), n) /\ Head(s) <= n
         /\ \A n \in Nat : AllAbove(s, n) => AllAbove(Tail(s), n) /\ n < Head(s)
         /\ \A t \in Seq(Nat) :
              /\ Below(t, s) => Below(t, Tail(s)) /\ AllBelow(t, Head(s))
              /\ Below(s, t) => Below(Tail(s), t) /\ AllAbove(t, Head(s))
<1>1. /\ Len(Tail(s)) = Len(s) - 1 /\ Len(s) \in Nat /\ 1 \in 1..Len(s)
      /\ Head(s) = s[1]
      /\ \A i \in 1..Len(Tail(s)) : /\ i + 1 \in 1..Len(s) /\ 1 < i + 1
                                    /\ Tail(s)[i] = s[i + 1]
  BY TailFacts
<1>2. \A i \in 1..Len(s) : s[i] \in Nat
  OBVIOUS
<1>3. Increasing(s) => Increasing(Tail(s)) /\ AllAbove(Tail(s), Head(s))
  BY <1>1, <1>2 DEF Increasing, AllAbove
<1>4. \A n \in Int : UpTo(s, n) => UpTo(Tail(s), n) /\ Head(s) <= n
  BY <1>1, <1>2 DEF UpTo
<1>5. \A n \in Nat : AllAbove(s, n) => AllAbove(Tail(s), n) /\ n < Head(s)
  BY <1>1, <1>2 DEF AllAbove
<1>6. ASSUME NEW t \in Seq(Nat), Below(t, s)
      PROVE  Below(t, Tail(s)) /\ AllBelow(t, Head(s))
  BY <1>1, <1>6 DEF Below, AllBelow
<1>7. ASSUME NEW t \in Seq(Nat), Below(s, t)
      PROVE  Below(Tail(s), t) /\ AllAbove(t, Head(s))
  BY <1>1, <1>7 DEF Below, AllAbove
<1>8. QED
  BY <1>3, <1>4, <1>5, <1>6, <1>7

\* A queue with one more sample.
LEMMA AppendOrder ==
  ASSUME NEW s \in Seq(Nat), NEW n \in Nat
  PROVE  /\ Increasing(s) /\ AllBelow(s, n) => Increasing(Append(s, n))
         /\ \A m \in Int : UpTo(s, m) /\ n <= m => UpTo(Append(s, n), m)
         /\ \A m \in Nat : AllAbove(s, m) /\ m < n => AllAbove(Append(s, n), m)
         /\ \A t \in Seq(Nat) :
              /\ Below(t, s) /\ AllBelow(t, n) => Below(t, Append(s, n))
              /\ Below(s, t) /\ AllAbove(t, n) => Below(Append(s, n), t)
<1> DEFINE a == Append(s, n)
<1>1. /\ Len(a) = Len(s) + 1 /\ Len(s) \in Nat
      /\ \A i \in 1..Len(a) : \/ i \in 1..Len(s) /\ a[i] = s[i]
                              \/ i = Len(s) + 1 /\ a[i] = n
  BY AppendFacts
<1>2. \A i \in 1..Len(s) : s[i] \in Nat
  OBVIOUS
<1> HIDE DEF a
<1>3. Increasing(s) /\ AllBelow(s, n) => Increasing(a)
  BY <1>1, <1>2 DEF Increasing, AllBelow
<1>4. \A m \in Int : UpTo(s, m) /\ n <= m => UpTo(a, m)
  BY <1>1, <1>2 DEF UpTo
<1>5. \A m \in Nat : AllAbove(s, m) /\ m < n => AllAbove(a, m)
  BY <1>1, <1>2 DEF AllAbove
<1>6. ASSUME NEW t \in Seq(Nat), Below(t, s), AllBelow(t, n)
      PROVE  Below(t, a)
  BY <1>1, <1>6 DEF Below, AllBelow
<1>7. ASSUME NEW t \in Seq(Nat), Below(s, t), AllAbove(t, n)
      PROVE  Below(a, t)
  BY <1>1, <1>7 DEF Below, AllAbove
<1>8. QED
  BY <1>3, <1>4, <1>5, <1>6, <1>7 DEF a

\* A bound below n + 1, and bounds above a bound.
LEMMA UpToFacts ==
  ASSUME NEW s \in Seq(Nat), NEW p \in Int, UpTo(s, p)
  PROVE  /\ \A q \in Int : p <= q => UpTo(s, q)
         /\ \A n \in Nat : n = p + 1 => AllBelow(s, n)
  BY DEF UpTo, AllBelow

-----------------------------------------------------------------------------
(* One step of an ordered pipeline.                                        *)

\* The last published sample may grow.
LEMMA OrderedGrow ==
  ASSUME NEW D \in Seq(Nat), NEW w, NEW h \in Nat, NEW C \in Seq(Nat),
         NEW W \in Seq(Nat), NEW p \in Int, NEW q \in Int, p <= q,
         Ordered(D, w, h, C, W, p)
  PROVE  Ordered(D, w, h, C, W, q)
  BY UpToFacts DEF Ordered

\* The writer may let go of what is in its hand.
LEMMA OrderedDrop ==
  ASSUME NEW D, NEW w, NEW h, NEW k, NEW C, NEW W, NEW p,
         Ordered(D, w, h, C, W, p)
  PROVE  Ordered(D, FALSE, k, C, W, p)
  BY DEF Ordered

\* The first sample in flight may be lost or discarded.
LEMMA OrderedLose ==
  ASSUME NEW D \in Seq(Nat), NEW w, NEW h \in Nat, NEW C \in Seq(Nat),
         NEW W \in Seq(Nat), NEW p \in Int, W # <<>>,
         Ordered(D, w, h, C, W, p)
  PROVE  Ordered(D, w, h, C, Tail(W), p)
  BY TailOrder DEF Ordered

\* All that is in flight may vanish.
LEMMA OrderedClear ==
  ASSUME NEW D, NEW w, NEW h, NEW C, NEW W, NEW p,
         Ordered(D, w, h, C, W, p)
  PROVE  Ordered(D, w, h, C, <<>>, p)
  BY DEF Ordered, Increasing, Below, UpTo, AllAbove

\* The next sample is published.
LEMMA OrderedPut ==
  ASSUME NEW D \in Seq(Nat), NEW w, NEW h \in Nat, NEW C \in Seq(Nat),
         NEW W \in Seq(Nat), NEW p \in Int, NEW n \in Nat, n = p + 1,
         Ordered(D, w, h, C, W, p)
  PROVE  Ordered(D, w, h, C, Append(W, n), n)
<1>1. AllBelow(D, n) /\ AllBelow(C, n) /\ AllBelow(W, n)
  BY UpToFacts DEF Ordered
<1>2. UpTo(D, n) /\ UpTo(C, n) /\ UpTo(W, n)
  BY UpToFacts DEF Ordered
<1>3. w => h < n
  BY DEF Ordered
<1>4. QED
  BY <1>1, <1>2, <1>3, AppendOrder DEF Ordered

\* The first sample in flight enters the channel.
LEMMA OrderedEnqueue ==
  ASSUME NEW D \in Seq(Nat), NEW w, NEW h \in Nat, NEW C \in Seq(Nat),
         NEW W \in Seq(Nat), NEW p \in Int, W # <<>>,
         Ordered(D, w, h, C, W, p)
  PROVE  Ordered(D, w, h, Append(C, Head(W)), Tail(W), p)
<1>1. Head(W) \in Nat /\ Tail(W) \in Seq(Nat)
  BY TailFacts
<1>2. /\ AllBelow(D, Head(W)) /\ AllBelow(C, Head(W))
      /\ AllAbove(Tail(W), Head(W)) /\ Head(W) <= p /\ (w => h < Head(W))
  BY TailOrder DEF Ordered
<1>3. Ordered(D, w, h, C, Tail(W), p)
  BY OrderedLose
<1>4. QED
  BY <1>1, <1>2, <1>3, AppendOrder DEF Ordered

\* The writer takes the first sample of the channel.
LEMMA OrderedTake ==
  ASSUME NEW D \in Seq(Nat), NEW h \in Nat, NEW C \in Seq(Nat),
         NEW W \in Seq(Nat), NEW p \in Int, C # <<>>,
         Ordered(D, FALSE, h, C, W, p)
  PROVE  Ordered(D, TRUE, Head(C), Tail(C), W, p)
  BY TailOrder DEF Ordered

\* The writer has written the sample in its hand.
LEMMA OrderedWrite ==
  ASSUME NEW D \in Seq(Nat), NEW h \in Nat, NEW k, NEW C \in Seq(Nat),
         NEW W \in Seq(Nat), NEW p \in Int,
         Ordered(D, TRUE, h, C, W, p)
  PROVE  Ordered(Append(D, h), FALSE, k, C, W, p)
  BY AppendOrder DEF Ordered

-----------------------------------------------------------------------------
(* Type correctness.                                                       *)

\* Publishing keeps the type of what is in flight.
LEMMA PublishType ==
  ASSUME TypeOK, NEW d \in Dir, NEW n \in Nat, Publish(d, n)
  PROVE  wire' \in [Dir -> Seq(Nat)] /\ silent' \in [Dir -> BOOLEAN]
<1> DEFINE s == Append(wire[d], n)
<1>1. s \in Seq(Nat) /\ s # <<>>
  BY AppendFacts DEF TypeOK
<1>2. Tail(s) \in Seq(Nat)
  BY <1>1, TailFacts
<1>3. QED
  BY <1>1, <1>2 DEF Publish, TypeOK

\* Every variable keeps its type: in particular the import and the export
\* handler each stay within their own phases (import/bridge.rs, export/bridge.rs).
THEOREM TypeCorrect == Spec => []TypeOK
<1>1. Init => TypeOK
  <2> SUFFICES ASSUME Init PROVE TypeOK
    OBVIOUS
  <2>1. /\ phase \in [End -> ImpPhase \cup ExpPhase]
        /\ phase["imp"] \in ImpPhase /\ phase["exp"] \in ExpPhase
        /\ outcome \in [End -> Outcome] /\ cancel \in [End -> BOOLEAN]
    BY DEF Init, ImpPhase, ExpPhase, Outcome, End
  <2>2. /\ rd \in [Dir -> RdState] /\ wr \in [Dir -> WrState]
        /\ sink \in [Dir -> SinkState]
    BY DEF Init, RdState, WrState, SinkState
  <2>3. /\ read \in [Dir -> Nat] /\ eofAt \in [Dir -> Nat]
        /\ hand \in [Dir -> Nat] /\ losses \in Nat
    BY DEF Init
  <2>4. /\ wire \in [Dir -> Seq(Nat)] /\ chan \in [Dir -> Seq(Nat)]
        /\ delivered \in [Dir -> Seq(Nat)]
    BY DEF Init
  <2>5. /\ pub \in [Dir -> BOOLEAN] /\ sub \in [Dir -> BOOLEAN]
        /\ listen \in [Dir -> BOOLEAN] /\ gap \in [Dir -> BOOLEAN]
        /\ silent \in [Dir -> BOOLEAN]
    BY DEF Init
  <2>6. QED
    BY <2>1, <2>2, <2>3, <2>4, <2>5 DEF Init, TypeOK
<1>2. TypeOK /\ [Next]_vars => TypeOK'
  <2> SUFFICES ASSUME TypeOK, [Next]_vars
               PROVE  TypeOK'
    OBVIOUS
  <2>1. ASSUME NEW d \in Dir, Lose(d) PROVE TypeOK'
    BY <2>1 DEF Lose, TypeOK, ctlVars, sndVars, zVars, rcvVars
  <2>2. ASSUME NEW d \in Dir, ReportMiss(d) PROVE TypeOK'
    BY <2>2 DEF ReportMiss, TypeOK, ctlVars, sndVars, zVars, rcvVars, Cancel,
       Rcv, End
  <2>3. ASSUME NEW d \in Dir, Deliver(d) PROVE TypeOK'
    <3>1. Tail(wire[d]) \in Seq(Nat) /\ Head(wire[d]) \in Nat
      BY <2>3, TailFacts DEF Deliver, TypeOK
    <3>2. Append(chan[d], Head(wire[d])) \in Seq(Nat)
      BY <3>1, AppendFacts DEF TypeOK
    <3>3. chan' \in [Dir -> Seq(Nat)] /\ cancel' \in [End -> BOOLEAN]
      BY <2>3, <3>2 DEF Deliver, TypeOK, Cancel, Rcv, End
    <3>4. QED
      BY <2>3, <3>1, <3>3 DEF Deliver, TypeOK, ctlVars, sndVars, zVars, rcvVars
  <2>4. ASSUME NEW d \in Dir, ReadData(d) PROVE TypeOK'
    BY <2>4 DEF ReadData, TypeOK, ctlVars, sndVars, zVars, rcvVars, RdState,
       TaskEnd
  <2>5. ASSUME NEW d \in Dir, ReadEof(d) PROVE TypeOK'
    BY <2>5 DEF ReadEof, TypeOK, ctlVars, sndVars, zVars, rcvVars, RdState,
       TaskEnd
  <2>6. ASSUME NEW d \in Dir, PutOk(d) PROVE TypeOK'
    <3>1. wire' \in [Dir -> Seq(Nat)] /\ silent' \in [Dir -> BOOLEAN]
      BY <2>6, PublishType DEF PutOk, TypeOK
    <3>2. QED
      BY <2>6, <3>1 DEF PutOk, TypeOK, ctlVars, sndVars, zVars, rcvVars,
         RdState, TaskEnd
  <2>7. ASSUME NEW d \in Dir, PutErr(d) PROVE TypeOK'
    BY <2>7 DEF PutErr, TypeOK, ctlVars, sndVars, zVars, rcvVars, RdState,
       TaskEnd, Cancel, Snd, End
  <2>8. ASSUME NEW d \in Dir, ReadErr(d) PROVE TypeOK'
    BY <2>8 DEF ReadErr, TypeOK, ctlVars, sndVars, zVars, rcvVars, RdState,
       TaskEnd, Cancel, Snd, End
  <2>9. ASSUME NEW d \in Dir, ReaderCancelled(d) PROVE TypeOK'
    BY <2>9 DEF ReaderCancelled, TypeOK, ctlVars, sndVars, zVars, rcvVars,
       RdState, TaskEnd
  <2>10. ASSUME NEW d \in Dir, Take(d) PROVE TypeOK'
    BY <2>10 DEF Take, TypeOK, ctlVars, sndVars, zVars, rcvVars, WrState,
       TaskEnd
  <2>11. ASSUME NEW d \in Dir, WriteOk(d) PROVE TypeOK'
    <3>1. Append(delivered[d], hand[d]) \in Seq(Nat)
      BY AppendFacts DEF TypeOK
    <3>2. delivered' \in [Dir -> Seq(Nat)]
      BY <2>11, <3>1 DEF WriteOk, TypeOK
    <3>3. sink' \in [Dir -> SinkState] /\ wr' \in [Dir -> WrState]
      BY <2>11 DEF WriteOk, TypeOK, WrState, TaskEnd, SinkState
    <3>4. hand' \in [Dir -> Nat]
      BY <2>11 DEF WriteOk, TypeOK
    <3>5. QED
      BY <2>11, <3>2, <3>3, <3>4 DEF WriteOk, TypeOK, ctlVars, sndVars,
         zVars, rcvVars
  <2>12. ASSUME NEW d \in Dir, WriteErr(d) PROVE TypeOK'
    BY <2>12 DEF WriteErr, TypeOK, ctlVars, sndVars, zVars, rcvVars, WrState,
       TaskEnd, SinkState, Cancel, Rcv, End
  <2>13. ASSUME NEW d \in Dir, ChannelClosed(d) PROVE TypeOK'
    BY <2>13 DEF ChannelClosed, TypeOK, ctlVars, sndVars, zVars, rcvVars,
       WrState, TaskEnd, SinkState, Cancel, Rcv, End
  <2>14. ASSUME NEW d \in Dir, WriterCancelled(d) PROVE TypeOK'
    BY <2>14 DEF WriterCancelled, TypeOK, ctlVars, sndVars, zVars, rcvVars,
       WrState, TaskEnd, SinkState
  <2>15. ASSUME NEW e \in End, Watchdog(e) PROVE TypeOK'
    BY <2>15 DEF Watchdog, TypeOK, ctlVars, sndVars, zVars, rcvVars, RdState,
       WrState, TaskEnd, SinkState, ReadDir, WriteDir, Dir
  <2>16. ASSUME ImpDeclare PROVE TypeOK'
    BY <2>16 DEF ImpDeclare, TypeOK, ctlVars, sndVars, zVars, rcvVars, Goto,
       End, ImpPhase, ExpPhase, Dir
  <2>17. ASSUME ImpToken PROVE TypeOK'
    BY <2>17 DEF ImpToken, TypeOK, ctlVars, sndVars, zVars, rcvVars, Goto,
       End, ImpPhase, ExpPhase
  <2>18. ASSUME ImpGate PROVE TypeOK'
    BY <2>18 DEF ImpGate, TypeOK, ctlVars, sndVars, zVars, rcvVars, Goto, End,
       ImpPhase, ExpPhase
  <2>19. ASSUME ImpInitialPut PROVE TypeOK'
    <3>1. /\ wire' \in [Dir -> Seq(Nat)] /\ silent' \in [Dir -> BOOLEAN]
          /\ read' \in [Dir -> Nat]
      BY <2>19, PublishType DEF ImpInitialPut, TypeOK, Dir
    <3>2. QED
      BY <2>19, <3>1 DEF ImpInitialPut, TypeOK, ctlVars, sndVars, zVars,
         rcvVars,
         Goto, End, ImpPhase, ExpPhase
  <2>20. ASSUME ImpStart PROVE TypeOK'
    BY <2>20, RelayAssumption DEF ImpStart, TypeOK, ctlVars, sndVars, zVars,
       rcvVars, Goto, End, ImpPhase, ExpPhase, Spawn, ReadDir, WriteDir, Dir,
       RdState, WrState
  <2>21. ASSUME ImpFail PROVE TypeOK'
    BY <2>21 DEF ImpFail, TypeOK, ctlVars, sndVars, zVars, rcvVars, Goto, End,
       ImpPhase, ExpPhase, Undeclare, ReadDir, WriteDir, Dir, WrState,
       TaskEnd, SinkState
  <2>22. ASSUME ImpErrorSignal PROVE TypeOK'
    BY <2>22 DEF ImpErrorSignal, TypeOK, ctlVars, sndVars, zVars, rcvVars,
       Cancel, End
  <2>23. ASSUME ImpShutdown PROVE TypeOK'
    BY <2>23 DEF ImpShutdown, TypeOK, ctlVars, sndVars, zVars, rcvVars,
       Cancel, End
  <2>24. ASSUME ImpJoin PROVE TypeOK'
    BY <2>24 DEF ImpJoin, TypeOK, ctlVars, sndVars, zVars, rcvVars, Goto, End,
       ImpPhase, ExpPhase, Undeclare, ReadDir, WriteDir, Dir
  <2>25. ASSUME ImpFinish PROVE TypeOK'
    BY <2>25 DEF ImpFinish, TypeOK, ctlVars, sndVars, zVars, rcvVars, Goto,
       End, ImpPhase, ExpPhase, Outcome
  <2>26. ASSUME ExpConnect PROVE TypeOK'
    BY <2>26 DEF ExpConnect, TypeOK, ctlVars, sndVars, zVars, rcvVars, Goto,
       End, ImpPhase, ExpPhase
  <2>27. ASSUME ExpTokenGone PROVE TypeOK'
    BY <2>27 DEF ExpTokenGone, TypeOK, ctlVars, sndVars, zVars, rcvVars
  <2>28. ASSUME ExpDrain PROVE TypeOK'
    BY <2>28 DEF ExpDrain, TypeOK, ctlVars, sndVars, zVars, rcvVars
  <2>29. ASSUME ExpDialOk PROVE TypeOK'
    BY <2>29 DEF ExpDialOk, TypeOK, ctlVars, sndVars, zVars, rcvVars, Goto,
       End, ImpPhase, ExpPhase
  <2>30. ASSUME ExpDialCancelled PROVE TypeOK'
    BY <2>30 DEF ExpDialCancelled, TypeOK, ctlVars, sndVars, zVars, rcvVars,
       Goto, End, ImpPhase, ExpPhase
  <2>31. ASSUME ExpSubscribe PROVE TypeOK'
    BY <2>31 DEF ExpSubscribe, TypeOK, ctlVars, sndVars, zVars, rcvVars, Goto,
       End, ImpPhase, ExpPhase, Dir
  <2>32. ASSUME ExpStart PROVE TypeOK'
    BY <2>32, RelayAssumption DEF ExpStart, TypeOK, ctlVars, sndVars, zVars,
       rcvVars, Goto, End, ImpPhase, ExpPhase, Spawn, ReadDir, WriteDir, Dir,
       RdState, WrState
  <2>33. ASSUME ExpFail PROVE TypeOK'
    BY <2>33 DEF ExpFail, TypeOK, ctlVars, sndVars, zVars, rcvVars, Goto, End,
       ImpPhase, ExpPhase, Undeclare, ReadDir, WriteDir, Dir, WrState,
       TaskEnd, SinkState
  <2>34. ASSUME ExpExtCancel PROVE TypeOK'
    BY <2>34 DEF ExpExtCancel, TypeOK, ctlVars, sndVars, zVars, rcvVars,
       Cancel, End
  <2>35. ASSUME ExpJoin PROVE TypeOK'
    BY <2>35 DEF ExpJoin, TypeOK, ctlVars, sndVars, zVars, rcvVars, Goto, End,
       ImpPhase, ExpPhase, Undeclare, ReadDir, WriteDir, Dir, Outcome,
       fold_outcome
  <2>36. ASSUME ExpSignal PROVE TypeOK'
    BY <2>36 DEF ExpSignal, TypeOK, ctlVars, sndVars, zVars, rcvVars, Goto,
       End, ImpPhase, ExpPhase
  <2>37. ASSUME ExpSignalFail PROVE TypeOK'
    BY <2>37 DEF ExpSignalFail, TypeOK, ctlVars, sndVars, zVars, rcvVars,
       Goto, End, ImpPhase, ExpPhase
  <2>38. ASSUME Terminated PROVE TypeOK'
    BY <2>38 DEF Terminated, TypeOK, ctlVars, sndVars, zVars, rcvVars, vars
  <2>39. ASSUME UNCHANGED vars PROVE TypeOK'
    BY <2>39 DEF TypeOK, vars, ctlVars, sndVars, zVars, rcvVars
  <2> QED
    BY <2>1, <2>2, <2>3, <2>4, <2>5, <2>6, <2>7, <2>8, <2>9, <2>10, <2>11,
       <2>12, <2>13, <2>14, <2>15, <2>16, <2>17, <2>18, <2>19, <2>20, <2>21,
       <2>22, <2>23, <2>24, <2>25, <2>26, <2>27, <2>28, <2>29, <2>30, <2>31,
       <2>32, <2>33, <2>34, <2>35, <2>36, <2>37, <2>38, <2>39
    DEF Next, Zenoh, Reader, Writer, Import, Export
<1>3. QED
  BY <1>1, <1>2, PTL DEF Spec

-----------------------------------------------------------------------------
(* What a step can do to one direction: move a sample, or leave it alone.  *)

\* Nothing moves: task states and tokens may change, and what is in flight may
\* vanish if the direction is not clean or its writer has ended.
Frame(c) ==
  /\ delivered'[c] = delivered[c]
  /\ chan'[c] = chan[c]
  /\ \/ wire'[c] = wire[c]
     \/ wire'[c] = <<>> /\ (Clean(c)' => wr'[c] \in TaskEnd)
  /\ wr'[c] \notin TaskEnd =>
       /\ wr[c] \notin TaskEnd
       /\ Writing(c)' <=> Writing(c)
       /\ hand'[c] = hand[c]
  /\ rd'[c] \notin TaskEnd => rd[c] \notin TaskEnd /\ Last(c)' = Last(c)
  /\ Last(c) <= Last(c)'
  /\ Clean(c)' => Clean(c) /\ gap'[c] = gap[c]

\* The sample after the last one is published.
Puts(c) ==
  /\ \E n \in Nat : n = Last(c) + 1 /\ Last(c)' = n /\ Publish(c, n)
  /\ rd[c] \notin TaskEnd
  /\ UNCHANGED <<delivered, chan, hand, wr, cancel, gap>>

Moves(c) == Lose(c) \/ Deliver(c) \/ Take(c) \/ WriteOk(c) \/ Puts(c)

\* Tripping a token keeps the others tripped.
LEMMA CancelFacts ==
  ASSUME TypeOK, NEW d \in Dir, Cancel(Rcv(d))
  PROVE  /\ cancel'[Rcv(d)]
         /\ \A c \in Dir : cancel[Rcv(c)] => cancel'[Rcv(c)]
<1>1. cancel \in [End -> BOOLEAN] /\ \A c \in Dir : Rcv(c) \in End
  BY DEF TypeOK, Rcv, Dir, End
<1>2. QED
  BY <1>1 DEF Cancel

\* Last(c) is an integer that only depends on the reader of c.
LEMMA LastFacts ==
  ASSUME TypeOK, TypeOK', NEW c \in Dir
  PROVE  /\ Last(c) \in Int /\ Last(c)' \in Int
         /\ rd'[c] = rd[c] /\ read'[c] = read[c] =>
              Last(c)' = Last(c) /\ Last(c) <= Last(c)'
         /\ rd[c] # "putting" /\ rd'[c] = "putting" /\ read'[c] = read[c] + 1 =>
              Last(c)' = Last(c) /\ Last(c) <= Last(c)'
<1>1. read[c] \in Nat /\ read'[c] \in Nat
  BY DEF TypeOK
<1>2. QED
  BY <1>1 DEF Last

\* Every step moves one sample of direction c or leaves c alone.
LEMMA FrameOrMove ==
  ASSUME TypeOK, TypeOK', TaskInv, [Next]_vars, NEW c \in Dir
  PROVE  Frame(c) \/ Moves(c)
<1>1. QED
  <2>1. ASSUME NEW d \in Dir, Lose(d) PROVE Frame(c) \/ Moves(c)
    <3>1. CASE c = d
      BY <2>1, <3>1 DEF Moves
    <3>2. CASE c # d
      BY <2>1, <3>2, EndFacts
      DEF Lose, Frame, Clean, Last, Writing, TypeOK,
          Cancel, Dir, End, ctlVars, sndVars, zVars, rcvVars
    <3>3. QED
      BY <3>1, <3>2
  <2>2. ASSUME NEW d \in Dir, ReportMiss(d) PROVE Frame(c) \/ Moves(c)
    <3>1. /\ delivered'[c] = delivered[c] /\ chan'[c] = chan[c]
          /\ wire'[c] = wire[c]
          /\ wr'[c] = wr[c] /\ hand'[c] = hand[c]
      BY <2>2 DEF ReportMiss, TypeOK, rcvVars
    <3>2. rd'[c] = rd[c] /\ read'[c] = read[c]
      BY <2>2 DEF ReportMiss, sndVars
    <3>3. CASE c = d
      <4>1. cancel'[Rcv(c)] \/ silent'[c]
        BY <2>2, <3>3, CancelFacts DEF ReportMiss, TypeOK
      <4>2. QED
        BY <3>1, <3>2, <4>1, LastFacts DEF Frame, Writing, Clean
    <3>4. CASE c # d
      <4>1. /\ gap'[c] = gap[c] /\ silent'[c] = silent[c]
            /\ cancel[Rcv(c)] => cancel'[Rcv(c)]
        BY <2>2, <3>4, CancelFacts DEF ReportMiss, TypeOK
      <4>2. QED
        BY <3>1, <3>2, <4>1, LastFacts DEF Frame, Writing, Clean
    <3>5. QED
      BY <3>3, <3>4
  <2>3. ASSUME NEW d \in Dir, Deliver(d) PROVE Frame(c) \/ Moves(c)
    <3>1. CASE c = d
      BY <2>3, <3>1 DEF Moves
    <3>2. CASE c # d
      <4>1. /\ delivered'[c] = delivered[c] /\ chan'[c] = chan[c]
            /\ wire'[c] = wire[c]
            /\ wr'[c] = wr[c] /\ hand'[c] = hand[c]
        BY <2>3, <3>2 DEF Deliver, TypeOK, rcvVars
      <4>2. rd'[c] = rd[c] /\ read'[c] = read[c]
        BY <2>3 DEF Deliver, sndVars
      <4>3. /\ gap'[c] = gap[c] /\ silent'[c] = silent[c]
            /\ cancel[Rcv(c)] => cancel'[Rcv(c)]
        BY <2>3, CancelFacts DEF Deliver
      <4>4. QED
        BY <4>1, <4>2, <4>3, LastFacts DEF Frame, Writing, Clean
    <3>3. QED
      BY <3>1, <3>2
  <2>4. ASSUME NEW d \in Dir, ReadData(d) PROVE Frame(c) \/ Moves(c)
    <3>1. /\ delivered'[c] = delivered[c] /\ chan'[c] = chan[c]
          /\ wire'[c] = wire[c]
          /\ wr'[c] = wr[c] /\ hand'[c] = hand[c]
      BY <2>4 DEF ReadData, TypeOK, zVars, rcvVars
    <3>2. /\ rd[c] \notin TaskEnd \/ rd'[c] = rd[c]
          /\ Last(c)' = Last(c) /\ Last(c) <= Last(c)'
      <4>1. CASE c = d
        BY <2>4, <4>1, LastFacts DEF ReadData, Reading, TypeOK, TaskEnd
      <4>2. CASE c # d
        BY <2>4, <4>2, LastFacts DEF ReadData, TypeOK
      <4>3. QED
        BY <4>1, <4>2
    <3>3. UNCHANGED <<gap, silent, cancel>>
      BY <2>4 DEF ReadData, zVars
    <3>4. QED
      BY <3>1, <3>2, <3>3 DEF Frame, Writing, Clean
  <2>5. ASSUME NEW d \in Dir, ReadEof(d) PROVE Frame(c) \/ Moves(c)
    <3>1. /\ delivered'[c] = delivered[c] /\ chan'[c] = chan[c]
          /\ wire'[c] = wire[c]
          /\ wr'[c] = wr[c] /\ hand'[c] = hand[c]
      BY <2>5 DEF ReadEof, TypeOK, zVars, rcvVars
    <3>2. /\ rd[c] \notin TaskEnd \/ rd'[c] = rd[c]
          /\ Last(c)' = Last(c) /\ Last(c) <= Last(c)'
      <4>1. CASE c = d
        BY <2>5, <4>1, LastFacts DEF ReadEof, Reading, TypeOK, TaskEnd
      <4>2. CASE c # d
        BY <2>5, <4>2, LastFacts DEF ReadEof, TypeOK
      <4>3. QED
        BY <4>1, <4>2
    <3>3. UNCHANGED <<gap, silent, cancel>>
      BY <2>5 DEF ReadEof, zVars
    <3>4. QED
      BY <3>1, <3>2, <3>3 DEF Frame, Writing, Clean
  <2>6. ASSUME NEW d \in Dir, PutOk(d) PROVE Frame(c) \/ Moves(c)
    <3>1. CASE c = d
      <4>1. read[c] \in Nat /\ read[c] = Last(c) + 1 /\ Last(c)' = read[c]
        BY <2>6, <3>1 DEF PutOk, Last, TypeOK
      <4>2. QED
        BY <2>6, <3>1, <4>1 DEF PutOk, Moves, Puts, TaskEnd, rcvVars
    <3>2. CASE c # d
      BY <2>6, <3>2 DEF PutOk, Publish, Frame, Clean, Last, Writing,
         TypeOK, ctlVars, sndVars, zVars, rcvVars
    <3>3. QED
      BY <3>1, <3>2
  <2>7. ASSUME NEW d \in Dir, PutErr(d) PROVE Frame(c) \/ Moves(c)
    BY <2>7 DEF PutErr, Frame, Clean, Last, Writing, TypeOK, ctlVars, sndVars,
       zVars, rcvVars, Cancel, Snd, Rcv, Dir, End, TaskEnd
  <2>8. ASSUME NEW d \in Dir, ReadErr(d) PROVE Frame(c) \/ Moves(c)
    BY <2>8 DEF ReadErr, Frame, Clean, Last, Writing, TypeOK, ctlVars,
       sndVars, zVars, rcvVars, Cancel, Snd, Rcv, Dir, End, TaskEnd
  <2>9. ASSUME NEW d \in Dir, ReaderCancelled(d) PROVE Frame(c) \/ Moves(c)
    BY <2>9 DEF ReaderCancelled, Frame, Clean, Last, Writing, TypeOK, ctlVars,
       sndVars, zVars, rcvVars, TaskEnd
  <2>10. ASSUME NEW d \in Dir, Take(d) PROVE Frame(c) \/ Moves(c)
    <3>1. CASE c = d
      BY <2>10, <3>1 DEF Moves
    <3>2. CASE c # d
      BY <2>10, <3>2, EndFacts
      DEF Take, Frame, Clean, Last, Writing, TypeOK,
          Cancel, Dir, End, ctlVars, sndVars, zVars, rcvVars
    <3>3. QED
      BY <3>1, <3>2
  <2>11. ASSUME NEW d \in Dir, WriteOk(d) PROVE Frame(c) \/ Moves(c)
    <3>1. CASE c = d
      BY <2>11, <3>1 DEF Moves
    <3>2. CASE c # d
      BY <2>11, <3>2, EndFacts
      DEF WriteOk, Frame, Clean, Last, Writing, TypeOK,
          Cancel, Dir, End, ctlVars, sndVars, zVars, rcvVars
    <3>3. QED
      BY <3>1, <3>2
  <2>12. ASSUME NEW d \in Dir, WriteErr(d) PROVE Frame(c) \/ Moves(c)
    BY <2>12 DEF WriteErr, Frame, Clean, Last, Writing, TypeOK, ctlVars,
       sndVars, zVars, rcvVars, Cancel, Rcv, Dir, End, TaskEnd
  <2>13. ASSUME NEW d \in Dir, ChannelClosed(d) PROVE Frame(c) \/ Moves(c)
    BY <2>13 DEF ChannelClosed, Frame, Clean, Last, Writing, TypeOK, ctlVars,
       sndVars, zVars, rcvVars, Cancel, Rcv, Dir, End, TaskEnd
  <2>14. ASSUME NEW d \in Dir, WriterCancelled(d) PROVE Frame(c) \/ Moves(c)
    BY <2>14 DEF WriterCancelled, Frame, Clean, Last, Writing, TypeOK,
       ctlVars, sndVars, zVars, rcvVars, TaskEnd
  <2>15. ASSUME NEW e \in End, Watchdog(e) PROVE Frame(c) \/ Moves(c)
    BY <2>15 DEF Watchdog, Frame, Clean, Last, Writing, TypeOK, ctlVars,
       sndVars, zVars, rcvVars, ReadDir, WriteDir, TaskEnd, Dir, End
  <2>16. ASSUME ImpDeclare PROVE Frame(c) \/ Moves(c)
    <3>1. /\ delivered'[c] = delivered[c] /\ chan'[c] = chan[c]
          /\ wire'[c] = wire[c]
          /\ wr'[c] = wr[c] /\ hand'[c] = hand[c]
      BY <2>16 DEF ImpDeclare, TypeOK, rcvVars
    <3>2. rd'[c] = rd[c] /\ read'[c] = read[c]
      BY <2>16 DEF ImpDeclare, sndVars
    <3>3. UNCHANGED <<gap, silent, cancel>>
      BY <2>16 DEF ImpDeclare
    <3>4. QED
      BY <3>1, <3>2, <3>3, LastFacts DEF Frame, Writing, Clean
  <2>17. ASSUME ImpToken PROVE Frame(c) \/ Moves(c)
    BY <2>17 DEF ImpToken, Frame, Clean, Last, Writing, TypeOK, ctlVars,
       sndVars, zVars, rcvVars
  <2>18. ASSUME ImpGate PROVE Frame(c) \/ Moves(c)
    BY <2>18 DEF ImpGate, Frame, Clean, Last, Writing, TypeOK, ctlVars,
       sndVars, zVars, rcvVars
  <2>19. ASSUME ImpInitialPut PROVE Frame(c) \/ Moves(c)
    <3>1. CASE c = "up"
      <4>1. rd["up"] = "off" /\ rd'["up"] = "off"
        BY <2>19 DEF ImpInitialPut, TaskInv
      <4>2. /\ read["up"] + 1 \in Nat /\ Last("up") = read["up"]
            /\ Last("up")' = read["up"] + 1
        BY <2>19, <3>1, <4>1 DEF ImpInitialPut, Last, TypeOK
      <4>3. QED
        BY <2>19, <3>1, <4>1, <4>2 DEF ImpInitialPut, Moves, Puts,
           TaskEnd, rcvVars
    <3>2. CASE c = "down"
      <4>1. /\ wire'["down"] = wire["down"] /\ silent'["down"] = silent["down"]
            /\ read'["down"] = read["down"]
        BY <2>19 DEF ImpInitialPut, Publish, TypeOK, Dir
      <4>2. QED
        BY <2>19, <3>2, <4>1
        DEF ImpInitialPut, Frame, Clean, Last, Writing, TypeOK,
           Dir, ctlVars, sndVars, zVars, rcvVars
    <3>3. QED
      BY <3>1, <3>2 DEF Dir
  <2>20. ASSUME ImpStart PROVE Frame(c) \/ Moves(c)
    BY <2>20 DEF ImpStart, Frame, Clean, Last, Writing, TypeOK, ctlVars,
       sndVars, zVars, rcvVars, TaskInv, Spawn, ReadDir, WriteDir, Dir,
       TaskEnd
  <2>21. ASSUME ImpFail PROVE Frame(c) \/ Moves(c)
    <3>1. /\ delivered'[c] = delivered[c] /\ chan'[c] = chan[c]
          /\ hand'[c] = hand[c]
          /\ wr'[c] = wr[c] \/ wr'[c] \in TaskEnd
      BY <2>21 DEF ImpFail, TypeOK, TaskEnd, Dir, rcvVars
    <3>2. rd'[c] = rd[c] /\ Last(c)' = Last(c) /\ Last(c) \in Int
      BY <2>21 DEF ImpFail, Last, TypeOK, sndVars
    <3>3. Clean(c)' => Clean(c) /\ gap'[c] = gap[c]
      BY <2>21 DEF ImpFail, Undeclare, Clean, TypeOK, ReadDir, Dir
    <3>4. \/ wire'[c] = wire[c]
          \/ wire'[c] = <<>> /\ (silent'[c] \/ wr[c] \in TaskEnd)
      BY <2>21 DEF ImpFail, Undeclare, TypeOK, ReadDir, Dir
    <3>5. QED
      BY <3>1, <3>2, <3>3, <3>4 DEF Frame, Clean, Writing, TaskEnd
  <2>22. ASSUME ImpErrorSignal PROVE Frame(c) \/ Moves(c)
    BY <2>22 DEF ImpErrorSignal, Frame, Clean, Last, Writing, TypeOK, ctlVars,
       sndVars, zVars, rcvVars, Cancel, Rcv, Dir, End
  <2>23. ASSUME ImpShutdown PROVE Frame(c) \/ Moves(c)
    BY <2>23 DEF ImpShutdown, Frame, Clean, Last, Writing, TypeOK, ctlVars,
       sndVars, zVars, rcvVars, Cancel, Rcv, Dir, End
  <2>24. ASSUME ImpJoin PROVE Frame(c) \/ Moves(c)
    <3>1. /\ delivered'[c] = delivered[c] /\ chan'[c] = chan[c]
          /\ hand'[c] = hand[c]
          /\ wr'[c] = wr[c] \/ wr'[c] \in TaskEnd
      BY <2>24 DEF ImpJoin, TypeOK, TaskEnd, Dir, rcvVars
    <3>2. rd'[c] = rd[c] /\ Last(c)' = Last(c) /\ Last(c) \in Int
      BY <2>24 DEF ImpJoin, Last, TypeOK, sndVars
    <3>3. Clean(c)' => Clean(c) /\ gap'[c] = gap[c]
      BY <2>24 DEF ImpJoin, Undeclare, Clean, TypeOK, ReadDir, Dir
    <3>4. \/ wire'[c] = wire[c]
          \/ wire'[c] = <<>> /\ (silent'[c] \/ wr[c] \in TaskEnd)
      BY <2>24 DEF ImpJoin, Undeclare, TypeOK, ReadDir, Dir
    <3>5. QED
      BY <3>1, <3>2, <3>3, <3>4 DEF Frame, Clean, Writing, TaskEnd
  <2>25. ASSUME ImpFinish PROVE Frame(c) \/ Moves(c)
    BY <2>25 DEF ImpFinish, Frame, Clean, Last, Writing, TypeOK, ctlVars,
       sndVars, zVars, rcvVars
  <2>26. ASSUME ExpConnect PROVE Frame(c) \/ Moves(c)
    BY <2>26 DEF ExpConnect, Frame, Clean, Last, Writing, TypeOK, ctlVars,
       sndVars, zVars, rcvVars
  <2>27. ASSUME ExpTokenGone PROVE Frame(c) \/ Moves(c)
    BY <2>27 DEF ExpTokenGone, Frame, Clean, Last, Writing, TypeOK, ctlVars,
       sndVars, zVars, rcvVars
  <2>28. ASSUME ExpDrain PROVE Frame(c) \/ Moves(c)
    BY <2>28 DEF ExpDrain, Frame, Clean, Last, Writing, TypeOK, ctlVars,
       sndVars, zVars, rcvVars
  <2>29. ASSUME ExpDialOk PROVE Frame(c) \/ Moves(c)
    BY <2>29 DEF ExpDialOk, Frame, Clean, Last, Writing, TypeOK, ctlVars,
       sndVars, zVars, rcvVars
  <2>30. ASSUME ExpDialCancelled PROVE Frame(c) \/ Moves(c)
    BY <2>30 DEF ExpDialCancelled, Frame, Clean, Last, Writing, TypeOK,
       ctlVars, sndVars, zVars, rcvVars
  <2>31. ASSUME ExpSubscribe PROVE Frame(c) \/ Moves(c)
    BY <2>31 DEF ExpSubscribe, Frame, Clean, Last, Writing, TypeOK, ctlVars,
       sndVars, zVars, rcvVars
  <2>32. ASSUME ExpStart PROVE Frame(c) \/ Moves(c)
    BY <2>32 DEF ExpStart, Frame, Clean, Last, Writing, TypeOK, ctlVars,
       sndVars, zVars, rcvVars, TaskInv, Spawn, ReadDir, WriteDir, Dir,
       TaskEnd
  <2>33. ASSUME ExpFail PROVE Frame(c) \/ Moves(c)
    <3>1. /\ delivered'[c] = delivered[c] /\ chan'[c] = chan[c]
          /\ hand'[c] = hand[c]
          /\ wr'[c] = wr[c] \/ wr'[c] \in TaskEnd
      BY <2>33 DEF ExpFail, TypeOK, TaskEnd, Dir, rcvVars
    <3>2. rd'[c] = rd[c] /\ Last(c)' = Last(c) /\ Last(c) \in Int
      BY <2>33 DEF ExpFail, Last, TypeOK, sndVars
    <3>3. Clean(c)' => Clean(c) /\ gap'[c] = gap[c]
      BY <2>33 DEF ExpFail, Undeclare, Clean, TypeOK, ReadDir, Dir
    <3>4. \/ wire'[c] = wire[c]
          \/ wire'[c] = <<>> /\ (silent'[c] \/ wr[c] \in TaskEnd)
      BY <2>33 DEF ExpFail, Undeclare, TypeOK, ReadDir, Dir
    <3>5. QED
      BY <3>1, <3>2, <3>3, <3>4 DEF Frame, Clean, Writing, TaskEnd
  <2>34. ASSUME ExpExtCancel PROVE Frame(c) \/ Moves(c)
    BY <2>34 DEF ExpExtCancel, Frame, Clean, Last, Writing, TypeOK, ctlVars,
       sndVars, zVars, rcvVars, Cancel, Rcv, Dir, End
  <2>35. ASSUME ExpJoin PROVE Frame(c) \/ Moves(c)
    <3>1. /\ delivered'[c] = delivered[c] /\ chan'[c] = chan[c]
          /\ hand'[c] = hand[c]
          /\ wr'[c] = wr[c] \/ wr'[c] \in TaskEnd
      BY <2>35 DEF ExpJoin, TypeOK, TaskEnd, Dir, rcvVars
    <3>2. rd'[c] = rd[c] /\ Last(c)' = Last(c) /\ Last(c) \in Int
      BY <2>35 DEF ExpJoin, Last, TypeOK, sndVars
    <3>3. Clean(c)' => Clean(c) /\ gap'[c] = gap[c]
      BY <2>35 DEF ExpJoin, Undeclare, Clean, TypeOK, ReadDir, Dir
    <3>4. \/ wire'[c] = wire[c]
          \/ wire'[c] = <<>> /\ (silent'[c] \/ wr[c] \in TaskEnd)
      BY <2>35 DEF ExpJoin, Undeclare, TypeOK, ReadDir, Dir
    <3>5. QED
      BY <3>1, <3>2, <3>3, <3>4 DEF Frame, Clean, Writing, TaskEnd
  <2>36. ASSUME ExpSignal PROVE Frame(c) \/ Moves(c)
    BY <2>36 DEF ExpSignal, Frame, Clean, Last, Writing, TypeOK, ctlVars,
       sndVars, zVars, rcvVars
  <2>37. ASSUME ExpSignalFail PROVE Frame(c) \/ Moves(c)
    BY <2>37 DEF ExpSignalFail, Frame, Clean, Last, Writing, TypeOK, ctlVars,
       sndVars, zVars, rcvVars
  <2>38. ASSUME Terminated PROVE Frame(c) \/ Moves(c)
    BY <2>38 DEF Terminated, vars, ctlVars, sndVars, zVars, rcvVars, Frame,
       Clean, Last, Writing, TypeOK
  <2>39. ASSUME UNCHANGED vars PROVE Frame(c) \/ Moves(c)
    BY <2>39 DEF vars, ctlVars, sndVars, zVars, rcvVars, Frame, Clean, Last,
       Writing, TypeOK
  <2> QED
    BY <2>1, <2>2, <2>3, <2>4, <2>5, <2>6, <2>7, <2>8, <2>9, <2>10, <2>11,
       <2>12, <2>13, <2>14, <2>15, <2>16, <2>17, <2>18, <2>19, <2>20, <2>21,
       <2>22, <2>23, <2>24, <2>25, <2>26, <2>27, <2>28, <2>29, <2>30, <2>31,
       <2>32, <2>33, <2>34, <2>35, <2>36, <2>37, <2>38, <2>39
    DEF Next, Zenoh, Reader, Writer, Import, Export

-----------------------------------------------------------------------------
(* The tasks of an end.                                                    *)

\* Every step keeps TaskInv.
LEMMA TaskStep ==
  ASSUME TypeOK, TaskInv, [Next]_vars
  PROVE  TaskInv'
<1>1. QED
  <2>1. ASSUME NEW d \in Dir, Lose(d) PROVE TaskInv'
    BY <2>1 DEF Lose, TaskInv, TypeOK, ctlVars, sndVars, rcvVars
  <2>2. ASSUME NEW d \in Dir, ReportMiss(d) PROVE TaskInv'
    BY <2>2 DEF ReportMiss, TaskInv, TypeOK, ctlVars, sndVars, rcvVars
  <2>3. ASSUME NEW d \in Dir, Deliver(d) PROVE TaskInv'
    BY <2>3 DEF Deliver, TaskInv, TypeOK, ctlVars, sndVars, rcvVars
  <2>4. ASSUME NEW d \in Dir, ReadData(d) PROVE TaskInv'
    BY <2>4 DEF ReadData, TaskInv, TypeOK, ctlVars, sndVars, rcvVars,
       Reading
  <2>5. ASSUME NEW d \in Dir, ReadEof(d) PROVE TaskInv'
    BY <2>5 DEF ReadEof, TaskInv, TypeOK, ctlVars, sndVars, rcvVars, Reading
  <2>6. ASSUME NEW d \in Dir, PutOk(d) PROVE TaskInv'
    BY <2>6 DEF PutOk, TaskInv, TypeOK, ctlVars, sndVars, rcvVars
  <2>7. ASSUME NEW d \in Dir, PutErr(d) PROVE TaskInv'
    BY <2>7 DEF PutErr, TaskInv, TypeOK, ctlVars, sndVars, rcvVars
  <2>8. ASSUME NEW d \in Dir, ReadErr(d) PROVE TaskInv'
    BY <2>8 DEF ReadErr, TaskInv, TypeOK, ctlVars, sndVars, rcvVars,
       Reading, TaskEnd
  <2>9. ASSUME NEW d \in Dir, ReaderCancelled(d) PROVE TaskInv'
    BY <2>9 DEF ReaderCancelled, TaskInv, TypeOK, ctlVars, sndVars, rcvVars,
       Reading
  <2>10. ASSUME NEW d \in Dir, Take(d) PROVE TaskInv'
    BY <2>10 DEF Take, TaskInv, TypeOK, ctlVars, sndVars, rcvVars
  <2>11. ASSUME NEW d \in Dir, WriteOk(d) PROVE TaskInv'
    <3>1. UNCHANGED <<phase, rd, read, eofAt>> /\ wr[d] = "writing"
      BY <2>11 DEF WriteOk, ctlVars, sndVars
    <3>2. \A c \in Dir : c # d => wr'[c] = wr[c]
      BY <2>11 DEF WriteOk, TypeOK
    <3>3. QED
      BY <3>1, <3>2 DEF TaskInv, Dir
  <2>12. ASSUME NEW d \in Dir, WriteErr(d) PROVE TaskInv'
    BY <2>12 DEF WriteErr, TaskInv, TypeOK, ctlVars, sndVars, rcvVars
  <2>13. ASSUME NEW d \in Dir, ChannelClosed(d) PROVE TaskInv'
    BY <2>13 DEF ChannelClosed, TaskInv, TypeOK, ctlVars, sndVars, rcvVars
  <2>14. ASSUME NEW d \in Dir, WriterCancelled(d) PROVE TaskInv'
    BY <2>14 DEF WriterCancelled, TaskInv, TypeOK, ctlVars, sndVars, rcvVars
  <2>15. ASSUME NEW e \in End, Watchdog(e) PROVE TaskInv'
    BY <2>15 DEF Watchdog, TaskInv, TypeOK, ctlVars, sndVars, rcvVars,
       ReadDir, WriteDir, TaskEnd, Dir, End
  <2>16. ASSUME ImpDeclare PROVE TaskInv'
    BY <2>16 DEF ImpDeclare, TaskInv, TypeOK, ctlVars, sndVars, rcvVars,
       Goto, End, Dir
  <2>17. ASSUME ImpToken PROVE TaskInv'
    BY <2>17 DEF ImpToken, TaskInv, TypeOK, ctlVars, sndVars, rcvVars, Goto,
       End, Dir
  <2>18. ASSUME ImpGate PROVE TaskInv'
    BY <2>18 DEF ImpGate, TaskInv, TypeOK, ctlVars, sndVars, rcvVars, Goto,
       End, Dir
  <2>19. ASSUME ImpInitialPut PROVE TaskInv'
    BY <2>19 DEF ImpInitialPut, TaskInv, TypeOK, ctlVars, sndVars, rcvVars,
       Goto, End, Dir
  <2>20. ASSUME ImpStart PROVE TaskInv'
    <3>1. phase'["imp"] = "relay" /\ phase'["exp"] = phase["exp"]
      BY <2>20 DEF ImpStart, Goto, TypeOK, End
    <3>2. /\ rd["up"] = "off" /\ rd'["down"] = rd["down"]
          /\ wr'["up"] = wr["up"] /\ UNCHANGED <<read, eofAt>>
      BY <2>20 DEF ImpStart, TaskInv, Spawn, ReadDir, WriteDir, TypeOK, Dir
    <3>3. eofAt["up"] = 0
      BY <3>2 DEF TaskInv, Dir
    <3>4. QED
      BY <3>1, <3>2, <3>3 DEF TaskInv, Dir
  <2>21. ASSUME ImpFail PROVE TaskInv'
    BY <2>21 DEF ImpFail, TaskInv, TypeOK, ctlVars, sndVars, rcvVars, Goto,
       End, Dir
  <2>22. ASSUME ImpErrorSignal PROVE TaskInv'
    BY <2>22 DEF ImpErrorSignal, TaskInv, TypeOK, ctlVars, sndVars, rcvVars,
       Goto, End, Dir
  <2>23. ASSUME ImpShutdown PROVE TaskInv'
    BY <2>23 DEF ImpShutdown, TaskInv, TypeOK, ctlVars, sndVars, rcvVars,
       Goto, End, Dir
  <2>24. ASSUME ImpJoin PROVE TaskInv'
    BY <2>24 DEF ImpJoin, TaskInv, TypeOK, ctlVars, sndVars, rcvVars, Goto,
       End, Dir
  <2>25. ASSUME ImpFinish PROVE TaskInv'
    BY <2>25 DEF ImpFinish, TaskInv, TypeOK, ctlVars, sndVars, rcvVars,
       Goto, End, Dir
  <2>26. ASSUME ExpConnect PROVE TaskInv'
    BY <2>26 DEF ExpConnect, TaskInv, TypeOK, ctlVars, sndVars, rcvVars,
       Goto, End, Dir
  <2>27. ASSUME ExpTokenGone PROVE TaskInv'
    BY <2>27 DEF ExpTokenGone, TaskInv, TypeOK, ctlVars, sndVars, rcvVars,
       Goto, End, Dir
  <2>28. ASSUME ExpDrain PROVE TaskInv'
    BY <2>28 DEF ExpDrain, TaskInv, TypeOK, ctlVars, sndVars, rcvVars, Goto,
       End, Dir
  <2>29. ASSUME ExpDialOk PROVE TaskInv'
    BY <2>29 DEF ExpDialOk, TaskInv, TypeOK, ctlVars, sndVars, rcvVars,
       Goto, End, Dir
  <2>30. ASSUME ExpDialCancelled PROVE TaskInv'
    BY <2>30 DEF ExpDialCancelled, TaskInv, TypeOK, ctlVars, sndVars,
       rcvVars, Goto, End, Dir
  <2>31. ASSUME ExpSubscribe PROVE TaskInv'
    BY <2>31 DEF ExpSubscribe, TaskInv, TypeOK, ctlVars, sndVars, rcvVars,
       Goto, End, Dir
  <2>32. ASSUME ExpStart PROVE TaskInv'
    <3>1. phase'["exp"] = "relay" /\ phase'["imp"] = phase["imp"]
      BY <2>32 DEF ExpStart, Goto, TypeOK, End
    <3>2. /\ rd["down"] = "off" /\ rd'["up"] = rd["up"]
          /\ wr'["down"] = wr["down"] /\ UNCHANGED <<read, eofAt>>
      BY <2>32 DEF ExpStart, TaskInv, Spawn, ReadDir, WriteDir, TypeOK, Dir
    <3>3. eofAt["down"] = 0
      BY <3>2 DEF TaskInv, Dir
    <3>4. QED
      BY <3>1, <3>2, <3>3 DEF TaskInv, Dir
  <2>33. ASSUME ExpFail PROVE TaskInv'
    BY <2>33 DEF ExpFail, TaskInv, TypeOK, ctlVars, sndVars, rcvVars, Goto,
       End, Dir
  <2>34. ASSUME ExpExtCancel PROVE TaskInv'
    BY <2>34 DEF ExpExtCancel, TaskInv, TypeOK, ctlVars, sndVars, rcvVars,
       Goto, End, Dir
  <2>35. ASSUME ExpJoin PROVE TaskInv'
    BY <2>35 DEF ExpJoin, TaskInv, TypeOK, ctlVars, sndVars, rcvVars, Goto,
       End, Dir
  <2>36. ASSUME ExpSignal PROVE TaskInv'
    BY <2>36 DEF ExpSignal, TaskInv, TypeOK, ctlVars, sndVars, rcvVars,
       Goto, End, Dir
  <2>37. ASSUME ExpSignalFail PROVE TaskInv'
    BY <2>37 DEF ExpSignalFail, TaskInv, TypeOK, ctlVars, sndVars, rcvVars,
       Goto, End, Dir
  <2>38. ASSUME Terminated PROVE TaskInv'
    BY <2>38 DEF Terminated, TaskInv, vars, ctlVars, sndVars, rcvVars
  <2>39. ASSUME UNCHANGED vars PROVE TaskInv'
    BY <2>39 DEF TaskInv, vars, ctlVars, sndVars, rcvVars
  <2> QED
    BY <2>1, <2>2, <2>3, <2>4, <2>5, <2>6, <2>7, <2>8, <2>9, <2>10, <2>11,
       <2>12, <2>13, <2>14, <2>15, <2>16, <2>17, <2>18, <2>19, <2>20, <2>21,
       <2>22, <2>23, <2>24, <2>25, <2>26, <2>27, <2>28, <2>29, <2>30, <2>31,
       <2>32, <2>33, <2>34, <2>35, <2>36, <2>37, <2>38, <2>39
    DEF Next, Zenoh, Reader, Writer, Import, Export

\* The tasks exist only while and after the handler relays, and nothing is
\* read from a peer after its EOF (import/bridge.rs, export/bridge.rs).
THEOREM TasksCorrect == Spec => []TaskInv
<1>1. Init => TaskInv
  BY DEF Init, TaskInv, Dir, End
<1>2. TypeOK /\ TaskInv /\ [Next]_vars => TaskInv'
  BY TaskStep
<1>3. QED
  BY <1>1, <1>2, TypeCorrect, PTL DEF Spec

-----------------------------------------------------------------------------
(* The order of the samples.                                               *)

\* The types of one direction.
LEMMA DirTypes ==
  ASSUME TypeOK, NEW c \in Dir
  PROVE  /\ delivered[c] \in Seq(Nat) /\ chan[c] \in Seq(Nat)
         /\ wire[c] \in Seq(Nat) /\ hand[c] \in Nat
         /\ Last(c) \in Int
<1>1. /\ delivered[c] \in Seq(Nat) /\ chan[c] \in Seq(Nat)
      /\ wire[c] \in Seq(Nat) /\ hand[c] \in Nat /\ read[c] \in Nat
  BY DEF TypeOK
<1>2. QED
  BY <1>1 DEF Last

\* A step that moves no sample of c keeps them ordered.
LEMMA OrderFrame ==
  ASSUME TypeOK, TypeOK', NEW c \in Dir, OrderInv(c), Frame(c)
  PROVE  OrderInv(c)'
<1> DEFINE D == delivered[c]
           C == chan[c]
           W == wire'[c]
           q == Last(c)'
<1>1. /\ D \in Seq(Nat) /\ C \in Seq(Nat) /\ wire[c] \in Seq(Nat)
      /\ hand[c] \in Nat /\ Last(c) \in Int /\ q \in Int
  BY DirTypes, LastFacts
<1>2. Ordered(D, Writing(c), hand[c], C, wire[c], q)
  BY <1>1, OrderedGrow DEF OrderInv, Frame
<1>3. Ordered(D, Writing(c), hand[c], C, W, q)
  BY <1>2, OrderedClear DEF Frame
<1>4. delivered'[c] = D /\ chan'[c] = C
  BY DEF Frame
<1> HIDE DEF D, C, W, q
<1>5. CASE wr'[c] \in TaskEnd
  <2>1. ~ Writing(c)'
    BY <1>5 DEF Writing, TaskEnd
  <2>2. Ordered(D, FALSE, hand'[c], C, W, q)
    BY <1>3, OrderedDrop
  <2>3. QED
    BY <1>4, <2>1, <2>2 DEF OrderInv, Ordered, D, C, W, q
<1>6. CASE wr'[c] \notin TaskEnd
  <2>1. hand'[c] = hand[c] /\ (Writing(c)' <=> Writing(c))
    BY <1>6 DEF Frame
  <2>2. QED
    BY <1>3, <1>4, <2>1 DEF OrderInv, Ordered, D, C, W, q
<1>7. QED
  BY <1>5, <1>6

\* Publishing the next sample keeps the samples of c ordered, whether the
\* publisher's cache evicts its oldest sample or not.
LEMMA OrderPuts ==
  ASSUME TypeOK, TypeOK', NEW c \in Dir, OrderInv(c), Puts(c)
  PROVE  OrderInv(c)'
<1> DEFINE D == delivered[c]
           C == chan[c]
           W == wire[c]
           h == hand[c]
<1>1. /\ D \in Seq(Nat) /\ C \in Seq(Nat) /\ W \in Seq(Nat) /\ h \in Nat
      /\ Last(c) \in Int
  BY DirTypes
<1>2. PICK n \in Nat : n = Last(c) + 1 /\ Last(c)' = n /\ Publish(c, n)
  BY DEF Puts
<1>3. wire'[c] = Append(W, n) \/ wire'[c] = Tail(Append(W, n))
  BY <1>2 DEF Publish, TypeOK
<1>4. Append(W, n) \in Seq(Nat) /\ Append(W, n) # <<>>
  BY <1>1, AppendFacts
<1>5. /\ delivered'[c] = D /\ chan'[c] = C /\ hand'[c] = h
      /\ Writing(c)' <=> Writing(c)
  BY DEF Puts, Writing
<1>6. Ordered(D, Writing(c), h, C, W, Last(c))
  BY DEF OrderInv
<1> HIDE DEF D, C, W, h
<1>7. Ordered(D, Writing(c), h, C, Append(W, n), n)
  BY <1>1, <1>2, <1>6, OrderedPut
<1>8. Ordered(D, Writing(c), h, C, Tail(Append(W, n)), n)
  <2> DEFINE a == Append(W, n)
  <2>1. a \in Seq(Nat) /\ a # <<>> /\ Ordered(D, Writing(c), h, C, a, n)
    BY <1>4, <1>7
  <2> HIDE DEF a
  <2>2. Ordered(D, Writing(c), h, C, Tail(a), n)
    BY <1>1, <2>1, OrderedLose
  <2>3. QED
    BY <2>2 DEF a
<1>9. Ordered(D, Writing(c), h, C, wire'[c], Last(c)')
  BY <1>2, <1>3, <1>7, <1>8
<1>10. QED
  BY <1>5, <1>9 DEF OrderInv, Ordered

\* Every step keeps the samples of each direction ordered.
LEMMA OrderStep ==
  ASSUME TypeOK, TypeOK', TaskInv, [Next]_vars, NEW c \in Dir, OrderInv(c)
  PROVE  OrderInv(c)'
<1> DEFINE D == delivered[c]
           C == chan[c]
           W == wire[c]
           h == hand[c]
           p == Last(c)
<1>1. /\ D \in Seq(Nat) /\ C \in Seq(Nat) /\ W \in Seq(Nat) /\ h \in Nat
      /\ p \in Int
  BY DirTypes
<1>2. Ordered(D, Writing(c), h, C, W, p)
  BY DEF OrderInv
<1>3. UNCHANGED sndVars => Last(c)' = p
  BY DEF Last, sndVars
<1> HIDE DEF D, C, W, h, p
<1>4. CASE Lose(c)
  <2>1. /\ delivered'[c] = D /\ chan'[c] = C /\ hand'[c] = h
        /\ (Writing(c)' <=> Writing(c)) /\ Last(c)' = p
        /\ wire'[c] = Tail(W) /\ W # <<>>
    BY <1>3, <1>4 DEF Lose, TypeOK, rcvVars, Writing, D, C, W, h
  <2>2. Ordered(D, Writing(c), h, C, Tail(W), p)
    BY <1>1, <1>2, <2>1, OrderedLose
  <2>3. QED
    BY <2>1, <2>2 DEF OrderInv, Ordered
<1>5. CASE Deliver(c)
  <2>1. /\ delivered'[c] = D /\ hand'[c] = h
        /\ (Writing(c)' <=> Writing(c)) /\ Last(c)' = p
        /\ wire'[c] = Tail(W) /\ W # <<>>
    BY <1>3, <1>5 DEF Deliver, TypeOK, Writing, D, W, h
  <2>2. chan'[c] = C \/ chan'[c] = Append(C, Head(W))
    BY <1>5 DEF Deliver, TypeOK, C, W
  <2>3. /\ Ordered(D, Writing(c), h, C, Tail(W), p)
        /\ Ordered(D, Writing(c), h, Append(C, Head(W)), Tail(W), p)
    BY <1>1, <1>2, <2>1, OrderedLose, OrderedEnqueue
  <2>4. QED
    BY <2>1, <2>2, <2>3 DEF OrderInv, Ordered
<1>6. CASE Take(c)
  <2>1. /\ delivered'[c] = D /\ wire'[c] = W /\ C # <<>>
        /\ hand'[c] = Head(C) /\ chan'[c] = Tail(C)
        /\ Last(c)' = p
    BY <1>3, <1>6 DEF Take, TypeOK, zVars, D, W, C
  <2>2. Writing(c)' /\ ~Writing(c)
    BY <1>6 DEF Take, TypeOK, Writing
  <2>3. Ordered(D, FALSE, h, C, W, p)
    BY <1>2, OrderedDrop
  <2>4. Ordered(D, TRUE, Head(C), Tail(C), W, p)
    BY <1>1, <2>1, <2>3, OrderedTake
  <2>5. QED
    BY <2>1, <2>2, <2>4 DEF OrderInv, Ordered
<1>7. CASE WriteOk(c)
  <2>1. /\ wire'[c] = W /\ chan'[c] = C /\ Last(c)' = p
    BY <1>3, <1>7 DEF WriteOk, zVars, W, C
  <2>2. delivered'[c] = D \/ delivered'[c] = Append(D, h)
    BY <1>7 DEF WriteOk, TypeOK, D, h
  <2>3. Writing(c) /\ ~Writing(c)'
    BY <1>7 DEF WriteOk, TypeOK, Writing
  <2>4. Ordered(D, TRUE, h, C, W, p)
    BY <1>2, <2>3 DEF Ordered
  <2>5. /\ Ordered(D, FALSE, hand'[c], C, W, p)
        /\ Ordered(Append(D, h), FALSE, hand'[c], C, W, p)
    BY <1>1, <2>4, OrderedDrop, OrderedWrite
  <2>6. QED
    BY <2>1, <2>2, <2>3, <2>5 DEF OrderInv, Ordered
<1>8. QED
  BY <1>4, <1>5, <1>6, <1>7, FrameOrMove, OrderFrame, OrderPuts DEF Moves

\* In both reliability modes no chunk is ever delivered twice or out of order,
\* whatever is lost, shed, reset or aborted (backpressure.rs, both bridges).
THEOREM DeliveredInOrder == Spec => []InOrderOnce
<1>1. Init => \A c \in Dir : OrderInv(c)
  <2> SUFFICES ASSUME Init, NEW c \in Dir PROVE OrderInv(c)
    OBVIOUS
  <2>1. /\ delivered[c] = <<>> /\ chan[c] = <<>> /\ wire[c] = <<>>
        /\ wr[c] = "off"
    BY DEF Init
  <2>2. QED
    BY <2>1 DEF OrderInv, Ordered, Writing, Increasing, Below, UpTo
<1>2. TypeOK /\ TypeOK' /\ TaskInv /\ (\A c \in Dir : OrderInv(c)) /\ [Next]_vars
        => (\A c \in Dir : OrderInv(c))'
  BY OrderStep
<1>3. (\A c \in Dir : OrderInv(c)) => InOrderOnce
  BY DEF OrderInv, Ordered, Increasing, InOrderOnce
<1>4. QED
  BY <1>1, <1>2, <1>3, TypeCorrect, TasksCorrect, PTL DEF Spec

-----------------------------------------------------------------------------
(* One step of a contiguous pipeline.                                      *)

\* The samples of a queue with one more sample.
LEMMA AppendCases ==
  ASSUME NEW s \in Seq(Nat), NEW n \in Nat
  PROVE  /\ Len(Append(s, n)) = Len(s) + 1 /\ Len(s) \in Nat
         /\ \A i \in 1..Len(Append(s, n)) :
              \/ i \in 1..Len(s) /\ Append(s, n)[i] = s[i]
              \/ i = Len(s) + 1 /\ Append(s, n)[i] = n
  BY AppendFacts

\* The first sample in flight enters the channel.
LEMMA PipeEnqueue ==
  ASSUME NEW D \in Seq(Nat), NEW w \in BOOLEAN, NEW h \in Nat,
         NEW C \in Seq(Nat), NEW W \in Seq(Nat), W # <<>>,
         Contiguous(D, w, h, C), Follows(D, w, C, W)
  PROVE  /\ Contiguous(D, w, h, Append(C, Head(W)))
         /\ Follows(D, w, Append(C, Head(W)), Tail(W))
         /\ \A p \in Int : Reaches(D, w, C, W, p) =>
              Reaches(D, w, Append(C, Head(W)), Tail(W), p)
<1> DEFINE a == Append(C, Head(W))
           t == Tail(W)
           b == Base(D, w)
<1>1. /\ Len(t) = Len(W) - 1 /\ Len(W) \in Nat /\ Len(W) > 0
      /\ Head(W) = W[1] /\ W[1] \in Nat
      /\ \A i \in 1..Len(t) : t[i] = W[i + 1]
  BY TailFacts
<1>2. /\ Len(a) = Len(C) + 1 /\ Len(C) \in Nat
      /\ \A i \in 1..Len(a) : \/ i \in 1..Len(C) /\ a[i] = C[i]
                              \/ i = Len(C) + 1 /\ a[i] = W[1]
  BY <1>1, AppendCases
<1>3. b \in Nat
  BY DEF Base
<1>4. /\ \A i \in 1..Len(W) : W[i] = b + Len(C) + i
      /\ \A i \in 1..Len(C) : C[i] = b + i
  BY DEF Follows, Contiguous
<1> HIDE DEF a, t, b
<1>5. ASSUME NEW i \in 1..Len(a) PROVE a[i] = b + i
  <2>1. CASE i \in 1..Len(C) /\ a[i] = C[i]
    BY <1>4, <2>1
  <2>2. CASE i = Len(C) + 1 /\ a[i] = W[1]
    <3>1. W[1] = b + Len(C) + 1
      BY <1>1, <1>4
    <3>2. QED
      BY <1>2, <1>3, <2>2, <3>1
  <2>3. QED
    BY <1>2, <2>1, <2>2
<1>6. \A i \in 1..Len(t) : t[i] = b + Len(a) + i
  BY <1>1, <1>2, <1>3, <1>4
<1>7. \A p \in Int : p = b + Len(C) + Len(W) => p = b + Len(a) + Len(t)
  BY <1>1, <1>2, <1>3
<1>8. QED
  BY <1>5, <1>6, <1>7 DEF Contiguous, Follows, Reaches, a, t, b

\* The writer takes the first sample of the channel.
LEMMA PipeTake ==
  ASSUME NEW D \in Seq(Nat), NEW h \in Nat,
         NEW C \in Seq(Nat), NEW W \in Seq(Nat), C # <<>>,
         Contiguous(D, FALSE, h, C)
  PROVE  /\ Contiguous(D, TRUE, Head(C), Tail(C))
         /\ Follows(D, FALSE, C, W) => Follows(D, TRUE, Tail(C), W)
         /\ \A p \in Int : Reaches(D, FALSE, C, W, p) =>
              Reaches(D, TRUE, Tail(C), W, p)
<1> DEFINE t == Tail(C)
<1>1. /\ Len(t) = Len(C) - 1 /\ Len(C) \in Nat /\ Len(C) > 0
      /\ Head(C) = C[1]
      /\ \A i \in 1..Len(t) : t[i] = C[i + 1]
  BY TailFacts
<1>2. \A i \in 1..Len(C) : C[i] = Len(D) + i
  BY DEF Contiguous, Base
<1>3. Base(D, TRUE) = Len(D) + 1 /\ Base(D, FALSE) = Len(D) /\ Len(D) \in Nat
  BY DEF Base
<1> HIDE DEF t
<1>4. Head(C) = Len(D) + 1 /\ \A i \in 1..Len(t) : t[i] = Len(D) + 1 + i
  BY <1>1, <1>2, <1>3
<1>5. Base(D, FALSE) + Len(C) = Base(D, TRUE) + Len(t)
  <2>1. Len(D) + Len(C) = (Len(D) + 1) + Len(t)
    BY <1>1, <1>3
  <2>2. QED
    BY <1>3, <2>1, Zenon
<1>6. Contiguous(D, TRUE, Head(C), t)
  BY <1>3, <1>4 DEF Contiguous
<1>7. QED
  BY <1>5, <1>6 DEF Follows, Reaches, t

\* The writer has written the sample in its hand.
LEMMA PipeWrite ==
  ASSUME NEW D \in Seq(Nat), NEW h \in Nat, NEW k,
         NEW C \in Seq(Nat), NEW W \in Seq(Nat),
         Contiguous(D, TRUE, h, C)
  PROVE  /\ Contiguous(Append(D, h), FALSE, k, C)
         /\ Follows(D, TRUE, C, W) => Follows(Append(D, h), FALSE, C, W)
         /\ \A p \in Int : Reaches(D, TRUE, C, W, p) =>
              Reaches(Append(D, h), FALSE, C, W, p)
<1> DEFINE a == Append(D, h)
<1>1. /\ Len(a) = Len(D) + 1 /\ Len(D) \in Nat
      /\ \A i \in 1..Len(a) : \/ i \in 1..Len(D) /\ a[i] = D[i]
                              \/ i = Len(D) + 1 /\ a[i] = h
  BY AppendCases
<1>2. Base(D, TRUE) = Len(D) + 1 /\ Base(a, FALSE) = Len(a)
  BY <1>1 DEF Base
<1> HIDE DEF a
<1>3. Count(a)
  BY <1>1 DEF Contiguous, Count
<1>4. Base(a, FALSE) = Base(D, TRUE)
  BY <1>1, <1>2
<1>5. QED
  BY <1>3, <1>4 DEF Contiguous, Follows, Reaches, a

\* The next sample is published.
LEMMA PipePut ==
  ASSUME NEW D \in Seq(Nat), NEW w \in BOOLEAN, NEW C \in Seq(Nat),
         NEW W \in Seq(Nat), NEW p \in Int, NEW n \in Nat, n = p + 1,
         Follows(D, w, C, W), Reaches(D, w, C, W, p)
  PROVE  Follows(D, w, C, Append(W, n)) /\ Reaches(D, w, C, Append(W, n), n)
<1> DEFINE a == Append(W, n)
           b == Base(D, w)
<1>1. /\ Len(a) = Len(W) + 1 /\ Len(W) \in Nat /\ Len(C) \in Nat
      /\ \A i \in 1..Len(a) : \/ i \in 1..Len(W) /\ a[i] = W[i]
                              \/ i = Len(W) + 1 /\ a[i] = n
  BY AppendCases
<1>2. b \in Nat
  BY DEF Base
<1>3. /\ \A i \in 1..Len(W) : W[i] = b + Len(C) + i
      /\ p = b + Len(C) + Len(W)
  BY DEF Follows, Reaches
<1> HIDE DEF a, b
<1>4. ASSUME NEW i \in 1..Len(a) PROVE a[i] = b + Len(C) + i
  <2>1. CASE i \in 1..Len(W) /\ a[i] = W[i]
    BY <1>3, <2>1
  <2>2. CASE i = Len(W) + 1 /\ a[i] = n
    BY <1>1, <1>2, <1>3, <2>2
  <2>3. QED
    BY <1>1, <2>1, <2>2
<1>5. n = b + Len(C) + Len(a)
  BY <1>1, <1>2, <1>3
<1>6. QED
  BY <1>4, <1>5 DEF Follows, Reaches, a, b

-----------------------------------------------------------------------------
(* The stream arrives without a hole, or the connection is reset.          *)

\* A step that moves no sample of c keeps them contiguous.
LEMMA PipeFrame ==
  ASSUME NEW c \in Dir, Frame(c), PipeInv(c), Clean(c)'
  PROVE  PipeInv(c)'
<1>1. /\ delivered'[c] = delivered[c] /\ chan'[c] = chan[c]
      /\ gap'[c] = gap[c]
  BY DEF Frame
<1>2. CASE wr'[c] \in TaskEnd
  BY <1>1, <1>2 DEF PipeInv
<1>3. CASE wr'[c] \notin TaskEnd
  <2>1. /\ wr[c] \notin TaskEnd /\ (Writing(c)' <=> Writing(c))
        /\ hand'[c] = hand[c] /\ wire'[c] = wire[c]
    BY <1>3 DEF Frame
  <2>2. rd'[c] \notin TaskEnd => rd[c] \notin TaskEnd /\ Last(c)' = Last(c)
    BY DEF Frame
  <2>3. Writing(c)' = Writing(c)
    BY <2>1 DEF Writing
  <2>4. QED
    BY <1>1, <1>3, <2>1, <2>2, <2>3 DEF PipeInv
<1>4. QED
  BY <1>2, <1>3

\* Publishing the next sample keeps the samples of c contiguous.
LEMMA PipePuts ==
  ASSUME TypeOK, NEW c \in Dir, Puts(c), PipeInv(c), Clean(c)'
  PROVE  PipeInv(c)'
<1>1. /\ delivered'[c] = delivered[c] /\ chan'[c] = chan[c]
      /\ hand'[c] = hand[c] /\ gap'[c] = gap[c] /\ wr'[c] = wr[c]
      /\ Writing(c)' = Writing(c) /\ Writing(c) \in BOOLEAN
      /\ rd[c] \notin TaskEnd
  BY DEF Puts, Writing
<1>2. PICK n \in Nat : n = Last(c) + 1 /\ Last(c)' = n /\ Publish(c, n)
  BY DEF Puts
<1>3. CASE wr[c] \in TaskEnd
  BY <1>1, <1>3 DEF PipeInv
<1>4. CASE wr[c] \notin TaskEnd
  <2>1. ~silent'[c]
    BY DEF Clean
  <2>2. wire'[c] = Append(wire[c], n)
    BY <1>2, <1>4, <2>1 DEF Publish, TypeOK
  <2>3. Contiguous(delivered[c], Writing(c), hand[c], chan[c])
    BY <1>4 DEF PipeInv
  <2>4. ASSUME ~gap[c]
        PROVE  /\ Follows(delivered[c], Writing(c), chan[c], Append(wire[c], n))
               /\ Reaches(delivered[c], Writing(c), chan[c], Append(wire[c], n), n)
    <3>1. /\ Follows(delivered[c], Writing(c), chan[c], wire[c])
          /\ Reaches(delivered[c], Writing(c), chan[c], wire[c], Last(c))
      BY <1>1, <1>4, <2>4 DEF PipeInv
    <3>2. QED
      BY <1>1, <1>2, <3>1, DirTypes, PipePut
  <2>5. QED
    BY <1>1, <1>2, <2>2, <2>3, <2>4 DEF PipeInv, Contiguous
<1>5. QED
  BY <1>3, <1>4

\* The writer takes or writes a sample.
LEMMA PipeWriter ==
  ASSUME TypeOK, NEW c \in Dir, Take(c) \/ WriteOk(c), PipeInv(c)
  PROVE  PipeInv(c)'
<1> DEFINE D == delivered[c]
           C == chan[c]
           W == wire[c]
           h == hand[c]
           p == Last(c)
<1>1. /\ D \in Seq(Nat) /\ C \in Seq(Nat) /\ W \in Seq(Nat) /\ h \in Nat
      /\ p \in Int
  BY DirTypes
<1>2. /\ wire'[c] = W /\ gap'[c] = gap[c] /\ rd'[c] = rd[c] /\ Last(c)' = p
  BY DEF Take, WriteOk, sndVars, zVars, Last
<1>3. CASE Take(c)
  <2>1. /\ delivered'[c] = D /\ C # <<>>
        /\ hand'[c] = Head(C) /\ chan'[c] = Tail(C)
    BY <1>3 DEF Take, TypeOK
  <2>2. /\ Writing(c)' = TRUE /\ Writing(c) = FALSE /\ wr[c] \notin TaskEnd
    BY <1>3 DEF Take, TypeOK, Writing, TaskEnd
  <2>3. /\ Contiguous(D, FALSE, h, C)
        /\ ~gap[c] => /\ Follows(D, FALSE, C, W)
                      /\ rd[c] \notin TaskEnd => Reaches(D, FALSE, C, W, p)
    BY <2>2 DEF PipeInv
  <2> HIDE DEF D, C, W, h, p
  <2>4. /\ Contiguous(D, TRUE, Head(C), Tail(C))
        /\ ~gap[c] => /\ Follows(D, TRUE, Tail(C), W)
                      /\ rd[c] \notin TaskEnd => Reaches(D, TRUE, Tail(C), W, p)
    BY <1>1, <2>1, <2>3, PipeTake
  <2>5. QED
    BY <1>2, <2>1, <2>2, <2>4 DEF PipeInv, Contiguous
<1>4. CASE WriteOk(c) /\ h # eofAt[c]
  <2>1. /\ delivered'[c] = Append(D, h) /\ chan'[c] = C
    BY <1>4 DEF WriteOk, TypeOK
  <2>2. /\ Writing(c)' = FALSE /\ Writing(c) = TRUE /\ wr[c] \notin TaskEnd
    BY <1>4 DEF WriteOk, TypeOK, Writing, TaskEnd
  <2>3. /\ Contiguous(D, TRUE, h, C)
        /\ ~gap[c] => /\ Follows(D, TRUE, C, W)
                      /\ rd[c] \notin TaskEnd => Reaches(D, TRUE, C, W, p)
    BY <2>2 DEF PipeInv
  <2> HIDE DEF D, C, W, h, p
  <2>4. /\ Contiguous(Append(D, h), FALSE, hand'[c], C)
        /\ ~gap[c] =>
             /\ Follows(Append(D, h), FALSE, C, W)
             /\ rd[c] \notin TaskEnd => Reaches(Append(D, h), FALSE, C, W, p)
    BY <1>1, <2>3, PipeWrite
  <2>5. QED
    BY <1>2, <2>1, <2>2, <2>4 DEF PipeInv, Contiguous
<1>5. CASE WriteOk(c) /\ h = eofAt[c]
  <2>1. delivered'[c] = D /\ wr'[c] = "eof"
    BY <1>5 DEF WriteOk, TypeOK
  <2>2. QED
    BY <2>1 DEF PipeInv, TaskEnd
<1>6. QED
  BY <1>3, <1>4, <1>5

\* The callback enqueues a sample, discards it, or trips the token.
LEMMA PipeDeliver ==
  ASSUME TypeOK, NEW c \in Dir, Deliver(c), PipeInv(c), Clean(c)'
  PROVE  PipeInv(c)'
<1> DEFINE D == delivered[c]
           C == chan[c]
           W == wire[c]
           h == hand[c]
           p == Last(c)
<1>1. /\ D \in Seq(Nat) /\ C \in Seq(Nat) /\ W \in Seq(Nat) /\ h \in Nat
      /\ p \in Int
  BY DirTypes
<1>2. /\ delivered'[c] = D /\ hand'[c] = h /\ wr'[c] = wr[c]
      /\ gap'[c] = gap[c] /\ rd'[c] = rd[c] /\ Last(c)' = p
      /\ wire'[c] = Tail(W) /\ W # <<>> /\ ~gap[c]
      /\ Writing(c)' = Writing(c) /\ Writing(c) \in BOOLEAN
  BY DEF Deliver, TypeOK, sndVars, Last, Writing
<1>3. CASE wr[c] \in TaskEnd
  BY <1>2, <1>3 DEF PipeInv
<1>4. CASE wr[c] \notin TaskEnd
  <2>1. Stream /\ ~cancel'[Rcv(c)]
    BY DEF Clean
  <2>2. chan'[c] = Append(C, Head(W))
    BY <1>4, <2>1, CancelFacts DEF Deliver, TypeOK
  <2>3. /\ Contiguous(D, Writing(c), h, C)
        /\ Follows(D, Writing(c), C, W)
        /\ rd[c] \notin TaskEnd => Reaches(D, Writing(c), C, W, p)
    BY <1>2, <1>4 DEF PipeInv
  <2> HIDE DEF D, C, W, h, p
  <2>4. /\ Contiguous(D, Writing(c), h, Append(C, Head(W)))
        /\ Follows(D, Writing(c), Append(C, Head(W)), Tail(W))
        /\ rd[c] \notin TaskEnd =>
             Reaches(D, Writing(c), Append(C, Head(W)), Tail(W), p)
    BY <1>1, <1>2, <2>3, PipeEnqueue
  <2>5. QED
    BY <1>2, <2>2, <2>4 DEF PipeInv, Contiguous
<1>5. QED
  BY <1>3, <1>4

\* Every step keeps the samples of a clean direction contiguous.
LEMMA PipeStep ==
  ASSUME TypeOK, TypeOK', TaskInv, [Next]_vars, NEW c \in Dir,
         Clean(c) => PipeInv(c), Clean(c)'
  PROVE  PipeInv(c)'
<1>1. CASE Frame(c)
  BY <1>1, PipeFrame DEF Frame
<1>2. CASE Lose(c)
  <2>1. /\ delivered'[c] = delivered[c] /\ chan'[c] = chan[c]
        /\ hand'[c] = hand[c] /\ wr'[c] = wr[c] /\ gap'[c]
    BY <1>2 DEF Lose, TypeOK, rcvVars
  <2>2. Clean(c) /\ Writing(c)' = Writing(c)
    BY <1>2, <2>1 DEF Lose, Clean, Writing
  <2>3. QED
    BY <2>1, <2>2 DEF PipeInv
<1>3. CASE Deliver(c)
  <2>1. Clean(c)
    BY <1>3, CancelFacts DEF Deliver, Clean
  <2>2. QED
    BY <1>3, <2>1, PipeDeliver
<1>4. CASE Take(c) \/ WriteOk(c)
  <2>1. Clean(c)
    BY <1>4 DEF Take, WriteOk, Clean, zVars
  <2>2. QED
    BY <1>4, <2>1, PipeWriter
<1>5. CASE Puts(c)
  <2>1. PICK n \in Nat : Publish(c, n)
    BY <1>5 DEF Puts
  <2>2. silent[c] => silent'[c]
    BY <2>1 DEF Publish, TypeOK
  <2>3. Clean(c)
    BY <1>5, <2>2 DEF Puts, Clean
  <2>4. QED
    BY <1>5, <2>3, PipePuts
<1>6. QED
  BY <1>1, <1>2, <1>3, <1>4, <1>5, FrameOrMove DEF Moves

\* The pipeline of a clean direction is the stream cut into pieces.
PipeClean == \A c \in Dir : Clean(c) => PipeInv(c)

\* It stays so in every behaviour: the inductive core of byte exactness.
THEOREM PipelineContiguous == Spec => []PipeClean
<1>1. Init => PipeClean
  <2> SUFFICES ASSUME Init, NEW c \in Dir PROVE PipeInv(c)
    BY DEF PipeClean
  <2>1. /\ delivered[c] = <<>> /\ chan[c] = <<>> /\ wire[c] = <<>>
        /\ Writing(c) = FALSE /\ Last(c) = 0
    BY DEF Init, Writing, Last
  <2>2. QED
    BY <2>1 DEF PipeInv, Contiguous, Count, Follows, Reaches, Base
<1>2. TypeOK /\ TypeOK' /\ TaskInv /\ PipeClean /\ [Next]_vars => PipeClean'
  BY PipeStep DEF PipeClean
<1>3. QED
  BY <1>1, <1>2, TypeCorrect, TasksCorrect, PTL DEF Spec

\* Stream mode, for every capacity, cache size and schedule: the receiving peer
\* has a prefix of what was sent, or the connection is being reset, or samples
\* vanished where the bridge does not listen (backpressure.rs, both bridges).
THEOREM StreamByteExact == Spec => []ByteExactOrReset
<1>1. PipeClean => ByteExactOrReset
  BY DEF PipeClean, PipeInv, Clean, Count, ByteExactOrReset, Exact
<1>2. QED
  BY <1>1, PipelineContiguous, PTL

-----------------------------------------------------------------------------
(* The FIN.                                                                *)

\* send_eof has run exactly when the writer ended on the EOF marker.
FinEof(c) == sink[c] = "fin" <=> wr[c] = "eof"

\* What a step can do to the end of a direction.
Sinks(c) ==
  /\ FinEof(c)'
  /\ wr[c] = "eof" => wr'[c] = "eof"
  /\ eofAt[c] # 0 => eofAt'[c] = eofAt[c]
  /\ \/ wr'[c] = "eof" => wr[c] = "eof"
     \/ WriteOk(c) /\ hand[c] = eofAt[c]

\* A FIN is final, and only the EOF marker causes one.
LEMMA SinkStep ==
  ASSUME TypeOK, TaskInv, [Next]_vars, NEW c \in Dir, FinEof(c)
  PROVE  Sinks(c)
<1>1. QED
  <2>1. ASSUME NEW d \in Dir, Lose(d) PROVE Sinks(c)
    BY <2>1 DEF Lose, Sinks, FinEof, TypeOK, sndVars, rcvVars
  <2>2. ASSUME NEW d \in Dir, ReportMiss(d) PROVE Sinks(c)
    BY <2>2 DEF ReportMiss, Sinks, FinEof, TypeOK, sndVars, rcvVars
  <2>3. ASSUME NEW d \in Dir, Deliver(d) PROVE Sinks(c)
    BY <2>3 DEF Deliver, Sinks, FinEof, TypeOK, sndVars, rcvVars
  <2>4. ASSUME NEW d \in Dir, ReadData(d) PROVE Sinks(c)
    BY <2>4 DEF ReadData, Sinks, FinEof, TypeOK, sndVars, rcvVars, Reading
  <2>5. ASSUME NEW d \in Dir, ReadEof(d) PROVE Sinks(c)
    BY <2>5 DEF ReadEof, Sinks, FinEof, TypeOK, sndVars, rcvVars, Reading,
       TaskInv
  <2>6. ASSUME NEW d \in Dir, PutOk(d) PROVE Sinks(c)
    BY <2>6 DEF PutOk, Sinks, FinEof, TypeOK, sndVars, rcvVars
  <2>7. ASSUME NEW d \in Dir, PutErr(d) PROVE Sinks(c)
    BY <2>7 DEF PutErr, Sinks, FinEof, TypeOK, sndVars, rcvVars
  <2>8. ASSUME NEW d \in Dir, ReadErr(d) PROVE Sinks(c)
    BY <2>8 DEF ReadErr, Sinks, FinEof, TypeOK, sndVars, rcvVars
  <2>9. ASSUME NEW d \in Dir, ReaderCancelled(d) PROVE Sinks(c)
    BY <2>9 DEF ReaderCancelled, Sinks, FinEof, TypeOK, sndVars, rcvVars
  <2>10. ASSUME NEW d \in Dir, Take(d) PROVE Sinks(c)
    BY <2>10 DEF Take, Sinks, FinEof, TypeOK, sndVars, rcvVars
  <2>11. ASSUME NEW d \in Dir, WriteOk(d) PROVE Sinks(c)
    BY <2>11 DEF WriteOk, Sinks, FinEof, TypeOK, sndVars, rcvVars
  <2>12. ASSUME NEW d \in Dir, WriteErr(d) PROVE Sinks(c)
    BY <2>12 DEF WriteErr, Sinks, FinEof, TypeOK, sndVars, rcvVars
  <2>13. ASSUME NEW d \in Dir, ChannelClosed(d) PROVE Sinks(c)
    BY <2>13 DEF ChannelClosed, Sinks, FinEof, TypeOK, sndVars, rcvVars
  <2>14. ASSUME NEW d \in Dir, WriterCancelled(d) PROVE Sinks(c)
    BY <2>14 DEF WriterCancelled, Sinks, FinEof, TypeOK, sndVars, rcvVars
  <2>15. ASSUME NEW e \in End, Watchdog(e) PROVE Sinks(c)
    BY <2>15 DEF Watchdog, Sinks, FinEof, TypeOK, sndVars, rcvVars, ReadDir,
       WriteDir, TaskEnd, Dir, End
  <2>16. ASSUME ImpDeclare PROVE Sinks(c)
    BY <2>16 DEF ImpDeclare, Sinks, FinEof, TypeOK, sndVars, rcvVars
  <2>17. ASSUME ImpToken PROVE Sinks(c)
    BY <2>17 DEF ImpToken, Sinks, FinEof, TypeOK, sndVars, rcvVars
  <2>18. ASSUME ImpGate PROVE Sinks(c)
    BY <2>18 DEF ImpGate, Sinks, FinEof, TypeOK, sndVars, rcvVars
  <2>19. ASSUME ImpInitialPut PROVE Sinks(c)
    BY <2>19 DEF ImpInitialPut, Sinks, FinEof, TypeOK, sndVars, rcvVars
  <2>20. ASSUME ImpStart PROVE Sinks(c)
    BY <2>20 DEF ImpStart, Sinks, FinEof, TypeOK, sndVars, rcvVars, Spawn,
       ReadDir, WriteDir, Dir, TaskInv
  <2>21. ASSUME ImpFail PROVE Sinks(c)
    BY <2>21 DEF ImpFail, Sinks, FinEof, TypeOK, sndVars, rcvVars, TaskInv,
       Dir
  <2>22. ASSUME ImpErrorSignal PROVE Sinks(c)
    BY <2>22 DEF ImpErrorSignal, Sinks, FinEof, TypeOK, sndVars, rcvVars
  <2>23. ASSUME ImpShutdown PROVE Sinks(c)
    BY <2>23 DEF ImpShutdown, Sinks, FinEof, TypeOK, sndVars, rcvVars
  <2>24. ASSUME ImpJoin PROVE Sinks(c)
    BY <2>24 DEF ImpJoin, Sinks, FinEof, TypeOK, sndVars, rcvVars
  <2>25. ASSUME ImpFinish PROVE Sinks(c)
    BY <2>25 DEF ImpFinish, Sinks, FinEof, TypeOK, sndVars, rcvVars
  <2>26. ASSUME ExpConnect PROVE Sinks(c)
    BY <2>26 DEF ExpConnect, Sinks, FinEof, TypeOK, sndVars, rcvVars
  <2>27. ASSUME ExpTokenGone PROVE Sinks(c)
    BY <2>27 DEF ExpTokenGone, Sinks, FinEof, TypeOK, sndVars, rcvVars
  <2>28. ASSUME ExpDrain PROVE Sinks(c)
    BY <2>28 DEF ExpDrain, Sinks, FinEof, TypeOK, sndVars, rcvVars
  <2>29. ASSUME ExpDialOk PROVE Sinks(c)
    BY <2>29 DEF ExpDialOk, Sinks, FinEof, TypeOK, sndVars, rcvVars
  <2>30. ASSUME ExpDialCancelled PROVE Sinks(c)
    BY <2>30 DEF ExpDialCancelled, Sinks, FinEof, TypeOK, sndVars, rcvVars
  <2>31. ASSUME ExpSubscribe PROVE Sinks(c)
    BY <2>31 DEF ExpSubscribe, Sinks, FinEof, TypeOK, sndVars, rcvVars
  <2>32. ASSUME ExpStart PROVE Sinks(c)
    BY <2>32 DEF ExpStart, Sinks, FinEof, TypeOK, sndVars, rcvVars, Spawn,
       ReadDir, WriteDir, Dir, TaskInv
  <2>33. ASSUME ExpFail PROVE Sinks(c)
    BY <2>33 DEF ExpFail, Sinks, FinEof, TypeOK, sndVars, rcvVars, TaskInv,
       Dir
  <2>34. ASSUME ExpExtCancel PROVE Sinks(c)
    BY <2>34 DEF ExpExtCancel, Sinks, FinEof, TypeOK, sndVars, rcvVars
  <2>35. ASSUME ExpJoin PROVE Sinks(c)
    BY <2>35 DEF ExpJoin, Sinks, FinEof, TypeOK, sndVars, rcvVars
  <2>36. ASSUME ExpSignal PROVE Sinks(c)
    BY <2>36 DEF ExpSignal, Sinks, FinEof, TypeOK, sndVars, rcvVars
  <2>37. ASSUME ExpSignalFail PROVE Sinks(c)
    BY <2>37 DEF ExpSignalFail, Sinks, FinEof, TypeOK, sndVars, rcvVars
  <2>38. ASSUME Terminated PROVE Sinks(c)
    BY <2>38 DEF Terminated, Sinks, FinEof, vars, sndVars, rcvVars
  <2>39. ASSUME UNCHANGED vars PROVE Sinks(c)
    BY <2>39 DEF Sinks, FinEof, vars, sndVars, rcvVars
  <2> QED
    BY <2>1, <2>2, <2>3, <2>4, <2>5, <2>6, <2>7, <2>8, <2>9, <2>10, <2>11,
       <2>12, <2>13, <2>14, <2>15, <2>16, <2>17, <2>18, <2>19, <2>20, <2>21,
       <2>22, <2>23, <2>24, <2>25, <2>26, <2>27, <2>28, <2>29, <2>30, <2>31,
       <2>32, <2>33, <2>34, <2>35, <2>36, <2>37, <2>38, <2>39
    DEF Next, Zenoh, Reader, Writer, Import, Export

-----------------------------------------------------------------------------
(* The import's outcome.                                                   *)

\* The import's writer fails only on a reset connection or in a handler that
\* gave up, and has ended when both tasks are joined.
ImpEnd ==
  /\ wr["down"] \in {"reset", "error", "aborted"} =>
       cancel["imp"] \/ phase["imp"] = "done"
  /\ phase["imp"] = "joined" => wr["down"] \in TaskEnd

\* What a step can do to the end of the import's connection.
Closing ==
  /\ ImpEnd'
  /\ phase["imp"] = "done" => phase'["imp"] = "done"
  /\ outcome'["imp"] = outcome["imp"] \/ ImpFinish
  /\ silent["down"] => silent'["down"]

\* Every step keeps ImpEnd and what has been recorded.
LEMMA ClosingStep ==
  ASSUME TypeOK, TaskInv, [Next]_vars, ImpEnd
  PROVE  Closing
<1>1. QED
  <2>1. ASSUME NEW d \in Dir, Lose(d) PROVE Closing
    BY <2>1 DEF Lose, Closing, ImpEnd, TypeOK, ctlVars, zVars, rcvVars
  <2>2. ASSUME NEW d \in Dir, ReportMiss(d) PROVE Closing
    BY <2>2 DEF ReportMiss, Closing, ImpEnd, TypeOK, ctlVars, zVars,
       rcvVars, Cancel, Rcv, Dir, End
  <2>3. ASSUME NEW d \in Dir, Deliver(d) PROVE Closing
    BY <2>3 DEF Deliver, Closing, ImpEnd, TypeOK, ctlVars, zVars, rcvVars,
       Cancel, Rcv, Dir, End
  <2>4. ASSUME NEW d \in Dir, ReadData(d) PROVE Closing
    BY <2>4 DEF ReadData, Closing, ImpEnd, TypeOK, ctlVars, zVars, rcvVars
  <2>5. ASSUME NEW d \in Dir, ReadEof(d) PROVE Closing
    BY <2>5 DEF ReadEof, Closing, ImpEnd, TypeOK, ctlVars, zVars, rcvVars
  <2>6. ASSUME NEW d \in Dir, PutOk(d) PROVE Closing
    BY <2>6 DEF PutOk, Closing, ImpEnd, TypeOK, ctlVars, zVars, rcvVars,
       Publish
  <2>7. ASSUME NEW d \in Dir, PutErr(d) PROVE Closing
    BY <2>7 DEF PutErr, Closing, ImpEnd, TypeOK, ctlVars, zVars, rcvVars,
       Cancel, Snd, Dir, End
  <2>8. ASSUME NEW d \in Dir, ReadErr(d) PROVE Closing
    BY <2>8 DEF ReadErr, Closing, ImpEnd, TypeOK, ctlVars, zVars, rcvVars,
       Cancel, Snd, Dir, End
  <2>9. ASSUME NEW d \in Dir, ReaderCancelled(d) PROVE Closing
    BY <2>9 DEF ReaderCancelled, Closing, ImpEnd, TypeOK, ctlVars, zVars,
       rcvVars
  <2>10. ASSUME NEW d \in Dir, Take(d) PROVE Closing
    BY <2>10 DEF Take, Closing, ImpEnd, TypeOK, ctlVars, zVars, rcvVars,
       TaskEnd, Dir
  <2>11. ASSUME NEW d \in Dir, WriteOk(d) PROVE Closing
    BY <2>11 DEF WriteOk, Closing, ImpEnd, TypeOK, ctlVars, zVars, rcvVars,
       TaskEnd, Dir
  <2>12. ASSUME NEW d \in Dir, WriteErr(d) PROVE Closing
    BY <2>12 DEF WriteErr, Closing, ImpEnd, TypeOK, ctlVars, zVars, rcvVars,
       Cancel, Rcv, TaskEnd, Dir, End
  <2>13. ASSUME NEW d \in Dir, ChannelClosed(d) PROVE Closing
    BY <2>13 DEF ChannelClosed, Closing, ImpEnd, TypeOK, ctlVars, zVars,
       rcvVars, Cancel, Rcv, TaskEnd, Dir, End
  <2>14. ASSUME NEW d \in Dir, WriterCancelled(d) PROVE Closing
    BY <2>14 DEF WriterCancelled, Closing, ImpEnd, TypeOK, ctlVars, zVars,
       rcvVars, Rcv, TaskEnd, Dir, End
  <2>15. ASSUME NEW e \in End, Watchdog(e) PROVE Closing
    BY <2>15 DEF Watchdog, Closing, ImpEnd, TypeOK, ctlVars, zVars, rcvVars,
       ReadDir, WriteDir, TaskEnd, Dir, End
  <2>16. ASSUME ImpDeclare PROVE Closing
    BY <2>16 DEF ImpDeclare, Closing, ImpEnd, TypeOK, ctlVars, zVars,
       rcvVars, Goto, End
  <2>17. ASSUME ImpToken PROVE Closing
    BY <2>17 DEF ImpToken, Closing, ImpEnd, TypeOK, ctlVars, zVars, rcvVars,
       Goto, End
  <2>18. ASSUME ImpGate PROVE Closing
    BY <2>18 DEF ImpGate, Closing, ImpEnd, TypeOK, ctlVars, zVars, rcvVars,
       Goto, End
  <2>19. ASSUME ImpInitialPut PROVE Closing
    BY <2>19 DEF ImpInitialPut, Closing, ImpEnd, TypeOK, ctlVars, zVars,
       rcvVars, Goto, Publish, Dir, End
  <2>20. ASSUME ImpStart PROVE Closing
    BY <2>20 DEF ImpStart, Closing, ImpEnd, TypeOK, ctlVars, zVars, rcvVars,
       Spawn, ReadDir, WriteDir, Goto, Dir, End
  <2>21. ASSUME ImpFail PROVE Closing
    BY <2>21 DEF ImpFail, Closing, ImpEnd, TypeOK, ctlVars, zVars, rcvVars,
       Goto, Undeclare, ReadDir, WriteDir, Dir, End
  <2>22. ASSUME ImpErrorSignal PROVE Closing
    BY <2>22 DEF ImpErrorSignal, Closing, ImpEnd, TypeOK, ctlVars, zVars,
       rcvVars, Cancel, End
  <2>23. ASSUME ImpShutdown PROVE Closing
    BY <2>23 DEF ImpShutdown, Closing, ImpEnd, TypeOK, ctlVars, zVars,
       rcvVars, Cancel, End
  <2>24. ASSUME ImpJoin PROVE Closing
    BY <2>24 DEF ImpJoin, Closing, ImpEnd, TypeOK, ctlVars, zVars, rcvVars,
       Goto, TasksEnded, Undeclare, ReadDir, WriteDir, Dir, End
  <2>25. ASSUME ImpFinish PROVE Closing
    BY <2>25 DEF ImpFinish, Closing, ImpEnd, TypeOK, ctlVars, zVars,
       rcvVars, Goto, End
  <2>26. ASSUME ExpConnect PROVE Closing
    BY <2>26 DEF ExpConnect, Closing, ImpEnd, TypeOK, ctlVars, zVars,
       rcvVars, Goto, End
  <2>27. ASSUME ExpTokenGone PROVE Closing
    BY <2>27 DEF ExpTokenGone, Closing, ImpEnd, TypeOK, ctlVars, zVars,
       rcvVars, Goto, End
  <2>28. ASSUME ExpDrain PROVE Closing
    BY <2>28 DEF ExpDrain, Closing, ImpEnd, TypeOK, ctlVars, zVars, rcvVars,
       Goto, End
  <2>29. ASSUME ExpDialOk PROVE Closing
    BY <2>29 DEF ExpDialOk, Closing, ImpEnd, TypeOK, ctlVars, zVars,
       rcvVars, Goto, End
  <2>30. ASSUME ExpDialCancelled PROVE Closing
    BY <2>30 DEF ExpDialCancelled, Closing, ImpEnd, TypeOK, ctlVars, zVars,
       rcvVars, Goto, End
  <2>31. ASSUME ExpSubscribe PROVE Closing
    BY <2>31 DEF ExpSubscribe, Closing, ImpEnd, TypeOK, ctlVars, zVars,
       rcvVars, Goto, End
  <2>32. ASSUME ExpStart PROVE Closing
    BY <2>32 DEF ExpStart, Closing, ImpEnd, TypeOK, ctlVars, zVars, rcvVars,
       Spawn, ReadDir, WriteDir, Goto, Dir, End, TaskInv
  <2>33. ASSUME ExpFail PROVE Closing
    BY <2>33 DEF ExpFail, Closing, ImpEnd, TypeOK, ctlVars, zVars, rcvVars,
       Goto, Undeclare, ReadDir, WriteDir, Dir, End
  <2>34. ASSUME ExpExtCancel PROVE Closing
    BY <2>34 DEF ExpExtCancel, Closing, ImpEnd, TypeOK, ctlVars, zVars,
       rcvVars, Cancel, End
  <2>35. ASSUME ExpJoin PROVE Closing
    BY <2>35 DEF ExpJoin, Closing, ImpEnd, TypeOK, ctlVars, zVars, rcvVars,
       Goto, Undeclare, ReadDir, WriteDir, Dir, End
  <2>36. ASSUME ExpSignal PROVE Closing
    BY <2>36 DEF ExpSignal, Closing, ImpEnd, TypeOK, ctlVars, zVars,
       rcvVars, Goto, End
  <2>37. ASSUME ExpSignalFail PROVE Closing
    BY <2>37 DEF ExpSignalFail, Closing, ImpEnd, TypeOK, ctlVars, zVars,
       rcvVars, Goto, End
  <2>38. ASSUME Terminated PROVE Closing
    BY <2>38 DEF Terminated, Closing, ImpEnd, vars, ctlVars, zVars, rcvVars
  <2>39. ASSUME UNCHANGED vars PROVE Closing
    BY <2>39 DEF Closing, ImpEnd, vars, ctlVars, zVars, rcvVars
  <2> QED
    BY <2>1, <2>2, <2>3, <2>4, <2>5, <2>6, <2>7, <2>8, <2>9, <2>10, <2>11,
       <2>12, <2>13, <2>14, <2>15, <2>16, <2>17, <2>18, <2>19, <2>20, <2>21,
       <2>22, <2>23, <2>24, <2>25, <2>26, <2>27, <2>28, <2>29, <2>30, <2>31,
       <2>32, <2>33, <2>34, <2>35, <2>36, <2>37, <2>38, <2>39
    DEF Next, Zenoh, Reader, Writer, Import, Export

-----------------------------------------------------------------------------
(* What the FIN and the outcome Completed mean.                            *)

\* A direction that is clean after a step was clean before it, and nothing more
\* is written once the writer has ended.
LEMMA StillClean ==
  ASSUME TypeOK, TypeOK', TaskInv, [Next]_vars, NEW c \in Dir
  PROVE  /\ Clean(c)' => Clean(c)
         /\ wr[c] = "eof" => delivered'[c] = delivered[c]
<1>1. CASE Frame(c)
  BY <1>1 DEF Frame
<1>2. CASE Lose(c)
  BY <1>2 DEF Lose, Clean, rcvVars
<1>3. CASE Deliver(c)
  BY <1>3, CancelFacts DEF Deliver, Clean
<1>4. CASE Take(c) \/ WriteOk(c)
  BY <1>4 DEF Take, WriteOk, Clean, zVars
<1>5. CASE Puts(c)
  <2>1. PICK n \in Nat : Publish(c, n)
    BY <1>5 DEF Puts
  <2>2. silent[c] => silent'[c]
    BY <2>1 DEF Publish, TypeOK
  <2>3. QED
    BY <1>5, <2>2 DEF Puts, Clean
<1>6. QED
  BY <1>1, <1>2, <1>3, <1>4, <1>5, FrameOrMove DEF Moves

\* The FIN of a clean direction follows the whole stream.
FinInv ==
  \A c \in Dir :
    /\ FinEof(c)
    /\ Clean(c) /\ sink[c] = "fin" => eofAt[c] = Len(delivered[c]) + 1

\* Every step keeps FinInv.
LEMMA FinStep ==
  ASSUME TypeOK, TypeOK', TaskInv, PipeClean, FinInv, [Next]_vars
  PROVE  FinInv'
<1> SUFFICES ASSUME NEW c \in Dir
             PROVE  /\ FinEof(c)'
                    /\ Clean(c)' /\ sink'[c] = "fin" =>
                         eofAt'[c] = Len(delivered'[c]) + 1
  BY DEF FinInv
<1>1. Sinks(c)
  BY SinkStep DEF FinInv
<1>2. FinEof(c)'
  BY <1>1 DEF Sinks
<1>3. ASSUME Clean(c)', sink'[c] = "fin"
      PROVE  eofAt'[c] = Len(delivered'[c]) + 1
  <2>1. Clean(c) /\ PipeInv(c) /\ wr'[c] = "eof"
    BY <1>2, <1>3, StillClean DEF PipeClean, FinEof
  <2>2. CASE wr[c] = "eof"
    <3>1. eofAt[c] = Len(delivered[c]) + 1
      BY <2>1, <2>2 DEF FinInv, FinEof
    <3>2. eofAt[c] # 0
      BY <3>1, DirTypes
    <3>3. QED
      BY <1>1, <2>2, <3>1, <3>2, StillClean DEF Sinks
  <2>3. CASE WriteOk(c) /\ hand[c] = eofAt[c]
    <3>1. delivered'[c] = delivered[c] /\ eofAt'[c] = eofAt[c]
      BY <2>3 DEF WriteOk, sndVars
    <3>2. wr[c] \notin TaskEnd /\ Writing(c)
      BY <2>3 DEF WriteOk, Writing, TaskEnd
    <3>3. hand[c] = Len(delivered[c]) + 1
      BY <2>1, <3>2 DEF PipeInv, Contiguous
    <3>4. QED
      BY <2>3, <3>1, <3>3
  <2>4. QED
    BY <1>1, <2>1, <2>2, <2>3 DEF Sinks
<1>4. QED
  BY <1>2, <1>3

\* The FIN invariant holds in every behaviour.
THEOREM FinCorrect == Spec => []FinInv
<1>1. Init => FinInv
  BY DEF Init, FinInv, FinEof
<1>2. TypeOK /\ TypeOK' /\ TaskInv /\ PipeClean /\ FinInv /\ [Next]_vars => FinInv'
  BY FinStep
<1>3. QED
  BY <1>1, <1>2, TypeCorrect, TasksCorrect, PipelineContiguous, PTL DEF Spec

\* Stream mode: a forwarded FIN means that the peer has the whole stream, under
\* the exceptions of byte exactness (the send_eof of both bridges).
THEOREM FinIsWhole == Spec => []FinMeansWhole
<1>1. PipeClean /\ FinInv => FinMeansWhole
  BY DEF PipeClean, PipeInv, FinInv, Clean, Count, FinMeansWhole, Whole, Exact
<1>2. QED
  BY <1>1, PipelineContiguous, FinCorrect, PTL

\* What a Completed import rests on.
DoneInv ==
  /\ ImpEnd
  /\ outcome["imp"] = "Completed" =>
       /\ phase["imp"] = "done" /\ wr["down"] = "eof"
       /\ Stream => \/ silent["down"]
                    \/ /\ Count(delivered["down"])
                       /\ eofAt["down"] = Len(delivered["down"]) + 1

\* Every step keeps DoneInv.
LEMMA DoneStep ==
  ASSUME TypeOK, TypeOK', TaskInv, PipeClean, FinInv, DoneInv, [Next]_vars
  PROVE  DoneInv'
<1>1. "down" \in Dir /\ Rcv("down") = "imp"
  BY EndFacts DEF Dir
<1>2. Closing /\ Sinks("down")
  BY <1>1, ClosingStep, SinkStep DEF DoneInv, FinInv
<1>3. wr["down"] = "eof" => delivered'["down"] = delivered["down"]
  BY <1>1, StillClean
<1>4. CASE outcome'["imp"] = outcome["imp"]
  <2>1. eofAt["down"] = Len(delivered["down"]) + 1 => eofAt["down"] # 0
    BY <1>1, DirTypes
  <2>2. QED
    BY <1>2, <1>3, <1>4, <2>1 DEF DoneInv, Closing, Sinks
<1>5. CASE ImpFinish
  <2>1. /\ phase["imp"] = "joined" /\ phase'["imp"] = "done"
        /\ outcome'["imp"] = "Completed" => ~cancel["imp"]
    BY <1>5 DEF ImpFinish, Goto, TypeOK, End
  <2>2. UNCHANGED <<wr, silent, delivered, eofAt, cancel, sink>>
    BY <1>5 DEF ImpFinish, sndVars, zVars, rcvVars
  <2>3. ASSUME outcome'["imp"] = "Completed" PROVE wr["down"] = "eof"
    BY <2>1, <2>3 DEF DoneInv, ImpEnd, TaskEnd
  <2>4. ASSUME outcome'["imp"] = "Completed", Stream, ~silent["down"]
        PROVE  /\ Count(delivered["down"])
               /\ eofAt["down"] = Len(delivered["down"]) + 1
    <3>1. Clean("down")
      BY <1>1, <2>1, <2>4 DEF Clean
    <3>2. sink["down"] = "fin"
      BY <1>1, <2>3, <2>4 DEF FinInv, FinEof
    <3>3. QED
      BY <1>1, <3>1, <3>2 DEF PipeClean, PipeInv, FinInv
  <2>5. QED
    BY <1>2, <2>1, <2>2, <2>3, <2>4 DEF DoneInv, Closing
<1>6. QED
  BY <1>2, <1>4, <1>5 DEF Closing

\* Stream mode: an import connection recorded as Completed gave its client the
\* backend's whole response and its FIN (import/bridge.rs, ConnectionOutcome).
THEOREM CompletedIsWhole == Spec => []ImportCompletedIsWhole
<1>1. Init => DoneInv
  BY DEF Init, DoneInv, ImpEnd, Dir, End
<1>2. /\ TypeOK /\ TypeOK' /\ TaskInv /\ PipeClean /\ FinInv
      /\ DoneInv /\ [Next]_vars
      => DoneInv'
  BY DoneStep
<1>3. FinInv /\ DoneInv => ImportCompletedIsWhole
  BY DEF FinInv, FinEof, DoneInv, Count, ImportCompletedIsWhole, Whole, Exact,
     Dir
<1>4. QED
  BY <1>1, <1>2, <1>3, TypeCorrect, TasksCorrect, PipelineContiguous,
     FinCorrect, PTL DEF Spec
=============================================================================
