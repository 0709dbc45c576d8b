-------------------------- MODULE RelayPipeProofs --------------------------
(***************************************************************************)
(* TLAPS proof that each direction of Relay implements BytePipe, for every *)
(* stream length, channel capacity, cache size, loss budget and set of     *)
(* faults, in both reliability modes.                                      *)
(***************************************************************************)
EXTENDS RelayProofs

-----------------------------------------------------------------------------
(* What a step can do at the two ends of a direction.                      *)

\* The peer's read side is open as long as the writer runs, a FIN is an EOF
\* marker written, and a sample to publish has been read.
Edge(c) ==
  /\ sink[c] = "open" <=> wr[c] \notin TaskEnd
  /\ FinEof(c)
  /\ rd[c] = "putting" => read[c] > 0

\* An end that is still at work has recorded no outcome.
Reported ==
  /\ phase["imp"] # "done" => outcome["imp"] = "none"
  /\ phase["exp"] \notin {"signal", "done"} => outcome["exp"] = "none"

Quiet(c) ==
  /\ read'[c] = read[c] /\ eofAt'[c] = eofAt[c]
  /\ delivered'[c] = delivered[c] /\ sink'[c] = sink[c]
  /\ outcome'[Rcv(c)] = outcome[Rcv(c)]

Reads(c) ==
  /\ eofAt[c] = 0
  /\ read'[c] = read[c] + 1
  /\ eofAt'[c] = eofAt[c] \/ eofAt'[c] = read[c] + 1
  /\ delivered'[c] = delivered[c] /\ sink'[c] = sink[c]
  /\ outcome'[Rcv(c)] = outcome[Rcv(c)]

Aborts(c) ==
  /\ sink[c] = "open" /\ sink'[c] \in {"shut", "dropped"}
  /\ read'[c] = read[c] /\ eofAt'[c] = eofAt[c]
  /\ delivered'[c] = delivered[c]
  /\ outcome'[Rcv(c)] = outcome[Rcv(c)]

Reports(c) ==
  /\ outcome[Rcv(c)] = "none"
  /\ outcome'[Rcv(c)] \in {"Completed", "Reset", "Failed"}
  /\ outcome'[Rcv(c)] = "Completed" => sink[c] = "fin"
  /\ read'[c] = read[c] /\ eofAt'[c] = eofAt[c]
  /\ delivered'[c] = delivered[c] /\ sink'[c] = sink[c]

Kept(c) ==
  /\ Edge(c)'
  /\ Reported'
  /\ Broken(c) => Broken(c)'
  /\ Quiet(c) \/ Reads(c) \/ Aborts(c) \/ Reports(c) \/ WriteOk(c)

\* Every step is one of these, and keeps Edge and Reported.
LEMMA EdgeStep ==
  ASSUME TypeOK, TaskInv, ImpEnd, Reported, [Next]_vars,
         NEW c \in Dir, Edge(c)
  PROVE  Kept(c)
<1>1. QED
  <2>1. ASSUME NEW d \in Dir, Lose(d) PROVE Kept(c)
    BY <2>1 DEF Kept, Edge, Reported, FinEof, Quiet, Reads, Aborts, Reports,
       Broken, Rcv, Lose, TypeOK, ctlVars, zVars, rcvVars, sndVars, Dir,
       End, TaskEnd
  <2>2. ASSUME NEW d \in Dir, ReportMiss(d) PROVE Kept(c)
    BY <2>2 DEF Kept, Edge, Reported, FinEof, Quiet, Reads, Aborts, Reports,
       Broken, Rcv, ReportMiss, TypeOK, ctlVars, zVars, rcvVars, Cancel,
       Dir, End, sndVars, TaskEnd
  <2>3. ASSUME NEW d \in Dir, Deliver(d) PROVE Kept(c)
    BY <2>3 DEF Kept, Edge, Reported, FinEof, Quiet, Reads, Aborts, Reports,
       Broken, Rcv, Deliver, TypeOK, ctlVars, zVars, rcvVars, Cancel, Dir,
       End, sndVars, TaskEnd
  <2>4. ASSUME NEW d \in Dir, ReadData(d) PROVE Kept(c)
    BY <2>4 DEF Kept, Edge, Reported, FinEof, Quiet, Reads, Aborts, Reports,
       Broken, Rcv, ReadData, TypeOK, ctlVars, zVars, rcvVars, sndVars,
       Reading, Dir, End, TaskEnd, TaskInv
  <2>5. ASSUME NEW d \in Dir, ReadEof(d) PROVE Kept(c)
    BY <2>5 DEF Kept, Edge, Reported, FinEof, Quiet, Reads, Aborts, Reports,
       Broken, Rcv, ReadEof, TypeOK, ctlVars, zVars, rcvVars, sndVars,
       Reading, TaskInv, Dir, End, TaskEnd
  <2>6. ASSUME NEW d \in Dir, PutOk(d) PROVE Kept(c)
    BY <2>6 DEF Kept, Edge, Reported, FinEof, Quiet, Reads, Aborts, Reports,
       Broken, Rcv, PutOk, TypeOK, ctlVars, zVars, rcvVars, Publish,
       sndVars, Dir, End, TaskEnd
  <2>7. ASSUME NEW d \in Dir, PutErr(d) PROVE Kept(c)
    BY <2>7 DEF Kept, Edge, Reported, FinEof, Quiet, Reads, Aborts, Reports,
       Broken, Rcv, PutErr, TypeOK, ctlVars, zVars, rcvVars, Cancel, Snd,
       Dir, End, sndVars, TaskEnd
  <2>8. ASSUME NEW d \in Dir, ReadErr(d) PROVE Kept(c)
    BY <2>8 DEF Kept, Edge, Reported, FinEof, Quiet, Reads, Aborts, Reports,
       Broken, Rcv, ReadErr, TypeOK, ctlVars, zVars, rcvVars, Cancel, Snd,
       Dir, End, sndVars, TaskEnd
  <2>9. ASSUME NEW d \in Dir, ReaderCancelled(d) PROVE Kept(c)
    BY <2>9 DEF Kept, Edge, Reported, FinEof, Quiet, Reads, Aborts, Reports,
       Broken, Rcv, ReaderCancelled, TypeOK, ctlVars, zVars, rcvVars,
       sndVars, Dir, End, TaskEnd
  <2>10. ASSUME NEW d \in Dir, Take(d) PROVE Kept(c)
    BY <2>10 DEF Kept, Edge, Reported, FinEof, Quiet, Reads, Aborts,
       Reports, Broken, Rcv, Take, TypeOK, ctlVars, zVars, rcvVars, TaskEnd,
       Dir, sndVars, End
  <2>11. ASSUME NEW d \in Dir, WriteOk(d) PROVE Kept(c)
    BY <2>11 DEF Kept, Edge, Reported, FinEof, Quiet, Reads, Aborts,
       Reports, Broken, Rcv, WriteOk, TypeOK, ctlVars, zVars, rcvVars,
       TaskEnd, Dir, sndVars, End
  <2>12. ASSUME NEW d \in Dir, WriteErr(d) PROVE Kept(c)
    BY <2>12 DEF Kept, Edge, Reported, FinEof, Quiet, Reads, Aborts,
       Reports, Broken, Rcv, WriteErr, TypeOK, ctlVars, zVars, rcvVars,
       Cancel, TaskEnd, Dir, End, sndVars
  <2>13. ASSUME NEW d \in Dir, ChannelClosed(d) PROVE Kept(c)
    BY <2>13 DEF Kept, Edge, Reported, FinEof, Quiet, Reads, Aborts,
       Reports, Broken, Rcv, ChannelClosed, TypeOK, ctlVars, zVars, rcvVars,
       Cancel, TaskEnd, Dir, End, sndVars
  <2>14. ASSUME NEW d \in Dir, WriterCancelled(d) PROVE Kept(c)
    BY <2>14 DEF Kept, Edge, Reported, FinEof, Quiet, Reads, Aborts,
       Reports, Broken, Rcv, WriterCancelled, TypeOK, ctlVars, zVars,
       rcvVars, TaskEnd, Dir, End, sndVars
  <2>15. ASSUME NEW e \in End, Watchdog(e) PROVE Kept(c)
    BY <2>15 DEF Kept, Edge, Reported, FinEof, Quiet, Reads, Aborts,
       Reports, Broken, Rcv, Watchdog, TypeOK, ctlVars, zVars, rcvVars,
       ReadDir, WriteDir, TaskEnd, Dir, End, sndVars, TaskInv
  <2>16. ASSUME ImpDeclare PROVE Kept(c)
    BY <2>16 DEF Kept, Edge, Reported, FinEof, Quiet, Reads, Aborts,
       Reports, Broken, Rcv, ImpDeclare, TypeOK, ctlVars, zVars, rcvVars,
       Goto, End, sndVars, Dir, TaskEnd
  <2>17. ASSUME ImpToken PROVE Kept(c)
    BY <2>17 DEF Kept, Edge, Reported, FinEof, Quiet, Reads, Aborts,
       Reports, Broken, Rcv, ImpToken, TypeOK, ctlVars, zVars, rcvVars,
       Goto, End, sndVars, Dir, TaskEnd
  <2>18. ASSUME ImpGate PROVE Kept(c)
    BY <2>18 DEF Kept, Edge, Reported, FinEof, Quiet, Reads, Aborts,
       Reports, Broken, Rcv, ImpGate, TypeOK, ctlVars, zVars, rcvVars, Goto,
       End, sndVars, Dir, TaskEnd
  <2>19. ASSUME ImpInitialPut PROVE Kept(c)
    BY <2>19 DEF Kept, Edge, Reported, FinEof, Quiet, Reads, Aborts,
       Reports, Broken, Rcv, ImpInitialPut, TypeOK, ctlVars, zVars, rcvVars,
       Goto, Publish, Dir, End, sndVars, TaskEnd, TaskInv
  <2>20. ASSUME ImpStart PROVE Kept(c)
    BY <2>20 DEF Kept, Edge, Reported, FinEof, Quiet, Reads, Aborts,
       Reports, Broken, Rcv, ImpStart, TypeOK, ctlVars, zVars, rcvVars,
       Spawn, ReadDir, WriteDir, Goto, Dir, End, sndVars, TaskInv, TaskEnd
  <2>21. ASSUME ImpFail PROVE Kept(c)
    BY <2>21 DEF Kept, Edge, Reported, FinEof, Quiet, Reads, Aborts,
       Reports, Broken, Rcv, ImpFail, TypeOK, ctlVars, zVars, rcvVars, Goto,
       Undeclare, ReadDir, WriteDir, Dir, End, sndVars, TaskInv, TaskEnd
  <2>22. ASSUME ImpErrorSignal PROVE Kept(c)
    BY <2>22 DEF Kept, Edge, Reported, FinEof, Quiet, Reads, Aborts,
       Reports, Broken, Rcv, ImpErrorSignal, TypeOK, ctlVars, zVars,
       rcvVars, Cancel, End, sndVars, Dir, TaskEnd
  <2>23. ASSUME ImpShutdown PROVE Kept(c)
    BY <2>23 DEF Kept, Edge, Reported, FinEof, Quiet, Reads, Aborts,
       Reports, Broken, Rcv, ImpShutdown, TypeOK, ctlVars, zVars, rcvVars,
       Cancel, End, sndVars, Dir, TaskEnd
  <2>24. ASSUME ImpJoin PROVE Kept(c)
    BY <2>24 DEF Kept, Edge, Reported, FinEof, Quiet, Reads, Aborts,
       Reports, Broken, Rcv, ImpJoin, TypeOK, ctlVars, zVars, rcvVars, Goto,
       TasksEnded, Undeclare, ReadDir, WriteDir, Dir, End, sndVars, TaskEnd
  <2>25. ASSUME ImpFinish PROVE Kept(c)
    BY <2>25 DEF Kept, Edge, Reported, FinEof, Quiet, Reads, Aborts,
       Reports, Broken, Rcv, ImpFinish, ImpEnd, TypeOK, ctlVars, zVars, rcvVars,
       Goto, End, sndVars, Dir, TaskEnd
  <2>26. ASSUME ExpConnect PROVE Kept(c)
    BY <2>26 DEF Kept, Edge, Reported, FinEof, Quiet, Reads, Aborts,
       Reports, Broken, Rcv, ExpConnect, TypeOK, ctlVars, zVars, rcvVars,
       Goto, End, sndVars, Dir, TaskEnd
  <2>27. ASSUME ExpTokenGone PROVE Kept(c)
    BY <2>27 DEF Kept, Edge, Reported, FinEof, Quiet, Reads, Aborts,
       Reports, Broken, Rcv, ExpTokenGone, TypeOK, ctlVars, zVars, rcvVars,
       Goto, End, sndVars, Dir, TaskEnd
  <2>28. ASSUME ExpDrain PROVE Kept(c)
    BY <2>28 DEF Kept, Edge, Reported, FinEof, Quiet, Reads, Aborts,
       Reports, Broken, Rcv, ExpDrain, TypeOK, ctlVars, zVars, rcvVars,
       Goto, End, sndVars, Dir, TaskEnd
  <2>29. ASSUME ExpDialOk PROVE Kept(c)
    BY <2>29 DEF Kept, Edge, Reported, FinEof, Quiet, Reads, Aborts,
       Reports, Broken, Rcv, ExpDialOk, TypeOK, ctlVars, zVars, rcvVars,
       Goto, End, sndVars, Dir, TaskEnd
  <2>30. ASSUME ExpDialCancelled PROVE Kept(c)
    BY <2>30 DEF Kept, Edge, Reported, FinEof, Quiet, Reads, Aborts,
       Reports, Broken, Rcv, ExpDialCancelled, TypeOK, ctlVars, zVars,
       rcvVars, Goto, End, sndVars, Dir, TaskEnd
  <2>31. ASSUME ExpSubscribe PROVE Kept(c)
    BY <2>31 DEF Kept, Edge, Reported, FinEof, Quiet, Reads, Aborts,
       Reports, Broken, Rcv, ExpSubscribe, TypeOK, ctlVars, zVars, rcvVars,
       Goto, End, sndVars, Dir, TaskEnd
  <2>32. ASSUME ExpStart PROVE Kept(c)
    BY <2>32 DEF Kept, Edge, Reported, FinEof, Quiet, Reads, Aborts,
       Reports, Broken, Rcv, ExpStart, TypeOK, ctlVars, zVars, rcvVars,
       Spawn, ReadDir, WriteDir, Goto, Dir, End, TaskInv, sndVars, TaskEnd
  <2>33. ASSUME ExpFail PROVE Kept(c)
    BY <2>33 DEF Kept, Edge, Reported, FinEof, Quiet, Reads, Aborts,
       Reports, Broken, Rcv, ExpFail, TypeOK, ctlVars, zVars, rcvVars, Goto,
       Undeclare, ReadDir, WriteDir, Dir, End, sndVars, TaskInv, TaskEnd
  <2>34. ASSUME ExpExtCancel PROVE Kept(c)
    BY <2>34 DEF Kept, Edge, Reported, FinEof, Quiet, Reads, Aborts,
       Reports, Broken, Rcv, ExpExtCancel, TypeOK, ctlVars, zVars, rcvVars,
       Cancel, End, sndVars, Dir, TaskEnd
  <2>35. ASSUME ExpJoin PROVE Kept(c)
    BY <2>35 DEF Kept, Edge, Reported, FinEof, Quiet, Reads, Aborts,
       Reports, Broken, Rcv, ExpJoin, TypeOK, ctlVars, zVars, rcvVars, Goto,
       Undeclare, ReadDir, WriteDir, Dir, End, sndVars, TaskEnd,
       fold_outcome, TasksEnded
  <2>36. ASSUME ExpSignal PROVE Kept(c)
    BY <2>36 DEF Kept, Edge, Reported, FinEof, Quiet, Reads, Aborts,
       Reports, Broken, Rcv, ExpSignal, TypeOK, ctlVars, zVars, rcvVars,
       Goto, End, sndVars, Dir, TaskEnd
  <2>37. ASSUME ExpSignalFail PROVE Kept(c)
    BY <2>37 DEF Kept, Edge, Reported, FinEof, Quiet, Reads, Aborts,
       Reports, Broken, Rcv, ExpSignalFail, TypeOK, ctlVars, zVars, rcvVars,
       Goto, End, sndVars, Dir, TaskEnd
  <2>38. ASSUME Terminated PROVE Kept(c)
    BY <2>38 DEF Kept, Edge, Reported, FinEof, Quiet, Reads, Aborts,
       Reports, Broken, Rcv, Terminated, vars, ctlVars, zVars, rcvVars,
       sndVars, Dir, End, TaskEnd
  <2>39. ASSUME UNCHANGED vars PROVE Kept(c)
    BY <2>39 DEF Kept, Edge, Reported, FinEof, Quiet, Reads, Aborts,
       Reports, Broken, Rcv, vars, ctlVars, zVars, rcvVars, sndVars, Dir,
       End, TaskEnd
  <2> QED
    BY <2>1, <2>2, <2>3, <2>4, <2>5, <2>6, <2>7, <2>8, <2>9, <2>10, <2>11,
       <2>12, <2>13, <2>14, <2>15, <2>16, <2>17, <2>18, <2>19, <2>20, <2>21,
       <2>22, <2>23, <2>24, <2>25, <2>26, <2>27, <2>28, <2>29, <2>30, <2>31,
       <2>32, <2>33, <2>34, <2>35, <2>36, <2>37, <2>38, <2>39
    DEF Next, Zenoh, Reader, Writer, Import, Export

EdgeInv == Reported /\ \A c \in Dir : Edge(c)

\* Edge and Reported hold in every behaviour, with what a Completed rests on.
THEOREM EdgesCorrect == Spec => [](EdgeInv /\ DoneInv)
<1>1. Init => EdgeInv /\ DoneInv
  BY DEF Init, EdgeInv, Edge, Reported, FinEof, TaskEnd, DoneInv, ImpEnd, Dir, End
<1>2. /\ TypeOK /\ TypeOK' /\ TaskInv /\ PipeClean /\ FinInv
      /\ EdgeInv /\ DoneInv /\ [Next]_vars
      => EdgeInv' /\ DoneInv'
  <2> SUFFICES ASSUME TypeOK, TypeOK', TaskInv, PipeClean, FinInv,
                      EdgeInv, DoneInv, [Next]_vars
               PROVE  EdgeInv' /\ DoneInv'
    OBVIOUS
  <2>1. \A c \in Dir : Kept(c)
    BY EdgeStep DEF EdgeInv, DoneInv
  <2>2. "up" \in Dir
    BY DEF Dir
  <2>3. EdgeInv'
    BY <2>1, <2>2 DEF EdgeInv, Kept
  <2>4. QED
    BY <2>3, DoneStep
<1>3. QED
  BY <1>1, <1>2, TypeCorrect, TasksCorrect, PipelineContiguous, FinCorrect,
     PTL DEF Spec

-----------------------------------------------------------------------------
(* Every sample on its way has a number above 0.                           *)

Numbered(c) ==
  /\ AllAbove(wire[c], 0) /\ AllAbove(chan[c], 0)
  /\ Writing(c) => 0 < hand[c]

\* A queue of such samples keeps the property when one is appended.
LEMMA AboveAppend ==
  ASSUME NEW s \in Seq(Nat), NEW n \in Nat, AllAbove(s, 0), 0 < n
  PROVE  AllAbove(Append(s, n), 0)
  BY AppendCases DEF AllAbove

\* Every step keeps them numbered.
LEMMA NumberedStep ==
  ASSUME TypeOK, TypeOK', TaskInv, [Next]_vars, NEW c \in Dir, Edge(c),
         Numbered(c)
  PROVE  Numbered(c)'
<1>1. /\ chan[c] \in Seq(Nat) /\ wire[c] \in Seq(Nat) /\ hand[c] \in Nat
  BY DirTypes
<1>2. /\ wire[c] # <<>> => AllAbove(Tail(wire[c]), 0) /\ 0 < Head(wire[c])
      /\ chan[c] # <<>> => AllAbove(Tail(chan[c]), 0) /\ 0 < Head(chan[c])
  BY <1>1, TailOrder DEF Numbered
<1>3. CASE Frame(c)
  <2>1. AllAbove(wire'[c], 0)
    BY <1>3 DEF Frame, Numbered, AllAbove
  <2>2. AllAbove(chan'[c], 0)
    BY <1>3 DEF Frame, Numbered
  <2>3. Writing(c)' => 0 < hand'[c]
    BY <1>3 DEF Frame, Numbered, Writing, TaskEnd
  <2>4. QED
    BY <2>1, <2>2, <2>3 DEF Numbered
<1>4. CASE Lose(c)
  BY <1>2, <1>4 DEF Lose, Numbered, TypeOK, rcvVars, Writing
<1>5. CASE Deliver(c)
  <2>1. Head(wire[c]) \in Nat
    BY <1>1, <1>5, TailFacts DEF Deliver
  <2>2. chan'[c] = chan[c] \/ chan'[c] = Append(chan[c], Head(wire[c]))
    BY <1>5 DEF Deliver, TypeOK
  <2>3. AllAbove(chan'[c], 0)
    BY <1>1, <1>2, <1>5, <2>1, <2>2, AboveAppend DEF Deliver, Numbered
  <2>4. wire'[c] = Tail(wire[c]) /\ wire[c] # <<>> /\ UNCHANGED <<wr, hand>>
    BY <1>5 DEF Deliver, TypeOK
  <2>5. QED
    BY <1>2, <2>3, <2>4 DEF Numbered, Writing
<1>6. CASE Take(c)
  <2>1. /\ chan[c] # <<>> /\ chan'[c] = Tail(chan[c])
        /\ hand'[c] = Head(chan[c]) /\ wire'[c] = wire[c]
    BY <1>6 DEF Take, TypeOK, zVars
  <2>2. QED
    BY <1>2, <2>1 DEF Numbered
<1>7. CASE WriteOk(c)
  <2>1. /\ chan'[c] = chan[c] /\ wire'[c] = wire[c] /\ ~Writing(c)'
    BY <1>7 DEF WriteOk, TypeOK, zVars, Writing
  <2>2. QED
    BY <2>1 DEF Numbered
<1>8. CASE Puts(c)
  <2>1. PICK n \in Nat : n = Last(c) + 1 /\ Last(c)' = n /\ Publish(c, n)
    BY <1>8 DEF Puts
  <2>2. 0 < n
    BY <2>1 DEF Edge, Last, TypeOK
  <2>3. wire'[c] = Append(wire[c], n) \/ wire'[c] = Tail(Append(wire[c], n))
    BY <2>1 DEF Publish, TypeOK
  <2>4. /\ Append(wire[c], n) \in Seq(Nat) /\ Append(wire[c], n) # <<>>
        /\ AllAbove(Append(wire[c], n), 0)
    BY <1>1, <2>2, AboveAppend, AppendFacts DEF Numbered
  <2>5. AllAbove(Tail(Append(wire[c], n)), 0)
    <3> DEFINE a == Append(wire[c], n)
    <3>1. a \in Seq(Nat) /\ a # <<>> /\ AllAbove(a, 0)
      BY <2>4
    <3> HIDE DEF a
    <3>2. AllAbove(Tail(a), 0)
      BY <3>1, TailOrder
    <3>3. QED
      BY <3>2 DEF a
  <2>6. QED
    BY <1>8, <2>3, <2>4, <2>5 DEF Puts, Numbered, Writing
<1>9. QED
  BY <1>3, <1>4, <1>5, <1>6, <1>7, <1>8, FrameOrMove DEF Moves

FlowInv == \A c \in Dir : OrderInv(c) /\ Numbered(c)

\* Samples are numbered from 1 and stay in order, in every behaviour.
THEOREM FlowCorrect == Spec => []FlowInv
<1>1. Init => FlowInv
  <2> SUFFICES ASSUME Init, NEW c \in Dir PROVE OrderInv(c) /\ Numbered(c)
    BY DEF FlowInv
  <2>1. /\ delivered[c] = <<>> /\ chan[c] = <<>> /\ wire[c] = <<>>
        /\ wr[c] = "off"
    BY DEF Init
  <2>2. QED
    BY <2>1 DEF OrderInv, Numbered, Ordered, Writing, Increasing, Below, UpTo,
       AllAbove
<1>2. TypeOK /\ TypeOK' /\ TaskInv /\ EdgeInv /\ FlowInv /\ [Next]_vars => FlowInv'
  BY OrderStep, NumberedStep DEF FlowInv, EdgeInv
<1>3. QED
  BY <1>1, <1>2, TypeCorrect, TasksCorrect, EdgesCorrect, PTL DEF Spec

-----------------------------------------------------------------------------
(* The refinement.                                                         *)

\* What WriteOk does, as a step of the pipe.
Emits(c) ==
  /\ sink[c] = "open"
  /\ \/ /\ sink'[c] = sink[c]
        /\ \E n \in 1..read[c] :
             /\ n # eofAt[c]
             /\ \A i \in 1..Len(delivered[c]) : delivered[c][i] < n
             /\ ~Broken(c) => n = Len(delivered[c]) + 1
             /\ delivered'[c] = Append(delivered[c], n)
     \/ /\ eofAt[c] # 0
        /\ ~Broken(c) => eofAt[c] = Len(delivered[c]) + 1
        /\ sink'[c] = "fin" /\ delivered'[c] = delivered[c]
  /\ read'[c] = read[c] /\ eofAt'[c] = eofAt[c]
  /\ outcome'[Rcv(c)] = outcome[Rcv(c)]
  /\ Broken(c)' = Broken(c)

\* A successful write hands the peer the next chunk, or the FIN.
LEMMA WriteEmits ==
  ASSUME TypeOK, PipeClean, EdgeInv, FlowInv, NEW c \in Dir, WriteOk(c)
  PROVE  Emits(c)
<1>1. sink[c] = "open" /\ Writing(c) /\ wr[c] \notin TaskEnd
  BY DEF WriteOk, EdgeInv, Edge, TaskEnd, Writing
<1>2. /\ read'[c] = read[c] /\ eofAt'[c] = eofAt[c]
      /\ outcome'[Rcv(c)] = outcome[Rcv(c)]
      /\ Broken(c)' = Broken(c)
  BY DEF WriteOk, sndVars, ctlVars, zVars, Broken
<1>3. hand[c] \in Nat /\ 0 < hand[c] /\ hand[c] <= Last(c)
  BY <1>1, DirTypes DEF FlowInv, OrderInv, Numbered, Ordered
<1>4. hand[c] \in 1..read[c]
  BY <1>3 DEF Last, TypeOK
<1>5. \A i \in 1..Len(delivered[c]) : delivered[c][i] < hand[c]
  BY <1>1 DEF FlowInv, OrderInv, Ordered, AllBelow
<1>6. ~Broken(c) => hand[c] = Len(delivered[c]) + 1
  BY <1>1 DEF PipeClean, Clean, Broken, PipeInv, Contiguous
<1>7. CASE hand[c] = eofAt[c]
  <2>1. sink'[c] = "fin" /\ delivered'[c] = delivered[c]
    BY <1>7 DEF WriteOk, TypeOK
  <2>2. QED
    BY <1>1, <1>2, <1>3, <1>6, <1>7, <2>1 DEF Emits
<1>8. CASE hand[c] # eofAt[c]
  <2>1. sink'[c] = sink[c] /\ delivered'[c] = Append(delivered[c], hand[c])
    BY <1>8 DEF WriteOk, TypeOK
  <2>2. QED
    BY <1>1, <1>2, <1>4, <1>5, <1>6, <1>8, <2>1 DEF Emits
<1>9. QED
  BY <1>7, <1>8

\* A step of one direction, seen from its ends.
Pipes(c) ==
  \/ Emits(c)
  \/ /\ Quiet(c) \/ Reads(c) \/ Aborts(c) \/ Reports(c)
     /\ Broken(c) => Broken(c)'

\* Every step of the connection is a step of each of its pipes, or none.
LEMMA PipesStep ==
  ASSUME TypeOK, TaskInv, PipeClean, EdgeInv, DoneInv, FlowInv, [Next]_vars,
         NEW c \in Dir
  PROVE  Pipes(c)
<1>1. Kept(c)
  BY EdgeStep DEF EdgeInv, DoneInv
<1>2. QED
  BY <1>1, WriteEmits DEF Kept, Pipes

\* Both directions of a connection implement BytePipe: whatever the reliability
\* mode, the capacity, the cache, the faults and the schedule, the two peers see
\* no more than the promise of that module (import/bridge.rs, export/bridge.rs).
THEOREM RelayImplementsPipe == Spec => ImplementsPipe
<1> DEFINE Inv == /\ TypeOK /\ TaskInv /\ PipeClean
                  /\ EdgeInv /\ DoneInv /\ FlowInv
<1>1. Init => Up!Init /\ Down!Init
  <2>1. ASSUME Init PROVE Broken("up") = ~Stream /\ Broken("down") = ~Stream
    BY <2>1, RelayAssumption DEF Init, Broken, Rcv, Dir, End
  <2>2. ASSUME Init, NEW c \in Dir
        PROVE  /\ read[c] = 0 /\ eofAt[c] = 0 /\ delivered[c] = <<>>
               /\ sink[c] = "open" /\ outcome["imp"] = "none"
               /\ outcome["exp"] = "none"
    BY <2>2 DEF Init, End
  <2>3. "up" \in Dir /\ "down" \in Dir
    BY DEF Dir
  <2>4. QED
    BY <2>1, <2>2, <2>3, Zenon DEF Up!Init, Down!Init
<1>2. Inv /\ [Next]_vars => [Up!Next]_(Up!pipeVars)
  <2> SUFFICES ASSUME Inv, [Next]_vars PROVE Up!Next
    OBVIOUS
  <2>1. Pipes("up") /\ Rcv("up") = "exp"
    BY PipesStep, EndFacts DEF Dir
  <2>2. CASE Emits("up")
    BY <2>1, <2>2 DEF Emits, Up!Next, Up!Receive, Up!Finish
  <2>3. CASE Quiet("up") /\ (Broken("up") => Broken("up")')
    BY <2>1, <2>3 DEF Quiet, Up!Next, Up!Break, Up!MayBreak
  <2>4. CASE Reads("up") /\ (Broken("up") => Broken("up")')
    BY <2>1, <2>4 DEF Reads, Up!Next, Up!Send, Up!HalfClose, Up!MayBreak
  <2>5. CASE Aborts("up") /\ (Broken("up") => Broken("up")')
    BY <2>1, <2>5 DEF Aborts, Up!Next, Up!Abort, Up!MayBreak
  <2>6. CASE Reports("up") /\ (Broken("up") => Broken("up")')
    BY <2>1, <2>6 DEF Reports, Up!Next, Up!Report, Up!MayBreak
  <2>7. QED
    BY <2>1, <2>2, <2>3, <2>4, <2>5, <2>6 DEF Pipes
<1>3. Inv /\ [Next]_vars => [Down!Next]_(Down!pipeVars)
  <2> SUFFICES ASSUME Inv, [Next]_vars PROVE Down!Next
    OBVIOUS
  <2>1. Pipes("down") /\ Rcv("down") = "imp"
    BY PipesStep, EndFacts DEF Dir
  <2>2. CASE Emits("down")
    BY <2>1, <2>2 DEF Emits, Down!Next, Down!Receive, Down!Finish
  <2>3. CASE Quiet("down") /\ (Broken("down") => Broken("down")')
    BY <2>1, <2>3 DEF Quiet, Down!Next, Down!Break, Down!MayBreak
  <2>4. CASE Reads("down") /\ (Broken("down") => Broken("down")')
    BY <2>1, <2>4 DEF Reads, Down!Next, Down!Send, Down!HalfClose, Down!MayBreak
  <2>5. CASE Aborts("down") /\ (Broken("down") => Broken("down")')
    BY <2>1, <2>5 DEF Aborts, Down!Next, Down!Abort, Down!MayBreak
  <2>6. CASE Reports("down") /\ (Broken("down") => Broken("down")')
    BY <2>1, <2>6 DEF Reports, Down!Next, Down!Report, Down!MayBreak
  <2>7. QED
    BY <2>1, <2>2, <2>3, <2>4, <2>5, <2>6 DEF Pipes
<1>4. Spec => []Inv
  BY TypeCorrect, TasksCorrect, PipelineContiguous, EdgesCorrect, FlowCorrect,
     PTL
<1>5. QED
  BY <1>1, <1>2, <1>3, <1>4, PTL DEF Spec, ImplementsPipe, Up!Spec, Down!Spec
=============================================================================
