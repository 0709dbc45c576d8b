--------------------------- MODULE ListenerProofs ---------------------------
(***************************************************************************)
(* TLAPS proofs about Listener, for any number of clients, any             *)
(* max_connections, any budgets and any number of failing accepts.         *)
(***************************************************************************)
EXTENDS Listener, FiniteSetTheorems, TLAPS

\* A handler is in the JoinSet, and there is none before the loop accepts or
\* after it has returned.
HandlerInv ==
  /\ Handled \subseteq tasks
  /\ loop \in {"binding", "closed"} => Handled = {}

\* Where main and the accept loop can be relative to each other.
PhaseInv ==
  /\ bound = "ok" => loop # "binding"
  /\ main \in {"running", "draining"} => bound = "ok"
  /\ ready => main = "running"
  /\ main = "draining" => stop
  /\ loop \in {"drain", "grace"} => stop
  /\ loop = "closed" => stop \/ bound = "failed"
  /\ exit = "clean" => main = "exited"

\* What is spent of main's budget, and what the accept loop's timer may still
\* spend of it, are covered by what the loop was entitled to: a back-off under
\* way at the shutdown, one for each failure since, the drain and the grace.
BudgetInv ==
  /\ loop = "backoff" => left <= 1
  /\ loop = "drain" => left <= Drain
  /\ loop = "grace" => left <= Grace
  /\ main = "draining" =>
       /\ loop \in {"permit", "accept"} => Drain + Margin <= budget + 1 + late
       /\ loop = "backoff" => Drain + Margin + left <= budget + 1 + late
       /\ loop = "drain" => Margin + left <= budget + 1 + late
       /\ loop = "grace" => Margin + left <= budget + 1 + late + Grace
  /\ DrainFits

\* Facts about the finitely many handlers.
LEMMA HandledFinite ==
  /\ IsFiniteSet(Handled)
  /\ Cardinality(Handled) \in Nat
<1>1. IsFiniteSet(Handled)
  BY ClientAssumption, FS_Subset DEF Handled
<1> QED
  BY <1>1, FS_CardinalityType

\* Every variable keeps its type; in particular permits never go below zero
\* (run_accept_loop) and no timer runs past its deadline (drain_tasks, main).
THEOREM ListenerTypeCorrect == Spec => []TypeOK
<1>1. Init => TypeOK
  <2> SUFFICES ASSUME Init PROVE TypeOK
    OBVIOUS
  <2>1. late \in Nat /\ permits \in Nat /\ left \in Nat /\ budget \in Nat
    BY ListenerAssumption DEF Init
  <2>2. ready \in BOOLEAN /\ stop \in BOOLEAN
    BY DEF Init
  <2> QED
    BY <2>1, <2>2 DEF Init, TypeOK, Main, Loop, Conn
<1>2. TypeOK /\ [Next]_vars => TypeOK'
  <2> SUFFICES ASSUME TypeOK, [Next]_vars
      PROVE  TypeOK'
    OBVIOUS
  <2>1. ASSUME Bind PROVE TypeOK'
    BY <2>1 DEF Bind, mainVars, loopVars, timers, TypeOK, Main, Loop, Conn
  <2>2. ASSUME BindFail PROVE TypeOK'
    BY <2>2 DEF BindFail, mainVars, loopVars, timers, TypeOK, Main, Loop,
       Conn
  <2>3. ASSUME Acquire PROVE TypeOK'
    BY <2>3 DEF Acquire, mainVars, loopVars, timers, TypeOK, Main, Loop, Conn
  <2>4. ASSUME AcceptFail PROVE TypeOK'
    BY <2>4 DEF AcceptFail, mainVars, loopVars, timers, TypeOK, Main, Loop,
       Conn
  <2>5. ASSUME BackoffEnd PROVE TypeOK'
    BY <2>5 DEF BackoffEnd, mainVars, loopVars, timers, TypeOK, Main, Loop,
       Conn
  <2>6. ASSUME LoopStop PROVE TypeOK'
    <3>1. Drain \in Nat
      BY ListenerAssumption
    <3> QED
      BY <2>6, <3>1 DEF LoopStop, mainVars, timers, TypeOK, Main, Loop, Conn
  <2>7. ASSUME DrainTimeout PROVE TypeOK'
    <3>1. Grace \in Nat
      BY ListenerAssumption
    <3> QED
      BY <2>7, <3>1 DEF DrainTimeout, mainVars, timers, TypeOK, Main, Loop,
         Conn
  <2>8. ASSUME GraceTimeout PROVE TypeOK'
    BY <2>8, HandledFinite DEF GraceTimeout, mainVars, loopVars, timers,
       TypeOK, Main, Loop, Conn
  <2>9. ASSUME NEW c \in Client, Accept(c) PROVE TypeOK'
    BY <2>9 DEF Accept, mainVars, loopVars, timers, TypeOK, Main, Loop, Conn
  <2>10. ASSUME NEW c \in Client, Reap(c) PROVE TypeOK'
    BY <2>10 DEF Reap, mainVars, loopVars, timers, TypeOK, Main, Loop, Conn
  <2>11. ASSUME NEW c \in Client, JoinNext(c) PROVE TypeOK'
    BY <2>11 DEF JoinNext, mainVars, loopVars, timers, TypeOK, Main, Loop,
       Conn
  <2>12. ASSUME NEW c \in Client, Arrive(c) PROVE TypeOK'
    BY <2>12 DEF Arrive, mainVars, loopVars, timers, TypeOK, Main, Loop, Conn
  <2>13. ASSUME NEW c \in Client, ConnEnd(c) PROVE TypeOK'
    BY <2>13 DEF ConnEnd, mainVars, loopVars, timers, TypeOK, Main, Loop,
       Conn
  <2>14. ASSUME Signal PROVE TypeOK'
    BY <2>14 DEF Signal, mainVars, loopVars, timers, TypeOK, Main, Loop, Conn
  <2>15. ASSUME MainReady PROVE TypeOK'
    BY <2>15 DEF MainReady, mainVars, loopVars, timers, TypeOK, Main, Loop,
       Conn
  <2>16. ASSUME MainAbort PROVE TypeOK'
    BY <2>16 DEF MainAbort, Exit, mainVars, loopVars, timers, TypeOK, Main,
       Loop, Conn
  <2>17. ASSUME MainStop PROVE TypeOK'
    <3>1. Drain + Margin \in Nat
      BY ListenerAssumption
    <3> QED
      BY <2>17, <3>1 DEF MainStop, mainVars, loopVars, timers, TypeOK, Main, Loop,
         Conn
  <2>18. ASSUME MainAllDone PROVE TypeOK'
    BY <2>18 DEF MainAllDone, Exit, mainVars, loopVars, timers, TypeOK, Main,
       Loop, Conn
  <2>19. ASSUME MainDrained PROVE TypeOK'
    BY <2>19 DEF MainDrained, Exit, AllDone, mainVars, loopVars, timers,
       TypeOK, Main, Loop, Conn
  <2>20. ASSUME ExpStop PROVE TypeOK'
    BY <2>20 DEF ExpStop, ExpMove, mainVars, loopVars, timers, TypeOK, Main,
       Loop, Conn
  <2>21. ASSUME ExpDrained PROVE TypeOK'
    BY <2>21 DEF ExpDrained, ExpMove, mainVars, loopVars, timers, TypeOK,
       Main, Loop, Conn
  <2>22. ASSUME ExpFail PROVE TypeOK'
    BY <2>22 DEF ExpFail, ExpMove, mainVars, loopVars, timers, TypeOK, Main,
       Loop, Conn
  <2>23. ASSUME Tick PROVE TypeOK'
    BY <2>23 DEF Tick, Sleeping, Due, mainVars, loopVars, timers, TypeOK,
       Main, Loop, Conn
  <2>24. CASE UNCHANGED vars
    BY <2>24 DEF vars, mainVars, loopVars, timers, TypeOK, Main, Loop, Conn
  <2> QED
    BY <2>1, <2>2, <2>3, <2>4, <2>5, <2>6, <2>7, <2>8, <2>9, <2>10, <2>11,
       <2>12, <2>13, <2>14, <2>15, <2>16, <2>17, <2>18, <2>19, <2>20,
       <2>21, <2>22, <2>23, <2>24 DEF Next, AcceptLoop, Connection,
       Process
<1> QED
  BY <1>1, <1>2, PTL DEF Spec

\* When run_accept_loop has returned, drain_tasks has left no handler running.
THEOREM HandlersTracked == Spec => []ClosedMeansDrained
<1>1. Init => HandlerInv
  BY DEF Init, HandlerInv, Handled
<1>2. TypeOK /\ HandlerInv /\ [Next]_vars => HandlerInv'
  <2> SUFFICES ASSUME TypeOK, HandlerInv, [Next]_vars
      PROVE  HandlerInv'
    OBVIOUS
  <2>1. ASSUME Bind PROVE HandlerInv'
    BY <2>1 DEF Bind, mainVars, loopVars, timers, HandlerInv, Handled, Ended,
       TypeOK, Main, Loop, Conn
  <2>2. ASSUME BindFail PROVE HandlerInv'
    BY <2>2 DEF BindFail, mainVars, loopVars, timers, HandlerInv, Handled,
       Ended, TypeOK, Main, Loop, Conn
  <2>3. ASSUME Acquire PROVE HandlerInv'
    BY <2>3 DEF Acquire, mainVars, loopVars, timers, HandlerInv, Handled,
       Ended, TypeOK, Main, Loop, Conn
  <2>4. ASSUME AcceptFail PROVE HandlerInv'
    BY <2>4 DEF AcceptFail, mainVars, loopVars, timers, HandlerInv, Handled,
       Ended, TypeOK, Main, Loop, Conn
  <2>5. ASSUME BackoffEnd PROVE HandlerInv'
    BY <2>5 DEF BackoffEnd, mainVars, loopVars, timers, HandlerInv, Handled,
       Ended, TypeOK, Main, Loop, Conn
  <2>6. ASSUME LoopStop PROVE HandlerInv'
    BY <2>6 DEF LoopStop, mainVars, loopVars, timers, HandlerInv, Handled,
       Ended, TypeOK, Main, Loop, Conn
  <2>7. ASSUME DrainTimeout PROVE HandlerInv'
    BY <2>7 DEF DrainTimeout, mainVars, loopVars, timers, HandlerInv,
       Handled, Ended, TypeOK, Main, Loop, Conn
  <2>8. ASSUME GraceTimeout PROVE HandlerInv'
    BY <2>8 DEF GraceTimeout, mainVars, loopVars, timers, HandlerInv,
       Handled, Ended, TypeOK, Main, Loop, Conn
  <2>9. ASSUME NEW c \in Client, Accept(c) PROVE HandlerInv'
    BY <2>9 DEF Accept, mainVars, loopVars, timers, HandlerInv, Handled,
       Ended, TypeOK, Main, Loop, Conn
  <2>10. ASSUME NEW c \in Client, Reap(c) PROVE HandlerInv'
    BY <2>10 DEF Reap, mainVars, loopVars, timers, HandlerInv, Handled,
       Ended, TypeOK, Main, Loop, Conn
  <2>11. ASSUME NEW c \in Client, JoinNext(c) PROVE HandlerInv'
    BY <2>11 DEF JoinNext, mainVars, loopVars, timers, HandlerInv, Handled,
       Ended, TypeOK, Main, Loop, Conn
  <2>12. ASSUME NEW c \in Client, Arrive(c) PROVE HandlerInv'
    BY <2>12 DEF Arrive, mainVars, loopVars, timers, HandlerInv, Handled,
       Ended, TypeOK, Main, Loop, Conn
  <2>13. ASSUME NEW c \in Client, ConnEnd(c) PROVE HandlerInv'
    BY <2>13 DEF ConnEnd, mainVars, loopVars, timers, HandlerInv, Handled,
       Ended, TypeOK, Main, Loop, Conn
  <2>14. ASSUME Signal PROVE HandlerInv'
    BY <2>14 DEF Signal, mainVars, loopVars, timers, HandlerInv, Handled,
       Ended, TypeOK, Main, Loop, Conn
  <2>15. ASSUME MainReady PROVE HandlerInv'
    BY <2>15 DEF MainReady, mainVars, loopVars, timers, HandlerInv, Handled,
       Ended, TypeOK, Main, Loop, Conn
  <2>16. ASSUME MainAbort PROVE HandlerInv'
    BY <2>16 DEF MainAbort, Exit, mainVars, loopVars, timers, HandlerInv,
       Handled, Ended, TypeOK, Main, Loop, Conn
  <2>17. ASSUME MainStop PROVE HandlerInv'
    BY <2>17 DEF MainStop, mainVars, loopVars, timers, HandlerInv, Handled,
       Ended, TypeOK, Main, Loop, Conn
  <2>18. ASSUME MainAllDone PROVE HandlerInv'
    BY <2>18 DEF MainAllDone, Exit, mainVars, loopVars, timers, HandlerInv,
       Handled, Ended, TypeOK, Main, Loop, Conn
  <2>19. ASSUME MainDrained PROVE HandlerInv'
    BY <2>19 DEF MainDrained, Exit, AllDone, mainVars, loopVars, timers,
       HandlerInv, Handled, Ended, TypeOK, Main, Loop, Conn
  <2>20. ASSUME ExpStop PROVE HandlerInv'
    BY <2>20 DEF ExpStop, ExpMove, mainVars, loopVars, timers, HandlerInv,
       Handled, Ended, TypeOK, Main, Loop, Conn
  <2>21. ASSUME ExpDrained PROVE HandlerInv'
    BY <2>21 DEF ExpDrained, ExpMove, mainVars, loopVars, timers, HandlerInv,
       Handled, Ended, TypeOK, Main, Loop, Conn
  <2>22. ASSUME ExpFail PROVE HandlerInv'
    BY <2>22 DEF ExpFail, ExpMove, mainVars, loopVars, timers, HandlerInv,
       Handled, Ended, TypeOK, Main, Loop, Conn
  <2>23. ASSUME Tick PROVE HandlerInv'
    BY <2>23 DEF Tick, Sleeping, Due, mainVars, loopVars, timers, HandlerInv,
       Handled, Ended, TypeOK, Main, Loop, Conn
  <2>24. CASE UNCHANGED vars
    BY <2>24 DEF vars, mainVars, loopVars, timers, HandlerInv, Handled,
       Ended, TypeOK, Main, Loop, Conn
  <2> QED
    BY <2>1, <2>2, <2>3, <2>4, <2>5, <2>6, <2>7, <2>8, <2>9, <2>10, <2>11,
       <2>12, <2>13, <2>14, <2>15, <2>16, <2>17, <2>18, <2>19, <2>20,
       <2>21, <2>22, <2>23, <2>24 DEF Next, AcceptLoop, Connection,
       Process
<1>3. HandlerInv => ClosedMeansDrained
  BY DEF HandlerInv, ClosedMeansDrained
<1> QED
  BY <1>1, <1>2, <1>3, ListenerTypeCorrect, PTL DEF Spec

\* The semaphore accounts for every live handler however it ends:
\* run_accept_loop never exceeds max_connections and never leaks a slot.
THEOREM PermitsAccounted == Spec => []PermitsConserved
<1>1. Init => PermitsConserved
  <2>1. Init => Handled = {}
    BY DEF Init, Handled
  <2> QED
    BY <2>1, FS_EmptySet, ListenerAssumption
       DEF Init, PermitsConserved
<1>2. TypeOK /\ PermitsConserved /\ [Next]_vars => PermitsConserved'
  <2> SUFFICES ASSUME TypeOK, PermitsConserved, [Next]_vars
      PROVE  PermitsConserved'
    OBVIOUS
  <2>1. ASSUME Bind PROVE PermitsConserved'
    BY <2>1, HandledFinite DEF Bind, mainVars, loopVars, timers,
       PermitsConserved, Handled, TypeOK, Main, Loop, Conn
  <2>2. ASSUME BindFail PROVE PermitsConserved'
    BY <2>2, HandledFinite DEF BindFail, mainVars, loopVars, timers,
       PermitsConserved, Handled, TypeOK, Main, Loop, Conn
  <2>3. ASSUME Acquire PROVE PermitsConserved'
    BY <2>3, HandledFinite DEF Acquire, mainVars, loopVars, timers,
       PermitsConserved, Handled, TypeOK, Main, Loop, Conn
  <2>4. ASSUME AcceptFail PROVE PermitsConserved'
    BY <2>4, HandledFinite DEF AcceptFail, mainVars, loopVars, timers,
       PermitsConserved, Handled, TypeOK, Main, Loop, Conn
  <2>5. ASSUME BackoffEnd PROVE PermitsConserved'
    BY <2>5, HandledFinite DEF BackoffEnd, mainVars, loopVars, timers,
       PermitsConserved, Handled, TypeOK, Main, Loop, Conn
  <2>6. ASSUME LoopStop PROVE PermitsConserved'
    BY <2>6, HandledFinite DEF LoopStop, mainVars, loopVars, timers,
       PermitsConserved, Handled, TypeOK, Main, Loop, Conn
  <2>7. ASSUME DrainTimeout PROVE PermitsConserved'
    BY <2>7, HandledFinite DEF DrainTimeout, mainVars, loopVars, timers,
       PermitsConserved, Handled, TypeOK, Main, Loop, Conn
  <2>8. ASSUME GraceTimeout PROVE PermitsConserved'
    <3>1. Handled' = {}
      BY <2>8 DEF GraceTimeout, Handled, TypeOK
    <3>2. Cardinality(Handled') = 0
      BY <3>1, FS_EmptySet
    <3> QED
      BY <2>8, <3>2, HandledFinite, ListenerAssumption DEF GraceTimeout,
         PermitsConserved, TypeOK
  <2>9. ASSUME NEW c \in Client, Accept(c) PROVE PermitsConserved'
    <3>1. Handled' = Handled \cup {c} /\ c \notin Handled
      BY <2>9 DEF Accept, Handled, TypeOK
    <3>2. Cardinality(Handled') = Cardinality(Handled) + 1
      BY <3>1, HandledFinite, FS_AddElement
    <3> QED
      BY <2>9, <3>2, HandledFinite, ListenerAssumption
      DEF Accept, PermitsConserved, TypeOK
  <2>10. ASSUME NEW c \in Client, Reap(c) PROVE PermitsConserved'
    BY <2>10, HandledFinite DEF Reap, mainVars, loopVars, timers,
       PermitsConserved, Handled, TypeOK, Main, Loop, Conn
  <2>11. ASSUME NEW c \in Client, JoinNext(c) PROVE PermitsConserved'
    BY <2>11, HandledFinite DEF JoinNext, mainVars, loopVars, timers,
       PermitsConserved, Handled, TypeOK, Main, Loop, Conn
  <2>12. ASSUME NEW c \in Client, Arrive(c) PROVE PermitsConserved'
    <3>1. Handled' = Handled
      BY <2>12 DEF Arrive, Handled, TypeOK
    <3> QED
      BY <2>12, <3>1 DEF Arrive, loopVars, PermitsConserved
  <2>13. ASSUME NEW c \in Client, ConnEnd(c) PROVE PermitsConserved'
    <3>1. Handled' = Handled \ {c} /\ c \in Handled
      BY <2>13 DEF ConnEnd, Handled, TypeOK
    <3>2. Cardinality(Handled') = Cardinality(Handled) - 1
      BY <3>1, HandledFinite, FS_RemoveElement
    <3> QED
      BY <2>13, <3>2, HandledFinite, ListenerAssumption DEF ConnEnd,
         PermitsConserved, TypeOK
  <2>14. ASSUME Signal PROVE PermitsConserved'
    BY <2>14, HandledFinite DEF Signal, mainVars, loopVars, timers,
       PermitsConserved, Handled, TypeOK, Main, Loop, Conn
  <2>15. ASSUME MainReady PROVE PermitsConserved'
    BY <2>15, HandledFinite DEF MainReady, mainVars, loopVars, timers,
       PermitsConserved, Handled, TypeOK, Main, Loop, Conn
  <2>16. ASSUME MainAbort PROVE PermitsConserved'
    BY <2>16, HandledFinite DEF MainAbort, Exit, mainVars, loopVars, timers,
       PermitsConserved, Handled, TypeOK, Main, Loop, Conn
  <2>17. ASSUME MainStop PROVE PermitsConserved'
    BY <2>17, HandledFinite DEF MainStop, mainVars, loopVars, timers,
       PermitsConserved, Handled, TypeOK, Main, Loop, Conn
  <2>18. ASSUME MainAllDone PROVE PermitsConserved'
    BY <2>18, HandledFinite DEF MainAllDone, Exit, mainVars, loopVars,
       timers, PermitsConserved, Handled, TypeOK, Main, Loop, Conn
  <2>19. ASSUME MainDrained PROVE PermitsConserved'
    BY <2>19, HandledFinite DEF MainDrained, Exit, AllDone, mainVars,
       loopVars, timers, PermitsConserved, Handled, TypeOK, Main, Loop, Conn
  <2>20. ASSUME ExpStop PROVE PermitsConserved'
    BY <2>20, HandledFinite DEF ExpStop, ExpMove, mainVars, loopVars, timers,
       PermitsConserved, Handled, TypeOK, Main, Loop, Conn
  <2>21. ASSUME ExpDrained PROVE PermitsConserved'
    BY <2>21, HandledFinite DEF ExpDrained, ExpMove, mainVars, loopVars,
       timers, PermitsConserved, Handled, TypeOK, Main, Loop, Conn
  <2>22. ASSUME ExpFail PROVE PermitsConserved'
    BY <2>22, HandledFinite DEF ExpFail, ExpMove, mainVars, loopVars, timers,
       PermitsConserved, Handled, TypeOK, Main, Loop, Conn
  <2>23. ASSUME Tick PROVE PermitsConserved'
    BY <2>23, HandledFinite DEF Tick, Sleeping, Due, mainVars, loopVars,
       timers, PermitsConserved, Handled, TypeOK, Main, Loop, Conn
  <2>24. CASE UNCHANGED vars
    BY <2>24, HandledFinite DEF vars, mainVars, loopVars, timers,
       PermitsConserved, Handled, TypeOK, Main, Loop, Conn
  <2> QED
    BY <2>1, <2>2, <2>3, <2>4, <2>5, <2>6, <2>7, <2>8, <2>9, <2>10, <2>11,
       <2>12, <2>13, <2>14, <2>15, <2>16, <2>17, <2>18, <2>19, <2>20,
       <2>21, <2>22, <2>23, <2>24 DEF Next, AcceptLoop, Connection,
       Process
<1> QED
  BY <1>1, <1>2, ListenerTypeCorrect, PTL DEF Spec

\* main and the accept loop agree on where the process is.
THEOREM PhasesAgree == Spec => []PhaseInv
<1>1. Init => PhaseInv
  BY DEF Init, PhaseInv
<1>2. TypeOK /\ PhaseInv /\ [Next]_vars => PhaseInv'
  <2> SUFFICES ASSUME TypeOK, PhaseInv, [Next]_vars
      PROVE  PhaseInv'
    OBVIOUS
  <2>1. ASSUME Bind PROVE PhaseInv'
    BY <2>1 DEF Bind, mainVars, loopVars, timers, PhaseInv, TypeOK, Main,
       Loop, Conn
  <2>2. ASSUME BindFail PROVE PhaseInv'
    BY <2>2 DEF BindFail, mainVars, loopVars, timers, PhaseInv, TypeOK, Main,
       Loop, Conn
  <2>3. ASSUME Acquire PROVE PhaseInv'
    BY <2>3 DEF Acquire, mainVars, loopVars, timers, PhaseInv, TypeOK, Main,
       Loop, Conn
  <2>4. ASSUME AcceptFail PROVE PhaseInv'
    BY <2>4 DEF AcceptFail, mainVars, loopVars, timers, PhaseInv, TypeOK,
       Main, Loop, Conn
  <2>5. ASSUME BackoffEnd PROVE PhaseInv'
    BY <2>5 DEF BackoffEnd, mainVars, loopVars, timers, PhaseInv, TypeOK,
       Main, Loop, Conn
  <2>6. ASSUME LoopStop PROVE PhaseInv'
    BY <2>6 DEF LoopStop, mainVars, loopVars, timers, PhaseInv, TypeOK, Main,
       Loop, Conn
  <2>7. ASSUME DrainTimeout PROVE PhaseInv'
    BY <2>7 DEF DrainTimeout, mainVars, loopVars, timers, PhaseInv, TypeOK,
       Main, Loop, Conn
  <2>8. ASSUME GraceTimeout PROVE PhaseInv'
    BY <2>8 DEF GraceTimeout, mainVars, loopVars, timers, PhaseInv, TypeOK,
       Main, Loop, Conn
  <2>9. ASSUME NEW c \in Client, Accept(c) PROVE PhaseInv'
    BY <2>9 DEF Accept, mainVars, loopVars, timers, PhaseInv, TypeOK, Main,
       Loop, Conn
  <2>10. ASSUME NEW c \in Client, Reap(c) PROVE PhaseInv'
    BY <2>10 DEF Reap, mainVars, loopVars, timers, PhaseInv, TypeOK, Main,
       Loop, Conn
  <2>11. ASSUME NEW c \in Client, JoinNext(c) PROVE PhaseInv'
    BY <2>11 DEF JoinNext, mainVars, loopVars, timers, PhaseInv, TypeOK,
       Main, Loop, Conn
  <2>12. ASSUME NEW c \in Client, Arrive(c) PROVE PhaseInv'
    BY <2>12 DEF Arrive, mainVars, loopVars, timers, PhaseInv, TypeOK, Main,
       Loop, Conn
  <2>13. ASSUME NEW c \in Client, ConnEnd(c) PROVE PhaseInv'
    BY <2>13 DEF ConnEnd, mainVars, loopVars, timers, PhaseInv, TypeOK, Main,
       Loop, Conn
  <2>14. ASSUME Signal PROVE PhaseInv'
    BY <2>14 DEF Signal, mainVars, loopVars, timers, PhaseInv, TypeOK, Main,
       Loop, Conn
  <2>15. ASSUME MainReady PROVE PhaseInv'
    BY <2>15 DEF MainReady, mainVars, loopVars, timers, PhaseInv, TypeOK,
       Main, Loop, Conn
  <2>16. ASSUME MainAbort PROVE PhaseInv'
    BY <2>16 DEF MainAbort, Exit, mainVars, loopVars, timers, PhaseInv,
       TypeOK, Main, Loop, Conn
  <2>17. ASSUME MainStop PROVE PhaseInv'
    BY <2>17 DEF MainStop, mainVars, loopVars, timers, PhaseInv, TypeOK,
       Main, Loop, Conn
  <2>18. ASSUME MainAllDone PROVE PhaseInv'
    BY <2>18 DEF MainAllDone, Exit, mainVars, loopVars, timers, PhaseInv,
       TypeOK, Main, Loop, Conn
  <2>19. ASSUME MainDrained PROVE PhaseInv'
    BY <2>19 DEF MainDrained, Exit, AllDone, mainVars, loopVars, timers,
       PhaseInv, TypeOK, Main, Loop, Conn
  <2>20. ASSUME ExpStop PROVE PhaseInv'
    BY <2>20 DEF ExpStop, ExpMove, mainVars, loopVars, timers, PhaseInv,
       TypeOK, Main, Loop, Conn
  <2>21. ASSUME ExpDrained PROVE PhaseInv'
    BY <2>21 DEF ExpDrained, ExpMove, mainVars, loopVars, timers, PhaseInv,
       TypeOK, Main, Loop, Conn
  <2>22. ASSUME ExpFail PROVE PhaseInv'
    BY <2>22 DEF ExpFail, ExpMove, mainVars, loopVars, timers, PhaseInv,
       TypeOK, Main, Loop, Conn
  <2>23. ASSUME Tick PROVE PhaseInv'
    BY <2>23 DEF Tick, Sleeping, Due, mainVars, loopVars, timers, PhaseInv,
       TypeOK, Main, Loop, Conn
  <2>24. CASE UNCHANGED vars
    BY <2>24 DEF vars, mainVars, loopVars, timers, PhaseInv, TypeOK, Main,
       Loop, Conn
  <2> QED
    BY <2>1, <2>2, <2>3, <2>4, <2>5, <2>6, <2>7, <2>8, <2>9, <2>10, <2>11,
       <2>12, <2>13, <2>14, <2>15, <2>16, <2>17, <2>18, <2>19, <2>20,
       <2>21, <2>22, <2>23, <2>24 DEF Next, AcceptLoop, Connection,
       Process
<1> QED
  BY <1>1, <1>2, ListenerTypeCorrect, PTL DEF Spec

\* /readyz is true only while the listener accepts, or is just being told to
\* stop (main waits for on_bound and run_accept_loop returns only on shutdown).
THEOREM ReadyIsTrue == Spec => []ReadyMeansBound
<1>1. TypeOK /\ PhaseInv => ReadyMeansBound
  BY DEF TypeOK, Loop, PhaseInv, ReadyMeansBound
<1> QED
  BY <1>1, ListenerTypeCorrect, PhasesAgree, PTL

\* Through back-offs, drain and grace the accept loop never spends more of main's
\* budget than the failures of accept() since the shutdown account for.
THEOREM BudgetsNest == Spec => []BudgetInv
<1>1. Init => BudgetInv
  BY ListenerAssumption DEF Init, BudgetInv, DrainFits
<1>2. TypeOK /\ PhaseInv /\ PhaseInv' /\ BudgetInv /\ [Next]_vars => BudgetInv'
  <2> SUFFICES ASSUME TypeOK, PhaseInv, PhaseInv', BudgetInv, [Next]_vars
      PROVE   BudgetInv'
    OBVIOUS
  <2>1. ASSUME Bind PROVE BudgetInv'
    BY <2>1, ListenerAssumption DEF Bind, mainVars, loopVars, timers,
       BudgetInv, DrainFits, PhaseInv, TypeOK, Main, Loop, Conn
  <2>2. ASSUME BindFail PROVE BudgetInv'
    BY <2>2, ListenerAssumption DEF BindFail, mainVars, loopVars, timers,
       BudgetInv, DrainFits, PhaseInv, TypeOK, Main, Loop, Conn
  <2>3. ASSUME Acquire PROVE BudgetInv'
    BY <2>3, ListenerAssumption DEF Acquire, mainVars, loopVars, timers,
       BudgetInv, DrainFits, PhaseInv, TypeOK, Main, Loop, Conn
  <2>4. ASSUME AcceptFail PROVE BudgetInv'
    BY <2>4, ListenerAssumption DEF AcceptFail, mainVars, loopVars, timers,
       BudgetInv, DrainFits, PhaseInv, TypeOK, Main, Loop, Conn
  <2>5. ASSUME BackoffEnd PROVE BudgetInv'
    BY <2>5, ListenerAssumption DEF BackoffEnd, mainVars, loopVars, timers,
       BudgetInv, DrainFits, PhaseInv, TypeOK, Main, Loop, Conn
  <2>6. ASSUME LoopStop PROVE BudgetInv'
    BY <2>6, ListenerAssumption DEF LoopStop, mainVars, loopVars, timers,
       BudgetInv, DrainFits, PhaseInv, TypeOK, Main, Loop, Conn
  <2>7. ASSUME DrainTimeout PROVE BudgetInv'
    BY <2>7, ListenerAssumption DEF DrainTimeout, mainVars, loopVars, timers,
       BudgetInv, DrainFits, PhaseInv, TypeOK, Main, Loop, Conn
  <2>8. ASSUME GraceTimeout PROVE BudgetInv'
    BY <2>8, ListenerAssumption DEF GraceTimeout, mainVars, loopVars, timers,
       BudgetInv, DrainFits, PhaseInv, TypeOK, Main, Loop, Conn
  <2>9. ASSUME NEW c \in Client, Accept(c) PROVE BudgetInv'
    BY <2>9, ListenerAssumption DEF Accept, mainVars, loopVars, timers,
       BudgetInv, DrainFits, PhaseInv, TypeOK, Main, Loop, Conn
  <2>10. ASSUME NEW c \in Client, Reap(c) PROVE BudgetInv'
    BY <2>10, ListenerAssumption DEF Reap, mainVars, loopVars, timers,
       BudgetInv, DrainFits, PhaseInv, TypeOK, Main, Loop, Conn
  <2>11. ASSUME NEW c \in Client, JoinNext(c) PROVE BudgetInv'
    BY <2>11, ListenerAssumption DEF JoinNext, mainVars, loopVars, timers,
       BudgetInv, DrainFits, PhaseInv, TypeOK, Main, Loop, Conn
  <2>12. ASSUME NEW c \in Client, Arrive(c) PROVE BudgetInv'
    BY <2>12, ListenerAssumption DEF Arrive, mainVars, loopVars, timers,
       BudgetInv, DrainFits, PhaseInv, TypeOK, Main, Loop, Conn
  <2>13. ASSUME NEW c \in Client, ConnEnd(c) PROVE BudgetInv'
    BY <2>13, ListenerAssumption DEF ConnEnd, mainVars, loopVars, timers,
       BudgetInv, DrainFits, PhaseInv, TypeOK, Main, Loop, Conn
  <2>14. ASSUME Signal PROVE BudgetInv'
    BY <2>14, ListenerAssumption DEF Signal, mainVars, loopVars, timers,
       BudgetInv, DrainFits, PhaseInv, TypeOK, Main, Loop, Conn
  <2>15. ASSUME MainReady PROVE BudgetInv'
    BY <2>15, ListenerAssumption DEF MainReady, mainVars, loopVars, timers,
       BudgetInv, DrainFits, PhaseInv, TypeOK, Main, Loop, Conn
  <2>16. ASSUME MainAbort PROVE BudgetInv'
    BY <2>16, ListenerAssumption DEF MainAbort, Exit, mainVars, loopVars,
       timers, BudgetInv, DrainFits, PhaseInv, TypeOK, Main, Loop, Conn
  <2>17. ASSUME MainStop PROVE BudgetInv'
    BY <2>17, ListenerAssumption DEF MainStop, mainVars, loopVars, timers,
       BudgetInv, DrainFits, PhaseInv, TypeOK, Main, Loop, Conn
  <2>18. ASSUME MainAllDone PROVE BudgetInv'
    BY <2>18, ListenerAssumption DEF MainAllDone, Exit, mainVars, loopVars,
       timers, BudgetInv, DrainFits, PhaseInv, TypeOK, Main, Loop, Conn
  <2>19. ASSUME MainDrained PROVE BudgetInv'
    BY <2>19, ListenerAssumption DEF MainDrained, Exit, AllDone, mainVars,
       loopVars, timers, BudgetInv, DrainFits, PhaseInv, TypeOK, Main, Loop,
       Conn
  <2>20. ASSUME ExpStop PROVE BudgetInv'
    BY <2>20, ListenerAssumption DEF ExpStop, ExpMove, mainVars, loopVars,
       timers, BudgetInv, DrainFits, PhaseInv, TypeOK, Main, Loop, Conn
  <2>21. ASSUME ExpDrained PROVE BudgetInv'
    BY <2>21, ListenerAssumption DEF ExpDrained, ExpMove, mainVars, loopVars,
       timers, BudgetInv, DrainFits, PhaseInv, TypeOK, Main, Loop, Conn
  <2>22. ASSUME ExpFail PROVE BudgetInv'
    BY <2>22, ListenerAssumption DEF ExpFail, ExpMove, mainVars, loopVars,
       timers, BudgetInv, DrainFits, PhaseInv, TypeOK, Main, Loop, Conn
  <2>23. ASSUME Tick PROVE BudgetInv'
    BY <2>23, ListenerAssumption DEF Tick, Sleeping, Due, mainVars, loopVars,
       timers, BudgetInv, DrainFits, PhaseInv, TypeOK, Main, Loop, Conn
  <2>24. CASE UNCHANGED vars
    BY <2>24, ListenerAssumption DEF vars, mainVars, loopVars, timers,
       BudgetInv, DrainFits, PhaseInv, TypeOK, Main, Loop, Conn
  <2> QED
    BY <2>1, <2>2, <2>3, <2>4, <2>5, <2>6, <2>7, <2>8, <2>9, <2>10, <2>11,
       <2>12, <2>13, <2>14, <2>15, <2>16, <2>17, <2>18, <2>19, <2>20,
       <2>21, <2>22, <2>23, <2>24 DEF Next, AcceptLoop, Connection,
       Process
<1> QED
  BY <1>1, <1>2, ListenerTypeCorrect, PhasesAgree, PTL DEF Spec

\* However often accept() has failed before the shutdown, main's budget does not
\* cut the listener's orderly drain short while the back-offs since then and the
\* grace fit into its margin (main, run_accept_loop and drain_tasks).
THEOREM DrainIsGranted == Spec => []DrainFits
<1>1. BudgetInv => DrainFits
  BY DEF BudgetInv
<1> QED
  BY <1>1, BudgetsNest, PTL
=============================================================================
