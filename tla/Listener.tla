------------------------------ MODULE Listener ------------------------------
(***************************************************************************)
(* One bridge process: main (main.rs) with one import listener             *)
(* (import/accept.rs), the drain of its connections (import/mod.rs) and    *)
(* one exporter, seen from main.                                           *)
(*                                                                         *)
(* A connection is a handler task (conn) in the listener's JoinSet         *)
(* (tasks); what it does with its client is Relay's subject.  Timers count *)
(* down in units of the accept loop's back-off: time passes only when      *)
(* neither main nor the accept loop is ready to run.                       *)
(***************************************************************************)
EXTENDS Integers, FiniteSets

CONSTANTS
  Client,    \* the connections clients ever open
  MaxConn,   \* max_connections
  Drain,     \* drain_timeout
  Grace,     \* the drain's grace between cancelling and aborting
  Margin     \* main's budget in excess of drain_timeout

ASSUME ListenerAssumption ==
  /\ MaxConn \in Nat \ {0}
  /\ Drain \in Nat
  /\ Grace \in Nat
  /\ Margin \in Nat

ASSUME ClientAssumption == IsFiniteSet(Client)

VARIABLES
  main,     \* where main is
  exit,     \* how the process ended: none, clean, failed
  ready,    \* /readyz
  stop,     \* shutdown_token
  bound,    \* the listener's on_bound: none, ok, failed
  exp,      \* the exporter's task: serving, draining, closed
  loop,     \* where run_accept_loop is
  late,     \* history: failures of accept() since the shutdown
  permits,  \* the semaphore conn_limit
  tasks,    \* the JoinSet: handlers not yet reaped
  conn,     \* [Client -> STRING]: the connection's handler
  left,     \* Nat: until the accept loop's sleep or deadline
  budget    \* Nat: until main's deadline

mainVars == <<main, exit, ready, stop, bound, exp>>
loopVars == <<loop, late, permits, tasks>>
timers   == <<left, budget>>
vars     == <<mainVars, loopVars, conn, timers>>

Main == {"starting", "running", "draining", "exited"}
Loop == {"binding", "permit", "accept", "backoff", "drain", "grace", "closed"}
Conn == {"away", "backlog", "open", "ended", "aborted"}

TypeOK ==
  /\ main \in Main
  /\ exit \in {"none", "clean", "failed"}
  /\ ready \in BOOLEAN
  /\ stop \in BOOLEAN
  /\ bound \in {"none", "ok", "failed"}
  /\ exp \in {"serving", "draining", "closed"}
  /\ loop \in Loop
  /\ late \in Nat
  /\ permits \in Nat
  /\ tasks \subseteq Client
  /\ conn \in [Client -> Conn]
  /\ left \in Nat
  /\ budget \in Nat

Init ==
  /\ main = "starting"
  /\ exit = "none"
  /\ ready = FALSE
  /\ stop = FALSE
  /\ bound = "none"
  /\ exp = "serving"
  /\ loop = "binding"
  /\ late = 0
  /\ permits = MaxConn
  /\ tasks = {}
  /\ conn = [c \in Client |-> "away"]
  /\ left = 0
  /\ budget = 0

Alive   == main # "exited"
Ended   == {c \in Client : conn[c] = "ended"}
Handled == {c \in Client : conn[c] = "open"}

-----------------------------------------------------------------------------
(* run_accept_loop.                                                        *)

Bind ==
  /\ Alive /\ loop = "binding"
  /\ loop' = "permit"
  /\ bound' = "ok"
  /\ UNCHANGED <<main, exit, ready, stop, exp, late, permits, tasks, conn,
                 timers>>

BindFail ==
  /\ Alive /\ loop = "binding"
  /\ loop' = "closed"
  /\ bound' = "failed"
  /\ UNCHANGED <<main, exit, ready, stop, exp, late, permits, tasks, conn,
                 timers>>

\* A permit is held before accepting.
Acquire ==
  /\ Alive /\ loop = "permit" /\ permits > 0
  /\ loop' = "accept"
  /\ permits' = permits - 1
  /\ UNCHANGED <<mainVars, late, tasks, conn, timers>>

\* The handler takes the permit along; finished handlers are reaped.
Accept(c) ==
  /\ Alive /\ loop = "accept" /\ conn[c] = "backlog"
  /\ loop' = "permit"
  /\ conn' = [conn EXCEPT ![c] = "open"]
  /\ tasks' = (tasks \ Ended) \cup {c}
  /\ UNCHANGED <<mainVars, late, permits, timers>>

\* Bug: the permit is not given back.
BugAcceptFail ==
  /\ Alive /\ loop = "accept"
  /\ loop' = "backoff"
  /\ late' = IF stop THEN late + 1 ELSE late
  /\ left' = 1
  /\ UNCHANGED <<mainVars, permits, tasks, conn, budget>>

\* accept() fails: give the permit back and sleep.  It may fail any number of
\* times, also after the shutdown, which the unbiased selects need not prefer.
AcceptFail ==
  /\ Alive /\ loop = "accept"
  /\ loop' = "backoff"
  /\ late' = IF stop THEN late + 1 ELSE late
  /\ permits' = permits + 1
  /\ left' = 1
  /\ UNCHANGED <<mainVars, tasks, conn, budget>>

BackoffEnd ==
  /\ Alive /\ loop = "backoff" /\ left = 0
  /\ loop' = "permit"
  /\ tasks' = tasks \ Ended
  /\ UNCHANGED <<mainVars, late, permits, conn, timers>>

\* join_next while waiting for a connection.
Reap(c) ==
  /\ Alive /\ loop = "accept" /\ c \in tasks \cap Ended
  /\ loop' = "permit"
  /\ permits' = permits + 1
  /\ tasks' = tasks \ {c}
  /\ UNCHANGED <<mainVars, late, conn, timers>>

\* Bug: the loop returns without draining.
BugLoopStop ==
  /\ Alive /\ stop /\ loop \in {"permit", "accept"}
  /\ loop' = "closed"
  /\ permits' = IF loop = "accept" THEN permits + 1 ELSE permits
  /\ UNCHANGED <<mainVars, late, tasks, conn, timers>>

\* The shutdown token: no new connections, drain_tasks if there are any.
LoopStop ==
  /\ Alive /\ stop /\ loop \in {"permit", "accept"}
  /\ loop' = IF tasks = {} THEN "closed" ELSE "drain"
  /\ permits' = IF loop = "accept" THEN permits + 1 ELSE permits
  /\ left' = IF tasks = {} THEN left ELSE Drain
  /\ UNCHANGED <<mainVars, late, tasks, conn, budget>>

-----------------------------------------------------------------------------
(* drain_tasks.                                                            *)

JoinNext(c) ==
  /\ Alive /\ loop \in {"drain", "grace"} /\ c \in tasks \cap Ended
  /\ tasks' = tasks \ {c}
  /\ loop' = IF tasks = {c} THEN "closed" ELSE loop
  /\ UNCHANGED <<mainVars, late, permits, conn, timers>>

\* Bug: after the deadline a second full drain_timeout is granted.
BugDrainTimeout ==
  /\ Alive /\ loop = "drain" /\ left = 0
  /\ loop' = "grace"
  /\ left' = Drain
  /\ UNCHANGED <<mainVars, late, permits, tasks, conn, budget>>

\* The voluntary window is over: conn_shutdown is cancelled, which every handler
\* may take its time to notice.
DrainTimeout ==
  /\ Alive /\ loop = "drain" /\ left = 0
  /\ loop' = "grace"
  /\ left' = Grace
  /\ UNCHANGED <<mainVars, late, permits, tasks, conn, budget>>

\* abort_all.
GraceTimeout ==
  /\ Alive /\ loop = "grace" /\ left = 0
  /\ loop' = "closed"
  /\ conn' = [c \in Client |-> IF c \in Handled THEN "aborted" ELSE conn[c]]
  /\ permits' = permits + Cardinality(Handled)
  /\ tasks' = {}
  /\ UNCHANGED <<mainVars, late, timers>>

-----------------------------------------------------------------------------
(* Connections.                                                            *)

\* A client connects; the socket listens until the loop returns.
Arrive(c) ==
  /\ Alive /\ loop \notin {"binding", "closed"}
  /\ conn[c] = "away"
  /\ conn' = [conn EXCEPT ![c] = "backlog"]
  /\ UNCHANGED <<mainVars, loopVars, timers>>

\* Bug: a handler that returns early keeps its permit.
BugConnEnd(c) ==
  /\ Alive /\ conn[c] = "open"
  /\ conn' = [conn EXCEPT ![c] = "ended"]
  /\ \/ permits' = permits + 1
     \/ permits' = permits
  /\ UNCHANGED <<mainVars, loop, late, tasks, timers>>

\* The handler returns, for whatever reason; the permit goes with it.
ConnEnd(c) ==
  /\ Alive /\ conn[c] = "open"
  /\ conn' = [conn EXCEPT ![c] = "ended"]
  /\ permits' = permits + 1
  /\ UNCHANGED <<mainVars, loop, late, tasks, timers>>

-----------------------------------------------------------------------------
(* main, and the exporter as main sees it.                                 *)

Signal ==
  /\ Alive /\ ~stop
  /\ stop' = TRUE
  /\ UNCHANGED <<main, exit, ready, bound, exp, loopVars, conn,
                 timers>>

\* Bug: readiness does not wait for the listener.
BugMainReady ==
  /\ main = "starting"
  /\ main' = "running"
  /\ ready' = TRUE
  /\ UNCHANGED <<exit, stop, bound, exp, loopVars, conn, timers>>

MainReady ==
  /\ main = "starting" /\ bound = "ok"
  /\ main' = "running"
  /\ ready' = TRUE
  /\ UNCHANGED <<exit, stop, bound, exp, loopVars, conn, timers>>

Exit(how) ==
  /\ main' = "exited"
  /\ exit' = how
  /\ ready' = FALSE
  /\ UNCHANGED <<bound, exp, loopVars, conn, timers>>

\* The listener failed to bind, or not within 30 seconds.
MainAbort ==
  /\ main = "starting" /\ bound # "ok"
  /\ stop' = TRUE
  /\ Exit("failed")

\* The shutdown arm of main's select.
MainStop ==
  /\ main = "running" /\ stop
  /\ main' = "draining"
  /\ ready' = FALSE
  /\ budget' = Drain + Margin
  /\ UNCHANGED <<exit, stop, bound, exp, loopVars, conn, left>>

AllDone == loop = "closed" /\ exp = "closed"

\* The other arm: every bridge task has ended.
MainAllDone == main = "running" /\ AllDone /\ Exit("failed") /\ UNCHANGED stop

\* Bug: the drain has no deadline.
BugMainDrained == main = "draining" /\ AllDone /\ Exit("clean") /\ UNCHANGED stop

\* The drain is over, or its budget; then the session is closed.
MainDrained ==
  main = "draining" /\ (AllDone \/ budget = 0) /\ Exit("clean") /\ UNCHANGED stop

ExpMove(from, to) ==
  /\ Alive /\ exp = from
  /\ exp' = to
  /\ UNCHANGED <<main, exit, ready, stop, bound, loopVars, conn,
                 timers>>

ExpStop    == stop /\ ExpMove("serving", "draining")
ExpDrained == ExpMove("draining", "closed")
\* run_export_loop returns an error: main's task only logs it.
ExpFail    == ExpMove("serving", "closed")

-----------------------------------------------------------------------------
(* Time.                                                                   *)

Sleeping == loop \in {"backoff", "drain", "grace"}

\* Somebody is ready to run, or a timer is due.
Due ==
  \/ Sleeping /\ left = 0
  \/ loop \in {"drain", "grace"} /\ tasks \cap Ended # {}
  \/ stop /\ loop \in {"permit", "accept"}
  \/ main = "starting" /\ bound # "none"
  \/ main = "running" /\ (stop \/ AllDone)
  \/ main = "draining" /\ (AllDone \/ budget = 0)

Tick ==
  /\ Alive /\ ~Due
  /\ Sleeping \/ main = "draining"
  /\ left' = IF Sleeping THEN left - 1 ELSE left
  /\ budget' = IF main = "draining" THEN budget - 1 ELSE budget
  /\ UNCHANGED <<mainVars, loopVars, conn>>

-----------------------------------------------------------------------------
AcceptLoop ==
  \/ Bind \/ BindFail \/ Acquire \/ AcceptFail \/ BackoffEnd \/ LoopStop
  \/ DrainTimeout \/ GraceTimeout
  \/ \E c \in Client : Accept(c) \/ Reap(c) \/ JoinNext(c)
Connection(c) == Arrive(c) \/ ConnEnd(c)
Process ==
  \/ Signal \/ MainReady \/ MainAbort \/ MainStop \/ MainAllDone \/ MainDrained
  \/ ExpStop \/ ExpDrained \/ ExpFail

Next == AcceptLoop \/ (\E c \in Client : Connection(c)) \/ Process \/ Tick

Spec == Init /\ [][Next]_vars

\* The accept loop and main run on and time passes.  Handlers, clients and the
\* exporter's drain are owed nothing.
FairSpec ==
  /\ Spec
  /\ WF_vars(MainReady \/ MainStop \/ MainAllDone \/ MainDrained)
  /\ WF_vars(Bind \/ Acquire \/ BackoffEnd \/ LoopStop
             \/ DrainTimeout \/ GraceTimeout
             \/ \E c \in Client : Accept(c) \/ Reap(c) \/ JoinNext(c))
  /\ WF_vars(Tick)

-----------------------------------------------------------------------------
(* Properties.                                                             *)

\* The permits account for every live handler, however it ends: max_connections
\* is never exceeded and no slot leaks (run_accept_loop).
PermitsConserved ==
  permits + Cardinality(Handled) + (IF loop = "accept" THEN 1 ELSE 0) = MaxConn

\* When the accept loop has returned, no handler it spawned is left running.
ClosedMeansDrained == loop = "closed" => Handled = {}

\* main's budget does not cut the listener's orderly drain short (main.rs: "Outer
\* budget exceeds the accept loops' own drain_timeout"), as long as a back-off
\* under way at the shutdown, one for each failure of accept() since, and the
\* grace fit into its margin.
DrainFits == exit = "clean" /\ 1 + late + Grace < Margin => loop = "closed"

\* /readyz says 200 only while the listener is accepting, or is just being told
\* to stop (main.rs: "Readiness truth").
ReadyMeansBound ==
  ready => bound = "ok" /\ (stop \/ loop \in {"permit", "accept", "backoff"})

\* A client in the backlog is accepted while there is a slot: unless the loop is
\* stopped, it never stays there with fewer than MaxConn handlers running,
\* provided accept() does not fail for ever (run_accept_loop).
SlotIsUsed ==
  SF_vars(\E c \in Client : Accept(c)) => \A c \in Client :
    (conn[c] = "backlog" /\ ~stop) ~>
      (conn[c] # "backlog" \/ stop \/ Cardinality(Handled) = MaxConn)

\* A shutdown ends the process, whatever the handlers and the exporter do.
StopExits == (stop /\ bound = "ok") ~> (main = "exited")

============================================================================
