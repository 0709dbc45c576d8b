------------------------------ MODULE Failover ------------------------------
(***************************************************************************)
(* Election composed with the clients the elected exporter serves: ONE     *)
(* client, whose connection outlives the exporter that serves it.  The     *)
(* exporters are Election's; each runs at most one task for the client     *)
(* (ExportClients' table, Relay's export half), and the client's import    *)
(* end learns of an exporter's end through the error signal only.          *)
(*                                                                         *)
(* The bytes of a request are samples 1, 2, ...; a sample reaches every    *)
(* task that is subscribed when it is published (Relay is about how), and  *)
(* a task that subscribes later is given the import's cache.               *)
(***************************************************************************)
EXTENDS Election

CONSTANTS
  MaxSample,    \* request samples at most (bound)
  CacheSize,    \* cache_size
  ClientFaults  \* dial, backend, hang: what may go wrong with a task

ASSUME FailoverAssumption ==
  /\ MaxSample \in Nat /\ CacheSize \in Nat
  /\ ClientFaults \subseteq {"dial", "backend", "hang"}

VARIABLES
  client,   \* new, up (its token is declared), or gone
  sent,     \* Nat: request samples published
  offered,  \* exporters that have been told of the client in this term
  task,     \* [Exporter -> TaskState]: run_client for this client
  got,      \* [Exporter -> SUBSET Nat]: what x's last backend was given
  signal,   \* an error signal is on its way to the import
  lost      \* history: a task ended and could not signal

clientVars == <<client, sent, offered, task, got, signal, lost>>
allVars    == <<vars, clientVars>>

\* dial: connecting to the backend; live: relaying; ending: torn down, the error
\* signal still to be published
TaskState == {"none", "dial", "live", "ending"}

FailoverTypeOK ==
  /\ client \in {"new", "up", "gone"}
  /\ sent \in 0..MaxSample
  /\ offered \subseteq Exporter
  /\ task \in [Exporter -> TaskState]
  /\ got \in [Exporter -> SUBSET (1..sent)]
  /\ signal \in BOOLEAN
  /\ lost \in BOOLEAN

FailoverInit ==
  /\ Init
  /\ client = "new" /\ sent = 0
  /\ offered = {}
  /\ task = [x \in Exporter |-> "none"]
  /\ got = [x \in Exporter |-> {}]
  /\ signal = FALSE /\ lost = FALSE

Move(x, t) == task' = [task EXCEPT ![x] = t]

-----------------------------------------------------------------------------
(* The client's import end.                                                *)

\* bridge_import_connection has subscribed and declares the client's token.
Appear ==
  /\ client = "new"
  /\ client' = "up"
  /\ UNCHANGED <<vars, sent, offered, task, got, signal, lost>>

\* A sample is put once a subscriber matches, or after waiting for one in vain.
Put ==
  /\ client = "up" /\ sent < MaxSample
  /\ sent' = sent + 1
  /\ got' = [x \in Exporter |->
               IF task[x] = "live" THEN got[x] \cup {sent + 1} ELSE got[x]]
  /\ UNCHANGED <<vars, client, offered, task, signal, lost>>

\* The connection is over: its token and subscriptions are withdrawn.
Over ==
  /\ client = "up"
  /\ client' = "gone"
  /\ sent' = 0
  /\ got' = [x \in Exporter |-> {}]
  /\ signal' = FALSE /\ lost' = FALSE
  /\ UNCHANGED <<vars, offered, task>>

\* Both half-closes have crossed, or the client went.
ClientLeaves == Over

\* error_monitor: the connection is reset.
SignalArrives == signal /\ Over

-----------------------------------------------------------------------------
(* The task an exporter runs for the client.                               *)

\* The query's reply or the live Put: one per term (see ExportClients).
Dispatch(x) ==
  /\ Serves(x) /\ client = "up" /\ x \notin offered
  /\ offered' = offered \cup {x}
  /\ Move(x, "dial")
  /\ UNCHANGED <<vars, client, sent, got, signal, lost>>

\* Connected and subscribed with history: a fresh backend is given what the cache
\* still holds.
DialOk(x) ==
  /\ task[x] = "dial"
  /\ Move(x, "live")
  /\ got' = [got EXCEPT ![x] = {n \in 1..sent : n + CacheSize > sent}]
  /\ UNCHANGED <<vars, client, sent, offered, signal, lost>>

DialFails(x) ==
  /\ task[x] = "dial" /\ "dial" \in ClientFaults
  /\ Move(x, "ending")
  /\ UNCHANGED <<vars, client, sent, offered, got, signal, lost>>

\* The backend resets its connection.
BackendFails(x) ==
  /\ task[x] = "live" /\ "backend" \in ClientFaults
  /\ Move(x, "ending")
  /\ UNCHANGED <<vars, client, sent, offered, got, signal, lost>>

\* The cancel channel, tripped: a task in its dial just goes, one that relays
\* tears down.
Cancelled(t) ==
  CASE t = "dial" -> "none" [] t = "live" -> "ending" [] OTHER -> t

\* handle_client_disconnect, on the Delete of the client's token.
TokenGone(x) ==
  /\ Serves(x) /\ client = "gone" /\ task[x] \in {"dial", "live"}
  /\ Move(x, Cancelled(task[x]))
  /\ UNCHANGED <<vars, client, sent, offered, got, signal, lost>>

\* Bug: only a failed dial tells the import.
BugTaskEnds(x) ==
  /\ task[x] = "ending"
  /\ Move(x, "none")
  /\ signal' = (signal \/ (client = "up" /\ got[x] = {}))
  /\ UNCHANGED <<vars, client, sent, offered, got, lost>>

\* publish_error_signal, unless the client is gone; then the task is over.
TaskEnds(x) ==
  /\ task[x] = "ending"
  /\ Move(x, "none")
  /\ signal' = (signal \/ client = "up")
  /\ UNCHANGED <<vars, client, sent, offered, got, lost>>

\* The drain's deadline: a task that hangs is aborted before it could signal.
DrainDeadline(x) ==
  /\ "hang" \in ClientFaults
  /\ role[x] \in {"draining", "closing"} /\ task[x] = "ending"
  /\ Move(x, "none")
  /\ lost' = (client = "up")
  /\ UNCHANGED <<vars, client, sent, offered, got, signal>>

-----------------------------------------------------------------------------
(* What Election's steps do to the task.                                   *)

\* Bug: the drain cancels the tasks and leaves their entries in the table, where
\* they make the next term take the client's Put for a duplicate.
BugDrainClient(x) ==
  /\ IF Serves(x)' THEN UNCHANGED task ELSE Move(x, Cancelled(task[x]))
  /\ UNCHANGED <<client, sent, offered, got, signal, lost>>

\* drain_all_clients empties the table and cancels the task, ...
DrainClient(x) ==
  /\ IF Serves(x)'
     THEN UNCHANGED <<task, offered>>
     ELSE Move(x, Cancelled(task[x])) /\ offered' = offered \ {x}
  /\ UNCHANGED <<client, sent, got, signal, lost>>

\* ... and waits for it.
DrainedClient(x) == task[x] = "none" /\ UNCHANGED clientVars

\* The process dies, its task with it.
DropClient(x) ==
  /\ Move(x, "none")
  /\ lost' = (lost \/ (client = "up" /\ task[x] # "none"))
  /\ offered' = offered \ {x}
  /\ UNCHANGED <<client, sent, got, signal>>

ElectionStep(x) ==
  \/ (Mint(x) \/ Subscribe(x) \/ Declare(x) \/ Arrive(x) \/ GoBlind(x)
      \/ Elect(x) \/ Wake(x) \/ WakeBlind(x) \/ Replayed(x)
      \/ Shutdown(x) \/ StandbyStop(x)) /\ UNCHANGED clientVars
  \/ (Changed(x) \/ ServeStop(x)) /\ DrainClient(x)
  \/ (Drained(x) \/ Closed(x)) /\ DrainedClient(x)
  \/ (Fail(x) \/ Crash(x)) /\ DropClient(x)

TaskStep(x) ==
  \/ Dispatch(x) \/ DialOk(x) \/ DialFails(x) \/ BackendFails(x)
  \/ TokenGone(x) \/ TaskEnds(x) \/ DrainDeadline(x)

ClientStep == Appear \/ Put \/ ClientLeaves \/ SignalArrives

Network ==
  /\ \E x, y \in Exporter : Cut(x, y) \/ Heal(x, y)
  /\ UNCHANGED clientVars

FailoverNext ==
  \/ \E x \in Exporter : ElectionStep(x) \/ TaskStep(x)
  \/ ClientStep
  \/ Network

FailoverSpec == FailoverInit /\ [][FailoverNext]_allVars

\* Election's fairness; a task runs on, its dial returns, its signal arrives.
TaskProgress(x) ==
  \/ Dispatch(x) \/ DialOk(x) \/ DialFails(x)
  \/ TokenGone(x) \/ TaskEnds(x) \/ DrainDeadline(x)

FairFailoverSpec ==
  /\ FailoverSpec
  /\ \A x \in Exporter :
       /\ WF_allVars(Progress(x) /\ ElectionStep(x))
       /\ WF_allVars(TaskProgress(x))
  /\ WF_allVars((\E x, y \in Exporter : Heal(x, y)) /\ UNCHANGED clientVars)
  /\ WF_allVars(SignalArrives)

-----------------------------------------------------------------------------
(* Properties.                                                             *)

\* A client that stays is served, whichever exporters come, die, are demoted or
\* shut down meanwhile, as long as one is left (serve_active's replay of the
\* clients "waiting through a failover").
WaitingServed ==
  client = "up" ~> \/ client = "gone"
                   \/ \E x \in Exporter : task[x] = "live"
                   \/ \A x \in Exporter : role[x] \in {"off", "stopped"}

\* Two exporters serve the client at once.
Split == \E x, y \in Exporter : x # y /\ task[x] = "live" /\ task[y] = "live"

\* A client two exporters have served at once does not go on: the one that is
\* demoted signals, and the connection, whose streams are mixed, is reset.  Only
\* an exporter that crashes, hangs past the drain's deadline or lost its claim
\* view breaks this (drain_all_clients, run_client).
SplitEndsInReset ==
  Split ~> client = "gone" \/ lost \/ blind # {}

-----------------------------------------------------------------------------
(* What the documentation says and the code does not do.                   *)

\* docs/routing.md:205: "If the active's session dies, the next-oldest takes over
\* and serves the clients that were waiting.  Traffic is therefore delivered
\* exactly once, to one backend": no backend is given bytes of a client that an
\* exporter which serves no longer had already given to its own.
TakenOverOnce ==
  [][\A x, y \in Exporter :
       x # y /\ got[y] = {} /\ got'[y] # {} => got[x] = {} \/ Serves(x)]_allVars
=============================================================================
