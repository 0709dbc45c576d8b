--------------------------- MODULE ExportClients ---------------------------
(***************************************************************************)
(* The client table of ONE exporter: serve_active follows the client       *)
(* liveliness tokens, dispatches one run_client task per client, and       *)
(* drains them on demotion or shutdown (export/bridge.rs).                 *)
(*                                                                         *)
(* A task's own life (dial, relay, error signal) is the subject of Relay;  *)
(* here it runs until it ends by itself, which it may do at any time, and  *)
(* must do once its cancel channel is signalled.  The election that        *)
(* activates and demotes the exporter is the subject of Election.          *)
(***************************************************************************)
EXTENDS Integers, Sequences, FiniteSets

CONSTANTS
  Client,   \* client ids: fresh UUIDs, one per accepted connection
  MaxTask,  \* client tasks ever spawned at most (bound)
  MaxFlap,  \* times a live token is lost and seen again at most (bound)
  MaxTerm   \* times the exporter is elected at most (bound)

ASSUME ExportAssumption ==
  /\ MaxTask \in Nat
  /\ MaxFlap \in Nat
  /\ MaxTerm \in Nat

Task == 1..MaxTask

VARIABLES
  mode,    \* where run_export_loop is
  terms,   \* Nat: terms as the active exporter so far
  stop,    \* the shutdown token is cancelled
  token,   \* [Client -> STRING]: the client's token as Zenoh shows it here
  flaps,   \* Nat: tokens lost and seen again so far
  events,  \* [Client -> Seq({"put", "del"})]: the liveliness subscriber's
  replies, \* the existing-clients query: clients still to be replayed
  map,     \* [Client -> Task \cup {0}]: cancellation_senders
  who,     \* [Task -> Client \cup {0}]: the client a task serves
  task,    \* [Task -> STRING]: the run_client task
  signal,  \* [Task -> BOOLEAN]: the task's cancel channel is signalled
  drain,   \* the tasks drain_all_clients waits for
  noticed  \* history: clients dispatched, or known, since they last appeared

tokVars  == <<token, flaps>>
taskVars == <<map, who, task, signal>>
vars     == <<mode, terms, stop, tokVars, events, replies, taskVars, drain,
              noticed>>

\* standby: not active; subscribed, replay, main: the stages of serve_active;
\* draining: demoted; closing: shutting down
Mode == {"standby", "subscribed", "replay", "main", "draining", "closing",
         "stopped"}

TypeOK ==
  /\ mode \in Mode
  /\ terms \in Nat
  /\ stop \in BOOLEAN
  /\ token \in [Client -> {"none", "alive", "lost", "gone"}]
  /\ flaps \in Nat
  /\ events \in [Client -> Seq({"put", "del"})]
  /\ replies \subseteq Client
  /\ map \in [Client -> Task \cup {0}]
  /\ who \in [Task -> Client \cup {0}]
  /\ task \in [Task -> {"free", "running", "ended", "aborted"}]
  /\ signal \in [Task -> BOOLEAN]
  /\ drain \subseteq Task
  /\ noticed \subseteq Client

Init ==
  /\ mode = "standby"
  /\ terms = 0
  /\ stop = FALSE
  /\ token = [c \in Client |-> "none"]
  /\ flaps = 0
  /\ events = [c \in Client |-> <<>>]
  /\ replies = {}
  /\ map = [c \in Client |-> 0]
  /\ who = [t \in Task |-> 0]
  /\ task = [t \in Task |-> "free"]
  /\ signal = [t \in Task |-> FALSE]
  /\ drain = {}
  /\ noticed = {}

-----------------------------------------------------------------------------
(* The clients' liveliness tokens (external).                              *)

Subscribed == mode \in {"subscribed", "replay", "main"}

\* The subscriber has no history: it sees what changes while it is declared.
Emit(c, e) ==
  events' = IF Subscribed THEN [events EXCEPT ![c] = Append(@, e)] ELSE events

Show(c, s) == token' = [token EXCEPT ![c] = s]

Appear(c) ==
  /\ token[c] = "none"
  /\ Show(c, "alive") /\ Emit(c, "put")
  /\ UNCHANGED <<mode, terms, stop, flaps, replies, taskVars, drain, noticed>>

\* The import undeclares the token, or its session dies.
Vanish(c) ==
  /\ token[c] \in {"alive", "lost"}
  /\ Show(c, "gone")
  /\ IF token[c] = "alive" THEN Emit(c, "del") ELSE UNCHANGED events
  /\ UNCHANGED <<mode, terms, stop, flaps, replies, taskVars, drain, noticed>>

\* A link failure hides a live client's token, then shows it again.
Hide(c) ==
  /\ token[c] = "alive" /\ flaps < MaxFlap
  /\ Show(c, "lost") /\ Emit(c, "del")
  /\ flaps' = flaps + 1
  /\ UNCHANGED <<mode, terms, stop, replies, taskVars, drain, noticed>>

Return(c) ==
  /\ token[c] = "lost"
  /\ Show(c, "alive") /\ Emit(c, "put")
  /\ UNCHANGED <<mode, terms, stop, flaps, replies, taskVars, drain, noticed>>

-----------------------------------------------------------------------------
(* serve_active.                                                           *)

Free == {t \in Task : task[t] = "free"}

\* dispatch_client_connect: a Put of a tracked client is ignored, otherwise a
\* task is spawned and registered under the lock.
dispatch(c) ==
  /\ noticed' = noticed \cup {c}
  /\ \/ map[c] # 0 /\ UNCHANGED taskVars
     \/ /\ map[c] = 0
        /\ \E t \in Free :
             /\ \A u \in Free : t <= u
             /\ map' = [map EXCEPT ![c] = t]
             /\ who' = [who EXCEPT ![t] = c]
             /\ task' = [task EXCEPT ![t] = "running"]
             /\ UNCHANGED signal

\* handle_client_disconnect: untrack the task and signal its cancel channel.
disconnect(c) ==
  /\ map' = [map EXCEPT ![c] = 0]
  /\ signal' = [t \in Task |-> signal[t] \/ t = map[c]]
  /\ noticed' = noticed \ {c}
  /\ UNCHANGED <<who, task>>

\* Elected: subscribe first ...
Activate ==
  /\ mode = "standby" /\ terms < MaxTerm
  /\ mode' = "subscribed"
  /\ terms' = terms + 1
  /\ events' = [c \in Client |-> <<>>]
  /\ UNCHANGED <<stop, tokVars, replies, taskVars, drain, noticed>>

\* Bug: the query is sent first; what appears before the subscriber is declared
\* is seen by neither.
BugQuery ==
  /\ mode = "subscribed"
  /\ mode' = "replay"
  /\ replies' = {c \in Client : token[c] = "alive" /\ events[c] = <<>>}
  /\ events' = [c \in Client |-> <<>>]
  /\ UNCHANGED <<terms, stop, tokVars, taskVars, drain, noticed>>

\* ... then query.
Query ==
  /\ mode = "subscribed"
  /\ mode' = "replay"
  /\ replies' = {c \in Client : token[c] = "alive"}
  /\ UNCHANGED <<terms, stop, tokVars, events, taskVars, drain, noticed>>

\* Declaring the subscriber or sending the query fails: the loop returns.
ServeFail ==
  /\ \/ mode = "standby" /\ terms < MaxTerm
     \/ mode = "subscribed"
  /\ mode' = "stopped"
  /\ events' = [c \in Client |-> <<>>]
  /\ UNCHANGED <<terms, stop, tokVars, replies, taskVars, drain, noticed>>

Reply(c) ==
  /\ mode = "replay" /\ c \in replies
  /\ replies' = replies \ {c}
  /\ dispatch(c)
  /\ UNCHANGED <<mode, terms, stop, tokVars, events, drain>>

\* All replies are in, or a shutdown does not wait for them.
ReplayEnd ==
  /\ mode = "replay"
  /\ replies = {} \/ stop
  /\ mode' = "main"
  /\ replies' = {}
  /\ UNCHANGED <<terms, stop, tokVars, events, taskVars, drain, noticed>>

Next_event(c, e) ==
  /\ mode = "main"
  /\ events[c] # <<>> /\ Head(events[c]) = e
  /\ events' = [events EXCEPT ![c] = Tail(@)]
  /\ UNCHANGED <<mode, terms, stop, tokVars, replies, drain>>

LivePut(c) == Next_event(c, "put") /\ dispatch(c)

\* Bug: a Delete leaves the task to notice by itself.
BugLiveDel(c) ==
  /\ Next_event(c, "del")
  /\ UNCHANGED <<taskVars, noticed>>

LiveDel(c) == Next_event(c, "del") /\ disconnect(c)

-----------------------------------------------------------------------------
(* The tasks, and draining them.                                           *)

\* Bug: the task frees the entry of its client, whoever owns it.
BugTaskEnd(t) ==
  /\ task[t] = "running"
  /\ task' = [task EXCEPT ![t] = "ended"]
  /\ map' = [map EXCEPT ![who[t]] = 0]
  /\ UNCHANGED <<mode, terms, stop, tokVars, events, replies, who, signal,
                 drain, noticed>>

\* run_client ends and frees its own entry, if it is still its own
\* (remove_self, remove_if_current).
TaskEnd(t) ==
  /\ task[t] = "running"
  /\ task' = [task EXCEPT ![t] = "ended"]
  /\ map' = [c \in Client |-> IF map[c] = t THEN 0 ELSE map[c]]
  /\ UNCHANGED <<mode, terms, stop, tokVars, events, replies, who, signal,
                 drain, noticed>>

\* drain_all_clients: take every entry, signal it, wait for it.
drain_all_clients ==
  /\ drain' = {map[c] : c \in Client} \ {0}
  /\ signal' = [t \in Task |-> signal[t] \/ t \in drain']
  /\ map' = [c \in Client |-> 0]
  /\ UNCHANGED <<who, task>>

\* The subscriber goes with serve_active, before or after the drain.
Retire(m) ==
  /\ mode' = m
  /\ events' = [c \in Client |-> <<>>]
  /\ noticed' = {}
  /\ UNCHANGED <<terms, stop, tokVars, replies>>

\* Bug: a demoted exporter stands by with its connections still running.
BugDemoted ==
  /\ mode = "main"
  /\ Retire("standby")
  /\ UNCHANGED <<taskVars, drain>>

Demoted == mode = "main" /\ Retire("draining") /\ drain_all_clients

ServeShutdown ==
  mode = "main" /\ stop /\ Retire("closing") /\ drain_all_clients

StandbyShutdown ==
  /\ mode = "standby" /\ stop
  /\ mode' = "stopped"
  /\ UNCHANGED <<terms, stop, tokVars, events, replies, taskVars, drain,
                 noticed>>

ShutdownRequest ==
  /\ ~stop
  /\ stop' = TRUE
  /\ UNCHANGED <<mode, terms, tokVars, events, replies, taskVars, drain,
                 noticed>>

\* Bug: the drain has no deadline.
BugDrainDeadline(t) == FALSE

\* The shared deadline: a task still running is aborted, without remove_self.
DrainDeadline(t) ==
  /\ t \in drain /\ task[t] = "running"
  /\ task' = [task EXCEPT ![t] = "aborted"]
  /\ UNCHANGED <<mode, terms, stop, tokVars, events, replies, map, who, signal,
                 drain, noticed>>

Drained ==
  /\ mode \in {"draining", "closing"}
  /\ \A t \in drain : task[t] # "running"
  /\ mode' = IF mode = "draining" THEN "standby" ELSE "stopped"
  /\ drain' = {}
  /\ UNCHANGED <<terms, stop, tokVars, events, replies, taskVars, noticed>>

-----------------------------------------------------------------------------
Next ==
  \/ \E c \in Client :
       \/ Appear(c) \/ Vanish(c) \/ Hide(c) \/ Return(c)
       \/ Reply(c) \/ LivePut(c) \/ LiveDel(c)
  \/ \E t \in Task : TaskEnd(t) \/ DrainDeadline(t)
  \/ Activate \/ Query \/ ServeFail \/ ReplayEnd \/ Demoted
  \/ ServeShutdown \/ StandbyShutdown \/ ShutdownRequest \/ Drained

Spec == Init /\ [][Next]_vars

\* The export loop runs on and timers fire; a task may hang for ever.
FairSpec ==
  /\ Spec
  /\ WF_vars(Query \/ ReplayEnd \/ ServeShutdown \/ StandbyShutdown \/ Drained)
  /\ \A c \in Client : WF_vars(Reply(c))
  /\ \A t \in Task : WF_vars(DrainDeadline(t))

-----------------------------------------------------------------------------
(* Properties.                                                             *)

\* A running task can always be stopped: it is tracked as its client's own
\* entry, or its cancel channel is already signalled.  In particular a client
\* has at most one task that nobody told to stop (the dispatch lock,
\* remove_if_current).
NoOrphan ==
  \A t \in Task :
    task[t] = "running" => signal[t] \/ (who[t] \in Client /\ map[who[t]] = t)

\* No client falls between the subscriber and the query: once the exporter has
\* handled all events of a live client, it has dispatched it (serve_active:
\* "Subscribe FIRST, then query").
NoMissedClient ==
  \A c \in Client :
    mode = "main" /\ ~stop /\ token[c] = "alive" /\ events[c] = <<>>
      => c \in noticed

\* A client that is gone is let go of: once its events are handled, no task
\* serves it any longer except to tear itself down.
GoneIsTornDown ==
  \A c \in Client :
    mode = "main" /\ token[c] \in {"lost", "gone"} /\ events[c] = <<>>
      => \A t \in Task : who[t] = c /\ task[t] = "running" => signal[t]

\* An exporter that is not active serves nobody: all that may still run are
\* tasks that were told to stop.
IdleServesNobody ==
  mode \in {"standby", "stopped"} =>
    \A t \in Task : task[t] = "running" => signal[t]

\* A shutdown gets through, even with a backend that never lets go.
ShutdownEnds == stop ~> (mode = "stopped")
=============================================================================
