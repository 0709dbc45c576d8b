------------------------------ MODULE Election ------------------------------
(***************************************************************************)
(* Active/standby election between the exporters of one scope              *)
(* (export/election.rs) and the role loop that obeys it (run_export_loop   *)
(* and serve_active in export/bridge.rs).                                  *)
(*                                                                         *)
(* An exporter IS its claim segment: a number that orders like             *)
(* {start_ts}-{zid}-{uuid}, so a restarted process is a new exporter.      *)
(* Zenoh liveliness is external: the claims visible to an exporter are     *)
(* those held at its side of any partition; each difference from what its  *)
(* subscriber has been told so far is one Put or Delete still on its way.  *)
(***************************************************************************)
EXTENDS Integers, FiniteSets

CONSTANTS
  Exporter,  \* the claim segments that are ever minted
  Skew,      \* TRUE: clocks disagree, a later claim may be the smaller one
  MaxCut,    \* partitions at most (bound)
  Faults     \* crash, shutdown, session, blind: what may go wrong

FaultClass == {"crash", "shutdown", "session", "blind"}

ASSUME ElectionAssumption ==
  /\ Exporter \subseteq Nat
  /\ Skew \in BOOLEAN
  /\ MaxCut \in Nat
  /\ Faults \subseteq FaultClass

VARIABLES
  role,    \* [Exporter -> Role]: where run_export_loop is
  held,    \* the claims whose liveliness token is declared
  told,    \* [Exporter -> SUBSET Exporter]: claims, were the channel drained
  news,    \* [Exporter -> BOOLEAN]: claim events wait in the channel
  claims,  \* [Exporter -> SUBSET Exporter]: Claim.claims, the drained view
  blind,   \* exporters whose claim subscriber died
  stop,    \* exporters whose shutdown token is cancelled
  cut,     \* the pairs of exporters that do not reach each other
  cuts     \* Nat: partitions so far

netVars == <<cut, cuts>>
vars    == <<role, held, told, news, claims, blind, stop, netVars>>

\* elect: the top of the role loop; replay: serve_active replaying the existing
\* clients; serving: its select loop; draining: demoted; closing: shutting down
Role == {"off", "minted", "subscribed", "elect", "standby", "replay",
         "serving", "draining", "closing", "stopped"}

TypeOK ==
  /\ role \in [Exporter -> Role]
  /\ held \subseteq Exporter
  /\ told \in [Exporter -> SUBSET Exporter]
  /\ news \in [Exporter -> BOOLEAN]
  /\ claims \in [Exporter -> SUBSET Exporter]
  /\ blind \subseteq Exporter
  /\ stop \subseteq Exporter
  /\ cut \subseteq SUBSET Exporter
  /\ cuts \in Nat

Init ==
  /\ role = [x \in Exporter |-> "off"]
  /\ held = {}
  /\ told = [x \in Exporter |-> {}]
  /\ news = [x \in Exporter |-> FALSE]
  /\ claims = [x \in Exporter |-> {}]
  /\ blind = {}
  /\ stop = {}
  /\ cut = {}
  /\ cuts = 0

Visible(x) == {y \in held : {x, y} \notin cut}
Running(x) == role[x] \notin {"off", "stopped"}
Serves(x)  == role[x] \in {"replay", "serving"}
Become(x, r) == role' = [role EXCEPT ![x] = r]

-----------------------------------------------------------------------------
(* Zenoh liveliness (external).                                            *)

\* Bug: a withdrawn claim stays in the set.
Bugapply(S, y, put) == IF put THEN S \cup {y} ELSE S

\* apply: a Put inserts the claim, a Delete removes it.
apply(S, y, put) == IF put THEN S \cup {y} ELSE S \ {y}

\* One claim event reaches the subscriber's channel.
Arrive(x) ==
  /\ Running(x) /\ role[x] # "minted" /\ x \notin blind
  /\ \E y \in Exporter :
       /\ (y \in Visible(x)) # (y \in told[x])
       /\ told' = [told EXCEPT ![x] = apply(@, y, y \in Visible(x))]
  /\ news' = [news EXCEPT ![x] = TRUE]
  /\ UNCHANGED <<role, held, claims, blind, stop, netVars>>

\* The subscriber dies; what is in its channel can still be received.
GoBlind(x) ==
  /\ "blind" \in Faults
  /\ Running(x) /\ role[x] # "minted" /\ x \notin blind
  /\ blind' = blind \cup {x}
  /\ UNCHANGED <<role, held, told, news, claims, stop, netVars>>

Cut(x, y) ==
  /\ x # y /\ {x, y} \notin cut
  /\ cuts < MaxCut
  /\ cut' = cut \cup {{x, y}}
  /\ cuts' = cuts + 1
  /\ UNCHANGED <<role, held, told, news, claims, blind, stop>>

Heal(x, y) ==
  /\ {x, y} \in cut
  /\ cut' = cut \ {{x, y}}
  /\ UNCHANGED <<role, held, told, news, claims, blind, stop, cuts>>

-----------------------------------------------------------------------------
(* Claim::establish.                                                       *)

\* The segment is minted from the clock: with agreeing clocks, in order.
Mint(x) ==
  /\ role[x] = "off"
  /\ Skew \/ \A y \in Exporter : y < x => role[y] # "off"
  /\ Become(x, "minted")
  /\ UNCHANGED <<held, told, news, claims, blind, stop, netVars>>

\* The claim subscriber, with history, before our own token.
Subscribe(x) ==
  /\ role[x] = "minted"
  /\ Become(x, "subscribed")
  /\ UNCHANGED <<held, told, news, claims, blind, stop, netVars>>

\* The claim token; the claim set starts with our own claim.
Declare(x) ==
  /\ role[x] = "subscribed"
  /\ Become(x, "elect")
  /\ held' = held \cup {x}
  /\ claims' = [claims EXCEPT ![x] = {x}]
  /\ told' = [told EXCEPT ![x] = @ \cup {x}]
  /\ UNCHANGED <<news, blind, stop, netVars>>

-----------------------------------------------------------------------------
(* The role loop.                                                          *)

\* The smallest claim wins.
elect(S, own) == own \in S /\ \A y \in S : own <= y

\* drain_pending, then the rule.
is_active(x) ==
  /\ claims' = [claims EXCEPT ![x] = told[x]]
  /\ news' = [news EXCEPT ![x] = FALSE]

\* The check at the top of the loop.
Elect(x) ==
  /\ role[x] = "elect"
  /\ is_active(x)
  /\ Become(x, IF elect(told[x], x) THEN "replay" ELSE "standby")
  /\ UNCHANGED <<held, told, blind, stop, netVars>>

\* wait_until_active: an event wakes the standby, which checks again.
Wake(x) ==
  /\ role[x] = "standby" /\ news[x]
  /\ is_active(x)
  /\ Become(x, IF elect(told[x], x) THEN "replay" ELSE "standby")
  /\ UNCHANGED <<held, told, blind, stop, netVars>>

\* wait_until_active with a dead claim view: assume the active role.
WakeBlind(x) ==
  /\ role[x] = "standby" /\ ~news[x] /\ x \in blind
  /\ Become(x, "replay")
  /\ UNCHANGED <<held, told, news, claims, blind, stop, netVars>>

\* The existing clients are replayed; no claim event is looked at meanwhile.
Replayed(x) ==
  /\ role[x] = "replay"
  /\ Become(x, "serving")
  /\ UNCHANGED <<held, told, news, claims, blind, stop, netVars>>

\* Bug: an active exporter does not watch for older claims.
BugChanged(x) ==
  /\ role[x] = "serving" /\ news[x]
  /\ is_active(x)
  /\ UNCHANGED <<role, held, told, blind, stop, netVars>>

\* changed_still_active: an older claim demotes.
Changed(x) ==
  /\ role[x] = "serving" /\ news[x]
  /\ is_active(x)
  /\ Become(x, IF elect(told[x], x) THEN "serving" ELSE "draining")
  /\ UNCHANGED <<held, told, blind, stop, netVars>>

\* drain_all_clients is over: back to the top of the loop.
Drained(x) ==
  /\ role[x] = "draining"
  /\ Become(x, "elect")
  /\ UNCHANGED <<held, told, news, claims, blind, stop, netVars>>

-----------------------------------------------------------------------------
(* The end of run_export_loop: the claim token is dropped.                 *)

Leave(x) ==
  /\ Become(x, "stopped")
  /\ held' = held \ {x}
  /\ told' = [told EXCEPT ![x] = {}]
  /\ news' = [news EXCEPT ![x] = FALSE]
  /\ claims' = [claims EXCEPT ![x] = {}]
  /\ blind' = blind \ {x}
  /\ stop' = stop \ {x}
  /\ UNCHANGED netVars

Shutdown(x) ==
  /\ "shutdown" \in Faults
  /\ Running(x) /\ x \notin stop
  /\ stop' = stop \cup {x}
  /\ UNCHANGED <<role, held, told, news, claims, blind, netVars>>

StandbyStop(x) == role[x] = "standby" /\ x \in stop /\ Leave(x)

\* The active one drains its clients first, its claim still declared.
ServeStop(x) ==
  /\ role[x] = "serving" /\ x \in stop
  /\ Become(x, "closing")
  /\ UNCHANGED <<held, told, news, claims, blind, stop, netVars>>

Closed(x) == role[x] = "closing" /\ Leave(x)

\* A declaration, the liveliness subscription or the query fails.
Fail(x) ==
  /\ "session" \in Faults
  /\ role[x] \in {"minted", "subscribed", "replay"}
  /\ Leave(x)

\* The process or its session dies; Zenoh withdraws the token.
Crash(x) == "crash" \in Faults /\ Running(x) /\ Leave(x)

-----------------------------------------------------------------------------
Next ==
  \/ \E x \in Exporter :
       \/ Mint(x) \/ Subscribe(x) \/ Declare(x)
       \/ Arrive(x) \/ GoBlind(x)
       \/ Elect(x) \/ Wake(x) \/ WakeBlind(x) \/ Replayed(x)
       \/ Changed(x) \/ Drained(x)
       \/ Shutdown(x) \/ StandbyStop(x) \/ ServeStop(x) \/ Closed(x)
       \/ Fail(x) \/ Crash(x)
  \/ \E x, y \in Exporter : Cut(x, y) \/ Heal(x, y)

Spec == Init /\ [][Next]_vars

\* Every exporter's task runs on, Zenoh delivers, partitions heal.
Progress(x) ==
  \/ Arrive(x) \/ Subscribe(x) \/ Declare(x)
  \/ Elect(x) \/ Wake(x) \/ WakeBlind(x) \/ Replayed(x) \/ Changed(x)
  \/ Drained(x) \/ StandbyStop(x) \/ ServeStop(x) \/ Closed(x)

FairSpec ==
  /\ Spec
  /\ \A x \in Exporter : WF_vars(Progress(x))
  /\ \A x, y \in Exporter : WF_vars(Heal(x, y))

-----------------------------------------------------------------------------
(* Properties.                                                             *)

\* An exporter that has heard and looked at everything it can hear.
Settled(x) == told[x] = Visible(x) /\ ~news[x] /\ x \notin blind

\* Two exporters that have both looked at every claim they can see serve at the
\* same time only across a partition: a split is never stable (election.rs).
AgreedActive ==
  \A x, y \in Exporter :
    x # y /\ Serves(x) /\ Serves(y) /\ Settled(x) /\ Settled(y)
      => {x, y} \in cut

\* Once claims stop changing, the exporter with the smallest one serves and the
\* others do not: a standby takes over from a dead active, and a split of the
\* scope is resolved (election.rs, run_export_loop).  Only an exporter that lost
\* its claim subscriber may disagree.
Converged ==
  \A x \in held \ blind : Serves(x) <=> \A y \in held : x <= y
Converges == <>[]Converged

============================================================================
