------------------------------- MODULE Relay -------------------------------
(***************************************************************************)
(* The data plane of ONE bridged connection: a client talks to an import   *)
(* bridge, which relays over Zenoh to an export bridge, which talks to the *)
(* backend.  import/bridge.rs and export/bridge.rs are mirror images of    *)
(* each other, so each direction of the stream is modelled once:           *)
(*                                                                         *)
(*    peer --> reader task --> Zenoh --> bounded channel --> writer task   *)
(*             (rd)            (wire)    (chan)              (wr) --> peer *)
(*                                                                         *)
(* Direction "up" is client to backend: read by the import end, written by *)
(* the export end.  Direction "down" is backend to client.                 *)
(*                                                                         *)
(* A sample is represented by its position in its publisher's sequence, so *)
(* the peer's stream is 1, 2, 3, ...; the empty EOF marker is the sample   *)
(* numbered eofAt[d].  Zenoh is external: per-key FIFO, with a history of  *)
(* CacheSize samples for a late subscriber, unrecoverable losses reported  *)
(* to the sample-miss listener before anything later is delivered.         *)
(***************************************************************************)
EXTENDS Integers, Sequences

CONSTANTS
  Stream,     \* TRUE: ReliabilityMode::Stream, FALSE: Telemetry
  MaxRead,    \* [Dir -> Nat]: data chunks a peer sends at most (bound)
  Capacity,   \* rx_channel_capacity
  CacheSize,  \* publisher cache_size
  MaxLoss,    \* unrecoverable Zenoh losses per connection at most (bound)
  Faults      \* the classes of failure that may happen

Dir == {"up", "down"}
End == {"imp", "exp"}

\* Which failures a run allows:
\*   peer     a socket read or write fails
\*   session  a Zenoh operation fails
\*   loss     Zenoh loses a sample for good
\*   gate     the import relays before the export's subscriber is matched
\*   setup    a dial or a declaration fails or times out
\*   shutdown the import listener's drain deadline passes
\*   drain    the export drains its clients (shutdown or demotion)
FaultClass == {"peer", "session", "loss", "gate", "setup", "shutdown", "drain"}

ASSUME RelayAssumption ==
  /\ Stream \in BOOLEAN
  /\ MaxRead \in [Dir -> Nat]
  /\ Capacity \in Nat \ {0}
  /\ CacheSize \in Nat \ {0}
  /\ MaxLoss \in Nat
  /\ Faults \subseteq FaultClass

Snd(d) == IF d = "up" THEN "imp" ELSE "exp"
Rcv(d) == IF d = "up" THEN "exp" ELSE "imp"

VARIABLES
  phase,     \* [End -> STRING]: how far the connection handler has got
  token,     \* the client's liveliness token: none, alive, gone
  extCancel, \* export: the client's cancel channel has been signalled
  errSig,    \* the error signal for this client is published and held
  outcome,   \* [End -> STRING]: the ConnectionOutcome recorded, or "none"
  cancel,    \* [End -> BOOLEAN]: conn_cancel
  read,      \* [Dir -> Nat]: samples the reader has taken from its peer
  eofAt,     \* [Dir -> Nat]: number of the EOF marker, 0 before the EOF
  rd,        \* [Dir -> STRING]: the reader task
  wire,      \* [Dir -> Seq(Nat)]: published, not yet handed to the callback
  pub,       \* [Dir -> BOOLEAN]: the publisher is declared
  sub,       \* [Dir -> BOOLEAN]: the subscriber is declared
  listen,    \* [Dir -> BOOLEAN]: the sample-miss listener is registered
  gap,       \* [Dir -> BOOLEAN]: a sample is lost, Zenoh has not reported it
  losses,    \* Nat: losses so far
  silent,    \* [Dir -> BOOLEAN]: history: samples vanished unannounced
  chan,      \* [Dir -> Seq(Nat)]: the rx_channel
  hand,      \* [Dir -> Nat]: the sample the writer is writing, 0 for none
  wr,        \* [Dir -> STRING]: the writer task
  delivered, \* [Dir -> Seq(Nat)]: the data written to the receiving peer
  sink       \* [Dir -> STRING]: that peer's view of its read side

ctlVars  == <<phase, token, extCancel, errSig, outcome>>
sndVars  == <<read, eofAt, rd>>
zVars    == <<wire, pub, sub, listen, gap, losses, silent>>
rcvVars  == <<chan, hand, wr, delivered, sink>>
vars     == <<ctlVars, cancel, sndVars, zVars, rcvVars>>

ImpPhase == {"init", "declared", "gate", "initial", "listen", "relay",
             "joined", "done"}
ExpPhase == {"absent", "dialing", "dialed", "subscribed", "relay", "signal",
             "done"}
TaskEnd  == {"eof", "reset", "error", "aborted"}
RdState  == {"off", "idle", "putting"} \cup TaskEnd
WrState  == {"off", "idle", "writing"} \cup TaskEnd
Outcome  == {"none", "Completed", "Reset", "Failed"}
\* fin: send_eof after the EOF marker; shut: shutdown() of a reset connection;
\* dropped: the write half was dropped
SinkState == {"open", "fin", "shut", "dropped"}

TypeOK ==
  /\ phase \in [End -> ImpPhase \cup ExpPhase]
  /\ phase["imp"] \in ImpPhase
  /\ phase["exp"] \in ExpPhase
  /\ token \in {"none", "alive", "gone"}
  /\ extCancel \in BOOLEAN
  /\ errSig \in BOOLEAN
  /\ outcome \in [End -> Outcome]
  /\ cancel \in [End -> BOOLEAN]
  /\ read \in [Dir -> Nat]
  /\ eofAt \in [Dir -> Nat]
  /\ rd \in [Dir -> RdState]
  /\ wire \in [Dir -> Seq(Nat)]
  /\ pub \in [Dir -> BOOLEAN]
  /\ sub \in [Dir -> BOOLEAN]
  /\ listen \in [Dir -> BOOLEAN]
  /\ gap \in [Dir -> BOOLEAN]
  /\ losses \in Nat
  /\ silent \in [Dir -> BOOLEAN]
  /\ chan \in [Dir -> Seq(Nat)]
  /\ hand \in [Dir -> Nat]
  /\ wr \in [Dir -> WrState]
  /\ delivered \in [Dir -> Seq(Nat)]
  /\ sink \in [Dir -> SinkState]

Init ==
  /\ phase = [e \in End |-> IF e = "imp" THEN "init" ELSE "absent"]
  /\ token = "none"
  /\ extCancel = FALSE
  /\ errSig = FALSE
  /\ outcome = [e \in End |-> "none"]
  /\ cancel = [e \in End |-> FALSE]
  /\ read = [d \in Dir |-> 0]
  /\ eofAt = [d \in Dir |-> 0]
  /\ rd = [d \in Dir |-> "off"]
  /\ wire = [d \in Dir |-> <<>>]
  /\ pub = [d \in Dir |-> FALSE]
  /\ sub = [d \in Dir |-> FALSE]
  /\ listen = [d \in Dir |-> FALSE]
  /\ gap = [d \in Dir |-> FALSE]
  /\ losses = 0
  /\ silent = [d \in Dir |-> FALSE]
  /\ chan = [d \in Dir |-> <<>>]
  /\ hand = [d \in Dir |-> 0]
  /\ wr = [d \in Dir |-> "off"]
  /\ delivered = [d \in Dir |-> <<>>]
  /\ sink = [d \in Dir |-> "open"]

Cancel(e) == cancel' = [cancel EXCEPT ![e] = TRUE]

-----------------------------------------------------------------------------
(* Zenoh (external): publication, delivery, loss.                          *)

\* publisher.put: a matched subscriber will be handed the sample; otherwise it
\* stays in the publisher's cache, which evicts its oldest sample when full.
Publish(d, n) ==
  LET s == Append(wire[d], n)
      evicts == ~sub[d] /\ Len(s) > CacheSize
  IN  /\ wire' = [wire EXCEPT ![d] = IF evicts THEN Tail(s) ELSE s]
      /\ silent' = [silent EXCEPT ![d] = @ \/ (evicts /\ wr[d] \notin TaskEnd)]

\* Zenoh loses a sample and cannot recover it.
Lose(d) ==
  /\ "loss" \in Faults
  /\ losses < MaxLoss
  /\ sub[d] /\ wire[d] # <<>>
  /\ wire' = [wire EXCEPT ![d] = Tail(@)]
  /\ gap' = [gap EXCEPT ![d] = TRUE]
  /\ losses' = losses + 1
  /\ UNCHANGED <<ctlVars, cancel, sndVars, pub, sub, listen, silent, rcvVars>>

\* Bug: the listener only logs the miss.
BugReportMiss(d) ==
  /\ gap[d] /\ sub[d]
  /\ wire[d] # <<>> \/ pub[d]
  /\ gap' = [gap EXCEPT ![d] = FALSE]
  /\ UNCHANGED <<ctlVars, cancel, sndVars, wire, pub, sub, listen, losses,
                 silent, rcvVars>>

\* The subscriber gives up on the missing sample: a later sample or the
\* publisher's heartbeat revealed it.  The listener's callback trips the token.
ReportMiss(d) ==
  /\ gap[d] /\ sub[d]
  /\ wire[d] # <<>> \/ pub[d]
  /\ gap' = [gap EXCEPT ![d] = FALSE]
  /\ IF listen[d]
     THEN Cancel(Rcv(d)) /\ UNCHANGED silent
     ELSE silent' = [silent EXCEPT ![d] = TRUE] /\ UNCHANGED cancel
  /\ UNCHANGED <<ctlVars, sndVars, wire, pub, sub, listen, losses, rcvVars>>

\* rx_channel's callback: never blocks.  A full channel resets the connection
\* in Stream mode and sheds the sample in Telemetry mode; once the writer task
\* has dropped the receiver the sample is discarded.
Deliver(d) ==
  /\ sub[d] /\ ~gap[d] /\ wire[d] # <<>>
  /\ wire' = [wire EXCEPT ![d] = Tail(@)]
  /\ LET full == Len(chan[d]) >= Capacity
     IN  IF wr[d] \in TaskEnd
         THEN UNCHANGED <<chan, cancel>>
         ELSE /\ chan' = IF full THEN chan
                         ELSE [chan EXCEPT ![d] = Append(@, Head(wire[d]))]
              /\ IF full /\ Stream THEN Cancel(Rcv(d)) ELSE UNCHANGED cancel
  /\ UNCHANGED <<ctlVars, sndVars, pub, sub, listen, gap, losses, silent,
                 hand, wr, delivered, sink>>

-----------------------------------------------------------------------------
(* The reader task of a direction: client_to_zenoh, backend_to_zenoh.      *)

Reading(d) == rd[d] = "idle"

ReadData(d) ==
  /\ Reading(d)
  /\ read[d] < MaxRead[d]
  /\ read' = [read EXCEPT ![d] = @ + 1]
  /\ rd' = [rd EXCEPT ![d] = "putting"]
  /\ UNCHANGED <<ctlVars, cancel, eofAt, zVars, rcvVars>>

\* An empty read: the peer half-closed, the EOF marker is the next sample.
ReadEof(d) ==
  /\ Reading(d)
  /\ read' = [read EXCEPT ![d] = @ + 1]
  /\ eofAt' = [eofAt EXCEPT ![d] = read[d] + 1]
  /\ rd' = [rd EXCEPT ![d] = "putting"]
  /\ UNCHANGED <<ctlVars, cancel, zVars, rcvVars>>

\* Bug: an empty read ends the task without publishing the EOF marker.
BugPutOk(d) ==
  /\ rd[d] = "putting"
  /\ IF read[d] = eofAt[d]
     THEN rd' = [rd EXCEPT ![d] = "eof"] /\ UNCHANGED <<wire, silent>>
     ELSE rd' = [rd EXCEPT ![d] = "idle"] /\ Publish(d, read[d])
  /\ UNCHANGED <<ctlVars, cancel, read, eofAt, pub, sub, listen, gap, losses,
                 rcvVars>>

PutOk(d) ==
  /\ rd[d] = "putting"
  /\ Publish(d, read[d])
  /\ rd' = [rd EXCEPT ![d] = IF read[d] = eofAt[d] THEN "eof" ELSE "idle"]
  /\ UNCHANGED <<ctlVars, cancel, read, eofAt, pub, sub, listen, gap, losses,
                 rcvVars>>

\* A failed put, of data or of the EOF marker, resets the connection.
PutErr(d) ==
  /\ "session" \in Faults
  /\ rd[d] = "putting"
  /\ Cancel(Snd(d))
  /\ rd' = [rd EXCEPT ![d] = "error"]
  /\ UNCHANGED <<ctlVars, read, eofAt, zVars, rcvVars>>

\* A read error resets the connection and publishes no EOF marker.
ReadErr(d) ==
  /\ "peer" \in Faults
  /\ Reading(d)
  /\ Cancel(Snd(d))
  /\ rd' = [rd EXCEPT ![d] = "error"]
  /\ UNCHANGED <<ctlVars, read, eofAt, zVars, rcvVars>>

\* The cancelled() arm of the select.
ReaderCancelled(d) ==
  /\ Reading(d)
  /\ cancel[Snd(d)]
  /\ rd' = [rd EXCEPT ![d] = "reset"]
  /\ UNCHANGED <<ctlVars, cancel, read, eofAt, zVars, rcvVars>>

-----------------------------------------------------------------------------
(* The writer task of a direction: zenoh_to_client, zenoh_to_backend.      *)

\* The rx.recv() arm.  The select is not biased: it may win over a tripped
\* token as long as the channel holds a sample.
Take(d) ==
  /\ wr[d] = "idle"
  /\ chan[d] # <<>>
  /\ hand' = [hand EXCEPT ![d] = Head(chan[d])]
  /\ chan' = [chan EXCEPT ![d] = Tail(@)]
  /\ wr' = [wr EXCEPT ![d] = "writing"]
  /\ UNCHANGED <<ctlVars, cancel, sndVars, zVars, delivered, sink>>

\* write_data, or send_eof for the EOF marker, succeeds.
WriteOk(d) ==
  /\ wr[d] = "writing"
  /\ hand' = [hand EXCEPT ![d] = 0]
  /\ IF hand[d] = eofAt[d]
     THEN /\ wr' = [wr EXCEPT ![d] = "eof"]
          /\ sink' = [sink EXCEPT ![d] = "fin"]
          /\ UNCHANGED delivered
     ELSE /\ wr' = [wr EXCEPT ![d] = "idle"]
          /\ delivered' = [delivered EXCEPT ![d] = Append(@, hand[d])]
          /\ UNCHANGED sink
  /\ UNCHANGED <<ctlVars, cancel, sndVars, zVars, chan>>

WriteErr(d) ==
  /\ "peer" \in Faults
  /\ wr[d] = "writing"
  /\ Cancel(Rcv(d))
  /\ hand' = [hand EXCEPT ![d] = 0]
  /\ wr' = [wr EXCEPT ![d] = "error"]
  /\ sink' = [sink EXCEPT ![d] = "dropped"]
  /\ UNCHANGED <<ctlVars, sndVars, zVars, chan, delivered>>

\* rx.recv() returned None: the session dropped the subscriber's callback.
ChannelClosed(d) ==
  /\ "session" \in Faults
  /\ wr[d] = "idle"
  /\ chan[d] = <<>>
  /\ Cancel(Rcv(d))
  /\ wr' = [wr EXCEPT ![d] = "error"]
  /\ sink' = [sink EXCEPT ![d] = "dropped"]
  /\ UNCHANGED <<ctlVars, sndVars, zVars, chan, hand, delivered>>

\* Bug: after shutdown() the writer goes on with what is in the channel.
BugWriterCancelled(d) ==
  /\ wr[d] = "idle"
  /\ cancel[Rcv(d)]
  /\ sink' = [sink EXCEPT ![d] = "shut"]
  /\ UNCHANGED <<ctlVars, cancel, sndVars, zVars, chan, hand, wr, delivered>>

\* The cancelled() arm: shutdown() half-closes the socket like send_eof does.
WriterCancelled(d) ==
  /\ wr[d] = "idle"
  /\ cancel[Rcv(d)]
  /\ wr' = [wr EXCEPT ![d] = "reset"]
  /\ sink' = [sink EXCEPT ![d] = "shut"]
  /\ UNCHANGED <<ctlVars, cancel, sndVars, zVars, chan, hand, delivered>>

-----------------------------------------------------------------------------
(* The connection handler at each end.                                     *)

\* The directions an end reads from and writes to its own peer.
ReadDir(e)  == IF e = "imp" THEN "up" ELSE "down"
WriteDir(e) == IF e = "imp" THEN "down" ELSE "up"

\* Bug: the watchdog aborts the reader task only.
BugWatchdog(e) ==
  /\ phase[e] = "relay"
  /\ cancel[e]
  /\ rd[ReadDir(e)] \notin TaskEnd
  /\ rd' = [rd EXCEPT ![ReadDir(e)] = "aborted"]
  /\ UNCHANGED <<ctlVars, cancel, read, eofAt, zVars, rcvVars>>

\* The drain budget after a reset is spent: both tasks are aborted, and with
\* them the halves of the socket they own.
Watchdog(e) ==
  LET i == ReadDir(e)
      o == WriteDir(e)
  IN  /\ phase[e] = "relay"
      /\ cancel[e]
      /\ rd[i] \notin TaskEnd \/ wr[o] \notin TaskEnd
      /\ rd' = IF rd[i] \in TaskEnd THEN rd ELSE [rd EXCEPT ![i] = "aborted"]
      /\ IF wr[o] \in TaskEnd THEN UNCHANGED <<wr, sink, hand>>
         ELSE /\ wr' = [wr EXCEPT ![o] = "aborted"]
              /\ sink' = [sink EXCEPT ![o] = "dropped"]
              /\ hand' = [hand EXCEPT ![o] = 0]
      /\ UNCHANGED <<ctlVars, cancel, read, eofAt, zVars, chan, delivered>>

TasksEnded(e) == rd[ReadDir(e)] \in TaskEnd /\ wr[WriteDir(e)] \in TaskEnd

\* Undeclaring (or dropping) an end's entities.  The publisher's cache goes
\* with it: what no subscriber was matched for is unrecoverable.
Undeclare(e) ==
  LET i == ReadDir(e)
      lost == ~sub[i] /\ wire[i] # <<>>
  IN  /\ pub' = [pub EXCEPT ![i] = FALSE]
      /\ wire' = [wire EXCEPT ![i] = IF lost THEN <<>> ELSE @]
      /\ silent' = [silent EXCEPT ![i] = @ \/ (lost /\ wr[i] \notin TaskEnd)]
      /\ sub' = [sub EXCEPT ![WriteDir(e)] = FALSE]
      /\ listen' = [listen EXCEPT ![WriteDir(e)] = FALSE]
      /\ UNCHANGED <<gap, losses>>

Goto(e, p) == phase' = [phase EXCEPT ![e] = p]

\* Spawning the two relay tasks.
Spawn(e) ==
  /\ rd' = [rd EXCEPT ![ReadDir(e)] = "idle"]
  /\ wr' = [wr EXCEPT ![WriteDir(e)] = "idle"]

(* ---- import: bridge_import_connection ---------------------------------- *)

\* Error subscriber, rx subscriber and tx publisher.
ImpDeclare ==
  /\ phase["imp"] = "init"
  /\ Goto("imp", "declared")
  /\ sub' = [sub EXCEPT !["down"] = TRUE]
  /\ pub' = [pub EXCEPT !["up"] = TRUE]
  /\ UNCHANGED <<token, extCancel, errSig, outcome, cancel, sndVars, wire,
                 listen, gap, losses, silent, rcvVars>>

\* The liveliness token, last: the export only now learns of this client.
ImpToken ==
  /\ phase["imp"] = "declared"
  /\ Goto("imp", "gate")
  /\ token' = "alive"
  /\ UNCHANGED <<extCancel, errSig, outcome, cancel, sndVars, zVars, rcvVars>>

\* await_matching_subscriber: in Stream mode wait for the export's tx
\* subscriber; on a timeout relay anyway.  Without the fault "gate" the timeout
\* only fires when no subscriber is coming.  If the listener has buffered a
\* request head, that goes out next.
ImpGate ==
  /\ phase["imp"] = "gate"
  /\ \/ ~Stream \/ sub["up"]
     \/ "gate" \in Faults \/ phase["exp"] \in {"signal", "done"}
  /\ \/ Goto("imp", "listen")
     \/ read["up"] < MaxRead["up"] /\ Goto("imp", "initial")
  /\ UNCHANGED <<token, extCancel, errSig, outcome, cancel, sndVars, zVars,
                 rcvVars>>

\* The put of the buffered head.  Nothing watches the connection yet: not the
\* error signal, not the token, and no deadline.
ImpInitialPut ==
  /\ phase["imp"] = "initial" /\ read["up"] < MaxRead["up"]
  /\ Goto("imp", "listen")
  /\ read' = [read EXCEPT !["up"] = @ + 1]
  /\ Publish("up", read["up"] + 1)
  /\ UNCHANGED <<token, extCancel, errSig, outcome, cancel, eofAt, rd, pub,
                 sub, listen, gap, losses, rcvVars>>

\* Sample-miss listener (Stream only), error monitor, both relay tasks.
ImpStart ==
  /\ phase["imp"] = "listen"
  /\ Goto("imp", "relay")
  /\ listen' = [listen EXCEPT !["down"] = Stream]
  /\ Spawn("imp")
  /\ UNCHANGED <<token, extCancel, errSig, outcome, cancel, read, eofAt, wire,
                 pub, sub, gap, losses, silent, chan, hand, delivered, sink>>

\* Setup times out or fails, or the initial put or the listener fails: the
\* handler returns an error and everything it declared is dropped.
ImpFail ==
  /\ \/ phase["imp"] \in {"init", "declared"} /\ "setup" \in Faults
     \/ phase["imp"] \in {"initial", "listen"} /\ "session" \in Faults
  /\ Goto("imp", "done")
  /\ token' = IF token = "alive" THEN "gone" ELSE token
  /\ Undeclare("imp")
  /\ wr' = [wr EXCEPT !["down"] = "aborted"]
  /\ sink' = [sink EXCEPT !["down"] = "dropped"]
  /\ UNCHANGED <<extCancel, errSig, outcome, cancel, sndVars, chan, hand,
                 delivered>>

\* The error monitor receives the export's signal, live or from history.
ImpErrorSignal ==
  /\ phase["imp"] = "relay"
  /\ errSig /\ ~cancel["imp"]
  /\ Cancel("imp")
  /\ UNCHANGED <<ctlVars, sndVars, zVars, rcvVars>>

\* The listener's drain deadline cancels the parent of conn_cancel.
ImpShutdown ==
  /\ "shutdown" \in Faults
  /\ phase["imp"] # "done" /\ ~cancel["imp"]
  /\ Cancel("imp")
  /\ UNCHANGED <<ctlVars, sndVars, zVars, rcvVars>>

\* Both tasks joined: undeclare the subscriber and the publisher.
ImpJoin ==
  /\ phase["imp"] = "relay"
  /\ TasksEnded("imp")
  /\ Goto("imp", "joined")
  /\ Undeclare("imp")
  /\ UNCHANGED <<token, extCancel, errSig, outcome, cancel, sndVars, rcvVars>>

\* Undeclare the token, then record the outcome from the token conn_cancel.
ImpFinish ==
  /\ phase["imp"] = "joined"
  /\ Goto("imp", "done")
  /\ token' = "gone"
  /\ outcome' = [outcome EXCEPT !["imp"] =
                   IF cancel["imp"] THEN "Reset" ELSE "Completed"]
  /\ UNCHANGED <<extCancel, errSig, cancel, sndVars, zVars, rcvVars>>

(* ---- export: run_client and handle_client_bridge ----------------------- *)

\* The client's token appears: dispatch_client_connect spawns run_client.
ExpConnect ==
  /\ phase["exp"] = "absent"
  /\ token # "none"
  /\ Goto("exp", "dialing")
  /\ UNCHANGED <<token, extCancel, errSig, outcome, cancel, sndVars, zVars,
                 rcvVars>>

\* The token's Delete: handle_client_disconnect signals the cancel channel.
ExpTokenGone ==
  /\ phase["exp"] \notin {"absent", "done"}
  /\ token = "gone" /\ ~extCancel
  /\ extCancel' = TRUE
  /\ UNCHANGED <<phase, token, errSig, outcome, cancel, sndVars, zVars,
                 rcvVars>>

\* drain_all_clients signals the same channel.
ExpDrain ==
  /\ "drain" \in Faults
  /\ phase["exp"] \notin {"absent", "done"}
  /\ ~extCancel
  /\ extCancel' = TRUE
  /\ UNCHANGED <<phase, token, errSig, outcome, cancel, sndVars, zVars,
                 rcvVars>>

ExpDialOk ==
  /\ phase["exp"] = "dialing"
  /\ Goto("exp", "dialed")
  /\ UNCHANGED <<token, extCancel, errSig, outcome, cancel, sndVars, zVars,
                 rcvVars>>

\* The dial is dropped; run_client returns without signalling an error.
ExpDialCancelled ==
  /\ phase["exp"] = "dialing"
  /\ extCancel
  /\ Goto("exp", "done")
  /\ UNCHANGED <<token, extCancel, errSig, outcome, cancel, sndVars, zVars,
                 rcvVars>>

ExpSubscribe ==
  /\ phase["exp"] = "dialed"
  /\ Goto("exp", "subscribed")
  /\ sub' = [sub EXCEPT !["up"] = TRUE]
  /\ UNCHANGED <<token, extCancel, errSig, outcome, cancel, sndVars, wire, pub,
                 listen, gap, losses, silent, rcvVars>>

\* The rx publisher, the sample-miss listener (Stream only), both tasks.
ExpStart ==
  /\ phase["exp"] = "subscribed"
  /\ Goto("exp", "relay")
  /\ pub' = [pub EXCEPT !["down"] = TRUE]
  /\ listen' = [listen EXCEPT !["up"] = Stream]
  /\ Spawn("exp")
  /\ UNCHANGED <<token, extCancel, errSig, outcome, cancel, read, eofAt, wire,
                 sub, gap, losses, silent, chan, hand, delivered, sink>>

\* Every dial attempt failed, or a declaration failed or timed out.
ExpFail ==
  /\ "setup" \in Faults
  /\ phase["exp"] \in {"dialing", "dialed", "subscribed"}
  /\ Goto("exp", "signal")
  /\ Undeclare("exp")
  /\ wr' = [wr EXCEPT !["up"] = "aborted"]
  /\ sink' = [sink EXCEPT !["up"] = "dropped"]
  /\ UNCHANGED <<token, extCancel, errSig, outcome, cancel, sndVars, chan,
                 hand, delivered>>

\* Bug: the external teardown is ignored once the backend has half-closed.
BugExpExtCancel ==
  /\ phase["exp"] = "relay"
  /\ extCancel /\ ~cancel["exp"] /\ rd["down"] # "eof"
  /\ Cancel("exp")
  /\ UNCHANGED <<ctlVars, sndVars, zVars, rcvVars>>

\* ext_task: the cancel channel resets the connection.
ExpExtCancel ==
  /\ phase["exp"] = "relay"
  /\ extCancel /\ ~cancel["exp"]
  /\ Cancel("exp")
  /\ UNCHANGED <<ctlVars, sndVars, zVars, rcvVars>>

\* The two directional ends folded into one outcome.
fold_outcome(b2z, z2b) ==
  CASE {b2z, z2b} \cap {"aborted", "error"} # {} -> "Failed"
    [] "reset" \in {b2z, z2b}                    -> "Reset"
    [] OTHER                                     -> "Completed"

\* Both tasks joined: undeclare, record; only a clean end is not signalled.
ExpJoin ==
  LET o == fold_outcome(rd["down"], wr["up"])
  IN  /\ phase["exp"] = "relay"
      /\ TasksEnded("exp")
      /\ Undeclare("exp")
      /\ outcome' = [outcome EXCEPT !["exp"] = o]
      /\ Goto("exp", IF o = "Completed" THEN "done" ELSE "signal")
      /\ UNCHANGED <<token, extCancel, errSig, cancel, sndVars, rcvVars>>

\* Bug: the signal is a bare put, lost on an import not yet listening.
BugExpSignal ==
  /\ phase["exp"] = "signal"
  /\ errSig' = (phase["imp"] = "relay")
  /\ Goto("exp", "done")
  /\ UNCHANGED <<token, extCancel, outcome, cancel, sndVars, zVars, rcvVars>>

\* publish_error_signal; its holder releases the signal at once when the
\* client's token is already gone.
ExpSignal ==
  /\ phase["exp"] = "signal"
  /\ errSig' = (token = "alive")
  /\ Goto("exp", "done")
  /\ UNCHANGED <<token, extCancel, outcome, cancel, sndVars, zVars, rcvVars>>

\* The signal could not be published, or not within its budget.
ExpSignalFail ==
  /\ "session" \in Faults
  /\ phase["exp"] = "signal"
  /\ Goto("exp", "done")
  /\ UNCHANGED <<token, extCancel, errSig, outcome, cancel, sndVars, zVars,
                 rcvVars>>

-----------------------------------------------------------------------------
Closed == phase["imp"] = "done" /\ phase["exp"] \in {"absent", "done"}

\* The connection is over at both ends; nothing is left to do.
Terminated == Closed /\ UNCHANGED vars

Zenoh(d)  == Lose(d) \/ ReportMiss(d) \/ Deliver(d)
Reader(d) == \/ ReadData(d) \/ ReadEof(d) \/ PutOk(d)
             \/ PutErr(d) \/ ReadErr(d) \/ ReaderCancelled(d)
Writer(d) == \/ Take(d) \/ WriteOk(d)
             \/ WriteErr(d) \/ ChannelClosed(d) \/ WriterCancelled(d)
Import    == \/ ImpDeclare \/ ImpToken \/ ImpGate \/ ImpInitialPut \/ ImpStart
             \/ ImpFail \/ ImpErrorSignal \/ ImpShutdown \/ ImpJoin \/ ImpFinish
Export    == \/ ExpConnect \/ ExpTokenGone \/ ExpDrain \/ ExpDialOk
             \/ ExpDialCancelled \/ ExpSubscribe \/ ExpStart \/ ExpFail
             \/ ExpExtCancel \/ ExpJoin \/ ExpSignal \/ ExpSignalFail

Next ==
  \/ \E d \in Dir : Zenoh(d) \/ Reader(d) \/ Writer(d)
  \/ \E e \in End : Watchdog(e)
  \/ Import
  \/ Export
  \/ Terminated

Spec == Init /\ [][Next]_vars

-----------------------------------------------------------------------------
(* Fairness.  Tokio runs every task that is ready and every timer that is  *)
(* due, and Zenoh delivers what it did not lose.  Nothing is assumed of    *)
(* the peers: they may never send, never close and never read again, so    *)
(* reads, puts (CongestionControl::Block), the import's first one among    *)
(* them, and writes may stall for ever.                                    *)
Guaranteed ==
  \/ \E d \in Dir : \/ ReportMiss(d) \/ Deliver(d) \/ Take(d)
                     \/ ReaderCancelled(d) \/ WriterCancelled(d)
  \/ \E e \in End : Watchdog(e)
  \/ ImpDeclare \/ ImpToken \/ ImpGate \/ ImpStart
  \/ ImpErrorSignal \/ ImpJoin \/ ImpFinish
  \/ ExpConnect \/ ExpTokenGone \/ ExpDialOk \/ ExpDialCancelled
  \/ ExpSubscribe \/ ExpStart \/ ExpExtCancel \/ ExpJoin \/ ExpSignal

FairSpec == Spec /\ WF_vars(Guaranteed)

\* What depends on the peers: they send, close, and read what they are sent.
Peers ==
  \/ \E d \in Dir : ReadData(d) \/ ReadEof(d) \/ PutOk(d) \/ WriteOk(d)
  \/ ImpInitialPut

-----------------------------------------------------------------------------
(* Properties.                                                             *)

\* The data written to the receiving peer is the source's stream, so far
\* without a hole.
Exact(d) == \A i \in 1..Len(delivered[d]) : delivered[d][i] = i

\* ... and all of it, up to the half-close.
Whole(d) == Exact(d) /\ eofAt[d] = Len(delivered[d]) + 1

\* No relay path ever reorders or repeats a chunk, whatever is lost, shed,
\* cancelled or aborted, in either reliability mode (backpressure.rs: "Bytes
\* are never dropped or reordered").
InOrderOnce ==
  \A d \in Dir : \A i, j \in 1..Len(delivered[d]) :
    i < j => delivered[d][i] < delivered[d][j]

\* Stream mode: a peer that has received a stream with a hole is on a
\* connection whose conn_cancel is tripped, unless samples vanished where no
\* sample-miss listener was registered or from an unmatched publisher's cache.
ByteExactOrReset ==
  Stream => \A d \in Dir : Exact(d) \/ cancel[Rcv(d)] \/ silent[d]

\* Stream mode: the FIN that send_eof forwards comes after the whole stream,
\* under the same exceptions.
FinMeansWhole ==
  Stream => \A d \in Dir :
    sink[d] = "fin" => Whole(d) \/ cancel[Rcv(d)] \/ silent[d]

\* Stream mode: an import connection counted as Completed gave its client the
\* backend's whole response and the FIN.
ImportCompletedIsWhole ==
  Stream /\ outcome["imp"] = "Completed" =>
    sink["down"] = "fin" /\ (Whole("down") \/ silent["down"])

\* A tripped token ends the connection at that end even when a peer never
\* reads, never closes and a put is blocked: the watchdog aborts what is stuck.
ResetEnds ==
  \A e \in End : (cancel[e] /\ phase[e] = "relay") ~> (phase[e] = "done")

\* When the import's side of a connection ends, so does the export's: the
\* liveliness token tears it down.
NoStrandedExport == (phase["imp"] = "done") ~> []Closed

\* The import's first put never returns.
FirstPutStalls == [](phase["imp"] = "initial")

\* When the export's side ends uncleanly, so does the import's: the error
\* signal resets it, whenever it comes, and it can be stranded only by a first
\* put that never returns (bridge_import_connection).
NoStrandedImport ==
  (phase["exp"] = "signal") ~> (phase["imp"] = "done" \/ FirstPutStalls)

\* A failure, a loss, an overflow or a drain has happened.
Troubled ==
  \/ \E e \in End : cancel[e]
  \/ losses > 0 \/ \E d \in Dir : silent[d]
  \/ extCancel \/ phase["exp"] = "signal"
  \/ phase["imp"] = "done" /\ outcome["imp"] = "none"

\* With willing peers half-closing works: unless something goes wrong, both
\* half-closes cross and the import completes with the whole response.
HealthyCompletes ==
  WF_vars(Peers) =>
    <>(Troubled \/ (outcome["imp"] = "Completed" /\ Whole("down")))

-----------------------------------------------------------------------------
(* Each direction is a BytePipe.  It breaks when the receiving end is being *)
(* reset, or when samples vanish where nobody is told of it.                *)

Broken(d) == ~Stream \/ cancel[Rcv(d)] \/ silent[d]

Up == INSTANCE BytePipe WITH
  Strict <- Stream, sent <- read["up"], eof <- eofAt["up"],
  got <- delivered["up"], view <- sink["up"],
  broken <- Broken("up"), report <- outcome["exp"]

Down == INSTANCE BytePipe WITH
  Strict <- Stream, sent <- read["down"], eof <- eofAt["down"],
  got <- delivered["down"], view <- sink["down"],
  broken <- Broken("down"), report <- outcome["imp"]

\* Both directions of a connection, through every task, channel, timer and
\* fault, behave as a pipe: nothing comes out that did not go in, nothing after
\* the FIN or the shutdown, no FIN that the other peer did not send, and no
\* Completed without one.
ImplementsPipe == Up!Spec /\ Down!Spec

-----------------------------------------------------------------------------
(* What the documentation says and the code does not do.                   *)

\* export/bridge.rs:386: "Anything but a clean completion notifies the import
\* via the recoverable error signal, so its client is reset instead of hanging
\* on a connection whose backend side no longer exists".
UncleanExportEndsImport ==
  (phase["exp"] = "done" /\ outcome["exp"] # "Completed")
    ~> (phase["imp"] = "done" \/ FirstPutStalls)
=============================================================================
