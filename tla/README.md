# A TLA+ model of zenoh-bridge-tcp

zenoh-bridge-tcp carries TCP (and TLS, HTTP, gRPC, WebSocket) connections over a
Zenoh network. A client connects to an **import** bridge (`--listen`), which
relays the connection's bytes over Zenoh keys to an **export** bridge
(`--backend`), which dials the backend. This directory holds a model of the parts
that carry the program's own logic, the TLC runs that check it on small
instances, and TLAPS proofs of its main invariants for all instances.

Paths below are relative to the repository's root; line numbers are those of the
commit in `src/`.

## 1. The system

| Component | State it keeps | Operations | Module |
|---|---|---|---|
| Connection relay, `import/bridge.rs` | reader and writer task, `conn_cancel`, publisher, subscriber, liveliness token, sample-miss listener, error monitor, outcome | set-up, gate, initial put, relay both ways, half-close, reset, watchdog, join, teardown | `Relay` |
| Connection relay, `export/bridge.rs` (`run_client`, `handle_client_bridge`) | the mirror image, plus the dial and the client's cancel channel | dial, subscribe, relay, external cancel, fold outcome, error signal | `Relay` |
| Reception channel, `backpressure.rs` | bounded queue between Zenoh's callback and the writer | push, overflow | `Relay` (`Deliver`) |
| Error signal, `zenoh_util.rs` | a publisher held until the client is gone | publish, hold, release | `Relay` (`ExpSignal`) |
| Exporter election, `export/election.rs`, `run_export_loop` | own claim, the set of claims seen, role | mint, subscribe, declare, elect, wake, demote, leave | `Election` |
| Client table, `export/bridge.rs` (`serve_active`, `dispatch_client_connect`, `handle_client_disconnect`, `drain_all_clients`) | map client -> (cancel channel, task handle), subscriber queue | subscribe, query, replay, dispatch, disconnect, self-removal, drain | `ExportClients` |
| Accept loop, `import/accept.rs`, `drain_tasks` in `import/mod.rs` | semaphore, JoinSet, `conn_shutdown`, deadlines | bind, acquire, accept, back off, reap, drain, cancel, abort | `Listener` |
| Process, `main.rs` | shutdown token, readiness, drain budget, bridge tasks | start, ready, signal, select, drain, exit | `Listener` |
| Failover, `export/bridge.rs`, `election.rs`, `import/bridge.rs` together | the exporters' roles, one client's task at each, the error signal | serve, die, take over, replay, reset | `Failover` |
| Head reading and detection, `import/auto.rs`, `connection.rs`, `tls.rs`, `ws.rs` | bytes peeked, consumed and refused, replay buffer, the two probes | classify, handshake, read head, resolve backend, fall back, refuse | `Head` |
| Per-request routing, `import/multiroute.rs` | parser and event queue, refused tails of both sides, per-request publisher, subscriber and channel, keep-alive and end of the exchange | next request, route, refuse and consume, exchange, switch, splice, teardown | `Multiroute` |
| Names and specifications, `dns.rs`, `spec.rs`, `Args::validate`, `run_listener` | the options and scopes read so far | normalise, read, refuse, open a door, scope keys | `Names`, `Specs` |
| Metrics, `metrics.rs` | gauges, outcome counters, readiness | start, finish, drop | outcome and readiness only |
| WebSocket framing, `transport.rs` | frame boundaries | read, write, close | partly (as `Relay`'s peer) |
| HTTP error responses, `http_util.rs` | none | format | when and to whom: `Head`, `Multiroute` |
| gRPC status tap, logging, Zenoh and TLS configuration | none that changes a connection | observe, format, load | not modelled |

How they interact: the options of a `--listen` decide which door the listener opens.
The accept loop spawns one handler per connection; the handler finds out what the
client speaks and which host it wants, asks the bus who serves that host, and runs the
import relay with the bytes it has consumed so far. The import's liveliness token tells the client table of the
active exporter to start (`Put`) and to stop (`Delete`) the export relay of that
client. On a `route=request` listener the handler does this once per request, through
an HTTP parser. Data and EOF markers travel on two Zenoh keys, one per direction; an
unclean end on the export side travels back on a third, the error signal. The
election decides which exporter of a scope runs its client table. `main` starts
and stops everything through one cancellation token and bounds the drain.

What is hard here: each connection is six tasks in two processes (two readers, two
writers, two coordinators) coupled by unbiased `select!`s, cancellation tokens and
three independent Zenoh streams; half-close must survive all of it; pipelined requests
share one parser, one event queue and one socket; shutdown is a
nest of timeouts in different files; what a client speaks is decided on however many
bytes have arrived, more than once, with bytes that must not be lost; the election and the client table react to
events that are late, duplicated or lost in a partition. `PROJECT.json` lists the
hazards one by one with the property that would catch each.

## 2. Modules and their correspondence to the code

**`Relay`** is one connection from client to backend. Since `import/bridge.rs` and
`export/bridge.rs` mirror each other, each direction is modelled once
(`rd`, `wire`, `chan`, `hand`, `wr`, `delivered`, `sink`, indexed by direction) and
each end once (`phase`, `cancel`, `outcome`, indexed by end). An action is one arm
of a task's `select!`, one stage of a handler's set-up or teardown, or one event of
Zenoh. Where the code awaits, the model interleaves: taking a sample and writing it
are two steps, as are reading and putting. A sample is its position in the stream,
so "in order", "exact" and "whole" are statements about numbers. Zenoh is external:
FIFO per key, a cache that replays to a late subscriber and evicts when full,
unrecoverable losses that its miss detection reports before anything later is
delivered. The history variable `silent` records the two places where samples can
disappear although nobody listens: a miss reported before the listener is
registered, and eviction from the cache of a publisher whose subscriber never came
(the gate timed out).

**`Election`** is the role loop of the exporters of one scope. An exporter is its
claim segment, a number that orders as `{ts}-{zid}-{uuid}` does. The claims in the
subscriber's channel (`told`), the drained view (`claims`) and the tokens really
held (`held`) are three different things, as in the code; `Arrive` brings them
together one event at a time. Partitions cut pairs of exporters, clocks may be
skewed, a claim subscriber may die (`blind`).

**`ExportClients`** is `serve_active` with its table. Tokens appear, vanish, and
flap (a link failure withdraws a token and brings it back). The subscriber's queue
is per client, since only the order of one client's events matters to the table.
Lookup and insertion in `dispatch` are one step, because the code holds the map's
lock across both; `TaskEnd` removes the entry only if it is still the task's own.

**`Listener`** is one process. A timer is a count of ticks; `Tick` is enabled only
when neither `main` nor the accept loop has anything to do, which is what an
otherwise idle runtime gives. A handler may end at any time or never. `accept()` may fail
any number of times, before the shutdown and after it, since the `select!`s of
`accept.rs` are unbiased; `late` counts the failures since the shutdown, which only main's
budget bounds.

**`Multiroute`** is one connection of a `route=request` listener, which is one task;
what interleaves with it is the backend filling the exchange's channel, the client's
segmentation and the listener's drain. `pc` says which of the three nested loops
(`next_request_head`, `consume_request_body`, `run_exchange`) is running and where.
The client's bytes are tokens named by their position, each a piece of one request; a
response is a sequence of samples. flowscope's parser is external: `PushClient` and
`PushResp` let it accept any part of what it is offered (the refused tail is what
`client_pending` and `resp_pending` are for) and turn it into events; a gap in what it
is fed poisons it. A response's end is found by its framing: counted (`length`), by
its last sample (`chunked`), or by the EOF marker (`close`). `holed` records the
requests whose response lost a sample: on the bus, in the channel's overflow (which also trips
`rx_cancel`, but the unbiased `select!` need not take it), or by overwriting a refused
tail; `NextAfterWhole` and `CompletedIsWhole` exempt all of these. `Reusable` leaves out
`parser.is_done()` (`multiroute.rs:297`), so the model keeps connections the code may
close. Body and trailers are one kind of event, since the code
treats them alike; sizes are counted in samples. `Conversation` says what the client and
the backends may say: `Stream` numbers the requests, each a head and its body, lets raw
bytes follow a switch or an h2 preface, and frames nothing after a malformed piece;
`Framed` is a response of interim heads, a head, and a body or a tunnel's bytes. That the parser accepts something
again once its events are drained, and pairs responses with requests although a
refused request never gets one from a backend, is assumed.

**`BytePipe`** is what one direction of a connection promises to someone who sees only
its two ends: chunks come out in the order they went in; none is missing, and no FIN
comes out that did not go in, until the pipe breaks; `Completed` is only said of a pipe
that has been half-closed. `Relay` instantiates it twice (`Up`, `Down`): what went in is
what the reader has read, what came out is what the writer has written, a pipe is broken
when its receiving end is being reset or samples vanished silently, and the report is
the outcome the receiving end records.

**`Head`** is one accepted connection up to the bridge. The client's stream is counted in
units; a *profile* says what the units are: the protocol, after how many units
flowscope's classifier can tell, after how many its parser has the head or knows that it
is broken, and which key the head holds. Segments arrive at any time, so each peek and
each read may see any prefix. `stage` follows the handler through `run_listener`'s
doors: the classifying loop and the full-head peek of `auto.rs`, the second peek of
`handle_import_connection`, TLS termination, `read_until` with the parser's refused tail
(`pending`) and the replay buffer, and `resolve_backend` with its two racing probes.
Timers are not counted: a deadline may fire whenever what it waits for is not there. The
second peek, of 16 bytes, is modelled with the window of the first, of 64: it is only asked
whether the client speaks TLS, which its first bytes tell.
The library's `http` and `ws` doors (`run_http_import_mode`, `run_ws_import_mode`) are
modelled with the others. None of these stages watches the shutdown token; the listener
waits for them, and aborts them in the end (`Listener`).

**`Failover`** extends `Election` with one client that outlives the exporter that serves
it. Each exporter's table and relay are reduced to one task (`dial`, `live`, `ending`) and
the set of samples its backend was given; the steps of `Election` carry what they do to
the task with them: a demotion cancels it and waits for it, a crash drops it. The
client's end is its token, its samples and the error signal.

**`Names`** is `dns.rs` over tokens: the punctuation the code looks at, a digit, a letter
in both cases, a character no key may hold. `RefKeys` states the documented grammar
independently of the code's splits and counts. **`Specs`** reads one command line as
`ListenSpec::from_str`, `BackendSpec::from_str` and `Args::validate` do, one option and
one backend at a time, opens the door `run_listener` would, and lays out the keys of the
scopes. A process may have several `--listen`s; each is parsed on its own, so one is
modelled.

Definitions named `Bug...` are the mutated forms used to show that each property
can fail; no specification uses them. `PROJECT.json` maps each definition to the
lines it models.

Left out inside the modelled parts: metrics and access logs other than the recorded
outcome, the contents of chunks, key names, the retries inside one dial, the holder's
60 second cap on the error signal, panics of tasks, the ALPN and gRPC log lines, and the return of
`changed_still_active` without new events (a busy loop on a dead subscriber).

## 3. What the runs check

Bounds are constants in the `.cfg` files. They are small, but each is large enough
for the case it is about: two chunks and capacity 1 overflow a channel; cache size 1
evicts; two tokens that flap once give Delete-after-Put races with two generations
of tasks per client; two slots and three clients fill the listener.

| Run | Instance | Shows |
|---|---|---|
| `RelayStream` | Stream mode, 2 chunks up, 1 down, capacity 1, cache 1, one loss, all fault classes | `ByteExactOrReset`; `ImplementsPipe`: both directions implement `BytePipe`, so what is delivered is in order, whole before a FIN and whole when counted as completed |
| `RelayTeardown` | 1 chunk each way, peers that may fail or stall | `ResetEnds`, `NoStrandedExport`, `NoStrandedImport`, `HealthyCompletes`; deadlock is checked |
| `Election` | 2 exporters, 2 partitions, all faults, skewed clocks | `AgreedActive`, `Converges` |
| `ExportClients` | 2 clients, 4 tasks, 2 terms, 1 flap | `NoOrphan`, `NoMissedClient`, `GoneIsTornDown`, `IdleServesNobody`, `ShutdownEnds` |
| `Listener` | 3 clients, 2 slots, any number of accept failures | `PermitsConserved`, `ClosedMeansDrained`, `DrainFits`, `ReadyMeansBound`, `SlotIsUsed`, `StopExits` |
| `Multiroute` | 5 conversations of up to 4 tokens and 2 requests, capacity 1, cap of 3 samples, all faults | `OwnBytesOnly`, `AnswersInOrder`, `NextAfterWhole`, `NotAfterClose`, `NoFalsePoison`, `CompletedIsWhole`, `AlwaysEnds`, `DrainEnds`; deadlock is checked |
| `Head` | 5 doors, every profile with heads of 2 to 5 units, window and cap of 3, reads of 2, all faults | `ReplayExact`, `RoutedAsNamed`, `AnswersInProtocol`, `ClosedForCause`, `BoundedBuffer`, `HeadEnds` |
| `Failover` | 2 exporters, skewed clocks, a partition, crashes, shutdowns, failing dials and backends, hanging tasks; 1 client, 1 sample, cache 1 | `WaitingServed`, `SplitEndsInReset` |
| `Specs` | every list of up to 4 options, every host of up to 5 tokens and the longer bracketed ones, pairs of backends of two services | `KeyMatchesReference`, `RegistrationMatches`, `OneBackendPerScope`, `DoorAsWritten`, `KeysApart` |

In `Head` the cap is the same as the window, so that heads below, at, one above and two
above the cap occur, each cut into segments in every way, with more bytes behind a
complete head. In `Specs` a port of more than `PortDigits` = 1 digits overflows u16: five
tokens are enough for a bracketed literal, and the `Bracket` family adds every tail of up
to four tokens behind one. In `Failover` one sample and a cache of one are enough for a
sample to be given to two backends.

The runs of `Relay` are in Stream mode. In Telemetry mode the channel sheds where
Stream resets; what holds of both, `InOrderOnce`, is proved for both (section 4).
The conversations of `Multiroute` are two pipelined posts with an interim response, a
response framed by the close with a request behind it, an upgrade by a client that
does not wait, malformed framing after a request whose response exceeds the cap, and
an h2 preface: one for each way an exchange or a connection can end.

`TypeOK` of every module but `Failover`, and the parts of the
relay's promise on their own (`InOrderOnce`, `FinMeansWhole`, `ImportCompletedIsWhole`),
are proved for every instance (section 4) and no run repeats them; in `Failover`
`TypeOK` documents the variables. `CHECK_DEADLOCK FALSE` is given where
the system may stop for good: a connection that has been bridged or closed, a command
line that has been read, an exporter or a process that has exited, the client
table at its task bound, and a connection both of whose peers wait while the EOF
marker was lost (nothing times out a half-open connection; `RelayTeardown`, without
losses, does check deadlock).

**Fairness.** Tokio runs a task that is ready and fires a timer that is due, so the
bridge's own steps are weakly fair; `Guaranteed` in `Relay`, `Progress` in
`Election`, `Prompt` in `Multiroute` and the two `FairSpec`s of `ExportClients` and
`Listener` list them.
Nothing is assumed of what the bridge does not control: peers may never read, send
or close, a put may block for ever on congestion (`CongestionControl::Block`), `accept()`
may go on failing, a client task may hang, an HTTP client or backend may never say
another word, a handler may ignore its cancellation, the exporter may never finish
draining. What a property needs of them it says in its own statement:

* `HealthyCompletes` assumes willing peers (`WF_vars(Peers) => ...`).
* `AlwaysEnds` and `DrainEnds` assume `WritesReturn`: the client reads what the handler
  of a `route=request` connection writes, and its puts return. These writes and puts
  (`multiroute.rs:586`, `:636`, `:651`, `:677`, `:700`, `:720`, `:863`, `:873`, `:884`, `:896`,
  `:911` and the error answers) have no deadline and watch neither `shutdown` nor `rx_cancel`. Without
  the proviso both properties fail: a client that stops reading holds its handler, and
  not even the drain's cancel ends it, only the listener's abort after the grace
  (`Listener`'s `GraceTimeout`).
* `NoStrandedImport` (and `UncleanExportEndsImport`) except `FirstPutStalls`: the put of a
  buffered head (`import/bridge.rs:182`) precedes the error monitor and the watchdog, so
  an import whose first put never returns misses the export's error signal.
* `SlotIsUsed` assumes that `accept()` does not fail for ever (`SF_vars` of a successful
  accept): it is retried, and a retry may always fail again.

In `Head` the handler's steps, its deadlines and
the answers or timeouts of its probes are fair, and nothing is assumed of the client but
that an error answer, the first bytes written to its socket, fits the socket's buffer; the
`accept_async` behind the auto door has no deadline of its own, but the request it needs
is already complete in the socket. `Election` assumes that partitions heal; `Failover`
adds that a task goes on, that its dial returns (each attempt is bounded by
`connect_timeout`) and that a published error signal arrives (it is held until the client
is gone).

### Where the code and its documentation disagree

Three runs are expected to find a violation of what a comment or a document says:

* `RelayDialDrain` (`export/bridge.rs:386`): a drain during the dial ends the client's
  task without an error signal. After a demotion the successor finds the client and
  serves it (`WaitingServed`); after the shutdown of the only exporter its client hangs.
* `MultirouteGap` (`docs/routing.md:154`): an overflow drops a sample and trips
  `rx_cancel`, but the unbiased `select!` may go on receiving and the client reads past
  the hole; a chunked response can even complete and the connection be kept.
* `FailoverOnce` (`docs/routing.md:205`): after a crash the standby's replay does not tell
  a client that was waiting from one that was being served. It dials a fresh backend for
  both and gives it what the import's cache still holds, bytes the dead exporter's backend
  already had among them.

Met while modelling, reachable in the models and not given a run of their own:

* after an overflow or miss has tripped the export's token, the writer's unbiased
  `select!` may still take the EOF marker; if the reader ended at EOF as well,
  `fold_outcome` yields Completed for a stream with a hole and no error is signalled
  (`export/bridge.rs:667`);
* a truncated response reaches a TCP client as the same FIN as a whole one, because the
  import's reset path calls `writer.shutdown()` (`export/bridge.rs:743` says otherwise);
* the election's timestamp is minted before the token is declared, so a claim declared
  later can be the smaller one and preempt, without clock skew (`election.rs:15`);
* on a requested shutdown with nothing to drain, all bridge tasks can have ended when
  main is polled; it then exits with an error (`main.rs:238`);
* a liveliness probe that is not answered within `--availability-timeout-ms` counts as
  "not alive" (`connection.rs:639`), so a slow bus sends a host-routed client to the
  default backend; `auto.rs:316` calls a liveliness failure "an error, not a routing
  decision", which is true of a query that fails and not of one that is late;
* a host named `clients` or `exporter-claim` registers `{service}/clients/available` or
  `{service}/exporter-claim/available`, which the patterns of the service's default
  exporter match: it takes the token for a client or a claim. Nothing rejects such names
  (`KeysApart` exempts them);
* behind the `http` door, which the command line cannot open, one peek decides between
  TLS and HTTP: a ClientHello whose first segment is shorter than its signature is
  answered 400 (`AnswersInProtocol` and `ClosedForCause` exempt that door);
* in `Relay`, too, samples past a hole can be written to the peer before the reset
  takes effect; `ByteExactOrReset` states what does hold;
* `run_exchange` registers neither a sample-miss listener nor an error monitor: an
  unrecoverable loss in a response is noticed only if the framing counts, and an
  export that fails to dial shows as the idle timeout's 504;
* its receive arm (`multiroute.rs:789`), unlike the read arm (`:775`), is not guarded by
  an empty refused tail, so a tail refused twice is overwritten by the next sample;
* a request framed in the same push as malformed bytes behind it is refused with them
  by `next_request_head`, and served when they arrive a moment later;
* `docs/cli.md:78` says that exceeding `--max-response-size` answers 502; the code
  truncates the response and closes (`multiroute.rs:689`);
* a miss reported between the import's subscription (`import/bridge.rs:97`) and the
  registration of the miss listener (`:193`) resets nothing, and the loss of a
  publisher's last sample after its undeclaration is never detected; `silent` and
  the missing deadlock check of `RelayStream` are these two cases;
* the liveliness `Delete` can overtake request samples still in flight, so a backend
  that half-closes early may see a prefix of a request whose import connection is
  recorded as Completed;
* two exporters that start together both serve until the other's claim arrives
  (`docs/routing.md:206` says never split); `AgreedActive` and `Converges` state
  what does hold;
* a client replayed by the query whose task ends before the overlapping live `Put`
  is handled is dialled a second time (`export/bridge.rs:146` says duplicates are
  removed by dispatch);
* a task whose client was disconnected is no longer in the map, so the shutdown drain
  does not wait for it (`export/bridge.rs:905`);
* the exporter's drain deadline is `drain_timeout + 5s`, main's budget
  `drain_timeout + 2s`: on a process shutdown the exporter's margin is never granted;
* after the one-second grace `abort_all` can still leave relay tasks that are blocked
  in a write or a put behind their aborted handler, until their watchdog
  (`drain_timeout` after the cancel) or the end of the session
  (`import/mod.rs:148`);
* an exporter's failure is only logged: with a listener left, `/readyz` stays 200.

## 4. What is proved

TLAPS checks the following for every value of the constants allowed by the named
assumptions: any number of chunks, exporters, clients, tasks, slots, requests, options
and backends, hosts of any length, any capacities, cache sizes, caps and budgets. Every
invariant the runs check is stated by a theorem; `Failover` has none, its two properties
being liveness.

The assumptions: `RelayAssumption`, `ElectionAssumption`, `ExportAssumption`,
`ListenerAssumption` and `ClientAssumption` give the constants their types. `HeadAssumption` says what a profile is: the classifier can tell a protocol
no later than the parser has its head, a stream it cannot tell within the window is raw,
and raw bytes name no host. `PortAssumption` gives ports a digit. `SpecsAssumption` takes
command lines of the declared shape, in which a service that passed the code's check of
names is not the wildcard `*`. `MultirouteAssumption` takes any set of `Conversation`s, any
capacity but 0 and any cap; it bounds neither requests, nor pieces, nor samples.

**`RelayProofs`.** `TypeCorrect`; `DeliveredInOrder`; `StreamByteExact`;
`FinIsWhole`; `CompletedIsWhole`. None of these properties is inductive. The
argument: `TaskInv` says when tasks exist and that a reader past its EOF only has
the marker left; `OrderInv` says that delivered, held, queued and wired samples of a
direction increase, in that order, below `read`; `PipeInv`, which holds while a
direction is *clean* (no reset tripped, nothing lost, nothing silent), says that
together they are exactly `1..` the last published sample, without a hole
(`PipelineContiguous`). Byte exactness follows directly. A FIN is sent when the
marker is taken, at which time everything before it has been delivered (`FinInv`);
and a Completed import has joined with an untripped token (`DoneInv`). Since most
of the forty actions do not touch a direction's pipeline, a lemma `FrameOrMove` splits
each step into one of the few moves of samples or a frame that leaves the pipeline
alone, and each invariant is proved against those.

**`RelayPipeProofs`.** `RelayImplementsPipe`: `Spec => ImplementsPipe`, in both
reliability modes. The initial states map to `BytePipe`'s; for a step, the lemma
`EdgeStep` says what it does at the two ends of a direction: nothing, a read, an abort, a
report, or a write, which is the only move of `FrameOrMove` that changes what came out.
The first four are steps of `BytePipe` as they stand. A write is a `Receive` or a `Finish`
(`WriteEmits`): by `OrderInv` the sample is later than all delivered ones, by `Numbered`
it is one that was read, and while the direction is clean `PipeInv` makes it the next.
`EdgeInv` supplies what ties the two ends together: the peer's side is open exactly while
the writer runs, and an end at work has not reported.

**`ElectionProofs`.** `ElectionTypeCorrect`, `ElectionAgrees` (`AgreedActive`). The
invariant `ViewInv` ties an exporter's role to the view it last looked at: one that
serves, with no news waiting, is the smallest claim it was told of, and what it was
told is what it looked at. Two settled exporters that see each other would each be
smaller than the other.

**`ExportClientsProofs`.** `ExportTypeCorrect`, `NoTaskOrphaned`, `NoClientMissed`,
`GoneTornDown`, `IdleIsIdle`. `TableInv`: an entry is a running task of that very
client, there are none outside the active modes, and a running task not in the table
is signalled. `EventInv`: what the subscriber has queued, what the query still owes
and what the table holds add up to the token as it is now: for a token that is gone
the last queued event is a delete or the client is in neither table nor replies; for
a live one the last is a put or it is owed a reply or was noticed.

**`ListenerProofs`.** `ListenerTypeCorrect`, `PermitsAccounted`, `HandlersTracked`,
`ReadyIsTrue`, `DrainIsGranted`. `BudgetInv` accounts for main's budget: for each place
the accept loop can be in while main drains, what is spent and what its timer can still
spend is at most a back-off under way at the shutdown, one for each failure of `accept()`
since (`late`), the drain and the grace. Nothing bounds the failures and no assumption
relates the budgets; `DrainFits` says itself how many late failures the margin pays for,
`1 + late + Grace < Margin`. With the code's 2 s, 1 s and 100 ms those are eight, each of
which means that the unbiased `select!`s preferred a failing `accept()` to a cancelled
token; the bound is tight, TLC finds main leaving a drain unfinished one failure later.
`PhaseInv` relates main to the loop.

**`HeadProofs`.** `HeadTypeCorrect`, `HeadReplaysExactly`, `HeadRoutesAsNamed`,
`HeadAnswersInProtocol`, `HeadClosesForCause`, `HeadBufferBounded`. `StageInv` says which
doors lead to a stage and what is known of the client there (behind the auto door, that
the classifier has told); `ParserInv` that the parser on the stream is the one for what
the client speaks, but for the `http` door; `BufferInv` that the replay buffer is what was
taken off the socket, from the first unit on, and its size; `FeedInv` that the refused tail
is exactly what the parser has not been fed, so that no gap ever reaches it; `ProbeInv`
which probes are out and for which host. What is answered, and whether a connection may be
closed, are verdicts over all of these, so they join the induction.

**`SpecsProofs`.** `SpecsTypeCorrect`, `SpecsInductive`, `SpecsDoorAsWritten`,
`SpecsKeyMatchesReference`, `SpecsRegistrationMatches`, `SpecsOneBackendPerScope`,
`SpecsKeysApart`. `OptsInv` says that the options read so far (`ReadUpTo`) are the options
set, each once and nothing else; `ScopeInv` that the backends read so far have a scope
each. The two theorems about names are about operators: for a host of any length the
splits and counts of `routing_key` are taken apart, bracketed or not, and each case shown
to be a case of the grammar (`RefKeys`). `SpecsKeysApart` goes through the segments of each
pattern and each token.

**`MultirouteProofs`.** `MultirouteAccusesNobody` rests on `MultirouteFeedsWithoutGap`: what
was read and the parser has not taken is `client_pending`, in order, at every step of the
three loops. The others (`MultirouteTypeCorrect`, `MultirouteOwnBytesOnly`,
`MultirouteAnswersInOrder`, `MultirouteNextAfterWhole`, `MultirouteNotAfterClose`,
`MultirouteCompletedIsWhole`) rest on one invariant (`MultirouteInvariant`), because each
asks about a history that several loops have written. On the client's side:

* `CursorInv`: the client's events in `carry \o events` are every event of its stream past
  a cursor, in order, up to what the parser was fed; while an exchange runs the cursor
  stands at the last byte put (and behind it, once `request_done`). So the next event the
  loop takes is the next piece of this request or the next request's head, and
  `OwnBytesOnly` follows.
* `CarryInv`: only a later request's events are set aside, only while events are
  processed, and only the client's.
* `SentInv`: one run of its own bytes has been put of the request in hand, nothing of a
  later one. `UpInv`: what the parser keeps for a tunnel is the raw tail of the stream,
  which is what the splice goes on from. `SwitchInv`: a switch is the last event of its
  exchange.

On the response's side:

* `LineInv`: what was written, the data of the queued events, the parser's residue, the
  refused tail and the channel are, in that order, one ascending *line* of the response's
  samples, and without a hole unless `holed` says so. What the client has read is the
  front of that line.
* `EventInv`: the end of the response is queued only behind all of it, and once a head that
  announces the close has been processed the connection is no longer to be kept.
* `BetweenInv` carries both over the teardown: an exchange that ended well has delivered
  the response whole, and no event of it is left for the next. `HistoryInv` collects it
  per request: every request before the one in hand is settled, either answered whole
  without announcing the close, or refused.

`Kind` sorts the handler's forty actions into some twenty kinds of steps, and each conjunct
is proved against those. What `FlattenSeq` computes (the
events of the tokens a push accepts, a request's answer) is proved by taking a least counterexample: the library's induction theorems take
an operator and cannot be instantiated, but every set of numbers has a least element
(`LeastNat`, from `WFMin`), which does as well for a set defined by the claim.

Only model-checked: every liveness property (`ResetEnds`, `NoStrandedExport`,
`NoStrandedImport`, `HealthyCompletes`, `Converges`, `ShutdownEnds`, `SlotIsUsed`,
`StopExits`, `AlwaysEnds`, `DrainEnds`, `HeadEnds`, `WaitingServed`,
`SplitEndsInReset`), because the prover does not handle fairness; and the three
violations, which are counterexamples.

## 5. Plan, and what is not modelled

Done: `Relay` with its proofs and its refinement of `BytePipe`; `Election`,
`ExportClients`, `Listener`, `Head`, `Specs` (with `Names`) and `Multiroute` with their
proofs; `Failover` with its runs. What is left, in order:

1. That a step of `Failover` is a step of `Election`, and that its standby serves nobody,
   as `IdleServesNobody` says of one client table.
2. An abstract exchange (requests answered one after the other, each by its own backend
   or by the bridge) that `Multiroute` implements.

Not modelled, and why: **logging** and the **metrics** endpoint are pure output (the
outcome a connection is counted under is in `Relay` and `Multiroute`, readiness in
`Listener`; the active gauge is an RAII guard and cannot be missed by a path); the
**gRPC status tap** reads a copy of the response and feeds one counter; the **Zenoh and
TLS configuration** read files and call libraries; **WebSocket framing**, TLS, HTTP and
HTTP/2 parsing belong to tungstenite, rustls and flowscope, and appear as what the bridge
does with their answers.

## 6. Running it

`tlc -config RelayStream.cfg MCRelay` (likewise `MCElection`, `MCMultiroute`, `MCHead`,
`MCFailover` and `MCSpecs`; `ExportClients` and `Listener` are checked as they are) and
`tlapm RelayPipeProofs.tla` (likewise the other `...Proofs` modules; `MultirouteProofs` is
the longest and takes about a quarter of an hour from nothing). The largest run,
`RelayStream`, has about 3.3 million states; the slowest with it is `Failover`, at two and
a half minutes.
