----------------------------- MODULE Multiroute -----------------------------
(***************************************************************************)
(* One client connection of a route=request listener                       *)
(* (import/multiroute.rs): every request of a keep-alive HTTP/1.1          *)
(* connection is routed on its own, over Zenoh keys of its own.            *)
(*                                                                         *)
(* The client's byte stream is load.client, a sequence of tokens; a token  *)
(* is a piece of one request and is named by its position.  The response   *)
(* to request r is load.resp[r], a sequence of samples named likewise.     *)
(* flowscope's HttpProxyParser is external: it accepts some of what it is  *)
(* offered, in order, and turns it into events.                            *)
(***************************************************************************)
EXTENDS Integers, Sequences, SequencesExt

CONSTANTS
  Loads,     \* what clients and backends may say
  Capacity,  \* rx_channel_capacity
  MaxResp,   \* max_response_size, in samples
  Faults     \* loss, refuse, peer, session: what may go wrong

Token    == [req : Nat \ {0}, kind : {"head", "body", "raw", "bad", "h2"},
             last : BOOLEAN]
Response == [kinds : Seq({"interim", "head", "body", "raw"}),
             framing : {"length", "chunked", "close", "switch"}, close : BOOLEAN]

\* What a client's stream is cut into: requests numbered from 1, each a head and
\* its body, the last piece marked; what follows a request that switches the
\* protocol, or an h2 preface, is raw; nothing is framed after a malformed piece.
Stream(s, resp) ==
  \A p \in DOMAIN s :
    LET before(kinds) == p > 1 /\ s[p - 1].kind \in kinds
        switches      == before({"head", "body"}) /\ resp[s[p - 1].req].framing = "switch"
    IN  /\ s[p].kind = "head" =>
             /\ s[p].req = (IF p = 1 THEN 1 ELSE s[p - 1].req + 1)
             /\ p > 1 => before({"head", "body"}) /\ s[p - 1].last
             /\ s[p].req <= Len(resp) /\ ~switches
        /\ s[p].kind = "body" => /\ before({"head", "body"}) /\ ~s[p - 1].last
                                 /\ s[p].req = s[p - 1].req
        /\ s[p].kind = "raw" => /\ \/ before({"raw", "h2"})
                                   \/ switches /\ s[p - 1].last
                                /\ s[p].req = s[p - 1].req
        /\ s[p].kind = "h2" => p = 1
        /\ s[p].kind = "bad" /\ p > 1 =>
             /\ before({"head", "body", "bad"}) /\ ~switches
             /\ s[p].req >= s[p - 1].req

\* A response: interim heads, the head, and a body or a tunnel's bytes.
Framed(r) ==
  \E h \in DOMAIN r.kinds : \A i \in DOMAIN r.kinds :
    r.kinds[i] = IF i < h THEN "interim" ELSE IF i = h THEN "head"
                 ELSE IF r.framing = "switch" THEN "raw" ELSE "body"

Conversation(l) ==
  /\ l.client \in Seq(Token) /\ l.resp \in Seq(Response)
  /\ Stream(l.client, l.resp)
  /\ \A r \in DOMAIN l.resp : Framed(l.resp[r])

ASSUME MultirouteAssumption ==
  /\ \A l \in Loads : Conversation(l)
  /\ Capacity \in Nat \ {0}
  /\ MaxResp \in Nat
  /\ Faults \subseteq {"loss", "refuse", "peer", "session"}

VARIABLES
  load,            \* the conversation of this behaviour
  pc,              \* where the handler is
  req,             \* request_num
  outcome,         \* the ConnOutcome recorded, or "none"
  shutdown,        \* the listener's drain has cancelled its connections
  inp,             \* Nat: client tokens read from the socket
  client_eof,
  client_pending,  \* client tokens the parser has refused so far
  fed,             \* parser: the last client token it accepted
  events,          \* the events it has produced
  poison,          \* parser: none, client (a client fault), server
  tunnelled,       \* parser: the protocol was switched, nothing is accepted
  residue,         \* parser: what it accepted past the switch, each way
  rgot,            \* parser: response samples accepted in this exchange
  carry,           \* events deferred while the queue is processed
  request_done,
  response_done,
  keep_alive,
  end,             \* ExchangeEnd
  resp_pending,    \* response samples the parser has refused so far
  bsent,           \* Nat: samples the backend has sent
  rx,              \* the exchange's rx_channel; 0 is the EOF marker
  rx_cancel,       \* it has overflowed
  sent,            \* history: per request, what was put on its tx key
  out,             \* history: what was written to the client
  holed            \* history: requests that lost a sample of their response

ctl  == <<load, req, outcome, shutdown>>
cli  == <<inp, client_eof, client_pending>>
par  == <<fed, events, poison, tunnelled, residue>>
exch == <<rgot, carry, request_done, response_done, keep_alive, end,
          resp_pending>>
bus  == <<bsent, rx, rx_cancel>>
hist == <<sent, out, holed>>
vars == <<pc, ctl, cli, par, exch, bus, hist>>

Req       == 1..Len(load.resp)
Script    == load.client
Resp      == load.resp[req]
Stage     == {"next", "route", "consume", "discard", "setup", "offer",
              "reoffer", "process", "select", "switch", "splice", "teardown", "finish",
              "done"}
Exchange  == {"offer", "reoffer", "process", "select", "switch", "splice"}
Ends      == {"Ok", "Timeout", "Overflow", "Truncated", "Poisoned",
              "BackendGone", "Drained"}
EventKind == {"head", "body", "end", "rhead", "rbody", "rend", "switch"}

TypeOK ==
  /\ load \in Loads
  /\ pc \in Stage
  /\ req \in 0..Len(load.resp)
  /\ outcome \in {"none", "Completed", "Reset", "Failed"}
  /\ shutdown \in BOOLEAN
  /\ inp \in 0..Len(Script)
  /\ client_eof \in BOOLEAN
  /\ client_pending \in Seq(1..Len(Script))
  /\ fed \in 0..Len(Script)
  /\ events \in Seq([ev : EventKind, at : Nat])
  /\ poison \in {"none", "client", "server"}
  /\ tunnelled \in BOOLEAN
  /\ residue \in [{"up", "down"} -> Seq(Nat)]
  /\ rgot \in Seq(Nat)
  /\ carry \in Seq([ev : EventKind, at : Nat])
  /\ request_done \in BOOLEAN
  /\ response_done \in BOOLEAN
  /\ keep_alive \in BOOLEAN
  /\ end \in Ends
  /\ resp_pending \in Seq(Nat)
  /\ bsent \in Nat
  /\ rx \in Seq(Nat) /\ Len(rx) <= Capacity
  /\ rx_cancel \in BOOLEAN
  /\ sent \in [Req -> Seq(0..Len(Script))]
  /\ out \in Seq([req : 1..(Len(load.resp) + 1),
                  kind : {"sample", "refused", "error"}, at : Nat])
  /\ holed \subseteq Req

Init ==
  /\ load \in Loads
  /\ pc = "next" /\ req = 0
  /\ outcome = "Completed"
  /\ shutdown = FALSE
  /\ inp = 0 /\ client_eof = FALSE /\ client_pending = <<>>
  /\ fed = 0 /\ events = <<>> /\ poison = "none" /\ tunnelled = FALSE
  /\ residue = [s \in {"up", "down"} |-> <<>>]
  /\ rgot = <<>> /\ carry = <<>> /\ resp_pending = <<>>
  /\ request_done = FALSE /\ response_done = FALSE
  /\ keep_alive = TRUE /\ end = "Ok"
  /\ bsent = 0 /\ rx = <<>> /\ rx_cancel = FALSE
  /\ sent = [r \in Req |-> <<>>]
  /\ out = <<>>
  /\ holed = {}

-----------------------------------------------------------------------------
(* The parser (external).                                                  *)

Event(kind, n) == [ev |-> kind, at |-> n]

\* What a client token turns into.
RequestEvents(p) ==
  CASE Script[p].kind = "h2" -> <<Event("switch", p)>>
    [] Script[p].kind \in {"head", "body"} ->
         <<Event(Script[p].kind, p)>>
           \o (IF Script[p].last THEN <<Event("end", p)>> ELSE <<>>)
    [] OTHER -> <<>>

\* What it keeps of one past a switch, each way.
RawUp(p)   == IF Script[p].kind = "raw" THEN <<p>> ELSE <<>>
RawDown(n) == IF Resp.kinds[n] = "raw" THEN <<n>> ELSE <<>>

\* push_bytes of the client's side and drain_events: the parser accepts k of
\* the tokens offered, at least `least` unless it is tunnelled or poisoned.  A gap in the
\* client's stream poisons it like malformed framing.
PushClient(offered, least) ==
  \E k \in (IF tunnelled \/ poison # "none" \/ offered = <<>> THEN {0}
            ELSE least..Len(offered)) :
    LET s   == SubSeq(offered, 1, k)
        gap == k > 0 /\ s[1] # fed + 1
        bad == \E i \in 1..k : Script[s[i]].kind = "bad"
    IN  /\ client_pending' = SubSeq(offered, k + 1, Len(offered))
        /\ fed' = IF k = 0 THEN fed ELSE s[k]
        /\ events' = IF gap THEN events
                     ELSE events \o FlattenSeq([i \in 1..k |-> RequestEvents(s[i])])
        /\ residue' = [residue EXCEPT !["up"] =
                         @ \o FlattenSeq([i \in 1..k |-> RawUp(s[i])])]
        /\ poison' = IF poison = "none" /\ (gap \/ bad) THEN "client" ELSE poison
        /\ tunnelled' = (tunnelled \/ \E i \in 1..k : Script[s[i]].kind = "h2")

\* parser.fin of the client's side: a request cut short may poison.
FinClient ==
  /\ client_eof' = TRUE
  /\ poison' \in IF fed # 0 /\ ~Script[fed].last /\ poison = "none"
                 THEN {"none", "client"} ELSE {poison}

\* A response is complete by its own framing; a missing sample goes unnoticed
\* unless the framing counts.
Complete(got) ==
  CASE Resp.framing = "chunked" -> Len(Resp.kinds) \in ToSet(got)
    [] Resp.framing = "length"  -> Len(got) = Len(Resp.kinds)
    [] OTHER                    -> FALSE

Headed(got) == \E n \in ToSet(got) : Resp.kinds[n] = "head"

ResponseEvents(n, got) ==
  CASE Resp.kinds[n] = "head" /\ Resp.framing = "switch" ->
         <<Event("rhead", n), Event("switch", n)>>
    [] Resp.kinds[n] = "raw" -> <<>>
    [] OTHER ->
         <<Event(IF Resp.kinds[n] = "body" THEN "rbody" ELSE "rhead", n)>>
           \o (IF Complete(Append(got, n)) THEN <<Event("rend", n)>> ELSE <<>>)

\* push_bytes of the backend's side and drain_events.  It accepts all of what
\* it is offered, or, under "refuse", leaves a tail.
PushResp(offered) ==
  \E k \in IF tunnelled THEN {0}
           ELSE IF "refuse" \in Faults THEN 0..Len(offered) ELSE {Len(offered)} :
    LET s      == SubSeq(offered, 1, k)
        got(i) == rgot \o SubSeq(s, 1, i)
        junk   == \E i \in 1..k : Resp.kinds[s[i]] \in {"body", "raw"}
                                    /\ ~Headed(got(i))
    IN  /\ resp_pending' = SubSeq(offered, k + 1, Len(offered))
        /\ rgot' = rgot \o s
        /\ events' = IF junk THEN events
                     ELSE events \o FlattenSeq(
                            [i \in 1..k |-> ResponseEvents(s[i], got(i - 1))])
        /\ residue' = [residue EXCEPT !["down"] =
                         @ \o FlattenSeq([i \in 1..k |-> RawDown(s[i])])]
        /\ poison' = IF poison = "none" /\ junk THEN "server" ELSE poison
        /\ tunnelled' = (tunnelled \/ (Resp.framing = "switch"
                                         /\ Headed(rgot \o s)))

-----------------------------------------------------------------------------
(* Zenoh and the backend (external), through backpressure::rx_channel.     *)

\* A sample reaches the channel, is lost on the way, or does not fit.
Arrives(n) ==
  \/ /\ Len(rx) < Capacity
     /\ rx' = Append(rx, n)
     /\ UNCHANGED <<rx_cancel, holed>>
  \/ /\ Len(rx) >= Capacity
     /\ rx_cancel' = TRUE
     /\ holed' = holed \cup {req}
     /\ UNCHANGED rx
  \/ /\ "loss" \in Faults
     /\ holed' = holed \cup {req}
     /\ UNCHANGED <<rx, rx_cancel>>

Backend ==
  /\ pc \in Exchange
  /\ \/ /\ bsent < Len(Resp.kinds)
        /\ bsent' = bsent + 1
        /\ Arrives(bsent + 1)
     \/ /\ \/ bsent = Len(Resp.kinds)
           \/ "peer" \in Faults /\ bsent < Len(Resp.kinds)
                /\ Resp.framing # "close"
        /\ bsent' = Len(Resp.kinds) + 1
        /\ Arrives(0)
  /\ UNCHANGED <<pc, ctl, cli, par, exch, sent, out>>

Drain ==
  /\ ~shutdown
  /\ shutdown' = TRUE
  /\ UNCHANGED <<pc, load, req, outcome, cli, par, exch, bus, hist>>

-----------------------------------------------------------------------------
(* handle_multiroute_connection.                                           *)

Goto(l) == pc' = l
Write(r, kind, n) == out' = Append(out, [req |-> r, kind |-> kind, at |-> n])

\* The connection ends: a FIN on the client's side and the outcome.
Refuse(r, answer) ==
  /\ Goto("finish")
  /\ outcome' = "Reset"
  /\ IF answer THEN Write(r, "error", 0) ELSE UNCHANGED out
  /\ UNCHANGED <<load, req, shutdown, exch, bus, sent, holed>>

Finish ==
  /\ pc = "finish"
  /\ Goto("done")
  /\ UNCHANGED <<ctl, cli, par, exch, bus, hist>>

\* An error inside an exchange returns at once, without its teardown.
Fail(fault) ==
  /\ fault \in Faults
  /\ Goto("done")
  /\ outcome' = "Failed"
  /\ UNCHANGED <<load, req, shutdown, cli, par, exch, bus, hist>>

-----------------------------------------------------------------------------
(* next_request_head.                                                      *)

\* A framed head wins; anything else between requests is stray.
NextPop ==
  /\ pc = "next" /\ events # <<>>
  /\ events' = Tail(events)
  /\ IF Head(events).ev = "head"
     THEN Goto("route") /\ req' = req + 1
     ELSE UNCHANGED <<pc, req>>
  /\ UNCHANGED <<load, outcome, shutdown, cli, fed, poison, tunnelled, residue,
                 exch, bus, hist>>

NextEof ==
  /\ pc = "next" /\ events = <<>> /\ client_eof
  /\ Goto("finish")
  /\ UNCHANGED <<ctl, cli, par, exch, bus, hist>>

Waiting(l) == pc = l /\ events = <<>> /\ ~client_eof

\* Bug: the switch is only noticed once nothing is left to offer.
BugNotHttp == tunnelled /\ client_pending = <<>>

\* A protocol switch where a request was expected, an h2 preface most likely.
NotHttp == tunnelled

NextTunnelled ==
  /\ Waiting("next") /\ NotHttp
  /\ Refuse(req + 1, FALSE)
  /\ UNCHANGED <<cli, par>>

\* Refuse what the parser refused, or go round again.
NextPushed ==
  IF poison' = "none"
  THEN UNCHANGED <<pc, ctl, exch, bus, hist>>
  ELSE Refuse(req + 1, poison' = "client")

NextOffer ==
  /\ Waiting("next") /\ ~NotHttp /\ client_pending # <<>>
  /\ PushClient(client_pending, 1)
  /\ NextPushed
  /\ UNCHANGED <<inp, client_eof>>

\* n tokens are read.
Tokens(n) == [i \in 1..n |-> inp + i]

NextRead ==
  /\ Waiting("next") /\ ~NotHttp /\ client_pending = <<>>
  /\ \E n \in 1..(Len(Script) - inp) :
       inp' = inp + n /\ PushClient(Tokens(n), 1)
  /\ NextPushed
  /\ UNCHANGED client_eof

NextReadEof ==
  /\ Waiting("next") /\ ~NotHttp /\ client_pending = <<>>
  /\ FinClient
  /\ UNCHANGED <<pc, ctl, inp, client_pending, fed, events, tunnelled, residue,
                 exch, bus, hist>>

\* The read times out or fails: a fault only before the first request.
NextTimeout ==
  /\ Waiting("next") /\ ~NotHttp /\ client_pending = <<>>
  /\ IF req = 0 THEN Refuse(req + 1, TRUE)
     ELSE Goto("finish") /\ UNCHANGED <<ctl, exch, bus, hist>>
  /\ UNCHANGED <<cli, par>>

NextDrain ==
  /\ Waiting("next") /\ ~NotHttp /\ client_pending = <<>> /\ shutdown
  /\ Goto("finish")
  /\ UNCHANGED <<ctl, cli, par, exch, bus, hist>>

-----------------------------------------------------------------------------
(* Routing, and consume_request_body of a request nobody serves.           *)

\* The head names no authority to route on.
RouteBad ==
  /\ pc = "route"
  /\ Refuse(req, TRUE)
  /\ UNCHANGED <<cli, par>>

RouteServed ==
  /\ pc = "route"
  /\ Goto("setup")
  /\ UNCHANGED <<ctl, cli, par, exch, bus, hist>>

\* No backend, or its resolution failed: 502 on a connection that stays open.
RouteUnavailable ==
  /\ pc = "route"
  /\ Goto("consume")
  /\ Write(req, "refused", 0)
  /\ UNCHANGED <<ctl, cli, par, exch, bus, sent, holed>>

\* A poisoned or tunnelled parser is left for next_request_head to notice.
ConsumePushed == Goto(IF poison' # "none" \/ tunnelled' THEN "next" ELSE "discard")

Consume ==
  /\ pc = "consume"
  /\ IF client_pending = <<>>
     THEN Goto("discard") /\ UNCHANGED <<cli, par>>
     ELSE PushClient(client_pending, 1) /\ ConsumePushed /\ UNCHANGED <<inp, client_eof>>
  /\ UNCHANGED <<ctl, exch, bus, hist>>

\* Up to the end of the request, or the head of the next, which is put back.
DiscardPop ==
  /\ pc = "discard" /\ events # <<>>
  /\ IF Head(events).ev \in {"end", "head"} THEN Goto("next") ELSE UNCHANGED pc
  /\ events' = IF Head(events).ev = "head" THEN events ELSE Tail(events)
  /\ UNCHANGED <<ctl, cli, fed, poison, tunnelled, residue, exch, bus, hist>>

\* Nothing is read over a tail that is still refused.
DiscardAgain ==
  /\ pc = "discard" /\ events = <<>>
  /\ client_eof \/ client_pending # <<>>
  /\ Goto(IF client_eof THEN "next" ELSE "consume")
  /\ UNCHANGED <<ctl, cli, par, exch, bus, hist>>

DiscardRead ==
  /\ Waiting("discard") /\ client_pending = <<>>
  /\ \/ /\ \E n \in 1..(Len(Script) - inp) :
             inp' = inp + n /\ PushClient(Tokens(n), 1)
        /\ IF poison' # "none" \/ tunnelled' THEN Goto("next") ELSE Goto("consume")
        /\ UNCHANGED client_eof
     \/ /\ FinClient /\ Goto("consume")
        /\ UNCHANGED <<inp, client_pending, fed, events, tunnelled, residue>>
  /\ UNCHANGED <<ctl, exch, bus, hist>>

\* The read times out or fails, or the listener drains.
DiscardEnd ==
  /\ Waiting("discard") /\ client_pending = <<>>
  /\ Goto("next")
  /\ UNCHANGED <<ctl, cli, par, exch, bus, hist>>

-----------------------------------------------------------------------------
(* run_exchange.                                                           *)

\* The request's entities are declared and its head is put.
SetupOk ==
  /\ pc = "setup" /\ Goto("offer")
  /\ sent' = [sent EXCEPT ![req] =
                <<CHOOSE p \in 1..Len(Script) : Script[p].req = req
                                                  /\ Script[p].kind = "head">>]
  /\ request_done' = FALSE /\ response_done' = FALSE
  /\ keep_alive' = TRUE /\ end' = "Ok"
  /\ resp_pending' = <<>> /\ rgot' = <<>>
  /\ bsent' = 0 /\ rx' = <<>> /\ rx_cancel' = FALSE
  /\ UNCHANGED <<ctl, cli, par, carry, out, holed>>

\* A declaration or the first put fails, or read_timeout passes.
SetupFail == pc = "setup" /\ Fail("session")

\* The tails refused so far are offered again, the client's first.
OfferClient ==
  /\ pc = "offer" /\ Goto("reoffer")
  /\ PushClient(client_pending, 0)
  /\ UNCHANGED <<ctl, inp, client_eof, exch, bus, hist>>

OfferResp ==
  /\ pc = "reoffer" /\ Goto("process")
  /\ PushResp(resp_pending)
  /\ UNCHANGED <<ctl, cli, fed, carry, request_done, response_done, keep_alive,
                 end, bus, hist>>

Popped(kinds) == pc = "process" /\ events # <<>> /\ Head(events).ev \in kinds

Pop == events' = Tail(events) /\ UNCHANGED <<fed, poison, tunnelled, residue>>

Put(tokens) == sent' = [sent EXCEPT ![req] = @ \o tokens]

\* Bug: a body is this request's, whether or not its end has been seen.
BugMine == ~request_done \/ Head(events).ev = "body"

\* The client's events are this request's until its end.
Mine == ~request_done

\* The body (and trailers) of this request are forwarded; its end is noted.
ProcessRequest ==
  /\ Popped({"body", "end"}) /\ Mine
  /\ \/ /\ Pop
        /\ IF Head(events).ev = "body"
           THEN Put(<<Head(events).at>>) /\ UNCHANGED request_done
           ELSE request_done' = TRUE /\ UNCHANGED sent
        /\ UNCHANGED <<pc, ctl, cli, rgot, carry, response_done, keep_alive, end,
                       resp_pending, bus, out, holed>>
     \/ Head(events).ev = "body" /\ Fail("session")

\* Events of the next, pipelined request are carried aside.
ProcessDefer ==
  /\ \/ Popped({"head"})
     \/ Popped({"body", "end"}) /\ ~Mine
  /\ Pop
  /\ carry' = Append(carry, Head(events))
  /\ UNCHANGED <<pc, ctl, cli, rgot, request_done, response_done, keep_alive, end,
                 resp_pending, bus, hist>>

\* Bug: until-close framing is not an announcement.
BugWantsClose(r) == load.resp[r].close

response_wants_close(r) == load.resp[r].framing = "close" \/ load.resp[r].close

ProcessHead ==
  /\ Popped({"rhead"})
  /\ \/ /\ Pop
        /\ Write(req, "sample", Head(events).at)
        /\ keep_alive' = (keep_alive /\ (\/ Resp.kinds[Head(events).at] = "interim"
                                         \/ ~response_wants_close(req)))
        /\ UNCHANGED <<pc, ctl, cli, rgot, carry, request_done, response_done, end,
                       resp_pending, bus, sent, holed>>
     \/ Fail("peer")

\* The loop over the events is left, what was carried going back in front.
Stop(l) ==
  /\ Goto(l)
  /\ events' = carry \o Tail(events)
  /\ carry' = <<>>
  /\ UNCHANGED <<ctl, cli, fed, poison, tunnelled, residue, rgot, request_done,
                 resp_pending, bus, hist>>

\* What was written of request r's answer, and bytes_written.
Answer(r) == FlattenSeq([i \in DOMAIN out |-> IF out[i].req = r THEN <<out[i]>>
                                              ELSE <<>>])
WrittenSamples == Len(Answer(req))

\* Body and trailers of the response, up to the cap.
ProcessBody ==
  /\ Popped({"rbody"})
  /\ \/ /\ WrittenSamples < MaxResp
        /\ Pop
        /\ Write(req, "sample", Head(events).at)
        /\ UNCHANGED <<pc, ctl, cli, exch, bus, sent, holed>>
     \/ WrittenSamples < MaxResp /\ Fail("peer")
     \/ /\ WrittenSamples >= MaxResp
        /\ keep_alive' = FALSE /\ end' = "Truncated"
        /\ Stop("teardown")
        /\ UNCHANGED response_done

ProcessEnd ==
  /\ Popped({"rend"})
  /\ response_done' = TRUE
  /\ Stop("teardown")
  /\ UNCHANGED <<keep_alive, end>>

ProcessSwitch ==
  /\ Popped({"switch"})
  /\ Stop("switch")
  /\ UNCHANGED <<response_done, keep_alive, end>>

\* Bug: an error answer is written whatever the client has received.
BugUntold == TRUE

\* bytes_written == 0
Untold == WrittenSamples = 0

\* An exchange that cannot go on: what the client is told if it has been told
\* nothing yet, and why the connection will not be kept.
Abandon(why, answer) ==
  /\ Goto("teardown")
  /\ keep_alive' = FALSE /\ end' = why
  /\ IF answer /\ Untold THEN Write(req, "error", 0) ELSE UNCHANGED out
  /\ UNCHANGED <<ctl, cli, fed, poison, tunnelled, residue, rgot, request_done,
                 response_done, resp_pending, bus, sent, holed>>

\* Every event is processed: a framing violation ends the exchange.
ProcessDone ==
  /\ pc = "process" /\ events = <<>>
  /\ events' = carry /\ carry' = <<>>
  /\ IF poison # "none"
     THEN Abandon("Poisoned", TRUE)
     ELSE /\ Goto("select")
          /\ UNCHANGED <<ctl, cli, fed, poison, tunnelled, residue, rgot,
                         request_done, response_done, keep_alive, end,
                         resp_pending, bus, hist>>

\* Bug: a read overwrites the tail that is still refused.
BugMayRead == ~request_done /\ ~client_eof

MayRead == ~request_done /\ ~client_eof /\ client_pending = <<>>

SelectRead ==
  /\ pc = "select" /\ MayRead
  /\ \/ /\ Goto("offer")
        /\ \E n \in 1..(Len(Script) - inp) :
             inp' = inp + n /\ PushClient(Tokens(n), 0)
        /\ UNCHANGED <<ctl, client_eof, exch, bus, hist>>
     \/ /\ Goto("offer")
        /\ FinClient
        /\ UNCHANGED <<ctl, inp, client_pending, fed, events, tunnelled, residue,
                       exch, bus, hist>>
     \/ Fail("peer")

\* parser.fin of the backend's side: it completes a response framed by the
\* close; any other that is incomplete may be refused, or wait for the timeout.
FinResp ==
  /\ events' = IF Resp.framing = "close" /\ Headed(rgot)
               THEN Append(events, Event("rend", 0)) ELSE events
  /\ poison' \in IF poison = "none" /\ events' = events
                 THEN {"none", "server"} ELSE {poison}
  /\ UNCHANGED <<fed, tunnelled, residue, resp_pending, rgot>>

\* A sample is received, whether or not a tail is still refused: that tail is
\* overwritten, or offered after the parser has been told of the end.
SelectRecv ==
  /\ pc = "select" /\ rx # <<>>
  /\ Goto("offer")
  /\ rx' = Tail(rx)
  /\ IF Head(rx) = 0 THEN FinResp ELSE PushResp(<<Head(rx)>>) /\ UNCHANGED fed
  /\ holed' = IF resp_pending = <<>> THEN holed ELSE holed \cup {req}
  /\ UNCHANGED <<ctl, cli, carry, request_done, response_done, keep_alive, end,
                 bsent, rx_cancel, sent, out>>

\* Bug: the exchange is given up and its end left as it was.
BugSelectTimeout ==
  /\ pc = "select" /\ rx = <<>>
  /\ Abandon("Ok", TRUE)
  /\ UNCHANGED <<events, carry>>

\* response_idle_timeout passes with nothing to receive.
SelectTimeout ==
  /\ pc = "select" /\ rx = <<>>
  /\ Abandon("Timeout", TRUE)
  /\ UNCHANGED <<events, carry>>

\* The session closes the channel.
SelectClosed ==
  /\ pc = "select" /\ rx = <<>> /\ "session" \in Faults
  /\ Abandon("BackendGone", TRUE)
  /\ UNCHANGED <<events, carry>>

SelectOverflow ==
  /\ pc = "select" /\ rx_cancel
  /\ Abandon("Overflow", FALSE)
  /\ UNCHANGED <<events, carry>>

SelectDrain ==
  /\ pc = "select" /\ shutdown
  /\ Abandon("Drained", FALSE)
  /\ UNCHANGED <<events, carry>>

\* What came in before the switch was seen, in the order it came.
UpFirst   == residue["up"] \o client_pending
DownFirst == residue["down"] \o resp_pending

Samples(s) == [i \in 1..Len(s) |-> [req |-> req, kind |-> "sample", at |-> s[i]]]

Switch ==
  /\ pc = "switch"
  /\ \/ /\ Goto("splice")
        /\ Put(UpFirst)
        /\ out' = out \o Samples(DownFirst)
        /\ client_pending' = <<>> /\ resp_pending' = <<>>
        /\ residue' = [d \in {"up", "down"} |-> <<>>]
        /\ UNCHANGED <<ctl, inp, client_eof, fed, events, poison, tunnelled, rgot,
                       carry, request_done, response_done, keep_alive, end, bus,
                       holed>>
     \/ UpFirst # <<>> /\ Fail("session")
     \/ DownFirst # <<>> /\ Fail("peer")

SpliceUp ==
  /\ pc = "splice" /\ inp < Len(Script)
  /\ \/ Put(<<inp + 1>>) /\ UNCHANGED pc
     \/ "session" \in Faults /\ Goto("teardown") /\ UNCHANGED sent
  /\ inp' = inp + 1
  /\ UNCHANGED <<ctl, client_eof, client_pending, par, exch, bus, out, holed>>

SpliceDown ==
  /\ pc = "splice" /\ rx # <<>>
  /\ rx' = Tail(rx)
  /\ \/ /\ Head(rx) # 0
        /\ Write(req, "sample", Head(rx)) /\ UNCHANGED pc
     \/ /\ Head(rx) = 0 \/ "peer" \in Faults
        /\ Goto("teardown") /\ UNCHANGED out
  /\ UNCHANGED <<ctl, cli, par, exch, bsent, rx_cancel, sent, holed>>

\* The client closes or its read fails, or the session closes the channel.
SpliceEof ==
  /\ pc = "splice"
  /\ Goto("teardown")
  /\ UNCHANGED <<ctl, cli, par, exch, bus, hist>>

\* Bug: the splice does not watch the listener's shutdown.
BugSpliceCancelled ==
  /\ pc = "splice" /\ rx_cancel
  /\ Goto("teardown")
  /\ UNCHANGED <<ctl, cli, par, exch, bus, hist>>

SpliceCancelled ==
  /\ pc = "splice" /\ (rx_cancel \/ shutdown)
  /\ Goto("teardown")
  /\ UNCHANGED <<ctl, cli, par, exch, bus, hist>>

\* Bug: an exchange that ended early is no reason to hang up.
BugReusable == ~client_eof

\* Whether the connection is kept for another request.  (That the parser is done,
\* both ways, also ends it; here it may always go on.)
Reusable == keep_alive /\ response_done /\ ~client_eof

\* The outcome recorded for the end of an exchange.
Closing ==
  CASE end = "Ok" -> outcome
    [] end \in {"Timeout", "Truncated", "BackendGone"} -> "Failed"
    [] OTHER -> "Reset"

\* An EOF marker to the backend, the entities undeclared, and the outcome.
Teardown ==
  /\ pc = "teardown"
  /\ Put(<<0>>)
  /\ outcome' = Closing
  /\ Goto(IF Reusable THEN "next" ELSE "finish")
  /\ UNCHANGED <<load, req, shutdown, cli, par, exch, bus, out, holed>>

-----------------------------------------------------------------------------

\* What the client decides; everything else the bridge does by itself.
FromClient == NextRead \/ NextReadEof \/ DiscardRead \/ SelectRead \/ SpliceUp
                \/ SpliceEof

NextRequest == NextPop \/ NextEof \/ NextTunnelled \/ NextOffer \/ NextTimeout
                 \/ NextDrain

Route == RouteBad \/ RouteServed \/ RouteUnavailable \/ Consume \/ DiscardPop
           \/ DiscardAgain \/ DiscardEnd

Process == ProcessRequest \/ ProcessDefer \/ ProcessHead \/ ProcessBody
             \/ ProcessEnd \/ ProcessSwitch \/ ProcessDone

Select == SelectRecv \/ SelectTimeout \/ SelectClosed \/ SelectOverflow
            \/ SelectDrain

RunExchange == SetupOk \/ SetupFail \/ OfferClient \/ OfferResp \/ Process
                 \/ Select \/ Switch \/ SpliceDown \/ SpliceCancelled \/ Teardown

Handler == NextRequest \/ Route \/ RunExchange \/ Finish

Done == pc = "done" /\ UNCHANGED vars

Next == Handler \/ FromClient \/ Backend \/ Drain \/ Done

Spec == Init /\ [][Next]_vars

(* Fairness.  The handler runs on and its timers fire; the client and the  *)
(* backend need do nothing.  Its writes to the client and its puts have no *)
(* deadline and watch neither shutdown nor rx_cancel: each may stall for   *)
(* ever, or fail, and is owed nothing.                                     *)

Writes == Handler /\ ~UNCHANGED <<out, sent>>
Prompt ==
  /\ Handler /\ UNCHANGED <<out, sent>>
  /\ pc' = "done" => pc = "finish"
  /\ pc = "splice" /\ rx' # rx => Head(rx) = 0

FairSpec == Spec /\ WF_vars(Prompt)

\* The client reads what it is written and Zenoh takes what is put: no write of
\* the handler and no put stalls for ever.  (SpliceUp is a read and its put.)
WritesReturn == WF_vars(Writes)

-----------------------------------------------------------------------------
(* Properties.                                                             *)

Forwarded(r) == sent[r] # <<>>
Whole(r)     == /\ Len(Answer(r)) = Len(load.resp[r].kinds)
                /\ \A i \in DOMAIN Answer(r) : Answer(r)[i].kind = "sample"
Headless(r)  == \A i \in DOMAIN Answer(r) :
                  load.resp[r].kinds[Answer(r)[i].at] = "interim"

\* Pipelined requests never mix: what run_exchange puts on a request's tx key
\* is a contiguous run of that request's own bytes from its head, and at most
\* one EOF marker, last.
OwnBytesOnly ==
  \A r \in Req : \A i \in DOMAIN sent[r] :
    \/ sent[r][i] = 0 /\ i = Len(sent[r])
    \/ sent[r][i] # 0 /\ Script[sent[r][i]].req = r
         /\ (i > 1 => sent[r][i] = sent[r][i - 1] + 1)

\* The client reads answers in the order of its requests, each a gapless
\* prefix of that request's response (in order, when a sample was lost on the
\* way), and an answer of the bridge's own only where nothing was written yet.
AnswersInOrder ==
  /\ \A i, j \in DOMAIN out : i < j => out[i].req <= out[j].req
  /\ \A r \in Req : \A i \in DOMAIN Answer(r) :
       \/ Len(Answer(r)) = 1 /\ Answer(r)[1].kind # "sample"
       \/ /\ Answer(r)[i].kind = "sample"
          /\ IF r \in holed
             THEN i > 1 => Answer(r)[i].at > Answer(r)[i - 1].at
             ELSE Answer(r)[i].at = i

\* The connection is kept for another request only when the response before it
\* was delivered whole, or the request was refused by the bridge.  Exempt is a
\* response that lost a sample: one nobody missed, or one an overflow dropped
\* whose rx_cancel the select has not taken.
NextAfterWhole ==
  \A r \in Req : (r + 1 \in Req /\ Forwarded(r + 1)) =>
    \/ Forwarded(r) /\ (Whole(r) \/ r \in holed)
    \/ ~Forwarded(r) /\ Len(Answer(r)) = 1 /\ Answer(r)[1].kind = "refused"

\* No request is forwarded after a response that announced the close: the
\* parser's responder direction would swallow its answer.
NotAfterClose ==
  \A r \in Req : (r + 1 \in Req /\ Forwarded(r + 1) /\ Forwarded(r)
                    /\ ~Headless(r)) =>
    ~(load.resp[r].framing = "close" \/ load.resp[r].close)

\* A client that frames its requests properly is never accused of not doing
\* so: no step of next_request_head, consume_request_body and run_exchange
\* leaves a gap in what the parser is fed.
NoFalsePoison ==
  poison = "client" => \/ \E p \in 1..inp : Script[p].kind = "bad"
                       \/ client_eof

\* A connection recorded as Completed delivered every response whole, save for
\* one that lost a sample (nobody missed it, or the select has not taken the
\* overflow's rx_cancel) and what a tunnel was still carrying.
CompletedIsWhole ==
  (pc = "done" /\ outcome = "Completed") =>
    \A r \in Req : Forwarded(r) =>
      Whole(r) \/ r \in holed \/ load.resp[r].framing = "switch"

\* Stream mode is byte-exact or dead: what the client has read of a response is
\* a prefix of it, also when the reception channel has overflowed.
NeverAGap ==
  \A r \in Req : \A i \in DOMAIN Answer(r) :
    Answer(r)[i].kind = "sample" => Answer(r)[i].at = i

\* Whatever the client and the backends leave unsaid, a connection that is not
\* a tunnel ends, as long as the client reads what it is written and no put
\* stalls: no loop of the handler spins, and every wait for a request, a body or
\* a sample is bounded.
AlwaysEnds == WritesReturn => <>(pc \in {"splice", "done"})

\* Under the same proviso, and without a further word from anyone, the listener's
\* shutdown ends every connection, a tunnel too: run_exchange and its splice watch
\* it in every wait but a write or a put.
DrainEnds == WritesReturn => (shutdown ~> (pc = "done"))
=============================================================================
