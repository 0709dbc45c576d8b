-------------------------------- MODULE Head --------------------------------
(***************************************************************************)
(* The first bytes of ONE accepted connection: from the accept to the      *)
(* moment it is bridged (the start of Relay) or closed.  The listener's    *)
(* door classifies what the client speaks (import/auto.rs), finds the host *)
(* it names (import/connection.rs, import/tls.rs), asks the bus who serves *)
(* it, and hands the connection over with the bytes already consumed.      *)
(*                                                                         *)
(* The client's stream is 1, 2, 3, ... in units of a few bytes; what those *)
(* bytes are is the client's profile (see Profile).  flowscope's           *)
(* classifier and parsers are external: how many units of the stream they  *)
(* need before they decide is part of the profile.                         *)
(***************************************************************************)
EXTENDS Integers, Sequences, FiniteSetsExt

CONSTANTS
  Doors,      \* the doors of run_listener, and the library's http and ws
  Profiles,   \* what clients speak
  Window,     \* units the classifying peek sees (64 bytes)
  MaxHeader,  \* max_header_size
  Chunk,      \* units one read returns at most (4096 bytes)
  MaxSend,    \* units a client sends before it is bridged at most (bound)
  Faults      \* io, session, slow, churn, refuse: what may go wrong

Door  == {"raw", "auto", "terminate", "http", "ws"}
Proto == {"tls", "http1", "h2", "raw"}

\* Which failures a run allows:
\*   io      a peek or a read fails
\*   session a liveliness query fails
\*   slow    a liveliness query of a live backend is not answered in time
\*   churn   a backend appears or disappears meanwhile
\*   refuse  a parser takes less than it is offered
FaultClass == {"io", "session", "slow", "churn", "refuse"}

\* proto: what the client speaks; sig: units until the classifier can tell;
\* head: units until its request head or ClientHello is complete or, if it is
\* malformed, until the parser can tell; key: the host it names, if any; ws: the
\* head is a WebSocket upgrade.
Profile == [proto : Proto, sig : Nat \ {0}, head : Nat \ {0},
            malformed : BOOLEAN, key : {"host", "none", "invalid"},
            ws : BOOLEAN]

ASSUME HeadAssumption ==
  /\ Doors \subseteq Door
  /\ \A p \in Profiles :
       /\ p \in Profile
       /\ p.sig <= p.head
       /\ p.sig > Window => p.proto = "raw"
       /\ p.proto = "raw" => p.key = "none"
  /\ Window \in Nat \ {0}
  /\ MaxHeader \in Nat \ {0}
  /\ Chunk \in Nat \ {0}
  /\ MaxSend \in Nat
  /\ Faults \subseteq FaultClass

VARIABLES
  door,     \* the listener's door
  cl,       \* the client's profile
  sent,     \* Nat: units that have arrived at the socket
  fin,      \* the client has half-closed
  stage,    \* where the handler is
  seen,     \* Nat: last_len, units the peek loop has parsed
  taken,    \* Nat: units consumed from the socket
  buffer,   \* Seq(Nat): the replay buffer
  parser,   \* the parser in use, or ws for the WebSocket acceptor
  pending,  \* Seq(Nat): bytes the parser refused
  fed,      \* Nat: the last unit the parser has been given
  gap,      \* the parser has been given a stream with a hole
  dns,      \* the host resolve_backend is asked for, or none
  probe,    \* [{"host", "default"} -> STRING]: its liveliness queries
  alive,    \* the backends that are registered: {"host", "default"}
  upset,    \* history: what went wrong that is not the client's request
  route,    \* the key the connection is bridged on: none, host, bare
  answer    \* the error response sent to the client: none, 400, 502

cliVars   == <<door, cl, sent, fin>>
readVars  == <<taken, buffer, parser, pending, fed, gap>>
busVars   == <<dns, probe, alive>>
endVars   == <<route, answer>>
vars      == <<cliVars, stage, seen, readVars, busVars, upset, endVars>>

\* classify: auto's peek loop; peekhead: peek_full_http_head; sniff: the peek of
\* handle_import_connection; handshake: TLS termination; read: read_until;
\* resolve: resolve_backend; upgrade: the WebSocket handshake
Stage == {"classify", "peekhead", "sniff", "handshake", "read", "resolve",
          "upgrade", "bridged", "closed"}
Token == {"host", "default"}

TypeOK ==
  /\ door \in Doors /\ cl \in Profiles
  /\ sent \in 0..MaxSend /\ fin \in BOOLEAN
  /\ stage \in Stage
  /\ seen \in 0..sent /\ taken \in 0..sent
  /\ buffer \in Seq(Nat) /\ pending \in Seq(Nat)
  /\ parser \in {"none", "tls", "http1", "h2", "ws"}
  /\ fed \in 0..taken /\ gap \in BOOLEAN
  /\ dns \in {"host", "none"}
  /\ probe \in [Token -> {"off", "pending", "yes", "no"}]
  /\ alive \subseteq Token
  /\ upset \in {"none", "late", "io", "bus"}
  /\ route \in {"none", "host", "bare"}
  /\ answer \in {"none", "400", "502"}

\* run_listener_with_readiness and the modes behind it: where each door starts.
FirstStage(d) ==
  CASE d = "raw"       -> "bridged"
    [] d = "auto"      -> "classify"
    [] d = "http"      -> "sniff"
    [] d = "terminate" -> "handshake"
    [] d = "ws"        -> "upgrade"

Init ==
  /\ door \in Doors /\ cl \in Profiles
  /\ door = "terminate" => cl.proto \in {"http1", "h2"}
  /\ sent = 0 /\ fin = FALSE
  /\ stage = FirstStage(door)
  /\ route = IF door = "raw" THEN "bare" ELSE "none"
  /\ seen = 0 /\ taken = 0
  /\ buffer = <<>> /\ pending = <<>>
  /\ parser = IF door = "ws" THEN "ws" ELSE "none"
  /\ fed = 0 /\ gap = FALSE
  /\ dns = "none"
  /\ probe = [t \in Token |-> "off"]
  /\ alive \in SUBSET Token
  /\ upset = "none"
  /\ answer = "none"

-----------------------------------------------------------------------------
(* The client and the bus (external).                                      *)

Ended == stage \in {"bridged", "closed"}

\* A segment arrives.
Send(n) ==
  /\ ~fin /\ ~Ended
  /\ sent + n <= MaxSend
  /\ sent' = sent + n
  /\ UNCHANGED <<door, cl, fin, stage, seen, readVars, busVars, upset, endVars>>

HalfClose ==
  /\ ~fin /\ ~Ended
  /\ fin' = TRUE
  /\ UNCHANGED <<door, cl, sent, stage, seen, readVars, busVars, upset, endVars>>

\* A backend registers or goes.
Churn(t) ==
  /\ "churn" \in Faults /\ ~Ended
  /\ alive' = IF t \in alive THEN alive \ {t} ELSE alive \cup {t}
  /\ UNCHANGED <<cliVars, stage, seen, readVars, dns, probe, upset, endVars>>

-----------------------------------------------------------------------------
(* How a connection leaves this module.                                    *)

\* bridge_import_connection, on the host's key or the bare service key.
Bridge(key) ==
  /\ stage' = "bridged"
  /\ route' = key
  /\ UNCHANGED answer

\* The handler returns an error; over HTTP/1.1 the client is told why.
Close(response) ==
  /\ stage' = "closed"
  /\ answer' = response
  /\ UNCHANGED route

\* A head could not be read: only an HTTP/1.1 client can be told.
CloseUnread == Close(IF parser = "http1" THEN "400" ELSE "none")

\* A parser is put on the stream.
StartRead(p) ==
  /\ stage' = "read"
  /\ parser' = p
  /\ UNCHANGED <<taken, buffer, pending, fed, gap, endVars>>

\* resolve_backend: both tokens are probed, or the default's if no host is known.
StartResolve(host) ==
  /\ stage' = "resolve"
  /\ dns' = host
  /\ probe' = [t \in Token |-> IF t = "default" \/ host = "host"
                               THEN "pending" ELSE "off"]
  /\ UNCHANGED <<alive, endVars>>

-----------------------------------------------------------------------------
(* The peeks.  They look at the socket and consume nothing.                *)

\* TcpStream::peek (external): what is buffered, from its start.
Peek(window) == Min({sent, window})

\* classify_first_bytes (external): prefix-stable.
classify_first_bytes(n) == IF n >= cl.sig THEN cl.proto ELSE "more"

\* Bug: a fragment is relayed as opaque bytes at once.
BugClassifyMore ==
  /\ stage = "classify" /\ sent > 0
  /\ classify_first_bytes(Peek(Window)) = "more"
  /\ Bridge("bare")
  /\ UNCHANGED <<cliVars, seen, readVars, busVars, upset>>

\* Still undecided when the window is full: relayed as opaque bytes.
ClassifyMore ==
  /\ stage = "classify" /\ sent >= Window
  /\ classify_first_bytes(Window) = "more"
  /\ Bridge("bare")
  /\ UNCHANGED <<cliVars, seen, readVars, busVars, upset>>

\* handle_auto_import_connection dispatches on the protocol.
Classified ==
  /\ stage = "classify" /\ sent > 0
  /\ LET p == classify_first_bytes(Peek(Window))
     IN  \/ /\ p = "tls"   /\ stage' = "sniff"
            /\ UNCHANGED <<readVars, endVars>>
         \/ /\ p = "http1" /\ stage' = "peekhead"
            /\ UNCHANGED <<readVars, endVars>>
         \/ p = "h2"  /\ StartRead("h2")
         \/ p = "raw" /\ Bridge("bare") /\ UNCHANGED readVars
  /\ UNCHANGED <<cliVars, seen, busVars, upset>>

\* The deadline: nothing has arrived, or what has arrived says nothing.
ClassifyTimeout ==
  /\ stage = "classify"
  /\ classify_first_bytes(Peek(Window)) = "more"
  /\ upset' = "late"
  /\ IF sent = 0 THEN Close("none") ELSE Bridge("bare")
  /\ UNCHANGED <<cliVars, seen, readVars, busVars>>

\* What an HTTP/1.1 parser says of the first n units: the routable head, nothing
\* yet, or that it never will be one (peek_http_head_outcome).  Its own cap is
\* max_header_size (http_head_parser).
http_outcome(n) ==
  LET good == cl.proto = "http1" /\ ~cl.malformed /\ cl.head <= MaxHeader
      told == IF cl.proto = "http1" THEN cl.head ELSE cl.sig
  IN  CASE good  /\ n >= cl.head                 -> "head"
        [] ~good /\ n >= Min({told, MaxHeader + 1}) -> "refused"
        [] OTHER                                 -> "more"

HeadWindow == Max({MaxHeader, Chunk})

\* peek_full_http_head: only new bytes are parsed again.
PeekHead ==
  /\ stage = "peekhead" /\ Peek(HeadWindow) > seen
  /\ seen' = Peek(HeadWindow)
  /\ LET o == http_outcome(seen')
         upgrade == o = "head" /\ cl.ws
     IN  \/ /\ upgrade /\ cl.key = "host"
            /\ parser' = "ws"
            /\ StartResolve("host")
            /\ UNCHANGED <<taken, buffer, pending, fed, gap>>
         \/ /\ upgrade /\ cl.key # "host"
            /\ Close("400")
            /\ UNCHANGED <<readVars, busVars>>
         \/ /\ ~upgrade
            /\ stage' = IF o = "more" /\ seen' < MaxHeader
                        THEN "peekhead" ELSE "sniff"
            /\ UNCHANGED <<readVars, busVars, endVars>>
  /\ UNCHANGED <<cliVars, upset>>

\* No complete head by the deadline, or a peek error: the plain HTTP path
\* decides.
PeekHeadFails ==
  /\ stage = "peekhead"
  /\ \/ Peek(HeadWindow) = seen /\ upset' = "late"
     \/ "io" \in Faults /\ upset' = "io"
  /\ stage' = "sniff"
  /\ UNCHANGED <<cliVars, seen, readVars, busVars, endVars>>

\* Bug: the sniffing peek is shorter than a TLS signature.
BugSniffed == classify_first_bytes(Peek(1))

\* The sniffing peek (16 bytes) is shorter than the classifying one (64): only TLS
\* is asked of it, which both see in the first bytes, so one window stands for
\* both.
Sniffed == classify_first_bytes(Peek(Window))

\* handle_import_connection with http_mode: one peek, TLS or else HTTP.
Sniff ==
  /\ stage = "sniff" /\ (sent > 0 \/ fin)
  /\ StartRead(IF Sniffed = "tls" THEN "tls" ELSE "http1")
  /\ UNCHANGED <<cliVars, seen, busVars, upset>>

\* A peek that sees nothing in time, sees the end, or fails.
PeekFails ==
  /\ \/ stage = "sniff" /\ sent = 0 /\ ~fin /\ upset' = "late"
     \/ stage = "classify" /\ sent = 0 /\ fin /\ UNCHANGED upset
     \/ /\ stage \in {"classify", "sniff"} /\ "io" \in Faults
        /\ upset' = "io"
  /\ Close("none")
  /\ UNCHANGED <<cliVars, seen, readVars, busVars>>

-----------------------------------------------------------------------------
(* The handshakes that are not ours.                                       *)

\* rustls (external): ALPN decides which head is read from the decrypted stream.
HandshakeOk ==
  /\ stage = "handshake"
  /\ StartRead(cl.proto)
  /\ UNCHANGED <<cliVars, seen, busVars, upset>>

\* Bug: the handshake has no deadline: an idle client is waited for.
BugHandshakeFails ==
  /\ \/ stage = "handshake"
     \/ stage = "upgrade" /\ http_outcome(sent) # "head"
  /\ fin
  /\ Close("none")
  /\ UNCHANGED <<cliVars, seen, readVars, busVars, upset>>

\* The TLS or WebSocket handshake fails, or is not over in read_timeout.
HandshakeFails ==
  /\ \/ stage = "handshake"
     \/ stage = "upgrade" /\ http_outcome(sent) # "head"
  /\ upset' \in {upset, "late"}
  /\ Close("none")
  /\ UNCHANGED <<cliVars, seen, readVars, busVars>>

\* tungstenite (external) takes the upgrade request and nothing more.
UpgradeOk ==
  /\ stage = "upgrade"
  /\ http_outcome(sent) = "head" /\ cl.ws
  /\ taken' = cl.head
  /\ Bridge(IF door = "auto" /\ probe["host"] = "yes" THEN "host" ELSE "bare")
  /\ UNCHANGED <<cliVars, seen, buffer, parser, pending, fed, gap, busVars,
                 upset>>

\* ... or rejects it.
UpgradeFails ==
  /\ stage = "upgrade"
  /\ http_outcome(sent) = "head"
  /\ Close("none")
  /\ UNCHANGED <<cliVars, seen, readVars, busVars, upset>>

-----------------------------------------------------------------------------
(* read_until and the parsers' steps.                                      *)

Units(from, n) == [i \in 1..n |-> from + i]

\* What the parser says once it has been given the units up to n: a hole in the
\* stream it sees is poison.  The TLS parser never gives up by itself.
Parsed(n, holed) ==
  LET good == cl.proto = parser /\ ~cl.malformed /\ ~holed
  IN  IF parser = "http1" /\ ~holed
      THEN http_outcome(n)
      ELSE CASE good /\ n >= cl.head -> "head"
             [] /\ ~good /\ parser # "tls"
                /\ holed \/ cl.proto # parser \/ n >= cl.head -> "refused"
             [] OTHER -> "more"

\* The key found in a head: routing_key_from_head, h2_routing_key, and the SNI of
\* read_tls_sni, where no name at all is not an error.
routable == cl.key = "host" \/ (cl.key = "none" /\ parser = "tls")

\* How many units of what it is offered the parser takes.
Accepted(offer) ==
  IF "refuse" \in Faults /\ parser # "tls" THEN 0..Len(offer) ELSE {Len(offer)}

\* Every byte read is mirrored into the replay buffer.
Mirror(buf, new) == buf \o new

\* Bug: the refused tail is dropped.
Bugconcat_pending(tail, new) == new

\* concat_pending: what the parser refused is offered again, in front.
concat_pending(tail, new) == tail \o new

\* Bug: the size is only checked in front of a read that would exceed it.
BugTooLarge(buf) == Len(buf) >= MaxHeader + Chunk

\* read_until's cap, checked once the parser had its turn.
TooLarge(buf) == Len(buf) >= MaxHeader

\* One turn of read_until: read a chunk, mirror it, let the parser's step have
\* it, then the cap.
ReadChunk(n) ==
  LET new   == Units(taken, n)
      buf   == Mirror(buffer, new)
      offer == concat_pending(pending, new)
  IN  /\ stage = "read" /\ taken + n <= sent
      /\ taken' = taken + n
      /\ buffer' = buf
      /\ \E m \in Accepted(offer) :
           LET holed == gap \/ (m > 0 /\ offer[1] # fed + 1)
               last  == IF m = 0 THEN fed ELSE offer[m]
               o     == Parsed(last, holed)
           IN  /\ fed' = last
               /\ gap' = holed
               /\ pending' = SubSeq(offer, m + 1, Len(offer))
               /\ \/ /\ o = "head" /\ routable
                     /\ StartResolve(cl.key)
                  \/ /\ \/ o = "head" /\ ~routable
                        \/ o = "refused"
                        \/ o = "more" /\ TooLarge(buf)
                     /\ CloseUnread
                     /\ UNCHANGED busVars
                  \/ /\ o = "more" /\ ~TooLarge(buf)
                     /\ UNCHANGED <<stage, busVars, endVars>>
      /\ UNCHANGED <<cliVars, seen, parser, upset>>

\* The stream ends before the head does, or the read fails.
ReadFails ==
  /\ stage = "read"
  /\ \/ taken = sent /\ fin /\ UNCHANGED upset
     \/ "io" \in Faults /\ upset' = "io"
  /\ CloseUnread
  /\ UNCHANGED <<cliVars, seen, readVars, busVars>>

\* Bug: what was consumed is lost on the way to the opaque relay.
BugReadTimeout ==
  /\ stage = "read" /\ taken = sent /\ ~fin
  /\ upset' = "late"
  /\ IF parser = "h2" /\ door = "auto"
     THEN StartResolve("none") /\ buffer' = <<>>
     ELSE CloseUnread /\ UNCHANGED <<busVars, buffer>>
  /\ UNCHANGED <<cliVars, seen, taken, parser, pending, fed, gap>>

\* The deadline.  An h2c client that has sent no request is relayed un-keyed, if
\* there is a default backend (handle_h2c_connection).
ReadTimeout ==
  /\ stage = "read" /\ taken = sent /\ ~fin
  /\ upset' = "late"
  /\ IF parser = "h2" /\ door = "auto"
     THEN StartResolve("none")
     ELSE CloseUnread /\ UNCHANGED busVars
  /\ UNCHANGED <<cliVars, seen, readVars>>

-----------------------------------------------------------------------------
(* resolve_backend.                                                        *)

\* token_alive: any reply in time means alive; no reply in time means not.
token_alive(t) ==
  {IF t \in alive THEN "yes" ELSE "no"} \cup
  (IF "slow" \in Faults THEN {"no"} ELSE {})

\* A probe answers.
Probe(t) ==
  /\ stage = "resolve" /\ probe[t] = "pending"
  /\ probe["host"] # "yes"
  /\ \E r \in token_alive(t) : probe' = [probe EXCEPT ![t] = r]
  /\ UNCHANGED <<cliVars, stage, seen, readVars, dns, alive, upset,
                 endVars>>

\* A query fails while it is awaited: no route is chosen.
ProbeFails ==
  /\ "session" \in Faults
  /\ stage = "resolve" /\ probe["host"] # "yes"
  /\ \E t \in Token : probe[t] = "pending"
  /\ upset' = "bus"
  /\ Close("none")
  /\ UNCHANGED <<cliVars, seen, readVars, busVars>>

\* BackendRoute, once it is settled: the host's backend wins as soon as it is
\* known, the default takes what no host claims.
Routes ==
  {r \in {"host", "bare", "unavailable"} :
     \/ r = "host" /\ probe["host"] = "yes"
     \/ r = "bare" /\ probe["host"] \in {"no", "off"} /\ probe["default"] = "yes"
     \/ r = "unavailable" /\ probe["host"] \in {"no", "off"}
          /\ probe["default"] = "no"}

Resolved ==
  /\ stage = "resolve"
  /\ \E r \in Routes :
       \/ /\ r = "unavailable"
          /\ Close(IF parser \in {"http1", "ws"} THEN "502" ELSE "none")
       \/ /\ r # "unavailable" /\ parser = "ws"
          /\ stage' = "upgrade"
          /\ UNCHANGED endVars
       \/ /\ r # "unavailable" /\ parser # "ws"
          /\ Bridge(r)
  /\ UNCHANGED <<cliVars, seen, readVars, busVars, upset>>

-----------------------------------------------------------------------------

Next ==
  \/ \E n \in 1..MaxSend : Send(n)
  \/ HalfClose
  \/ \E t \in Token : Churn(t) \/ Probe(t)
  \/ ClassifyMore \/ Classified \/ ClassifyTimeout
  \/ PeekHead \/ PeekHeadFails \/ Sniff \/ PeekFails
  \/ HandshakeOk \/ HandshakeFails \/ UpgradeOk \/ UpgradeFails
  \/ \E n \in 1..Chunk : ReadChunk(n)
  \/ ReadFails \/ ReadTimeout
  \/ ProbeFails \/ Resolved

Spec == Init /\ [][Next]_vars

\* The handler's own steps: the task is polled, its deadlines fire, its probes
\* are answered or time out.  Nothing is assumed of the client.
Fairness ==
  /\ WF_vars(ClassifyMore \/ Classified \/ ClassifyTimeout)
  /\ WF_vars(PeekHead \/ PeekHeadFails)
  /\ WF_vars(Sniff \/ PeekFails)
  /\ WF_vars(HandshakeFails \/ UpgradeOk \/ UpgradeFails)
  /\ WF_vars((\E n \in 1..Chunk : ReadChunk(n)) \/ ReadFails \/ ReadTimeout)
  /\ WF_vars((\E t \in Token : Probe(t)) \/ Resolved)

FairSpec == Spec /\ Fairness

-----------------------------------------------------------------------------
(* Properties.                                                             *)

\* What the head readers consumed reaches the backend: a bridged connection's
\* initial buffer holds every unit taken from the socket, once and in order, and
\* the WebSocket acceptor gets the upgrade request untouched (read_until,
\* peek_full_http_head, handle_h2c_connection's fallback).
ReplayExact ==
  stage = "bridged" =>
    IF parser = "ws" THEN taken = cl.head /\ buffer = <<>>
                     ELSE buffer = Units(0, taken)

\* Bytes in which no host is looked for.
Opaque == door \in {"raw", "ws"} \/ cl.proto = "raw"

\* However its bytes are cut into segments, a client that named a host goes to
\* the host's backend if that is known to live and to the default only if it is
\* known not to; only a client that stalls past a deadline is relayed un-keyed
\* (handle_auto_import_connection, resolve_backend).
RoutedAsNamed ==
  stage = "bridged" =>
    \/ route = "host" /\ cl.key = "host" /\ probe["host"] = "yes"
    \/ route = "bare" /\ Opaque
    \/ route = "bare" /\ cl.key = "host" /\ probe["host"] = "no"
         /\ probe["default"] = "yes"
    \/ route = "bare" /\ cl.key = "none" /\ cl.proto = "tls"
         /\ probe["default"] = "yes"
    \/ route = "bare" /\ upset = "late" /\ sent < cl.sig
    \/ route = "bare" /\ upset = "late" /\ parser = "h2"
         /\ probe["default"] = "yes"

\* Behind the auto and the terminating door, plaintext HTTP is written only to a
\* client that speaks HTTP/1.1: never into a TLS stream that is passed through,
\* never to h2, and never to one that is bridged.
AnswersInProtocol ==
  answer # "none" =>
    /\ stage = "closed"
    /\ door \in {"auto", "terminate"} => cl.proto = "http1"

\* A client is closed for a reason: it left, its head is broken, too large or
\* unroutable, nobody serves it, a handshake failed (a WebSocket's at any time),
\* or something is upset.  How its bytes are cut is none; what a parser holds back
\* is one only when the client has closed or the cap is passed (concat_pending,
\* http_head_parser).
ClosedForCause ==
  stage = "closed" /\ upset = "none" =>
    \/ fin /\ (sent < cl.head \/ pending # <<>>)
    \/ cl.malformed \/ cl.head > MaxHeader \/ ~routable
    \/ probe["host"] # "yes" /\ probe["default"] = "no"
    \/ parser = "ws" \/ (parser = "none" /\ door = "terminate")
    \/ TooLarge(buffer) /\ pending # <<>>
    \/ door = "http" /\ parser # cl.proto

\* No client makes the bridge hold more of its head than the cap and one read
\* (read_until).
BoundedBuffer == Len(buffer) <= MaxHeader - 1 + Chunk

\* Every accepted connection is bridged or closed, whatever the client does or
\* fails to do: each wait before the bridge has a deadline (F4).
HeadEnds == <>Ended

=============================================================================
