------------------------------- MODULE Specs --------------------------------
(***************************************************************************)
(* What a process is told to do: a --listen and some --backends (spec.rs), *)
(* checked by Args::validate, the door the listener opens and the Zenoh    *)
(* keys each backend's scope uses.                                         *)
(***************************************************************************)
EXTENDS Names

CONSTANTS
  CommandLines,  \* see CommandLine
  Clients,       \* client ids
  Claims         \* exporter claims

\* An option of --listen: what it sets, or bad: empty, without a value, unknown,
\* or set to something it does not take. A service name or an address that does
\* not parse, which come before the options, are bad too.
Option == {"auto", "raw", "connection", "request", "cert", "key", "bad"}

\* The option's name.
Name(o) ==
  CASE o \in {"auto", "raw"}           -> "proto"
    [] o \in {"connection", "request"} -> "route"
    [] OTHER                           -> o

\* No --listen, no @host.
NoListen == <<"none">>
NoHost   == <<"none">>

\* Flags with a floor, and the logging options.
Tunable == {"buffer", "timeout", "capacity", "header", "response", "logging"}

\* sound: the service name and the target of a --backend parse; low: the
\* tunables below their floor; built: the build has the tls-termination feature.
\* In a host * is one of the characters "+" stands for.
CommandLine ==
  [listen   : {NoListen} \cup Seq(Option),
   backends : Seq([service : STRING, sound : BOOLEAN, host : Seq(STRING \ {"*"})]),
   low      : SUBSET Tunable,
   built    : BOOLEAN]

\* A service name is a segment of a key, which holds no wildcard.
ASSUME SpecsAssumption ==
  /\ CommandLines \subseteq CommandLine
  /\ \A c \in CommandLines : \A i \in DOMAIN c.backends :
       c.backends[i].sound => c.backends[i].service # "*"

VARIABLES
  listen,    \* the options given, or NoListen
  backends,  \* the backends given
  low,       \* the tunables given too low
  built,     \* TLS termination is built in
  opts,      \* set by name: [{"proto", "route", "cert", "key"} -> option or none]
  at,        \* Nat: options, then backends, looked at so far
  scopes,    \* the scopes of those backends
  door,      \* the mode run_listener starts, if there is a listener
  verdict    \* listen, backends, scopes: being read; ok, error

given == <<listen, backends, low, built>>
vars  == <<given, opts, at, scopes, door, verdict>>

Setting == {"proto", "route", "cert", "key"}

TypeOK ==
  /\ listen \in {NoListen} \cup Seq(Option)
  /\ low \subseteq Tunable /\ built \in BOOLEAN
  /\ opts \in [Setting -> Option \cup {"none"}]
  /\ at \in 0..Len(IF verdict \in {"listen", "error"} /\ scopes = {} THEN listen
                    ELSE backends)
  /\ \A s \in scopes : s.host = NoHost \/ Len(s.host) > 0
  /\ door \in {"none", "raw", "auto", "multiroute", "terminate", "unsupported"}
  /\ verdict \in {"listen", "backends", "scopes", "ok", "error"}

Init ==
  /\ \E c \in CommandLines :
       /\ listen = c.listen /\ backends = c.backends
       /\ low = c.low /\ built = c.built
  /\ opts = [n \in Setting |-> "none"]
  /\ at = 0
  /\ scopes = {}
  /\ door = "none"
  /\ verdict = IF listen = NoListen THEN "backends" ELSE "listen"

Refuse ==
  /\ verdict' = "error"
  /\ UNCHANGED <<given, opts, at, scopes, door>>

-----------------------------------------------------------------------------
(* ListenSpec::from_str.                                                   *)

Reading == verdict = "listen" /\ at < Len(listen)

\* Bug: a repeated option overwrites the first.
BugTaken(o) == FALSE

\* An option may be given once.
Taken(o) == o # "bad" /\ opts[Name(o)] # "none"

ReadOption ==
  /\ Reading
  /\ LET o == listen[at + 1]
     IN  /\ o # "bad" /\ ~Taken(o)
         /\ opts' = [opts EXCEPT ![Name(o)] = o]
  /\ at' = at + 1
  /\ UNCHANGED <<given, scopes, door, verdict>>

OptionError ==
  /\ Reading
  /\ listen[at + 1] = "bad" \/ Taken(listen[at + 1])
  /\ Refuse

proto == IF opts["proto"] = "none" THEN "auto" ELSE opts["proto"]
route == IF opts["route"] = "none" THEN "connection" ELSE opts["route"]
tls   == IF opts["cert"] = "none" THEN "passthrough" ELSE "terminate"

\* Half a key pair, and the combinations that contradict themselves.
Contradiction ==
  \/ (opts["cert"] = "none") # (opts["key"] = "none")
  \/ proto = "raw" /\ route = "request"
  \/ proto = "raw" /\ tls = "terminate"
  \/ route = "request" /\ tls = "terminate"

ListenRead ==
  /\ verdict = "listen" /\ at = Len(listen) /\ ~Contradiction
  /\ verdict' = "backends"
  /\ at' = 0
  /\ UNCHANGED <<given, opts, scopes, door>>

ListenError ==
  /\ verdict = "listen" /\ at = Len(listen) /\ Contradiction
  /\ Refuse

-----------------------------------------------------------------------------
(* BackendSpec::from_str, the rest of Args::validate, and run_listener.    *)

\* The scope a backend registers.
Scope(b) ==
  [service |-> b.service,
   host |-> IF b.host = NoHost THEN NoHost ELSE spec_host_key(b.host)]

Parses(b) == b.sound /\ Scope(b).host # Unroutable

BackendsRead ==
  /\ verdict = "backends" /\ \A i \in DOMAIN backends : Parses(backends[i])
  /\ verdict' = "scopes"
  /\ UNCHANGED <<given, opts, at, scopes, door>>

BackendError ==
  /\ verdict = "backends" /\ \E i \in DOMAIN backends : ~Parses(backends[i])
  /\ Refuse

\* Bug: the scope is compared as it was written.
BugSeen(b) == [service |-> b.service, host |-> b.host] \in scopes

\* Two backends of one process may not share a scope.
Seen(b) == Scope(b) \in scopes

ReadScope ==
  /\ verdict = "scopes" /\ at < Len(backends) /\ ~Seen(backends[at + 1])
  /\ scopes' = scopes \cup {Scope(backends[at + 1])}
  /\ at' = at + 1
  /\ UNCHANGED <<given, opts, door, verdict>>

ScopeError ==
  /\ verdict = "scopes" /\ at < Len(backends) /\ Seen(backends[at + 1])
  /\ Refuse

\* Nothing to do, a door this build does not have, a tunable below its floor.
Unusable ==
  \/ listen = NoListen /\ backends = <<>>
  \/ tls = "terminate" /\ ~built
  \/ low # {}

\* run_listener_with_readiness.
Dispatched ==
  CASE <<proto, tls, route>> = <<"raw", "passthrough", "connection">>  -> "raw"
    [] <<proto, tls, route>> = <<"auto", "passthrough", "connection">> -> "auto"
    [] <<proto, tls, route>> = <<"auto", "passthrough", "request">>    -> "multiroute"
    [] <<proto, tls, route, built>> = <<"auto", "terminate", "connection", TRUE>>
         -> "terminate"
    [] OTHER -> "unsupported"

Accepted ==
  /\ verdict = "scopes" /\ at = Len(backends) /\ ~Unusable
  /\ verdict' = "ok"
  /\ door' = IF listen = NoListen THEN "none" ELSE Dispatched
  /\ UNCHANGED <<given, opts, at, scopes>>

ValidateError ==
  /\ verdict = "scopes" /\ at = Len(backends) /\ Unusable
  /\ Refuse

Next ==
  \/ ReadOption \/ OptionError \/ ListenRead \/ ListenError
  \/ BackendsRead \/ BackendError \/ ReadScope \/ ScopeError
  \/ Accepted \/ ValidateError

Spec == Init /\ [][Next]_vars

-----------------------------------------------------------------------------
(* The keys of a scope.                                                    *)

\* Bug: the host's segment is left out.
Bugscoped_key(s, tail) == <<<<s.service>>>> \o tail

\* Keys are sequences of segments, segments sequences of tokens.
scoped_key(s, tail) ==
  (IF s.host = NoHost THEN <<<<s.service>>>> ELSE <<<<s.service>>, s.host>>) \o tail

\* The liveliness tokens of the scope, and the patterns its exporter watches.
Tokens(s) ==
  {scoped_key(s, <<<<"available">>>>)}
    \cup {scoped_key(s, <<<<"clients">>, <<c>>>>) : c \in Clients}
    \cup {scoped_key(s, <<<<"exporter-claim">>, <<c>>>>) : c \in Claims}
Patterns(s) ==
  [clients |-> scoped_key(s, <<<<"clients">>, <<"*">>>>),
   claims  |-> scoped_key(s, <<<<"exporter-claim">>, <<"*">>>>)]

\* Zenoh (external): a * matches one segment.
Matches(p, k) ==
  /\ Len(p) = Len(k)
  /\ \A i \in DOMAIN p : p[i] = <<"*">> \/ p[i] = k[i]

-----------------------------------------------------------------------------
(* Properties.                                                             *)

Hosts == {backends[i].host : i \in DOMAIN backends} \ {NoHost}

\* normalize_dns and routing_key, with their splits and counts, compute the
\* grammar that dns.rs documents: one key for a well-formed host, however it is
\* written, and none for any other.
KeyMatchesReference ==
  \A h \in Hosts : {routing_key(h)} \ {Unroutable} = RefKeys(h)

\* Registration and matching agree: every key a client's name can turn into is one
\* an operator can register as it stands, and what an operator writes is
\* registered as written, but for case and brackets, so two hosts that differ in
\* a port never become one backend behind their back (dns.rs: "the two must stay
\* identical or registration and matching diverge").
RegistrationMatches ==
  \A h \in Hosts :
    LET r == routing_key(h)
        k == spec_host_key(h)
    IN  /\ r # Unroutable => spec_host_key(r) = r
        /\ k # Unroutable => to_lowercase(h) \in {k, <<"[">> \o k \o <<"]">>}

Written(i) == [service |-> backends[i].service, host |-> backends[i].host]
SameHost(g, h) ==
  g = h \/ (g # NoHost /\ h # NoHost /\ RefKeys(g) \cap RefKeys(h) # {})

\* No two backends of a process that starts serve the same host of the same
\* service, however the host is spelled: the election cannot tell them apart
\* (Args::validate).
OneBackendPerScope ==
  verdict = "ok" =>
    \A i, j \in DOMAIN backends :
      i # j /\ Written(i).service = Written(j).service
        => ~SameHost(Written(i).host, Written(j).host)

\* The options that are given, in any order, decide whether a listener starts
\* and which door it opens (docs/cli.md: "order-free; duplicates and unknown
\* keys are errors"), so run_listener's last arm is never reached (import/mod.rs:
\* "unreachable by the ListenSpec validation matrix").
Sound(o) ==
  /\ o # NoListen \/ backends # <<>>
  /\ ~Contains(o, "bad")
  /\ \A i, j \in DOMAIN o : i # j => Name(o[i]) # Name(o[j])
  /\ Contains(o, "cert") <=> Contains(o, "key")
  /\ Cardinality({x \in {"raw", "request", "cert"} : Contains(o, x)}) <= 1
  /\ Contains(o, "cert") => built
Opened(o) ==
  CASE o = NoListen            -> "none"
    [] Contains(o, "raw")      -> "raw"
    [] Contains(o, "request")  -> "multiroute"
    [] Contains(o, "cert")     -> "terminate"
    [] OTHER                   -> "auto"

DoorAsWritten ==
  /\ verdict = "ok" => Sound(listen) /\ door = Opened(listen)
  /\ verdict = "error" /\ backends = <<>> /\ low = {} => ~Sound(listen)

\* Hosts whose availability token is a client or a claim to the service's default
\* exporter: nothing keeps an operator from registering them.
Reserved == {<<"clients">>, <<"exporter-claim">>}

\* What an exporter takes for a client or a claim of its scope is one: the tokens
\* of two scopes never meet a pattern of the other, unless a host is named after
\* a segment of the key layout.
KeysApart ==
  \A s, t \in scopes :
    LET meets(p) == {k \in Tokens(t) : Matches(p, k)}
    IN  t.host \notin Reserved =>
          /\ meets(Patterns(s).clients) =
               (IF s = t THEN {scoped_key(s, <<<<"clients">>, <<c>>>>) : c \in Clients}
                ELSE {})
          /\ meets(Patterns(s).claims) =
               (IF s = t THEN {scoped_key(s, <<<<"exporter-claim">>, <<c>>>>) : c \in Claims}
                ELSE {})

=============================================================================
