------------------------------- MODULE Names --------------------------------
(***************************************************************************)
(* Host names (dns.rs): how the name a client gives, and the one an        *)
(* operator registers, become a segment of a Zenoh key.                    *)
(*                                                                         *)
(* A host is a sequence of tokens: the punctuation that the code looks at, *)
(* "8" for a digit, "A" and "a" for a letter in both cases, "+" for a      *)
(* character no key may hold (and which Rust's u16 parser takes as a       *)
(* sign), and any other token for a lower-case word.                       *)
(***************************************************************************)
EXTENDS Integers, FiniteSetsExt, SequencesExt

CONSTANT PortDigits  \* digits a port may have before it overflows u16

ASSUME PortAssumption == PortDigits \in Nat \ {0}

count(s, c) == Cardinality({i \in DOMAIN s : s[i] = c})

\* split_once at the first c.
At(s, c)     == Min({i \in DOMAIN s : s[i] = c})
Before(s, c) == SubSeq(s, 1, At(s, c) - 1)
After(s, c)  == SubSeq(s, At(s, c) + 1, Len(s))

to_lowercase(s) == [i \in DOMAIN s |-> IF s[i] = "A" THEN "a" ELSE s[i]]

\* str::parse::<u16>: digits that fit, with or without a plus sign.
parses_u16(s) ==
  LET d == IF s # <<>> /\ s[1] = "+" THEN Tail(s) ELSE s
  IN  Len(d) \in 1..PortDigits /\ \A i \in DOMAIN d : d[i] = "8"

\* Nothing, or a colon and a port.
PortTail(s) == s = <<>> \/ (s[1] = ":" /\ parses_u16(Tail(s)))

\* Bug: whatever follows the closing bracket is dropped.
BugBracketed(h) ==
  /\ h # <<>> /\ h[1] = "["
  /\ Contains(h, "]")
  /\ Contains(Before(h, "]"), ":")

\* [v6] or [v6]:port, well-formed.
Bracketed(h) ==
  /\ h # <<>> /\ h[1] = "["
  /\ Contains(h, "]")
  /\ Contains(Before(h, "]"), ":")
  /\ PortTail(After(h, "]"))

normalize_dns(host) ==
  LET h == to_lowercase(host)
  IN  CASE Bracketed(h) -> Tail(Before(h, "]"))
        [] ~Bracketed(h) /\ count(h, ":") = 1 /\ parses_u16(After(h, ":"))
             -> Before(h, ":")
        [] OTHER -> h

\* Bug: a port behind a bracket is overlooked.
Bughas_explicit_port(h) == count(h, ":") = 1 /\ parses_u16(After(h, ":"))

has_explicit_port(h) ==
  IF h # <<>> /\ h[1] = "["
  THEN Contains(h, "]") /\ After(h, "]") # <<>> /\ PortTail(After(h, "]"))
  ELSE count(h, ":") = 1 /\ parses_u16(After(h, ":"))

is_valid_key_char(c) == c \notin {"[", "]", "+"}

\* A host that cannot be a key.
Unroutable == <<>>

\* The key of the name a client gives.
routing_key(host) ==
  LET dns == normalize_dns(host)
  IN  IF /\ count(dns, ":") # 1
         /\ \A i \in DOMAIN dns : is_valid_key_char(dns[i])
      THEN dns ELSE Unroutable

\* The key of the name an operator registers.
spec_host_key(host) ==
  IF has_explicit_port(host) THEN Unroutable ELSE routing_key(host)

-----------------------------------------------------------------------------
(* What dns.rs documents, as a grammar: a name or a bare IPv6 literal, in  *)
(* brackets or not, and a port where there can be one.                     *)

IsName(k) == k # <<>> /\ \A i \in DOMAIN k : k[i] \notin {"[", "]", "+", ":"}
IsV6(k)   == count(k, ":") >= 2 /\ \A i \in DOMAIN k : is_valid_key_char(k[i])

\* h without the port it may end in.
Portless(h) ==
  {SubSeq(h, 1, i) : i \in {j \in 0..Len(h) : PortTail(SubSeq(h, j + 1, Len(h)))}}

RefKeys(host) ==
  LET h    == to_lowercase(host)
      bare == {SubSeq(k, 2, Len(k) - 1) :
                 k \in {p \in Portless(h) : p # <<>> /\ p[1] = "[" /\ Last(p) = "]"}}
  IN  {k \in Portless(h) : IsName(k)} \cup {k \in {h} \cup bare : IsV6(k)}

=============================================================================
