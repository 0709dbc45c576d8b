------------------------------ MODULE MCSpecs -------------------------------
(* Small instances of Specs for TLC.                                       *)
EXTENDS Specs

\* Sequences over S of length n at most.
UpTo(S, n) == UNION {[1..m -> S] : m \in 0..n}

Punctuated == {"a", "A", "8", ":", "[", "]", "+"}

\* Option lists on their own; one backend with every host of up to five tokens,
\* and the longest well-formed and nearly well-formed ones; two backends of one
\* service or two, with every host of up to three tokens and the words of the
\* key layout.
MCListens == {o \in UpTo(Option, 4) :
                Cardinality({i \in DOMAIN o : o[i] = "bad"}) <= 1}

Bracket(p) == {<<"[", ":", ":", "a", "]">> \o s : s \in UpTo({":", "8", "+", "a"}, p)}
Single == UpTo(Punctuated, 5) \cup Bracket(4)
Paired == UpTo({"a", "A", "8", ":"}, 3) \cup Bracket(1)
            \cup {<<":", ":", "a">>, NoHost, <<"clients">>, <<"exporter-claim">>,
                  <<"tx">>, <<"available">>}

Backend(S, H) == [service : S, sound : {TRUE}, host : H]

MCCommandLines ==
  [listen : {NoListen} \cup MCListens, backends : {<<>>}, low : {{}}, built : BOOLEAN]
    \cup [listen : {<<"raw">>},
          backends : {<<b>> : b \in Backend({"s"}, Single)}, low : {{}}, built : {TRUE}]
    \cup [listen : {NoListen}, low : {{}}, built : {TRUE},
          backends : {<<b, c>> : b \in Backend({"s"}, Paired),
                                c \in Backend({"s", "clients"}, Paired)}]
    \cup [listen : {<<>>}, low : {{"buffer"}, {"response"}}, built : {TRUE},
          backends : {<<>>, <<[service |-> "*", sound |-> FALSE, host |-> NoHost]>>}]
=============================================================================
