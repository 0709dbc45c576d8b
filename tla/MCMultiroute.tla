---------------------------- MODULE MCMultiroute ----------------------------
(***************************************************************************)
(* Conversations for Multiroute: what a client sends, in tokens of its     *)
(* requests, and how the backends answer, in samples.                      *)
(***************************************************************************)
EXTENDS Multiroute

Tok(r, kind, last) == [req |-> r, kind |-> kind, last |-> last]
Answered(kinds, framing, close) ==
  [kinds |-> kinds, framing |-> framing, close |-> close]

\* Two pipelined posts; the first is answered in chunks after an interim.
Posts ==
  [client |-> <<Tok(1, "head", FALSE), Tok(1, "body", TRUE),
                Tok(2, "head", FALSE), Tok(2, "body", TRUE)>>,
   resp |-> <<Answered(<<"interim", "head", "body">>, "chunked", FALSE),
              Answered(<<"head", "body">>, "length", FALSE)>>]

\* The first response is framed by the close, the second request pipelined.
UntilClose ==
  [client |-> <<Tok(1, "head", TRUE), Tok(2, "head", TRUE)>>,
   resp |-> <<Answered(<<"head", "body">>, "close", FALSE),
              Answered(<<"head">>, "length", TRUE)>>]

\* An upgrade by an eager client, and a tunnel both ways.
Upgrade ==
  [client |-> <<Tok(1, "head", TRUE), Tok(1, "raw", TRUE), Tok(1, "raw", TRUE)>>,
   resp |-> <<Answered(<<"head", "raw", "raw">>, "switch", FALSE)>>]

\* A request followed by malformed framing, with a response above the cap.
Malformed ==
  [client |-> <<Tok(1, "head", FALSE), Tok(1, "body", TRUE), Tok(2, "bad", FALSE)>>,
   resp |-> <<Answered(<<"head", "body", "body", "body">>, "chunked", FALSE)>>]

\* An h2 preface.
Preface ==
  [client |-> <<Tok(1, "h2", FALSE), Tok(1, "raw", FALSE)>>,
   resp |-> <<Answered(<<"head">>, "length", FALSE)>>]

Conversations == {Posts, UntilClose, Upgrade, Malformed, Preface}
=============================================================================
