----------------------------- MODULE BytePipe ------------------------------
(***************************************************************************)
(* What the bridge promises of one direction of one connection, to those   *)
(* who see only its two ends: chunks go in at one end and come out at the  *)
(* other.  There is no Zenoh, no channel and no task in it.                *)
(*                                                                         *)
(* The n-th chunk is n, and the half-close takes a number too.  The        *)
(* promise of order holds always, the promise of completeness until the    *)
(* pipe breaks.                                                            *)
(***************************************************************************)
EXTENDS Integers, Sequences

CONSTANT Strict  \* FALSE: a pipe that is allowed to lose from the start

VARIABLES
  sent,    \* Nat: what went in, the half-close included
  eof,     \* Nat: the number of the half-close, 0 before it
  got,     \* Seq(Nat): what came out
  view,    \* open, fin (half-closed), shut or dropped (given up)
  broken,  \* the pipe no longer promises to be whole
  report   \* what the receiving end says of it: none, Completed, Reset, Failed

pipeVars == <<sent, eof, got, view, broken, report>>

Init ==
  /\ sent = 0 /\ eof = 0 /\ got = <<>>
  /\ view = "open"
  /\ broken = ~Strict
  /\ report = "none"

\* A pipe may break at any time and is never mended.
MayBreak == broken => broken'

Send ==
  /\ eof = 0
  /\ sent' = sent + 1
  /\ MayBreak /\ UNCHANGED <<eof, got, view, report>>

HalfClose ==
  /\ eof = 0
  /\ sent' = sent + 1
  /\ eof' = sent + 1
  /\ MayBreak /\ UNCHANGED <<got, view, report>>

\* A later chunk; the next one, unless the pipe is broken.
Receive ==
  /\ view = "open"
  /\ \E n \in 1..sent :
       /\ n # eof
       /\ \A i \in 1..Len(got) : got[i] < n
       /\ ~broken => n = Len(got) + 1
       /\ got' = Append(got, n)
  /\ UNCHANGED <<sent, eof, view, broken, report>>

\* The half-close comes out, never without one having gone in.
Finish ==
  /\ view = "open" /\ eof # 0
  /\ ~broken => eof = Len(got) + 1
  /\ view' = "fin"
  /\ UNCHANGED <<sent, eof, got, broken, report>>

Abort ==
  /\ view = "open"
  /\ view' \in {"shut", "dropped"}
  /\ MayBreak /\ UNCHANGED <<sent, eof, got, report>>

Break == MayBreak /\ UNCHANGED <<sent, eof, got, view, report>>

Report ==
  /\ report = "none"
  /\ report' \in {"Completed", "Reset", "Failed"}
  /\ report' = "Completed" => view = "fin"
  /\ MayBreak /\ UNCHANGED <<sent, eof, got, view>>

Next == Send \/ HalfClose \/ Receive \/ Finish \/ Abort \/ Break \/ Report

Spec == Init /\ [][Next]_pipeVars

=============================================================================
