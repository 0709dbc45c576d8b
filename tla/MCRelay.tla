------------------------------ MODULE MCRelay ------------------------------
(* Small instances of Relay for TLC.                                       *)
EXTENDS Relay

\* Chunks per direction.
Read21 == [d \in Dir |-> IF d = "up" THEN 2 ELSE 1]
Read11 == [d \in Dir |-> 1]
=============================================================================
