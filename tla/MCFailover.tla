----------------------------- MODULE MCFailover -----------------------------
(* Small instances of Failover for TLC.                                    *)
EXTENDS Failover

Two == 1..2
=============================================================================
