----------------------------- MODULE MCElection -----------------------------
(* Small instances of Election for TLC.                                    *)
EXTENDS Election

Two == 1..2
=============================================================================
