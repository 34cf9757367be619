--------------------------- MODULE MCShieldedRelayer ---------------------------
(* Small instances of ShieldedRelayer for TLC.                               *)
EXTENDS ShieldedRelayer
================================================================================
