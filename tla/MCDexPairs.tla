------------------------------- MODULE MCDexPairs -------------------------------
(* Small instances of DexPairs.                                              *)
EXTENDS DexPairs

CONSTANT u1
================================================================================
