------------------------------ MODULE MCDexRouter ------------------------------
(* Small instances of DexRouter.                                             *)
EXTENDS DexRouter

CONSTANT u1
================================================================================
