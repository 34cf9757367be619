--------------------------- MODULE MCDetachedRuntime ---------------------------
(* Small instances of DetachedRuntime.                                       *)
EXTENDS DetachedRuntime

CONSTANTS c1, c2
================================================================================
