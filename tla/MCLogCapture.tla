------------------------------ MODULE MCLogCapture ------------------------------
(* Small instances of LogCapture.                                            *)
EXTENDS LogCapture
================================================================================
