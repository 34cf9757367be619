------------------------------- MODULE MCWorkload -------------------------------
(* Two nodes, two wallets, every scenario and both resolutions of receipts.      *)
EXTENDS Workload

MCShuffle == <<2, 3, 1>>
================================================================================
