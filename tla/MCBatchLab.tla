------------------------------ MODULE MCBatchLab ------------------------------
(***************************************************************************)
(* Two batches under one watchdog: the process of one prints a line, the     *)
(* other is silent.                                                        *)
(***************************************************************************)
EXTENDS BatchLab, TLC

CONSTANTS b1, b2

MCLines == b1 :> 1 @@ b2 :> 0
=============================================================================
