--------------------------- MODULE LoopReshapingMC ---------------------------
(* Unrolling alone, with a counter of five bits and factors up to four.    *)
EXTENDS LoopReshaping
=============================================================================
