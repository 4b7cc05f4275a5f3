------------------------- MODULE TransformedProgramMC -------------------------
(* A program with a loop, which is reshaped, and then a nest of two loops,  *)
(* which is unified.  The loop counts with five bits, so that every bound   *)
(* a loop can have, from the smallest to the largest number of the type, is *)
(* checked, with every size and number of strips up to four.  The nest has  *)
(* extents from -3 to 3 in each dimension, at different origins: empty      *)
(* rows, empty columns, single iterations, reversed loops.                  *)
(*                                                                          *)
(* Neither transformation knows of the other, so not every loop stands      *)
(* before every nest: one of the two is the simplest.                       *)
EXTENDS LoopReshaping

CONSTANT Bounds   \* those of the loops of the nest

ASSUME BoundsAssumption == Bounds \subseteq Int

VARIABLES nest, s, running, i, j, pairs

nestVars == <<nest, s, running, i, j, pairs>>

Unified == INSTANCE NestUnification WITH executed <- pairs

SmallBounds == -1 .. 2
SimpleLoop == loop.by = FullUnrolling /\ loop.n = 0
SimpleNest == nest.n = nest.i0 /\ nest.m = nest.j0 /\ nest.i0 = 0 /\ nest.j0 = 0

ProgramInit == Init /\ Unified!Init /\ (SimpleLoop \/ SimpleNest)
RunLoop == Next /\ UNCHANGED nestVars
RunNest == place = "done" /\ Unified!Next /\ UNCHANGED vars
Program ==
  /\ ProgramInit /\ [][RunLoop \/ RunNest]_<<vars, nestVars>>
  /\ WF_vars(RunLoop) /\ WF_nestVars(RunNest)

-----------------------------------------------------------------------------
(* What the loop and the nest are made of has its type. *)
Typed == TypeOK /\ Unified!TypeOK

(* The unified loop ends, and then the block has run for every pair of the  *)
(* nest once, in its order.                                                 *)
NestCompleted == Unified!Completed
=============================================================================
