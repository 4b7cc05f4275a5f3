---------------------------- MODULE OriginalLoop ----------------------------
(***************************************************************************)
(* What a counted loop of the input program does: the body runs for        *)
(* first, first + step, ... as long as the value is below bound, in that   *)
(* order, and then the loop ends.  Whatever a loop transformation makes of *)
(* the loop has to do the same.                                            *)
(***************************************************************************)
EXTENDS Integers, Sequences

VARIABLES
  first, bound, step,  \* the header of the loop, fixed from the start
  executed,            \* the counter values the body has run for
  finished

vars == <<first, bound, step, executed, finished>>

Current == first + step * Len(executed)

Init ==
  /\ first \in Int /\ bound \in Int /\ step \in Nat \ {0}
  /\ executed = <<>>
  /\ finished = FALSE

Iterate ==
  /\ ~ finished
  /\ Current < bound
  /\ executed' = Append(executed, Current)
  /\ UNCHANGED <<first, bound, step, finished>>

Finish ==
  /\ ~ finished
  /\ Current >= bound
  /\ finished' = TRUE
  /\ UNCHANGED <<first, bound, step, executed>>

Next == Iterate \/ Finish

Runs == Init /\ [][Next]_vars

Spec == Runs /\ WF_vars(Next)
=============================================================================
