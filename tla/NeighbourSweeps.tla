--------------------------- MODULE NeighbourSweeps --------------------------
(***************************************************************************)
(* What the exchange between the sweeps of a distributed loop promises,    *)
(* whatever the messages: a process may start a sweep only when all those  *)
(* it takes elements from have finished as many sweeps as it has.  Nobody  *)
(* waits for the others, so processes far apart may be sweeps apart.       *)
(***************************************************************************)
EXTENDS Naturals

CONSTANTS Ranks, Sweeps

VARIABLES done,     \* how many sweeps each process finished
          sources   \* those whose elements each process reads

vars == <<done, sources>>

Init ==
  /\ done = [p \in Ranks |-> 0]
  /\ sources \in [Ranks -> SUBSET Ranks]

Sweep(p) ==
  /\ done[p] < Sweeps
  /\ \A q \in sources[p] : done[q] >= done[p]
  /\ done' = [done EXCEPT ![p] = @ + 1]
  /\ UNCHANGED sources

Next == \E p \in Ranks : Sweep(p)

Spec == Init /\ [][Next]_vars
=============================================================================
