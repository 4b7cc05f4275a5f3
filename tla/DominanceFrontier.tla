-------------------------- MODULE DominanceFrontier --------------------------
(***************************************************************************)
(* DominanceFrontier: which blocks of a control flow graph dominate which, *)
(* the tree of immediate dominators and the frontiers                      *)
(* (source/Analysis/DominanceFrontierGraph/DominanceFrontierGraph.cpp).    *)
(*                                                                         *)
(* The dominators are found by sweeps over the list of blocks: every block *)
(* but the first begins with all blocks as its dominators, and a sweep     *)
(* that removes nothing is the last.                                       *)
(***************************************************************************)
EXTENDS Naturals, Sequences, FiniteSets

VARIABLES
  blocks,   \* the blocks of the graph in the order of the list
  succ,     \* the successors of each block; a null pointer is none
  doms,     \* the dominators found for each block
  cursor,   \* the block of the list that the sweep has reached
  changed   \* whether the sweep has changed something

sweep == <<doms, cursor, changed>>

Nodes == {blocks[i] : i \in DOMAIN blocks}
Successors(b) == {succ[b][i] : i \in DOMAIN succ[b]} \intersect Nodes
Preds(b) == {p \in Nodes : b \in Successors(p)}

BuildDoms ==
  /\ doms' = [b \in Nodes |-> IF b = blocks[1] THEN {b} ELSE Nodes]
  /\ cursor' = 2
  /\ changed' = FALSE

(* What the predecessors of a block have in common, and the block itself. *)
NewList(b) == {d \in Nodes : \A p \in Preds(b) : d \in doms[p]} \union {b}

ChangedLast(b) == NewList(b) # doms[b]
Changed(b) == changed \/ NewList(b) # doms[b]

Sweep ==
  /\ cursor <= Len(blocks)
  /\ LET b == blocks[cursor] IN
       /\ doms' = [doms EXCEPT ![b] = NewList(b)]
       /\ changed' = Changed(b)
  /\ cursor' = cursor + 1
  /\ UNCHANGED <<blocks, succ>>

NeverUnchanged ==
  /\ cursor > Len(blocks) /\ changed
  /\ cursor' = 2
  /\ UNCHANGED <<blocks, succ, doms, changed>>
SweepAgain ==
  /\ cursor > Len(blocks) /\ changed
  /\ cursor' = 2
  /\ changed' = FALSE
  /\ UNCHANGED <<blocks, succ, doms>>

Settled == cursor > Len(blocks) /\ ~changed

-----------------------------------------------------------------------------
(* buildIncDom and buildReverseDom: the immediate dominator of a block has *)
(* one dominator less than the block, and the first block has none.        *)
IsIdom(d, b) == d \in doms[b] /\ Cardinality(doms[b]) = Cardinality(doms[d]) + 1
Idoms(b) == {d \in Nodes : IsIdom(d, b)}
Children(d) == {b \in Nodes : IsIdom(d, b)}

(* buildDomf: from each predecessor of a block where ways meet, up the     *)
(* tree to the immediate dominator of that block.                          *)
OneStep(b) == Preds(b) \ Idoms(b)
Climb(b) ==
  LET climbed[runner \in Nodes] ==
        IF runner \in Idoms(b) THEN {}
        ELSE {runner} \union UNION {climbed[d] : d \in Idoms(runner)}
  IN  UNION {climbed[p] : p \in Preds(b)}

Frontier(d) == {b \in Nodes : Cardinality(Preds(b)) >= 2 /\ d \in Climb(b)}

-----------------------------------------------------------------------------
(* What the sweeps promise.  A block dominates another if every way from   *)
(* the first block to the other passes it: some set of blocks holds the    *)
(* first, is closed under the steps that avoid the dominator, and misses   *)
(* the other.                                                              *)
ClosedAvoiding(S, d) == \A x \in S : Successors(x) \ {d} \subseteq S
Dominates(d, b) ==
  d = b \/ \E S \in SUBSET (Nodes \ {d, b}) :
             (d # blocks[1] => blocks[1] \in S) /\ ClosedAvoiding(S, d)

Dominators(b) == {d \in Nodes : Dominates(d, b)}
=============================================================================
