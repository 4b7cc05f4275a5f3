------------------------- MODULE AnalysisServicesMC -------------------------
(* Two programs, so that one can be cloned from the other and outlive it,  *)
(* cells for two pairs of states and one container to spare for the        *)
(* moment in which a new container is built before the old one is freed.   *)
EXTENDS AnalysisServices, TLC

CONSTANTS p1, p2, s1, s2, s3, s4, c1, c2, c3

Symmetric == Permutations({p1, p2}) \cup Permutations({s1, s2, s3, s4})
             \cup Permutations({c1, c2, c3})
=============================================================================
