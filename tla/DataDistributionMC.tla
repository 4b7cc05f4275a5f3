------------------------- MODULE DataDistributionMC -------------------------
(***************************************************************************)
(* Distributions for the model checker.                                    *)
(***************************************************************************)
EXTENDS DataDistribution

Line(P, dims, d, s, refs, gen, source, sweeps) ==
  [P |-> P, dims |-> <<dims>>, d |-> <<d>>, s |-> <<s>>, refs |-> {<<r>> : r \in refs},
   gen |-> <<gen>>, leading |-> 1, source |-> source, sweeps |-> sweeps]
Plane(P, dims, d, s, refs, leading, source, sweeps) ==
  [P |-> P, dims |-> dims, d |-> d, s |-> s, refs |-> refs, gen |-> <<0, 0>>,
   leading |-> leading, source |-> source, sweeps |-> sweeps]

(* One block for every process, the edges read from one side or both, the  *)
(* element written at the point or beside it; rows of the plane with       *)
(* diagonal references, two blocks for a process without edges, and a      *)
(* process that is alone.                                                  *)
OneBlockEach ==
  {Line(3, 6, 2, 1, {-1, 0, 1}, 0, 0, 1),
   Line(3, 6, 2, 2, {-1, 0}, 0, 4, 3),
   Line(2, 4, 2, 1, {-1, 0, 1}, 0, 1, 3),
   Line(3, 3, 1, 1, {0, 1}, 1, 0, 3),
   Plane(2, <<2, 2>>, <<1, 2>>, <<1, 2>>, {<<0, 0>>, <<1, 1>>, <<-1, 0>>}, 2, 0, 2),
   Plane(2, <<2, 2>>, <<1, 1>>, <<1, 1>>, {<<0, 0>>}, 1, 0, 2),
   Line(1, 3, 3, 1, {0, 1}, 0, 0, 3),
   Plane(1, <<2, 3>>, <<2, 3>>, <<1, 1>>, {<<0, 0>>, <<1, 1>>}, 1, 0, 2)}

(* Two cells: every process has two blocks, one after the other. *)
TwoCells == {Line(2, 4, 1, 1, {0}, 0, 0, 1)}
=============================================================================
