---------------------------- MODULE RegroupedLoops ----------------------------
(***************************************************************************)
(* Loops that are taken apart and put together: LoopDistribution and       *)
(* LoopFusion of source/Transforms/Loops, which ask the two kinds of       *)
(* dependence graphs.  The bodies hold assignments only, and are copied    *)
(* with their statements in the order of the text.  Both are modelled as   *)
(* called by default, without new arrays to break dependences.             *)
(***************************************************************************)
EXTENDS ParallelLoops

Statements == DOMAIN nest.body
OnlyAssignments == \A s \in Statements : Group(nest, s) = 0

Regrouped(loops) ==
  /\ nest' = [nest EXCEPT !.loops = loops]
  /\ UNCHANGED <<target, graph, arrows, private, reductions>>

-----------------------------------------------------------------------------
(* BuildMatrix: which statements depend on which, and the components in    *)
(* which each depends on all.                                              *)
BuildMatrix(deps) ==
  {<<d.from.s, d.to.s>> : d \in {d \in deps : d.type # "input" /\ d.from.s # d.to.s}}

Closure(M) ==
  LET longer[n \in 1 .. Len(nest.body)] ==
        IF n = 1 THEN M
        ELSE longer[n - 1] \union
             {ends \in Statements \X Statements :
                \E between \in Statements : <<ends[1], between>> \in M /\ <<between, ends[2]>> \in longer[n - 1]}
  IN  longer[Len(nest.body)]

ComponentOf(s, paths) == {t \in Statements : t = s \/ {<<s, t>>, <<t, s>>} \subseteq paths}

\* Mutant: the components keep the order of the text.
ReadyAtOnce(component, left, paths) == TRUE
(* Nothing that is left leads to the component from outside. *)
Ready(component, left, paths) ==
  ~\E s \in left \ component, t \in component : <<s, t>> \in paths

(* FindComponents: the first component that is ready comes next, and the   *)
(* search starts again.                                                    *)
FindComponents(deps) ==
  LET paths == Closure(BuildMatrix(deps))
      components == {ComponentOf(s, paths) : s \in Statements}
      next(placed) ==
        LET left == Statements \ UNION Range(placed)
            ready == {c \in components : c \subseteq left /\ Ready(c, left, paths)}
        IN  CHOOSE c \in ready : \A other \in ready : Min(c) <= Min(other)
      order[n \in 0 .. Cardinality(components)] ==
        IF n = 0 THEN <<>> ELSE Append(order[n - 1], next(order[n - 1]))
  IN  order[Cardinality(components)]

LoopDistribution ==
  /\ phase = "unmarked" /\ target = "sequential"
  /\ nest.from = 0 /\ Len(nest.loops) = 1 /\ OnlyAssignments
  /\ Regrouped(FindComponents(Refined(nest, MontegoGraph(nest))))
  /\ phase' = "marked"

-----------------------------------------------------------------------------
(* LoopFusion: the statements of the second loop are copied behind those   *)
(* of the first.  If a dependence leads back from them it is given up,     *)
(* with the copies in the first loop and the second loop in its place.     *)
Joined == [nest EXCEPT !.loops = <<Statements>>]
LeadsBack ==
  \E d \in LamportGraph(Joined) :
    d.type # "input" /\ d.from.s \in nest.loops[2] /\ d.to.s \in nest.loops[1]

LoopFusion ==
  /\ phase = "unmarked" /\ target = "sequential"
  /\ CountsFromOne /\ Len(nest.loops) = 2 /\ OnlyAssignments
  /\ IF LeadsBack
       THEN Regrouped(<<Statements, nest.loops[2]>>) /\ phase' = "refused"
       ELSE Regrouped(<<Statements>>) /\ phase' = "marked"

Regroup == LoopDistribution \/ LoopFusion
=============================================================================
