---------------------------- MODULE ParallelLoops ----------------------------
(***************************************************************************)
(* Which loops may run in parallel: ParallelLoopsMarker and the analysers  *)
(* of source/Analysis/ParallelLoops.  A marker builds a dependence graph;  *)
(* an analyser takes the dependences the loop carries, removes those of    *)
(* scalars that can be private to an iteration, for processors of their    *)
(* own (MISM) also those of reductions, and refuses the loop if one is     *)
(* left that the machine cannot keep.                                      *)
(*                                                                         *)
(* The loop is basic and has constant bounds, no calls and no jumps, its   *)
(* scalars are declared outside of it; counters of inner loops are left    *)
(* out: they are private, as their headers assign them first.              *)
(***************************************************************************)
EXTENDS DependenceGraph

CONSTANTS
  Nests,     \* the loops that are marked
  Kinds,     \* the graphs the marker may be asked to build
  Sequences, \* the loops, one or two with the same header, that are distributed or fused
  Targets    \* the machines: "MISM" with processors, "SISM" with lanes, or a "sequential" one

ASSUME NestsAssumption ==
  /\ \A p \in Nests \union Sequences : IsNest(p)
  /\ \A p \in Nests : p.loops = <<DOMAIN p.body>>

ASSUME KindsAssumption == Kinds \subseteq {"Lamport", "refined Lamport", "Montego", "refined Montego"}

VARIABLES
  nest,      \* the loop
  target,    \* the machine
  phase,     \* how far the analysis, and then the loop, has come
  graph,     \* the dependence graph; freed when the loop is marked
  arrows,    \* the dependences carried by the loop that are left
  private,   \* PrivatizationCondition
  reductions \* ReductionCondition: the assignments that accumulate

markerVars == <<nest, target, phase, graph, arrows, private, reductions>>

Lamport == {"Lamport", "refined Lamport"}
Build(kind) ==
  CASE kind = "Lamport" -> LamportGraph(nest)
    [] kind = "refined Lamport" -> Refined(nest, LamportGraph(nest))
    [] kind = "Montego" -> MontegoGraph(nest)
    [] kind = "refined Montego" -> Refined(nest, MontegoGraph(nest))

(* Two kinds of loops the analysis is wrong about: Banerjee's test takes   *)
(* the counters to start from 1, and on lanes a dependence of a statement  *)
(* with itself is taken to be carried by the innermost loop.               *)
CountsFromOne == nest.from = 1
ReusedInside ==
  \E s \in DOMAIN nest.body :
    InLoop(nest, s) /\ \E k \in DOMAIN nest.body[s].uses :
      ~IsScalar(nest.body[s].def) /\ nest.body[s].uses[k].var = nest.body[s].def.var

Unmarked ==
  /\ target \in Targets
  /\ nest \in (IF target = "sequential" THEN Sequences ELSE Nests)
  /\ target = "SISM" => ~ReusedInside
  /\ phase = "unmarked"
  /\ graph = {} /\ arrows = {} /\ private = {} /\ reductions = {}

markLoops(kind) ==
  /\ phase = "unmarked" /\ target # "sequential"
  /\ kind \in Lamport => CountsFromOne
  /\ phase' = "graph"
  /\ graph' = Build(kind)
  /\ arrows' = getSubGraphByCarrier(graph', 1)
  /\ UNCHANGED <<nest, target, private, reductions>>

-----------------------------------------------------------------------------
(* PrivatizationHelper.  Control goes from statement s to statement t with *)
(* no other between them; 0 is the start of the body.  A group may be left *)
(* out, and an inner loop starts again.                                    *)
GroupOf(s) == IF s = 0 THEN 0 ELSE Group(nest, s)
IsFirst(s) == GroupOf(s) = 0 \/ GroupOf(s - 1) # GroupOf(s)
IsLast(s) == GroupOf(s) = 0 \/ s = Len(nest.body) \/ GroupOf(s + 1) # GroupOf(s)
\* Mutant: a condition is taken to hold.
EntersEach(s, t) ==
  \/ t = s + 1
  \/ s # 0 /\ SameLoop(nest, s, t) /\ IsLast(s) /\ IsFirst(t)
Enters(s, t) ==
  \/ t = s + 1 /\ GroupOf(s) = GroupOf(t)
  \/ /\ s < t /\ IsLast(s) /\ IsFirst(t)
     /\ \A between \in s + 1 .. t - 1 : GroupOf(between) \notin {0, GroupOf(s), GroupOf(t)}
  \/ s # 0 /\ SameLoop(nest, s, t) /\ IsLast(s) /\ IsFirst(t)

(* runDefUseAnalysis: some use may see what an earlier iteration left.     *)
(* The use of a statement comes before its definition.                     *)
Exposed(defs, uses) ==
  LET up[n \in 0 .. Len(nest.body) + 1] ==
        IF n = 0 THEN {}
        ELSE uses \union {s \in (0 .. Len(nest.body)) \ defs : \E t \in up[n - 1] \ {0} : Enters(s, t)}
  IN  0 \in up[Len(nest.body) + 1]

Scalars == {At(nest, o).var : o \in {o \in Places(nest) : IsScalar(At(nest, o))}}
Of(d) == At(nest, d.from).var
Ends(v) == UNION {{d.from, d.to} : d \in {d \in arrows : Of(d) = v}}

Privatizable(v) ==
  LET defs == {o.s : o \in {o \in Ends(v) : Writes(o)}}
      uses == {o.s : o \in {o \in Ends(v) : ~Writes(o)}}
  IN  defs # {} /\ ~Exposed(defs, uses)

makePrivatization ==
  /\ phase = "graph"
  /\ phase' = IF target = "MISM" THEN "privatized" ELSE "reduced"
  /\ private' = {v \in Scalars : Privatizable(v)}
  /\ arrows' = {d \in arrows : Of(d) \notin private'}
  /\ UNCHANGED <<nest, target, graph, reductions>>

-----------------------------------------------------------------------------
(* MISMAnalyser::recognizeReduction: a scalar that is assigned from an     *)
(* operator on itself, and whose new value nobody else reads.              *)
Flows(o) == {d \in graph : d.type = "flow" /\ d.from = o}
Antis(o) == {d \in graph : d.type = "anti" /\ d.from = o}
SelfOutput(o) == {d \in arrows : d.type = "output" /\ d.from = o /\ d.to = o}

getReductionOperation(s) ==
  LET statement == nest.body[s] IN
  IsScalar(statement.def) /\ statement.uses # <<>> /\ statement.uses[1] = statement.def

Accumulates(o) ==
  /\ SelfOutput(o) # {} /\ IsScalar(At(nest, o))
  /\ Cardinality(Flows(o)) = 1 /\ \A d \in Flows(o) : d.to.s = o.s
  /\ getReductionOperation(o.s)

(* Of the dependences back to the assignment only one is removed. *)
FirstOf(deps) == {d \in deps : \A e \in deps : d.to.s <= e.to.s}
Absorbed(o) == SelfOutput(o) \union Flows(o) \union UNION {FirstOf(Antis(d.to)) : d \in Flows(o)}

recognizeReduction ==
  /\ phase = "privatized"
  /\ phase' = "reduced"
  /\ reductions' = {o.s : o \in {o \in Places(nest) : Writes(o) /\ Accumulates(o)}}
  /\ arrows' = arrows \ UNION {Absorbed([s |-> s, n |-> 0]) : s \in reductions'}
  /\ UNCHANGED <<nest, target, graph, private>>

-----------------------------------------------------------------------------
(* The obstacles.  Lanes run statement by statement, so a dependence may   *)
(* go down the text of the body, where there is no path back, and in a     *)
(* statement from the uses to the assignment.  They take no branches.      *)
HasPath(s, t) == s < t \/ SameLoop(nest, s, t)
Backward(d) ==
  IF d.from.s = d.to.s THEN d.type \in {"flow", "output"} ELSE HasPath(d.to.s, d.from.s)

Obstacles ==
  {d \in arrows : d.type # "input" /\ (target = "SISM" => Backward(d))}
Forbidden ==
  target = "SISM" /\ \E s \in DOMAIN nest.body : Group(nest, s) # 0 /\ ~InLoop(nest, s)

analyse ==
  /\ phase = "reduced"
  /\ phase' = IF Obstacles = {} /\ ~Forbidden THEN "marked" ELSE "refused"
  /\ graph' = {} /\ arrows' = {}
  /\ UNCHANGED <<nest, target, private, reductions>>

Mark ==
  \/ \E kind \in Kinds : markLoops(kind)
  \/ makePrivatization
  \/ recognizeReduction
  \/ analyse
=============================================================================
