--------------------------- MODULE DependenceGraph ---------------------------
(***************************************************************************)
(* The dependence graphs of a loop.  Two analyses build them, and          *)
(* AbstractDepGraph makes one kind of graph out of both: the Lamport graph *)
(* (source/Analysis/DepGraph/src/DepGraph.cpp) tests pairs of occurrences  *)
(* with the test of the greatest common divisor and with Banerjee's test;  *)
(* the graph of Montego (source/Analysis/Montego/DependenceGraph) asks an  *)
(* integer programming solver, which answers exactly.  Either may be       *)
(* refined by lattice graphs: arrows between occurrences that never meet   *)
(* are removed.                                                            *)
(*                                                                         *)
(* A dependence names the loops that carry it: the outermost loop whose    *)
(* counter differs between the two runs; loop 1 is the outer loop.         *)
(***************************************************************************)
EXTENDS LoopNest, FiniteSetsExt

Dependence(type, from, to, carriers) == [type |-> type, from |-> from, to |-> to, carriers |-> carriers]

CommonLoops(p, o, q) == IF SameLoop(p, o.s, q.s) THEN 2 ELSE 1
SameVariable(p, o, q) == At(p, o).var = At(p, q).var
Pos(r) == IF r < 0 THEN 0 ELSE r
Neg(r) == IF r > 0 THEN 0 ELSE -r

-----------------------------------------------------------------------------
(* GCDTestMapped: x and y are subscripts, with equal counters in the first *)
(* equal loops.  FALSE if there is no dependence.                          *)
Divisor(S) == IF S \subseteq {0} THEN 0 ELSE Max({d \in 1 .. Max(S) : \A c \in S : c % d = 0})
Size(r) == Pos(r) + Neg(r)

GCDTest(x, y, equal) ==
  LET own(z) == {Size(z[j]) : j \in equal + 1 .. Len(z) - 1}
      g == Divisor({Size(x[j] - y[j]) : j \in 1 .. equal} \union own(x) \union own(y))
  IN  g # 0 => (Last(x) - Last(y)) % g = 0

(* BanerjeeTestMapped, for counters that run from 1 to u: whether two runs *)
(* may meet whose counters are equal in the first equal loops; in the loop *)
(* after them, if it is a common one, the first counter is the smaller.    *)
BanerjeeTest(u, x, y, equal, common) ==
  LET independent == equal = common
      c == equal + 1
      rest(z) == {i \in 1 .. Len(z) - 1 : i > (IF independent THEN equal ELSE c)}
      l == -(SumFunction([i \in 1 .. equal |-> Neg(x[i] - y[i]) * (u[i] - 1)])
             + SumFunction([i \in rest(x) |-> Neg(x[i]) * (u[i] - 1)])
             + SumFunction([i \in rest(y) |-> Pos(y[i]) * (u[i] - 1)]))
      r == SumFunction([i \in 1 .. equal |-> Pos(x[i] - y[i]) * (u[i] - 1)])
           + SumFunction([i \in rest(x) |-> Pos(x[i]) * (u[i] - 1)])
           + SumFunction([i \in rest(y) |-> Neg(y[i]) * (u[i] - 1)])
      b == SumFunction(y) - SumFunction(x)
  IN
  IF independent THEN l <= b /\ b <= r
  ELSE /\ l - y[c] - Pos(Neg(x[c]) + y[c]) * (u[c] - 2) <= b
       /\ b <= r - y[c] + Pos(Pos(x[c]) - y[c]) * (u[c] - 2)

(* GetDepSupp: at each level, both tests; the level after the common loops *)
(* is that of a loop independent dependence.                               *)
Levels(p, o, q) ==
  LET x == At(p, o).sub
      y == At(p, q).sub
      common == CommonLoops(p, o, q)
      u == [k \in 1 .. 2 |-> p.from + p.trips[k] - 1]
  IN  {k \in 1 .. common + 1 : GCDTest(x, y, k - 1) /\ BanerjeeTest(u, x, y, k - 1, common)}

-----------------------------------------------------------------------------
(* The arrows of two occurrences.  Those of scalars carry every loop or    *)
(* are loop independent; a loop independent arrow goes only in the order   *)
(* of the text.                                                            *)
Independent(type, o, q) == {Dependence(type, o, q, {})}
InEveryLoop(p, type, o, q) == {Dependence(type, o, q, 1 .. CommonLoops(p, o, q))}
Tested(p, type, o, q, independent) ==
  LET loops == 1 .. CommonLoops(p, o, q)
      found == IF independent THEN Levels(p, o, q) ELSE Levels(p, o, q) \intersect loops
  IN  IF found = {} THEN {} ELSE {Dependence(type, o, q, found \intersect loops)}

\* Mutant: the uses of a statement do not precede its assignment.
PrecedesStrictly(o, q) == o.s < q.s
PrecedesNonStrictly(o, q) == o.s <= q.s

BuildFlowAntiDeps(p, def, use) ==
  LET rel == PrecedesNonStrictly(use, def) IN
  CASE IsScalar(At(p, def)) /\ rel ->
         Independent("anti", use, def) \union InEveryLoop(p, "flow", def, use)
    [] IsScalar(At(p, def)) /\ ~rel ->
         Independent("flow", def, use) \union InEveryLoop(p, "anti", use, def)
    [] ~IsScalar(At(p, def)) ->
         Tested(p, "flow", def, use, ~rel) \union Tested(p, "anti", use, def, rel)

BuildOutDep(p, first, second) ==
  IF IsScalar(At(p, first))
    THEN Independent("output", first, second) \union InEveryLoop(p, "output", second, first)
    ELSE Tested(p, "output", first, second, TRUE) \union Tested(p, "output", second, first, FALSE)

BuildInDep(p, first, second) ==
  IF IsScalar(At(p, first))
    THEN Independent("input", first, second) \union InEveryLoop(p, "input", second, first)
    ELSE Tested(p, "input", first, second, TRUE) \union Tested(p, "input", second, first, TRUE)

BuildSelfDep(p, type, o) ==
  IF IsScalar(At(p, o)) THEN InEveryLoop(p, type, o, o) ELSE Tested(p, type, o, o, FALSE)

(* LamportGraph::Build: every assignment with itself, with the later ones  *)
(* of its variable and with the uses; then the uses with one another.      *)
Earlier(o, q) == o.s < q.s \/ (o.s = q.s /\ o.n < q.n)
LamportGraph(p) ==
  LET defs == {o \in Places(p) : Writes(o)}
      uses == Places(p) \ defs
      pairs(S, T) == {pair \in S \X T : SameVariable(p, pair[1], pair[2])}
      later(S) == {pair \in pairs(S, S) : Earlier(pair[1], pair[2])}
  IN  UNION ({BuildSelfDep(p, "output", o) : o \in defs}
             \union {BuildSelfDep(p, "input", o) : o \in uses}
             \union {BuildOutDep(p, pair[1], pair[2]) : pair \in later(defs)}
             \union {BuildInDep(p, pair[1], pair[2]) : pair \in later(uses)}
             \union {BuildFlowAntiDeps(p, pair[1], pair[2]) : pair \in pairs(defs, uses)})

-----------------------------------------------------------------------------
(* Montego: in a loop there is a path from every statement to every other, *)
(* so each pair of occurrences of a variable gets its arrow; of these      *)
(* findDepSupp tells the loops that carry it.                              *)
TypeOf(o, q) ==
  CASE Writes(o) /\ Writes(q) -> "output"
    [] Writes(o) /\ ~Writes(q) -> "flow"
    [] ~Writes(o) /\ Writes(q) -> "anti"
    [] ~Writes(o) /\ ~Writes(q) -> "input"

findDepSupp(p, o, q) ==
  IF IsScalar(At(p, o)) THEN 1 .. CommonLoops(p, o, q)
  ELSE {k \in 1 .. CommonLoops(p, o, q) :
          \E v \in Space(p, o.s), w \in Space(p, q.s) :
             Touch(p, o, v, q, w) /\ v[k] < w[k] /\ \A j \in 1 .. k - 1 : v[j] = w[j]}

MontegoGraph(p) ==
  {Dependence(TypeOf(pair[1], pair[2]), pair[1], pair[2], findDepSupp(p, pair[1], pair[2])) :
     pair \in {pair \in Places(p) \X Places(p) : SameVariable(p, pair[1], pair[2])}}

(* The lattice graph of an arrow is empty if no run of its first           *)
(* occurrence comes before a run of the second on the same cell.           *)
Meet(p, o, q) ==
  \E v \in Space(p, o.s), w \in Space(p, q.s) : Touch(p, o, v, q, w) /\ Follows(p, o, v, q, w)
Refined(p, graph) == {d \in graph : IsScalar(At(p, d.from)) \/ Meet(p, d.from, d.to)}

-----------------------------------------------------------------------------
(* AbstractDepGraph *)
getSubGraphByCarrier(graph, loop) == {d \in graph : loop \in d.carriers}
=============================================================================
