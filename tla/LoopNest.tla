------------------------------- MODULE LoopNest -------------------------------
(***************************************************************************)
(* A loop with assignments in its body, some of them in inner loops or     *)
(* under a condition, and what running it in the order of the program      *)
(* means.  Nothing here is code of the repository: it is what the analyses *)
(* are asked about, and what their answers are measured by.                *)
(***************************************************************************)
EXTENDS Integers, Sequences, FiniteSets, SequencesExt

(* A nest counts from.. in the outer loop and in the inner loops; trips    *)
(* holds how often each of them runs.  A group of statements of the body   *)
(* is an inner loop or an "if", which is taken in some of the iterations.  *)
(* A statement stands in a group, or in group 0, directly in the body; it  *)
(* reads uses, one after another, and then assigns def.  The subscript of  *)
(* an occurrence has a coefficient for each counter around it and a free   *)
(* term; a scalar has none.  The statements may be spread over several     *)
(* outer loops with the same header, which run one after another.          *)
Statement(group, def, uses) == [group |-> group, def |-> def, uses |-> uses]
Nest(from, trips, groups, taken, body) ==
  [from |-> from, trips |-> trips, groups |-> groups, taken |-> taken, body |-> body,
   loops |-> <<DOMAIN body>>]

Occurrence(var, sub) == [var |-> var, sub |-> sub]
Scalar(var) == Occurrence(var, <<>>)
IsScalar(occurrence) == occurrence.sub = <<>>

(* Where the occurrences stand: n is 0 for the one that is assigned. *)
Places(p) == {[s |-> s, n |-> n] : s \in DOMAIN p.body, n \in 0 .. 2} \intersect
             UNION {{[s |-> s, n |-> n] : n \in 0 .. Len(p.body[s].uses)} : s \in DOMAIN p.body}
Writes(o) == o.n = 0
At(p, o) == IF o.n = 0 THEN p.body[o.s].def ELSE p.body[o.s].uses[o.n]
Group(p, s) == p.body[s].group
InLoop(p, s) == Group(p, s) # 0 /\ p.groups[Group(p, s)] = "loop"

(* A subscript has a coefficient for each loop around it, and a variable   *)
(* is either always a scalar or never.                                     *)
IsSubscript(p, st, sub) == sub = <<>> \/ (sub \in Seq(Int) /\ Len(sub) = IF InLoop(p, st) THEN 3 ELSE 2)
IsNest(p) ==
  /\ p.from \in Int /\ p.trips \in Nat \X Nat
  /\ p.body \in Seq(Range(p.body)) /\ \A st \in DOMAIN p.body : Group(p, st) \in Nat
  /\ \A o \in Places(p) : IsSubscript(p, o.s, At(p, o).sub)
  /\ \A o, q \in Places(p) : At(p, o).var = At(p, q).var => (IsScalar(At(p, o)) <=> IsScalar(At(p, q)))

-----------------------------------------------------------------------------
(* The runs of a statement, by the values of the counters around it; those *)
(* a condition leaves out are in Space, but not in Instances.              *)
Outer(p) == p.from .. p.from + p.trips[1] - 1
Inner(p) == p.from .. p.from + p.trips[2] - 1
Space(p, s) == IF InLoop(p, s) THEN {<<i, j>> : i \in Outer(p), j \in Inner(p)} ELSE {<<i>> : i \in Outer(p)}
Runs(p, s) ==
  IF Group(p, s) # 0 /\ ~InLoop(p, s) THEN {v \in Space(p, s) : v[1] \in p.taken} ELSE Space(p, s)
Instances(p) == UNION {{<<s, v>> : v \in Runs(p, s)} : s \in DOMAIN p.body}

LoopOf(p, s) == CHOOSE l \in DOMAIN p.loops : s \in p.loops[l]
SameLoop(p, s, t) == InLoop(p, s) /\ Group(p, s) = Group(p, t)
Before(p, x, y) ==
  LET s == x[1]  t == y[1]  v == x[2]  w == y[2]
      sameLoop == LoopOf(p, s) = LoopOf(p, t)
  IN
  \/ LoopOf(p, s) < LoopOf(p, t)
  \/ sameLoop /\ v[1] < w[1]
  \/ /\ sameLoop /\ v[1] = w[1]
     /\ IF SameLoop(p, s, t) THEN v[2] < w[2] \/ (v[2] = w[2] /\ s < t) ELSE s < t

(* The cell an occurrence names when its statement runs. *)
Address(occurrence, v) ==
  LET sub == occurrence.sub IN
  IF IsScalar(occurrence) THEN 0
  ELSE SumFunction([k \in DOMAIN v |-> sub[k] * v[k]]) + Last(sub)
Cell(occurrence, v) == <<occurrence.var, Address(occurrence, v)>>
Cells(p) == UNION {{Cell(At(p, o), v) : v \in Space(p, o.s)} : o \in Places(p)}

(* Two occurrences follow each other in two runs if the first is evaluated *)
(* before the second: in one run the uses are read before the assignment.  *)
Follows(p, o, v, q, w) ==
  Before(p, <<o.s, v>>, <<q.s, w>>) \/ (<<o.s, v>> = <<q.s, w>> /\ Writes(q) /\ ~Writes(o))
Touch(p, o, v, q, w) == Cell(At(p, o), v) = Cell(At(p, q), w)

-----------------------------------------------------------------------------
(* In the order of the program: which run has written what each run reads, *)
(* and what is left in each cell at the end.  A value is named by the run  *)
(* that has written it.                                                    *)
Nobody == <<0, <<>>>>
Target(p, x) == Cell(p.body[x[1]].def, x[2])
LastOf(p, S) == IF S = {} THEN Nobody ELSE CHOOSE x \in S : \A y \in S \ {x} : Before(p, y, x)

ReadInOrder(p, x) ==
  [k \in DOMAIN p.body[x[1]].uses |->
     LastOf(p, {y \in Instances(p) : Before(p, y, x) /\ Target(p, y) = Cell(p.body[x[1]].uses[k], x[2])})]
InOrder(p) ==
  [reads |-> [x \in Instances(p) |-> ReadInOrder(p, x)],
   final |-> [c \in Cells(p) |-> LastOf(p, {y \in Instances(p) : Target(p, y) = c})]]

InItsOrder(p, S) ==
  [k \in 1 .. Cardinality(S) |-> CHOOSE x \in S : Cardinality({y \in S : Before(p, y, x)}) = k - 1]

(* The runs of one iteration of the outer loop. *)
Iteration(p, i) == {x \in Instances(p) : x[2][1] = i}
=============================================================================
