------------------------------ MODULE MarkedLoop ------------------------------
(***************************************************************************)
(* What a loop does after it was marked, or distributed, or fused.  A loop *)
(* that was marked runs in parallel, as include/Analysis/ParallelLoops.h   *)
(* describes the machines: on processors that share memory                 *)
(* every iteration is a process, whose steps are the reading of the        *)
(* operands of an assignment and the assignment; on lanes all iterations   *)
(* read the operands of an assignment and then all assign.  An iteration   *)
(* has its own copy of a private variable, and of the variable of a        *)
(* reduction, which is added to the shared one when the iteration ends.    *)
(* Distributed and fused loops run in the order of their text.             *)
(***************************************************************************)
EXTENDS RegroupedLoops

VARIABLES
  path,    \* iteration -> the runs of its assignments that are left
  ready,   \* iteration -> whether the operands of the first are read
  memory,  \* cell -> its value
  own,     \* iteration -> variable -> the same for its own copy
  held,    \* iteration -> the values of the operands it has read
  order    \* what the runs read and leave behind in the order of the original

runVars == <<path, ready, memory, own, held, order>>
vars == <<nest, target, phase, graph, arrows, private, reductions, path, ready, memory, own, held, order>>

Empty == <<>>

(* A value is known by the run that has written it, the value of a sum by  *)
(* the runs it adds up.                                                    *)
Written(x) == [sum |-> FALSE, runs |-> {x}]
Sum(S) == [sum |-> TRUE, runs |-> S]
Summed == {nest.body[s].def.var : s \in reductions}
Initial(v) == IF v \in Summed THEN Sum({}) ELSE Written(Nobody)

Iterations == IF target = "sequential" THEN {1} ELSE Outer(nest)
Share(i) == IF target = "sequential" THEN Instances(nest) ELSE Iteration(nest, i)
Owned == private \union Summed

Running(i) == path[i] # <<>>
Here(i) == Head(path[i])
Reads(i) == Running(i) /\ ~ready[i]
Assigns(i) == Running(i) /\ ready[i]

NotRunning == path = Empty /\ ready = Empty /\ memory = Empty /\ own = Empty /\ held = Empty

Start ==
  /\ phase = "marked"
  /\ phase' = "running"
  /\ path' = [i \in Iterations |-> InItsOrder(nest, Share(i))]
  /\ ready' = [i \in Iterations |-> FALSE]
  /\ memory' = [c \in Cells(nest) |-> Initial(c[1])]
  /\ own' = [i \in Iterations |-> [v \in Owned |-> Initial(v)]]
  /\ held' = [i \in Iterations |-> <<>>]
  /\ UNCHANGED <<nest, target, graph, arrows, private, reductions, order>>

Operands(i) ==
  LET x == Here(i)
      uses == nest.body[x[1]].uses
  IN  [k \in DOMAIN uses |-> IF uses[k].var \in Owned THEN own[i][uses[k].var] ELSE memory[Cell(uses[k], x[2])]]

(* What the assignment leaves in its own copy: a sum gains a run, unless   *)
(* something else than the reduction overwrites it.                        *)
Copy(i, v) ==
  LET x == Here(i) IN
  CASE v \notin Summed -> Written(x)
    [] v \in Summed /\ x[1] \in reductions -> Sum(held[i][1].runs \union {x})
    [] v \in Summed /\ x[1] \notin reductions -> Sum({})

(* The iterations in S take a step together. *)
Read(S) ==
  /\ \A i \in S : Reads(i)
  /\ ready' = [i \in Iterations |-> i \in S \/ ready[i]]
  /\ held' = [i \in Iterations |-> IF i \in S THEN Operands(i) ELSE held[i]]
  /\ UNCHANGED <<path, memory, own>>

Into(i) == Target(nest, Here(i))
Assign(S) ==
  /\ \A i \in S : Assigns(i)
  /\ LET shared == {i \in S : Into(i)[1] \notin Owned} IN
     /\ \E last \in [{Into(i) : i \in shared} -> shared] :
          /\ \A c \in DOMAIN last : Into(last[c]) = c
          /\ memory' = [c \in DOMAIN memory |-> IF c \in DOMAIN last THEN Written(Here(last[c])) ELSE memory[c]]
     /\ own' = [i \in Iterations |->
                  IF i \in S \ shared THEN [own[i] EXCEPT ![Into(i)[1]] = Copy(i, Into(i)[1])] ELSE own[i]]
  /\ path' = [i \in Iterations |-> IF i \in S THEN Tail(path[i]) ELSE path[i]]
  /\ ready' = [i \in Iterations |-> i \notin S /\ ready[i]]
  /\ held' = [i \in Iterations |-> IF i \in S THEN <<>> ELSE held[i]]

Advance(S) ==
  /\ phase = "running"
  /\ Read(S) \/ Assign(S)
  /\ UNCHANGED <<order, markerVars>>

Process == target # "SISM" /\ \E i \in Iterations : Advance({i})
Lanes == target = "SISM" /\ Advance(Iterations)

(* All are through: the copies of the sums are added up. *)
Finish ==
  /\ phase = "running"
  /\ \A i \in Iterations : ~Running(i)
  /\ phase' = "done"
  /\ memory' = [c \in DOMAIN memory |->
       IF c[1] \in Summed THEN Sum(UNION {own[i][c[1]].runs : i \in Iterations}) ELSE memory[c]]
  /\ UNCHANGED <<nest, target, graph, arrows, private, reductions, path, ready, own, held, order>>

Init == Unmarked /\ NotRunning /\ order = InOrder(nest)
Next ==
  \/ (Mark \/ Regroup) /\ UNCHANGED runVars
  \/ Start \/ Process \/ Lanes \/ Finish

Spec == Init /\ [][Next]_vars

-----------------------------------------------------------------------------
(* Whatever two occurrences of an array, one of them an assignment, touch  *)
(* the same element in two runs, the graph has the dependence, of the      *)
(* right type and direction, and knows the loop that carries it; or knows  *)
(* it, if it is not carried.  The subgraph of the loop has all that it     *)
(* carries.                                                                *)
Carries(o, v, q, w, k) == Touch(nest, o, v, q, w) /\ v[k] < w[k] /\ \A j \in 1 .. k - 1 : v[j] = w[j]
ArrowsComplete ==
  phase = "graph" =>
    \A o, q \in Places(nest) :
      SameVariable(nest, o, q) /\ ~IsScalar(At(nest, o)) /\ (Writes(o) \/ Writes(q)) =>
        \A v \in Space(nest, o.s), w \in Space(nest, q.s) :
          /\ \A k \in 1 .. CommonLoops(nest, o, q) :
               Carries(o, v, q, w, k) =>
                 \E d \in (IF k = 1 THEN arrows ELSE graph) :
                   d.type = TypeOf(o, q) /\ d.from = o /\ d.to = q /\ k \in d.carriers
          /\ Touch(nest, o, v, q, w) /\ Follows(nest, o, v, q, w) =>
               \E d \in graph : d.type = TypeOf(o, q) /\ d.from = o /\ d.to = q

(* A loop that was marked does in parallel what it does in the order of    *)
(* the program, and loops that were distributed or fused do what they did  *)
(* before, whatever the processors do first: every run reads what it  *)
(* reads there, and every shared cell has the same value in the end; a sum *)
(* has every contribution once.  Nothing is said of the private variables  *)
(* after the loop.                                                         *)
Partial(x, k) == x[1] \in reductions /\ k = 1
AsInOrder ==
  /\ phase = "running" =>
       \A i \in Iterations :
         Assigns(i) => \A k \in DOMAIN held[i] : Partial(Here(i), k) \/ held[i][k] = Written(order.reads[Here(i)][k])
  /\ phase = "done" =>
       \A c \in DOMAIN memory :
         CASE c[1] \in private -> TRUE
           [] c[1] \in Summed \ private -> memory[c] = Sum({x \in Instances(nest) : Target(nest, x) = c})
           [] OTHER -> memory[c] = Written(order.final[c])
=============================================================================
