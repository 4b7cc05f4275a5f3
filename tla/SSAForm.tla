------------------------------- MODULE SSAForm -------------------------------
(***************************************************************************)
(* SSAForm: every assignment of a local variable gets a number, every use  *)
(* of it the number of the assignment whose value it sees, and where       *)
(* values meet a phi function makes a number of its own out of those that  *)
(* arrive (source/Analysis/SSAForm/SSAForm.cpp).                           *)
(*                                                                         *)
(* The constructor runs the analyses one after another: the control flow   *)
(* graph, the dominators, the phi functions, the numbers.  The module      *)
(* composes them, and then runs the program twice at once: with its        *)
(* variables, and with the numbered values in their place.                 *)
(*                                                                         *)
(* Of SSAVarMap the module has what it collects (StmtVarFinder).  Left out *)
(* is that it throws for a body in which a variable may be read before it  *)
(* is assigned ("Using of uninitialized variable"): every body goes on to  *)
(* the phi functions here.                                                 *)
(***************************************************************************)
EXTENDS FlowGraph

CONSTANTS
  Vars,   \* the local variables of the bodies, one for each name
  Data    \* the values they hold

ASSUME DataAssumption == None \notin Vars /\ Data # {}

VARIABLES
  doms, cursor, changed,   \* the dominators
  phase,      \* which part of the constructor runs, or "running" the program
  phis,       \* m_phisAnchors: by block and variable, the number made and those that arrive
  counters,   \* the next number of each variable
  stacks,     \* the numbers that hold at this place of the dominator tree
  uses,       \* m_subscripts of the occurrences that read
  gens,       \* m_subscripts of those that assign, and m_decl_subscripts
  trail,      \* the calls of indexVars
  place,      \* where the program runs
  truth,      \* what its variables hold
  held        \* what the numbered values hold

numbers == <<phis, counters, stacks, uses, gens, trail>>
run == <<place, truth, held>>
vars == <<flow, doms, cursor, changed, phase, numbers, run>>

Graph == INSTANCE DominanceFrontier

-----------------------------------------------------------------------------
(* StmtVarFinder: the variables that an element reads, assigns and         *)
(* declares.  Only an assignment is taken for a generator; in i++ the      *)
(* variable counts as read.                                                *)
Generator(e) == IF e.part = "statement" /\ Kind(prog, e.at) = "bump" THEN None ELSE Def(prog, e)
Declaration(e) == DeclaredAt(prog, e)
Numbered(e) == IF Generator(e) # None THEN Generator(e) ELSE Declaration(e)

(* fillGens: the blocks that assign a variable.  A second assignment in a  *)
(* block that is listed already starts the list anew, so the blocks before *)
(* one that assigns twice are lost.                                        *)
Assignments(b, v) == {i \in DOMAIN content[b] : Generator(content[b][i]) = v}
GenBlocks(v) ==
  {blocks[k] : k \in {j \in DOMAIN blocks :
                       /\ Assignments(blocks[j], v) # {}
                       /\ \A l \in DOMAIN blocks : l > j => Cardinality(Assignments(blocks[l], v)) < 2}}

(* VisibilityAnalisys: a variable is visible in the block that declares it *)
(* and in the blocks inside.                                               *)
ParentBlock(e) == IF e.part = "declaration" THEN e.at ELSE Front(e.at)
isVisible(v, path) ==
  \E k \in 0 .. Len(path) : v \in Range(At(prog, SubSeq(path, 1, k)).decls)

(* placePhis and insertPhi: a phi function in the frontier of each block   *)
(* that assigns the variable.  The place is asked for its statement, which *)
(* a declaration has not.                                                  *)
Meeting(v) == UNION {Graph!Frontier(b) : b \in GenBlocks(v)}
Anchors ==
  {p \in Graph!Nodes \X Vars :
     p[1] \in Meeting(p[2]) /\ isVisible(p[2], ParentBlock(content[p[1]][1]))}
NullStatement == \E v \in Vars : \E b \in Meeting(v) : content[b][1].part = "declaration"

-----------------------------------------------------------------------------
(* indexVars gives the variables their next numbers, which then hold.      *)
Pushed(vs) == [v \in Vars |-> IF v \in vs THEN Append(stacks[v], counters[v]) ELSE stacks[v]]
NotAdvanced(vs) == counters
Advanced(vs) == [v \in Vars |-> IF v \in vs THEN counters[v] + 1 ELSE counters[v]]

(* A call of indexVars counts what it pushes. *)
NoPushes == [v \in Vars |-> 0]
Pushes(before, vs) == [v \in Vars |-> before[v] + IF v \in vs THEN 1 ELSE 0]
Visit(block, doing, pushed, todo) ==
  [block |-> block, doing |-> doing, at |-> 1, pushed |-> pushed, todo |-> todo]

(* Children are visited in the order of the list. *)
Position(b) == CHOOSE i \in DOMAIN blocks : blocks[i] = b
Foremost(todo) == CHOOSE b \in todo : \A c \in todo : Position(b) <= Position(c)

Top(stack) == IF stack = <<>> THEN 0 ELSE Last(stack)

(* New entries of a map, over those it has. *)
Over(new, old) == [x \in DOMAIN new \union DOMAIN old |-> IF x \in DOMAIN new THEN new[x] ELSE old[x]]

(* The phi functions of the successors get the number that arrives from    *)
(* the block, or are dropped when none does.                               *)
PassOn(b) ==
  LET meant == {p \in DOMAIN phis : p[1] \in Range(succ[b]) /\
                                    isVisible(p[2], ParentBlock(content[b][1]))}
      dropped == {p \in meant : stacks[p[2]] = <<>>}
  IN  [p \in DOMAIN phis \ dropped |->
         IF p \in meant THEN [phis[p] EXCEPT !.args = Over([q \in {b} |-> Last(stacks[p[2]])], @)]
         ELSE phis[p]]

-----------------------------------------------------------------------------
Init ==
  /\ FlowInit
  /\ doms = <<>> /\ cursor = 0 /\ changed = FALSE
  /\ phase = "graph"
  /\ phis = <<>> /\ counters = [v \in Vars |-> 0] /\ stacks = [v \in Vars |-> <<>>]
  /\ uses = <<>> /\ gens = <<>> /\ trail = <<>>
  /\ place = <<>> /\ truth = <<>> /\ held = <<>>

BuildGraph ==
  /\ phase = "graph"
  /\ FlowNext
  /\ UNCHANGED <<doms, cursor, changed, phase, numbers, run>>

BuildDoms ==
  /\ phase = "graph" /\ focus = Built
  /\ Graph!BuildDoms
  /\ phase' = "dominators"
  /\ UNCHANGED <<flow, numbers, run>>

SweepDoms ==
  /\ phase = "dominators"
  /\ Graph!Sweep \/ Graph!SweepAgain
  /\ UNCHANGED <<prog, content, frames, focus, phase, numbers, run>>

placePhis ==
  /\ phase = "dominators" /\ Graph!Settled
  /\ phis' = [p \in Anchors |-> [gen |-> 0, args |-> <<>>]]
  /\ trail' = <<Visit(0, "children", NoPushes, {blocks[1]})>>
  /\ phase' = IF NullStatement THEN "undefined" ELSE "numbering"
  /\ UNCHANGED <<flow, doms, cursor, changed, counters, stacks, uses, gens, run>>

(* indexVars is called for the first block, and by the call for a block    *)
(* for the children of that one.  It begins with the phi functions of the  *)
(* block,                                                                  *)
Indexing(doing) == phase = "numbering" /\ Last(trail).doing = doing

indexVars ==
  /\ Indexing("children") /\ Last(trail).todo # {}
  /\ LET b == Foremost(Last(trail).todo)
         here == {v \in Vars : <<b, v>> \in DOMAIN phis}
     IN
     /\ stacks' = Pushed(here) /\ counters' = Advanced(here)
     /\ phis' = [p \in DOMAIN phis |-> IF p[1] = b THEN [phis[p] EXCEPT !.gen = counters[p[2]]]
                                       ELSE phis[p]]
     /\ trail' = Append([trail EXCEPT ![Len(trail)].todo = @ \ {b}],
                        Visit(b, "elements", Pushes(NoPushes, here), {}))
  /\ UNCHANGED <<flow, doms, cursor, changed, phase, uses, gens, run>>

(* goes on with its elements in their order, the uses first,               *)
numberElement ==
  /\ Indexing("elements") /\ Last(trail).at <= Len(content[Last(trail).block])
  /\ LET e == content[Last(trail).block][Last(trail).at]
         read == Uses(prog, e)
         given == {Numbered(e)} \ {None}
     IN
     /\ uses' = Over([u \in {<<e, w>> : w \in read} |-> Top(stacks[u[2]])], uses)
     /\ stacks' = Pushed(given) /\ counters' = Advanced(given)
     /\ gens' = Over([g \in {e : v \in given} |-> counters[Numbered(g)]], gens)
     /\ trail' = [trail EXCEPT ![Len(trail)].at = @ + 1,
                               ![Len(trail)].pushed = Pushes(@, given)]
     /\ phase' = IF \A w \in read : stacks[w] # <<>> THEN "numbering" ELSE "undefined"
  /\ UNCHANGED <<flow, doms, cursor, changed, phis, run>>

(* then with the phi functions of the successors, and with the children.   *)
passOn ==
  /\ Indexing("elements") /\ Last(trail).at > Len(content[Last(trail).block])
  /\ LET b == Last(trail).block IN
     /\ phis' = PassOn(b)
     /\ trail' = [trail EXCEPT ![Len(trail)].doing = "children", ![Len(trail)].todo = Graph!Children(b)]
  /\ UNCHANGED <<flow, doms, cursor, changed, phase, counters, stacks, uses, gens, run>>

(* At its end indexVars pops what it has pushed. *)
PoppedOnce(stack, pushes) == IF pushes = 0 THEN stack ELSE Front(stack)
Popped(stack, pushes) == SubSeq(stack, 1, Len(stack) - pushes)

popNumbers ==
  /\ Indexing("children") /\ Last(trail).todo = {} /\ Len(trail) > 1
  /\ stacks' = [v \in Vars |-> Popped(stacks[v], Last(trail).pushed[v])]
  /\ trail' = Front(trail)
  /\ UNCHANGED <<flow, doms, cursor, changed, phase, phis, counters, uses, gens, run>>

-----------------------------------------------------------------------------
(* The program with its variables and, beside it, with numbered values.    *)
Start ==
  /\ Indexing("children") /\ Last(trail).todo = {} /\ Len(trail) = 1
  /\ phase' = "running"
  /\ place' = [block |-> blocks[1], at |-> 1]
  /\ \E nothing \in Data :
       /\ truth' = [v \in Vars |-> nothing]
       /\ held' = [v \in Vars |-> [n \in 0 .. counters[v] - 1 |-> nothing]]
  /\ UNCHANGED <<flow, doms, cursor, changed, numbers>>

Here == content[place.block][place.at]
Assigned(e) == IF Def(prog, e) # None THEN Def(prog, e) ELSE Declaration(e)

(* On the way from one block to the next, the phi functions of the latter  *)
(* take the value that arrives.  An argument that is missing may be any.   *)
Merged(values, from, to, missing) ==
  [v \in Vars |->
     IF <<to, v>> \notin DOMAIN phis THEN values[v]
     ELSE LET phi == phis[<<to, v>>] IN
          [values[v] EXCEPT ![phi.gen] =
             IF from \in DOMAIN phi.args THEN values[v][phi.args[from]] ELSE missing]]

Written(values, e, value) ==
  IF e \notin DOMAIN gens THEN values ELSE [values EXCEPT ![Numbered(e)][gens[e]] = value]

RunElement ==
  /\ phase = "running"
  /\ \E value \in Data :
       /\ truth' = IF Assigned(Here) = None THEN truth ELSE [truth EXCEPT ![Assigned(Here)] = value]
       /\ IF place.at < Len(content[place.block])
            THEN /\ place' = [place EXCEPT !.at = @ + 1]
                 /\ held' = Written(held, Here, value)
            ELSE \E s \in Range(succ[place.block]) \ {0}, missing \in Data :
                   /\ place' = [block |-> s, at |-> 1]
                   /\ held' = Merged(Written(held, Here, value), place.block, s, missing)
  /\ UNCHANGED <<flow, doms, cursor, changed, phase, numbers>>

Analyse == BuildGraph \/ BuildDoms \/ SweepDoms \/ placePhis \/ indexVars \/ numberElement \/
           passOn \/ popNumbers \/ Start
Next == Analyse \/ RunElement

(* The constructor runs to its end; the program may be left at any point.  *)
Spec == Init /\ [][Next]_vars /\ WF_vars(Analyse)

-----------------------------------------------------------------------------
TypeOK ==
  /\ FlowTypeOK
  /\ phase \in {"graph", "dominators", "numbering", "running", "undefined"}
  /\ phase # "graph" => DOMAIN doms = Graph!Nodes /\ \A b \in Graph!Nodes : b \in doms[b]
  /\ \A v \in Vars : \A i \in DOMAIN stacks[v] : stacks[v][i] < counters[v]
  /\ phase = "running" => \A v \in Vars : stacks[v] = <<>> /\ DOMAIN held[v] = 0 .. counters[v] - 1

(* The sweeps end with the dominators, neither fewer nor more. *)
DominatorsExact ==
  phase = "dominators" /\ Graph!Settled =>
    \A b \in Graph!Nodes : doms[b] = Graph!Dominators(b)

(* The tree has one parent for every block but the first, and climbing it  *)
(* finds the blocks where the dominance of a block ends: it dominates one  *)
(* of their predecessors, but not strictly the block itself.  The first    *)
(* block is left out if it has one predecessor only: the way that enters   *)
(* the body meets the way back there, but the code counts predecessors.    *)
FrontierTrue ==
  phase = "dominators" /\ Graph!Settled /\ Reached =>
    /\ \A b \in Graph!Nodes \ {blocks[1]} : Cardinality(Graph!Idoms(b)) = 1
    /\ \A d \in Graph!Nodes :
         Graph!Frontier(d) =
           {b \in Graph!Nodes : /\ b # blocks[1] \/ Cardinality(Graph!Preds(b)) # 1
                                /\ \E p \in Graph!Preds(b) : Graph!Dominates(d, p)
                                /\ d = b \/ ~Graph!Dominates(d, b)}

(* A variable whose phi functions are where values meet: the frontier of   *)
(* every block that assigns it, and of every block with a phi function of  *)
(* it, as far as it is visible there.                                      *)
AssignedIn(v) == {b \in Graph!Nodes : Assignments(b, v) # {}}
WellPlaced(v) ==
  LET placed == {b \in Graph!Nodes : <<b, v>> \in DOMAIN phis}
  IN  \A b \in AssignedIn(v) \union placed : \A f \in Graph!Frontier(b) :
        isVisible(v, ParentBlock(content[f][1])) => f \in placed

ReadsRight(v) == v \in Uses(prog, Here) => held[v][uses[<<Here, v>>]] = truth[v]

(* Whatever way the program takes, a use of a variable reads the number    *)
(* whose value the variable holds, if the phi functions of the variable    *)
(* are well placed.  No use is numbered from an empty stack, and no place  *)
(* of a phi function is asked for a statement it has not.                  *)
NamesRight ==
  /\ phase # "undefined"
  /\ phase = "running" => \A v \in Vars : ReadsRight(v) \/ ~WellPlaced(v)

(* The constructor ends. *)
Completes == <>(phase = "running")
=============================================================================
