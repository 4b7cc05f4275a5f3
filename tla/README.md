# OpenOPS in TLA+

OpenOPS is a source-to-source parallelising compiler in C++: a front end builds a tree (Reprise), analyses attach
results to it, transformations rewrite it, back ends print it. Nothing runs concurrently in the compiler itself (the
threading code of OPS_Core is compiled out); what it generates does: MPI processes, and loops marked for processors or
lanes. What is hard in the compiler is the order of legal calls (ownership of nodes through handles, positions and
labels while statements are edited, results cached beside a program that changes, services left by passes that may
throw, graphs rebuilt while calls hold their addresses) and index arithmetic at the limits of a type. What is hard in
its output is that every order of its messages and iterations must mean what the sequential program meant. This
directory models those parts, checks them with TLC and proves some of them with TLAPS.

`PROJECT.json` lists components, runs, mutants, the source lines of every definition, hazards and theorems. Paths below
are relative to `src/`.

## 1. Inventory

| Component | State | Operations | Interacts with | Hard behaviour | Correct means |
|---|---|---|---|---|---|
| **Handles** `include/Reprise/Utils.h` | reference count in the node; a counter cell shared by node and weak handles; handles on the stack and in nodes | create, copy, assign, `reset(raw)`, `release`, `lock`, destroy | everything in the IR | destructor cascades in the middle of an assignment; reuse of freed addresses; a node held by a raw pointer only | no access to freed memory; exact counts; a weak handle that is not expired means its node |
| **Collections** `include/Reprise/Collections.h` | links in the nodes; ends, count; iterators | add at an end or beside an iterator, remove, replace, clear | handles (one reference per node) | a node can be in one list only, and the check for it has a gap; iterators over removed nodes | links, ends and count describe one sequence |
| **Statements** `source/Reprise/Statements.cpp`, `ServiceFunctions.cpp`, `ProgramFragment.cpp`, `Shared/StatementsShared` | blocks, parents, labels, targets of jumps | add, erase, replace, replace fragment, swap | collections, labels, back ends | a statement is out of its block between the steps of an edit; parent and list change at different moments | jumps keep their place; parents name the block; an edit is one edit |
| **Expressions, types, declarations, units** | trees of handles, parents | tree edits (`replaceExpression`) | handles | expression slots known by a reference into a parent | one parent per node, no dangling slot |
| **Notes** `source/Reprise/Common.cpp` | named notes of a node | set, get, copy with the node | clones, analyses | a copied note shares its object | what a note says is about its node |
| **Context observers and analysis services** `Shared/ContextNotifier`, `Analysis/Renewal` | one state per program and service, flag "synchronised", a container, a raw pointer to it | query, notify, clone, delete | notes, Montego | cached pointers, notices that reach the wrong service, an analysis that throws halfway | an answer comes from a live and current container |
| **ProgramContext** `Shared/ProgramContext.cpp` | meta-information per program, owned by a note | get or create, clear, clone | Montego, dependence graphs | the same sharing of notes | meta-information of this program, as it is now |
| **Loop transformations** `Transforms/Loops` | none, they rewrite | see below | expression operators, analyses | rounding, negative and wrapped bounds, the value of the counter afterwards | the iterations of the original loop, in its order |
| **Passes** `OPS_Stage` | list of passes, program, services | `addPass`, `run`, `runPass` | every plugin | recursion for requirements, exceptions, repetition | requirements are met in this run by this program |
| **Core** `OPS_Core` | service locator, plugins, event handlers, listeners | start, stop, register, invoke | application | order of start and stop; handlers changing their list | no service used before or after its time |
| **Flow graph, dominators, SSA** `Analysis/ControlFlowGraphEx`, `DominanceFrontierGraph`, `SSAForm` | vectors of elements and their successors; dominator lists; numbers, stacks and phi functions | build, sweep, place phis, number | each other, statements | a vector splits while callers hold its address; sweeps to a fixed point; stacks popped on the way up the dominator tree | the graph has the steps of the program; a use reads the number of the value the variable holds |
| **Dependence graphs** `Analysis/DepGraph`, `Montego/DependenceGraph`, `LatticeGraph` | arrows with their type and the loops that carry them | build, refine, subgraph of a loop | linear forms, alias analysis | bounds of Banerjee's test at each level, direction by position in the text | no dependence of a loop is missing |
| **Parallel loops** `Analysis/ParallelLoops` | dependences left, private scalars, reductions; marks | build the graph, privatize, recognise reductions, decide | dependence graphs, code generators | a scalar assigned on some ways only; a partial sum another statement sees; order on lanes | a marked loop may run in any order its machine allows |
| **Other analyses** (Montego's points-to sets, induction variables, calls, ...) | results over a program | compute | linear forms | fixpoints, integer sets | results agree with their definitions |
| **Data distribution and MPI** `Transforms/DataDistribution` | parameters of a placement; in the generated code buffers, requests, messages | compute sizes and indices; generate scatter, sweeps with exchange of block edges, gather | array accesses, calls | sizes and indices computed by different functions; one tag for all messages; buffers freed beside requests; rings of receives | every cell placed once; a sweep reads the sweep before; the array comes back as the loop leaves it |
| **Loop distribution and fusion** `Transforms/Loops/LoopDistribution`, `LoopFusion` | none, they rewrite | cut a body into loops; join two loops | dependence graphs | order of the components; a fusion given up after the copying | the loops do what they did |
| **Other transformations** (scalar, if, subroutines, declarations) | none | rewrite | Editing | as for statements and loops | meaning kept |
| **Front and back ends** | none | parse, convert, print | passes | they rely on labels and parents | outside TLC's reach, except what they rely on |

Vendored or generated and left aside: `source/3rd`, the clang headers of ClangParser, Montego's inputs, the generated
LatticeGraph tables, `*.patch`, Doxygen files.

## 2. Plan

Done, in this order: `RepriseHandles`; `IntrusiveList`; `StatementBlocks`; `AnalysisServices`; `LoopReshaping` and
`NestUnification`; `PassManager`; the way from a body to its SSA form (`StructuredCode`, `FlowGraph`,
`DominanceFrontier`, `SSAForm`); distributed loops (`BlockAffine`, `MessagePassing`, `DataDistribution`,
`NeighbourSweeps`); parallel and regrouped loops (`LoopNest`, `DependenceGraph`, `ParallelLoops`, `RegroupedLoops`,
`MarkedLoop`).

Modules that could follow:

1. `ExpressionSlots`: `replaceExpression` and the references into headers that interchange, blocking and fragmentation
   keep; the restore of `LoopFragmentation` when something throws. Composes with `StatementBlocks`.
2. `ProgramContext`: the helper note, meta-information and its dependencies, clones.
3. `LoopCycleOffset` and `LoopSplitting` as further forms for `RegroupedLoops` and `MarkedLoop`.
4. `Plugins` and `Events`: order of start and stop, handlers that change the list being invoked.
5. `PointsTo`: Montego's worklist against a definition, on small programs.

Theorems still to prove: that `DataDistribution` implements `NeighbourSweeps`; that the dependences `ParallelLoops` removes are those a
private copy keeps; that a variable declared in an inner block of `SSAForm` reads the right number too (section 5).

## 3. Modules

| System | Modules (promise in italics) | Composition, proofs |
|---|---|---|
| handles | `RepriseHandles`, *`Ownership`* | `RepriseHandlesProofs` |
| lists | `IntrusiveList`, *`NodeSequences`* | `IntrusiveListProofs` |
| statements | `StatementBlocks`, *`EditedProgram`*, `SequenceEdits` | uses what `NodeSequences` promises; `StatementBlocksProofs` |
| edits of sequences | `SequenceEdits` | `SequenceEditsProofs`, used by the two above and `LoopProofs` |
| analysis services | `AnalysisServices` | two services, notes, clones; `AnalysisServicesProofs` |
| reshaped loops | `LoopReshaping`, *`OriginalLoop`*, `NestUnification` | `TransformedProgramMC`; `LoopProofs` |
| passes | `PassManager` | `PassManagerProofs` |
| SSA form | `StructuredCode`, `FlowGraph`, `DominanceFrontier`, `SSAForm` | `SSAForm` composes the other three; `SSAFormProofs` |
| MPI code | `BlockAffine`, `MessagePassing`, `DataDistribution`, *`NeighbourSweeps`* | `DataDistribution` composes the first two; only model-checked |
| parallel loops | `LoopNest`, `DependenceGraph`, `ParallelLoops`, `RegroupedLoops`, `MarkedLoop` | each extends the one before; `LoopProofs` |

Operators with a "Mutant:" comment, or a name that says what goes wrong, stand before the definition they distort. No
specification uses them; each shows that one property notices one plausible bug.

### RepriseHandles

One action per operation of `ReprisePtr`, `RepriseWeakPtr` and the raw `delete`. `delete` is not atomic: it marks the
node "dying", and its members are destroyed one at a time (`DestroyStrong`, `DestroyWeak`), which may start further
deletions, until `Free`. `operator=` and `reset(raw)` are two steps with that cascade in between. Nodes and cells are
addresses that are reused. Any read or write of a freed node or cell sets `fault`.

What callers owe is written down as guards (`MayForget`, `MayObserve`, `MayRelease`, `MayReset`): a live node that no
handle owns, but that has a cell, must be kept by a weak handle on the stack, because the last weak handle frees the
cell under the node; and `reset(raw)` may not be called when the cascade of the release would destroy its handle or its
argument. The transfer idiom of the source (`x.reset(y.release())`) satisfies them as long as no weak member is
dropped in between; for nodes observed by weak members only, `MayRelease` asks for more than the idiom does.
Left out: the width of the count (28 bits beside the expire flag), casts, `operator=` by value copying once more.

`Ownership` is the promise: nodes live until their last owner lets go, weak handles see a living node or nothing.
`ImplementsOwnership` maps `sees` to "not expired".

### IntrusiveList

`m_next`, `m_prev`, ends and count of several lists; iterators with their before-start and after-end states; `clear()` as
the loop it is. A call that throws changes nothing, so what it throws on is a guard. Out-of-contract calls that are
undefined (`addAfter` an end iterator of a non-empty list, removing a node of another list) are not enumerated: see
`Unshared` and the guards. `NodeSequences` is the promise; the mapping walks the links (`Chain`, which follows `next`
from `first` as often as `count` says, as `contains` and `find` do).

### StatementBlocks

A block is a sequence, as `NodeSequences` promises. Added are the parents (set before the list may refuse: `Refused`),
labels, gotos and case labels as jumps with weak targets, and the edits. `replaceProgramFragment` and `swapStmts` run in
steps (`GatherStep`, `SwapStep`), since what goes wrong in them goes wrong between their steps. `findAllGotos` looks
below the root block only (`Found`). Of `replaceStatement` it is the branch for a statement in a
block: replacing the body of a subroutine (which relabels nothing) or of a `for` statement goes through a setter and is left out, as
the blocks of the model are never replaced. `EditedProgram` is the promise: the same sequences, edits in one step, jumps keep
their place; the mapping shows the state before a swap and after a gathering (`Outcome`).

### AnalysisServices

Two services over the programs: an alias state owns a container, an occurrence state caches a pointer to it. `Notify`,
`Edit`, `FindAllOccurrences` (with the synchronisation it triggers, which may throw: `Fail`), `Clone` (shares state
objects through notes), `Delete`. What a container holds is reduced to which program it describes at which edit.

### LoopReshaping and NestUnification

These execute the generated loops. A transformation is a record of its options; the limits and substitutions are
operators transcribed from the expressions the code builds, in the arithmetic of a type that wraps at `MaxInt`, with division
truncating towards zero. `Fits` says when the generated arithmetic has room (the code has no check). `OriginalLoop` is
the promise: the iterations of the original, in order, and then the end. `NestUnification` does the same for two loops
unified into one, with nests that are reversed in both directions left out (section 6). `TransformedProgramMC` has a
program with a loop and a nest and runs one after the other.

For bounds n <= 0 the original loop leaves the counter at its initial value, the generated code assigns n in the forms
with an own counter and nothing in the native forms without a tail. `CounterAfter` speaks of loops that run.

### PassManager

`Run` resets the context; `RunNext` calls `runPass` for the next pass of the list; a call is a frame on `stack` with the
required services it has yet to look at. `Skip`, `Fetch` and `Unavailable` are the three outcomes of one iteration of
the loop over them, `Perform` is the pass itself with the return to the caller and the assertion there. `AddTwice` and
`PassThrows` unwind everything. Assertions are those of a debug build. The order of the required services is that of
type names in a `std::set`, hence free in the model. `log` is a history variable. Left out: the destructor and the
satellite programs, which are cleared with the services, and the leak of a pass object skipped by an exception.

### StructuredCode, FlowGraph, DominanceFrontier, SSAForm

`StructuredCode` has subroutine bodies as trees and, independent of any code here, the order in which the C language
runs their parts (`Steps`). `FlowGraph` is the constructor of ControlFlowGraphEx: `buildBlock` and its recursion are
`frames`, one action per thing the innermost call does (`Pass`, `Begin`, `Extend`, `Grow`, `Found`, `Split`, `BuildBranch`, `Link`,
`Leave`, ...); `intoBlock`, `next` and `skip` are the walk through the tree. A vector that is entered in the middle is
split while outer calls keep its address, and a null pointer stands among the successors as it does in the code.
`GraphTrue` compares the finished graph with `Steps`.

`DominanceFrontier` is `buildDoms` (one step per block of a sweep), `idom` and `buildDomf`, with dominance defined as
"every way from the first block passes". `SSAForm` composes them, follows `placePhis` and `indexVars` (its calls are `trail`; `indexVars`, `numberElement`, `passOn` and
`popNumbers` are the parts of a call) down and up the dominator tree, and then runs the program twice at once: with its variables, and with the numbered values in
their place. `NamesRight` says that a use reads the number whose value the variable holds, whatever way the program
takes. The code does not iterate the frontier (section 6), so `NamesRight` asks this of variables whose phi functions
are where values meet (`WellPlaced`), and of all variables that no use is numbered from an empty stack
and no place of a phi function is asked for a statement it has not.
`SSAVarMap` refuses a body in which a variable may be read before it is assigned ("Using of uninitialized variable"); this check is
left out, so every body is taken, those the code refuses included.

The constructor is asserted to end (`Completes`). Not built into the bodies: `switch`, calls, initialised declarations,
several variables of one name (the code numbers by declaration), and the three cases of section 6 in which the graph is
known to be wrong (a `do-while`, a jump forward out of a branch, and a block right after declarations).

### BlockAffine, MessagePassing, DataDistribution, NeighbourSweeps

`BlockAffine` has the numbers: which process owns a block, how blocks group into cells, the sizes printed for `malloc` and for
the calls, and the indices printed for the copies. `MessagePassing` is external: `MPI_Isend`, `MPI_Irecv` and `MPI_Wait`
with the guarantees the generated code relies on. There is one communicator and one tag, messages between two processes
keep their order, a message may be taken from its buffer early or at delivery (so a buffer reused before the wait sends
`Junk`), a receive takes the first message of that sender.

`DataDistribution` builds the statements of each process as the generators do (`Scatter`, the sweeps with the exchange
of edges, `Gather`) and runs them. Values are pairs of an index and the sweep that computed it, so an edge that is too
old, too new or of another block is noticed. Statements that touch only local memory run together with the call before
them, as no other process can see the difference. `NeighbourSweeps` is the promise: a process starts a sweep when those
it reads from have finished the one before. `ImplementsSweeps` is checked: two
neighbours are at most one sweep apart, so messages of at most two sweeps are under way between them.

The part of a process is allocated by a function of its own (`NewArrayLength`), which rounds up where the other sizes round down; the
sizes of the run divide evenly. One process has index expressions of its own (`LocalOfOne`); those the code simplifies further when
every index has the form `i * d + j` are left out. The distributions have one cell on each axis, and none has several blocks in a
process together with edges: with either the code goes wrong (section 6), so no run that passes can have them.

### LoopNest, DependenceGraph, ParallelLoops, RegroupedLoops, MarkedLoop

`LoopNest` is no code: a loop with assignments, inner loops and conditions, and what running it in order means.
`DependenceGraph` builds the graphs: Lamport's with the GCD test and Banerjee's test at every level, Montego's, which
asks an integer solver (taken as exact), both optionally refined by lattice graphs (also taken
as exact), and the subgraph of a loop by carriers. `ParallelLoops` has one action per part of a marker: `markLoops`,
`makePrivatization`, `recognizeReduction`, `analyse`. `RegroupedLoops` has `LoopDistribution` (components of the refined
Montego graph, ordered by the search that starts again after each) and `LoopFusion` (by the Lamport graph; a refusal
keeps the joined first loop and the second one). `MarkedLoop` executes what comes out: on processors an iteration is a
process with a step for reading operands and one for assigning, on lanes all iterations read and then all assign, and
regrouped loops run in order. A value is known by the run that wrote it, a sum by the runs it adds up.

`ArrowsComplete` compares the graph with what the runs really touch. `AsInOrder` says that every read and every final
value is that of the sequential program. Two guards name loops the analysis is known to be wrong about (section 6) and leave
them out: `CountsFromOne` for Lamport graphs, `ReusedInside` on lanes.

## 4. Runs

| Run | Bounds | States | Shows |
|---|---|---|---|
| `handles` | 2 nodes, 4 cells, 3 strong handles and `operator=`'s temporary, 2 weak handles; one node has a strong and a weak member | 212,743 | all properties of the handle layer, the refinement of `Ownership`, and that cascades end |
| `list` | 3 nodes, 2 lists, 1 iterator | 14,710 | `Consistent`: links, ends and counts agree, a node is in one list, references balance, removed nodes can be used again; refinement of `NodeSequences`; placement beside an iterator. Three nodes give a first, a middle and a last |
| `blocks` | 3 statements, 2 blocks, a goto inside a statement, a case label, 1 label name | 44,980 | parents, jumps and labels; refinement of `EditedProgram`. Fragments of two statements; four statements (a fragment of three) take more than the five minutes a run should take |
| `blocks_swapping` (violation) | the same, 2 label names | | section 6 |
| `services` | 2 programs, 4 states, 3 containers, 2 edits each, symmetric | 9,716 | pointer, ownership and answers; two programs share notes, the third container is the one built before the old is freed |
| `reshaping` | 5-bit counter, factors to 4, every bound of the type; nests with bounds -1..2 | 44,596 | every form against `OriginalLoop`; the unified nest has the same pairs in the same order and ends |
| `unrolling` (violation) | the same loop | | section 6 |
| `passes` | the passes of the repository and a client's, any list of up to two with or without generator and serializer, two runs | 14,904 | requirements, services, order, termination |
| `ssa` | 165 bodies: branches and loops nested twice, early returns, a block with its own variable, backward jumps into and around loops, a first block that is jumped back to from one place or two; 2 variables, 2 values | 58,639 | the graph, dominators, frontiers, numbers, and all ways of the program. Two values are enough to tell a right number from a wrong one |
| `distribution` | 8 distributions: 1, 2 or 3 processes on a line or a plane, edges from one side, both, diagonal or none, write at the point or beside it, up to 3 sweeps | 35,453 | sizes, edges, the array in the end, the refinement of `NeighbourSweeps`, that all processes end. Three processes give one with two neighbours; three sweeps let messages of two sweeps meet |
| `distribution_cells` (violation) | 2 processes with two cells each | | section 6 |
| `parallel` | 5,116 loops of 3 iterations, inner loops of 2: subscripts up to two apart, both directions; scalars in every grouping of two assignments and many of three; each marked for processors and lanes with four graphs; about 3,000 of them rows of assignments to distribute (from 0) or fuse (from 1) | 270,777 | no array dependence is missing; what is marked, cut or joined does what it did in every order. Three iterations tell a distance of one from one of two. Fusion accepts 614 of its rows and refuses 807 |

Deadlock is checked in the handle, list, block and service runs. The others stop when the loop has ended, the runs are
used up, the program has left its body, or all processes are through.

**Fairness.** For the compiler it says that a call that has begun is executed to its end: `WF_vars(Unwind)` for
statements interrupted by destructors, `WF_vars(Step)` for a `run()` in progress, `WF_vars(Analyse)` for the constructor
of the SSA form; and for generated loops `WF_vars(Next)`, or `RunLoop` and `RunNest` where there are two. For MPI code
it is `WF_vars(Progress)`: as long as some process can run or some message be delivered, one of these happens. A message
need never be taken early, so nothing may rely on that. Nothing is assumed of callers. The parallel loops
have no liveness property: an iteration never waits for another.

**Bounds.** `MaxEdits`, `MaxFactor`, `MaxInt`, `Bounds`, `MaxRuns`, `MaxProcesses`, `Sweeps`, the menus of bodies, distributions and
loops, and the sets of addresses are the only ones. The counts of the handles are bounded by the number of handles, and
channels by what the programs send.

## 5. What is proved

Each proof module shows `Spec => []IInv` (or its parts) for an inductive invariant, and the theorems from that. TLC
checked these invariants on the runs before they were proved.

**Handles.** `RepriseHandlesProofs` proves, for any sets of nodes and cells and any finite sets of handles and members,
`TypeCorrect`, `MemorySafety`, `ReferencesCounted`, `CellsCountedExactly`, `WeakHandlesHonest` and the refinement
`CountersImplementOwnership`. The counts alone are not inductive. The invariant `IInv` joins:

- `Core`: a node's count is the number of its owners; a cell's count is the number of weak handles plus the owners of
  its node; two live nodes never share a cell; a freed cell has no referent; a weak handle with an unexpired cell is
  bound to the live node of that cell;
- `MembersFreed`: members of freed nodes are empty, so a new node at the address starts with empty members;
- `UnownedAnchored`: a live unowned node with a cell is observed from the stack (what the callers owe, kept by every step);
- `ResetPending`, `AssignPending`: while `reset` or `operator=` is interrupted by a cascade, its handle and argument are
  kept by something the cascade cannot reach.

Counting is done through `FiberCount` and `FiberUpdate` (how the number of handles with a given value changes when one
handle changes), from the library's facts on finite sets. The refinement follows from the invariant: every step of a
cascade frees only what `Ownership` no longer sees anyone own. Assumption used: `HandlesAssumption`.

**Lists.** `IntrusiveListProofs` proves, for any nodes, lists and iterators, `ListsAreConsistent`, `NodesAreAddedBeside` and
the refinement `LinksImplementSequences`. The invariant is `Strings(Order)`: the walks along `next` are sequences without
repetition and disjoint, `prev` is their converse, the ends are theirs, and exactly the listed nodes are referred to by a
list; while `clear()` runs, its pointer is on the first node. `Walk` follows links and is recursive; `WalkIs` shows, by the
principle of the least number (`LeastNatural`), that any sequence whose neighbours are linked is what `Walk` finds. Each
relinking (in the middle, at either end, into an empty list) is then shown to turn the sequence into the one
`SequenceEdits` writes (`Inserted`, `Removed`), which is what `NodeSequences` asks for.

**Statements.** `StatementBlocksProofs` proves, for any statements, blocks, labels and jumps, `TypeCorrect`, `ParentsAreTrue`,
`JumpsAreSound` and the refinement `EditsAreSingle`. The invariant joins `Shape` (no statement is listed twice, parents are true), `EditShape` (during a swap one
of the three statements stands outside and is held by `swapStmts`, and none has gotos; during a gathering what is left to
move stands before the new statement, has no gotos and nothing jumps to it), `LabelsUnique`, `Landing` (`JumpsLand` without its
condition: jumps land in the middle of an edit too) and `Departed` (deleted statements have no gotos in force). It is the
guards `WithoutGotos` of the swap and `EnteredAtFirst` of the fragment that `Landing` needs; without the first it fails, as
`blocks_swapping` shows. For the refinement every action is matched with one step of `EditedProgram` or with none: only the
third step of a swap is `Swap`, the earlier ones leave the blocks as `Before` shows them; a fragment of one statement is
`Substitute`, a longer one is `Gather` at its first step, and each later step takes the head of what `Outcome` has moved
already. The lemmas on sequences this needs (`PartMarked`, `PartShortened`, `PartEnds`) are in `SequenceEditsProofs`.
Assumption used: `BlocksAssumption`.

**Analysis services.** `AnalysisServicesProofs` proves, for any programs, states, containers and numbers of edits, `TypeCorrect`,
`ContainersAreSafe` and `AnswersAreCurrent`. The invariant says that the notes of the two services come and are shared
together (`NotesPaired`), that only a program in `cloned` shares them (`OthersUnshared`), that the alias states on programs
have the containers one each (`AliasOwns`) and all of them (`NoneLeaked`), and what a synchronised state says: the container
is filled (`SyncedFilled`) and describes its program since the last announcement (`SyncedCurrent`). Assumption used: `DescriptionsAssumption` (a
description is not one of the marks for "free" and "unfinished").

**Passes.** `PassManagerProofs` proves, for any passes, requirements, registry and lists, `TypeCorrect`, `ServicesOfThisProgram`,
`RequirementsPrepared` and `PassesInOrder`. `Prepared` becomes inductive with `Provided` (every service that exists was
added by a pass in the log) and `FramesReady` (for every call on the stack, a required service is still to be looked at, or
exists, or is the one the call above is to bring in). `InOrder` needs `BottomCall` (the lowest call is that of the pass the
list has come to, the calls above were brought in) and counts the log's own entries (`OwnIn`). Assumption used:
`PassAssumption`.

**Flow graph, dominators, numbers.** `SSAFormProofs` proves four theorems for any bodies and variables. `TypesAreCorrect`: `FlowInv` and `VectorInv`
say that the lists of blocks, contents and successors fit together, that no vector is empty, that a successor is a vector or the
null pointer, and that a waiting call's first stash is held by some vector (`Holds`), which splitting a vector keeps although the
call's own vector loses it; `TrailInv` says that the pushes of the calls of `indexVars` add up to the heights of the stacks
(`Adds`), so that popping never takes more than is there and the stacks are empty in the end. `DominatorsAreExact`: when the
sweeps settle, a block's list holds exactly the blocks that every way to it passes. `SweepInv` is the argument: the first block
has only itself, every block has itself, no real dominator is ever removed, and while `changed` is false every block behind the
cursor already is the intersection of its predecessors; a sweep without change leaves a fixed point, which a way that avoids a
listed block would contradict. `FrontiersAreTrue`: dominance is transitive and antisymmetric, and the dominators of a block are
a chain (`DominatorsChained`), so the counting of `buildIncDom` finds the nearest (`HasIdom`, `IdomsAre`); the climb is
recursive along the tree, and `ClimbIs` shows by the number of dominators that whatever solves its equation is the part of the
tree below the immediate dominator; `FrontierIs` puts them together. Two things it needs were wrong or missing before the proof:
that every block is reached (`Reached`, which `GraphTrue` checks of the graphs), and the exception of a first block that one
place alone jumps back to (section 6).

`NamesAreRight` is about the numbers: in a true graph, a use of a plain variable reads the number whose value the variable
holds, whatever way the program takes, if its phi functions are where its values meet. It is the second half of `NamesRight` for
variables that are plain (`Plain`): visible in every block, declared in none but the first, and changed by no `i++`. The proof names
the number `N[b][i]` that is in force before each element of each block and goes in three parts.
While `indexVars` runs, `NamesInv` says that such a numbering exists as far as the calls have come (`L`): elements
were numbered from it (`Along`), a block was entered with its phi function's number or that of its immediate dominator (`Entered`),
its successors' phi functions were given the one it ends with (`Handed`), the calls are a way down the tree with
all that is left in them (`Walked`), and each stack, cut to the height `H` of a call, has the number of that call's place on top
(`Stacked`); popping is right because of these heights, and a child is numbered from the block above it because the stack is as
high as it was. When the calls are through, every block has been visited (`AllVisited`), and the numbering holds along every
edge, not only along the tree (`Certified`). This is the crux, `OneArrives`: where a block has no phi function, every predecessor
ends with the number its immediate dominator ends with. Between dominator and predecessor, the block with the fewest
dominators whose last number differs would assign or have a phi function (`HoldsThrough`), its dominance would end at the join, and
the join would have a phi function after all. While the program runs, `RightInv` says that the number in force at the
place reached, if there is one, holds the variable's value, and a use is numbered only where there is one. A block that
is entered without a number (nothing was assigned yet) makes no claim until something is.

Constants' assumption used: `DataAssumption` (no variable is the mark for "none"). The theorem leaves to TLC
variables declared in an inner block (the place of a phi function then depends on scopes, and the scoping of the code is
an induction over paths), those changed by `i++`, that `phase` is never `undefined`, and that graphs are true.

**Reshaped loops.** `LoopProofs` proves, for a counter of any width (`MaxInt`), any bound, step and factor, `LoopTypeCorrect`,
`CounterIsLeft` and `ReshapingIsFaithful`: strip mining, the eight forms of nesting, full unrolling and canonisation run the
iterations of the original, each once, in order, and are left only after the last. The argument has two halves. The first is
arithmetic: `Planned` shows for each family of limits that consecutive strips meet (`Through(k)` iterations are through before
strip k, and the inner loop runs from there to `Through(k + 1)`), that the copies of the body compute the counter of that
position, that nothing wraps as long as `Fits` holds, and that the tail covers the rest; `Idles` shows for n <= 0, where the
truncating division rounds the other way, that every strip and the tail are empty. The second half is the invariant `LoopInv`,
which says at each place how many iterations are through. `Idling` is a part of its own because the outer loop of a
form bounded by h runs for negative n too. `Fits` cannot be dropped, the sums under the rounded quotients would wrap. That
the generated loops end (the rest of `ImplementsOriginal`) is liveness and stays with TLC. Assumptions used: `MaxIntAssumption`,
`FactorAssumption` (a factor is a positive number of the type).

**Unified nests.** The same module proves, for nests with any integer bounds but those reversed in both directions,
`NestIsInOrder` (when the unified loop has ended, its pairs are `NestOrder`) and, with the loops above, `ProgramTypeCorrect`
for the program `TransformedProgramMC` runs. The invariant `NestInv` says that the pairs so far are those that division and
remainder give for 0 to s - 1, and that s has not passed the product of the extents, which is positive only where both are
(`Extents`; this is where nests reversed in both directions have to be left out). `RowsInOrder` shows that these pairs are the
rows one after another: `FlattenSeq` is recursive, and `FlattenIs` shows by `LeastNatural` that whatever solves its equation
is what it returns. That the unified loop ends (the rest of `NestCompleted`) stays with TLC. Assumption used: `BoundsAssumption`.

**Dependence graphs.** The last part of `LoopProofs` proves `ArrowsAreComplete`: `ArrowsComplete` holds for every nest, with
any number of assignments, groups and iterations and any integers as coefficients, and for each of the four graphs. Two runs
that touch one element pass the GCD test, as the counters' products are all multiples of the divisor (`GCDIsSound`), and
Banerjee's, as each loop's part of the difference stays between the bounds the test adds up: one argument for the loops
whose counters are equal, one for the loop that carries the dependence and one for the loops inside (`BanerjeeIsSound`,
`ApartIsBounded`). So the level of the carrier is found (`LevelsAreFound`). A run follows another exactly if there is such a
level, or if all common counters are equal and the text orders them (`FollowsAtLevel`, `AtLevelFollows`), which is the case that
`BuildFlowAntiDeps` and `BuildOutDep` leave to one of their two directions (`LamportTests`). The lattice graphs drop no arrow of two
runs that meet (`RefinedKnows`). `FoldFunction`'s sum is recursive; `SumIs` shows for the three terms a subscript has what
solves its equation. The invariant `ArrowsInv` adds that a loop to be marked is one of `Nests`. Assumptions used:
`NestsAssumption` (a subscript has a coefficient for each loop around it and a variable is always a scalar or
never, as declared; and a nest that is marked is one loop) and `KindsAssumption` (there are four graphs). The guard
`CountsFromOne` is used where Banerjee's test is: it is not sound from 0 (section 6).

**Only model-checked.** Liveness and `ENABLED` are outside TLAPS's reach, and so is induction over data: the library's induction
theorems take an operator as a parameter. Where an induction over positions is enough, `LeastNatural` replaces it; the
folds that place blocks and the truth of the flow graph against `Steps` go beyond that. So
these stay with TLC: that the generated and the unified loops end,
`GraphTrue` and what `NamesAreRight` leaves of `NamesRight`, what marked, distributed and fused loops do (`AsInOrder`), and everything
about messages. `GraphTrue` is checked for the menu of bodies and
is not true of every one: a forward jump or a `do-while` gives the graph an element twice, a block after declarations is skipped (section 6), and a call that returns
may then find another vector than its own.

## 6. Findings

Shown by runs:

- `blocks_swapping`: a swap of a statement that contains a goto with the goto's target leaves the goto on a statement
  without a label. `maySwapStmts` guards the one caller in this tree; `swapStmts` is exported by `Shared/StatementsShared.h` without it.
- `unrolling`: the copies of the body use a counter the generated loop never assigns, and the tail overruns the bound.
- `distribution_cells`: with several cells on one axis a process has memory for one block per cell but addresses each cell
  by its width, so the second block lies past the end (`BlockAffineDataDistributionParameters.cpp:527`).

Seen while reading and modelling, and stated here only. Where a model had to step aside, the guard is named.

*Program and services*
- `checkNode` raises "already in some list" but accepts the only node of another list (`Collections.h:608`); the model's
  callers satisfy `Unshared` and never rely on it.
- `isFragment(s, s)` accepts an erased statement (`ProgramFragment.cpp:24`), since `erase` leaves the parent pointer.
- The occurrence service subscribes the alias service to itself instead of itself to the alias service, so a notice to
  one does not reach the other; `AnswersCurrent` speaks of notices to the occurrence service.
- A clone of an analysed program answers from the original's container, as copied notes share their objects;
  `AnswersCurrent` leaves out programs in `cloned`. `ProgramContext::addMetaInformation` replaces an entry without
  freeing it, and clones share the context (`ProgramContext.cpp:100`).
- A pass named in the list after one that brought it in adds its service again, which the assertion of `addService`
  refuses in a debug build and which leaks the first service in a release build (`Passes.cpp:193`).

*Analyses*
- The frontier is not iterated and the list of assigning blocks is started again inside the loop (`SSAForm.cpp:526`), so
  phi functions may be missing (`WellPlaced`); `i++` is not counted as an assignment (`SSAForm.h:23`); a join that begins
  with a declaration is asked for its statement (`SSAForm.cpp:600`).
- A block counts as a join when it has two predecessors (`DominanceFrontierGraph.cpp:111`), so a first block that one place
  jumps back to, where the way that enters the body meets the way back, is in no frontier (`FrontierTrue` makes the exception).
- The flow graph skips the condition of a `do-while` and visits the target of a forward goto twice
  (`ControlFlowGraphEx.cpp:501`). When the first statement of a block with declarations is a block, the last declaration is
  followed by what comes behind that block, as `skip` takes it for its closing bracket (`:397`; elsewhere `intoBlock` is called).
- Banerjee's test takes counters to start from 1 (`DepGraph.cpp:1310`; `CountsFromOne`); the sums of the unmapped GCD
  and Banerjee tests are not reset for each dimension.
- On lanes a statement that reads and assigns one array in an inner loop is not refused (`Analysers.cpp:298`;
  `ReusedInside`). For a reduction any operator passes, unary ones too. The check for machines with distributed memory tests the
  opposite of what `include/Analysis/ParallelLoops.h` says (`Analysers.cpp:224`).

*Transformations*
- Unification runs the block for two reversed loops, which are both empty (`LoopNestUnification.cpp:98`).
- With three axes two blocks may share an ordinal (`BlockAffineDataDistributionParameters.cpp:523`).
- The rewritten references divide by the width of a cell twice (`BlockAffineDataDistribution.cpp:650`), so with two cells on an axis
  the elements of the second are looked for in the first. Given two processes, a 4 x 2 array and blocks of one element, the model
  violates `HalosFresh` and `Restored` but not `WithinBuffers`.
- The copies out of a received edge address a block by the size of the whole edge instead of the block's share
  (`MPIDataDistributionIteration.cpp:536`), so a process with several blocks reads past the buffer. Given a 2 x 2 array, blocks of one
  element and a reference to the right, the model violates `WithinBuffers`.
- For one process the references are rewritten without the overlap on the left (`BlockAffineDataDistribution.cpp:1008`), which the
  scatter and the gather count: given a reference to the left, the model violates `HalosFresh` and `Restored`.
- A fusion that is given up keeps the copies in the first loop and the second loop behind it, although the comment says
  that the changes are annulled (`LoopFusion.cpp:99`, `:136`); the model does as the code does, in `phase` "refused".
- `LoopSplitting.cpp:62` starts the second loop at the larger of bound and split point, so iterations are lost.
- `makeLoopInterchange` replaces back into the outer loop and changes nothing (`LoopInterchange.cpp:22`);
  `LoopFragmentation.cpp:281` has a version of its own, `LoopNestBlocking.cpp:140` uses the broken one. `loopFragmentation` asks
  whether it may interchange before it steps to the parent, so about the wrong pair (`:185`), and loses what
  `canDeleteTail` was (`:130`).
- `LoopCycleOffset` assigns the counter its last value before the statements it moves out (`LoopCycleOffset.cpp:170`) and
  compares addresses of statements to order them (`:130`).
- The hub passes "check" options as "disable check" (`TransformsHub.cpp:359`).

## 7. Not modelled

- Parsing, printing, files, settings, external compilers: text and I/O. What the back ends take for granted of
  labels and parents is checked by `StatementBlocks`.
- Values of expressions other than index arithmetic; types and layouts; algebra on linear forms and recurrences.
- The lattice-graph and integer solvers, which are taken to answer exactly: their trees of quotients and their tables have
  no steps worth interleaving, and their correctness is one of arithmetic on unbounded integers.
- Of the dependence graphs: unknown bounds, several dimensions, subscripts that are not linear, symbolic conditions,
  calls, aliased variables. Of parallel loops: distributed memory (SIDM, MIDM) and private pointers. Of distribution and
  fusion: the new arrays that break dependences.
- Of the distribution: three axes (two blocks may share a place, section 6), the older `Block` variant, pragmas.
- Fragmentation, interchange, blocking, cycle offset, splitting, header removal, recurrent loops: section 2 says which of them are worth
  a module; section 6 what reading them showed.
- Points-to analysis, plugins, events, `ProgramContext`: planned.

Most lines of the source tree are vendored (Google Test, clang headers), generated (parsers and tables of `LatticeGraph`), parsing,
printing or node classes, so the modelled share of all lines is small; what is modelled is the program's own control.
