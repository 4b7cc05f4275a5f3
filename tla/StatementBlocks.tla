---------------------------- MODULE StatementBlocks ----------------------------
(***************************************************************************)
(* Statements in their blocks: BlockStatement (source/Reprise/Statements), *)
(* ProgramFragment, and the edits of source/Reprise/ServiceFunctions and   *)
(* Shared/StatementsShared that replace, gather and swap statements while  *)
(* labels, and the jumps to them, must keep their place.                   *)
(*                                                                         *)
(* A block's list is the sequence NodeSequences promises.  What the list   *)
(* does not know is the parent pointer of a statement, which BlockStatement*)
(* sets before it calls the list, whether the list then throws or not.     *)
(***************************************************************************)
EXTENDS SequenceEdits, FiniteSets

CONSTANTS
  Stmts,     \* addresses a statement may have
  Blocks,    \* the blocks of one subroutine body
  Gathered,  \* the block replaceProgramFragment() creates
  Gotos,     \* goto statements
  Cases,     \* case labels of the switch statements around the blocks
  Site,      \* the statement a goto is in, Null if it is in another of the body
  Labels,    \* label names
  Null

ASSUME BlocksAssumption ==
  /\ Gathered \notin Blocks /\ Gotos \cap Cases = {}
  /\ Null \notin Stmts \cup Blocks \cup {Gathered} \cup Labels
  /\ Site \in [Gotos -> Stmts \cup {Null}]

VARIABLES
  body,      \* the statements of each block
  parent,    \* m_parent of a statement
  label,     \* m_label of a statement, or Null
  held,      \* the statements a caller holds a ReprisePtr to
  target,    \* m_pointed of a goto, m_statement of a case label: weak handles
  gather,    \* the loop of replaceProgramFragment: its block, itStmt, endIter
  swap       \* the progress of swapStmts: its statements and the next step

vars == <<body, parent, label, held, target, gather, swap>>

Jumps  == Gotos \cup Cases
Places == Blocks \cup {Gathered}

NoGather == [from |-> Null, at |-> Null, stop |-> Null]
NoSwap   == [one |-> Null, two |-> Null, tmp |-> Null, step |-> 0]

TypeOK ==
  /\ body   \in [Places -> Seq(Stmts)]
  /\ parent \in [Stmts -> Places \cup {Null}]
  /\ label  \in [Stmts -> Labels \cup {Null}]
  /\ held   \subseteq Stmts
  /\ target \in [Jumps -> Stmts \cup {Null}]
  /\ gather \in [from : Blocks \cup {Null}, at : Stmts \cup {Null}, stop : Stmts \cup {Null}]
  /\ swap   \in [one : Stmts \cup {Null}, two : Stmts \cup {Null},
                 tmp : Stmts \cup {Null}, step : 0..3]

Init ==
  /\ body   = [b \in Places |-> <<>>]
  /\ parent = [s \in Stmts |-> Null]
  /\ label  = [s \in Stmts |-> Null]
  /\ held   = {}
  /\ target = [j \in Jumps |-> Null]
  /\ gather = NoGather
  /\ swap   = NoSwap

-----------------------------------------------------------------------------
Idle == gather = NoGather /\ swap = NoSwap

In(s, b)  == \E i \in 1..Len(body[b]) : body[b][i] = s
Listed(s) == \E b \in Places : In(s, b)
Exists(s) == s \in held \/ Listed(s)

InProgram(s) == \E b \in Blocks : In(s, b)

Position(b, s) == CHOOSE i \in 1..Len(body[b]) : body[b][i] = s

\* The gotos in statement s, and the jumps that are part of the program.
Within(s)  == {j \in Gotos : Site[j] = s}
InForce(j) == j \in Gotos => Site[j] = Null \/ InProgram(Site[j])

\* Mutant: a jump is deleted with the statement it lands on.
JumpsDeleted(dead) == [j \in {k \in Jumps : target[k] \notin dead} |-> target[j]]

\* When a statement is deleted the handles to it expire and its gotos are
\* gone.
Surviving(dead) ==
  [j \in Jumps |-> IF target[j] \in dead \/ (j \in Gotos /\ Site[j] \in dead)
                  THEN Null ELSE target[j]]

\* IntrusiveList::checkNode: a statement that is alone in another block is
\* not noticed.
Refused(b, s) ==
  \/ In(s, b)
  \/ \E k \in Places : In(s, k) /\ Len(body[k]) > 1

\* What a goto or a case label of the program must find.
Lands(j) == /\ InProgram(target[j])
            /\ j \in Gotos => label[target[j]] # Null

-----------------------------------------------------------------------------
(* What the callers owe.                                                   *)

\* A statement enters one block ...
Outside(b, s) == \A k \in Places \ {b} : ~In(s, k)

\* ... with no goto in it that would not land, unless on itself.
Settled(s) ==
  \A j \in Within(s) :
    \/ target[j] = Null \/ Lands(j)
    \/ target[j] = s /\ label[s] # Null

\* A statement that a jump lands on is not thrown away.
Unjumped(s) == \A j \in Jumps \ Within(s) : InForce(j) => target[j] # s

\* The statements from s to t have no jump to them but gotos to s, and no
\* goto in them.
EnteredAtFirst(s, t) ==
  \A i \in Position(parent[s], s)..Position(parent[s], t) :
    LET r == body[parent[s]][i]
    IN /\ \A j \in Jumps : target[j] = r => r = s /\ j \in Gotos
       /\ \A j \in Within(r) : target[j] = Null

-----------------------------------------------------------------------------
Create(s) ==
  /\ Idle /\ ~Exists(s)
  /\ held'   = held \cup {s}
  /\ parent' = [parent EXCEPT ![s] = Null]
  /\ label'  = [label EXCEPT ![s] = Null]
  /\ UNCHANGED <<body, target, gather, swap>>

Hold(s) ==
  /\ Idle /\ Listed(s) /\ s \notin held
  /\ held' = held \cup {s}
  /\ UNCHANGED <<body, parent, label, target, gather, swap>>

LetGo(s) ==
  /\ Idle /\ s \in held
  /\ held'   = held \ {s}
  /\ target' = IF Listed(s) THEN target ELSE Surviving({s})
  /\ UNCHANGED <<body, parent, label, gather, swap>>

\* A jump of the program is made to land on a statement, which gets a label
\* if a goto needs one: setUniqueLabel().
Jump(j, s, name) ==
  /\ Idle /\ InForce(j) /\ InProgram(s)
  /\ IF j \in Cases \/ label[s] # Null
     THEN label' = label
     ELSE /\ \A r \in Stmts : Exists(r) => label[r] # name
          /\ label' = [label EXCEPT ![s] = name]
  /\ target' = [target EXCEPT ![j] = s]
  /\ UNCHANGED <<body, parent, held, gather, swap>>

\* addFirst(), addLast(), addBefore() and addAfter(): s becomes the i-th
\* statement of b, or the list throws.
Add(b, i, s) ==
  /\ Idle /\ Exists(s) /\ i \in 1..Len(body[b]) + 1
  /\ parent' = [parent EXCEPT ![s] = b]
  /\ body'   = IF Refused(b, s) THEN body ELSE [body EXCEPT ![b] = Inserted(@, i, s)]
  /\ UNCHANGED <<label, held, target, gather, swap>>

\* erase(): the parent pointer stays.
Erase(b, s) ==
  /\ Idle /\ In(s, b) /\ Unjumped(s)
  /\ body'   = [body EXCEPT ![b] = Removed(@, Position(b, s))]
  /\ target' = IF s \in held THEN target ELSE Surviving({s})
  /\ UNCHANGED <<parent, label, held, gather, swap>>

-----------------------------------------------------------------------------
(* Editing::replaceStatement, of a statement in a block.  A statement that *)
(* is no block's, the body of a subroutine or of a for statement, is put   *)
(* in its place by a setter (setBodyBlock, setBody) and is not modelled:   *)
(* the blocks here are never replaced.                                     *)

\* findAllGotos(): the gotos below the root block of block b.
Found(b) ==
  {j \in Gotos : IF b = Gathered THEN In(Site[j], b) ELSE InForce(j)}

\* The label is d's from then on, the gotos to s that are found land on d, if
\* s had a label, and so do the case labels at s.
Relabelled(s, d) ==
  IF label[s] = Null THEN label ELSE [label EXCEPT ![d] = label[s], ![s] = Null]

\* Mutant: the gotos are left on the statement that is replaced.
GotosLeft(s, d) == target

GotosMoved(s, d) ==
  [j \in Jumps |-> IF target[j] = s /\ label[s] # Null /\ j \in Found(parent[s])
                  THEN d ELSE target[j]]

\* Mutant: the case labels are forgotten.
CasesForgotten(s, d) == GotosMoved(s, d)

Redirected(s, d) ==
  [j \in Jumps |-> IF target[j] = s /\ j \in Cases THEN d ELSE GotosMoved(s, d)[j]]

\* Mutant: the list is told of d, d is not told of its parent.
ReplaceInListOnly(s, d) ==
  LET b == parent[s]
  IN /\ b # Null /\ In(s, b) /\ d # s /\ Exists(d)
     /\ label'  = Relabelled(s, d)
     /\ body'   = [body EXCEPT ![b] = Replaced(@, Position(b, s), d)]
     /\ parent' = [parent EXCEPT ![s] = Null]

\* BlockStatement::replace puts d before s and erases s, which has no parent
\* from then on and is returned to the caller.
Replace(s, d) ==
  LET b == parent[s]
  IN /\ b # Null /\ In(s, b) /\ d # s /\ Exists(d)
     /\ label'  = Relabelled(s, d)
     /\ IF Refused(b, d)
        THEN parent' = [parent EXCEPT ![d] = b] /\ UNCHANGED body
        ELSE /\ body'   = [body EXCEPT ![b] = Replaced(@, Position(b, s), d)]
             /\ parent' = [parent EXCEPT ![d] = b, ![s] = Null]

ReplaceStatement(s, d) ==
  /\ Idle /\ ~Listed(d) /\ Settled(d)
  /\ \A j \in Within(d) : target[j] # s
  /\ Replace(s, d)
  /\ target' = Redirected(s, d)
  /\ held'   = held \cup {s}
  /\ UNCHANGED <<gather, swap>>

-----------------------------------------------------------------------------
(* swapStmts(): an empty statement stands in while two change places.      *)

SwapBegin(one, two, tmp) ==
  /\ Idle /\ one # two /\ InProgram(one) /\ InProgram(two) /\ ~Exists(tmp)
  /\ swap'   = [one |-> one, two |-> two, tmp |-> tmp, step |-> 1]
  /\ held'   = held \cup {tmp}
  /\ parent' = [parent EXCEPT ![tmp] = Null]
  /\ label'  = [label EXCEPT ![tmp] = Null]
  /\ UNCHANGED <<body, target, gather>>

\* The third step deletes the empty statement, which expires the handles
\* that are still on it.
SwapStep ==
  LET s == <<swap.one, swap.two, swap.tmp>>[swap.step]
      d == <<swap.tmp, swap.one, swap.two>>[swap.step]
      moved == Redirected(s, d)
  IN /\ swap.step # 0
     /\ Replace(s, d)
     /\ IF swap.step = 3
        THEN /\ swap'   = NoSwap
             /\ held'   = held \ {swap.one, swap.two, swap.tmp}
             /\ target' = [j \in Jumps |-> IF moved[j] = swap.tmp THEN Null ELSE moved[j]]
        ELSE /\ swap'   = [swap EXCEPT !.step = @ + 1]
             /\ held'   = held \cup {swap.one, swap.two}
             /\ target' = moved
     /\ UNCHANGED gather

\* maySwapStmts() lets no statement with a goto in it through.
WithoutGotos(s) == \A j \in Within(s) : target[j] = Null

-----------------------------------------------------------------------------
(* ProgramFragment and Editing::replaceProgramFragment.                    *)

\* isFragment() compares parent pointers and walks the links from s.
IsFragment(s, t) ==
  /\ parent[s] # Null /\ parent[t] = parent[s]
  /\ \/ s = t
     \/ /\ In(s, parent[s]) /\ In(t, parent[s])
        /\ Position(parent[s], s) < Position(parent[s], t)

\* The label of s, the first statement, and the gotos to it pass to d, which
\* is put after t, the last.  A single statement is then erased; several are
\* moved to a new block.
ReplaceFragment(s, t, d) ==
  LET b == parent[s]
      put == Inserted(body[b], Position(b, t) + 1, d)
  IN /\ Idle /\ IsFragment(s, t) /\ InProgram(s) /\ EnteredAtFirst(s, t)
     /\ body[Gathered] = <<>> /\ d \in held /\ ~Listed(d) /\ Settled(d)
     /\ \A j \in Within(d) : target[j] # s
     /\ label'  = Relabelled(s, d)
     /\ target' = GotosMoved(s, d)
     /\ held'   = IF s = t THEN held \cup {s} ELSE held
     /\ body'   = [body EXCEPT ![b] = IF s = t THEN Removed(put, Position(b, s)) ELSE put]
     /\ parent' = [parent EXCEPT ![d] = b, ![s] = IF s = t THEN Null ELSE b]
     /\ gather' = IF s = t THEN gather ELSE [from |-> b, at |-> s, stop |-> d]
     /\ UNCHANGED swap

\* The iterator goes on before its statement is moved.
GatherStep ==
  LET s == gather.at
      b == gather.from
      after == body[b][Position(b, s) + 1]
  IN /\ gather # NoGather
     /\ gather' = IF after = gather.stop THEN NoGather ELSE [gather EXCEPT !.at = after]
     /\ body'   = [body EXCEPT ![b] = Removed(@, Position(b, s)), ![Gathered] = Append(@, s)]
     /\ parent' = [parent EXCEPT ![s] = Gathered]
     /\ UNCHANGED <<label, held, target, swap>>

\* The caller lets go of the block it was given, when no jump is in the way.
DropGathered ==
  /\ Idle /\ body[Gathered] # <<>>
  /\ body'   = [body EXCEPT ![Gathered] = <<>>]
  /\ target' = Surviving({s \in Stmts : In(s, Gathered)} \ held)
  /\ UNCHANGED <<parent, label, held, gather, swap>>

-----------------------------------------------------------------------------
Others ==
  \/ \E s \in Stmts : Create(s) \/ Hold(s) \/ LetGo(s)
  \/ \E j \in Jumps, s \in Stmts, name \in Labels : Jump(j, s, name)
  \/ \E b \in Blocks, s \in Stmts, i \in 1..Cardinality(Stmts) :
       Outside(b, s) /\ Settled(s) /\ Add(b, i, s)
  \/ \E b \in Places, s \in Stmts : Erase(b, s)
  \/ \E s, d \in Stmts : ReplaceStatement(s, d)
  \/ SwapStep
  \/ \E s, t, d \in Stmts : ReplaceFragment(s, t, d)
  \/ GatherStep \/ DropGathered

Next ==
  \/ Others
  \/ \E one, two, tmp \in Stmts :
       WithoutGotos(one) /\ WithoutGotos(two) /\ SwapBegin(one, two, tmp)

Spec == Init /\ [][Next]_vars

\* swapStmts() called without maySwapStmts().
SwappingNext ==
  \/ Others
  \/ \E one, two, tmp \in Stmts : SwapBegin(one, two, tmp)

SwappingSpec == Init /\ [][SwappingNext]_vars

-----------------------------------------------------------------------------
(* Properties.                                                             *)

\* The parent pointer of a statement in a block names that block, on which
\* getParentBlock(), getRootBlock() and every edit rely, although it is set
\* apart from the list and before the list may refuse.
ParentsTrue == \A b \in Places, s \in Stmts : In(s, b) => parent[s] = b

\* Between two edits every goto and every case label of the program lands on
\* a statement of the program, and a goto finds a label to name there:
\* OutToC prints the label of the pointed statement without asking.
JumpsLand ==
  Idle => \A j \in Jumps : InForce(j) /\ target[j] # Null => Lands(j)

\* A label names one statement, also while a label is handed on in a swap.
LabelsUnique ==
  \A s, r \in Stmts :
    Exists(s) /\ Exists(r) /\ label[s] # Null /\ label[s] = label[r] => s = r

\* Whatever is replaced, swapped or gathered, a jump finds one statement of
\* the program to land on, under a label no other statement carries.
JumpsSound == JumpsLand /\ LabelsUnique

\* The statement that stood, before the edit under way began, where x stands.
Before(x) ==
  CASE x = swap.tmp /\ swap.step > 1  -> swap.one
    [] x = swap.one /\ swap.step = 3  -> swap.two
    [] OTHER -> x

\* The blocks as they were before a swap and as they will be after a
\* gathering.
Outcome(b) ==
  LET seen == [i \in 1..Len(body[b]) |-> Before(body[b][i])]
      q == body[gather.from]
      from == Position(gather.from, gather.at)
      stop == Position(gather.from, gather.stop)
  IN IF gather = NoGather THEN seen
     ELSE CASE b = gather.from -> SubSeq(q, 1, from - 1) \o SubSeq(q, stop, Len(q))
            [] b = Gathered    -> body[b] \o SubSeq(q, from, stop - 1)
            [] OTHER           -> seen

\* Every edit changes the sequences of statements and the places the jumps
\* land at in one step: a swap exchanges two statements and nothing else, a
\* replacement changes one, a fragment keeps its order and its neighbours,
\* and no jump moves to another place because of them.
Program == INSTANCE EditedProgram WITH
  order <- [b \in Places |-> Outcome(b)],
  lands <- [j \in Jumps |-> IF InForce(j) THEN Before(target[j]) ELSE Null]

ImplementsEdits == Program!Spec
=============================================================================
