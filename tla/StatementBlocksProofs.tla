------------------------ MODULE StatementBlocksProofs ------------------------
(***************************************************************************)
(* Proofs about StatementBlocks, for any number of statements, blocks,     *)
(* labels and jumps.                                                       *)
(***************************************************************************)
EXTENDS StatementBlocks, SequenceEditsProofs, TLAPS

-----------------------------------------------------------------------------
(***************************************************************************)
(* The inductive invariant.  Its shape relates blocks, parents and the     *)
(* edit under way; the rest says what labels and jumps are good for, also  *)
(* in the middle of an edit.                                               *)
(***************************************************************************)
Distinct == \A b \in Places : Injective(body[b])

Shape == TypeOK /\ Distinct /\ ParentsTrue

\* The statement a step of swapStmts() replaces, and the one it puts there.
Leaving  == <<swap.one, swap.two, swap.tmp>>[swap.step]
Entering == <<swap.tmp, swap.one, swap.two>>[swap.step]

\* Of the three statements of a swap the next to enter stands outside, held
\* by swapStmts(), and the other two are in the program.
Swapping ==
  /\ gather = NoGather /\ swap.step \in 1..3
  /\ swap.one \in Stmts /\ swap.two \in Stmts /\ swap.tmp \in Stmts
  /\ swap.one # swap.two /\ swap.one # swap.tmp /\ swap.two # swap.tmp
  /\ \A x \in {swap.one, swap.two, swap.tmp} : x # Entering => InProgram(x)
  /\ ~Listed(Entering) /\ Entering \in held
  /\ WithoutGotos(swap.one) /\ WithoutGotos(swap.two) /\ WithoutGotos(swap.tmp)

\* What is still to be gathered ends before the new statement, has no goto in
\* it, and nothing in the program jumps to it.
Gathering ==
  /\ swap = NoSwap /\ gather.from \in Blocks
  /\ \E i, k \in 1..Len(body[gather.from]) :
       /\ i < k /\ body[gather.from][i] = gather.at /\ body[gather.from][k] = gather.stop
       /\ \A n \in i..k - 1 :
            /\ WithoutGotos(body[gather.from][n])
            /\ \A j \in Jumps : InForce(j) => target[j] # body[gather.from][n]

EditShape == (swap = NoSwap \/ Swapping) /\ (gather = NoGather \/ Gathering)

\* JumpsLand, during an edit too.
Landing == \A j \in Jumps : InForce(j) /\ target[j] # Null => Lands(j)

\* The gotos of a deleted statement are gone.
Departed == \A s \in Stmts : ~Exists(s) => WithoutGotos(s)

IInv == Shape /\ EditShape /\ LabelsUnique /\ Landing /\ Departed

-----------------------------------------------------------------------------
(***************************************************************************)
(* What the edits of one block do to all of them.                          *)
(***************************************************************************)
LEMMA InElems == \A s, b : In(s, b) <=> s \in Elems(body[b])
BY DEF In, Elems

LEMMA InElemsAfter == \A s, b : In(s, b)' <=> s \in Elems(body'[b])
BY DEF In, Elems

LEMMA PositionIs ==
  ASSUME NEW b, NEW s, In(s, b)
  PROVE  Position(b, s) \in 1..Len(body[b]) /\ body[b][Position(b, s)] = s
BY DEF In, Position

LEMMA BlockEntered ==
  ASSUME Shape, NEW b \in Places, NEW s \in Stmts, ~In(s, b), NEW i \in 1..Len(body[b]) + 1,
         body' = [body EXCEPT ![b] = Inserted(@, i, s)]
  PROVE  /\ body' \in [Places -> Seq(Stmts)] /\ Distinct'
         /\ \A x, k : k \in Places => (In(x, k)' <=> In(x, k) \/ (x = s /\ k = b))
<1> DEFINE q == body[b]
           r == Inserted(q, i, s)
<1>1. body \in [Places -> Seq(Stmts)] /\ q \in Seq(Stmts) /\ Injective(q)
  BY DEF Shape, TypeOK, Distinct
<1>2. s \in Stmts \ Elems(q) /\ i \in 1..Len(q) + 1
  BY InElems
<1>3. r \in Seq(Stmts) /\ Injective(r) /\ Elems(r) = Elems(q) \cup {s}
  BY <1>1, <1>2, InsertedElems
<1>4. body' = [body EXCEPT ![b] = r]
  OBVIOUS
<1> HIDE DEF r
<1>5. \A k \in Places : body'[k] = IF k = b THEN r ELSE body[k]
  BY <1>1, <1>4
<1>6. body' \in [Places -> Seq(Stmts)]
  BY <1>1, <1>3, <1>4
<1>7. Distinct'
  BY <1>3, <1>5 DEF Distinct, Shape
<1>8. ASSUME NEW x, NEW k \in Places
      PROVE  In(x, k)' <=> In(x, k) \/ (x = s /\ k = b)
  <2>1. x \in Elems(body'[k]) <=> x \in Elems(body[k]) \/ (x = s /\ k = b)
    BY <1>3, <1>5
  <2> QED BY <2>1, InElems, InElemsAfter
<1> QED BY <1>6, <1>7, <1>8

LEMMA BlockLeft ==
  ASSUME Shape, NEW b \in Places, NEW s, In(s, b),
         body' = [body EXCEPT ![b] = Removed(@, Position(b, s))]
  PROVE  /\ body' \in [Places -> Seq(Stmts)] /\ Distinct'
         /\ \A x, k : k \in Places => (In(x, k)' <=> In(x, k) /\ ~(x = s /\ k = b))
<1> DEFINE q == body[b]
           i == Position(b, s)
           r == Removed(q, i)
<1>1. body \in [Places -> Seq(Stmts)] /\ q \in Seq(Stmts) /\ Injective(q)
  BY DEF Shape, TypeOK, Distinct
<1>2. i \in 1..Len(q) /\ q[i] = s
  BY PositionIs
<1>3. r \in Seq(Stmts) /\ Injective(r) /\ Elems(r) = Elems(q) \ {s}
  <2> HIDE DEF i
  <2> QED BY <1>1, <1>2, RemovedElems
<1>4. body' = [body EXCEPT ![b] = r]
  OBVIOUS
<1> HIDE DEF r, i
<1>5. \A k \in Places : body'[k] = IF k = b THEN r ELSE body[k]
  BY <1>1, <1>4
<1>6. body' \in [Places -> Seq(Stmts)]
  BY <1>1, <1>3, <1>4
<1>7. Distinct'
  BY <1>3, <1>5 DEF Distinct, Shape
<1>8. ASSUME NEW x, NEW k \in Places
      PROVE  In(x, k)' <=> In(x, k) /\ ~(x = s /\ k = b)
  <2>1. x \in Elems(body'[k]) <=> x \in Elems(body[k]) /\ ~(x = s /\ k = b)
    BY <1>3, <1>5
  <2> QED BY <2>1, InElems, InElemsAfter
<1> QED BY <1>6, <1>7, <1>8

LEMMA BlockReplaced ==
  ASSUME Shape, NEW b \in Places, NEW s, In(s, b), NEW d \in Stmts, ~In(d, b),
         body' = [body EXCEPT ![b] = Replaced(@, Position(b, s), d)]
  PROVE  /\ body' \in [Places -> Seq(Stmts)] /\ Distinct'
         /\ \A x, k : k \in Places =>
              (In(x, k)' <=> (In(x, k) /\ ~(x = s /\ k = b)) \/ (x = d /\ k = b))
<1> DEFINE q == body[b]
           i == Position(b, s)
           r == Replaced(q, i, d)
<1>1. body \in [Places -> Seq(Stmts)] /\ q \in Seq(Stmts) /\ Injective(q)
  BY DEF Shape, TypeOK, Distinct
<1>2. i \in 1..Len(q) /\ q[i] = s
  BY PositionIs
<1>3. d \in Stmts \ Elems(q)
  BY InElems
<1>4. r \in Seq(Stmts) /\ Injective(r) /\ Elems(r) = (Elems(q) \ {s}) \cup {d}
  <2> HIDE DEF i
  <2> QED BY <1>1, <1>2, <1>3, ReplacedElems
<1>5. body' = [body EXCEPT ![b] = r]
  OBVIOUS
<1> HIDE DEF r, i
<1>6. \A k \in Places : body'[k] = IF k = b THEN r ELSE body[k]
  BY <1>1, <1>5
<1>7. body' \in [Places -> Seq(Stmts)]
  BY <1>1, <1>4, <1>5
<1>8. Distinct'
  BY <1>4, <1>6 DEF Distinct, Shape
<1>9. ASSUME NEW x, NEW k \in Places
      PROVE  In(x, k)' <=> (In(x, k) /\ ~(x = s /\ k = b)) \/ (x = d /\ k = b)
  <2>1. x \in Elems(body'[k]) <=> (x \in Elems(body[k]) /\ ~(x = s /\ k = b)) \/ (x = d /\ k = b)
    BY <1>4, <1>6
  <2> QED BY <2>1, InElems, InElemsAfter
<1> QED BY <1>7, <1>8, <1>9

LEMMA WhereIs ==
  ASSUME Shape
  PROVE  /\ \A x, k : k \in Places /\ In(x, k) => x \in Stmts /\ parent[x] = k
         /\ \A x : InProgram(x) => x \in Stmts /\ parent[x] \in Blocks /\ In(x, parent[x])
         /\ \A x : Listed(x) => x \in Stmts /\ parent[x] \in Places /\ In(x, parent[x])
         /\ \A x : InProgram(x) => Listed(x)
         /\ ~InProgram(Null) /\ ~Listed(Null)
<1>1. ASSUME NEW x, NEW k \in Places, In(x, k)
      PROVE  x \in Stmts /\ parent[x] = k
  <2>1. body[k] \in Seq(Stmts)
    BY DEF Shape, TypeOK
  <2>2. x \in Stmts
    BY <1>1, <2>1 DEF In
  <2> QED BY <1>1, <2>2 DEF Shape, ParentsTrue
<1> QED BY <1>1, BlocksAssumption DEF InProgram, Listed, Places

LEMMA InForceAfter ==
  \A j : InForce(j)' <=> (j \in Gotos => Site[j] = Null \/ InProgram(Site[j])')
BY DEF InForce, InProgram, In

LEMMA LandingAfter ==
  ASSUME \A j \in Jumps : \A t :
           InForce(j)' /\ t = target'[j] /\ t # Null
             => InProgram(t)' /\ (j \in Gotos => label'[t] # Null)
  PROVE  Landing'
BY DEF Landing, Lands, InProgram, In

LEMMA IdleIs == Idle => swap = NoSwap /\ gather = NoGather
BY DEF Idle

LEMMA EditOver ==
  ASSUME swap' = NoSwap, gather' = NoGather
  PROVE  EditShape'
BY DEF EditShape

LEMMA IdleTyped ==
  ASSUME TypeOK, swap' = NoSwap, gather' = NoGather, body' \in [Places -> Seq(Stmts)],
         parent' \in [Stmts -> Places \cup {Null}], label' \in [Stmts -> Labels \cup {Null}],
         held' \subseteq Stmts, target' \in [Jumps -> Stmts \cup {Null}]
  PROVE  TypeOK'
<1>1. NoGather \in [from : Blocks \cup {Null}, at : Stmts \cup {Null}, stop : Stmts \cup {Null}]
  BY DEF NoGather
<1>2. NoSwap \in [one : Stmts \cup {Null}, two : Stmts \cup {Null},
                  tmp : Stmts \cup {Null}, step : 0..3]
  BY DEF NoSwap
<1> QED BY <1>1, <1>2 DEF TypeOK

LEMMA NothingHappens ==
  ASSUME IInv, UNCHANGED vars
  PROVE  IInv'
<1>1. UNCHANGED <<body, parent, label, held, target, gather, swap>>
  BY DEF vars
<1>2. TypeOK' /\ Distinct' /\ ParentsTrue'
  BY <1>1 DEF IInv, Shape, TypeOK, Distinct, ParentsTrue, In
<1>3. LabelsUnique' /\ Departed' /\ Landing'
  BY <1>1 DEF IInv, LabelsUnique, Departed, Landing, Exists, Listed, In, WithoutGotos, Lands,
              InForce, InProgram
<1>4. (swap' = NoSwap \/ Swapping') /\ (gather' = NoGather \/ Gathering')
  <2>1. Swapping' <=> Swapping
    BY <1>1 DEF Swapping, Entering, InProgram, Listed, In, WithoutGotos
  <2>2. Gathering' <=> Gathering
    BY <1>1 DEF Gathering, InForce, InProgram, In, WithoutGotos
  <2> QED BY <1>1, <2>1, <2>2 DEF IInv, EditShape
<1> QED BY <1>2, <1>3, <1>4 DEF IInv, Shape, EditShape

-----------------------------------------------------------------------------
(***************************************************************************)
(* Every action keeps the invariant.                                       *)
(***************************************************************************)

\* The actions that leave the blocks alone.
LEMMA CreateKeeps ==
  ASSUME IInv, NEW s \in Stmts, Create(s)
  PROVE  IInv'
<1> USE BlocksAssumption DEF IInv, Shape
<1>1. /\ swap' = NoSwap /\ gather' = NoGather /\ UNCHANGED <<body, target>>
      /\ ~Exists(s) /\ held' = held \cup {s}
      /\ parent' = [parent EXCEPT ![s] = Null] /\ label' = [label EXCEPT ![s] = Null]
  BY IdleIs DEF Create
<1>2. \A x, k : In(x, k)' <=> In(x, k)
  BY <1>1 DEF In
<1>3. \A x : /\ InProgram(x)' <=> InProgram(x)
             /\ Listed(x)' <=> Listed(x)
             /\ Exists(x)' <=> Exists(x) \/ x = s
  BY <1>1, <1>2 DEF InProgram, Listed, Exists
<1>4. TypeOK'
  BY <1>1, IdleTyped DEF TypeOK
<1>9. Distinct'
  BY <1>1 DEF Distinct
<1>5. ParentsTrue'
  BY <1>1, <1>2 DEF ParentsTrue, TypeOK, Exists, Listed
<1>6. LabelsUnique'
  BY <1>1, <1>3 DEF LabelsUnique, TypeOK
<1>7. Landing'
  <2> SUFFICES ASSUME NEW j \in Jumps, NEW t, InForce(j)', t = target'[j], t # Null
               PROVE  InProgram(t)' /\ (j \in Gotos => label'[t] # Null)
    BY LandingAfter
  <2>1. InForce(j)
    BY <1>3, InForceAfter DEF InForce
  <2>2. InProgram(t) /\ (j \in Gotos => label[t] # Null)
    BY <1>1, <2>1 DEF Landing, Lands
  <2>3. t # s /\ t \in Stmts
    BY <1>1, <2>2, WhereIs DEF Exists
  <2> QED BY <1>1, <1>3, <2>2, <2>3 DEF TypeOK
<1>8. Departed'
  BY <1>1, <1>3 DEF Departed, WithoutGotos
<1> QED BY <1>1, <1>4, <1>5, <1>6, <1>7, <1>8, <1>9, EditOver

LEMMA HoldKeeps ==
  ASSUME IInv, NEW s \in Stmts, Hold(s)
  PROVE  IInv'
<1> USE BlocksAssumption DEF IInv, Shape
<1>1. /\ swap' = NoSwap /\ gather' = NoGather /\ UNCHANGED <<body, parent, label, target>>
      /\ Listed(s) /\ held' = held \cup {s}
  BY IdleIs DEF Hold
<1>2. \A x, k : In(x, k)' <=> In(x, k)
  BY <1>1 DEF In
<1>3. \A x : /\ InProgram(x)' <=> InProgram(x)
             /\ Exists(x)' <=> Exists(x)
  BY <1>1, <1>2 DEF InProgram, Listed, Exists
<1>4. TypeOK'
  BY <1>1, IdleTyped DEF TypeOK
<1>7. Distinct' /\ ParentsTrue'
  BY <1>1, <1>2 DEF Distinct, ParentsTrue
<1>5. LabelsUnique' /\ Departed'
  BY <1>1, <1>3 DEF LabelsUnique, Departed, WithoutGotos
<1>6. Landing'
  <2> SUFFICES ASSUME NEW j \in Jumps, NEW t, InForce(j)', t = target'[j], t # Null
               PROVE  InProgram(t)' /\ (j \in Gotos => label'[t] # Null)
    BY LandingAfter
  <2>1. InForce(j)
    BY <1>3, InForceAfter DEF InForce
  <2> QED BY <1>1, <1>3, <2>1 DEF Landing, Lands
<1> QED BY <1>1, <1>4, <1>5, <1>6, <1>7, EditOver

LEMMA LetGoKeeps ==
  ASSUME IInv, NEW s \in Stmts, LetGo(s)
  PROVE  IInv'
<1> USE BlocksAssumption DEF IInv, Shape
<1>1. /\ swap' = NoSwap /\ gather' = NoGather /\ UNCHANGED <<body, parent, label>>
      /\ held' = held \ {s} /\ target' = IF Listed(s) THEN target ELSE Surviving({s})
  BY IdleIs DEF LetGo
<1>2. \A x, k : In(x, k)' <=> In(x, k)
  BY <1>1 DEF In
<1>3. \A x : /\ InProgram(x)' <=> InProgram(x)
             /\ Exists(x)' => Exists(x)
             /\ Exists(x) /\ x # s => Exists(x)'
             /\ Listed(s) => Exists(s)'
  BY <1>1, <1>2 DEF InProgram, Listed, Exists
<1>4. target' \in [Jumps -> Stmts \cup {Null}] /\ \A j \in Jumps : target'[j] \in {target[j], Null}
  BY <1>1 DEF TypeOK, Surviving
<1>5. TypeOK'
  BY <1>1, <1>4, IdleTyped DEF TypeOK
<1>9. Distinct' /\ ParentsTrue'
  BY <1>1, <1>2 DEF Distinct, ParentsTrue
<1>6. LabelsUnique'
  BY <1>1, <1>3 DEF LabelsUnique
<1>7. Landing'
  <2> SUFFICES ASSUME NEW j \in Jumps, NEW t, InForce(j)', t = target'[j], t # Null
               PROVE  InProgram(t)' /\ (j \in Gotos => label'[t] # Null)
    BY LandingAfter
  <2>1. InForce(j) /\ t = target[j]
    BY <1>3, <1>4, InForceAfter DEF InForce
  <2> QED BY <1>1, <1>3, <2>1 DEF Landing, Lands
<1>8. Departed'
  <2> SUFFICES ASSUME NEW x \in Stmts, ~Exists(x)', NEW j \in Within(x) PROVE target'[j] = Null
    BY DEF Departed, WithoutGotos
  <2>1. j \in Jumps /\ j \in Gotos /\ Site[j] = x
    BY DEF Within, Jumps
  <2>2. CASE Exists(x)
    <3>1. x = s /\ ~Listed(s)
      BY <1>3, <2>2
    <3> QED BY <1>1, <2>1, <3>1 DEF Surviving
  <2>3. CASE ~Exists(x)
    BY <1>4, <2>1, <2>3 DEF Departed, WithoutGotos
  <2> QED BY <2>2, <2>3
<1> QED BY <1>1, <1>5, <1>6, <1>7, <1>8, <1>9, EditOver

LEMMA JumpKeeps ==
  ASSUME IInv, NEW j \in Jumps, NEW s \in Stmts, NEW name \in Labels, Jump(j, s, name)
  PROVE  IInv'
<1> USE BlocksAssumption DEF IInv, Shape
<1>1. /\ swap' = NoSwap /\ gather' = NoGather /\ UNCHANGED <<body, parent, held>>
      /\ InForce(j) /\ InProgram(s) /\ target' = [target EXCEPT ![j] = s]
  BY IdleIs DEF Jump
<1>2. \A x, k : In(x, k)' <=> In(x, k)
  BY <1>1 DEF In
<1>3. \A x : /\ InProgram(x)' <=> InProgram(x)
             /\ Exists(x)' <=> Exists(x)
  BY <1>1, <1>2 DEF InProgram, Listed, Exists
<1>4. \/ label' = label /\ (j \in Cases \/ label[s] # Null)
      \/ /\ label' = [label EXCEPT ![s] = name]
         /\ \A r \in Stmts : Exists(r) => label[r] # name
  BY DEF Jump
<1>5. TypeOK'
  <2>1. /\ body' \in [Places -> Seq(Stmts)] /\ parent' \in [Stmts -> Places \cup {Null}]
        /\ label' \in [Stmts -> Labels \cup {Null}] /\ held' \subseteq Stmts
        /\ target' \in [Jumps -> Stmts \cup {Null}]
    BY <1>1, <1>4 DEF TypeOK
  <2> QED BY <1>1, <2>1, IdleTyped
<1>6. Distinct' /\ ParentsTrue'
  BY <1>1, <1>2 DEF Distinct, ParentsTrue
<1>7. LabelsUnique'
  <2>1. label \in [Stmts -> Labels \cup {Null}]
    BY DEF TypeOK
  <2> QED BY <1>3, <1>4, <2>1 DEF LabelsUnique
<1>8. Landing'
  <2> SUFFICES ASSUME NEW i \in Jumps, NEW t, InForce(i)', t = target'[i], t # Null
               PROVE  InProgram(t)' /\ (i \in Gotos => label'[t] # Null)
    BY LandingAfter
  <2>1. InForce(i)
    BY <1>3, InForceAfter DEF InForce
  <2>2. CASE i = j
    <3>1. t = s
      BY <1>1, <2>2 DEF TypeOK
    <3>2. i \in Gotos => label'[s] # Null
      BY <1>4, <2>2 DEF TypeOK
    <3> QED BY <1>1, <1>3, <3>1, <3>2
  <2>3. CASE i # j
    <3>1. t = target[i]
      BY <1>1, <2>3 DEF TypeOK
    <3>2. InProgram(t) /\ (i \in Gotos => label[t] # Null) /\ t \in Stmts
      BY <2>1, <3>1, WhereIs DEF Landing, Lands
    <3> QED BY <1>3, <1>4, <3>2 DEF TypeOK
  <2> QED BY <2>2, <2>3
<1>9. Departed'
  <2> SUFFICES ASSUME NEW x \in Stmts, ~Exists(x)', NEW i \in Within(x) PROVE target'[i] = Null
    BY DEF Departed, WithoutGotos
  <2>1. target[i] = Null /\ i \in Jumps /\ i \in Gotos /\ Site[i] = x /\ ~Exists(x)
    BY <1>3 DEF Departed, WithoutGotos, Within, Jumps
  <2>2. i # j
    BY <1>1, <2>1, WhereIs DEF InForce, Exists
  <2> QED BY <1>1, <2>1, <2>2 DEF TypeOK
<1> QED BY <1>1, <1>5, <1>6, <1>7, <1>8, <1>9, EditOver

\* A statement enters a block or leaves it.
LEMMA AddKeeps ==
  ASSUME IInv, NEW b \in Blocks, NEW s \in Stmts, NEW i, Outside(b, s), Settled(s), Add(b, i, s)
  PROVE  IInv'
<1> USE BlocksAssumption DEF IInv, Shape
<1>1. /\ swap' = NoSwap /\ gather' = NoGather /\ UNCHANGED <<label, held, target>>
      /\ swap = NoSwap /\ gather = NoGather /\ b \in Places
      /\ Exists(s) /\ i \in 1..Len(body[b]) + 1 /\ parent' = [parent EXCEPT ![s] = b]
  BY IdleIs DEF Add, Places
<1>2. CASE Refused(b, s)
  <2>1. In(s, b)
    BY <1>2 DEF Refused, Outside
  <2>2. parent[s] = b
    BY <1>1, <2>1, WhereIs
  <2>3. parent' = parent /\ body' = body
    BY <1>1, <1>2, <2>2 DEF Add, TypeOK
  <2> QED BY <1>1, <2>3, NothingHappens DEF vars
<1>3. CASE ~Refused(b, s)
  <2>1. ~In(s, b) /\ ~Listed(s) /\ body' = [body EXCEPT ![b] = Inserted(@, i, s)]
    BY <1>3 DEF Refused, Add, Outside, Listed
  <2>2. /\ body' \in [Places -> Seq(Stmts)] /\ Distinct'
        /\ \A x, k : k \in Places => (In(x, k)' <=> In(x, k) \/ (x = s /\ k = b))
    BY <1>1, <2>1, BlockEntered
  <2>3. \A x : /\ InProgram(x)' <=> InProgram(x) \/ x = s
               /\ Exists(x)' <=> Exists(x)
    BY <1>1, <2>2 DEF InProgram, Listed, Exists, Places
  <2>4. TypeOK'
    BY <1>1, <2>2, IdleTyped DEF TypeOK
  <2>5. ParentsTrue'
    BY <1>1, <2>1, <2>2 DEF ParentsTrue, TypeOK, Listed
  <2>6. LabelsUnique' /\ Departed'
    BY <1>1, <2>3 DEF LabelsUnique, Departed, WithoutGotos
  <2>7. Landing'
    <3> SUFFICES ASSUME NEW j \in Jumps, NEW t, InForce(j)', t = target'[j], t # Null
                 PROVE  InProgram(t)' /\ (j \in Gotos => label'[t] # Null)
      BY LandingAfter
    <3>1. t = target[j] /\ (j \in Gotos => Site[j] = Null \/ InProgram(Site[j]) \/ Site[j] = s)
      BY <1>1, <2>3, InForceAfter
    <3>2. CASE InForce(j)
      BY <1>1, <2>3, <3>1, <3>2 DEF Landing, Lands
    <3>3. CASE ~InForce(j)
      <4>1. j \in Within(s)
        BY <3>1, <3>3 DEF InForce, Within
      <4>2. Lands(j) \/ (t = s /\ label[s] # Null)
        BY <3>1, <4>1 DEF Settled
      <4> QED BY <1>1, <2>3, <3>1, <4>2 DEF Lands
    <3> QED BY <3>2, <3>3
  <2> QED BY <1>1, <2>2, <2>4, <2>5, <2>6, <2>7, EditOver
<1> QED BY <1>2, <1>3

LEMMA EraseKeeps ==
  ASSUME IInv, NEW b \in Places, NEW s \in Stmts, Erase(b, s)
  PROVE  IInv'
<1> USE BlocksAssumption DEF IInv, Shape
<1>1. /\ swap' = NoSwap /\ gather' = NoGather /\ UNCHANGED <<parent, label, held>>
      /\ In(s, b) /\ Unjumped(s) /\ body' = [body EXCEPT ![b] = Removed(@, Position(b, s))]
      /\ target' = IF s \in held THEN target ELSE Surviving({s})
  BY IdleIs DEF Erase
<1>2. /\ body' \in [Places -> Seq(Stmts)] /\ Distinct'
      /\ \A x, k : k \in Places => (In(x, k)' <=> In(x, k) /\ ~(x = s /\ k = b))
  BY <1>1, BlockLeft
<1>3. \A x : /\ InProgram(x)' <=> InProgram(x) /\ x # s
             /\ Listed(x)' <=> Listed(x) /\ x # s
  BY <1>1, <1>2, WhereIs DEF InProgram, Listed, Places
<1>4. target' \in [Jumps -> Stmts \cup {Null}] /\ \A j \in Jumps : target'[j] \in {target[j], Null}
  BY <1>1 DEF TypeOK, Surviving
<1>5. TypeOK'
  BY <1>1, <1>2, <1>4, IdleTyped DEF TypeOK
<1>6. ParentsTrue'
  BY <1>1, <1>2 DEF ParentsTrue
<1>7. LabelsUnique'
  BY <1>1, <1>3 DEF LabelsUnique, Exists
<1>8. Landing'
  <2> SUFFICES ASSUME NEW j \in Jumps, NEW t, InForce(j)', t = target'[j], t # Null
               PROVE  InProgram(t)' /\ (j \in Gotos => label'[t] # Null)
    BY LandingAfter
  <2>1. t = target[j] /\ InForce(j) /\ j \notin Within(s)
    BY <1>3, <1>4, InForceAfter DEF InForce, Within
  <2>2. t # s
    BY <1>1, <2>1 DEF Unjumped
  <2> QED BY <1>1, <1>3, <2>1, <2>2 DEF Landing, Lands
<1>9. Departed'
  <2> SUFFICES ASSUME NEW x \in Stmts, ~Exists(x)', NEW j \in Within(x) PROVE target'[j] = Null
    BY DEF Departed, WithoutGotos
  <2>1. j \in Jumps /\ j \in Gotos /\ Site[j] = x
    BY DEF Within, Jumps
  <2>2. CASE Exists(x)
    <3>1. x = s /\ s \notin held
      BY <1>1, <1>3, <2>2 DEF Exists
    <3> QED BY <1>1, <2>1, <3>1 DEF Surviving
  <2>3. CASE ~Exists(x)
    BY <1>4, <2>1, <2>3 DEF Departed, WithoutGotos
  <2> QED BY <2>2, <2>3
<1> QED BY <1>1, <1>2, <1>5, <1>6, <1>7, <1>8, <1>9, EditOver

\* Statement d takes the place of s, in whatever block s is.
LEMMA ReplaceIs ==
  ASSUME Shape, NEW s \in Stmts, NEW d \in Stmts, ~Listed(d), Replace(s, d)
  PROVE  /\ parent[s] \in Places /\ In(s, parent[s]) /\ d # s /\ Exists(s) /\ Exists(d)
         /\ body' \in [Places -> Seq(Stmts)] /\ Distinct' /\ ParentsTrue'
         /\ parent' \in [Stmts -> Places \cup {Null}] /\ label' = Relabelled(s, d)
         /\ label' \in [Stmts -> Labels \cup {Null}]
         /\ \A x : /\ InProgram(x)' <=> (InProgram(x) /\ x # s) \/ (x = d /\ InProgram(s))
                   /\ Listed(x)' <=> (Listed(x) /\ x # s) \/ x = d
<1> USE BlocksAssumption DEF Shape
<1>1. PICK b \in Places : b = parent[s]
  BY DEF Replace, TypeOK
<1>2. /\ In(s, b) /\ d # s /\ Exists(d) /\ label' = Relabelled(s, d) /\ ~Refused(b, d) /\ ~In(d, b)
  BY <1>1 DEF Replace, Refused, Listed
<1>3. /\ body' = [body EXCEPT ![b] = Replaced(@, Position(b, s), d)]
      /\ parent' = [parent EXCEPT ![d] = b, ![s] = Null]
  BY <1>1, <1>2 DEF Replace
<1>4. /\ body' \in [Places -> Seq(Stmts)] /\ Distinct'
      /\ \A x, k : k \in Places =>
           (In(x, k)' <=> (In(x, k) /\ ~(x = s /\ k = b)) \/ (x = d /\ k = b))
  BY <1>2, <1>3, BlockReplaced
<1>5. \A k \in Places : In(s, k) => k = b
  BY <1>1, WhereIs
<1>6. InProgram(s) <=> b \in Blocks
  BY <1>2, <1>5 DEF InProgram, Places
<1>7. \A x : /\ InProgram(x)' <=> (InProgram(x) /\ x # s) \/ (x = d /\ InProgram(s))
             /\ Listed(x)' <=> (Listed(x) /\ x # s) \/ x = d
  BY <1>4, <1>5, <1>6 DEF InProgram, Listed, Places
<1>8. parent' \in [Stmts -> Places \cup {Null}] /\ label' \in [Stmts -> Labels \cup {Null}]
  BY <1>2, <1>3 DEF TypeOK, Relabelled
<1>9. ParentsTrue'
  <2> SUFFICES ASSUME NEW k \in Places, NEW x \in Stmts, In(x, k)' PROVE parent'[x] = k
    BY DEF ParentsTrue
  <2>1. (In(x, k) /\ x # s /\ x # d) \/ (x = d /\ k = b)
    BY <1>4, <1>5 DEF Listed
  <2> QED BY <1>2, <1>3, <2>1, WhereIs DEF TypeOK
<1> QED BY <1>1, <1>2, <1>4, <1>7, <1>8, <1>9 DEF Exists, Listed

\* The label is handed on, or stays.
LEMMA RelabelledUnique ==
  ASSUME TypeOK, LabelsUnique, NEW s \in Stmts, NEW d \in Stmts, Exists(s), Exists(d), d # s,
         label' = Relabelled(s, d), \A x \in Stmts : Exists(x)' => Exists(x)
  PROVE  LabelsUnique'
<1>1. label \in [Stmts -> Labels \cup {Null}]
  BY DEF TypeOK
<1>2. CASE label[s] = Null
  BY <1>2 DEF LabelsUnique, Relabelled
<1>3. CASE label[s] # Null
  <2>1. \A x \in Stmts : label'[x] = IF x = s THEN Null ELSE IF x = d THEN label[s] ELSE label[x]
    BY <1>1, <1>3 DEF Relabelled
  <2> QED BY <1>3, <2>1 DEF LabelsUnique
<1> QED BY <1>2, <1>3

\* The jumps of the program follow a statement that is replaced.
LEMMA RedirectedLands ==
  ASSUME Shape, Landing, NEW s \in Stmts, NEW d \in Stmts, d # s, ~Listed(d),
         parent[s] \in Places, In(s, parent[s]),
         \A j \in Within(d) : \/ target[j] = Null
                              \/ target[j] # s /\ Lands(j)
                              \/ target[j] = d /\ label[d] # Null
  PROVE  \A j \in Jumps : \A t :
           t = Redirected(s, d)[j] /\ t # Null
           /\ (j \in Gotos => Site[j] = Null \/ InProgram(Site[j]) \/ (Site[j] = d /\ InProgram(s)))
             => /\ (InProgram(t) /\ t # s) \/ (t = d /\ InProgram(s))
                /\ j \in Gotos => Relabelled(s, d)[t] # Null
<1> USE BlocksAssumption DEF Shape
<1> SUFFICES ASSUME NEW j \in Jumps, NEW t, t = Redirected(s, d)[j], t # Null,
                    j \in Gotos => Site[j] = Null \/ InProgram(Site[j]) \/ (Site[j] = d /\ InProgram(s))
             PROVE  /\ (InProgram(t) /\ t # s) \/ (t = d /\ InProgram(s))
                    /\ j \in Gotos => Relabelled(s, d)[t] # Null
  OBVIOUS
<1>1. label \in [Stmts -> Labels \cup {Null}] /\ s # Null /\ d # Null /\ ~InProgram(d)
  BY WhereIs DEF TypeOK
<1>2. \A x \in Stmts : Relabelled(s, d)[x] =
        IF label[s] = Null THEN label[x]
        ELSE IF x = s THEN Null ELSE IF x = d THEN label[s] ELSE label[x]
  BY <1>1 DEF Relabelled
<1>3. InProgram(s) => parent[s] # Gathered
  BY WhereIs
<1>4. CASE j \in Cases
  <2>1. j \notin Gotos /\ InForce(j) /\ t = IF target[j] = s THEN d ELSE target[j]
    BY <1>4 DEF InForce, Redirected, GotosMoved, Found
  <2>2. target[j] # Null
    BY <1>1, <2>1
  <2>3. InProgram(target[j])
    BY <2>1, <2>2 DEF Landing, Lands
  <2> QED BY <2>1, <2>3
<1>5. CASE j \in Gotos /\ InForce(j)
  <2>1. t = IF target[j] = s /\ label[s] # Null /\ j \in Found(parent[s]) THEN d ELSE target[j]
    BY <1>5 DEF Redirected, GotosMoved
  <2>2. target[j] # Null
    BY <1>1, <2>1
  <2>3. InProgram(target[j]) /\ label[target[j]] # Null
    BY <1>5, <2>2 DEF Landing, Lands
  <2>4. target[j] = s => j \in Found(parent[s])
    BY <1>3, <1>5, <2>3 DEF Found
  <2>5. CASE target[j] = s
    BY <1>1, <1>2, <2>1, <2>3, <2>4, <2>5
  <2>6. CASE target[j] # s
    <3>1. t = target[j] /\ t # d /\ t \in Stmts
      BY <1>1, <2>1, <2>3, <2>6, WhereIs
    <3> QED BY <1>2, <2>3, <2>6, <3>1
  <2> QED BY <2>5, <2>6
<1>6. CASE j \in Gotos /\ ~InForce(j)
  <2>1. Site[j] = d /\ InProgram(s) /\ j \in Within(d)
    BY <1>6 DEF InForce, Within
  <2>2. j \notin Found(parent[s])
    BY <1>3, <1>6, <2>1 DEF Found
  <2>3. t = target[j]
    BY <1>6, <2>2 DEF Redirected, GotosMoved
  <2>4. CASE target[j] # s /\ Lands(j)
    <3>1. InProgram(t) /\ label[t] # Null /\ t # d /\ t \in Stmts
      BY <1>1, <1>6, <2>3, <2>4, WhereIs DEF Lands
    <3> QED BY <1>2, <2>3, <2>4, <3>1
  <2>5. CASE target[j] = d /\ label[d] # Null
    BY <1>1, <1>2, <2>1, <2>3, <2>5
  <2> QED BY <2>1, <2>3, <2>4, <2>5
<1> QED BY <1>4, <1>5, <1>6 DEF Jumps

LEMMA RedirectedTyped ==
  ASSUME TypeOK, NEW s \in Stmts, NEW d \in Stmts
  PROVE  /\ Redirected(s, d) \in [Jumps -> Stmts \cup {Null}]
         /\ \A j \in Jumps : target[j] = Null => Redirected(s, d)[j] = Null
BY BlocksAssumption DEF Redirected, GotosMoved, TypeOK

LEMMA ReplaceKeeps ==
  ASSUME IInv, NEW s \in Stmts, NEW d \in Stmts, ReplaceStatement(s, d)
  PROVE  IInv'
<1> USE BlocksAssumption DEF IInv, Shape
<1>1. /\ swap' = NoSwap /\ gather' = NoGather
      /\ ~Listed(d) /\ Settled(d) /\ (\A j \in Within(d) : target[j] # s) /\ Replace(s, d)
      /\ target' = Redirected(s, d) /\ held' = held \cup {s}
  BY IdleIs DEF ReplaceStatement
<1>2. /\ parent[s] \in Places /\ In(s, parent[s]) /\ d # s /\ Exists(s) /\ Exists(d)
      /\ body' \in [Places -> Seq(Stmts)] /\ Distinct' /\ ParentsTrue'
      /\ parent' \in [Stmts -> Places \cup {Null}] /\ label' = Relabelled(s, d)
      /\ label' \in [Stmts -> Labels \cup {Null}]
      /\ \A x : /\ InProgram(x)' <=> (InProgram(x) /\ x # s) \/ (x = d /\ InProgram(s))
                /\ Listed(x)' <=> (Listed(x) /\ x # s) \/ x = d
  BY <1>1, ReplaceIs
<1>3. \A x : Exists(x)' <=> Exists(x)
  BY <1>1, <1>2 DEF Exists
<1>4. /\ target' \in [Jumps -> Stmts \cup {Null}]
      /\ \A j \in Jumps : target[j] = Null => target'[j] = Null
  BY <1>1, RedirectedTyped
<1>5. TypeOK'
  BY <1>1, <1>2, <1>4, IdleTyped DEF TypeOK
<1>6. LabelsUnique'
  BY <1>2, <1>3, RelabelledUnique
<1>7. Landing'
  <2> SUFFICES ASSUME NEW j \in Jumps, NEW t, InForce(j)', t = target'[j], t # Null
               PROVE  InProgram(t)' /\ (j \in Gotos => label'[t] # Null)
    BY LandingAfter
  <2>1. t = Redirected(s, d)[j]
    BY <1>1
  <2>2. \A i \in Within(d) : \/ target[i] = Null
                             \/ target[i] # s /\ Lands(i)
                             \/ target[i] = d /\ label[d] # Null
    BY <1>1 DEF Settled
  <2>3. j \in Gotos => Site[j] = Null \/ InProgram(Site[j]) \/ (Site[j] = d /\ InProgram(s))
    BY <1>2, InForceAfter
  <2> HIDE DEF IInv, Shape
  <2>4. Shape /\ Landing
    BY DEF IInv
  <2>5. /\ (InProgram(t) /\ t # s) \/ (t = d /\ InProgram(s))
        /\ j \in Gotos => Relabelled(s, d)[t] # Null
    <3>1. ~Listed(d) /\ parent[s] \in Places /\ In(s, parent[s]) /\ d # s
      BY <1>1, <1>2
    <3>2. \A i \in Jumps : \A u :
            u = Redirected(s, d)[i] /\ u # Null
            /\ (i \in Gotos => Site[i] = Null \/ InProgram(Site[i]) \/ (Site[i] = d /\ InProgram(s)))
              => /\ (InProgram(u) /\ u # s) \/ (u = d /\ InProgram(s))
                 /\ i \in Gotos => Relabelled(s, d)[u] # Null
      BY <2>2, <2>4, <3>1, RedirectedLands
    <3> QED BY <2>1, <2>3, <3>2, Zenon
  <2> QED BY <1>2, <2>5
<1>8. Departed'
  <2> SUFFICES ASSUME NEW x \in Stmts, ~Exists(x)', NEW j \in Within(x) PROVE target'[j] = Null
    BY DEF Departed, WithoutGotos
  <2> QED BY <1>3, <1>4 DEF Departed, WithoutGotos, Within, Jumps
<1> QED BY <1>1, <1>2, <1>5, <1>6, <1>7, <1>8, EditOver

\* A swap begins with three statements without gotos in them ...
LEMMA SwapBeginKeeps ==
  ASSUME IInv, NEW one \in Stmts, NEW two \in Stmts, NEW tmp \in Stmts,
         WithoutGotos(one), WithoutGotos(two), SwapBegin(one, two, tmp)
  PROVE  IInv'
<1> USE BlocksAssumption DEF IInv, Shape
<1>1. /\ gather' = NoGather /\ UNCHANGED <<body, target>>
      /\ one # two /\ InProgram(one) /\ InProgram(two) /\ ~Exists(tmp)
      /\ swap' = [one |-> one, two |-> two, tmp |-> tmp, step |-> 1]
      /\ held' = held \cup {tmp}
      /\ parent' = [parent EXCEPT ![tmp] = Null] /\ label' = [label EXCEPT ![tmp] = Null]
  BY IdleIs DEF SwapBegin
<1>2. \A x, k : In(x, k)' <=> In(x, k)
  BY <1>1 DEF In
<1>3. \A x : /\ InProgram(x)' <=> InProgram(x)
             /\ Listed(x)' <=> Listed(x)
             /\ Exists(x)' <=> Exists(x) \/ x = tmp
  BY <1>1, <1>2 DEF InProgram, Listed, Exists
<1>4. TypeOK'
  <2>1. /\ swap' \in [one : Stmts \cup {Null}, two : Stmts \cup {Null},
                     tmp : Stmts \cup {Null}, step : 0..3]
        /\ gather' \in [from : Blocks \cup {Null}, at : Stmts \cup {Null}, stop : Stmts \cup {Null}]
    BY <1>1 DEF NoGather
  <2> QED BY <1>1, <2>1 DEF TypeOK
<1>5. Distinct'
  BY <1>1 DEF Distinct
<1>6. ParentsTrue'
  BY <1>1, <1>2 DEF ParentsTrue, TypeOK, Exists, Listed
<1>7. LabelsUnique'
  BY <1>1, <1>3 DEF LabelsUnique, TypeOK
<1>8. Landing'
  <2> SUFFICES ASSUME NEW j \in Jumps, NEW t, InForce(j)', t = target'[j], t # Null
               PROVE  InProgram(t)' /\ (j \in Gotos => label'[t] # Null)
    BY LandingAfter
  <2>1. InForce(j)
    BY <1>3, InForceAfter DEF InForce
  <2>2. InProgram(t) /\ (j \in Gotos => label[t] # Null)
    BY <1>1, <2>1 DEF Landing, Lands
  <2>3. t # tmp /\ t \in Stmts
    BY <1>1, <2>2, WhereIs DEF Exists
  <2> QED BY <1>1, <1>3, <2>2, <2>3 DEF TypeOK
<1>9. Departed'
  BY <1>1, <1>3 DEF Departed, WithoutGotos
<1>10. Swapping'
  <2>1. tmp # one /\ tmp # two /\ ~Listed(tmp)
    BY <1>1, WhereIs DEF Exists
  <2>2. /\ swap'.one = one /\ swap'.two = two /\ swap'.tmp = tmp /\ swap'.step = 1
        /\ <<swap'.tmp, swap'.one, swap'.two>>[swap'.step] = tmp
    BY <1>1
  <2>3. WithoutGotos(one) /\ WithoutGotos(two) /\ WithoutGotos(tmp)
    BY <1>1 DEF Departed
  <2>4. Entering' = tmp
    BY <2>2 DEF Entering
  <2>5. WithoutGotos(swap.one)' /\ WithoutGotos(swap.two)' /\ WithoutGotos(swap.tmp)'
    BY <1>1, <2>2, <2>3 DEF WithoutGotos
  <2>6. ~Listed(Entering)' /\ \A x \in {one, two, tmp} : x # tmp => InProgram(x)'
    BY <1>1, <1>3, <2>1, <2>4 DEF Listed, In
  <2> QED BY <1>1, <2>1, <2>2, <2>4, <2>5, <2>6 DEF Swapping
<1> QED BY <1>1, <1>4, <1>5, <1>6, <1>7, <1>8, <1>9, <1>10 DEF EditShape

\* ... and goes on with them.
LEMMA SwapStepKeeps ==
  ASSUME IInv, SwapStep
  PROVE  IInv'
<1> USE BlocksAssumption
<1>1. PICK one, two, tmp, step : one = swap.one /\ two = swap.two /\ tmp = swap.tmp /\ step = swap.step
  OBVIOUS
<1>2. PICK s, d : s = Leaving /\ d = Entering
  OBVIOUS
<1>3. Shape /\ TypeOK /\ LabelsUnique /\ Landing /\ Departed /\ EditShape
  BY DEF IInv, Shape
<1>4. step # 0 /\ Replace(s, d) /\ gather' = gather
  BY <1>1, <1>2 DEF SwapStep, Leaving, Entering
<1>5. Swapping
  BY <1>1, <1>3, <1>4 DEF EditShape, NoSwap
<1>6. /\ step \in 1..3 /\ one \in Stmts /\ two \in Stmts /\ tmp \in Stmts
      /\ one # two /\ one # tmp /\ two # tmp /\ gather = NoGather
      /\ \A x \in {one, two, tmp} : WithoutGotos(x) /\ (x # d => InProgram(x))
      /\ ~Listed(d) /\ d \in held
  BY <1>1, <1>2, <1>5 DEF Swapping
<1>7. \/ step = 1 /\ s = one /\ d = tmp
      \/ step = 2 /\ s = two /\ d = one
      \/ step = 3 /\ s = tmp /\ d = two
  BY <1>1, <1>2, <1>6 DEF Leaving, Entering
<1>8. s \in Stmts /\ d \in Stmts /\ d # s /\ InProgram(s) /\ WithoutGotos(d)
  BY <1>6, <1>7
<1> DEFINE moved == Redirected(s, d)
<1>9. /\ step = 3 => /\ swap' = NoSwap /\ held' = held \ {one, two, tmp}
                     /\ target' = [j \in Jumps |-> IF moved[j] = tmp THEN Null ELSE moved[j]]
      /\ step # 3 => /\ swap' = [swap EXCEPT !.step = step + 1] /\ held' = held \cup {one, two}
                     /\ target' = moved
  BY <1>1, <1>2 DEF SwapStep, Leaving, Entering
<1>10. /\ parent[s] \in Places /\ In(s, parent[s]) /\ d # s /\ Exists(s) /\ Exists(d)
       /\ body' \in [Places -> Seq(Stmts)] /\ Distinct' /\ ParentsTrue'
       /\ parent' \in [Stmts -> Places \cup {Null}] /\ label' = Relabelled(s, d)
       /\ label' \in [Stmts -> Labels \cup {Null}]
       /\ \A x : /\ InProgram(x)' <=> (InProgram(x) /\ x # s) \/ (x = d /\ InProgram(s))
                 /\ Listed(x)' <=> (Listed(x) /\ x # s) \/ x = d
  BY <1>3, <1>4, <1>6, <1>8, ReplaceIs
<1>11. /\ moved \in [Jumps -> Stmts \cup {Null}]
       /\ \A j \in Jumps : target[j] = Null => moved[j] = Null
  BY <1>3, <1>8, RedirectedTyped
<1> HIDE DEF moved
<1>12. /\ target' \in [Jumps -> Stmts \cup {Null}]
       /\ \A j \in Jumps : target'[j] \in {moved[j], Null}
       /\ \A j \in Jumps : target[j] = Null => target'[j] = Null
  BY <1>9, <1>11
<1>13. /\ \A x \in Stmts : Exists(x)' => Exists(x)
       /\ \A x \in Stmts : Exists(x) /\ ~Exists(x)' => step = 3 /\ x = tmp
       /\ held' \subseteq Stmts
  <2>1. \A x \in {one, two, tmp} : Exists(x) /\ (x # d => Listed(x))
    BY <1>3, <1>6, WhereIs DEF Exists
  <2>2. \A x : (Exists(x)' <=> x \in held' \/ Listed(x)') /\ (Exists(x) <=> x \in held \/ Listed(x))
    BY DEF Exists
  <2>3. held' \subseteq Stmts
    BY <1>3, <1>6, <1>9 DEF TypeOK
  <2>4. CASE step = 3
    BY <1>6, <1>7, <1>9, <1>10, <2>1, <2>2, <2>3, <2>4
  <2>5. CASE step # 3
    BY <1>6, <1>7, <1>9, <1>10, <2>1, <2>2, <2>3, <2>5
  <2> QED BY <2>4, <2>5
<1>14. TypeOK'
  <2>1. /\ swap' \in [one : Stmts \cup {Null}, two : Stmts \cup {Null},
                     tmp : Stmts \cup {Null}, step : 0..3]
        /\ gather' \in [from : Blocks \cup {Null}, at : Stmts \cup {Null}, stop : Stmts \cup {Null}]
    <3>1. CASE step = 3
      BY <1>3, <1>4, <1>9, <3>1 DEF NoSwap, TypeOK
    <3>2. CASE step # 3
      <4>1. step + 1 \in 0..3
        BY <1>6, <3>2
      <4> QED BY <1>3, <1>4, <1>9, <3>2, <4>1 DEF TypeOK
    <3> QED BY <3>1, <3>2
  <2> QED BY <1>10, <1>12, <1>13, <2>1 DEF TypeOK
<1>15. LabelsUnique'
  BY <1>3, <1>8, <1>10, <1>13, RelabelledUnique
<1>16. Landing'
  <2> SUFFICES ASSUME NEW j \in Jumps, NEW t, InForce(j)', t = target'[j], t # Null
               PROVE  InProgram(t)' /\ (j \in Gotos => label'[t] # Null)
    BY LandingAfter
  <2>1. t = Redirected(s, d)[j]
    BY <1>12 DEF moved
  <2>2. \A i \in Within(d) : target[i] = Null
    BY <1>8 DEF WithoutGotos
  <2>3. j \in Gotos => Site[j] = Null \/ InProgram(Site[j]) \/ (Site[j] = d /\ InProgram(s))
    BY <1>10, InForceAfter
  <2>4. /\ (InProgram(t) /\ t # s) \/ (t = d /\ InProgram(s))
        /\ j \in Gotos => Relabelled(s, d)[t] # Null
    <3>1. ~Listed(d) /\ parent[s] \in Places /\ In(s, parent[s]) /\ d # s
      BY <1>6, <1>10
    <3>2. \A i \in Jumps : \A u :
            u = Redirected(s, d)[i] /\ u # Null
            /\ (i \in Gotos => Site[i] = Null \/ InProgram(Site[i]) \/ (Site[i] = d /\ InProgram(s)))
              => /\ (InProgram(u) /\ u # s) \/ (u = d /\ InProgram(s))
                 /\ i \in Gotos => Relabelled(s, d)[u] # Null
      BY <1>3, <1>8, <2>2, <3>1, RedirectedLands
    <3> QED BY <2>1, <2>3, <3>2, Zenon
  <2> QED BY <1>10, <2>4
<1>17. Departed'
  <2> SUFFICES ASSUME NEW x \in Stmts, ~Exists(x)', NEW j \in Within(x) PROVE target'[j] = Null
    BY DEF Departed, WithoutGotos
  <2>1. WithoutGotos(x)
    BY <1>3, <1>6, <1>13 DEF Departed
  <2> QED BY <1>12, <2>1 DEF WithoutGotos, Within, Jumps
<1>18. EditShape'
  <2>1. CASE step = 3
    BY <1>4, <1>6, <1>9, <2>1, EditOver
  <2>2. CASE step # 3
    <3>1. step \in 1..2 /\ swap \in [one : Stmts \cup {Null}, two : Stmts \cup {Null},
                                    tmp : Stmts \cup {Null}, step : 0..3]
      BY <1>3, <1>6, <2>2 DEF TypeOK
    <3>2. swap'.one = one /\ swap'.two = two /\ swap'.tmp = tmp /\ swap'.step = step + 1
      BY <1>1, <1>9, <2>2, <3>1
    <3>3. Entering' = s
      BY <1>6, <1>7, <3>1, <3>2 DEF Entering
    <3>4. ~Listed(s)' /\ s \in held'
      BY <1>7, <1>8, <1>9, <1>10, <3>1
    <3>5. ~Listed(Entering)' /\ Entering' \in held'
      BY <3>3, <3>4 DEF Listed, In
    <3>6. \A x \in {one, two, tmp} : x # s => InProgram(x)'
      BY <1>6, <1>8, <1>10
    <3>7. \A x \in {one, two, tmp} : \A j \in Within(x) : target'[j] = Null
      BY <1>6, <1>12 DEF WithoutGotos, Within, Jumps
    <3>8. WithoutGotos(swap.one)' /\ WithoutGotos(swap.two)' /\ WithoutGotos(swap.tmp)'
      BY <3>2, <3>7 DEF WithoutGotos
    <3>9. \A x \in {swap'.one, swap'.two, swap'.tmp} : x # Entering' => InProgram(x)'
      BY <3>2, <3>3, <3>6
    <3>10. gather' = NoGather /\ swap'.step \in 1..3
      BY <1>4, <1>6, <3>1, <3>2
    <3>11. Swapping'
      BY <1>6, <3>2, <3>5, <3>8, <3>9, <3>10 DEF Swapping
    <3> QED BY <3>10, <3>11 DEF EditShape
  <2> QED BY <2>1, <2>2
<1> QED BY <1>10, <1>14, <1>15, <1>16, <1>17, <1>18 DEF IInv, Shape

\* Statement d is put after s, which is then taken out.
LEMMA FollowedIn ==
  ASSUME Shape, NEW b \in Places, NEW s, In(s, b), NEW d \in Stmts
  PROVE  Removed(Inserted(body[b], Position(b, s) + 1, d), Position(b, s))
           = Replaced(body[b], Position(b, s), d)
<1>1. PICK q, i : q = body[b] /\ i = Position(b, s)
  OBVIOUS
<1>2. PICK h : h = i + 1
  OBVIOUS
<1>3. q \in Seq(Stmts) /\ i \in 1..Len(q)
  BY <1>1, PositionIs DEF Shape, TypeOK
<1>4. Removed(Inserted(q, h, d), i) = Replaced(q, i, d)
  BY <1>2, <1>3, FollowedIsReplaced
<1> QED BY <1>1, <1>2, <1>4

LEMMA FragmentTarget ==
  ASSUME Shape, NEW s \in Stmts, NEW t \in Stmts, NEW d \in Stmts, ReplaceFragment(s, t, d)
  PROVE  target' = Redirected(s, d)
<1>1. IsFragment(s, t) /\ InProgram(s) /\ EnteredAtFirst(s, t) /\ target' = GotosMoved(s, d)
  BY DEF ReplaceFragment
<1>2. PICK b : b = parent[s] /\ In(s, b) /\ In(t, b) /\ b \in Places
  BY <1>1, WhereIs DEF IsFragment, Places
<1>3. /\ Position(b, s) \in 1..Len(body[b]) /\ body[b][Position(b, s)] = s
      /\ Position(b, t) \in 1..Len(body[b]) /\ Len(body[b]) \in Nat
  BY <1>2, PositionIs DEF Shape, TypeOK
<1>4. \A j \in Cases : target[j] # s /\ j \notin Gotos
  <2>1. Position(b, s) \in Position(b, s)..Position(b, t)
    BY <1>1, <1>2, <1>3 DEF IsFragment
  <2> QED BY <1>1, <1>2, <1>3, <2>1, BlocksAssumption DEF EnteredAtFirst, Jumps
<1> QED BY <1>1, <1>4 DEF Redirected, GotosMoved, Jumps

\* A fragment gives its place to d: at once if it is one statement, otherwise
\* its statements are gathered from then on.
LEMMA FragmentKeeps ==
  ASSUME IInv, NEW s \in Stmts, NEW t \in Stmts, NEW d \in Stmts, ReplaceFragment(s, t, d)
  PROVE  IInv'
<1> USE BlocksAssumption
<1>1. PICK b : b = parent[s]
  OBVIOUS
<1>2. /\ Shape /\ TypeOK /\ LabelsUnique /\ Landing /\ Departed
      /\ swap = NoSwap /\ gather = NoGather /\ swap' = NoSwap
      /\ IsFragment(s, t) /\ InProgram(s) /\ EnteredAtFirst(s, t)
      /\ d \in held /\ ~Listed(d) /\ Settled(d) /\ \A j \in Within(d) : target[j] # s
      /\ label' = Relabelled(s, d) /\ target' = GotosMoved(s, d)
  BY IdleIs DEF IInv, Shape, ReplaceFragment
<1>3. b \in Blocks /\ b \in Places /\ In(s, b) /\ ~In(d, b) /\ d # s /\ Listed(s) /\ In(t, b)
  BY <1>1, <1>2, WhereIs DEF Listed, Places, IsFragment
<1>4. /\ Position(b, s) \in 1..Len(body[b]) /\ body[b][Position(b, s)] = s
      /\ Position(b, t) \in 1..Len(body[b]) /\ body[b][Position(b, t)] = t
      /\ Len(body[b]) \in Nat
  BY <1>2, <1>3, PositionIs DEF TypeOK
<1>5. /\ parent' = [parent EXCEPT ![d] = b, ![s] = IF s = t THEN Null ELSE b]
      /\ held' = IF s = t THEN held \cup {s} ELSE held
      /\ gather' = IF s = t THEN gather ELSE [from |-> b, at |-> s, stop |-> d]
      /\ body' = [body EXCEPT ![b] =
                    IF s = t THEN Removed(Inserted(body[b], Position(b, t) + 1, d), Position(b, s))
                             ELSE Inserted(body[b], Position(b, t) + 1, d)]
  BY <1>1 DEF ReplaceFragment
<1>6. /\ body' \in [Places -> Seq(Stmts)] /\ Distinct'
      /\ \A x, k : k \in Places =>
           (In(x, k)' <=> (In(x, k) /\ ~(x = s /\ s = t)) \/ (x = d /\ k = b))
  <2>1. CASE s = t
    <3>1. body' = [body EXCEPT ![b] =
                     Removed(Inserted(body[b], Position(b, s) + 1, d), Position(b, s))]
      BY <1>5, <2>1
    <3>4. body' = [body EXCEPT ![b] = Replaced(@, Position(b, s), d)]
      BY <1>2, <1>3, <3>1, FollowedIn
    <3>2. /\ body' \in [Places -> Seq(Stmts)] /\ Distinct'
          /\ \A x, k : k \in Places =>
               (In(x, k)' <=> (In(x, k) /\ ~(x = s /\ k = b)) \/ (x = d /\ k = b))
      BY <1>2, <1>3, <3>4, BlockReplaced
    <3>3. \A k \in Places : In(s, k) => k = b
      BY <1>1, <1>2, WhereIs
    <3> QED BY <2>1, <3>2, <3>3
  <2>2. CASE s # t
    <3>1. Position(b, t) + 1 \in 1..Len(body[b]) + 1
      BY <1>4
    <3>2. body' = [body EXCEPT ![b] = Inserted(@, Position(b, t) + 1, d)]
      BY <1>5, <2>2
    <3>3. /\ body' \in [Places -> Seq(Stmts)] /\ Distinct'
          /\ \A x, k : k \in Places => (In(x, k)' <=> In(x, k) \/ (x = d /\ k = b))
      BY <1>2, <1>3, <3>1, <3>2, BlockEntered
    <3> QED BY <2>2, <3>3
  <2> QED BY <2>1, <2>2
<1>7. \A x : /\ InProgram(x)' <=> (InProgram(x) /\ ~(x = s /\ s = t)) \/ x = d
             /\ Listed(x)' <=> (Listed(x) /\ ~(x = s /\ s = t)) \/ x = d
  BY <1>3, <1>6 DEF InProgram, Listed, Places
<1>8. \A x : Exists(x)' <=> Exists(x)
  BY <1>2, <1>3, <1>5, <1>7 DEF Exists
<1>9. target' = Redirected(s, d)
  BY <1>2, FragmentTarget
<1>10. \A i \in Jumps : \A u :
         u = Redirected(s, d)[i] /\ u # Null
         /\ (i \in Gotos => Site[i] = Null \/ InProgram(Site[i]) \/ (Site[i] = d /\ InProgram(s)))
           => /\ (InProgram(u) /\ u # s) \/ (u = d /\ InProgram(s))
              /\ i \in Gotos => Relabelled(s, d)[u] # Null
  <2>1. \A i \in Within(d) : \/ target[i] = Null
                             \/ target[i] # s /\ Lands(i)
                             \/ target[i] = d /\ label[d] # Null
    BY <1>2 DEF Settled
  <2>2. parent[s] \in Places /\ In(s, parent[s])
    BY <1>1, <1>3
  <2> QED BY <1>2, <1>3, <2>1, <2>2, RedirectedLands
<1>11. \A j : InForce(j)' =>
         (j \in Gotos => Site[j] = Null \/ InProgram(Site[j]) \/ (Site[j] = d /\ InProgram(s)))
  BY <1>2, <1>7, InForceAfter
<1>12. Landing'
  <2> SUFFICES ASSUME NEW j \in Jumps, NEW u, InForce(j)', u = target'[j], u # Null
               PROVE  InProgram(u)' /\ (j \in Gotos => label'[u] # Null)
    BY LandingAfter
  <2>1. /\ (InProgram(u) /\ u # s) \/ (u = d /\ InProgram(s))
        /\ j \in Gotos => Relabelled(s, d)[u] # Null
    BY <1>9, <1>10, <1>11, Zenon
  <2> QED BY <1>2, <1>7, <2>1
<1>13. Departed'
  <2> SUFFICES ASSUME NEW x \in Stmts, ~Exists(x)', NEW j \in Within(x) PROVE target'[j] = Null
    BY DEF Departed, WithoutGotos
  <2>1. \A i \in Jumps : target[i] = Null => target'[i] = Null
    BY <1>2, <1>9, RedirectedTyped
  <2> QED BY <1>2, <1>8, <2>1 DEF Departed, WithoutGotos, Within, Jumps
<1>14. LabelsUnique'
  BY <1>2, <1>3, <1>8, RelabelledUnique DEF Exists
<1>15. TypeOK'
  <2>1. target' \in [Jumps -> Stmts \cup {Null}]
    BY <1>2, <1>9, RedirectedTyped
  <2>4. label' \in [Stmts -> Labels \cup {Null}]
    BY <1>2 DEF TypeOK, Relabelled
  <2>2. parent' \in [Stmts -> Places \cup {Null}] /\ held' \subseteq Stmts
    BY <1>2, <1>3, <1>5 DEF TypeOK
  <2>3. gather' \in [from : Blocks \cup {Null}, at : Stmts \cup {Null}, stop : Stmts \cup {Null}]
    BY <1>2, <1>3, <1>5 DEF TypeOK
  <2> QED BY <1>2, <1>6, <2>1, <2>2, <2>3, <2>4 DEF TypeOK
<1>16. ParentsTrue'
  <2> SUFFICES ASSUME NEW k \in Places, NEW x \in Stmts, In(x, k)' PROVE parent'[x] = k
    BY DEF ParentsTrue
  <2>1. (In(x, k) /\ ~(x = s /\ s = t) /\ x # d) \/ (x = d /\ k = b)
    BY <1>2, <1>6 DEF Listed
  <2>2. In(x, k) => parent[x] = k
    BY <1>2, WhereIs
  <2>3. parent \in [Stmts -> Places \cup {Null}]
    BY <1>2 DEF TypeOK
  <2> QED BY <1>1, <1>3, <1>5, <2>1, <2>2, <2>3
<1>17. EditShape'
  <2>1. CASE s = t
    BY <1>2, <1>5, <2>1, EditOver
  <2>2. CASE s # t
    <3> DEFINE q == body[b]
               i == Position(b, s)
               e == Position(b, t) + 1
               r == Inserted(q, e, d)
    <3>1. i \in Nat /\ e \in Nat /\ i < e /\ q[i] = s /\ e \in 1..Len(q) + 1 /\ i \in 1..Len(q)
      BY <1>1, <1>2, <1>4, <2>2 DEF IsFragment
    <3>2. q \in Seq(Stmts)
      BY <1>2, <1>3 DEF TypeOK
    <3>3. \A n \in i..e - 1 : n \in Position(b, s)..Position(b, t) /\ n \in 1..Len(q)
      BY <1>4, <3>1
    <3> HIDE DEF i, e
    <3>4. /\ Len(r) = Len(q) + 1
          /\ \A k \in 1..Len(q) + 1 : r[k] = IF k < e THEN q[k] ELSE IF k = e THEN d ELSE q[k - 1]
      <4>1. q \in Seq(Stmts) /\ e \in 1..Len(q) + 1 /\ d \in Stmts
        BY <3>1, <3>2
      <4>2. \A f \in Seq(Stmts) : \A m \in 1..Len(f) + 1 :
              /\ Len(Inserted(f, m, d)) = Len(f) + 1
              /\ \A k \in 1..Len(f) + 1 :
                   Inserted(f, m, d)[k] = IF k < m THEN f[k] ELSE IF k = m THEN d ELSE f[k - 1]
        BY InsertedIs
      <4> QED BY <4>1, <4>2, Zenon
    <3>5. body'[b] = r
      BY <1>2, <1>3, <1>5, <2>2 DEF TypeOK, e
    <3> HIDE DEF r
    <3>6. i \in 1..Len(r) /\ e \in 1..Len(r) /\ r[i] = s /\ r[e] = d
      BY <1>4, <3>1, <3>4
    <3>7. \A n \in i..e - 1 : r[n] = q[n]
      BY <1>4, <3>1, <3>3, <3>4
    <3>8. ASSUME NEW n \in i..e - 1, NEW j \in Jumps, InForce(j)'
          PROVE  target'[j] # r[n]
      <4>1. SUFFICES ASSUME target'[j] = r[n] PROVE FALSE
        OBVIOUS
      <4>2. PICK u : u = q[n]
        OBVIOUS
      <4>3. u \in Stmts /\ u # Null /\ In(u, b) /\ u # d
        BY <1>3, <3>2, <3>3, <4>2 DEF In
      <4>4. u # s
        <5>1. u = Redirected(s, d)[j]
          BY <1>9, <3>7, <4>1, <4>2
        <5>2. (InProgram(u) /\ u # s) \/ (u = d /\ InProgram(s))
          <6>1. j \in Gotos => Site[j] = Null \/ InProgram(Site[j]) \/ (Site[j] = d /\ InProgram(s))
            BY <1>11, <3>8
          <6> QED BY <1>10, <4>3, <5>1, <6>1
        <5> QED BY <4>3, <5>2
      <4>5. target[j] = u
        BY <1>2, <3>7, <4>1, <4>2, <4>3 DEF GotosMoved
      <4>6. n \in Position(parent[s], s)..Position(parent[s], t) /\ body[parent[s]][n] = u
        BY <1>1, <3>3, <4>2
      <4> QED BY <1>2, <4>4, <4>5, <4>6 DEF EnteredAtFirst
    <3>9. gather'.from = b /\ gather'.at = s /\ gather'.stop = d
      BY <1>5, <2>2
    <3>10. ASSUME NEW n \in i..e - 1, NEW j \in Within(r[n])
           PROVE  target'[j] = Null
      <4>1. n \in Position(parent[s], s)..Position(parent[s], t) /\ body[parent[s]][n] = q[n]
        BY <1>1, <3>3
      <4>2. j \in Within(q[n])
        BY <3>7, <3>10
      <4>3. target[j] = Null /\ j \in Jumps
        BY <1>2, <4>1, <4>2 DEF EnteredAtFirst, Within, Jumps
      <4> QED BY <1>2, <1>9, <4>3, RedirectedTyped
    <3>11. Gathering'
      BY <1>2, <1>3, <3>1, <3>5, <3>6, <3>8, <3>9, <3>10 DEF Gathering, WithoutGotos
    <3> QED BY <1>2, <3>11 DEF EditShape
  <2> QED BY <2>1, <2>2
<1> QED BY <1>6, <1>12, <1>13, <1>14, <1>15, <1>16, <1>17 DEF IInv, Shape

\* The first statement that is left of a fragment goes to the new block.
LEMMA BlockMoved ==
  ASSUME Shape, NEW b \in Blocks, NEW s \in Stmts, In(s, b),
         body' = [body EXCEPT ![b] = Removed(@, Position(b, s)), ![Gathered] = Append(@, s)]
  PROVE  /\ body' \in [Places -> Seq(Stmts)] /\ Distinct'
         /\ body'[b] = Removed(body[b], Position(b, s))
         /\ \A x, k : k \in Places =>
              (In(x, k)' <=> (In(x, k) /\ x # s) \/ (x = s /\ k = Gathered))
<1> USE BlocksAssumption
<1> DEFINE q == body[b]
           g == body[Gathered]
           i == Position(b, s)
           r == Removed(q, i)
           h == Append(g, s)
<1>1. /\ body \in [Places -> Seq(Stmts)] /\ b \in Places /\ Gathered \in Places /\ b # Gathered
      /\ q \in Seq(Stmts) /\ Injective(q) /\ g \in Seq(Stmts) /\ Injective(g)
  BY DEF Shape, TypeOK, Distinct, Places
<1>2. i \in 1..Len(q) /\ q[i] = s
  BY PositionIs
<1>3. \A k \in Places : In(s, k) => k = b
  BY <1>1, WhereIs
<1>4. s \in Stmts \ Elems(g)
  BY <1>1, <1>3, InElems
<1>5. r \in Seq(Stmts) /\ Injective(r) /\ Elems(r) = Elems(q) \ {s}
  <2> HIDE DEF i
  <2> QED BY <1>1, <1>2, RemovedElems
<1>6. h \in Seq(Stmts) /\ Injective(h) /\ Elems(h) = Elems(g) \cup {s}
  BY <1>1, <1>4, AppendedElems
<1>7. body' = [body EXCEPT ![b] = r, ![Gathered] = h]
  BY <1>1
<1> HIDE DEF r, h, i
<1>8. \A k \in Places : body'[k] = IF k = Gathered THEN h ELSE IF k = b THEN r ELSE body[k]
  BY <1>1, <1>7
<1>9. body' \in [Places -> Seq(Stmts)]
  BY <1>1, <1>5, <1>6, <1>7
<1>10. Distinct'
  BY <1>5, <1>6, <1>8 DEF Distinct, Shape
<1>11. ASSUME NEW x, NEW k \in Places
       PROVE  In(x, k)' <=> (In(x, k) /\ x # s) \/ (x = s /\ k = Gathered)
  <2>1. s \in Elems(body[k]) => k = b
    BY <1>3, InElems
  <2>2. x \in Elems(body'[k]) <=> (x \in Elems(body[k]) /\ x # s) \/ (x = s /\ k = Gathered)
    BY <1>1, <1>5, <1>6, <1>8, <2>1
  <2> QED BY <2>2, InElems, InElemsAfter
<1>12. body'[b] = Removed(body[b], Position(b, s))
  BY <1>1, <1>8 DEF r, i
<1> QED BY <1>9, <1>10, <1>11, <1>12

LEMMA GatherKeeps ==
  ASSUME IInv, GatherStep
  PROVE  IInv'
<1> USE BlocksAssumption
<1>1. PICK s, b, stop : s = gather.at /\ b = gather.from /\ stop = gather.stop
  OBVIOUS
<1>2. /\ Shape /\ TypeOK /\ LabelsUnique /\ Landing /\ Departed
      /\ gather # NoGather /\ Gathering
  BY DEF IInv, Shape, GatherStep, EditShape
<1> DEFINE q == body[b]
           Quiet(n) == /\ WithoutGotos(q[n])
                       /\ \A j \in Jumps : InForce(j) => target[j] # q[n]
<1>3. PICK i \in 1..Len(q), k \in 1..Len(q) :
        i < k /\ q[i] = s /\ q[k] = stop /\ \A n \in i..k - 1 : Quiet(n)
  <2>1. PICK i \in 1..Len(body[gather.from]), k \in 1..Len(body[gather.from]) :
          /\ i < k /\ body[gather.from][i] = gather.at /\ body[gather.from][k] = gather.stop
          /\ \A n \in i..k - 1 :
               /\ WithoutGotos(body[gather.from][n])
               /\ \A j \in Jumps : InForce(j) => target[j] # body[gather.from][n]
    BY <1>2 DEF Gathering
  <2>2. i \in 1..Len(q) /\ k \in 1..Len(q) /\ q[i] = s /\ q[k] = stop
    BY <1>1, <2>1
  <2>3. \A n \in i..k - 1 : Quiet(n)
    BY <1>1, <2>1, Zenon
  <2> HIDE DEF Quiet
  <2> QED BY <2>1, <2>2, <2>3
<1>4. b \in Blocks /\ b \in Places /\ swap = NoSwap /\ q \in Seq(Stmts) /\ Injective(q)
  BY <1>1, <1>2 DEF Gathering, Places, Shape, Distinct, TypeOK
<1>5. s \in Stmts /\ In(s, b) /\ Position(b, s) = i /\ Len(q) \in Nat
  <2>1. In(s, b)
    BY <1>3 DEF In
  <2>2. Position(b, s) \in 1..Len(q) /\ q[Position(b, s)] = s
    BY <2>1, PositionIs
  <2> QED BY <1>3, <1>4, <2>1, <2>2 DEF Injective
<1>6. /\ gather' = IF q[i + 1] = stop THEN NoGather ELSE [gather EXCEPT !.at = q[i + 1]]
      /\ body' = [body EXCEPT ![b] = Removed(@, Position(b, s)), ![Gathered] = Append(@, s)]
      /\ parent' = [parent EXCEPT ![s] = Gathered]
      /\ UNCHANGED <<label, held, target, swap>>
  BY <1>1, <1>5 DEF GatherStep
<1>7. /\ body' \in [Places -> Seq(Stmts)] /\ Distinct'
      /\ body'[b] = Removed(q, i)
      /\ \A x, p : p \in Places =>
           (In(x, p)' <=> (In(x, p) /\ x # s) \/ (x = s /\ p = Gathered))
  BY <1>2, <1>4, <1>5, <1>6, BlockMoved
<1>8. \A x : /\ InProgram(x)' <=> InProgram(x) /\ x # s
             /\ Listed(x)' <=> Listed(x)
             /\ Exists(x)' <=> Exists(x)
  <2>1. Gathered \in Places /\ Gathered \notin Blocks /\ Blocks \subseteq Places
    BY DEF Places
  <2> QED BY <1>4, <1>5, <1>6, <1>7, <2>1 DEF InProgram, Listed, Exists
<1>9. \A j : InForce(j)' => InForce(j)
  BY <1>8, InForceAfter DEF InForce
<1>10. i + 1 \in 1..Len(q) /\ q[i + 1] \in Stmts
  BY <1>3, <1>4, <1>5
<1>11. TypeOK'
  <2>1. gather' \in [from : Blocks \cup {Null}, at : Stmts \cup {Null}, stop : Stmts \cup {Null}]
    BY <1>2, <1>6, <1>10 DEF NoGather, TypeOK
  <2>2. parent' \in [Stmts -> Places \cup {Null}]
    BY <1>2, <1>6 DEF TypeOK, Places
  <2> QED BY <1>2, <1>6, <1>7, <2>1, <2>2 DEF TypeOK
<1>12. ParentsTrue'
  <2> SUFFICES ASSUME NEW p \in Places, NEW x \in Stmts, In(x, p)' PROVE parent'[x] = p
    BY DEF ParentsTrue
  <2>1. (In(x, p) /\ x # s) \/ (x = s /\ p = Gathered)
    BY <1>7
  <2>2. In(x, p) => parent[x] = p
    BY <1>2, WhereIs
  <2> QED BY <1>2, <1>6, <2>1, <2>2 DEF TypeOK
<1>13. LabelsUnique' /\ Departed'
  BY <1>2, <1>6, <1>8 DEF LabelsUnique, Departed, WithoutGotos
<1>14. Landing'
  <2> SUFFICES ASSUME NEW j \in Jumps, NEW t, InForce(j)', t = target'[j], t # Null
               PROVE  InProgram(t)' /\ (j \in Gotos => label'[t] # Null)
    BY LandingAfter
  <2>1. InForce(j) /\ t = target[j]
    BY <1>6, <1>9
  <2>2. t # s
    BY <1>3, <1>5, <2>1
  <2> QED BY <1>2, <1>6, <1>8, <2>1, <2>2 DEF Landing, Lands
<1>15. EditShape'
  <2>1. CASE q[i + 1] = stop
    BY <1>4, <1>6, <2>1, EditOver
  <2>2. CASE q[i + 1] # stop
    <3> DEFINE r == Removed(q, i)
    <3>1. /\ Len(r) = Len(q) - 1
          /\ \A n \in 1..Len(q) - 1 : r[n] = IF n < i THEN q[n] ELSE q[n + 1]
      <4>1. \A f \in Seq(Stmts) : \A m \in 1..Len(f) :
              /\ Len(Removed(f, m)) = Len(f) - 1
              /\ \A n \in 1..Len(f) - 1 : Removed(f, m)[n] = IF n < m THEN f[n] ELSE f[n + 1]
        BY RemovedIs
      <4> QED BY <1>3, <1>4, <4>1, Zenon
    <3> HIDE DEF r
    <3>2. i < k - 1 /\ k - 1 \in 1..Len(r) /\ i \in 1..Len(r)
      BY <1>3, <1>5, <2>2, <3>1
    <3>3. r[i] = q[i + 1] /\ r[k - 1] = stop
      <4>1. r[i] = q[i + 1]
        BY <3>1, <3>2
      <4>2. r[k - 1] = q[k - 1 + 1] /\ k - 1 + 1 = k
        BY <3>1, <3>2
      <4> QED BY <1>3, <4>1, <4>2
    <3>4. ASSUME NEW n \in i..k - 1 - 1
          PROVE  /\ \A j \in Within(r[n]) : target'[j] = Null
                 /\ \A j \in Jumps : InForce(j)' => target'[j] # r[n]
      <4>1. r[n] = q[n + 1] /\ n + 1 \in i..k - 1
        BY <1>3, <3>1, <3>2
      <4>2. Quiet(n + 1)
        BY <1>3, <4>1
      <4> QED BY <1>6, <1>9, <4>1, <4>2 DEF WithoutGotos
    <3>5. gather'.from = b /\ gather'.at = q[i + 1] /\ gather'.stop = stop
      BY <1>1, <1>2, <1>6, <2>2 DEF TypeOK
    <3>6. body'[b] = r
      BY <1>7 DEF r
    <3> DEFINE Passed(c, m, n) ==
                 \A h \in m..n - 1 :
                   /\ \A j \in Within(c[h]) : target'[j] = Null
                   /\ \A j \in Jumps : InForce(j)' => target'[j] # c[h]
    <3>7. Passed(r, i, k - 1)
      BY <3>4
    <3> HIDE DEF Passed
    <3>8. \E m, n \in 1..Len(r) :
            m < n /\ r[m] = gather'.at /\ r[n] = gather'.stop /\ Passed(r, m, n)
      BY <3>2, <3>3, <3>5, <3>7
    <3>9. \E m, n \in 1..Len(body'[gather'.from]) :
            /\ m < n /\ body'[gather'.from][m] = gather'.at
            /\ body'[gather'.from][n] = gather'.stop /\ Passed(body'[gather'.from], m, n)
      BY <3>5, <3>6, <3>8, Zenon
    <3>10. swap' = NoSwap /\ gather'.from \in Blocks
      BY <1>4, <1>6, <3>5
    <3>11. Gathering'
      BY <3>9, <3>10 DEF Gathering, Passed, WithoutGotos
    <3> QED BY <1>4, <1>6, <3>11 DEF EditShape
  <2> QED BY <2>1, <2>2
<1> QED BY <1>7, <1>11, <1>12, <1>13, <1>14, <1>15 DEF IInv, Shape

LEMMA DropKeeps ==
  ASSUME IInv, DropGathered
  PROVE  IInv'
<1> USE BlocksAssumption DEF IInv, Shape
<1> DEFINE dead == {s \in Stmts : In(s, Gathered)} \ held
<1>1. /\ swap' = NoSwap /\ gather' = NoGather /\ UNCHANGED <<parent, label, held>>
      /\ body' = [body EXCEPT ![Gathered] = <<>>] /\ target' = Surviving(dead)
  BY IdleIs DEF DropGathered
<1> HIDE DEF dead
<1>2. /\ body \in [Places -> Seq(Stmts)] /\ body' \in [Places -> Seq(Stmts)]
      /\ \A k \in Places : body'[k] = IF k = Gathered THEN <<>> ELSE body[k]
  <2>1. body \in [Places -> Seq(Stmts)]
    BY DEF TypeOK
  <2>2. <<>> \in Seq(Stmts)
    OBVIOUS
  <2> DEFINE none == <<>>
  <2>3. none \in Seq(Stmts) /\ body' = [body EXCEPT ![Gathered] = none]
    BY <1>1, <2>2
  <2> HIDE DEF none, IInv, Shape
  <2>4. /\ body' \in [Places -> Seq(Stmts)]
        /\ \A k \in Places : body'[k] = IF k = Gathered THEN none ELSE body[k]
    BY <2>1, <2>3
  <2> QED BY <2>1, <2>4 DEF none
<1>3. Distinct'
  BY <1>2 DEF Distinct, Injective
<1>4. \A x, k : k \in Places => (In(x, k)' <=> In(x, k) /\ k # Gathered)
  BY <1>2 DEF In
<1>5. \A x : /\ InProgram(x)' <=> InProgram(x)
             /\ Exists(x)' => Exists(x)
             /\ Exists(x) /\ ~Exists(x)' => x \in dead
  <2>1. \A x : In(x, Gathered) => x \in Stmts
    BY WhereIs DEF Places
  <2> QED BY <1>1, <1>4, <2>1 DEF InProgram, Listed, Exists, Places, dead
<1>6. target' \in [Jumps -> Stmts \cup {Null}] /\ \A j \in Jumps : target'[j] \in {target[j], Null}
  BY <1>1 DEF TypeOK, Surviving
<1>7. TypeOK'
  BY <1>1, <1>2, <1>6, IdleTyped DEF TypeOK
<1>8. ParentsTrue'
  BY <1>1, <1>4 DEF ParentsTrue
<1>9. LabelsUnique'
  BY <1>1, <1>5 DEF LabelsUnique
<1>10. Landing'
  <2> SUFFICES ASSUME NEW j \in Jumps, NEW t, InForce(j)', t = target'[j], t # Null
               PROVE  InProgram(t)' /\ (j \in Gotos => label'[t] # Null)
    BY LandingAfter
  <2>1. InForce(j) /\ t = target[j]
    BY <1>5, <1>6, InForceAfter DEF InForce
  <2> QED BY <1>1, <1>5, <2>1 DEF Landing, Lands
<1>11. Departed'
  <2> SUFFICES ASSUME NEW x \in Stmts, ~Exists(x)', NEW j \in Within(x) PROVE target'[j] = Null
    BY DEF Departed, WithoutGotos
  <2>1. j \in Jumps /\ j \in Gotos /\ Site[j] = x
    BY DEF Within, Jumps
  <2>2. CASE Exists(x)
    <3>1. x \in dead
      BY <1>5, <2>2
    <3> QED BY <1>1, <2>1, <3>1 DEF Surviving
  <2>3. CASE ~Exists(x)
    BY <1>6, <2>1, <2>3 DEF Departed, WithoutGotos
  <2> QED BY <2>2, <2>3
<1> QED BY <1>1, <1>3, <1>7, <1>8, <1>9, <1>10, <1>11, EditOver

LEMMA InitIInv == Init => IInv
<1> SUFFICES ASSUME Init PROVE IInv
  OBVIOUS
<1>1. \A b \in Places : body[b] = <<>>
  BY DEF Init
<1>2. TypeOK
  BY DEF Init, TypeOK, NoGather, NoSwap
<1>3. Distinct /\ ParentsTrue /\ \A s : ~Exists(s)
  BY <1>1 DEF Init, Distinct, Injective, ParentsTrue, Exists, Listed, In
<1>4. LabelsUnique /\ Departed /\ Landing
  BY <1>3 DEF Init, LabelsUnique, Departed, Landing, WithoutGotos, Within, Jumps
<1>5. EditShape
  BY DEF Init, EditShape
<1> QED BY <1>2, <1>3, <1>4, <1>5 DEF IInv, Shape

LEMMA StepIInv == IInv /\ [Next]_vars => IInv'
<1> SUFFICES ASSUME IInv, [Next]_vars PROVE IInv'
  OBVIOUS
<1>1. ASSUME NEW s \in Stmts, Create(s) \/ Hold(s) \/ LetGo(s) PROVE IInv'
  BY <1>1, CreateKeeps, HoldKeeps, LetGoKeeps
<1>2. ASSUME NEW j \in Jumps, NEW s \in Stmts, NEW name \in Labels, Jump(j, s, name) PROVE IInv'
  BY <1>2, JumpKeeps
<1>3. ASSUME NEW b \in Blocks, NEW s \in Stmts, NEW i, Outside(b, s), Settled(s), Add(b, i, s)
      PROVE  IInv'
  BY <1>3, AddKeeps
<1>4. ASSUME NEW b \in Places, NEW s \in Stmts, Erase(b, s) PROVE IInv'
  BY <1>4, EraseKeeps
<1>5. ASSUME NEW s \in Stmts, NEW d \in Stmts, ReplaceStatement(s, d) PROVE IInv'
  BY <1>5, ReplaceKeeps
<1>6. ASSUME NEW s \in Stmts, NEW t \in Stmts, NEW d \in Stmts, ReplaceFragment(s, t, d) PROVE IInv'
  BY <1>6, FragmentKeeps
<1>7. ASSUME NEW one \in Stmts, NEW two \in Stmts, NEW tmp \in Stmts,
             WithoutGotos(one), WithoutGotos(two), SwapBegin(one, two, tmp)
      PROVE  IInv'
  BY <1>7, SwapBeginKeeps
<1>8. CASE UNCHANGED vars
  BY <1>8, NothingHappens
<1> QED BY <1>1, <1>2, <1>3, <1>4, <1>5, <1>6, <1>7, <1>8, SwapStepKeeps, GatherKeeps, DropKeeps
        DEF Next, Others

LEMMA Invariance == Spec => []IInv
BY InitIInv, StepIInv, PTL DEF Spec

\* Statements, blocks and the edits under way are type correct.
THEOREM TypeCorrect == Spec => []TypeOK
<1>1. IInv => TypeOK
  BY DEF IInv, Shape
<1> QED BY <1>1, Invariance, PTL

\* A statement in a block names that block as its parent, whatever edit is
\* under way (BlockStatement::addFirst to replace in Reprise/Statements.cpp).
THEOREM ParentsAreTrue == Spec => []ParentsTrue
<1>1. IInv => ParentsTrue
  BY DEF IInv, Shape
<1> QED BY <1>1, Invariance, PTL

\* The edits of ServiceFunctions.cpp and swapStmts() leave no jump of the
\* program without a statement of the program under a label of its own, if
\* maySwapStmts() is asked before a swap.
THEOREM JumpsAreSound == Spec => []JumpsSound
<1>1. IInv => JumpsSound
  BY DEF IInv, Landing, JumpsSound, JumpsLand
<1> QED BY <1>1, Invariance, PTL

-----------------------------------------------------------------------------
(***************************************************************************)
(* The edits as single steps of EditedProgram.                             *)
(***************************************************************************)
Order    == [b \in Places |-> Outcome(b)]
Arrivals == [j \in Jumps |-> IF InForce(j) THEN Before(target[j]) ELSE Null]

LEMMA SeqIs == \A S : \A q \in Seq(S) : [i \in 1..Len(q) |-> q[i]] = q
OBVIOUS

\* Outside a swap and a gathering the program is what it seems to be.
LEMMA OrderAtRest ==
  ASSUME body \in [Places -> Seq(Stmts)], swap = NoSwap, gather = NoGather
  PROVE  Order = body
<1>1. \A x : Before(x) = x
  BY DEF Before, NoSwap
<1>2. ASSUME NEW b \in Places PROVE Outcome(b) = body[b]
  <2>1. Outcome(b) = [i \in 1..Len(body[b]) |-> body[b][i]]
    BY <1>1 DEF Outcome
  <2>2. body[b] \in Seq(Stmts)
    OBVIOUS
  <2> QED BY <2>1, <2>2, SeqIs
<1> QED BY <1>2 DEF Order

LEMMA OrderAtRestAfter ==
  ASSUME body' \in [Places -> Seq(Stmts)], swap' = NoSwap, gather' = NoGather
  PROVE  Order' = body'
<1>1. \A x : Before(x)' = x
  BY DEF Before, NoSwap
<1>2. ASSUME NEW b \in Places PROVE Outcome(b)' = body'[b]
  <2>1. Outcome(b)' = [i \in 1..Len(body'[b]) |-> body'[b][i]]
    BY <1>1 DEF Outcome
  <2>2. body'[b] \in Seq(Stmts)
    OBVIOUS
  <2> QED BY <2>1, <2>2, SeqIs
<1> QED BY <1>2 DEF Order

LEMMA ArrivalsAtRest ==
  swap = NoSwap => Arrivals = [j \in Jumps |-> IF InForce(j) THEN target[j] ELSE Null]
<1> SUFFICES ASSUME swap = NoSwap
             PROVE  Arrivals = [j \in Jumps |-> IF InForce(j) THEN target[j] ELSE Null]
  OBVIOUS
<1>1. \A x : Before(x) = x
  BY DEF Before, NoSwap
<1> QED BY <1>1 DEF Arrivals

LEMMA ArrivalsAtRestAfter ==
  swap' = NoSwap => Arrivals' = [j \in Jumps |-> IF InForce(j)' THEN target'[j] ELSE Null]
<1> SUFFICES ASSUME swap' = NoSwap
             PROVE  Arrivals' = [j \in Jumps |-> IF InForce(j)' THEN target'[j] ELSE Null]
  OBVIOUS
<1>1. \A j : Before(target[j])' = target'[j]
  BY DEF Before, NoSwap
<1> QED BY <1>1 DEF Arrivals

\* What the abstract steps say of the places jumps land at.
LEMMA SameLanding ==
  ASSUME NEW gone, NEW come,
         Arrivals' \in [Jumps -> Stmts \cup {Null}],
         \A j \in Jumps :
           /\ (\E s \in gone : j \in Within(s)) => Arrivals'[j] = Null
           /\ ~(\E s \in gone \cup come : j \in Within(s)) => Arrivals'[j] = Arrivals[j]
  PROVE  Program!Landing(Program!Same, gone, come)
BY DEF Program!Landing, Program!Same, Program!Of, Program!Jumps, Within, Arrivals, Jumps, Order, Places

LEMMA ArrivalsTyped ==
  ASSUME swap' = NoSwap, target' \in [Jumps -> Stmts \cup {Null}]
  PROVE  Arrivals' \in [Jumps -> Stmts \cup {Null}]
BY ArrivalsAtRestAfter

LEMMA ProgramStutters ==
  ASSUME Order' = Order, Arrivals' = Arrivals
  PROVE  UNCHANGED Program!vars
BY DEF Program!vars, Order, Arrivals

\* The calls that leave the program as it is.
LEMMA HandlesMap ==
  ASSUME IInv, NEW s \in Stmts, Create(s) \/ Hold(s) \/ LetGo(s)
  PROVE  UNCHANGED Program!vars
<1> USE BlocksAssumption
<1>1. Idle /\ UNCHANGED <<body, gather, swap>>
  BY DEF Create, Hold, LetGo
<1>2. Order = body /\ Order' = body'
  BY <1>1, IdleIs, OrderAtRest, OrderAtRestAfter DEF IInv, Shape, TypeOK
<1>3. \A j : InForce(j)' <=> InForce(j)
  BY <1>1 DEF InForce, InProgram, In
<1>4. ASSUME NEW j \in Jumps, InForce(j) PROVE target'[j] = target[j]
  <2>1. CASE target' = target
    BY <2>1
  <2>2. CASE target' = Surviving({s}) /\ ~Listed(s)
    <3>1. target[j] # s
      BY <1>4, <2>2, WhereIs DEF IInv, Landing, Lands
    <3>2. ~(j \in Gotos /\ Site[j] = s)
      BY <1>4, <2>2, WhereIs DEF IInv, InForce
    <3> QED BY <2>2, <3>1, <3>2 DEF Surviving
  <2> QED BY <2>1, <2>2 DEF Create, Hold, LetGo
<1>5. Arrivals' = Arrivals
  BY <1>1, <1>3, <1>4, IdleIs, ArrivalsAtRest, ArrivalsAtRestAfter
<1> QED BY <1>1, <1>2, <1>5, ProgramStutters

\* A jump is made to land elsewhere.
LEMMA JumpMaps ==
  ASSUME IInv, NEW j \in Jumps, NEW s \in Stmts, NEW name \in Labels, Jump(j, s, name)
  PROVE  Program!Next
<1> USE BlocksAssumption
<1>1. /\ Idle /\ UNCHANGED <<body, gather, swap>> /\ InForce(j) /\ InProgram(s)
      /\ target' = [target EXCEPT ![j] = s]
  BY DEF Jump
<1>2. Order = body /\ Order' = body'
  BY <1>1, IdleIs, OrderAtRest, OrderAtRestAfter DEF IInv, Shape, TypeOK
<1>3. PICK b \in Blocks : \E i \in 1..Len(body[b]) : body[b][i] = s
  BY <1>1 DEF InProgram, In
<1>4. PICK i \in 1..Len(body[b]) : body[b][i] = s
  BY <1>3
<1>5. \A k : InForce(k)' <=> InForce(k)
  BY <1>1 DEF InForce, InProgram, In
<1>6. Arrivals' = [Arrivals EXCEPT ![j] = s]
  BY <1>1, <1>5, IdleIs, ArrivalsAtRest, ArrivalsAtRestAfter DEF IInv, Shape, TypeOK
<1>7. Program!Jump(j, b, i)
  BY <1>1, <1>2, <1>4, <1>6 DEF Program!Jump, Order, Arrivals
<1> QED BY <1>2, <1>4, <1>7 DEF Program!Next, Order, Jumps, Program!Jumps

\* A statement enters a block, unless the list refuses it.
LEMMA AddMaps ==
  ASSUME IInv, NEW b \in Blocks, NEW s \in Stmts, NEW i, Outside(b, s), Add(b, i, s)
  PROVE  Program!Next \/ UNCHANGED Program!vars
<1> USE BlocksAssumption
<1>1. /\ Idle /\ UNCHANGED <<label, held, target, gather, swap>> /\ i \in 1..Len(body[b]) + 1
      /\ b \in Places
  BY DEF Add, Places
<1>2. Shape /\ TypeOK /\ Order = body /\ gather' = NoGather /\ swap' = NoSwap
  BY <1>1, IdleIs, OrderAtRest DEF IInv, Shape, TypeOK
<1>3. CASE Refused(b, s)
  <2>1. body' = body
    BY <1>3 DEF Add
  <2>2. Order' = Order
    BY <1>2, <2>1, OrderAtRestAfter DEF TypeOK
  <2>3. \A j : InForce(j)' <=> InForce(j)
    BY <2>1 DEF InForce, InProgram, In
  <2>4. Arrivals' = Arrivals
    BY <1>1, <2>3, IdleIs, ArrivalsAtRest, ArrivalsAtRestAfter
  <2> QED BY <2>2, <2>4, ProgramStutters
<1>4. CASE ~Refused(b, s)
  <2>1. ~In(s, b) /\ body' = [body EXCEPT ![b] = Inserted(@, i, s)]
    BY <1>4 DEF Add, Refused
  <2>2. /\ body' \in [Places -> Seq(Stmts)]
        /\ \A x, k : k \in Places => (In(x, k)' <=> In(x, k) \/ (x = s /\ k = b))
    BY <1>1, <1>2, <2>1, BlockEntered
  <2>3. Order' = [Order EXCEPT ![b] = Inserted(@, i, s)]
    BY <1>2, <2>1, <2>2, OrderAtRestAfter
  <2>4. ~Program!Occurs(s)
    BY <1>2, <2>1 DEF Program!Occurs, Program!Places, Outside, In, Order, Places
  <2>5. \A j \in Jumps : j \notin Within(s) => (InForce(j)' <=> InForce(j))
    <3>1. \A x : x # s => (InProgram(x)' <=> InProgram(x))
      BY <2>2 DEF InProgram, Places
    <3> QED BY <3>1, InForceAfter DEF InForce, Within
  <2>6. /\ Arrivals' \in [Jumps -> Stmts \cup {Null}]
        /\ \A j \in Jumps : j \notin Within(s) => Arrivals'[j] = Arrivals[j]
    BY <1>1, <1>2, <2>5, IdleIs, ArrivalsAtRest, ArrivalsAtRestAfter, ArrivalsTyped DEF TypeOK
  <2>7. Program!Landing(Program!Same, {}, {s})
    BY <2>6, SameLanding
  <2>8. Program!Enter(b, i, s)
    BY <2>3, <2>4, <2>7 DEF Program!Enter, Order, Inserted
  <2>9. i \in 1..Len(Order[b]) + 1
    BY <1>1, <1>2
  <2> QED BY <1>1, <2>8, <2>9 DEF Program!Next, Program!Places, Places, Order
<1> QED BY <1>3, <1>4

\* A statement leaves its block.
LEMMA EraseMaps ==
  ASSUME IInv, NEW b \in Places, NEW s \in Stmts, Erase(b, s)
  PROVE  Program!Next
<1> USE BlocksAssumption
<1>1. /\ Idle /\ UNCHANGED <<parent, label, held, gather, swap>> /\ In(s, b) /\ Unjumped(s)
      /\ body' = [body EXCEPT ![b] = Removed(@, Position(b, s))]
      /\ target' = IF s \in held THEN target ELSE Surviving({s})
  BY DEF Erase
<1>2. Shape /\ TypeOK /\ Order = body /\ gather' = NoGather /\ swap' = NoSwap /\ swap = NoSwap
  BY <1>1, IdleIs, OrderAtRest DEF IInv, Shape, TypeOK
<1>3. PICK i : i = Position(b, s)
  OBVIOUS
<1>4. i \in 1..Len(Order[b]) /\ Order[b][i] = s
  BY <1>1, <1>2, <1>3, PositionIs
<1>5. /\ body' \in [Places -> Seq(Stmts)]
      /\ \A x, k : k \in Places => (In(x, k)' <=> In(x, k) /\ ~(x = s /\ k = b))
  BY <1>1, <1>2, BlockLeft
<1>6. Order' = [Order EXCEPT ![b] = Removed(@, i)]
  BY <1>1, <1>2, <1>3, <1>5, OrderAtRestAfter
<1>7. /\ \A x : x # s => (InProgram(x)' <=> InProgram(x))
      /\ ~InProgram(s)'
  <2>1. \A k \in Places : In(s, k) => k = b
    BY <1>1, <1>2, WhereIs
  <2> QED BY <1>5, <2>1 DEF InProgram, Places
<1>8. /\ \A j \in Jumps : j \notin Within(s) => (InForce(j)' <=> InForce(j))
      /\ \A j \in Within(s) : ~InForce(j)'
  BY <1>7, InForceAfter DEF InForce, Within
<1>9. /\ target' \in [Jumps -> Stmts \cup {Null}]
      /\ \A j \in Jumps : j \notin Within(s) /\ InForce(j) => target'[j] = target[j]
  BY <1>1, <1>2 DEF Surviving, TypeOK, Unjumped, Within
<1>10. Program!Free(s)
  <2>1. \A j \in Jumps \ Within(s) : Arrivals[j] # s
    BY <1>1, <1>2, ArrivalsAtRest DEF Unjumped
  <2> QED BY <2>1 DEF Program!Free, Program!Of, Program!Jumps, Within, Jumps, Arrivals
<1>11. /\ Arrivals' \in [Jumps -> Stmts \cup {Null}]
       /\ \A j \in Jumps : Arrivals'[j] = IF j \in Within(s) THEN Null ELSE Arrivals[j]
  BY <1>2, <1>8, <1>9, ArrivalsAtRest, ArrivalsAtRestAfter, ArrivalsTyped
<1>12. Program!Landing(Program!Same, {s}, {})
  BY <1>11, SameLanding
<1>13. Program!Leave(b, i)
  BY <1>4, <1>6, <1>10, <1>12 DEF Program!Leave, Order, Removed
<1> QED BY <1>4, <1>13 DEF Program!Next, Program!Places, Places, Order

\* The gathered block is thrown away.
LEMMA DropMaps ==
  ASSUME IInv, DropGathered
  PROVE  Program!Next
<1> USE BlocksAssumption
<1> DEFINE dead == {s \in Stmts : In(s, Gathered)} \ held
<1>1. /\ Idle /\ UNCHANGED <<parent, label, held, gather, swap>>
      /\ body' = [body EXCEPT ![Gathered] = <<>>] /\ target' = Surviving(dead)
  BY DEF DropGathered
<1>2. Shape /\ TypeOK /\ Order = body /\ gather' = NoGather /\ swap' = NoSwap /\ swap = NoSwap
  BY <1>1, IdleIs, OrderAtRest DEF IInv, Shape, TypeOK
<1>3. body' \in [Places -> Seq(Stmts)] /\ Order' = [Order EXCEPT ![Gathered] = <<>>]
  <2> DEFINE none == <<>>
  <2>1. none \in Seq(Stmts) /\ body' = [body EXCEPT ![Gathered] = none]
    BY <1>1
  <2> HIDE DEF none
  <2>2. body' \in [Places -> Seq(Stmts)]
    BY <1>2, <2>1 DEF TypeOK
  <2>3. Order' = [Order EXCEPT ![Gathered] = none]
    BY <1>2, <2>1, <2>2, OrderAtRestAfter
  <2> QED BY <2>2, <2>3 DEF none
<1>4. \A s \in dead : ~InProgram(s)
  BY <1>2, WhereIs DEF Places
<1>5. \A j : InForce(j)' <=> InForce(j)
  <2>1. \A b \in Blocks : body'[b] = body[b]
    BY <1>1, <1>2 DEF TypeOK, Places
  <2> QED BY <2>1 DEF InForce, InProgram, In
<1>6. ASSUME NEW j \in Jumps, InForce(j) PROVE target'[j] = target[j]
  <2> HIDE DEF dead
  <2>1. target[j] \notin dead \/ target[j] = Null
    BY <1>4, <1>6 DEF IInv, Landing, Lands
  <2>2. ~(j \in Gotos /\ Site[j] \in dead)
    <3>1. Null \notin dead
      BY DEF dead
    <3> QED BY <1>4, <1>6, <3>1 DEF InForce
  <2> QED BY <1>1, <2>1, <2>2 DEF Surviving
<1>7. Arrivals' = Arrivals
  BY <1>2, <1>5, <1>6, ArrivalsAtRest, ArrivalsAtRestAfter
<1>8. Program!Discard
  BY <1>3, <1>7 DEF Program!Discard, Order, Arrivals
<1> QED BY <1>8 DEF Program!Next

\* What a statement that gives its place to another leaves behind.
Substituted(s, d) ==
  \A k \in Places :
    /\ Len(body'[k]) = Len(body[k])
    /\ \A n \in 1..Len(body[k]) : body'[k][n] = IF body[k][n] = s THEN d ELSE body[k][n]

LEMMA PlacesReplaced ==
  ASSUME Shape, NEW b \in Places, NEW s, In(s, b), NEW d \in Stmts,
         body' = [body EXCEPT ![b] = Replaced(@, Position(b, s), d)]
  PROVE  Substituted(s, d)
<1> DEFINE q == body[b]
           i == Position(b, s)
           r == Replaced(q, i, d)
<1>1. /\ body \in [Places -> Seq(Stmts)] /\ q \in Seq(Stmts) /\ Injective(q)
      /\ i \in 1..Len(q) /\ q[i] = s
  BY PositionIs DEF Shape, TypeOK, Distinct
<1>2. body' = [body EXCEPT ![b] = r]
  OBVIOUS
<1>3. /\ r \in Seq(Stmts) /\ Len(r) = Len(q)
      /\ \A n \in 1..Len(q) : r[n] = IF n = i THEN d ELSE q[n]
  <2>1. \A f \in Seq(Stmts) : \A m \in 1..Len(f) :
          /\ Replaced(f, m, d) \in Seq(Stmts) /\ Len(Replaced(f, m, d)) = Len(f)
          /\ \A n \in 1..Len(f) : Replaced(f, m, d)[n] = IF n = m THEN d ELSE f[n]
    BY ReplacedIs
  <2> HIDE DEF i
  <2> QED BY <1>1, <2>1, Zenon
<1> HIDE DEF r, i
<1>4. \A k \in Places : body'[k] = IF k = b THEN r ELSE body[k]
  BY <1>1, <1>2
<1>5. ASSUME NEW k \in Places
      PROVE  /\ Len(body'[k]) = Len(body[k])
             /\ \A n \in 1..Len(body[k]) : body'[k][n] = IF body[k][n] = s THEN d ELSE body[k][n]
  <2>1. CASE k = b
    <3>1. \A n \in 1..Len(q) : n = i <=> q[n] = s
      BY <1>1 DEF Injective
    <3> QED BY <1>3, <1>4, <2>1, <3>1
  <2>2. CASE k # b
    <3>1. ~In(s, k)
      BY <2>2, WhereIs
    <3> QED BY <1>4, <2>2, <3>1 DEF In
  <2> QED BY <2>1, <2>2
<1> QED BY <1>5 DEF Substituted

\* The jumps of the program follow it.
LEMMA JumpsFollow ==
  ASSUME IInv, NEW s \in Stmts, InProgram(s) \/ parent[s] = Gathered, NEW d \in Stmts
  PROVE  \A j \in Jumps :
           /\ InForce(j) => Redirected(s, d)[j] = IF target[j] = s THEN d ELSE target[j]
           /\ InForce(j) /\ j \in Gotos => GotosMoved(s, d)[j] = Redirected(s, d)[j]
           /\ target[j] = Null => Redirected(s, d)[j] = Null /\ GotosMoved(s, d)[j] = Null
<1> USE BlocksAssumption
<1> SUFFICES ASSUME NEW j \in Jumps
             PROVE  /\ InForce(j) => Redirected(s, d)[j] = IF target[j] = s THEN d ELSE target[j]
                    /\ InForce(j) /\ j \in Gotos => GotosMoved(s, d)[j] = Redirected(s, d)[j]
                    /\ target[j] = Null => Redirected(s, d)[j] = Null /\ GotosMoved(s, d)[j] = Null
  OBVIOUS
<1>1. s # Null
  OBVIOUS
<1>2. ASSUME InForce(j), j \in Gotos, target[j] = s PROVE label[s] # Null /\ j \in Found(parent[s])
  <2>1. InProgram(s) /\ label[s] # Null
    BY <1>1, <1>2 DEF IInv, Landing, Lands
  <2>2. parent[s] \in Blocks
    BY <2>1, WhereIs DEF IInv
  <2> QED BY <1>2, <2>1, <2>2 DEF Found
<1>3. j \in Cases \/ j \in Gotos
  BY DEF Jumps
<1> QED BY <1>1, <1>2, <1>3 DEF Redirected, GotosMoved

\* A statement gives its place to another.
LEMMA SubstituteMaps ==
  ASSUME IInv, Idle, NEW b \in Places, NEW s \in Stmts, In(s, b), NEW d \in Stmts, ~Listed(d),
         swap' = NoSwap, gather' = NoGather,
         body' = [body EXCEPT ![b] = Replaced(@, Position(b, s), d)],
         target' \in [Jumps -> Stmts \cup {Null}],
         \A j \in Jumps : InForce(j) => target'[j] = IF target[j] = s THEN d ELSE target[j]
  PROVE  Program!Next
<1> USE BlocksAssumption
<1>1. Shape /\ TypeOK /\ swap = NoSwap /\ Order = body
  BY IdleIs, OrderAtRest DEF IInv, Shape, TypeOK
<1>2. PICK i : i = Position(b, s)
  OBVIOUS
<1>3. i \in 1..Len(Order[b]) /\ Order[b][i] = s
  BY <1>1, <1>2, PositionIs
<1>4. ~In(d, b) /\ s # d
  BY DEF Listed
<1>5. /\ body' \in [Places -> Seq(Stmts)]
      /\ \A x, k : k \in Places =>
           (In(x, k)' <=> (In(x, k) /\ ~(x = s /\ k = b)) \/ (x = d /\ k = b))
  BY <1>1, <1>4, BlockReplaced
<1>6. Order' = [Order EXCEPT ![b][i] = d]
  <2>1. PICK q : q = body[b]
    OBVIOUS
  <2>2. q \in Seq(Stmts) /\ i \in 1..Len(q)
    BY <1>1, <1>3, <2>1 DEF TypeOK
  <2>3. Replaced(q, i, d) = [q EXCEPT ![i] = d]
    BY <2>2, ReplacedExcept
  <2>4. body' = [body EXCEPT ![b] = [q EXCEPT ![i] = d]]
    BY <1>2, <2>1, <2>3
  <2> QED BY <1>1, <1>5, <2>1, <2>4, OrderAtRestAfter
<1>7. ~Program!Occurs(d)
  BY <1>1 DEF Program!Occurs, Program!Places, Listed, In, Order, Places
<1>8. /\ \A x : x \notin {s, d} => (InProgram(x)' <=> InProgram(x))
      /\ ~InProgram(s)'
  <2>1. \A k \in Places : In(s, k) => k = b
    BY <1>1, WhereIs
  <2> QED BY <1>4, <1>5, <2>1 DEF InProgram, Places
<1>9. /\ \A j \in Jumps : j \notin Within(s) /\ j \notin Within(d) => (InForce(j)' <=> InForce(j))
      /\ \A j \in Within(s) : ~InForce(j)'
  BY <1>8, InForceAfter DEF InForce, Within
<1>10. Arrivals' \in [Jumps -> Stmts \cup {Null}]
  BY ArrivalsTyped
<1>11. ASSUME NEW j \in Jumps
       PROVE  /\ j \in Within(s) => Arrivals'[j] = Null
              /\ j \notin Within(s) /\ j \notin Within(d) =>
                   Arrivals'[j] = IF Arrivals[j] = s THEN d ELSE Arrivals[j]
  <2>1. /\ Arrivals[j] = IF InForce(j) THEN target[j] ELSE Null
        /\ Arrivals'[j] = IF InForce(j)' THEN target'[j] ELSE Null
    BY <1>1, ArrivalsAtRest, ArrivalsAtRestAfter
  <2> QED BY <1>9, <2>1
<1>12. ASSUME NEW j \in Jumps
       PROVE  /\ (\E x \in {s} : j \in Within(x)) => Arrivals'[j] = Null
              /\ ~(\E x \in {s} : j \in Within(x)) /\ ~(\E x \in {d} : j \in Within(x)) =>
                   Arrivals'[j] = IF Arrivals[j] = s THEN d ELSE Arrivals[j]
  BY <1>11
<1>13. Program!Substitute(b, i, d)
  BY <1>3, <1>6, <1>7, <1>10, <1>12
     DEF Program!Substitute, Program!Landing, Program!Jumps, Program!Of, Within, Jumps, Order, Arrivals
<1> QED BY <1>3, <1>13 DEF Program!Next, Program!Places, Places, Order

LEMMA ReplaceMaps ==
  ASSUME IInv, NEW s \in Stmts, NEW d \in Stmts, ReplaceStatement(s, d)
  PROVE  Program!Next
<1>1. /\ Shape /\ TypeOK /\ Idle /\ UNCHANGED <<gather, swap>> /\ ~Listed(d) /\ Replace(s, d)
      /\ target' = Redirected(s, d)
  BY DEF IInv, Shape, ReplaceStatement
<1>2. PICK b \in Places : b = parent[s] /\ In(s, b)
  BY <1>1, ReplaceIs
<1>3. body' = [body EXCEPT ![b] = Replaced(@, Position(b, s), d)]
  BY <1>1, <1>2 DEF Replace, Refused, Listed
<1>4. InProgram(s) \/ parent[s] = Gathered
  BY <1>2 DEF Places, InProgram
<1>5. \A j \in Jumps : InForce(j) => target'[j] = IF target[j] = s THEN d ELSE target[j]
  BY <1>1, <1>4, JumpsFollow
<1>6. target' \in [Jumps -> Stmts \cup {Null}]
  BY <1>1, RedirectedTyped
<1>7. swap' = NoSwap /\ gather' = NoGather
  BY <1>1, IdleIs
<1> QED BY <1>1, <1>2, <1>3, <1>5, <1>6, <1>7, SubstituteMaps

(***************************************************************************)
(* A swap is one step, its last.                                           *)
(***************************************************************************)

\* The empty statement has no place yet.
LEMMA SwapBeginMaps ==
  ASSUME IInv, NEW one \in Stmts, NEW two \in Stmts, NEW tmp \in Stmts, SwapBegin(one, two, tmp)
  PROVE  UNCHANGED Program!vars
<1>1. /\ Idle /\ UNCHANGED <<body, target, gather>>
      /\ swap' = [one |-> one, two |-> two, tmp |-> tmp, step |-> 1]
  BY DEF SwapBegin
<1>2. \A x : Before(x) = x /\ Before(x)' = x
  BY <1>1, IdleIs DEF Before, NoSwap
<1>3. Order' = Order
  BY <1>1, <1>2, IdleIs DEF Order, Outcome
<1>4. Arrivals' = Arrivals
  <2>1. \A j : InForce(j)' <=> InForce(j)
    BY <1>1 DEF InForce, InProgram, In
  <2>2. \A j : Before(target[j])' = target[j] /\ Before(target[j]) = target[j]
    BY <1>1, IdleIs DEF Before, NoSwap
  <2> QED BY <2>1, <2>2 DEF Arrivals
<1> QED BY <1>3, <1>4, ProgramStutters

LEMMA SwapStepMaps ==
  ASSUME IInv, SwapStep
  PROVE  Program!Next \/ UNCHANGED Program!vars
<1> USE BlocksAssumption
<1>1. PICK one, two, tmp, step : one = swap.one /\ two = swap.two /\ tmp = swap.tmp /\ step = swap.step
  OBVIOUS
<1>2. PICK s, d : s = Leaving /\ d = Entering
  OBVIOUS
<1>3. Shape /\ TypeOK /\ EditShape /\ Landing
  BY DEF IInv, Shape
<1>4. step # 0 /\ Replace(s, d) /\ gather' = gather
  BY <1>1, <1>2 DEF SwapStep, Leaving, Entering
<1>5. Swapping
  BY <1>1, <1>3, <1>4 DEF EditShape, NoSwap
<1>6. /\ step \in 1..3 /\ one \in Stmts /\ two \in Stmts /\ tmp \in Stmts
      /\ one # two /\ one # tmp /\ two # tmp /\ gather = NoGather
      /\ \A x \in {one, two, tmp} : WithoutGotos(x) /\ (x # d => InProgram(x))
      /\ ~Listed(d)
  BY <1>1, <1>2, <1>5 DEF Swapping
<1>7. \/ step = 1 /\ s = one /\ d = tmp
      \/ step = 2 /\ s = two /\ d = one
      \/ step = 3 /\ s = tmp /\ d = two
  BY <1>1, <1>2, <1>6 DEF Leaving, Entering
<1>8. s \in Stmts /\ d \in Stmts /\ d # s /\ InProgram(s)
  BY <1>6, <1>7
<1> DEFINE moved == Redirected(s, d)
<1>9. /\ step = 3 => /\ swap' = NoSwap
                     /\ target' = [j \in Jumps |-> IF moved[j] = tmp THEN Null ELSE moved[j]]
      /\ step # 3 => swap' = [swap EXCEPT !.step = step + 1] /\ target' = moved
  BY <1>1, <1>2 DEF SwapStep, Leaving, Entering
<1>10. /\ moved \in [Jumps -> Stmts \cup {Null}]
       /\ \A j \in Jumps : /\ InForce(j) => moved[j] = IF target[j] = s THEN d ELSE target[j]
                           /\ target[j] = Null => moved[j] = Null
  BY <1>3, <1>8, JumpsFollow, RedirectedTyped
<1> HIDE DEF moved
\* The blocks.
<1>11. PICK b \in Places : b = parent[s] /\ In(s, b)
  BY <1>3, <1>4, <1>6, <1>8, ReplaceIs
<1>12. body' = [body EXCEPT ![b] = Replaced(@, Position(b, s), d)] /\ ~In(d, b)
  BY <1>4, <1>6, <1>11 DEF Replace, Refused, Listed
<1>13. /\ \A k \in Places : Len(body'[k]) = Len(body[k])
       /\ \A k \in Places : \A n \in 1..Len(body[k]) :
            /\ body'[k][n] = IF body[k][n] = s THEN d ELSE body[k][n]
            /\ body[k][n] # d
  <2>1. Substituted(s, d)
    BY <1>3, <1>8, <1>11, <1>12, PlacesReplaced
  <2>2. \A k \in Places : \A n \in 1..Len(body[k]) : body[k][n] # d
    BY <1>6 DEF Listed, In
  <2> QED BY <2>1, <2>2 DEF Substituted
<1>14. /\ body' \in [Places -> Seq(Stmts)]
       /\ \A x : InProgram(x)' <=> (InProgram(x) /\ x # s) \/ (x = d /\ InProgram(s))
  BY <1>3, <1>4, <1>6, <1>8, ReplaceIs
\* The jumps.
<1>15. ASSUME NEW j \in Jumps
       PROVE  \/ InForce(j) /\ InForce(j)' /\ target[j] # d
              \/ target[j] = Null
              \/ ~InForce(j) /\ ~InForce(j)'
  <2>1. CASE j \in Gotos /\ Site[j] \in {one, two, tmp}
    BY <1>6, <2>1 DEF WithoutGotos, Within
  <2>2. CASE ~(j \in Gotos /\ Site[j] \in {one, two, tmp})
    <3>1. InForce(j)' <=> InForce(j)
      BY <1>7, <1>14, <2>2, InForceAfter DEF InForce
    <3>2. InForce(j) /\ target[j] # Null => target[j] # d
      BY <1>3, <1>6, WhereIs DEF Landing, Lands
    <3> QED BY <3>1, <3>2
  <2> QED BY <2>1, <2>2
\* Where a statement stands for the one it is to change places with.
<1>16. \A x : Before(x) = IF x = tmp /\ step > 1 THEN one ELSE IF x = one /\ step = 3 THEN two ELSE x
  BY <1>1, <1>6 DEF Before
<1>17. CASE step # 3
  <2>1. swap' = [swap EXCEPT !.step = step + 1] /\ target' = moved
    BY <1>9, <1>17
  <2>2. /\ swap'.one = one /\ swap'.two = two /\ swap'.tmp = tmp /\ swap'.step = step + 1
    BY <1>1, <1>3, <2>1 DEF TypeOK
  <2>3. \A x : x # d => Before(IF x = s THEN d ELSE x)' = Before(x)
    BY <1>6, <1>7, <1>16, <1>17, <2>2 DEF Before
  <2>4. Order' = Order
    <3>1. ASSUME NEW k \in Places PROVE Outcome(k)' = Outcome(k)
      <4>1. /\ Outcome(k) = [n \in 1..Len(body[k]) |-> Before(body[k][n])]
            /\ Outcome(k)' = [n \in 1..Len(body'[k]) |-> Before(body[k][n])']
        BY <1>4, <1>6 DEF Outcome
      <4>2. \A n \in 1..Len(body[k]) : Before(body[k][n])' = Before(body[k][n])
        BY <1>13, <2>3
      <4> QED BY <1>13, <4>1, <4>2
    <3> QED BY <3>1 DEF Order
  <2>5. ASSUME NEW j \in Jumps
        PROVE  (IF InForce(j)' THEN Before(target[j])' ELSE Null)
                 = IF InForce(j) THEN Before(target[j]) ELSE Null
    <3>1. CASE InForce(j) /\ InForce(j)' /\ target[j] # d
      <4>1. target'[j] = IF target[j] = s THEN d ELSE target[j]
        BY <1>10, <2>1, <3>1
      <4> QED BY <2>3, <3>1, <4>1
    <3>2. CASE target[j] = Null
      <4>1. target'[j] = Null
        BY <1>10, <2>1, <3>2
      <4>2. Before(target[j]) = Null /\ Before(target[j])' = Null
        <5>1. Null \notin {one, two, tmp} /\ Null # d
          BY <1>6, <1>8
        <5>2. Before(Null) = Null
          BY <1>16, <5>1
        <5>3. Before(Null)' = Null
          BY <2>2, <5>1 DEF Before
        <5> QED BY <3>2, <4>1, <5>2, <5>3
      <4> QED BY <4>2
    <3>3. CASE ~InForce(j) /\ ~InForce(j)'
      BY <3>3
    <3> QED BY <1>15, <3>1, <3>2, <3>3
  <2>6. Arrivals' = Arrivals
    BY <2>5 DEF Arrivals
  <2> QED BY <2>4, <2>6, ProgramStutters
<1>18. CASE step = 3
  <2> DEFINE Other(x) == IF x = one THEN two ELSE IF x = two THEN one ELSE x
  <2>1. /\ swap' = NoSwap /\ gather' = NoGather /\ s = tmp /\ d = two
        /\ target' = [j \in Jumps |-> IF moved[j] = tmp THEN Null ELSE moved[j]]
    BY <1>4, <1>6, <1>7, <1>9, <1>18
  <2>2. \A x : x # two => (IF x = tmp THEN two ELSE x) = Other(Before(x))
    BY <1>6, <1>16, <1>18
  <2>3. Order' = body' /\ Order = [k \in Places |-> [n \in 1..Len(body[k]) |-> Before(body[k][n])]]
    BY <1>6, <1>14, <2>1, OrderAtRestAfter DEF Order, Outcome
  <2>4. Order' = [k \in Places |-> [n \in 1..Len(Order[k]) |-> Other(Order[k][n])]]
    <3>1. ASSUME NEW k \in Places
          PROVE  body'[k] = [n \in 1..Len(Order[k]) |-> Other(Order[k][n])]
      <4>1. /\ Len(Order[k]) = Len(body[k]) /\ Len(body[k]) \in Nat
            /\ \A n \in 1..Len(body[k]) : Order[k][n] = Before(body[k][n])
        BY <1>3, <2>3 DEF TypeOK
      <4>2. body'[k] = [n \in 1..Len(body[k]) |-> body'[k][n]]
        BY <1>13, <1>14, SeqIs
      <4>3. \A n \in 1..Len(body[k]) : body'[k][n] = Other(Order[k][n])
        BY <1>13, <2>1, <2>2, <4>1
      <4> QED BY <4>1, <4>2, <4>3
    <3> QED BY <1>14, <2>3, <3>1
  <2>5. Program!Occurs(one) /\ Program!Occurs(two)
    <3>1. \A x : InProgram(x) => \E k \in Places : \E n \in 1..Len(Order[k]) : Order[k][n] = Before(x)
      <4>1. ASSUME NEW x, NEW k \in Blocks, NEW n \in 1..Len(body[k]), body[k][n] = x
            PROVE  k \in Places /\ n \in 1..Len(Order[k]) /\ Order[k][n] = Before(x)
        BY <1>3, <2>3, <4>1 DEF TypeOK, Places
      <4> QED BY <4>1 DEF InProgram, In
    <3>2. Before(tmp) = one /\ Before(one) = two /\ InProgram(tmp) /\ InProgram(one)
      BY <1>6, <1>16, <1>18, <2>1
    <3> QED BY <3>1, <3>2 DEF Program!Occurs, Program!Places, Places, Order
  <2>6. Arrivals' \in [Jumps -> Stmts \cup {Null}]
    BY <1>6, <1>10, <2>1, ArrivalsTyped
  <2>7. ASSUME NEW j \in Jumps
        PROVE  Arrivals'[j] = Other(Arrivals[j])
    <3>1. /\ Arrivals[j] = IF InForce(j) THEN Before(target[j]) ELSE Null
          /\ Arrivals'[j] = IF InForce(j)' THEN target'[j] ELSE Null
      BY <2>1, ArrivalsAtRestAfter DEF Arrivals
    <3>2. Other(Null) = Null /\ Before(Null) = Null
      BY <1>6, <1>16
    <3>3. CASE InForce(j) /\ InForce(j)' /\ target[j] # d
      <4>1. target'[j] = IF target[j] = tmp THEN two ELSE target[j]
        BY <1>6, <1>10, <2>1, <3>3
      <4> QED BY <2>1, <2>2, <3>1, <3>3, <4>1
    <3>4. CASE target[j] = Null
      <4>1. target'[j] = Null
        BY <1>10, <2>1, <3>4
      <4> QED BY <3>1, <3>2, <3>4, <4>1
    <3>5. CASE ~InForce(j) /\ ~InForce(j)'
      BY <3>1, <3>2, <3>5
    <3> QED BY <1>15, <3>3, <3>4, <3>5
  <2>8. Program!Swap(one, two)
    BY <2>4, <2>5, <2>6, <2>7
       DEF Program!Swap, Program!Landing, Program!Jumps, Program!Of, Program!Places, Places, Jumps,
           Order, Arrivals
  <2> QED BY <1>6, <2>8 DEF Program!Next
<1> QED BY <1>17, <1>18

(***************************************************************************)
(* A fragment gives its place to d in one step, its first: the rest of the *)
(* gathering is the same program.                                          *)
(***************************************************************************)
Place(q, s) == CHOOSE i \in 1..Len(q) : q[i] = s

LEMMA PlaceIs ==
  ASSUME NEW q, Injective(q), NEW i \in 1..Len(q), NEW s, q[i] = s
  PROVE  Place(q, s) = i
BY DEF Place, Injective

\* The program while statements are gathered from the i-th of q = body[b] to
\* the one before the k-th.
Part(bodies, b, i, k) ==
  [c \in Places |-> IF c = b THEN Without(bodies[b], i, k)
                    ELSE IF c = Gathered THEN Joined(bodies[c], bodies[b], i, k - 1)
                    ELSE bodies[c]]

LEMMA OrderGathering ==
  ASSUME body \in [Places -> Seq(Stmts)], swap = NoSwap, gather # NoGather, gather.from \in Blocks,
         NEW b, b = gather.from, NEW i, i = Place(body[b], gather.at),
         NEW k, k = Place(body[b], gather.stop)
  PROVE  Order = Part(body, b, i, k)
<1> USE BlocksAssumption
<1>1. \A x : Before(x) = x
  BY DEF Before, NoSwap
<1>2. i = Position(b, gather.at) /\ k = Position(b, gather.stop)
  BY DEF Place, Position
<1>3. b # Gathered
  OBVIOUS
<1>4. ASSUME NEW c \in Places
      PROVE  Outcome(c) = Part(body, b, i, k)[c]
  <2>1. CASE c = b
    BY <1>2, <1>3, <2>1 DEF Outcome, Without, Part
  <2>2. CASE c = Gathered
    BY <1>2, <1>3, <2>2 DEF Outcome, Joined, Part
  <2>3. CASE c # b /\ c # Gathered
    <3>1. Outcome(c) = [n \in 1..Len(body[c]) |-> body[c][n]]
      BY <1>1, <2>3 DEF Outcome
    <3>2. body[c] \in Seq(Stmts)
      OBVIOUS
    <3> QED BY <2>3, <3>1, <3>2, SeqIs DEF Part
  <2> QED BY <2>1, <2>2, <2>3
<1> QED BY <1>4 DEF Order, Part

LEMMA OrderGatheringAfter ==
  ASSUME body' \in [Places -> Seq(Stmts)], swap' = NoSwap, gather' # NoGather, gather'.from \in Blocks,
         NEW b, b = gather'.from, NEW i, i = Place(body'[b], gather'.at),
         NEW k, k = Place(body'[b], gather'.stop)
  PROVE  Order' = Part(body', b, i, k)
<1> USE BlocksAssumption
<1>1. \A x : Before(x)' = x
  BY DEF Before, NoSwap
<1>2. /\ i = Position(gather.from, gather.at)'
      /\ k = Position(gather.from, gather.stop)'
  BY DEF Place, Position
<1>3. b # Gathered
  OBVIOUS
<1>4. ASSUME NEW c \in Places
      PROVE  Outcome(c)' = Part(body', b, i, k)[c]
  <2>1. CASE c = b
    BY <1>2, <1>3, <2>1 DEF Outcome, Without, Part
  <2>2. CASE c = Gathered
    BY <1>2, <1>3, <2>2 DEF Outcome, Joined, Part
  <2>3. CASE c # b /\ c # Gathered
    <3>1. Outcome(c)' = [n \in 1..Len(body'[c]) |-> body'[c][n]]
      BY <1>1, <2>3 DEF Outcome
    <3>2. body'[c] \in Seq(Stmts)
      OBVIOUS
    <3> QED BY <2>3, <3>1, <3>2, SeqIs DEF Part
  <2> QED BY <2>1, <2>2, <2>3
<1> QED BY <1>4 DEF Order, Part

\* No jump of the program is forgotten by ReplaceFragment.
LEMMA FragmentJumps ==
  ASSUME IInv, NEW s \in Stmts, NEW t \in Stmts, NEW d \in Stmts, ReplaceFragment(s, t, d)
  PROVE  /\ target' \in [Jumps -> Stmts \cup {Null}]
         /\ \A j \in Jumps :
              /\ InForce(j) => target'[j] = IF target[j] = s THEN d ELSE target[j]
              /\ target[j] = Null => target'[j] = Null
<1>1. Shape /\ TypeOK /\ InProgram(s) /\ target' = Redirected(s, d)
  BY FragmentTarget DEF IInv, Shape, ReplaceFragment
<1> QED BY <1>1, JumpsFollow, RedirectedTyped

\* A single statement is replaced.
LEMMA SingleMaps ==
  ASSUME IInv, NEW s \in Stmts, NEW d \in Stmts, ReplaceFragment(s, s, d)
  PROVE  Program!Next
<1> USE BlocksAssumption
<1>1. PICK b : b = parent[s]
  OBVIOUS
<1>2. /\ Shape /\ TypeOK /\ Idle /\ swap' = NoSwap /\ gather' = NoGather
      /\ InProgram(s) /\ ~Listed(d)
      /\ body' = [body EXCEPT ![b] =
                    Removed(Inserted(body[b], Position(b, s) + 1, d), Position(b, s))]
  BY <1>1, IdleIs DEF IInv, Shape, ReplaceFragment
<1>3. b \in Places /\ In(s, b) /\ body[b] \in Seq(Stmts)
  BY <1>1, <1>2, WhereIs DEF Places, TypeOK
<1>4. body' = [body EXCEPT ![b] = Replaced(@, Position(b, s), d)]
  BY <1>2, <1>3, FollowedIn
<1>5. /\ target' \in [Jumps -> Stmts \cup {Null}]
      /\ \A j \in Jumps : InForce(j) => target'[j] = IF target[j] = s THEN d ELSE target[j]
  BY FragmentJumps
<1> QED BY <1>2, <1>3, <1>4, <1>5, SubstituteMaps

LEMMA FragmentMaps ==
  ASSUME IInv, NEW s \in Stmts, NEW t \in Stmts, s # t, NEW d \in Stmts, ReplaceFragment(s, t, d)
  PROVE  Program!Next
<1> USE BlocksAssumption
<1>1. PICK b, q : b = parent[s] /\ q = body[b]
  OBVIOUS
<1>2. /\ Shape /\ TypeOK /\ swap = NoSwap /\ gather = NoGather /\ swap' = NoSwap
      /\ IsFragment(s, t) /\ InProgram(s) /\ EnteredAtFirst(s, t) /\ ~Listed(d)
      /\ body[Gathered] = <<>>
  BY IdleIs DEF IInv, Shape, ReplaceFragment
<1>3. /\ b \in Blocks /\ b \in Places /\ Gathered \in Places /\ b # Gathered
      /\ In(s, b) /\ ~In(d, b) /\ d # s /\ In(t, b)
  BY <1>1, <1>2, WhereIs DEF Listed, Places, IsFragment
<1>4. PICK i, k : i = Position(b, s) /\ k = Position(b, t)
  OBVIOUS
<1>5. /\ q \in Seq(Stmts) /\ Injective(q) /\ Len(q) \in Nat
      /\ i \in 1..Len(q) /\ k \in 1..Len(q) /\ q[i] = s /\ i < k
  BY <1>1, <1>2, <1>3, <1>4, PositionIs DEF Shape, TypeOK, Distinct, IsFragment
<1>6. PICK h, put : h = k + 1 /\ put = Inserted(q, h, d)
  OBVIOUS
<1>7. /\ body' = [body EXCEPT ![b] = put]
      /\ gather' = [from |-> b, at |-> s, stop |-> d]
  BY <1>1, <1>4, <1>6 DEF ReplaceFragment
<1>8. /\ h \in 1..Len(q) + 1 /\ i < h /\ k \in i..Len(q) /\ d \in Stmts \ Elems(q)
      /\ h - 1 = k /\ i \in Nat /\ h \in Nat
  BY <1>1, <1>3, <1>5, <1>6, InElems
<1>9. put \in Seq(Stmts) /\ Injective(put)
  BY <1>5, <1>6, <1>8, InsertedElems
<1>10. i \in 1..Len(put) /\ h \in 1..Len(put) /\ put[i] = s /\ put[h] = d
  <2>1. IsInserted(put, q, h, d)
    BY <1>5, <1>6, <1>8, InsertedHas
  <2>2. Len(put) = Len(q) + 1 /\ i \in 1..Len(q) + 1
    BY <1>5, <2>1 DEF IsInserted
  <2>3. put[i] = q[i] /\ put[h] = d
    BY <1>8, <2>1, <2>2 DEF IsInserted
  <2> QED BY <1>5, <1>8, <2>2, <2>3
<1>11. Order = body
  BY <1>2, OrderAtRest DEF TypeOK
<1>12. /\ body' \in [Places -> Seq(Stmts)] /\ body'[b] = put /\ body'[Gathered] = <<>>
       /\ \A c \in Places : c # b => body'[c] = body[c]
  BY <1>2, <1>3, <1>7, <1>9 DEF TypeOK
<1>13. Order' = Part(body', b, i, h)
  <2>1. gather' # NoGather /\ gather'.from = b /\ gather'.at = s /\ gather'.stop = d
    BY <1>3, <1>7 DEF NoGather
  <2>2. Place(put, s) = i /\ Place(put, d) = h
    BY <1>9, <1>10, PlaceIs
  <2> QED BY <1>2, <1>3, <1>12, <2>1, <2>2, OrderGatheringAfter
<1>14. Without(put, i, h) = Filled(q, i, h, d) /\ SubSeq(put, i, k) = SubSeq(q, i, k)
  BY <1>5, <1>6, <1>8, PartMarked
<1>15. Order' = [Order EXCEPT
                   ![b] = SubSeq(@, 1, i - 1) \o <<d>> \o SubSeq(@, k + 1, Len(@)),
                   ![Gathered] = SubSeq(Order[b], i, k)]
  <2> DEFINE v == SubSeq(q, 1, i - 1) \o <<d>> \o SubSeq(q, k + 1, Len(q))
             w == SubSeq(q, i, k)
  <2>1. v = Filled(q, i, h, d)
    BY <1>6 DEF Filled
  <2>2. Joined(<<>>, put, i, h - 1) = w
    <3>1. w \in Seq(Stmts)
      <4>1. i \in 1..Len(q) + 1 /\ k \in i - 1..Len(q)
        BY <1>5, <1>8
      <4> QED BY <1>5, <4>1, PartIs
    <3>2. Joined(<<>>, put, i, h - 1) = <<>> \o w
      BY <1>8, <1>14 DEF Joined
    <3> HIDE DEF w
    <3> QED BY <3>1, <3>2
  <2> HIDE DEF v, w
  <2>3. \A c \in Places : Order'[c] = IF c = b THEN v ELSE IF c = Gathered THEN w ELSE body[c]
    BY <1>3, <1>12, <1>13, <1>14, <2>1, <2>2 DEF Part
  <2>4. Order' = [body EXCEPT ![b] = v, ![Gathered] = w]
    <3>1. Order' = [c \in Places |-> Order'[c]] /\ body = [c \in Places |-> body[c]]
      BY <1>2, <1>13 DEF Part, TypeOK
    <3> QED BY <1>3, <2>3, <3>1
  <2> QED BY <1>1, <1>11, <2>4 DEF v, w
\* The jumps.
<1>16. \A x : InProgram(x)' <=> InProgram(x) \/ x = d
  <2>1. \A x, c : c \in Places => (In(x, c)' <=> In(x, c) \/ (x = d /\ c = b))
    <3>1. /\ body' = [body EXCEPT ![b] = Inserted(@, h, d)]
          /\ h \in 1..Len(body[b]) + 1
      BY <1>1, <1>6, <1>7, <1>8
    <3> QED BY <1>2, <1>3, <3>1, BlockEntered
  <2> QED BY <1>3, <2>1 DEF InProgram, Places
<1>17. \A j \in Jumps : j \notin Within(d) => (InForce(j)' <=> InForce(j))
  BY <1>16, InForceAfter DEF InForce, Within
<1>18. /\ target' \in [Jumps -> Stmts \cup {Null}]
       /\ \A j \in Jumps :
            /\ InForce(j) => target'[j] = IF target[j] = s THEN d ELSE target[j]
            /\ target[j] = Null => target'[j] = Null
  BY FragmentJumps
<1>19. Arrivals' \in [Jumps -> Stmts \cup {Null}]
  BY <1>2, <1>18, ArrivalsTyped
<1>20. ASSUME NEW j \in Jumps
       PROVE  /\ Arrivals[j] = IF InForce(j) THEN target[j] ELSE Null
              /\ Arrivals'[j] = IF InForce(j)' THEN target'[j] ELSE Null
  BY <1>2, ArrivalsAtRest, ArrivalsAtRestAfter
<1>21. ASSUME NEW n \in i..k, NEW j \in Within(q[n])
       PROVE  Arrivals'[j] = Null
  <2>1. n \in Position(parent[s], s)..Position(parent[s], t) /\ body[parent[s]][n] = q[n]
    BY <1>1, <1>4
  <2>2. target[j] = Null /\ j \in Jumps
    BY <1>2, <2>1 DEF EnteredAtFirst, Within, Jumps
  <2> QED BY <1>18, <1>20, <2>2
<1>22. ASSUME NEW j \in Jumps, j \notin Within(d)
       PROVE  Arrivals'[j] = IF Arrivals[j] = s THEN d ELSE Arrivals[j]
  BY <1>17, <1>18, <1>20, <1>22
<1>23. Program!Landing(LAMBDA x : IF x = s THEN d ELSE x, {Order[b][n] : n \in i..k}, {d})
  <2> DEFINE gone == {Order[b][n] : n \in i..k}
  <2>1. \A x \in gone : \A j \in Within(x) : Arrivals'[j] = Null
    BY <1>1, <1>11, <1>21
  <2>2. ASSUME NEW j \in Jumps
        PROVE  /\ (\E x \in gone : j \in Within(x)) => Arrivals'[j] = Null
               /\ ~(\E x \in gone : j \in Within(x)) /\ ~(\E x \in {d} : j \in Within(x)) =>
                    Arrivals'[j] = IF Arrivals[j] = s THEN d ELSE Arrivals[j]
    BY <1>22, <2>1
  <2> HIDE DEF gone
  <2>3. Program!Landing(LAMBDA x : IF x = s THEN d ELSE x, gone, {d})
    BY <1>19, <2>2
       DEF Program!Landing, Program!Jumps, Program!Of, Within, Jumps, Arrivals, Order
  <2> QED BY <2>3 DEF gone
<1>24. Program!Gather(b, i, k, d)
  <2>1. ~Program!Occurs(d)
    BY <1>2, <1>11 DEF Program!Occurs, Program!Places, Listed, In, Order, Places
  <2>2. Order[b][i] = s /\ Order[Gathered] = <<>>
    BY <1>1, <1>2, <1>5, <1>11
  <2> QED BY <1>15, <1>23, <2>1, <2>2
     DEF Program!Gather, Program!Landing, Program!Jumps, Program!Of, Order, Arrivals
<1> QED BY <1>1, <1>3, <1>5, <1>8, <1>11, <1>24 DEF Program!Next, Order

LEMMA GatherMaps ==
  ASSUME IInv, GatherStep
  PROVE  UNCHANGED Program!vars
<1> USE BlocksAssumption
<1>1. PICK b, s, stop : b = gather.from /\ s = gather.at /\ stop = gather.stop
  OBVIOUS
<1>2. PICK q, g : q = body[b] /\ g = body[Gathered]
  OBVIOUS
<1>3. /\ Shape /\ TypeOK /\ gather # NoGather /\ Gathering
  BY DEF IInv, Shape, GatherStep, EditShape
<1>4. /\ b \in Blocks /\ b \in Places /\ Gathered \in Places /\ b # Gathered /\ swap = NoSwap
      /\ q \in Seq(Stmts) /\ g \in Seq(Stmts) /\ Injective(q) /\ Len(q) \in Nat
      /\ body \in [Places -> Seq(Stmts)]
  BY <1>1, <1>2, <1>3 DEF Gathering, Places, Shape, Distinct, TypeOK
<1>5. PICK i \in 1..Len(q), k \in 1..Len(q) :
        i < k /\ q[i] = s /\ q[k] = stop /\ WithoutGotos(q[i])
  <2>1. PICK i \in 1..Len(body[gather.from]), k \in 1..Len(body[gather.from]) :
          /\ i < k /\ body[gather.from][i] = gather.at /\ body[gather.from][k] = gather.stop
          /\ \A n \in i..k - 1 : WithoutGotos(body[gather.from][n])
    BY <1>3 DEF Gathering
  <2>2. i \in i..k - 1
    BY <1>1, <1>2, <1>4, <2>1
  <2> QED BY <1>1, <1>2, <2>1, <2>2
<1>6. /\ s \in Stmts /\ In(s, b) /\ Position(b, s) = i /\ Place(q, s) = i /\ Place(q, stop) = k
      /\ i \in Nat /\ k \in Nat /\ k \in i + 1..Len(q) /\ i + 1 \in 1..Len(q)
  <2>1. In(s, b)
    BY <1>2, <1>5 DEF In
  <2>2. Place(q, s) = i /\ Place(q, stop) = k
    BY <1>4, <1>5, PlaceIs
  <2> QED BY <1>2, <1>4, <1>5, <2>1, <2>2 DEF Position, Place
<1>7. PICK r, f, m : r = Removed(q, i) /\ f = Append(g, q[i]) /\ m = i + 1
  OBVIOUS
<1>8. /\ gather' = IF q[m] = stop THEN NoGather ELSE [gather EXCEPT !.at = q[m]]
      /\ body' = [body EXCEPT ![b] = r, ![Gathered] = f]
      /\ UNCHANGED <<target, swap>>
  BY <1>1, <1>2, <1>4, <1>5, <1>6, <1>7 DEF GatherStep
<1>9. /\ body' \in [Places -> Seq(Stmts)]
      /\ \A x, c : c \in Places => (In(x, c)' <=> (In(x, c) /\ x # s) \/ (x = s /\ c = Gathered))
  <2>1. body' = [body EXCEPT ![b] = Removed(@, Position(b, s)), ![Gathered] = Append(@, s)]
    BY <1>2, <1>4, <1>5, <1>6, <1>7, <1>8
  <2> QED BY <1>3, <1>4, <1>6, <2>1, BlockMoved
<1>10. \A c \in Places : body'[c] = IF c = Gathered THEN f ELSE IF c = b THEN r ELSE body[c]
  BY <1>4, <1>8
<1>11. Order = Part(body, b, i, k)
  BY <1>1, <1>2, <1>3, <1>4, <1>6, OrderGathering

<1>12. Order' = Order
\* The last statement.
  <2>1. CASE q[m] = stop
    <3>1. k = m
      BY <1>4, <1>5, <1>6, <1>7, <2>1 DEF Injective
    <3>2. Order' = body'
      BY <1>4, <1>8, <1>9, <2>1, OrderAtRestAfter
    <3>3. r = Without(q, i, k)
      BY <1>7, <3>1 DEF Without, Removed
    <3>4. f = Joined(g, q, i, k - 1)
      <4>1. PICK e : e = k - 1
        OBVIOUS
      <4>2. e = i
        BY <1>6, <1>7, <3>1, <4>1
      <4> QED BY <1>4, <1>5, <1>7, <4>1, <4>2, PartEnds
    <3>5. body' = Part(body, b, i, k)
      <4>1. \A c \in Places : body'[c] = Part(body, b, i, k)[c]
        BY <1>2, <1>4, <1>10, <3>3, <3>4 DEF Part
      <4> QED BY <1>9, <4>1 DEF Part
    <3> QED BY <1>11, <3>2, <3>5
\* There are more.
  <2>2. CASE q[m] # stop
    <3>1. PICK h, e : h = k - 1 /\ e = h - 1
      OBVIOUS
    <3>2. gather' # NoGather /\ gather'.from = b /\ gather'.at = q[m] /\ gather'.stop = stop
      BY <1>1, <1>3, <1>4, <1>8, <2>2 DEF TypeOK, NoGather
    <3>3. r \in Seq(Stmts) /\ Injective(r)
      BY <1>4, <1>5, <1>7, RemovedElems
    <3>4. i \in 1..Len(r) /\ h \in 1..Len(r) /\ r[i] = q[m] /\ r[h] = stop
      <4>1. IsRemoved(r, q, i)
        BY <1>4, <1>5, <1>7, RemovedHas
      <4>2. k # m
        BY <1>5, <2>2
      <4>3. /\ Len(r) = Len(q) - 1 /\ i \in 1..Len(q) - 1 /\ h \in 1..Len(q) - 1
            /\ ~(i < i) /\ ~(h < i) /\ h + 1 = k
        BY <1>4, <1>5, <1>6, <1>7, <3>1, <4>1, <4>2 DEF IsRemoved
      <4>4. r[i] = q[i + 1] /\ r[h] = q[h + 1]
        BY <4>1, <4>3 DEF IsRemoved
      <4> QED BY <1>5, <1>7, <4>3, <4>4
    <3>5. Place(r, q[m]) = i /\ Place(r, stop) = h
      BY <3>3, <3>4, PlaceIs
    <3>6. body'[b] = r
      BY <1>4, <1>10
    <3>7. Order' = Part(body', b, i, h)
      BY <1>4, <1>8, <1>9, <3>2, <3>5, <3>6, OrderGatheringAfter
    <3>8. /\ Without(r, i, h) = Without(q, i, k)
          /\ Joined(f, r, i, e) = Joined(g, q, i, h)
      BY <1>4, <1>5, <1>6, <1>7, <3>1, PartShortened
    <3>9. Part(body', b, i, h) = Part(body, b, i, k)
      BY <1>2, <1>4, <1>10, <3>1, <3>8 DEF Part
    <3> QED BY <1>11, <3>7, <3>9
  <2> QED BY <2>1, <2>2
<1>13. ASSUME NEW j \in Jumps
       PROVE  (IF InForce(j)' THEN target'[j] ELSE Null) = IF InForce(j) THEN target[j] ELSE Null
  <2>1. CASE j \in Within(s)
    BY <1>5, <1>8, <2>1 DEF WithoutGotos
  <2>2. CASE j \notin Within(s)
    <3>1. \A x : x # s => (InProgram(x)' <=> InProgram(x))
      BY <1>4, <1>9 DEF InProgram, Places
    <3>2. InForce(j)' <=> InForce(j)
      BY <2>2, <3>1, InForceAfter DEF InForce, Within
    <3> QED BY <1>8, <3>2
  <2> QED BY <2>1, <2>2
<1>14. Arrivals' = Arrivals
  BY <1>4, <1>8, <1>13, ArrivalsAtRest, ArrivalsAtRestAfter
<1> QED BY <1>12, <1>14, ProgramStutters

LEMMA NothingMaps ==
  ASSUME UNCHANGED vars
  PROVE  UNCHANGED Program!vars
<1>1. UNCHANGED <<body, target, gather, swap>>
  BY DEF vars
<1>2. \A b : Outcome(b)' = Outcome(b)
  BY <1>1 DEF Outcome, Before, Position
<1>3. \A j : (InForce(j)' <=> InForce(j)) /\ Before(target[j])' = Before(target[j])
  BY <1>1 DEF InForce, InProgram, In, Before
<1>4. Order' = Order /\ Arrivals' = Arrivals
  BY <1>2, <1>3 DEF Order, Arrivals
<1> QED BY <1>4, ProgramStutters

LEMMA InitMaps == Init => Program!Init
<1> SUFFICES ASSUME Init PROVE Program!Init
  OBVIOUS
<1> USE BlocksAssumption
<1>1. /\ body = [b \in Places |-> <<>>] /\ target = [j \in Jumps |-> Null]
      /\ gather = NoGather /\ swap = NoSwap
  BY DEF Init
<1>2. Order = body
  <2>1. body \in [Places -> Seq(Stmts)]
    <3> DEFINE none == <<>>
    <3>1. none \in Seq(Stmts) /\ body = [b \in Places |-> none]
      BY <1>1
    <3> HIDE DEF none
    <3> QED BY <3>1
  <2> QED BY <1>1, <2>1, OrderAtRest
<1>3. Arrivals = [j \in Jumps |-> Null]
  BY <1>1, ArrivalsAtRest
<1> QED BY <1>1, <1>2, <1>3 DEF Program!Init, Program!Places, Program!Jumps, Places, Jumps, Order, Arrivals

LEMMA StepMaps == IInv /\ [Next]_vars => [Program!Next]_Program!vars
<1> SUFFICES ASSUME IInv, [Next]_vars PROVE [Program!Next]_Program!vars
  OBVIOUS
<1>1. CASE UNCHANGED vars
  BY <1>1, NothingMaps
<1>2. ASSUME NEW s \in Stmts, Create(s) \/ Hold(s) \/ LetGo(s)
      PROVE  [Program!Next]_Program!vars
  BY <1>2, HandlesMap
<1>3. ASSUME NEW j \in Jumps, NEW s \in Stmts, NEW name \in Labels, Jump(j, s, name)
      PROVE  [Program!Next]_Program!vars
  BY <1>3, JumpMaps
<1>4. ASSUME NEW b \in Blocks, NEW s \in Stmts, NEW i \in 1..Cardinality(Stmts),
             Outside(b, s), Settled(s), Add(b, i, s)
      PROVE  [Program!Next]_Program!vars
  BY <1>4, AddMaps
<1>5. ASSUME NEW b \in Places, NEW s \in Stmts, Erase(b, s)
      PROVE  [Program!Next]_Program!vars
  BY <1>5, EraseMaps
<1>6. ASSUME NEW s \in Stmts, NEW d \in Stmts, ReplaceStatement(s, d)
      PROVE  [Program!Next]_Program!vars
  BY <1>6, ReplaceMaps
<1>7. CASE SwapStep
  BY <1>7, SwapStepMaps
<1>8. ASSUME NEW s \in Stmts, NEW t \in Stmts, NEW d \in Stmts, ReplaceFragment(s, t, d)
      PROVE  [Program!Next]_Program!vars
  BY <1>8, SingleMaps, FragmentMaps
<1>9. CASE GatherStep
  BY <1>9, GatherMaps
<1>10. CASE DropGathered
  BY <1>10, DropMaps
<1>11. ASSUME NEW one \in Stmts, NEW two \in Stmts, NEW tmp \in Stmts, SwapBegin(one, two, tmp)
       PROVE  [Program!Next]_Program!vars
  BY <1>11, SwapBeginMaps
<1> QED
  BY <1>1, <1>2, <1>3, <1>4, <1>5, <1>6, <1>7, <1>8, <1>9, <1>10, <1>11 DEF Next, Others

\* The blocks as they were before a swap and as they will be after a
\* gathering, and the places the jumps of the program land at, change as
\* EditedProgram promises: swapStmts() exchanges two statements and nothing
\* else, replaceStatement() and replaceProgramFragment() put one in the place
\* of others, and no jump moves to another place because of them.
THEOREM EditsAreSingle == Spec => ImplementsEdits
BY Invariance, InitMaps, StepMaps, PTL DEF Spec, ImplementsEdits, Program!Spec
=============================================================================
