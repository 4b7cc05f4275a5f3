----------------------------- MODULE EditedProgram -----------------------------
(***************************************************************************)
(* What the edits of statements promise: the program is a sequence of      *)
(* statements for each block, an edit is one step, and a jump goes on      *)
(* landing at the place it landed at, whatever statement is put there.     *)
(***************************************************************************)
EXTENDS Integers, Sequences

CONSTANTS Stmts, Blocks, Gathered, Gotos, Cases, Site, Null

VARIABLES
  order, \* the statements of each block
  lands  \* the statement each jump of the program lands on, or Null

vars == <<order, lands>>

Places == Blocks \cup {Gathered}
Jumps  == Gotos \cup Cases

Init ==
  /\ order = [b \in Places |-> <<>>]
  /\ lands = [j \in Jumps |-> Null]

Occurs(s) == \E b \in Places : \E i \in 1..Len(order[b]) : order[b][i] = s

Of(s) == {j \in Gotos : Site[j] = s}

\* A jump to s, unless it is in s, is in the way of s leaving the program.
Free(s) == \A j \in Jumps \ Of(s) : lands[j] # s

\* The jumps, renamed by f, when the gotos of the statements in gone are gone
\* and those of the statements in come may land anywhere.
Landing(f(_), gone, come) ==
  /\ lands' \in [Jumps -> Stmts \cup {Null}]
  /\ \A j \in Jumps :
       IF \E s \in gone : j \in Of(s) THEN lands'[j] = Null
       ELSE IF \E s \in come : j \in Of(s) THEN TRUE
       ELSE lands'[j] = f(lands[j])

Same(s) == s

Jump(j, b, i) ==
  /\ lands' = [lands EXCEPT ![j] = order[b][i]]
  /\ UNCHANGED order

Enter(b, i, s) ==
  /\ ~Occurs(s)
  /\ order' = [order EXCEPT ![b] = SubSeq(@, 1, i - 1) \o <<s>> \o SubSeq(@, i, Len(@))]
  /\ Landing(Same, {}, {s})

Leave(b, i) ==
  /\ Free(order[b][i])
  /\ order' = [order EXCEPT ![b] = SubSeq(@, 1, i - 1) \o SubSeq(@, i + 1, Len(@))]
  /\ Landing(Same, {order[b][i]}, {})

\* The i-th statement of b gives its place, and the jumps to it, to d.
Substitute(b, i, d) ==
  LET s == order[b][i]
      Heir(x) == IF x = s THEN d ELSE x
  IN /\ ~Occurs(d)
     /\ order' = [order EXCEPT ![b][i] = d]
     /\ Landing(Heir, {s}, {d})

Swap(one, two) ==
  LET Other(x) == IF x = one THEN two ELSE IF x = two THEN one ELSE x
  IN /\ Occurs(one) /\ Occurs(two)
     /\ order' = [b \in Places |-> [i \in 1..Len(order[b]) |-> Other(order[b][i])]]
     /\ Landing(Other, {}, {})

\* The statements from the i-th to the k-th of b become the gathered block,
\* and d takes their place.
Gather(b, i, k, d) ==
  LET Heir(x) == IF x = order[b][i] THEN d ELSE x
  IN /\ ~Occurs(d) /\ order[Gathered] = <<>>
     /\ order' = [order EXCEPT
                    ![b] = SubSeq(@, 1, i - 1) \o <<d>> \o SubSeq(@, k + 1, Len(@)),
                    ![Gathered] = SubSeq(order[b], i, k)]
     /\ Landing(Heir, {order[b][n] : n \in i..k}, {d})

Discard ==
  /\ order' = [order EXCEPT ![Gathered] = <<>>]
  /\ UNCHANGED lands

Next ==
  \/ \E j \in Jumps, b \in Blocks : \E i \in 1..Len(order[b]) : Jump(j, b, i)
  \/ \E b \in Places, s \in Stmts : \E i \in 1..Len(order[b]) + 1 : Enter(b, i, s)
  \/ \E b \in Places : \E i \in 1..Len(order[b]) : Leave(b, i)
  \/ \E b \in Places, d \in Stmts : \E i \in 1..Len(order[b]) : Substitute(b, i, d)
  \/ \E one, two \in Stmts : Swap(one, two)
  \/ \E b \in Blocks, d \in Stmts : \E i \in 1..Len(order[b]) :
       \E k \in i..Len(order[b]) : Gather(b, i, k, d)
  \/ Discard

Spec == Init /\ [][Next]_vars
=============================================================================
