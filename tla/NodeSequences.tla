----------------------------- MODULE NodeSequences -----------------------------
(***************************************************************************)
(* What the intrusive lists of Reprise promise, without links: each list   *)
(* is a sequence, no node occurs twice, a node lives while a list or       *)
(* somebody else holds it, and iterators step along the sequence.          *)
(***************************************************************************)
EXTENDS Integers, Sequences

CONSTANTS Nodes, Lists, Cursors, Null, Before

VARIABLES
  order,       \* the nodes of each list
  alive, held, \* the nodes that exist, and those held outside the lists
  of, at       \* the list of an iterator, and its node, Null or Before

vars == <<order, alive, held, of, at>>

Init ==
  /\ order = [l \in Lists |-> <<>>]
  /\ alive = {} /\ held = {}
  /\ of \in [Cursors -> Lists]
  /\ at = [c \in Cursors |-> Null]

Listed(n) == \E l \in Lists : \E i \in 1..Len(order[l]) : order[l][i] = n

Create(n) ==
  /\ n \notin alive
  /\ alive' = alive \cup {n}
  /\ UNCHANGED <<order, held, of, at>>

Take(n) ==
  /\ n \in alive
  /\ held' = held \cup {n}
  /\ UNCHANGED <<order, alive, of, at>>

GiveBack(n) ==
  /\ n \in held
  /\ held'  = held \ {n}
  /\ alive' = IF Listed(n) THEN alive ELSE alive \ {n}
  /\ UNCHANGED <<order, of, at>>

Enter(l, i, n) ==
  /\ n \in alive /\ ~Listed(n)
  /\ order' = [order EXCEPT ![l] = SubSeq(@, 1, i - 1) \o <<n>> \o SubSeq(@, i, Len(@))]
  /\ UNCHANGED <<alive, held, of, at>>

\* The iterator a node was removed through, if any, is put at the end.
Leave(l, i) ==
  LET n == order[l][i]
  IN /\ order' = [order EXCEPT ![l] = SubSeq(@, 1, i - 1) \o SubSeq(@, i + 1, Len(@))]
     /\ alive' = IF n \in held THEN alive ELSE alive \ {n}
     /\ \/ UNCHANGED at
        \/ \E c \in Cursors : /\ of[c] = l /\ at[c] = n
                              /\ at' = [at EXCEPT ![c] = Null]
     /\ UNCHANGED <<held, of>>

Point(c, l, x) ==
  /\ \E i \in 1..Len(order[l]) : order[l][i] = x
  /\ of' = [of EXCEPT ![c] = l]
  /\ at' = [at EXCEPT ![c] = x]
  /\ UNCHANGED <<order, alive, held>>

PointToEnd(c, l) ==
  /\ of' = [of EXCEPT ![c] = l]
  /\ at' = [at EXCEPT ![c] = Null]
  /\ UNCHANGED <<order, alive, held>>

\* x and y are neighbours in the sequence s, the two ends included.
Neighbours(s, x, y) ==
  LET bounded == <<Before>> \o s \o <<Null>>
  IN \E i \in 1..Len(s) + 1 : bounded[i] = x /\ bounded[i + 1] = y

Forward(c) ==
  /\ \E x \in Nodes \cup {Null} :
       Neighbours(order[of[c]], at[c], x) /\ at' = [at EXCEPT ![c] = x]
  /\ UNCHANGED <<order, alive, held, of>>

Backward(c) ==
  /\ \E x \in Nodes \cup {Before} :
       Neighbours(order[of[c]], x, at[c]) /\ at' = [at EXCEPT ![c] = x]
  /\ UNCHANGED <<order, alive, held, of>>

Next ==
  \/ \E n \in Nodes : Create(n) \/ Take(n) \/ GiveBack(n)
  \/ \E l \in Lists : \E i \in 1..Len(order[l]) + 1, n \in Nodes : Enter(l, i, n)
  \/ \E l \in Lists : \E i \in 1..Len(order[l]) : Leave(l, i)
  \/ \E c \in Cursors, l \in Lists, x \in Nodes : Point(c, l, x)
  \/ \E c \in Cursors, l \in Lists : PointToEnd(c, l)
  \/ \E c \in Cursors : Forward(c) \/ Backward(c)

Spec == Init /\ [][Next]_vars
=============================================================================
