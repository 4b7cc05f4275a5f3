------------------------------- MODULE Ownership -------------------------------
(***************************************************************************)
(* What the handle layer of Reprise promises, without counters: a node     *)
(* lives until its last owner lets go or, if nothing owns it, until it is  *)
(* deleted; observers see a living node or nothing.                        *)
(***************************************************************************)
EXTENDS FiniteSets

CONSTANTS Objects, Strong, Weak, Null

VARIABLES
  alive, \* the living nodes
  owns,  \* the node each strong handle owns, or Null
  sees   \* the node each weak handle observes, or Null

vars == <<alive, owns, sees>>

Init ==
  /\ alive = {}
  /\ owns = [s \in Strong |-> Null]
  /\ sees = [w \in Weak |-> Null]

\* The observers that remain when the nodes of gone have died.
Blinded(view, gone) == [w \in Weak |-> IF view[w] \in gone THEN Null ELSE view[w]]

Create(o) ==
  /\ o \notin alive
  /\ alive' = alive \cup {o}
  /\ UNCHANGED <<owns, sees>>

\* A node nothing owns and nothing sees is deleted.
Discard(o) ==
  /\ o \in alive
  /\ \A s \in Strong : owns[s] # o
  /\ \A w \in Weak : sees[w] # o
  /\ alive' = alive \ {o}
  /\ UNCHANGED <<owns, sees>>

Acquire(s, o) ==
  /\ owns[s] = Null /\ o \in alive
  /\ owns' = [owns EXCEPT ![s] = o]
  /\ UNCHANGED <<alive, sees>>

\* An owner lets go; the node dies with its last owner.
LetGo(s) ==
  /\ owns[s] # Null
  /\ owns' = [owns EXCEPT ![s] = Null]
  /\ LET gone == {owns[s]} \ {owns[t] : t \in Strong \ {s}}
     IN alive' = alive \ gone /\ sees' = Blinded(sees, gone)

\* An owner leaves its node alive.
Surrender(s) ==
  /\ owns[s] # Null
  /\ owns' = [owns EXCEPT ![s] = Null]
  /\ UNCHANGED <<alive, sees>>

\* Handle s takes over what t owns, and aside, which owned nothing, keeps
\* what s owned.
Exchange(s, t, aside) ==
  /\ owns[aside] = Null
  /\ owns' = [owns EXCEPT ![s] = owns[t], ![aside] = owns[s]]
  /\ UNCHANGED <<alive, sees>>

\* A weak handle turns to a living node, or to none.
Turn(w, o) ==
  /\ o \in alive \cup {Null}
  /\ sees' = [sees EXCEPT ![w] = o]
  /\ UNCHANGED <<alive, owns>>

Next ==
  \/ \E o \in Objects : Create(o) \/ Discard(o)
  \/ \E s \in Strong, o \in Objects : Acquire(s, o)
  \/ \E s \in Strong : LetGo(s) \/ Surrender(s)
  \/ \E s, t, aside \in Strong : Exchange(s, t, aside)
  \/ \E w \in Weak, o \in Objects \cup {Null} : Turn(w, o)

Spec == Init /\ [][Next]_vars
=============================================================================
