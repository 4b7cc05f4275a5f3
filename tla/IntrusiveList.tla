----------------------------- MODULE IntrusiveList -----------------------------
(***************************************************************************)
(* The doubly linked lists of Reprise (include/Reprise/Collections.h).     *)
(*                                                                         *)
(* The links are members of the node, so a node can be in one list only.   *)
(* A list holds one reference to each of its nodes; what a reference does  *)
(* is RepriseHandles' subject, here a node lives while a list or somebody  *)
(* else holds it.  A node just created is held by nobody.                  *)
(*                                                                         *)
(* A call that throws changes nothing in this file, so its conditions are  *)
(* guards.                                                                 *)
(***************************************************************************)
EXTENDS Integers, FiniteSets, Sequences

CONSTANTS
  Nodes,    \* addresses a node may have
  Lists,
  Cursors,  \* Iterator variables
  Null,     \* the null pointer; m_state 0, the end of the list
  Before    \* m_state -1, before the start of the list

ASSUME ListAssumption ==
  /\ IsFiniteSet(Nodes)
  /\ Null \notin Nodes \cup Lists /\ Before \notin Nodes \cup {Null}

VARIABLES
  next, prev,         \* m_next, m_prev of a node
  first, last, count, \* m_first, m_last, m_count of a list
  alive,              \* the nodes that exist
  held,               \* the nodes held by somebody else than a list
  refs,               \* how many references to a node lists hold
  of, at,             \* m_list of an iterator, and its m_current or m_state
  clearing, sweep     \* the list whose clear() is running, or Null, and the
                      \* iterator of its loop

links  == <<next, prev, first, last, count>>
cursor == <<of, at>>
loop   == <<clearing, sweep>>
vars   == <<next, prev, first, last, count, alive, held, refs, of, at, clearing, sweep>>

TypeOK ==
  /\ next  \in [Nodes -> Nodes \cup {Null}]
  /\ prev  \in [Nodes -> Nodes \cup {Null}]
  /\ first \in [Lists -> Nodes \cup {Null}]
  /\ last  \in [Lists -> Nodes \cup {Null}]
  /\ count \in [Lists -> Nat]
  /\ alive \subseteq Nodes /\ held \subseteq alive
  /\ refs  \in [Nodes -> Nat]
  /\ of    \in [Cursors -> Lists]
  /\ at    \in [Cursors -> Nodes \cup {Null, Before}]
  /\ clearing \in Lists \cup {Null}
  /\ sweep \in Nodes \cup {Null}

Init ==
  /\ next  = [n \in Nodes |-> Null] /\ prev = [n \in Nodes |-> Null]
  /\ first = [l \in Lists |-> Null] /\ last = [l \in Lists |-> Null]
  /\ count = [l \in Lists |-> 0]
  /\ alive = {} /\ held = {}
  /\ refs  = [n \in Nodes |-> 0]
  /\ of \in [Cursors -> Lists]
  /\ at    = [c \in Cursors |-> Null]
  /\ clearing = Null /\ sweep = Null

-----------------------------------------------------------------------------
(* What a traversal from getFirst() meets.                                 *)

\* The n nodes that are met along link from node f on.
Walk(f, link, n) ==
  LET node[i \in 1..n] ==
        IF i = 1 THEN f ELSE IF node[i - 1] = Null THEN Null ELSE link[node[i - 1]]
  IN  node

Chain(l) == Walk(first[l], next, count[l])

Members(l) == {Chain(l)[i] : i \in 1..count[l]} \ {Null}

IsValid(x) == x # Null /\ x # Before

-----------------------------------------------------------------------------
(* What the callers owe.                                                   *)

\* An iterator is used on a node only while that node is in its list.
Sound(c) == IsValid(at[c]) => at[c] \in Members(of[c])

\* A node is added while no other list has it.
Unshared(l, n) == \A k \in Lists \ {l} : n \notin Members(k)

-----------------------------------------------------------------------------
(* The life of a node outside the lists.                                   *)

New(n) ==
  /\ clearing = Null /\ n \notin alive
  /\ alive' = alive \cup {n}
  /\ next' = [next EXCEPT ![n] = Null]
  /\ prev' = [prev EXCEPT ![n] = Null]
  /\ UNCHANGED <<first, last, count, held, refs, cursor, loop>>

Hold(n) ==
  /\ clearing = Null /\ n \in alive \ held
  /\ held' = held \cup {n}
  /\ UNCHANGED <<links, alive, refs, cursor, loop>>

Unhold(n) ==
  /\ clearing = Null /\ n \in held
  /\ held'  = held \ {n}
  /\ alive' = IF refs[n] = 0 THEN alive \ {n} ELSE alive
  /\ UNCHANGED <<links, refs, cursor, loop>>

-----------------------------------------------------------------------------
(* Adding.                                                                 *)

\* checkNode(): the node is linked, or is an end of this list.
Refused(l, n) == next[n] # Null \/ prev[n] # Null \/ first[l] = n \/ last[l] = n

Relink(link, n, to) == IF n = Null THEN link ELSE [link EXCEPT ![n] = to]

\* private_addRef(), and n is linked in between p and q; a Null p makes it
\* the first node and a Null q the last.
Insert(l, p, n, q) ==
  /\ clearing = Null /\ n \in alive /\ ~Refused(l, n)
  /\ next'  = Relink([next EXCEPT ![n] = q], p, n)
  /\ prev'  = Relink([prev EXCEPT ![n] = p], q, n)
  /\ first' = IF p = Null THEN [first EXCEPT ![l] = n] ELSE first
  /\ last'  = IF q = Null THEN [last EXCEPT ![l] = n] ELSE last
  /\ count' = [count EXCEPT ![l] = @ + 1]
  /\ refs'  = [refs EXCEPT ![n] = @ + 1]
  /\ UNCHANGED <<alive, held, cursor, loop>>

AddFirst(l, n) == Insert(l, Null, n, first[l])

AddLast(l, n) == Insert(l, last[l], n, Null)

\* The end of a list that is not empty is no place to add after: there is
\* no test, m_current is dereferenced.
AddAfter(l, c, n) ==
  /\ of[c] = l /\ Sound(c)
  /\ IF count[l] = 0
     THEN ~IsValid(at[c]) /\ Insert(l, Null, n, Null)
     ELSE /\ at[c] # Null
          /\ CASE at[c] = Before  -> AddFirst(l, n)
               [] at[c] = last[l] -> Insert(l, last[l], n, Null)
               [] OTHER           -> Insert(l, at[c], n, next[at[c]])

\* Mutant: the end of the list is taken for its start.
AddBeforeFirst(l, c, n) ==
  /\ of[c] = l /\ Sound(c)
  /\ IF count[l] = 0
     THEN ~IsValid(at[c]) /\ Insert(l, Null, n, Null)
     ELSE /\ at[c] # Before
          /\ IF at[c] = Null \/ at[c] = first[l]
             THEN Insert(l, Null, n, first[l])
             ELSE Insert(l, prev[at[c]], n, at[c])

\* And before the start is no place to add before.
AddBefore(l, c, n) ==
  /\ of[c] = l /\ Sound(c)
  /\ IF count[l] = 0
     THEN ~IsValid(at[c]) /\ Insert(l, Null, n, Null)
     ELSE /\ at[c] # Before
          /\ CASE at[c] = Null     -> AddLast(l, n)
               [] at[c] = first[l] -> Insert(l, Null, n, first[l])
               [] OTHER            -> Insert(l, prev[at[c]], n, at[c])

-----------------------------------------------------------------------------
(* Removing.                                                               *)

\* Mutant: the node is deleted whoever holds it.
Deleted(n) ==
  /\ refs'  = [refs EXCEPT ![n] = @ - 1]
  /\ alive' = alive \ {n}

\* private_removeRef() and the deletion of a node nobody holds any more.
LetGo(n) ==
  /\ refs'  = [refs EXCEPT ![n] = @ - 1]
  /\ alive' = IF refs[n] = 1 /\ n \notin held THEN alive \ {n} ELSE alive

\* Mutant: the node that leaves keeps its links.
UnlinkDirty(l, n) ==
  /\ IsValid(n) /\ count[l] # 0
  /\ LetGo(n)
  /\ count' = [count EXCEPT ![l] = @ - 1]
  /\ next'  = Relink(next, prev[n], next[n])
  /\ prev'  = Relink(prev, next[n], prev[n])
  /\ first' = IF prev[n] = Null THEN [first EXCEPT ![l] = next[n]] ELSE first
  /\ last'  = IF next[n] = Null THEN [last EXCEPT ![l] = prev[n]] ELSE last

\* remove(iter) once its iterator is found to be this list's.  The only node
\* of a list keeps its links, which are null.  The links of a deleted node
\* do not matter.
Unlink(l, n) ==
  /\ IsValid(n) /\ count[l] # 0
  /\ LetGo(n)
  /\ count' = [count EXCEPT ![l] = @ - 1]
  /\ IF count[l] = 1
     THEN /\ n = last[l]
          /\ first' = [first EXCEPT ![l] = Null]
          /\ last'  = [last EXCEPT ![l] = Null]
          /\ UNCHANGED <<next, prev>>
     ELSE /\ next'  = [Relink(next, prev[n], next[n]) EXCEPT ![n] = Null]
          /\ prev'  = [Relink(prev, next[n], prev[n]) EXCEPT ![n] = Null]
          /\ first' = IF prev[n] = Null THEN [first EXCEPT ![l] = next[n]] ELSE first
          /\ last'  = IF next[n] = Null THEN [last EXCEPT ![l] = prev[n]] ELSE last

\* remove(iter): the iterator is left at the end.
RemoveIterator(l, c) ==
  /\ clearing = Null /\ of[c] = l /\ Sound(c)
  /\ Unlink(l, at[c])
  /\ at' = [at EXCEPT ![c] = Null]
  /\ UNCHANGED <<held, of, loop>>

\* remove(node): the iterator is a temporary.
RemoveNode(l, n) ==
  /\ clearing = Null /\ n \in Members(l)
  /\ Unlink(l, n)
  /\ UNCHANGED <<held, cursor, loop>>

\* removeFirst() and removeLast() clear, of the node that leaves, the one
\* link that is not null.
RemoveFirst(l) ==
  /\ clearing = Null /\ count[l] # 0
  /\ LetGo(first[l])
  /\ count' = [count EXCEPT ![l] = @ - 1]
  /\ LET second == next[first[l]]
     IN IF count[l] = 1
        THEN /\ first' = [first EXCEPT ![l] = Null]
             /\ last'  = [last EXCEPT ![l] = Null]
             /\ UNCHANGED <<next, prev>>
        ELSE /\ first' = [first EXCEPT ![l] = second]
             /\ next'  = [next EXCEPT ![prev[second]] = Null]
             /\ prev'  = [prev EXCEPT ![second] = Null]
             /\ UNCHANGED last
  /\ UNCHANGED <<held, cursor, loop>>

RemoveLast(l) ==
  /\ clearing = Null /\ count[l] # 0
  /\ LetGo(last[l])
  /\ count' = [count EXCEPT ![l] = @ - 1]
  /\ LET second == prev[last[l]]
     IN IF count[l] = 1
        THEN /\ first' = [first EXCEPT ![l] = Null]
             /\ last'  = [last EXCEPT ![l] = Null]
             /\ UNCHANGED <<next, prev>>
        ELSE /\ last'  = [last EXCEPT ![l] = second]
             /\ prev'  = [prev EXCEPT ![next[second]] = Null]
             /\ next'  = [next EXCEPT ![second] = Null]
             /\ UNCHANGED first
  /\ UNCHANGED <<held, cursor, loop>>

\* clear() steps its iterator before it removes the node the iterator left,
\* and resets the list when the iterator has come to the end.
ClearBegin(l) ==
  /\ clearing = Null /\ count[l] # 0
  /\ clearing' = l
  /\ sweep'    = first[l]
  /\ UNCHANGED <<links, alive, held, refs, cursor>>

ClearStep ==
  /\ clearing # Null /\ sweep # Null
  /\ Unlink(clearing, sweep)
  /\ sweep' = next[sweep]
  /\ UNCHANGED <<held, cursor, clearing>>

ClearEnd ==
  /\ clearing # Null /\ sweep = Null
  /\ first' = [first EXCEPT ![clearing] = Null]
  /\ last'  = [last EXCEPT ![clearing] = Null]
  /\ count' = [count EXCEPT ![clearing] = 0]
  /\ clearing' = Null
  /\ UNCHANGED <<next, prev, alive, held, refs, cursor, sweep>>

-----------------------------------------------------------------------------
(* Iterators.                                                              *)

\* getFirst(), getLast(), goFirst(), goLast(), find(), convertToIterator(),
\* and the copy of an iterator.
Seek(c, l, x) ==
  /\ clearing = Null
  /\ x \in {first[l], last[l], Null} \cup Members(l)
  /\ of' = [of EXCEPT ![c] = l]
  /\ at' = [at EXCEPT ![c] = x]
  /\ UNCHANGED <<links, alive, held, refs, loop>>

GoNext(c) ==
  /\ clearing = Null /\ Sound(c)
  /\ at[c] # Null
  /\ at' = [at EXCEPT ![c] = IF @ = Before THEN first[of[c]] ELSE next[@]]
  /\ UNCHANGED <<links, alive, held, refs, of, loop>>

\* A null m_prev reads as the state 0, and is turned into -1.
GoPrevious(c) ==
  /\ clearing = Null /\ Sound(c)
  /\ at[c] # Before
  /\ at[c] = Null => count[of[c]] # 0
  /\ at' = [at EXCEPT ![c] = IF @ = Null THEN last[of[c]]
                             ELSE IF prev[@] = Null THEN Before ELSE prev[@]]
  /\ UNCHANGED <<links, alive, held, refs, of, loop>>

-----------------------------------------------------------------------------
Adds(l, n) ==
  \/ AddFirst(l, n)
  \/ AddLast(l, n)
  \/ \E c \in Cursors : AddAfter(l, c, n)
  \/ \E c \in Cursors : AddBefore(l, c, n)

Others ==
  \/ \E n \in Nodes : New(n) \/ Hold(n) \/ Unhold(n)
  \/ \E l \in Lists, n \in Nodes : RemoveNode(l, n)
  \/ \E l \in Lists, c \in Cursors : RemoveIterator(l, c)
  \/ \E l \in Lists : RemoveFirst(l) \/ RemoveLast(l) \/ ClearBegin(l)
  \/ ClearStep \/ ClearEnd
  \/ \E c \in Cursors, l \in Lists, x \in Nodes \cup {Null} : Seek(c, l, x)
  \/ \E c \in Cursors : GoNext(c) \/ GoPrevious(c)

Next ==
  \/ \E l \in Lists, n \in Nodes : Unshared(l, n) /\ Adds(l, n)
  \/ Others

Spec == Init /\ [][Next]_vars

-----------------------------------------------------------------------------
(* Properties.                                                             *)

\* The walk back from getLast() meets what the walk from getFirst() meets,
\* in reverse, and both end where m_count says: m_next, m_prev, m_first,
\* m_last and m_count describe one sequence after every call.
Mirrored ==
  \A l \in Lists :
    LET seen == Chain(l)
    IN IF count[l] = 0
       THEN first[l] = Null /\ last[l] = Null
       ELSE /\ \A i \in 1..count[l] : seen[i] \in alive
            /\ \A i \in 2..count[l] : prev[seen[i]] = seen[i - 1]
            /\ prev[first[l]] = Null
            /\ last[l] = seen[count[l]] /\ next[last[l]] = Null

\* The error checkNode() raises says `already in some list': no node is in
\* two lists, or twice in one.
OneListEach ==
  \A n \in Nodes :
    Cardinality({p \in Lists \X (1..Cardinality(Nodes)) :
                   p[2] <= count[p[1]] /\ Chain(p[1])[p[2]] = n}) <= 1

\* A list holds one reference to each node a traversal meets and to no
\* other, so that the last holder's departure, and nothing else, deletes it.
ReferencesBalanced ==
  \A n \in Nodes : refs[n] = Cardinality({l \in Lists : n \in Members(l)})

\* A node that has left its list can be added to any list (removeTest of
\* unittests/Reprise/CollectionsTest.cpp).
Reusable ==
  \A n \in alive : refs[n] = 0 => next[n] = Null /\ prev[n] = Null

\* What every call leaves of all lists together: everything has its type,
\* and links, counts, references and the nodes outside describe one set of
\* disjoint sequences.
Consistent == TypeOK /\ Mirrored /\ OneListEach /\ ReferencesBalanced /\ Reusable

\* Node n has been put in after the first i nodes of list l.
PutAfter(l, i, n) ==
  Chain(l)' = SubSeq(Chain(l), 1, i) \o <<n>> \o SubSeq(Chain(l), i + 1, count[l])

\* How many nodes of list l come before node x.
Rank(l, x) == CHOOSE i \in 0..count[l] - 1 : Chain(l)[i + 1] = x

\* addAfter() and addBefore() put the node beside the iterator's, or at the
\* end of the list the iterator stands at, whatever branch they take.
AddedBeside ==
  [][\A l \in Lists, c \in Cursors, n \in Nodes :
       Unshared(l, n) =>
         /\ (AddAfter(l, c, n) => PutAfter(l, IF IsValid(at[c]) THEN Rank(l, at[c]) + 1 ELSE 0, n))
         /\ (AddBefore(l, c, n) => PutAfter(l, IF IsValid(at[c]) THEN Rank(l, at[c]) ELSE count[l], n))]_vars

\* The links implement sequences: iterators step along them, nodes enter and
\* leave one at a time, and a node dies when nothing holds it.
Sequence == INSTANCE NodeSequences WITH order <- [l \in Lists |-> Chain(l)]

ImplementsSequences == Sequence!Spec
=============================================================================
