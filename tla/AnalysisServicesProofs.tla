------------------------ MODULE AnalysisServicesProofs ------------------------
(***************************************************************************)
(* Proofs about AnalysisServices, for any programs, states and containers  *)
(* and any number of edits.                                                *)
(***************************************************************************)
EXTENDS AnalysisServices, FiniteSetTheorems, TLAPS

(***************************************************************************)
(* The inductive invariant.                                                *)
(***************************************************************************)

\* A program that does not exist has no notes and no history.
DeadForgotten ==
  \A p \in Programs \ live :
    /\ \A o \in Observers : note[o][p] = Null
    /\ edits[p] = 0 /\ announced[p] = 0 /\ p \notin cloned

AnnouncedEdits == \A p \in Programs : announced[p] <= edits[p]

\* The notes of the two services come, and are shared, together.
NotesPaired ==
  /\ \A p \in Programs : note[Alias][p] = Null <=> note[Occurrence][p] = Null
  /\ \A p, q \in Programs :
       note[Alias][p] = note[Alias][q] <=> note[Occurrence][p] = note[Occurrence][q]
  /\ \A p, q \in Programs : note[Alias][p] # Null => note[Alias][p] # note[Occurrence][q]

\* Only a program that was cloned shares its notes.
OthersUnshared ==
  \A p, q \in Programs :
    p # q /\ p \notin cloned /\ note[Alias][p] # Null => note[Alias][p] # note[Alias][q]

\* Only states on a program are synchronised.
SyncedReachable ==
  \A s \in synced : \E o \in Observers, p \in Programs : note[o][p] = s

\* The state of the alias service on a program has a container that is not
\* freed and no other state has ...
AliasOwns ==
  /\ \A p \in Programs : note[Alias][p] # Null =>
       /\ Held(Alias, p) \in Containers
       /\ contents[Held(Alias, p)] # Null
  /\ \A p, q \in Programs :
       note[Alias][p] # Null /\ note[Alias][q] # Null /\ Held(Alias, p) = Held(Alias, q)
         => note[Alias][p] = note[Alias][q]

\* ... and there are no other containers.
NoneLeaked ==
  \A c \in Containers : contents[c] # Null =>
    \E p \in Programs : note[Alias][p] # Null /\ Held(Alias, p) = c

\* What a synchronised state says: the container is filled, and the cached
\* pointer is to it.
Filled(c) == c \in Containers /\ contents[c] # Null /\ contents[c] # Unfinished

SyncedFilled ==
  /\ \A p \in Programs : Synced(Alias, p) => Filled(Held(Alias, p))
  /\ \A p \in Programs : Synced(Occurrence, p) =>
       Held(Occurrence, p) = Held(Alias, p) /\ Filled(Held(Alias, p))

\* A container in which some state of an unshared program is synchronised
\* describes that program, since the last announcement.
SyncedCurrent ==
  \A p \in Programs \ cloned : Synced(Alias, p) \/ Synced(Occurrence, p) =>
    \E v \in announced[p] .. edits[p] : contents[Held(Alias, p)] = <<p, v>>

IInv ==
  /\ TypeOK /\ DeadForgotten /\ AnnouncedEdits /\ NotesPaired /\ OthersUnshared
  /\ SyncedReachable /\ AliasOwns /\ NoneLeaked /\ SyncedFilled /\ SyncedCurrent

LEMMA Constants ==
  /\ Alias # Occurrence /\ Observers = {Alias, Occurrence}
  /\ Null \notin States /\ Null \notin Containers
  /\ MaxEdits \in Nat
  /\ Unfinished # Null
  /\ \A p \in Programs, v \in 0 .. MaxEdits : <<p, v>> # Null /\ <<p, v>> # Unfinished
BY NullAssumption, EditsAssumption, DescriptionsAssumption
   DEF Alias, Occurrence, Observers, Unfinished, Descriptions

LEMMA InitIInv == Init => IInv
<1> SUFFICES ASSUME Init PROVE IInv
  OBVIOUS
<1> USE Constants
<1>1. TypeOK
  BY DEF Init, TypeOK
<1>2. \A o \in Observers, p \in Programs : note[o][p] = Null
  BY DEF Init
<1>3. DeadForgotten /\ AnnouncedEdits
  BY <1>2 DEF Init, DeadForgotten, AnnouncedEdits
<1>4. NotesPaired /\ OthersUnshared
  BY <1>2 DEF NotesPaired, OthersUnshared
<1>5. SyncedReachable /\ AliasOwns /\ NoneLeaked
  BY <1>2 DEF Init, SyncedReachable, AliasOwns, NoneLeaked
<1>6. SyncedFilled /\ SyncedCurrent
  BY DEF Init, Synced, SyncedFilled, SyncedCurrent
<1> QED
  BY <1>1, <1>3, <1>4, <1>5, <1>6 DEF IInv

-----------------------------------------------------------------------------
(***************************************************************************)
(* Steps that leave the notes and the containers alone.                    *)
(***************************************************************************)
LEMMA CreateStep ==
  ASSUME IInv, NEW p \in Programs, Create(p)
  PROVE  IInv'
<1> USE Constants DEF IInv, Create
<1>1. TypeOK'
  BY DEF TypeOK
<1>2. DeadForgotten' /\ AnnouncedEdits'
  BY DEF DeadForgotten, AnnouncedEdits
<1>3. NotesPaired' /\ OthersUnshared'
  BY DEF NotesPaired, OthersUnshared
<1>4. SyncedReachable' /\ AliasOwns' /\ NoneLeaked'
  BY DEF SyncedReachable, AliasOwns, NoneLeaked, Held
<1>5. SyncedFilled' /\ SyncedCurrent'
  BY DEF SyncedFilled, SyncedCurrent, Held, Synced, Filled
<1> QED
  BY <1>1, <1>2, <1>3, <1>4, <1>5

LEMMA EditStep ==
  ASSUME IInv, NEW p \in Programs, Edit(p)
  PROVE  IInv'
<1> USE Constants DEF IInv, Edit
<1>1. TypeOK'
  BY DEF TypeOK
<1>2. /\ \A q \in Programs : /\ edits[q] \in 0 .. MaxEdits /\ announced[q] \in 0 .. MaxEdits
                            /\ edits'[q] \in 0 .. MaxEdits /\ edits[q] <= edits'[q]
      /\ \A q \in Programs : q # p => edits'[q] = edits[q]
  BY <1>1 DEF TypeOK
<1>3. DeadForgotten' /\ AnnouncedEdits'
  BY <1>2 DEF DeadForgotten, AnnouncedEdits
<1>4. NotesPaired' /\ OthersUnshared'
  BY DEF NotesPaired, OthersUnshared
<1>5. SyncedReachable' /\ AliasOwns' /\ NoneLeaked'
  BY DEF SyncedReachable, AliasOwns, NoneLeaked, Held
<1>6. SyncedFilled'
  BY DEF SyncedFilled, Held, Synced, Filled
<1>7. SyncedCurrent'
  <2>1. ASSUME NEW q \in Programs \ cloned, Synced(Alias, q) \/ Synced(Occurrence, q)
        PROVE  \E v \in announced'[q] .. edits'[q] : contents[Held(Alias, q)] = <<q, v>>
    <3>1. PICK v \in announced[q] .. edits[q] : contents[Held(Alias, q)] = <<q, v>>
      BY <2>1 DEF SyncedCurrent
    <3>2. v \in announced'[q] .. edits'[q]
      BY <1>2
    <3> QED
      BY <3>1, <3>2
  <2> QED
    BY <2>1 DEF SyncedCurrent, Held, Synced
<1> QED
  BY <1>1, <1>3, <1>4, <1>5, <1>6, <1>7

\* A notice clears the flag of the service it is for, and in the occurrence
\* service also the flag of the alias service.
LEMMA NotifyStep ==
  ASSUME IInv, NEW o \in Observers, NEW p \in Programs, Notify(o, p)
  PROVE  IInv'
<1> USE Constants DEF IInv, Notify
<1>1. synced' \subseteq synced /\ note[o][p] \notin synced'
  BY DEF Forget, Notified
<1>2. o = Occurrence => note[Alias][p] \notin synced'
  BY DEF Forget, Notified, Dependencies
<1>3. TypeOK'
  BY <1>1 DEF TypeOK
<1>4. /\ \A q \in Programs : /\ edits[q] \in 0 .. MaxEdits /\ announced[q] \in 0 .. MaxEdits
                            /\ announced'[q] \in 0 .. MaxEdits
      /\ \A q \in Programs : q # p \/ o # Occurrence => announced'[q] = announced[q]
      /\ announced'[p] <= edits[p]
  BY <1>3 DEF TypeOK, AnnouncedEdits
<1>5. DeadForgotten' /\ AnnouncedEdits'
  BY <1>4 DEF DeadForgotten, AnnouncedEdits
<1>6. NotesPaired' /\ OthersUnshared'
  BY DEF NotesPaired, OthersUnshared
<1>7. SyncedReachable' /\ AliasOwns' /\ NoneLeaked'
  BY <1>1 DEF SyncedReachable, AliasOwns, NoneLeaked, Held
<1>8. SyncedFilled'
  BY <1>1 DEF SyncedFilled, Held, Synced, Filled
<1>9. SyncedCurrent'
  <2>1. ASSUME NEW q \in Programs \ cloned, note[Alias][q] \in synced' \/ note[Occurrence][q] \in synced'
        PROVE  \E v \in announced'[q] .. edits[q] : contents[Held(Alias, q)] = <<q, v>>
    <3>1. q # p \/ o # Occurrence
      BY <1>1, <1>2, <2>1
    <3> QED
      BY <1>1, <1>4, <2>1, <3>1 DEF SyncedCurrent, Synced
  <2> QED
    BY <2>1 DEF SyncedCurrent, Held, Synced
<1> QED
  BY <1>3, <1>5, <1>6, <1>7, <1>8, <1>9

-----------------------------------------------------------------------------
(***************************************************************************)
(* A copy shares the notes of the original, and both count as cloned.      *)
(***************************************************************************)
LEMMA CloneStep ==
  ASSUME IInv, NEW p \in Programs, NEW q \in Programs, Clone(p, q)
  PROVE  IInv'
<1> USE Constants DEF IInv, Clone
<1>1. p # q /\ q \notin cloned /\ note[Alias][q] = Null /\ note[Occurrence][q] = Null
  BY DEF DeadForgotten
<1>2. /\ \A o \in Observers : note'[o] = [note[o] EXCEPT ![q] = note[o][p]]
      /\ \A o \in Observers, r \in Programs :
           note'[o][r] = IF r = q THEN note[o][p] ELSE note[o][r]
  BY DEF CopiedNotes, TypeOK
<1>3. TypeOK'
  <2>1. note' \in [Observers -> [Programs -> States \cup {Null}]]
    BY <1>2 DEF TypeOK, CopiedNotes
  <2> QED
    BY <2>1 DEF TypeOK
<1>4. \A r \in Programs : /\ edits'[r] = IF r = q THEN edits[p] ELSE edits[r]
                          /\ announced'[r] = IF r = q THEN announced[p] ELSE announced[r]
  BY DEF TypeOK
<1>5. /\ cloned \subseteq cloned' /\ cloned' \subseteq cloned \cup {p, q}
      /\ (note[Alias][p] = Null /\ note[Occurrence][p] = Null) \/ {p, q} \subseteq cloned'
  BY DEF NotesPaired
<1>6. DeadForgotten' /\ AnnouncedEdits'
  BY <1>2, <1>4, <1>5 DEF DeadForgotten, AnnouncedEdits
<1>7. NotesPaired'
  BY <1>2 DEF NotesPaired
<1>8. OthersUnshared'
  BY <1>1, <1>2, <1>5 DEF OthersUnshared
<1>9. SyncedReachable'
  BY <1>1, <1>2, NullAssumption DEF SyncedReachable, TypeOK
<1>10. AliasOwns'
  BY <1>2 DEF AliasOwns, Held
<1>11. NoneLeaked'
  BY <1>1, <1>2 DEF NoneLeaked, Held
<1>12. SyncedFilled'
  BY <1>2 DEF SyncedFilled, Held, Synced, Filled
<1>13. SyncedCurrent'
  <2>1. ASSUME NEW r \in Programs \ cloned',
               note'[Alias][r] \in synced \/ note'[Occurrence][r] \in synced
        PROVE  \E v \in announced'[r] .. edits'[r] : contents[container[note'[Alias][r]]] = <<r, v>>
    <3>1. r # q
      BY <1>2, <1>5, <2>1 DEF TypeOK
    <3>2. /\ r \notin cloned /\ note'[Alias][r] = note[Alias][r]
          /\ note'[Occurrence][r] = note[Occurrence][r]
          /\ edits'[r] = edits[r] /\ announced'[r] = announced[r]
      BY <1>2, <1>4, <1>5, <2>1, <3>1
    <3> QED
      BY <2>1, <3>2 DEF SyncedCurrent, Synced, Held
  <2> QED
    BY <2>1 DEF SyncedCurrent, Held, Synced
<1> QED
  BY <1>3, <1>6, <1>7, <1>8, <1>9, <1>10, <1>11, <1>12, <1>13

(***************************************************************************)
(* Deleting a program frees what only it referred to.                      *)
(***************************************************************************)
LEMMA DeleteStep ==
  ASSUME IInv, NEW p \in Programs, Delete(p)
  PROVE  IInv'
<1> DEFINE owned == {container[s] : s \in {note'[Alias][r] : r \in live'} \ {Null}}
<1> USE Constants DEF IInv
<1>1. /\ \A o \in Observers : note'[o] = [note[o] EXCEPT ![p] = Null]
      /\ \A o \in Observers, r \in Programs :
           note'[o][r] = IF r = p THEN Null ELSE note[o][r]
  BY DEF Delete, TypeOK
<1>2. /\ live' = live \ {p} /\ cloned' = cloned \ {p}
      /\ synced' = synced \cap Reachable(note', live')
      /\ container' = [s \in States |-> IF s \in Reachable(note', live') THEN container[s] ELSE Null]
      /\ contents' = [c \in Containers |-> IF c \in owned THEN contents[c] ELSE Null]
  BY DEF Delete, Release
<1>3. \A r \in Programs : /\ edits'[r] = IF r = p THEN 0 ELSE edits[r]
                          /\ announced'[r] = IF r = p THEN 0 ELSE announced[r]
  BY DEF TypeOK, Delete
<1>4. \A o \in Observers, r \in Programs :
        note'[o][r] # Null => /\ r \in live' /\ note'[o][r] \in States
                              /\ note'[o][r] \in Reachable(note', live')
                              /\ container'[note'[o][r]] = container[note'[o][r]]
  <2>1. \A o \in Observers, r \in Programs :
          note'[o][r] # Null => r \in live' /\ note'[o][r] \in States
    BY <1>1, <1>2 DEF DeadForgotten, TypeOK
  <2> QED
    BY <2>1, <1>2 DEF Reachable
<1>5. \A r \in Programs : note'[Alias][r] # Null =>
        /\ container[note'[Alias][r]] \in owned
        /\ container[note'[Alias][r]] \in Containers
        /\ contents'[container[note'[Alias][r]]] = contents[container[note'[Alias][r]]]
  <2>1. \A r \in Programs : note'[Alias][r] # Null =>
          container[note'[Alias][r]] \in owned /\ container[note'[Alias][r]] \in Containers
    BY <1>1, <1>4 DEF AliasOwns, Held
  <2> QED
    BY <2>1, <1>2
<1>6. TypeOK'
  <2>1. note' \in [Observers -> [Programs -> States \cup {Null}]]
    BY <1>1 DEF TypeOK, Delete
  <2>2. edits' \in [Programs -> 0 .. MaxEdits] /\ announced' \in [Programs -> 0 .. MaxEdits]
    BY DEF TypeOK, Delete
  <2> QED
    BY <2>1, <2>2, <1>2 DEF TypeOK
<1>7. DeadForgotten' /\ AnnouncedEdits'
  BY <1>1, <1>2, <1>3 DEF DeadForgotten, AnnouncedEdits
<1>8. NotesPaired' /\ OthersUnshared'
  BY <1>1, <1>2 DEF NotesPaired, OthersUnshared
<1>9. SyncedReachable'
  <2>1. ASSUME NEW s \in synced'
        PROVE  \E o \in Observers, r \in Programs : note'[o][r] = s
    BY <1>2, <2>1 DEF Reachable, TypeOK
  <2> QED
    BY <2>1 DEF SyncedReachable
<1>10. AliasOwns'
  BY <1>1, <1>4, <1>5 DEF AliasOwns, Held
<1>11. NoneLeaked'
  <2>1. ASSUME NEW c \in Containers, contents'[c] # Null
        PROVE  \E r \in Programs : note'[Alias][r] # Null /\ container'[note'[Alias][r]] = c
    <3>1. c \in owned
      BY <1>2, <2>1
    <3>2. PICK r \in live' : note'[Alias][r] # Null /\ container[note'[Alias][r]] = c
      BY <3>1
    <3>3. r \in Programs
      BY <1>6 DEF TypeOK
    <3> QED
      BY <1>4, <3>2, <3>3
  <2> QED
    BY <2>1 DEF NoneLeaked, Held
<1>12. \A o \in Observers, r \in Programs :
         note'[o][r] \in synced' => note'[o][r] # Null /\ r # p /\ note[o][r] \in synced
  BY <1>1, <1>2 DEF Reachable
<1>13. SyncedFilled'
  BY <1>1, <1>4, <1>5, <1>12 DEF SyncedFilled, NotesPaired, Held, Synced, Filled
<1>14. SyncedCurrent'
  <2>1. ASSUME NEW r \in Programs \ cloned',
               note'[Alias][r] \in synced' \/ note'[Occurrence][r] \in synced'
        PROVE  \E v \in announced'[r] .. edits'[r] : contents'[container'[note'[Alias][r]]] = <<r, v>>
    <3>1. r # p /\ r \notin cloned /\ note'[Alias][r] = note[Alias][r] /\ note'[Alias][r] # Null
      BY <1>1, <1>2, <1>12, <2>1 DEF NotesPaired
    <3>2. /\ note[Alias][r] \in synced \/ note[Occurrence][r] \in synced
          /\ edits'[r] = edits[r] /\ announced'[r] = announced[r]
          /\ contents'[container'[note'[Alias][r]]] = contents[container[note[Alias][r]]]
      BY <1>3, <1>4, <1>5, <1>12, <2>1, <3>1
    <3> QED
      BY <3>1, <3>2 DEF SyncedCurrent, Synced, Held
  <2> QED
    BY <2>1 DEF SyncedCurrent, Held, Synced
<1> QED
  BY <1>6, <1>7, <1>8, <1>9, <1>10, <1>11, <1>13, <1>14

-----------------------------------------------------------------------------
(***************************************************************************)
(* A query that has to synchronise: so and sa are the states of the two    *)
(* services, its own or new ones.                                          *)
(***************************************************************************)
StatesTaken(p, so, sa) ==
  /\ NewOrOwnState(Occurrence, p, so, {})
  /\ NewOrOwnState(Alias, p, sa, {so})
  /\ note' = [note EXCEPT ![Occurrence][p] = so, ![Alias][p] = sa]
  /\ UNCHANGED <<live, edits, announced, cloned>>

\* Programs other than p that refer to so refer to sa, and share them with p.
LEMMA TakenFacts ==
  ASSUME IInv, NEW p \in live, NEW so \in States, NEW sa \in States, StatesTaken(p, so, sa)
  PROVE  /\ so # sa
         /\ \A q \in Programs : /\ note'[Alias][q] = IF q = p THEN sa ELSE note[Alias][q]
                                /\ note'[Occurrence][q] = IF q = p THEN so ELSE note[Occurrence][q]
         /\ \A q \in Programs : note[Alias][q] # so /\ note[Occurrence][q] # sa
         /\ \A q \in Programs : note[Alias][q] = sa <=> note[Occurrence][q] = so
         /\ IF note[Alias][p] = Null
            THEN /\ note[Occurrence][p] = Null
                 /\ \A q \in Programs : note[Alias][q] # sa /\ note[Occurrence][q] # so
                 /\ so \notin synced /\ sa \notin synced
            ELSE note[Alias][p] = sa /\ note[Occurrence][p] = so
         /\ \A q \in Programs : q # p /\ note[Alias][q] = sa => {p, q} \subseteq cloned
<1> USE Constants DEF IInv
<1>1. p \in Programs
  BY DEF TypeOK
<1>2. \A q \in Programs :
        /\ note'[Alias][q] = IF q = p THEN sa ELSE note[Alias][q]
        /\ note'[Occurrence][q] = IF q = p THEN so ELSE note[Occurrence][q]
  BY <1>1 DEF StatesTaken, TypeOK
<1>3. CASE note[Alias][p] = Null
  <2>1. note[Occurrence][p] = Null
    BY <1>1, <1>3 DEF NotesPaired
  <2>2. so \notin Reachable(note, live) /\ sa \notin Reachable(note, live) /\ so # sa
    BY <1>3, <2>1 DEF StatesTaken, NewOrOwnState
  <2>3. \A o \in Observers, q \in Programs : note[o][q] # Null => q \in live
    BY DEF DeadForgotten
  <2>4. \A o \in Observers, q \in Programs : note[o][q] # so /\ note[o][q] # sa
    BY <2>2, <2>3 DEF Reachable
  <2>5. so \notin synced /\ sa \notin synced
    BY <2>4 DEF SyncedReachable
  <2> QED
    BY <1>2, <1>3, <2>1, <2>2, <2>4, <2>5
<1>4. CASE note[Alias][p] # Null
  <2>1. note[Alias][p] = sa /\ note[Occurrence][p] = so
    BY <1>1, <1>4 DEF NotesPaired, StatesTaken, NewOrOwnState
  <2>2. /\ so # sa
        /\ \A q \in Programs : note[Alias][q] # so /\ note[Occurrence][q] # sa
        /\ \A q \in Programs : note[Alias][q] = sa <=> note[Occurrence][q] = so
    BY <1>1, <1>4, <2>1 DEF NotesPaired
  <2>3. \A q \in Programs : q # p /\ note[Alias][q] = sa => {p, q} \subseteq cloned
    BY <1>1, <1>4, <2>1 DEF OthersUnshared
  <2> QED
    BY <1>2, <1>4, <2>1, <2>2, <2>3
<1> QED
  BY <1>3, <1>4

\* What the notes alone are asked for.
LEMMA TakenNotes ==
  ASSUME IInv, NEW p \in live, NEW so \in States, NEW sa \in States, StatesTaken(p, so, sa)
  PROVE  /\ note' \in [Observers -> [Programs -> States \cup {Null}]]
         /\ DeadForgotten' /\ AnnouncedEdits' /\ NotesPaired' /\ OthersUnshared'
<1> USE Constants DEF IInv
<1>1. p \in Programs
  BY DEF TypeOK
<1>2. note' \in [Observers -> [Programs -> States \cup {Null}]]
  BY DEF TypeOK, StatesTaken
<1>3. DeadForgotten' /\ AnnouncedEdits'
  <2>1. \A o \in Observers, q \in Programs : q # p => note'[o][q] = note[o][q]
    BY TakenFacts
  <2>2. /\ live' = live /\ edits' = edits /\ announced' = announced /\ cloned' = cloned
        /\ \A q \in Programs : q \notin live => q # p
    BY DEF StatesTaken
  <2>3. AnnouncedEdits'
    BY <2>2 DEF AnnouncedEdits
  <2>4. DeadForgotten'
    BY <2>1, <2>2 DEF DeadForgotten
  <2> QED
    BY <2>3, <2>4
<1>4. NotesPaired'
  BY <1>1, TakenFacts DEF NotesPaired
<1>5. OthersUnshared'
  <2>1. cloned' = cloned
    BY DEF StatesTaken
  <2>2. ASSUME NEW q \in Programs, NEW r \in Programs, q # r, q \notin cloned, note'[Alias][q] # Null
        PROVE  note'[Alias][q] # note'[Alias][r]
    <3>1. CASE q # p /\ r # p
      BY <2>2, <3>1, TakenFacts DEF OthersUnshared
    <3>2. CASE q = p \/ r = p
      BY <1>1, <2>2, <3>2, TakenFacts
    <3> QED
      BY <3>1, <3>2
  <2> QED
    BY <2>1, <2>2 DEF OthersUnshared
<1> QED
  BY <1>2, <1>3, <1>4, <1>5

\* A new container c takes the place of the one state sa had, if any.
Renews(p, so, sa, c, filled) ==
  /\ contents[c] = Null
  /\ contents' = Replaced(IF note[Alias][p] = Null THEN Null ELSE container[sa], c, filled)
  /\ container' \in [States -> Containers \cup {Null}]
  /\ container'[sa] = c
  /\ \A s \in States \ {so, sa} : container'[s] = container[s]

\* Containers of other states are not touched, and none is lost.
LEMMA RenewFacts ==
  ASSUME IInv, NEW p \in live, NEW so \in States, NEW sa \in States, StatesTaken(p, so, sa),
         NEW c \in Containers, NEW filled \in Descriptions, Renews(p, so, sa, c, filled)
  PROVE  /\ contents' \in [Containers -> Descriptions \cup {Null}] /\ contents'[c] = filled
         /\ \A q \in Programs : note'[Alias][q] # Null /\ note'[Alias][q] # sa =>
              /\ note'[Alias][q] = note[Alias][q]
              /\ container'[note[Alias][q]] = Held(Alias, q)
              /\ contents'[Held(Alias, q)] = contents[Held(Alias, q)]
         /\ AliasOwns' /\ NoneLeaked'
<1> USE Constants DEF IInv
<1>1. p \in Programs /\ filled # Null
  BY DescriptionsAssumption DEF TypeOK
<1>2. contents' \in [Containers -> Descriptions \cup {Null}] /\ contents'[c] = filled
  <2>1. contents \in [Containers -> Descriptions \cup {Null}]
    BY DEF TypeOK
  <2> DEFINE old == IF note[Alias][p] = Null THEN Null ELSE container[sa]
  <2>2. contents' = Replaced(old, c, filled) /\ contents[c] = Null
    BY DEF Renews
  <2>3. note[Alias][p] # Null => container[sa] # c
    BY <1>1, <2>2, TakenFacts DEF AliasOwns, Held
  <2>4. old # c
    BY <2>3
  <2>5. \A d \in Containers :
          contents'[d] = IF d = c THEN filled ELSE IF d = old THEN Null ELSE contents[d]
    BY <2>2, <2>4 DEF Replaced
  <2>6. contents' = [d \in Containers |-> contents'[d]]
    BY <2>2 DEF Replaced
  <2> HIDE DEF old
  <2> QED
    BY <2>1, <2>5, <2>6
<1>3. \A q \in Programs : note[Alias][q] # Null =>
        /\ note[Alias][q] \in States /\ note[Alias][q] # so
        /\ Held(Alias, q) \in Containers /\ Held(Alias, q) # c
  BY TakenFacts DEF Renews, AliasOwns, TypeOK
<1>4. ASSUME NEW q \in Programs, note'[Alias][q] # Null, note'[Alias][q] # sa
      PROVE  /\ note'[Alias][q] = note[Alias][q]
             /\ container'[note[Alias][q]] = Held(Alias, q)
             /\ contents'[Held(Alias, q)] = contents[Held(Alias, q)]
  <2>1. q # p /\ note'[Alias][q] = note[Alias][q]
    BY <1>4, TakenFacts
  <2>2. container'[note[Alias][q]] = Held(Alias, q)
    BY <1>3, <1>4, <2>1 DEF Renews, Held
  <2>3. note[Alias][p] # Null => Held(Alias, q) # container[sa]
    BY <1>1, <1>4, <2>1, TakenFacts DEF AliasOwns, Held
  <2> QED
    BY <1>3, <1>4, <2>1, <2>2, <2>3 DEF Renews, Replaced
<1>5. AliasOwns'
  <2>1. \A q \in Programs : note'[Alias][q] # Null =>
          /\ container'[note'[Alias][q]] \in Containers
          /\ contents'[container'[note'[Alias][q]]] # Null
          /\ note'[Alias][q] # sa => container'[note'[Alias][q]] # c
    <3>1. ASSUME NEW q \in Programs, note'[Alias][q] # Null, note'[Alias][q] # sa
          PROVE  /\ container'[note'[Alias][q]] \in Containers
                 /\ contents'[container'[note'[Alias][q]]] # Null
                 /\ container'[note'[Alias][q]] # c
      <4>1. note'[Alias][q] = note[Alias][q] /\ note[Alias][q] # Null
        BY <1>4, <3>1
      <4> QED
        BY <1>3, <1>4, <3>1, <4>1 DEF AliasOwns
    <3> QED
      BY <1>1, <1>2, <3>1 DEF Renews
  <2>2. \A q, r \in Programs :
          note'[Alias][q] # Null /\ note'[Alias][r] # Null
          /\ container'[note'[Alias][q]] = container'[note'[Alias][r]]
            => note'[Alias][q] = note'[Alias][r]
    BY <1>4, <2>1 DEF Renews, AliasOwns
  <2> QED
    BY <2>1, <2>2 DEF AliasOwns, Held
<1>6. NoneLeaked'
  <2>1. ASSUME NEW d \in Containers, contents'[d] # Null
        PROVE  \E q \in Programs : note'[Alias][q] # Null /\ container'[note'[Alias][q]] = d
    <3>1. CASE d = c
      BY <1>1, <3>1, TakenFacts DEF Renews
    <3>2. CASE d # c
      <4>1. /\ contents[d] # Null
            /\ note[Alias][p] # Null => d # container[sa]
        BY <2>1, <3>2 DEF Renews, Replaced
      <4>2. PICK q \in Programs : note[Alias][q] # Null /\ Held(Alias, q) = d
        BY <4>1 DEF NoneLeaked
      <4>3. note[Alias][q] # sa
        BY <4>1, <4>2, TakenFacts DEF Held
      <4>4. q # p
        BY <4>2, <4>3, TakenFacts
      <4>5. note'[Alias][q] = note[Alias][q]
        BY <4>4, TakenFacts
      <4> QED
        BY <1>4, <4>2, <4>3, <4>5
    <3> QED
      BY <3>1, <3>2
  <2> QED
    BY <2>1 DEF NoneLeaked, Held
<1> QED
  BY <1>2, <1>4, <1>5, <1>6

\* The analysis succeeds: the new container, or the one that was there,
\* describes the program as it is, or as it was after the last announcement.
LEMMA AnalyseStep ==
  ASSUME IInv, NEW p \in live, NEW so \in States, NEW sa \in States, StatesTaken(p, so, sa),
         Analyse(p, so, sa), ~ Synced(Occurrence, p)
  PROVE  IInv'
<1> USE Constants DEF IInv
<1>1. p \in Programs /\ edits[p] \in 0 .. MaxEdits /\ announced[p] \in 0 .. MaxEdits
  BY DEF TypeOK
<1>2. /\ synced' = synced \cup {so, sa}
      /\ \A q \in Programs : edits'[q] = edits[q] /\ announced'[q] = announced[q]
      /\ cloned' = cloned /\ live' = live
  BY DEF Analyse, StatesTaken
<1>3. PICK c \in Containers :
        /\ container' = [container EXCEPT ![sa] = c, ![so] = c]
        /\ IF Synced(Alias, p) THEN c = Held(Alias, p) /\ note[Alias][p] = sa /\ contents' = contents
                               ELSE Renews(p, so, sa, c, <<p, edits[p]>>)
  <2>1. Synced(Alias, p) => note[Alias][p] = sa
    BY <1>1, TakenFacts DEF Synced, TypeOK
  <2>2. PICK c \in Containers :
          /\ container' = [container EXCEPT ![sa] = c, ![so] = c]
          /\ IF ~ Synced(Alias, p) THEN contents[c] = Null
             ELSE c = IF note[Alias][p] = Null THEN Null ELSE container[sa]
          /\ contents' = IF ~ Synced(Alias, p)
                         THEN Replaced(IF note[Alias][p] = Null THEN Null ELSE container[sa], c, <<p, edits[p]>>)
                         ELSE contents
    BY DEF Analyse
  <2>3. /\ container' \in [States -> Containers \cup {Null}]
        /\ container'[sa] = c
        /\ \A s \in States \ {so, sa} : container'[s] = container[s]
    BY <2>2 DEF TypeOK
  <2> QED
    BY <2>1, <2>2, <2>3 DEF Renews, Held
<1>4. /\ container' \in [States -> Containers \cup {Null}]
      /\ container'[sa] = c /\ container'[so] = c
      /\ \A s \in States \ {so, sa} : container'[s] = container[s]
  BY <1>3, TakenFacts DEF TypeOK
<1>5. <<p, edits[p]>> \in Descriptions
  BY <1>1 DEF Descriptions
<1>6. /\ contents' \in [Containers -> Descriptions \cup {Null}]
      /\ AliasOwns' /\ NoneLeaked'
      /\ \A q \in Programs : note'[Alias][q] # Null /\ note'[Alias][q] # sa =>
           /\ note'[Alias][q] = note[Alias][q]
           /\ container'[note[Alias][q]] = Held(Alias, q)
           /\ contents'[Held(Alias, q)] = contents[Held(Alias, q)]
  <2>1. CASE ~ Synced(Alias, p)
    <3> DEFINE d == <<p, edits[p]>>
    <3>1. Renews(p, so, sa, c, d) /\ d \in Descriptions
      BY <1>3, <1>5, <2>1
    <3> HIDE DEF d
    <3> QED
      BY <3>1, RenewFacts
  <2>2. CASE Synced(Alias, p)
    <3>1. contents' = contents /\ container[sa] = c /\ note[Alias][p] = sa
      BY <1>3, <2>2 DEF Held
    <3>2. \A q \in Programs : note'[Alias][q] = note[Alias][q]
      BY <3>1, TakenFacts
    <3>3. \A q \in Programs : note[Alias][q] # Null =>
            note[Alias][q] \in States /\ container'[note[Alias][q]] = container[note[Alias][q]]
      BY <1>4, <3>1, TakenFacts DEF TypeOK
    <3>4. AliasOwns' /\ NoneLeaked'
      BY <3>1, <3>2, <3>3 DEF AliasOwns, NoneLeaked, Held
    <3>5. contents \in [Containers -> Descriptions \cup {Null}]
      BY DEF TypeOK
    <3> QED
      BY <3>1, <3>2, <3>3, <3>4, <3>5 DEF Held
  <2> QED
    BY <2>1, <2>2
<1>7. /\ Filled(c)'
      /\ p \notin cloned => \E v \in announced[p] .. edits[p] : contents'[c] = <<p, v>>
  <2>1. CASE ~ Synced(Alias, p)
    <3>1. contents'[c] = <<p, edits[p]>>
      BY <1>3, <1>5, <2>1, RenewFacts
    <3>2. edits[p] \in announced[p] .. edits[p]
      BY <1>1 DEF AnnouncedEdits
    <3> QED
      BY <1>1, <3>1, <3>2 DEF Filled
  <2>2. CASE Synced(Alias, p)
    <3>1. contents' = contents /\ c = Held(Alias, p)
      BY <1>3, <2>2
    <3> QED
      BY <1>1, <2>2, <3>1 DEF SyncedFilled, SyncedCurrent, Filled
  <2> QED
    BY <2>1, <2>2
<1>8. TypeOK'
  BY <1>2, <1>4, <1>6, TakenNotes DEF TypeOK, StatesTaken
<1>9. SyncedReachable'
  <2>1. ASSUME NEW s \in synced'
        PROVE  \E o \in Observers, q \in Programs : note'[o][q] = s
    <3>1. CASE s \in {so, sa}
      BY <1>1, <3>1, TakenFacts
    <3>2. CASE s \notin {so, sa}
      <4>1. PICK o \in Observers, q \in Programs : note[o][q] = s
        BY <1>2, <2>1, <3>2 DEF SyncedReachable
      <4>2. s # Null
        BY <1>2, <2>1, <3>2 DEF TypeOK
      <4>3. q # p
        BY <3>2, <4>1, <4>2, TakenFacts
      <4> QED
        BY <4>1, <4>3, TakenFacts
    <3> QED
      BY <3>1, <3>2
  <2> QED
    BY <2>1 DEF SyncedReachable
<1>10. \A q \in Programs :
         /\ note'[Alias][q] = sa <=> note'[Occurrence][q] = so
         /\ note'[Alias][q] # so /\ note'[Occurrence][q] # sa
         /\ note'[Alias][q] = Null <=> note'[Occurrence][q] = Null
  BY TakenFacts, TakenNotes DEF NotesPaired
<1>11. \A q \in Programs : note'[Alias][q] # sa =>
         /\ q # p /\ note'[Alias][q] = note[Alias][q] /\ note'[Occurrence][q] = note[Occurrence][q]
         /\ note'[Alias][q] \in synced' => note[Alias][q] \in synced /\ note[Alias][q] # Null
         /\ note'[Occurrence][q] \in synced' =>
              /\ note[Occurrence][q] \in synced /\ note[Alias][q] # Null
              /\ note[Occurrence][q] \in States \ {so, sa}
  BY <1>2, <1>10, TakenFacts DEF TypeOK
<1>12. SyncedFilled'
  <2>1. ASSUME NEW q \in Programs, note'[Alias][q] = sa
        PROVE  /\ container'[note'[Alias][q]] = c /\ container'[note'[Occurrence][q]] = c
               /\ Filled(Held(Alias, q))'
    BY <1>4, <1>7, <1>10, <2>1 DEF Held, Filled
  <2>2. ASSUME NEW q \in Programs, note'[Alias][q] # sa
        PROVE  /\ note'[Alias][q] \in synced' => Filled(Held(Alias, q))'
               /\ note'[Occurrence][q] \in synced' =>
                    /\ container'[note'[Occurrence][q]] = container'[note'[Alias][q]]
                    /\ Filled(Held(Alias, q))'
    BY <1>4, <1>6, <1>11, <2>2 DEF SyncedFilled, Synced, Held, Filled
  <2> QED
    BY <2>1, <2>2 DEF SyncedFilled, Synced, Held
<1>13. SyncedCurrent'
  <2>1. ASSUME NEW q \in Programs \ cloned, note'[Alias][q] \in synced' \/ note'[Occurrence][q] \in synced'
        PROVE  \E v \in announced[q] .. edits[q] : contents'[container'[note'[Alias][q]]] = <<q, v>>
    <3>1. CASE note'[Alias][q] = sa
      <4>1. q = p
        BY <2>1, <3>1, TakenFacts
      <4> QED
        BY <1>4, <1>7, <2>1, <3>1, <4>1
    <3>2. CASE note'[Alias][q] # sa
      <4>1. \E v \in announced[q] .. edits[q] : contents[Held(Alias, q)] = <<q, v>>
        BY <1>11, <2>1, <3>2 DEF SyncedCurrent, Synced
      <4>2. contents'[container'[note'[Alias][q]]] = contents[Held(Alias, q)]
        BY <1>6, <1>11, <2>1, <3>2
      <4> QED
        BY <4>1, <4>2
    <3> QED
      BY <3>1, <3>2
  <2> QED
    BY <1>2, <2>1 DEF SyncedCurrent, Synced, Held
<1> QED
  BY <1>6, <1>8, <1>9, <1>12, <1>13, TakenNotes

\* The analysis throws: the alias state has an unfinished container, and
\* neither state of the program is synchronised.
LEMMA FailStep ==
  ASSUME IInv, NEW p \in live, NEW so \in States, NEW sa \in States, StatesTaken(p, so, sa),
         Fail(p, so, sa), ~ Synced(Occurrence, p)
  PROVE  IInv'
<1> USE Constants DEF IInv
<1>1. p \in Programs
  BY DEF TypeOK
<1>2. /\ synced' = synced /\ so \notin synced /\ sa \notin synced
      /\ \A q \in Programs : edits'[q] = edits[q] /\ announced'[q] = announced[q]
      /\ cloned' = cloned /\ live' = live
  BY TakenFacts DEF Fail, StatesTaken, Synced
<1>3. PICK c \in Containers : Renews(p, so, sa, c, Unfinished)
  <2>1. PICK c \in Containers :
          /\ contents[c] = Null
          /\ contents' = Replaced(IF note[Alias][p] = Null THEN Null ELSE container[sa], c, Unfinished)
          /\ container' = [container EXCEPT
               ![sa] = c, ![so] = IF note[Occurrence][p] = Null THEN Null ELSE @]
    BY DEF Fail
  <2> QED
    BY <2>1, TakenFacts DEF Renews, TypeOK
<1>4. Unfinished \in Descriptions
  BY DEF Descriptions
<1>5. TypeOK' /\ AliasOwns' /\ NoneLeaked'
  <2>1. /\ contents' \in [Containers -> Descriptions \cup {Null}]
        /\ AliasOwns' /\ NoneLeaked'
    BY <1>3, <1>4, RenewFacts
  <2>2. container' \in [States -> Containers \cup {Null}]
    BY <1>3 DEF Renews
  <2> QED
    BY <1>2, <2>1, <2>2, TakenNotes DEF TypeOK, StatesTaken
<1>6. SyncedReachable'
  <2>1. ASSUME NEW s \in synced
        PROVE  \E o \in Observers, q \in Programs : note'[o][q] = s
    <3>1. PICK o \in Observers, q \in Programs : note[o][q] = s
      BY <2>1 DEF SyncedReachable
    <3>2. s # Null /\ s # so /\ s # sa
      BY <1>2, <2>1 DEF TypeOK
    <3>3. q # p
      BY <3>1, <3>2, TakenFacts
    <3> QED
      BY <3>1, <3>3, TakenFacts
  <2> QED
    BY <1>2, <2>1 DEF SyncedReachable
<1>7. \A q \in Programs : note'[Alias][q] \in synced \/ note'[Occurrence][q] \in synced =>
        /\ note'[Alias][q] = note[Alias][q] /\ note'[Occurrence][q] = note[Occurrence][q]
        /\ note'[Alias][q] # Null /\ note'[Alias][q] # sa
        /\ note'[Occurrence][q] \in States \ {so, sa}
  BY <1>1, <1>2, TakenFacts, TakenNotes DEF TypeOK, NotesPaired
<1>8. \A q \in Programs : note'[Alias][q] \in synced \/ note'[Occurrence][q] \in synced =>
        /\ container'[note'[Alias][q]] = Held(Alias, q)
        /\ container'[note'[Occurrence][q]] = Held(Occurrence, q)
        /\ contents'[Held(Alias, q)] = contents[Held(Alias, q)]
  BY <1>3, <1>4, <1>7, RenewFacts DEF Renews, Held
<1>9. SyncedFilled'
  BY <1>2, <1>7, <1>8 DEF SyncedFilled, Synced, Held, Filled
<1>10. SyncedCurrent'
  <2>1. ASSUME NEW q \in Programs \ cloned, note'[Alias][q] \in synced \/ note'[Occurrence][q] \in synced
        PROVE  \E v \in announced[q] .. edits[q] : contents'[container'[note'[Alias][q]]] = <<q, v>>
    <3>1. \E v \in announced[q] .. edits[q] : contents[Held(Alias, q)] = <<q, v>>
      BY <1>7, <2>1 DEF SyncedCurrent, Synced
    <3> QED
      BY <1>8, <2>1, <3>1
  <2> QED
    BY <1>2, <2>1 DEF SyncedCurrent, Synced, Held
<1> QED
  BY <1>5, <1>6, <1>9, <1>10, TakenNotes

-----------------------------------------------------------------------------
LEMMA StepIInv == IInv /\ [Next]_vars => IInv'
<1> SUFFICES ASSUME IInv, [Next]_vars PROVE IInv'
  OBVIOUS
<1>1. ASSUME NEW p \in Programs, FindAllOccurrences(p)
      PROVE  IInv'
  <2>1. PICK so, sa \in States : StatesTaken(p, so, sa) /\ (Analyse(p, so, sa) \/ Fail(p, so, sa))
    BY <1>1 DEF FindAllOccurrences, StatesTaken
  <2>2. p \in live /\ ~ Synced(Occurrence, p)
    BY <1>1 DEF FindAllOccurrences
  <2> QED
    BY <2>1, <2>2, AnalyseStep, FailStep
<1>2. CASE UNCHANGED vars
  <2>1. TypeOK' /\ DeadForgotten' /\ AnnouncedEdits' /\ NotesPaired' /\ OthersUnshared'
    BY <1>2 DEF vars, IInv, TypeOK, DeadForgotten, AnnouncedEdits, NotesPaired, OthersUnshared
  <2>2. SyncedReachable' /\ AliasOwns' /\ NoneLeaked' /\ SyncedFilled' /\ SyncedCurrent'
    BY <1>2 DEF vars, IInv, SyncedReachable, AliasOwns, NoneLeaked, SyncedFilled, SyncedCurrent,
                Held, Synced, Filled
  <2> QED
    BY <2>1, <2>2 DEF IInv
<1> QED
  BY <1>1, <1>2, CreateStep, EditStep, DeleteStep, NotifyStep, CloneStep DEF Next

LEMMA Invariance == Spec => []IInv
BY InitIInv, StepIInv, PTL DEF Spec

\* Every variable keeps its type: in particular the notes of a program are
\* states, and a container is free, filled for a program, or unfinished.
THEOREM TypeCorrect == Spec => []TypeOK
<1>1. IInv => TypeOK
  BY DEF IInv
<1> QED
  BY <1>1, Invariance, PTL

\* For any programs, whatever is announced, copied or deleted and whichever
\* analysis throws, a synchronised occurrence state (OccurrenceAnalysisService
\* .cpp:46) points to a filled container that one alias state on a live
\* program owns, and no container is leaked.
THEOREM ContainersAreSafe == Spec => []ContainersSafe
<1>1. ASSUME IInv PROVE StatesPaired
  BY <1>1 DEF IInv, StatesPaired, NotesPaired, TypeOK
<1>2. ASSUME IInv PROVE PointerLive
  BY <1>2 DEF IInv, PointerLive, SyncedFilled, Filled, Cached, TypeOK
<1>3. ASSUME IInv PROVE ContainersOwned
  <2>1. ASSUME NEW c \in Containers, contents[c] # Null
        PROVE  Cardinality({s \in {note[Alias][p] : p \in live} \ {Null} : container[s] = c}) = 1
    <3>1. PICK p \in Programs : note[Alias][p] # Null /\ Held(Alias, p) = c
      BY <1>3, <2>1 DEF IInv, NoneLeaked
    <3>2. p \in live
      BY <1>3, <3>1 DEF IInv, DeadForgotten, Observers
    <3>3. \A q \in live : note[Alias][q] # Null /\ container[note[Alias][q]] = c => note[Alias][q] = note[Alias][p]
      BY <1>3, <3>1 DEF IInv, AliasOwns, Held, TypeOK
    <3>4. {s \in {note[Alias][q] : q \in live} \ {Null} : container[s] = c} = {note[Alias][p]}
      BY <3>1, <3>2, <3>3 DEF Held
    <3> QED
      BY <3>4, FS_Singleton
  <2> QED
    BY <2>1 DEF ContainersOwned
<1> QED
  BY <1>1, <1>2, <1>3, Invariance, PTL DEF ContainersSafe

\* A program whose notes were never shared is answered about itself, from
\* contents no older than the last announced change.
THEOREM AnswersAreCurrent == Spec => []AnswersCurrent
<1>1. ASSUME IInv, NEW p \in live \ cloned, Synced(Occurrence, p)
      PROVE  \E v \in announced[p] .. edits[p] : Cached(p) = <<p, v>>
  <2>1. p \in Programs \ cloned /\ Held(Occurrence, p) = Held(Alias, p)
    BY <1>1 DEF IInv, TypeOK, SyncedFilled
  <2> QED
    BY <1>1, <2>1 DEF IInv, SyncedCurrent, Cached
<1>2. IInv => AnswersCurrent
  BY <1>1 DEF AnswersCurrent
<1> QED
  BY <1>2, Invariance, PTL
=============================================================================
