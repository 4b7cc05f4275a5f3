-------------------------- MODULE AnalysisServices --------------------------
(***************************************************************************)
(* The two analysis services that cache their results in the program: the  *)
(* alias analysis and the occurrence analysis of source/Analysis/Renewal,  *)
(* on top of the context observers of source/Shared/ContextNotifier.       *)
(*                                                                         *)
(* A service keeps one state object per program, as a note on the program  *)
(* unit.  A state is flagged synchronised when it was computed and nobody  *)
(* has announced a change since; a query recomputes it otherwise.  The     *)
(* alias state owns the occurrence container the analysis fills, the       *)
(* occurrence state caches a raw pointer to it.  Notes are copied with the *)
(* program, and a copied note shares its object.                           *)
(*                                                                         *)
(* Nothing here runs concurrently: the difficulty is the order of edits,   *)
(* announcements, queries, copies and failures that callers choose.        *)
(***************************************************************************)
EXTENDS Naturals, FiniteSets

CONSTANTS
  Programs,     \* program units
  States,       \* heap cells for state objects
  Containers,   \* heap cells for occurrence containers
  Null,
  MaxEdits      \* bound on the edits of one program

ASSUME NullAssumption == Null \notin States \cup Containers
ASSUME EditsAssumption == MaxEdits \in Nat

Alias == "alias"
Occurrence == "occurrence"
Observers == {Alias, Occurrence}

VARIABLES
  live,        \* the programs that exist
  edits,       \* how often each program has been edited: its contents
  announced,   \* the edits the occurrence service was last told of
  cloned,      \* the programs that share, or shared, notes with another one
  note,        \* the state object each service left on each program
  synced,      \* the state objects flagged synchronised
  container,   \* the container a state owns (alias) or points to (occurrence)
  contents     \* what was analysed into a container; Null when it is freed

vars == <<live, edits, announced, cloned, note, synced, container, contents>>

(* A container describes one program as it was after so many edits; an     *)
(* analysis that throws leaves one that describes nothing yet.             *)
Unfinished == <<>>
Descriptions == Programs \X (0 .. MaxEdits) \cup {Unfinished}

ASSUME DescriptionsAssumption == Null \notin Descriptions

TypeOK ==
  /\ live \subseteq Programs
  /\ edits \in [Programs -> 0 .. MaxEdits]
  /\ announced \in [Programs -> 0 .. MaxEdits]
  /\ cloned \subseteq Programs
  /\ note \in [Observers -> [Programs -> States \cup {Null}]]
  /\ synced \subseteq States
  /\ container \in [States -> Containers \cup {Null}]
  /\ contents \in [Containers -> Descriptions \cup {Null}]

Init ==
  /\ live = {}
  /\ edits = [p \in Programs |-> 0]
  /\ announced = [p \in Programs |-> 0]
  /\ cloned = {}
  /\ note = [o \in Observers |-> [p \in Programs |-> Null]]
  /\ synced = {}
  /\ container = [s \in States |-> Null]
  /\ contents = [c \in Containers |-> Null]

-----------------------------------------------------------------------------
(* ContextObserverBase::isStateSyncronized *)
Synced(o, p) == note[o][p] \in synced

(* State objects some program refers to. *)
Reachable(notes, programs) == {notes[o][p] : o \in Observers, p \in programs} \ {Null}

(* An edit of the program by a transformation.  Nothing tells the services *)
(* but the caller, if it chooses to.                                       *)
Edit(p) ==
  /\ p \in live
  /\ edits[p] < MaxEdits
  /\ edits' = [edits EXCEPT ![p] = @ + 1]
  /\ UNCHANGED <<live, announced, cloned, note, synced, container, contents>>

(* The observers that were subscribed to the notifier of each service: the *)
(* occurrence service subscribes the alias service to its own notifier.    *)
DependenciesReversed == [o \in Observers |-> IF o = Alias THEN {Occurrence} ELSE {}]
Dependencies == [o \in Observers |-> IF o = Occurrence THEN {Alias} ELSE {}]

(* notifyContextChanged of a service clears its own flag first and then    *)
(* notifies the observers of its notifier.                                 *)
Notified(o) == {o} \cup Dependencies[o]

ForgetInverted(o, p) == synced \cup {note[t][p] : t \in Notified(o)}
Forget(o, p) == synced \ {note[t][p] : t \in Notified(o)}

Notify(o, p) ==
  /\ p \in live
  /\ synced' = Forget(o, p)
  /\ announced' = IF o = Occurrence THEN [announced EXCEPT ![p] = edits[p]] ELSE announced
  /\ UNCHANGED <<live, edits, cloned, note, container, contents>>

-----------------------------------------------------------------------------
(* A service whose state is missing creates it before it synchronises.     *)
NewOrOwnState(o, p, s, taken) ==
  IF note[o][p] = Null
  THEN s \in States \ (Reachable(note, live) \cup taken)
  ELSE s = note[o][p]

(* syncronizeWithContext of the alias service: a new container replaces    *)
(* the old one, which is freed only after the new one is there.            *)
Replaced(old, new, filled) ==
  [c \in Containers |->
     CASE c = new -> filled
       [] c = old -> Null
       [] OTHER -> contents[c]]

(* findAllOccurrences when the occurrence state is out of date: it asks    *)
(* the alias service for its container, which runs the analysis if its     *)
(* own state is out of date too, and caches the pointer.                   *)
Analyse(p, so, sa) ==
  LET old == IF note[Alias][p] = Null THEN Null ELSE container[sa]
      renewed == ~ Synced(Alias, p)
  IN \E c \in Containers :
       /\ IF renewed THEN contents[c] = Null ELSE c = old
       /\ contents' = IF renewed THEN Replaced(old, c, <<p, edits[p]>>) ELSE contents
       /\ container' = [container EXCEPT ![sa] = c, ![so] = c]
       /\ synced' = synced \cup {sa, so}

(* The analysis throws (the program is not in canonical form): the state   *)
(* and the new container stay, neither flag is set and the cached pointer  *)
(* of the occurrence service keeps its value.                              *)
FailMarked(p, so, sa) ==
  /\ ~ Synced(Alias, p)
  /\ LET old == IF note[Alias][p] = Null THEN Null ELSE container[sa]
     IN \E c \in Containers :
          /\ contents[c] = Null
          /\ contents' = Replaced(old, c, Unfinished)
          /\ container' = [container EXCEPT
               ![sa] = c, ![so] = IF note[Occurrence][p] = Null THEN Null ELSE @]
  /\ synced' = synced \cup {so}
Fail(p, so, sa) ==
  /\ ~ Synced(Alias, p)
  /\ LET old == IF note[Alias][p] = Null THEN Null ELSE container[sa]
     IN \E c \in Containers :
          /\ contents[c] = Null
          /\ contents' = Replaced(old, c, Unfinished)
          /\ container' = [container EXCEPT
               ![sa] = c, ![so] = IF note[Occurrence][p] = Null THEN Null ELSE @]
  /\ UNCHANGED synced

(* A query of a program whose occurrence state is synchronised reads the   *)
(* cached container and changes nothing; any other one synchronises first. *)
FindAllOccurrences(p) ==
  /\ p \in live
  /\ ~ Synced(Occurrence, p)
  /\ \E so, sa \in States :
       /\ NewOrOwnState(Occurrence, p, so, {})
       /\ NewOrOwnState(Alias, p, sa, {so})
       /\ note' = [note EXCEPT ![Occurrence][p] = so, ![Alias][p] = sa]
       /\ Analyse(p, so, sa) \/ Fail(p, so, sa)
  /\ UNCHANGED <<live, edits, announced, cloned>>

-----------------------------------------------------------------------------
(* Dropping notes frees the state objects nobody refers to any more and    *)
(* the containers that alias states owned.                                 *)
Release(notes, programs) ==
  LET kept == Reachable(notes, programs)
      owned == {container[s] : s \in {notes[Alias][p] : p \in programs} \ {Null}}
  IN /\ synced' = synced \cap kept
     /\ container' = [s \in States |-> IF s \in kept THEN container[s] ELSE Null]
     /\ contents' = [c \in Containers |-> IF c \in owned THEN contents[c] ELSE Null]

(* A program starts without notes. *)
Create(p) ==
  /\ p \notin live
  /\ live' = live \cup {p}
  /\ UNCHANGED <<edits, announced, cloned, note, synced, container, contents>>

(* deepCloneProgramUnit: the copy constructor of RepriseBase copies the    *)
(* notes, and Note::aquire shares the object of a copied note.             *)
CopiedNotes(p, q) == [o \in Observers |-> [note[o] EXCEPT ![q] = note[o][p]]]

Clone(p, q) ==
  /\ p \in live
  /\ q \notin live
  /\ live' = live \cup {q}
  /\ note' = CopiedNotes(p, q)
  /\ edits' = [edits EXCEPT ![q] = edits[p]]
  /\ announced' = [announced EXCEPT ![q] = announced[p]]
  /\ cloned' = IF note[Occurrence][p] = Null /\ p \notin cloned
               THEN cloned ELSE cloned \cup {p, q}
  /\ UNCHANGED <<synced, container, contents>>

(* The last reference to the program unit goes away. *)
Delete(p) ==
  LET notes == [o \in Observers |-> [note[o] EXCEPT ![p] = Null]]
  IN /\ p \in live
     /\ live' = live \ {p}
     /\ note' = notes
     /\ Release(notes, live')
     /\ edits' = [edits EXCEPT ![p] = 0]
     /\ announced' = [announced EXCEPT ![p] = 0]
     /\ cloned' = cloned \ {p}

Next ==
  \/ \E p \in Programs : Create(p) \/ Edit(p) \/ FindAllOccurrences(p) \/ Delete(p)
  \/ \E o \in Observers, p \in Programs : Notify(o, p)
  \/ \E p, q \in Programs : Clone(p, q)

Spec == Init /\ [][Next]_vars

-----------------------------------------------------------------------------
Held(o, p) == container[note[o][p]]

(* What a query of p would answer from without analysing anything. *)
Cached(p) == contents[Held(Occurrence, p)]

(* The two services always leave their states on a program together, and   *)
(* programs that share the one share the other, so that a clone can never  *)
(* pair the pointer of one program with the container of another.          *)
StatesPaired ==
  /\ \A p \in Programs : note[Alias][p] = Null <=> note[Occurrence][p] = Null
  /\ \A p, q \in live : note[Alias][p] = note[Alias][q] <=> note[Occurrence][p] = note[Occurrence][q]
  /\ \A p, q \in live : note[Alias][p] # Null => note[Alias][p] # note[Occurrence][q]

(* A query never reads a freed container: as long as the occurrence state  *)
(* counts as synchronised, the raw pointer in it is to a container some    *)
(* alias state still owns, whoever was notified, copied or deleted, and    *)
(* whichever analysis threw.                                               *)
PointerLive ==
  \A p \in live : Synced(Occurrence, p) =>
    /\ Held(Occurrence, p) \in Containers
    /\ Held(Occurrence, p) = Held(Alias, p)
    /\ Cached(p) \notin {Null, Unfinished}

(* A program that never shared its notes is answered about itself, and     *)
(* about contents no older than the last change announced to the           *)
(* occurrence service, even when the alias service was notified separately *)
(* or an analysis threw half-way.                                          *)
AnswersCurrent ==
  \A p \in live \ cloned : Synced(Occurrence, p) =>
    \E v \in announced[p] .. edits[p] : Cached(p) = <<p, v>>

(* Containers are neither leaked nor shared: each one that is allocated is *)
(* owned by exactly one alias state that some program refers to.           *)
ContainersOwned ==
  \A c \in Containers : contents[c] # Null =>
    Cardinality({s \in {note[Alias][p] : p \in live} \ {Null} : container[s] = c}) = 1

(* Across notices, clones, deletions and analyses that throw, no query     *)
(* reads a container that was freed, none is leaked, and none is freed     *)
(* under a program that still answers from it.                             *)
ContainersSafe == StatesPaired /\ PointerLive /\ ContainersOwned
=============================================================================
