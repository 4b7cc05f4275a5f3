------------------------- MODULE RepriseHandlesProofs -------------------------
(***************************************************************************)
(* Proofs about RepriseHandles, for any number of nodes, cells and handles.*)
(***************************************************************************)
EXTENDS RepriseHandles, FiniteSetTheorems, TLAPS

(***************************************************************************)
(* Counting the handles bound to a value.                                  *)
(***************************************************************************)
Fiber(f, S, v) == {x \in S : f[x] = v}

SameBut(f, g, S, x) == \A y \in S : y # x => g[y] = f[y]

\* Rebinding one handle takes it out of one fiber and puts it into another.
LEMMA FiberUpdate ==
  ASSUME NEW S, IsFiniteSet(S), NEW f, NEW g, NEW x \in S, NEW u,
         SameBut(f, g, S, x)
  PROVE  /\ (f[x] = u <=> g[x] = u) =>
              Cardinality(Fiber(g, S, u)) = Cardinality(Fiber(f, S, u))
         /\ f[x] = u /\ g[x] # u =>
              Cardinality(Fiber(g, S, u)) = Cardinality(Fiber(f, S, u)) - 1
         /\ f[x] # u /\ g[x] = u =>
              Cardinality(Fiber(g, S, u)) = Cardinality(Fiber(f, S, u)) + 1
<1>1. IsFiniteSet(Fiber(f, S, u))
  BY FS_Subset DEF Fiber
<1>2. (f[x] = u <=> g[x] = u) => Fiber(g, S, u) = Fiber(f, S, u)
  BY DEF Fiber, SameBut
<1>3. ASSUME f[x] = u, g[x] # u
      PROVE  Cardinality(Fiber(g, S, u)) = Cardinality(Fiber(f, S, u)) - 1
  <2>1. Fiber(g, S, u) = Fiber(f, S, u) \ {x} /\ x \in Fiber(f, S, u)
    BY <1>3 DEF Fiber, SameBut
  <2> QED BY <2>1, <1>1, FS_RemoveElement
<1>4. ASSUME f[x] # u, g[x] = u
      PROVE  Cardinality(Fiber(g, S, u)) = Cardinality(Fiber(f, S, u)) + 1
  <2>1. Fiber(g, S, u) = Fiber(f, S, u) \cup {x} /\ x \notin Fiber(f, S, u)
    BY <1>4 DEF Fiber, SameBut
  <2> QED BY <2>1, <1>1, FS_AddElement
<1> QED BY <1>2, <1>3, <1>4

\* A fiber is counted by a natural number, which is 0 only if it is empty.
LEMMA FiberCount ==
  ASSUME NEW S, IsFiniteSet(S), NEW f, NEW u
  PROVE  /\ Cardinality(Fiber(f, S, u)) \in Nat
         /\ \A x \in S : f[x] = u => Cardinality(Fiber(f, S, u)) > 0
         /\ (\A x \in S : f[x] # u) => Cardinality(Fiber(f, S, u)) = 0
<1>1. IsFiniteSet(Fiber(f, S, u))
  BY FS_Subset DEF Fiber
<1>2. Cardinality(Fiber(f, S, u)) \in Nat
  BY <1>1, FS_CardinalityType
<1>3. Cardinality(Fiber(f, S, u)) = 0 <=> Fiber(f, S, u) = {}
  BY <1>1, FS_EmptySet
<1> QED BY <1>2, <1>3 DEF Fiber

-----------------------------------------------------------------------------
(***************************************************************************)
(* The inductive invariant.  Its core relates counters, cells and handles  *)
(* and is kept by every counter operation; the protocol part says what     *)
(* holds while a statement is suspended in the middle.                     *)
(***************************************************************************)
owners    == [o \in Objects |-> Cardinality(Fiber(ptr, Strong, o))]
observers == [c \in Cells |-> Cardinality(Fiber(wcell, Weak, c))]

\* Only living nodes are owned, and each is owned as often as it says.
NodesCounted ==
  /\ \A s \in Strong : ptr[s] # Null => ostate[ptr[s]] = "live"
  /\ \A o \in Objects : ostate[o] = "live" => refs[o] = owners[o]

\* A living node's cell is its own, is not expired and counts all handles.
CellsCounted ==
  \A o \in Objects : ostate[o] = "live" =>
    IF ocell[o] = Null
    THEN refs[o] = 0
    ELSE /\ ~expired[ocell[o]]
         /\ count[ocell[o]] > 0
         /\ count[ocell[o]] = refs[o] + observers[ocell[o]]

CellsUnshared ==
  \A o, p \in Objects :
    ostate[o] = "live" /\ ostate[p] = "live" /\ ocell[o] # Null /\ ocell[o] = ocell[p]
      => o = p

\* Every cell has a living node or is expired and counts its weak handles.
CellsOwned ==
  \A c \in Cells :
    IF count[c] = 0
    THEN observers[c] = 0
    ELSE IF expired[c]
         THEN count[c] = observers[c]
         ELSE \E o \in Objects : ostate[o] = "live" /\ ocell[o] = c

ObserversBound ==
  \A w \in Weak :
    wcell[w] # Null =>
      /\ count[wcell[w]] > 0
      /\ ~expired[wcell[w]] => /\ wptr[w] # Null
                               /\ ostate[wptr[w]] = "live"
                               /\ ocell[wptr[w]] = wcell[w]

Core == /\ TypeOK /\ ~fault
        /\ NodesCounted /\ CellsCounted /\ CellsUnshared /\ CellsOwned
        /\ ObserversBound

\* The members of freed memory are bound to nothing.
MembersFreed ==
  /\ \A s \in Strong : ~OnStack(s) /\ ostate[Home[s]] = "free" => ptr[s] = Null
  /\ \A w \in Weak : ~OnStack(w) /\ ostate[Home[w]] = "free" => wcell[w] = Null

\* A node in the hands of a raw pointer is anchored by a weak handle on the
\* stack if it has a cell at all.
UnownedAnchored ==
  \A o \in Objects :
    Unowned(o) /\ ocell[o] # Null => \E w \in Weak : OnStack(w) /\ wcell[w] = ocell[o]

\* An interrupted reset() still has its handle and its argument, and while
\* destructors run both are held from the stack.
ResetPending ==
  resetting # Null =>
    /\ incoming # Null /\ ptr[resetting] = Null /\ ptr[Temp] = Null
    /\ ostate[incoming] = "live" /\ Usable(resetting)
    /\ Dying # {} => /\ OnStack(resetting) \/ HeldBeside(Home[resetting], resetting)
                     /\ refs[incoming] = 0 \/ HeldBeside(incoming, resetting)

AssignPending == ptr[Temp] # Null => Dying = {} /\ resetting = Null

IInv == Core /\ MembersFreed /\ UnownedAnchored /\ ResetPending /\ AssignPending

\* What the counts say of the handles, before and after a step.
CountsSound ==
  /\ owners \in [Objects -> Nat] /\ observers \in [Cells -> Nat]
  /\ \A s \in Strong : ptr[s] # Null => owners[ptr[s]] > 0
  /\ \A w \in Weak : wcell[w] # Null => observers[wcell[w]] > 0
  /\ \A o \in Objects : (\A s \in Strong : ptr[s] # o) => owners[o] = 0
  /\ \A c \in Cells : (\A w \in Weak : wcell[w] # c) => observers[c] = 0

LEMMA Counting == TypeOK => CountsSound
BY FiberCount, HandlesAssumption DEF owners, observers, TypeOK, CountsSound

LEMMA CountingAfter == TypeOK' => CountsSound'
BY Counting, PTL

\* A strong handle is rebound.
LEMMA OwnersChange ==
  ASSUME TypeOK, NEW s \in Strong,
         \A t \in Strong : t # s => ptr'[t] = ptr[t]
  PROVE  \A o \in Objects :
           /\ (ptr[s] = o <=> ptr'[s] = o) => owners'[o] = owners[o]
           /\ ptr[s] = o /\ ptr'[s] # o => owners'[o] = owners[o] - 1
           /\ ptr[s] # o /\ ptr'[s] = o => owners'[o] = owners[o] + 1
<1> TAKE o \in Objects
<1>1. IsFiniteSet(Strong)
  BY HandlesAssumption
<1>2. owners[o] = Cardinality(Fiber(ptr, Strong, o))
  BY DEF owners
<1>3. owners'[o] = Cardinality(Fiber(ptr', Strong, o))
  BY DEF owners
<1> DEFINE A == Cardinality(Fiber(ptr, Strong, o))
           B == Cardinality(Fiber(ptr', Strong, o))
<1>4. /\ (ptr[s] = o <=> ptr'[s] = o) => B = A
      /\ ptr[s] = o /\ ptr'[s] # o => B = A - 1
      /\ ptr[s] # o /\ ptr'[s] = o => B = A + 1
  <2>1. SameBut(ptr, ptr', Strong, s)
    BY DEF SameBut
  <2> QED BY <1>1, <2>1, FiberUpdate
<1> QED BY <1>2, <1>3, <1>4

\* A weak handle is rebound.
LEMMA ObserversChange ==
  ASSUME TypeOK, NEW w \in Weak,
         \A v \in Weak : v # w => wcell'[v] = wcell[v]
  PROVE  \A c \in Cells :
           /\ (wcell[w] = c <=> wcell'[w] = c) => observers'[c] = observers[c]
           /\ wcell[w] = c /\ wcell'[w] # c => observers'[c] = observers[c] - 1
           /\ wcell[w] # c /\ wcell'[w] = c => observers'[c] = observers[c] + 1
<1> TAKE c \in Cells
<1>1. IsFiniteSet(Weak)
  BY HandlesAssumption
<1>2. observers[c] = Cardinality(Fiber(wcell, Weak, c))
  BY DEF observers
<1>3. observers'[c] = Cardinality(Fiber(wcell', Weak, c))
  BY DEF observers
<1> DEFINE A == Cardinality(Fiber(wcell, Weak, c))
           B == Cardinality(Fiber(wcell', Weak, c))
<1>4. /\ (wcell[w] = c <=> wcell'[w] = c) => B = A
      /\ wcell[w] = c /\ wcell'[w] # c => B = A - 1
      /\ wcell[w] # c /\ wcell'[w] = c => B = A + 1
  <2>1. SameBut(wcell, wcell', Weak, w)
    BY DEF SameBut
  <2> QED BY <1>1, <2>1, FiberUpdate
<1> QED BY <1>2, <1>3, <1>4

-----------------------------------------------------------------------------
(***************************************************************************)
(* The counter operations keep the core.                                   *)
(***************************************************************************)

\* Taking a reference to a living node for one more handle.
LEMMA AddRefKeepsCore ==
  ASSUME Core, NEW o \in Objects, ostate[o] = "live", AddRef(o),
         ptr' \in [Strong -> Objects \cup {Null}],
         \A s \in Strong : ptr'[s] # Null => ostate[ptr'[s]] = "live",
         \A p \in Objects : owners'[p] = IF p = o THEN owners[p] + 1 ELSE owners[p],
         UNCHANGED <<wptr, wcell>>,
         resetting' \in Strong \cup {Null}, incoming' \in Objects \cup {Null}
  PROVE  Core'
<1> USE HandlesAssumption DEF Core
<1>1. PICK c \in Cells : AddCount(count, o, c)
  BY DEF AddRef
<1>2. ~fault'
  BY DEF AddRef, AddCountFault, CellsCounted, TypeOK
<1>3. TypeOK'
  BY <1>1, <1>2 DEF TypeOK, AddRef, AddCount
<1>4. /\ observers' = observers
      /\ owners \in [Objects -> Nat] /\ observers \in [Cells -> Nat]
  BY Counting DEF CountsSound, observers
<1>5. NodesCounted'
  BY <1>3, <1>4 DEF NodesCounted, AddRef, TypeOK
<1>6. /\ count[c] = 0 \/ c = ocell[o]
      /\ c = ocell[o] => ~expired[c]
      /\ \A p \in Objects : ostate[p] = "live" /\ ocell[p] = c => p = o
  BY <1>1 DEF AddCount, CellsCounted, CellsUnshared, TypeOK
<1>7. CellsCounted'
  BY <1>1, <1>3, <1>4, <1>6 DEF CellsCounted, CellsOwned, AddRef, AddCount, TypeOK
<1>8. CellsUnshared'
  BY <1>1, <1>3, <1>6 DEF CellsUnshared, AddRef, AddCount, TypeOK
<1>9. CellsOwned'
  BY <1>1, <1>3, <1>4, <1>6 DEF CellsOwned, AddRef, AddCount, TypeOK
<1>10. ObserversBound'
  BY <1>1, <1>3, <1>6 DEF ObserversBound, AddRef, AddCount, TypeOK
<1> QED BY <1>2, <1>3, <1>5, <1>7, <1>8, <1>9, <1>10

\* An empty strong handle takes a reference.
LEMMA AcquireKeepsCore ==
  ASSUME Core, NEW s \in Strong, NEW o \in Objects,
         ptr[s] = Null, ostate[o] = "live",
         AddRef(o), ptr' = [ptr EXCEPT ![s] = o],
         UNCHANGED <<wptr, wcell>>,
         resetting' \in Strong \cup {Null}, incoming' \in Objects \cup {Null}
  PROVE  Core'
<1>1. TypeOK /\ NodesCounted
  BY DEF Core
<1>2. ptr' \in [Strong -> Objects \cup {Null}]
  BY <1>1 DEF TypeOK
<1>3. \A t \in Strong : ptr'[t] # Null => ostate[ptr'[t]] = "live"
  BY <1>1 DEF NodesCounted, TypeOK
<1>4. \A p \in Objects : owners'[p] = IF p = o THEN owners[p] + 1 ELSE owners[p]
  <2>1. (\A t \in Strong : t # s => ptr'[t] = ptr[t]) /\ ptr'[s] = o
    BY <1>1 DEF TypeOK
  <2> QED BY <2>1, <1>1, OwnersChange, HandlesAssumption
<1> QED BY <1>2, <1>3, <1>4, AddRefKeepsCore

\* s = t takes a reference to what t owns while the temporary keeps what s
\* owned.
LEMMA AssignKeepsCore ==
  ASSUME Core, NEW s \in Named, NEW t \in Named, ptr[Temp] = Null, Assign(s, t)
  PROVE  Core'
<1> USE HandlesAssumption DEF Named
<1>1. TypeOK /\ NodesCounted /\ ~fault
  BY DEF Core
<1> DEFINE g == [ptr EXCEPT ![Temp] = ptr[s]]
<1>2. ptr' = [ptr EXCEPT ![s] = ptr[t], ![Temp] = ptr[s]]
      /\ UNCHANGED <<wptr, wcell, resetting, incoming>>
  BY DEF Assign, resetVars
<1>3. ptr' \in [Strong -> Objects \cup {Null}]
  BY <1>1, <1>2 DEF TypeOK
<1>4. \A x \in Strong : ptr'[x] # Null => ostate[ptr'[x]] = "live"
  BY <1>1, <1>2 DEF NodesCounted, TypeOK
<1>5. \A p \in Objects : owners'[p] = IF p = ptr[t] THEN owners[p] + 1 ELSE owners[p]
  <2> TAKE p \in Objects
  <2> DEFINE A == Cardinality(Fiber(ptr, Strong, p))
             G == Cardinality(Fiber(g, Strong, p))
             B == Cardinality(Fiber(ptr', Strong, p))
  <2>1. /\ owners[p] = A /\ owners'[p] = B
        /\ A \in Nat /\ G \in Nat /\ B \in Nat
    BY FiberCount DEF owners
  <2>2. /\ SameBut(ptr, g, Strong, Temp) /\ SameBut(g, ptr', Strong, s)
        /\ ptr[Temp] # p /\ g[Temp] = ptr[s] /\ g[s] = ptr[s] /\ ptr'[s] = ptr[t]
    BY <1>1, <1>2 DEF SameBut, TypeOK
  <2> HIDE DEF g
  <2>3. IsFiniteSet(Strong) /\ Temp \in Strong /\ s \in Strong
    OBVIOUS
  <2>4. (ptr[s] # p => G = A) /\ (ptr[s] = p => G = A + 1)
    BY <2>2, <2>3, FiberUpdate
  <2>5. /\ (ptr[s] = p <=> ptr[t] = p) => B = G
        /\ ptr[s] = p /\ ptr[t] # p => B = G - 1
        /\ ptr[s] # p /\ ptr[t] = p => B = G + 1
    BY <2>2, <2>3, FiberUpdate
  <2> HIDE DEF A, G, B
  <2> QED BY <2>1, <2>4, <2>5
<1>6. CASE ptr[t] = Null
  <2>1. UNCHANGED <<ostate, refs, ocell, count, expired, fault>>
    BY <1>6 DEF Assign
  <2>2. owners' = owners /\ observers' = observers
    <3>1. \A p \in Objects : owners'[p] = owners[p]
      BY <1>5, <1>6
    <3>2. owners = [p \in Objects |-> owners[p]] /\ owners' = [p \in Objects |-> owners'[p]]
      BY DEF owners
    <3>3. owners' = owners
      BY <3>1, <3>2
    <3> QED BY <1>2, <3>3 DEF observers
  <2>3. TypeOK' /\ ~fault'
    BY <1>1, <1>2, <1>3, <2>1 DEF TypeOK
  <2>4. NodesCounted'
    BY <1>1, <1>4, <2>1, <2>2 DEF NodesCounted
  <2>5. CellsCounted' /\ CellsUnshared' /\ CellsOwned' /\ ObserversBound'
    BY <1>2, <2>1, <2>2
       DEF Core, CellsCounted, CellsUnshared, CellsOwned, ObserversBound
  <2> QED BY <2>3, <2>4, <2>5 DEF Core
<1>7. CASE ptr[t] # Null
  <2>1. ptr[t] \in Objects /\ ostate[ptr[t]] = "live" /\ AddRef(ptr[t])
    BY <1>1, <1>7 DEF Assign, NodesCounted, TypeOK
  <2>2. resetting' \in Strong \cup {Null} /\ incoming' \in Objects \cup {Null}
    BY <1>1, <1>2 DEF TypeOK
  <2> QED BY <1>2, <1>3, <1>4, <1>5, <2>1, <2>2, AddRefKeepsCore
<1> QED BY <1>6, <1>7

\* Giving a reference back, with (RemoveRef) or without (ReleaseRef) the
\* deletion of the node that loses its last one.
LEMMA ReleaseKeepsCore ==
  ASSUME Core, NEW s \in Strong, ptr[s] # Null,
         ReleaseRef(ptr[s]), ptr' = [ptr EXCEPT ![s] = Null],
         \/ RemoveRef(ptr[s])
         \/ UNCHANGED <<ostate, expired>>,
         UNCHANGED <<wptr, wcell>>,
         resetting' \in Strong \cup {Null}, incoming' \in Objects \cup {Null}
  PROVE  /\ Core'
         /\ owners'[ptr[s]] = owners[ptr[s]] - 1
<1> DEFINE o == ptr[s]
           c == ocell[o]
<1> USE HandlesAssumption DEF Core
<1>1. /\ o \in Objects /\ ostate[o] = "live"
      /\ refs[o] = owners[o] /\ owners[o] > 0 /\ owners[o] \in Nat
  BY Counting DEF CountsSound, NodesCounted, TypeOK
<1>2. /\ c \in Cells /\ ~expired[c] /\ count[c] \in Nat
      /\ count[c] = refs[o] + observers[c] /\ count[c] > 0
      /\ observers \in [Cells -> Nat] /\ owners \in [Objects -> Nat]
  BY <1>1, Counting DEF CountsSound, CellsCounted, TypeOK
<1>3. /\ count' = [count EXCEPT ![c] = @ - 1]
      /\ ocell' = IF count[c] = 1 THEN [ocell EXCEPT ![o] = Null] ELSE ocell
      /\ refs'  = [refs EXCEPT ![o] = @ - 1]
      /\ fault' = fault
  BY <1>1, <1>2 DEF ReleaseRef, Decreased, DecreaseFault, TypeOK
<1>4. \/ /\ refs[o] = 1
         /\ ostate' = [ostate EXCEPT ![o] = "dying"]
         /\ expired' = IF count[c] = 1 THEN expired ELSE [expired EXCEPT ![c] = TRUE]
      \/ UNCHANGED <<ostate, expired>>
  BY <1>1, <1>2, <1>3 DEF RemoveRef, TypeOK
<1>5. TypeOK' /\ ~fault'
  <2>1. refs' \in [Objects -> Nat] /\ count' \in [Cells -> Nat]
    BY <1>1, <1>2, <1>3 DEF TypeOK
  <2>2. ocell' \in [Objects -> Cells \cup {Null}]
    BY <1>1, <1>2, <1>3 DEF TypeOK
  <2>3. ostate' \in [Objects -> {"free", "live", "dying"}] /\ expired' \in [Cells -> BOOLEAN]
    BY <1>1, <1>2, <1>4 DEF TypeOK
  <2>4. ptr' \in [Strong -> Objects \cup {Null}] /\ UNCHANGED <<wptr, wcell, fault>>
    BY <1>3 DEF TypeOK
  <2> QED BY <2>1, <2>2, <2>3, <2>4 DEF TypeOK
<1>6. /\ \A p \in Objects : owners'[p] = IF p = o THEN owners[p] - 1 ELSE owners[p]
      /\ observers' = observers
  <2>1. observers' = observers
    BY DEF observers
  <2>2. \A p \in Objects : owners'[p] = IF p = o THEN owners[p] - 1 ELSE owners[p]
    BY <1>1, OwnersChange DEF TypeOK
  <2> QED BY <2>1, <2>2
<1>7. ASSUME ostate' # ostate
      PROVE  \A t \in Strong : ptr'[t] # o
  <2>1. owners'[o] = 0
    BY <1>1, <1>4, <1>6, <1>7
  <2> QED BY <2>1, <1>1, <1>5, CountingAfter DEF CountsSound
<1>8. NodesCounted'
  BY <1>1, <1>3, <1>4, <1>5, <1>6, <1>7 DEF NodesCounted, TypeOK
<1>9. \A p \in Objects : ostate[p] = "live" /\ ocell[p] = c => p = o
  BY <1>1, <1>2 DEF CellsUnshared, TypeOK
<1>10. CellsCounted'
  BY <1>1, <1>2, <1>3, <1>4, <1>5, <1>6, <1>9 DEF CellsCounted, TypeOK
<1>11. CellsUnshared'
  BY <1>1, <1>2, <1>3, <1>4, <1>5, <1>9 DEF CellsUnshared, TypeOK
<1>12. CellsOwned'
  BY <1>1, <1>2, <1>3, <1>4, <1>5, <1>6, <1>9 DEF CellsOwned, TypeOK
<1>13. ASSUME count[c] = 1
       PROVE  \A w \in Weak : wcell[w] # c
  BY <1>1, <1>2, <1>13, Counting DEF CountsSound, TypeOK
<1>14. ObserversBound'
  BY <1>1, <1>2, <1>3, <1>4, <1>5, <1>9, <1>13 DEF ObserversBound, TypeOK
<1> QED BY <1>1, <1>5, <1>6, <1>8, <1>10, <1>11, <1>12, <1>14

\* What weak handle w may let go of is observed by another weak handle if a
\* raw pointer has the node.
Forgettable(w) ==
  \A o \in Objects :
    Unowned(o) /\ wcell[w] # Null /\ ocell[o] = wcell[w]
      => \E v \in Weak \ {w} : wcell[v] = ocell[o]

LEMMA TwoObservers ==
  ASSUME TypeOK, NEW w \in Weak, NEW v \in Weak \ {w}, wcell[w] # Null,
         wcell[v] = wcell[w]
  PROVE  observers[wcell[w]] > 1
<1> DEFINE F == Fiber(wcell, Weak, wcell[w])
<1>1. IsFiniteSet(F) /\ w \in F /\ v \in F \ {w}
  BY FS_Subset, HandlesAssumption DEF Fiber
<1>2. IsFiniteSet(F \ {w}) /\ Cardinality(F \ {w}) = Cardinality(F) - 1
  BY <1>1, FS_RemoveElement
<1>3. Cardinality(F \ {w}) # 0 /\ Cardinality(F \ {w}) \in Nat /\ Cardinality(F) \in Nat
  BY <1>1, <1>2, FS_EmptySet, FS_CardinalityType
<1>4. observers[wcell[w]] = Cardinality(F)
  BY HandlesAssumption DEF observers, TypeOK
<1> HIDE DEF F
<1> QED BY <1>2, <1>3, <1>4

\* A living node keeps its cell when such a weak handle lets go of it.
LEMMA CellSurvives ==
  ASSUME Core, NEW w \in Weak, wcell[w] # Null, Forgettable(w),
         NEW o \in Objects, ostate[o] = "live", ocell[o] = wcell[w]
  PROVE  count[wcell[w]] > 1
<1> DEFINE c == wcell[w]
<1> USE HandlesAssumption DEF Core
<1>1. c \in Cells /\ count[c] = refs[o] + observers[c] /\ refs[o] \in Nat
  BY DEF CellsCounted, TypeOK
<1>2. observers[c] > 0 /\ observers[c] \in Nat
  BY <1>1, Counting DEF CountsSound
<1>3. CASE refs[o] = 0
  <2>1. PICK v \in Weak \ {w} : wcell[v] = c
    BY <1>3 DEF Forgettable, Unowned
  <2>2. observers[c] > 1
    BY <2>1, TwoObservers
  <2> QED BY <2>2, <1>1, <1>2, SMTT(30)
<1>4. CASE refs[o] # 0
  BY <1>1, <1>2, <1>4
<1> QED BY <1>3, <1>4

\* A weak handle lets go.  It may be the last handle of its cell only if no
\* living node would be left with the pointer to it.
LEMMA UnobserveKeepsCore ==
  ASSUME Core, NEW w \in Weak, Unobserve(w), Forgettable(w)
  PROVE  Core'
<1> DEFINE c == wcell[w]
<1> USE HandlesAssumption DEF Core
<1>1. CASE c = Null
  <2>1. UNCHANGED <<count, wcell, fault, ostate, refs, ocell, expired, ptr, resetting, incoming>>
    BY <1>1 DEF Unobserve, Decreased, DecreaseFault, resetVars, TypeOK
  <2>2. /\ wptr' \in [Weak -> Objects \cup {Null}]
        /\ \A v \in Weak : wcell[v] # Null => wptr'[v] = wptr[v]
    BY <1>1 DEF Unobserve, TypeOK
  <2>3. TypeOK' /\ ~fault'
    BY <2>1, <2>2 DEF TypeOK
  <2>4. owners' = owners /\ observers' = observers
    BY <2>1 DEF owners, observers
  <2>5. NodesCounted' /\ CellsCounted' /\ CellsUnshared' /\ CellsOwned'
    BY <2>1, <2>4 DEF NodesCounted, CellsCounted, CellsUnshared, CellsOwned
  <2>6. ObserversBound'
    BY <2>1, <2>2 DEF ObserversBound
  <2> QED BY <2>3, <2>5, <2>6
<1>2. CASE c # Null
  <2>1. /\ c \in Cells /\ count[c] \in Nat /\ count[c] > 0
        /\ observers[c] > 0 /\ observers \in [Cells -> Nat]
    BY <1>2, Counting DEF ObserversBound, CountsSound, TypeOK
  <2>2. /\ count' = [count EXCEPT ![c] = @ - 1]
        /\ wcell' = [wcell EXCEPT ![w] = Null]
        /\ wptr'  = [wptr EXCEPT ![w] = Null]
        /\ UNCHANGED <<ostate, refs, ocell, expired, ptr, resetting, incoming, fault>>
    BY <1>2, <2>1 DEF Unobserve, Decreased, DecreaseFault, resetVars, TypeOK
  <2>3. TypeOK' /\ ~fault'
    BY <2>1, <2>2 DEF TypeOK
  <2>4. /\ \A d \in Cells : observers'[d] = IF d = c THEN observers[d] - 1 ELSE observers[d]
        /\ owners' = owners
    <3>1. owners' = owners
      BY <2>2 DEF owners
    <3>2. \A v \in Weak : v # w => wcell'[v] = wcell[v]
      BY <2>2 DEF TypeOK
    <3>3. wcell'[w] = Null
      BY <2>2 DEF TypeOK
    <3> QED BY <3>1, <3>2, <3>3, <2>1, ObserversChange
  <2>5. CountsSound'
    BY <2>3, CountingAfter
  <2>6. \A o \in Objects : ostate[o] = "live" /\ ocell[o] = c => count[c] > 1
    BY <1>2, CellSurvives
  <2>7. NodesCounted' /\ CellsUnshared'
    BY <2>2, <2>4 DEF NodesCounted, CellsUnshared
  <2>8. CellsCounted'
    BY <2>1, <2>2, <2>3, <2>4, <2>6 DEF CellsCounted, TypeOK
  <2>9. CellsOwned'
    BY <2>1, <2>2, <2>3, <2>4, <2>6 DEF CellsOwned, CellsCounted, TypeOK
  <2>10. \A v \in Weak : wcell'[v] # Null => count'[wcell'[v]] > 0
    <3> SUFFICES ASSUME NEW v \in Weak, wcell'[v] # Null
                 PROVE  count'[wcell'[v]] > 0
      OBVIOUS
    <3>1. wcell'[v] \in Cells /\ observers'[wcell'[v]] > 0
      BY <2>3, <2>5 DEF CountsSound, TypeOK
    <3> QED BY <3>1, <2>3, <2>9 DEF CellsOwned, TypeOK
  <2>11. ObserversBound'
    BY <2>2, <2>10 DEF ObserversBound, TypeOK
  <2> QED BY <2>3, <2>7, <2>8, <2>9, <2>11
<1> QED BY <1>1, <1>2

\* A weak handle lets go and observes living node o through cell c.
LEMMA ObserveKeepsCore ==
  ASSUME Core, NEW w \in Weak, NEW o \in Objects, NEW c \in Cells,
         ostate[o] = "live", Forgettable(w),
         AddCount(Decreased(count, wcell[w]), o, c),
         wcell' = [wcell EXCEPT ![w] = c], wptr' = [wptr EXCEPT ![w] = o],
         UNCHANGED <<ostate, refs, ptr, resetting, incoming, fault>>
  PROVE  Core'
<1> DEFINE left == Decreased(count, wcell[w])
<1> USE HandlesAssumption DEF Core
<1>1. /\ left \in [Cells -> Nat]
      /\ \A d \in Cells : left[d] = IF d = wcell[w] THEN count[d] - 1 ELSE count[d]
  BY DEF Decreased, ObserversBound, TypeOK
<1>2. \A p \in Objects : ostate[p] = "live" /\ ocell[p] # Null => left[ocell[p]] > 0
  BY <1>1, CellSurvives DEF CellsCounted, TypeOK
<1>3. \A d \in Cells : left[d] = 0 => ~(\E p \in Objects : ostate[p] = "live" /\ ocell[p] = d)
  BY <1>2
<1> HIDE DEF left
<1>4. /\ IF ocell[o] = Null THEN left[c] = 0 ELSE c = ocell[o]
      /\ count'   = [left EXCEPT ![c] = @ + 1]
      /\ ocell'   = [ocell EXCEPT ![o] = c]
      /\ expired' = IF ocell[o] = Null THEN [expired EXCEPT ![c] = FALSE] ELSE expired
  BY DEF AddCount, left
<1>5. TypeOK' /\ ~fault'
  BY <1>1, <1>4 DEF TypeOK
<1>6. /\ \A d \in Cells :
           observers'[d] = IF d = c
                           THEN IF d = wcell[w] THEN observers[d] ELSE observers[d] + 1
                           ELSE IF d = wcell[w] THEN observers[d] - 1 ELSE observers[d]
      /\ owners' = owners
      /\ observers \in [Cells -> Nat]
  <2>1. owners' = owners
    BY DEF owners
  <2>2. (\A v \in Weak : v # w => wcell'[v] = wcell[v]) /\ wcell'[w] = c
    BY DEF TypeOK
  <2>3. observers \in [Cells -> Nat]
    BY Counting DEF CountsSound
  <2> QED BY <2>1, <2>2, <2>3, ObserversChange
<1>7. CountsSound'
  BY <1>5, CountingAfter
<1>8. NodesCounted'
  BY <1>4, <1>6 DEF NodesCounted
<1>9. \A p \in Objects : ostate[p] = "live" /\ ocell[p] = c => p = o
  BY <1>3, <1>4 DEF CellsUnshared, TypeOK
<1>10. CellsUnshared'
  BY <1>4, <1>9 DEF CellsUnshared, TypeOK
<1>11. ocell[o] # Null => ~expired[c]
  BY <1>4 DEF CellsCounted
<1>12. left[c] = 0 => observers[c] = IF c = wcell[w] THEN 1 ELSE 0
  <2>1. CASE c = wcell[w]
    <3> SUFFICES ASSUME left[c] = 0 PROVE observers[c] = 1
      BY <2>1
    <3>1. count[c] = 1
      BY <2>1, <1>1 DEF TypeOK
    <3>2. ~(\E p \in Objects : ostate[p] = "live" /\ ocell[p] = c)
      BY <1>3
    <3> QED BY <3>1, <3>2 DEF CellsOwned
  <2>2. CASE c # wcell[w]
    BY <1>1, <1>6, <2>2 DEF CellsOwned
  <2> QED BY <2>1, <2>2
<1>13. CellsCounted'
  <2> SUFFICES ASSUME NEW p \in Objects, ostate[p] = "live", ocell'[p] # Null
               PROVE  /\ ~expired'[ocell'[p]]
                      /\ count'[ocell'[p]] > 0
                      /\ count'[ocell'[p]] = refs[p] + observers'[ocell'[p]]
    BY <1>4, <1>5 DEF CellsCounted, TypeOK
  <2>1. CASE p = o
    <3>1. /\ ocell'[p] = c /\ count'[c] = left[c] + 1 /\ left[c] \in Nat
          /\ refs[p] \in Nat /\ observers[c] \in Nat
      BY <2>1, <1>1, <1>4, <1>6 DEF TypeOK
    <3>2. CASE ocell[o] = Null
      <4>1. refs[p] = 0 /\ left[c] = 0 /\ observers'[c] = 1 /\ ~expired'[c]
        BY <2>1, <3>2, <1>4, <1>6, <1>12 DEF CellsCounted, TypeOK
      <4> QED BY <3>1, <4>1
    <3>3. CASE ocell[o] # Null
      <4>1. ~expired'[c] /\ c = ocell[o] /\ count[c] = refs[p] + observers[c]
        BY <2>1, <3>3, <1>4, <1>11 DEF CellsCounted, TypeOK
      <4> QED BY <3>1, <4>1, <1>1, <1>6
    <3> QED BY <3>2, <3>3
  <2>2. CASE p # o
    <3>1. ocell'[p] = ocell[p] /\ ocell[p] # c /\ ocell[p] \in Cells
      BY <2>2, <1>4, <1>9 DEF TypeOK
    <3>2. count'[ocell[p]] = left[ocell[p]] /\ expired'[ocell[p]] = expired[ocell[p]]
      BY <3>1, <1>1, <1>4 DEF TypeOK
    <3> QED BY <3>1, <3>2, <1>1, <1>2, <1>6 DEF CellsCounted, TypeOK
  <2> QED BY <2>1, <2>2
<1>14. CellsOwned'
  <2> SUFFICES ASSUME NEW d \in Cells
               PROVE  IF count'[d] = 0
                      THEN observers'[d] = 0
                      ELSE IF expired'[d]
                           THEN count'[d] = observers'[d]
                           ELSE \E p \in Objects : ostate[p] = "live" /\ ocell'[p] = d
    BY DEF CellsOwned
  <2>1. CASE d = c
    BY <2>1, <1>1, <1>4, <1>11 DEF TypeOK
  <2>2. CASE d # c
    <3>1. count'[d] = left[d] /\ expired'[d] = expired[d]
      BY <2>2, <1>1, <1>4 DEF TypeOK
    <3>2. \A p \in Objects : ostate[p] = "live" /\ ocell[p] = d => ocell'[p] = d
      BY <2>2, <1>4 DEF TypeOK
    <3>3. CASE d = wcell[w]
      BY <3>1, <3>2, <3>3, <2>2, <1>1, <1>3, <1>6 DEF CellsOwned, ObserversBound, TypeOK
    <3>4. CASE d # wcell[w]
      BY <3>1, <3>2, <3>4, <2>2, <1>1, <1>6 DEF CellsOwned, TypeOK
    <3> QED BY <3>3, <3>4
  <2> QED BY <2>1, <2>2
<1>15. ObserversBound'
  <2> SUFFICES ASSUME NEW v \in Weak, wcell'[v] # Null
               PROVE  /\ count'[wcell'[v]] > 0
                      /\ ~expired'[wcell'[v]] => /\ wptr'[v] # Null
                                                 /\ ostate[wptr'[v]] = "live"
                                                 /\ ocell'[wptr'[v]] = wcell'[v]
    BY DEF ObserversBound
  <2>1. count'[wcell'[v]] > 0
    <3>1. wcell'[v] \in Cells /\ observers'[wcell'[v]] > 0
      BY <1>5, <1>7 DEF CountsSound, TypeOK
    <3> QED BY <3>1, <1>5, <1>14 DEF CellsOwned, TypeOK
  <2>2. CASE v = w
    BY <2>1, <2>2, <1>4 DEF TypeOK
  <2>3. CASE v # w
    <3>1. wcell'[v] = wcell[v] /\ wptr'[v] = wptr[v] /\ wcell[v] \in Cells
      BY <2>3 DEF TypeOK
    <3>2. CASE wcell[v] # c
      BY <3>1, <3>2, <2>1, <1>4 DEF ObserversBound, TypeOK
    <3>3. CASE wcell[v] = c
      <4>1. left[c] # 0
        BY <3>1, <3>3, <2>3, <1>12, Counting, TwoObservers DEF CountsSound
      <4>2. c = ocell[o] /\ expired' = expired /\ ocell' = ocell
        BY <4>1, <1>4 DEF TypeOK
      <4> QED BY <4>2, <3>1, <3>3, <2>1 DEF ObserversBound, TypeOK
    <3> QED BY <3>2, <3>3
  <2> QED BY <2>1, <2>2, <2>3
<1> QED BY <1>5, <1>8, <1>10, <1>13, <1>14, <1>15

\* Node memory is taken and returned.
LEMMA NodeStepsKeepCore ==
  ASSUME Core, MembersFreed, ResetPending, NEW o \in Objects,
         New(o) \/ DeleteRaw(o) \/ Free(o)
  PROVE  Core'
<1> USE HandlesAssumption DEF Core
<1>1. /\ \A s \in Strong : ptr[s] # o
      /\ owners[o] = 0
  <2>1. \A s \in Strong : ptr[s] # o
    <3>1. CASE ostate[o] = "live"
      <4>1. refs[o] = 0
        BY <3>1 DEF New, DeleteRaw, Free, Unowned, Dying
      <4> QED BY <3>1, <4>1, Counting DEF NodesCounted, CountsSound
    <3> QED BY <3>1 DEF NodesCounted
  <2> QED BY <2>1, Counting DEF CountsSound
<1>2. UNCHANGED <<count, expired, ptr, wptr, wcell, resetting, incoming>>
  BY DEF New, DeleteRaw, Free, handleVars, resetVars
<1>3. ~fault'
  BY DEF New, DeleteRaw, Free, ResetPending, Usable, OnStack, Dying
<1>4. TypeOK'
  <2>1. /\ ostate' \in [Objects -> {"free", "live", "dying"}]
        /\ refs' \in [Objects -> Nat] /\ ocell' \in [Objects -> Cells \cup {Null}]
    BY DEF TypeOK, New, DeleteRaw, Free
  <2>2. fault' \in BOOLEAN
    BY <1>3, TypeOK DEF New, DeleteRaw, Free, TypeOK
  <2> QED BY <1>2, <2>1, <2>2 DEF TypeOK
<1>5. owners' = owners /\ observers' = observers
  BY <1>2 DEF owners, observers
<1>6. /\ \A p \in Objects : p # o => /\ ostate'[p] = ostate[p] /\ refs'[p] = refs[p]
                                     /\ ocell'[p] = ocell[p]
      /\ ostate'[o] = "live" => refs'[o] = 0 /\ ocell'[o] = Null
      /\ ostate[o] = "live" => ocell[o] = Null
  BY DEF New, DeleteRaw, Free, Unowned, Dying, TypeOK
<1>7. NodesCounted'
  BY <1>1, <1>2, <1>4, <1>5, <1>6 DEF NodesCounted, TypeOK
<1>8. CellsCounted' /\ CellsUnshared'
  BY <1>2, <1>4, <1>5, <1>6 DEF CellsCounted, CellsUnshared, TypeOK
<1>9. CellsOwned'
  BY <1>2, <1>4, <1>5, <1>6 DEF CellsOwned, TypeOK
<1>10. ObserversBound'
  BY <1>2, <1>4, <1>6 DEF ObserversBound, TypeOK
<1> QED BY <1>3, <1>4, <1>7, <1>8, <1>9, <1>10

-----------------------------------------------------------------------------
(***************************************************************************)
(* Every action keeps the core.                                            *)
(***************************************************************************)

LEMMA DisownKeepsCore ==
  ASSUME Core, NEW s \in Strong, ptr[s] # Null, RemoveRef(ptr[s]),
         ptr' = [ptr EXCEPT ![s] = Null], UNCHANGED <<wptr, wcell>>,
         resetting' \in Strong \cup {Null}, incoming' \in Objects \cup {Null}
  PROVE  Core'
<1>1. ReleaseRef(ptr[s])
  BY DEF RemoveRef
<1> QED BY <1>1, ReleaseKeepsCore

LEMMA AssignWeakKeepsCore ==
  ASSUME Core, NEW w \in Weak, NEW r \in Weak, AssignWeak(w, r), Forgettable(w)
  PROVE  Core'
<1>1. TypeOK /\ ~fault /\ ObserversBound /\ CellsCounted /\ resetVars' = resetVars
  BY DEF Core, AssignWeak
<1>2. CASE r = w \/ IsExpired(r)
  <2>1. Unobserve(w)
    BY <1>2 DEF AssignWeak, Unobserve
  <2> QED BY <2>1, UnobserveKeepsCore
<1>3. CASE r # w /\ ~IsExpired(r)
  <2> DEFINE left == Decreased(count, wcell[w])
  <2>1. /\ wcell[r] \in Cells /\ wptr[r] \in Objects
        /\ ostate[wptr[r]] = "live" /\ ocell[wptr[r]] = wcell[r]
    BY <1>1, <1>3 DEF IsExpired, ObserversBound, TypeOK
  <2>2. left[wcell[r]] > 0
    <3>1. CASE wcell[w] = Null \/ wcell[w] # wcell[r]
      BY <1>1, <2>1, <3>1, HandlesAssumption DEF Decreased, ObserversBound, TypeOK
    <3>2. CASE wcell[w] # Null /\ wcell[w] = wcell[r]
      <4>1. count[wcell[w]] > 1
        BY <2>1, <3>2, CellSurvives
      <4> QED BY <1>1, <2>1, <3>2, <4>1 DEF Decreased, TypeOK
    <3> QED BY <3>1, <3>2
  <2>3. /\ count' = [left EXCEPT ![wcell[r]] = @ + 1]
        /\ wcell' = [wcell EXCEPT ![w] = wcell[r]]
        /\ wptr'  = [wptr EXCEPT ![w] = wptr[r]]
        /\ UNCHANGED <<ostate, refs, ocell, expired, ptr, resetting, incoming>>
    BY <1>3 DEF AssignWeak, resetVars
  <2>4. fault' = fault
    BY <1>1, <1>3, <2>1, <2>2 DEF AssignWeak, DecreaseFault, ObserversBound, TypeOK
  <2>5. AddCount(left, wptr[r], wcell[r])
    BY <1>1, <2>1, <2>3, HandlesAssumption DEF AddCount, TypeOK
  <2> HIDE DEF left
  <2>6. AddCount(Decreased(count, wcell[w]), wptr[r], wcell[r])
    BY <2>5 DEF left
  <2> QED BY <2>1, <2>3, <2>4, <2>6, ObserveKeepsCore
<1> QED BY <1>2, <1>3

LEMMA ObserveStepKeepsCore ==
  ASSUME Core, NEW w \in Weak, NEW o \in Objects, Observe(w, o), Forgettable(w)
  PROVE  Core'
<1>1. TypeOK /\ ~fault /\ ObserversBound /\ CellsCounted /\ ostate[o] = "live"
  BY DEF Core, Observe
<1>2. PICK c \in Cells : /\ AddCount(Decreased(count, wcell[w]), o, c)
                         /\ wcell' = [wcell EXCEPT ![w] = c]
  BY DEF Observe
<1>3. wptr' = [wptr EXCEPT ![w] = o] /\ UNCHANGED <<ostate, refs, ptr, resetting, incoming>>
  BY DEF Observe, resetVars
<1>4. ~DecreaseFault(wcell[w])
  BY <1>1, HandlesAssumption DEF DecreaseFault, ObserversBound, TypeOK
<1>5. ocell[o] # Null => Decreased(count, wcell[w])[ocell[o]] > 0 /\ ~expired[ocell[o]]
  <2>1. CASE wcell[w] = Null \/ wcell[w] # ocell[o]
    BY <1>1, <2>1 DEF Decreased, CellsCounted, TypeOK
  <2>2. CASE wcell[w] # Null /\ wcell[w] = ocell[o]
    <3>1. count[wcell[w]] > 1
      BY <1>1, <2>2, CellSurvives
    <3> QED BY <1>1, <2>2, <3>1 DEF Decreased, CellsCounted, TypeOK
  <2> QED BY <2>1, <2>2
<1>6. ~AddCountFault(Decreased(count, wcell[w]), o)
  BY <1>1, <1>5 DEF AddCountFault
<1>7. fault' = fault
  BY <1>1, <1>4, <1>6 DEF Observe, TypeOK
<1> QED BY <1>1, <1>2, <1>3, <1>7, ObserveKeepsCore

\* What MayForget asks of the callers is what the cells need.
LEMMA MayForgetSuffices ==
  ASSUME NEW w \in Weak, MayForget(w)
  PROVE  Forgettable(w)
BY DEF MayForget, Forgettable, AnchoredBeside

LEMMA CoreStep ==
  ASSUME IInv, Next
  PROVE  Core'
<1> USE HandlesAssumption
<1>1. Core /\ MembersFreed /\ UnownedAnchored /\ ResetPending /\ AssignPending /\ TypeOK
  BY DEF IInv, Core
<1>2. resetting \in Strong \cup {Null} /\ incoming \in Objects \cup {Null}
  BY <1>1 DEF TypeOK
<1>3. ASSUME NEW o \in Objects, New(o) \/ DeleteRaw(o) \/ Free(o)
      PROVE  Core'
  BY <1>1, <1>3, NodeStepsKeepCore
<1>4. ASSUME NEW s \in Named, NEW o \in Objects, Own(s, o)
      PROVE  Core'
  BY <1>1, <1>2, <1>4, AcquireKeepsCore DEF Own, Named, resetVars
<1>5. ASSUME NEW s \in Named, NEW o \in Objects, ResetBegin(s, o)
      PROVE  Core'
  BY <1>1, <1>2, <1>5, DisownKeepsCore DEF ResetBegin, Named
<1>6. ASSUME NEW s \in Strong, Disown(s)
      PROVE  Core'
  BY <1>1, <1>2, <1>6, DisownKeepsCore DEF Disown, resetVars
<1>7. ASSUME NEW s \in Named, Release(s)
      PROVE  Core'
  BY <1>1, <1>2, <1>7, ReleaseKeepsCore DEF Release, Named, resetVars
<1>8. ASSUME NEW s \in Named, NEW t \in Named, Assign(s, t)
      PROVE  Core'
  BY <1>1, <1>8, AssignKeepsCore DEF Assign, Busy
<1>9. ASSUME NEW w \in Weak, NEW s \in Named, Lock(w, s)
      PROVE  Core'
  <2>1. wptr[w] \in Objects /\ ostate[wptr[w]] = "live"
    BY <1>1, <1>9 DEF Lock, IsExpired, Core, ObserversBound, TypeOK
  <2> QED BY <1>1, <1>2, <1>9, <2>1, AcquireKeepsCore DEF Lock, Named, resetVars
<1>10. ASSUME NEW w \in Weak, NEW o \in Objects, Observe(w, o)
       PROVE  Core'
  BY <1>1, <1>10, ObserveStepKeepsCore, MayForgetSuffices DEF Observe
<1>11. ASSUME NEW w \in Weak, NEW r \in Weak, AssignWeak(w, r)
       PROVE  Core'
  BY <1>1, <1>11, AssignWeakKeepsCore, MayForgetSuffices DEF AssignWeak
<1>12. ASSUME NEW w \in Weak, Forget(w)
       PROVE  Core'
  BY <1>1, <1>12, UnobserveKeepsCore, MayForgetSuffices DEF Forget
<1>13. CASE ResetEnd
  <2>1. /\ resetting \in Strong /\ incoming \in Objects /\ ptr[resetting] = Null
        /\ ostate[incoming] = "live"
    BY <1>1, <1>2, <1>13 DEF ResetEnd, ResetPending
  <2>2. /\ AddRef(incoming) /\ ptr' = [ptr EXCEPT ![resetting] = incoming]
        /\ UNCHANGED <<wptr, wcell>> /\ resetting' = Null /\ incoming' = Null
    BY <1>13 DEF ResetEnd
  <2> QED BY <1>1, <2>1, <2>2, AcquireKeepsCore
<1>14. ASSUME NEW w \in Weak, DestroyWeak(w)
       PROVE  Core'
  <2>1. ~OnStack(w)
    BY <1>14 DEF DestroyWeak, OnStack, Dying
  <2>2. Forgettable(w)
    BY <1>1, <2>1 DEF Forgettable, UnownedAnchored
  <2> QED BY <1>1, <1>14, <2>2, UnobserveKeepsCore DEF DestroyWeak
<1> QED BY <1>3, <1>4, <1>5, <1>6, <1>7, <1>8, <1>9, <1>10, <1>11, <1>12, <1>13, <1>14
        DEF Next, Unwind, Drop, AssignEnd, DestroyStrong, Named

-----------------------------------------------------------------------------
(***************************************************************************)
(* Every action keeps the protocol part, given that it keeps the core.     *)
(***************************************************************************)

\* The effect of an action on the state of nodes and their reference counts.
LEMMA AddRefEffect ==
  ASSUME TypeOK, NEW o \in Objects, AddRef(o)
  PROVE  /\ ostate' = ostate
         /\ \A p \in Objects : /\ refs'[p] = IF p = o THEN refs[p] + 1 ELSE refs[p]
                               /\ p # o => ocell'[p] = ocell[p]
BY DEF AddRef, AddCount, TypeOK

LEMMA ReleaseRefEffect ==
  ASSUME TypeOK, NEW o \in Objects, ReleaseRef(o)
  PROVE  \A p \in Objects : /\ refs'[p] = IF p = o THEN refs[p] - 1 ELSE refs[p]
                            /\ p # o => ocell'[p] = ocell[p]
BY DEF ReleaseRef, TypeOK

LEMMA RemoveRefEffect ==
  ASSUME TypeOK, NEW o \in Objects, RemoveRef(o)
  PROVE  /\ \A p \in Objects : /\ refs'[p] = IF p = o THEN refs[p] - 1 ELSE refs[p]
                               /\ p # o => ocell'[p] = ocell[p]
         /\ \A p \in Objects : ostate'[p] = IF p = o /\ refs[o] = 1 THEN "dying" ELSE ostate[p]
BY ReleaseRefEffect DEF RemoveRef, TypeOK

LEMMA MembersStep ==
  ASSUME IInv, Next
  PROVE  MembersFreed'
<1> USE HandlesAssumption
<1>1. TypeOK /\ MembersFreed /\ Core
  BY DEF IInv, Core
<1>2. TypeOK' /\ Core'
  BY CoreStep DEF Core
<1>3. ASSUME NEW o \in Objects, New(o) \/ DeleteRaw(o) \/ Free(o)
      PROVE  MembersFreed'
  BY <1>1, <1>3 DEF New, DeleteRaw, Free, MembersFreed, handleVars, OnStack, TypeOK
<1>4. ASSUME NEW s \in Strong, Usable(s), NEW o \in Objects, AddRef(o),
             ptr' = [ptr EXCEPT ![s] = o], wcell' = wcell
      PROVE  MembersFreed'
  <2>1. ostate' = ostate
    BY <1>4 DEF AddRef
  <2> QED BY <1>1, <1>4, <2>1 DEF MembersFreed, OnStack, Usable, TypeOK
<1>5. ASSUME NEW s \in Strong, NEW o \in Objects, RemoveRef(o),
             ptr' = [ptr EXCEPT ![s] = Null], wcell' = wcell
      PROVE  MembersFreed'
  <2>1. \A p \in Objects : ostate'[p] = "free" => ostate[p] = "free"
    BY <1>1, <1>5, RemoveRefEffect
  <2> QED BY <1>1, <1>5, <2>1 DEF MembersFreed, OnStack, TypeOK
<1>6. ASSUME NEW s \in Strong, Disown(s)
      PROVE  MembersFreed'
  BY <1>1, <1>5, <1>6 DEF Disown, TypeOK
<1>7. ASSUME NEW s \in Named, NEW o \in Objects, Own(s, o) \/ ResetBegin(s, o)
      PROVE  MembersFreed'
  BY <1>1, <1>4, <1>5, <1>7 DEF Own, ResetBegin, Named, TypeOK
<1>8. ASSUME NEW s \in Named, Release(s)
      PROVE  MembersFreed'
  BY <1>1, <1>8 DEF Release, MembersFreed, OnStack, Named, TypeOK
<1>9. ASSUME NEW s \in Named, NEW t \in Named, Assign(s, t)
      PROVE  MembersFreed'
  <2>1. ostate' = ostate
    BY <1>9 DEF Assign, AddRef
  <2> QED BY <1>1, <1>9, <2>1 DEF Assign, MembersFreed, OnStack, Usable, Named, TypeOK
<1>10. ASSUME NEW w \in Weak, NEW s \in Named, Lock(w, s)
       PROVE  MembersFreed'
  <2>1. wptr[w] \in Objects
    BY <1>1, <1>10 DEF Lock, IsExpired, Core, ObserversBound, TypeOK
  <2> QED BY <1>4, <1>10, <2>1 DEF Lock, Named
<1>11. ASSUME NEW w \in Weak, Usable(w), UNCHANGED <<ostate, ptr>>,
              \A v \in Weak : v # w => wcell'[v] = wcell[v]
       PROVE  MembersFreed'
  BY <1>1, <1>11 DEF MembersFreed, OnStack, Usable, TypeOK
<1>12. ASSUME NEW w \in Weak, NEW o \in Objects, Observe(w, o)
       PROVE  MembersFreed'
  BY <1>1, <1>11, <1>12 DEF Observe, TypeOK
<1>13. ASSUME NEW w \in Weak, NEW r \in Weak, AssignWeak(w, r)
       PROVE  MembersFreed'
  BY <1>1, <1>11, <1>13 DEF AssignWeak, TypeOK
<1>14. ASSUME NEW w \in Weak, Unobserve(w)
       PROVE  MembersFreed'
  BY <1>1, <1>14 DEF Unobserve, MembersFreed, OnStack, TypeOK
<1>15. CASE ResetEnd
  <2>1. resetting \in Strong /\ incoming \in Objects /\ Usable(resetting)
    BY <1>1, <1>15 DEF ResetEnd, IInv, ResetPending, TypeOK
  <2> QED BY <1>4, <1>15, <2>1 DEF ResetEnd
<1> QED BY <1>3, <1>6, <1>7, <1>8, <1>9, <1>10, <1>12, <1>13, <1>14, <1>15
        DEF Next, Unwind, Drop, AssignEnd, DestroyStrong, DestroyWeak, Forget, Named

LEMMA AnchorStep ==
  ASSUME IInv, Next
  PROVE  UnownedAnchored'
<1> USE HandlesAssumption
<1>1. TypeOK /\ UnownedAnchored /\ Core /\ NodesCounted
  BY DEF IInv, Core
<1>2. TypeOK' /\ Core'
  BY CoreStep DEF Core
<1>3. ASSUME wcell' = wcell,
             \A p \in Objects :
               ostate'[p] = "live" /\ refs'[p] = 0 /\ ocell'[p] # Null =>
                 ostate[p] = "live" /\ refs[p] = 0 /\ ocell'[p] = ocell[p]
      PROVE  UnownedAnchored'
  BY <1>1, <1>3 DEF UnownedAnchored, Unowned, OnStack
<1>4. ASSUME NEW o \in Objects, New(o) \/ DeleteRaw(o) \/ Free(o)
      PROVE  UnownedAnchored'
  BY <1>1, <1>3, <1>4 DEF New, DeleteRaw, Free, handleVars, TypeOK
<1>5. ASSUME NEW o \in Objects, AddRef(o), wcell' = wcell
      PROVE  UnownedAnchored'
  BY <1>1, <1>3, <1>5, AddRefEffect DEF TypeOK
<1>6. ASSUME NEW s \in Strong, ptr[s] # Null, RemoveRef(ptr[s]), wcell' = wcell
      PROVE  UnownedAnchored'
  <2>1. ptr[s] \in Objects /\ refs[ptr[s]] > 0
    BY <1>1, <1>6, Counting DEF CountsSound, NodesCounted, TypeOK
  <2> QED BY <1>1, <1>3, <1>6, <2>1, RemoveRefEffect DEF TypeOK
<1>7. ASSUME NEW s \in Named, Release(s)
      PROVE  UnownedAnchored'
  <2> DEFINE o == ptr[s]
  <2>1. /\ o \in Objects /\ ReleaseRef(o) /\ MayRelease(s)
        /\ UNCHANGED <<ostate, wcell>> /\ s \in Strong /\ ptr[s] # Null
    BY <1>1, <1>7 DEF Release, Named, TypeOK
  <2>2. refs[o] > 0 /\ refs[o] \in Nat /\ ostate[o] = "live"
    BY <1>1, <2>1, Counting DEF CountsSound, NodesCounted, TypeOK
  <2>3. ASSUME refs[o] = 1, ocell'[o] # Null
        PROVE  \E w \in Weak : OnStack(w) /\ wcell[w] = ocell'[o]
    <3>1. ocell'[o] = ocell[o] /\ count[ocell[o]] # 1 /\ ocell[o] \in Cells
      BY <1>1, <2>1, <2>3 DEF ReleaseRef, TypeOK
    <3>2. count[ocell[o]] = refs[o] + observers[ocell[o]]
      BY <1>1, <2>1, <2>2, <3>1 DEF Core, CellsCounted
    <3>3. observers[ocell[o]] # 0
      BY <3>1, <3>2, <2>3
    <3>4. \E w \in Weak : wcell[w] = ocell[o]
      BY <1>1, <3>1, <3>3, Counting DEF CountsSound
    <3> QED BY <2>1, <2>3, <3>1, <3>4 DEF MayRelease
  <2>4. \A p \in Objects : /\ refs'[p] = IF p = o THEN refs[p] - 1 ELSE refs[p]
                           /\ p # o => ocell'[p] = ocell[p]
    BY <1>1, <2>1, ReleaseRefEffect
  <2> HIDE DEF o
  <2> QED BY <1>1, <2>1, <2>2, <2>3, <2>4 DEF UnownedAnchored, Unowned, OnStack
<1>8. ASSUME NEW s \in Named, NEW t \in Named, Assign(s, t)
      PROVE  UnownedAnchored'
  <2>1. CASE ptr[t] = Null
    BY <1>1, <1>3, <1>8, <2>1 DEF Assign
  <2>2. CASE ptr[t] # Null
    BY <1>1, <1>5, <1>8, <2>2 DEF Assign, Named, TypeOK
  <2> QED BY <2>1, <2>2
<1>9. ASSUME NEW w \in Weak, NEW s \in Named, Lock(w, s)
      PROVE  UnownedAnchored'
  <2>1. wptr[w] \in Objects
    BY <1>1, <1>9 DEF Lock, IsExpired, Core, ObserversBound, TypeOK
  <2> QED BY <1>5, <1>9, <2>1 DEF Lock
<1>10. ASSUME NEW w \in Weak, Unobserve(w), MayForget(w) \/ ~OnStack(w)
       PROVE  UnownedAnchored'
  <2>1. \A v \in Weak : v # w => wcell'[v] = wcell[v]
    BY <1>1, <1>10 DEF Unobserve, TypeOK
  <2>2. UNCHANGED <<ostate, refs, ocell>>
    BY <1>10 DEF Unobserve
  <2>3. CASE MayForget(w)
    BY <1>1, <2>1, <2>2, <2>3 DEF UnownedAnchored, Unowned, MayForget, AnchoredBeside, OnStack, TypeOK
  <2>4. CASE ~OnStack(w)
    BY <1>1, <2>1, <2>2, <2>4 DEF UnownedAnchored, Unowned, OnStack
  <2> QED BY <1>10, <2>3, <2>4
<1>11. ASSUME NEW w \in Weak, NEW o \in Objects, Observe(w, o)
       PROVE  UnownedAnchored'
  <2>1. PICK c \in Cells : AddCount(Decreased(count, wcell[w]), o, c)
                           /\ wcell' = [wcell EXCEPT ![w] = c]
    BY <1>11 DEF Observe
  <2>2. /\ ocell' = [ocell EXCEPT ![o] = c]
        /\ UNCHANGED <<ostate, refs>> /\ MayForget(w) /\ MayObserve(w, o)
        /\ (ocell[o] # Null => c = ocell[o])
    BY <1>11, <2>1 DEF Observe, AddCount
  <2>3. (\A v \in Weak : v # w => wcell'[v] = wcell[v]) /\ wcell'[w] = c
    BY <1>1, <2>1 DEF TypeOK
  <2> SUFFICES ASSUME NEW p \in Objects, ostate[p] = "live", refs[p] = 0, ocell'[p] # Null
               PROVE  \E v \in Weak : OnStack(v) /\ wcell'[v] = ocell'[p]
    BY <2>2 DEF UnownedAnchored, Unowned, OnStack
  <2>4. CASE p = o
    <3>1. ocell'[p] = c
      BY <1>1, <2>2, <2>4 DEF TypeOK
    <3>2. CASE OnStack(w)
      BY <2>3, <3>1, <3>2
    <3>3. CASE ~OnStack(w)
      BY <2>2, <2>3, <2>4, <3>1, <3>3 DEF MayObserve, AnchoredBeside, TypeOK
    <3> QED BY <3>2, <3>3
  <2>5. CASE p # o
    <3>1. ocell'[p] = ocell[p]
      BY <1>1, <2>2, <2>5 DEF TypeOK
    <3>2. PICK v \in Weak : OnStack(v) /\ wcell[v] = ocell[p]
      BY <1>1, <3>1 DEF UnownedAnchored, Unowned
    <3>3. CASE v # w
      BY <2>3, <3>1, <3>2, <3>3
    <3>4. CASE v = w
      BY <2>2, <2>3, <3>1, <3>2, <3>4 DEF MayForget, AnchoredBeside, Unowned
    <3> QED BY <3>3, <3>4
  <2> QED BY <2>4, <2>5
<1>12. ASSUME NEW w \in Weak, NEW r \in Weak, AssignWeak(w, r)
       PROVE  UnownedAnchored'
  <2>1. UNCHANGED <<ostate, refs, ocell>> /\ MayForget(w)
    BY <1>12 DEF AssignWeak
  <2>2. \A v \in Weak : v # w => wcell'[v] = wcell[v]
    BY <1>1, <1>12 DEF AssignWeak, TypeOK
  <2> QED BY <1>1, <2>1, <2>2 DEF UnownedAnchored, Unowned, MayForget, AnchoredBeside, OnStack, TypeOK
<1>13. ASSUME NEW s \in Strong, Disown(s)
       PROVE  UnownedAnchored'
  BY <1>6, <1>13 DEF Disown
<1>14. ASSUME NEW s \in Named, NEW o \in Objects, Own(s, o) \/ ResetBegin(s, o)
       PROVE  UnownedAnchored'
  BY <1>5, <1>6, <1>14 DEF Own, ResetBegin, Named
<1>15. CASE ResetEnd
  <2>1. incoming \in Objects
    BY <1>1, <1>15 DEF ResetEnd, IInv, ResetPending, TypeOK
  <2> QED BY <1>5, <1>15, <2>1 DEF ResetEnd
<1>16. ASSUME NEW w \in Weak, DestroyWeak(w) \/ Forget(w)
       PROVE  UnownedAnchored'
  BY <1>10, <1>16 DEF DestroyWeak, Forget, OnStack, Dying
<1> QED BY <1>4, <1>7, <1>8, <1>9, <1>11, <1>12, <1>13, <1>14, <1>15, <1>16
        DEF Next, Unwind, Drop, AssignEnd, DestroyStrong, Named

\* A node that a handle besides s owns is not deleted when s lets go.
LEMMA HeldSurvives ==
  ASSUME Core, NEW s \in Strong, ptr[s] # Null, RemoveRef(ptr[s]),
         NEW p \in Objects, ostate[p] = "live",
         ptr[s] # p \/ refs[ptr[s]] > 1 \/ HeldBeside(p, s)
  PROVE  ostate'[p] = "live"
<1>1. TypeOK /\ NodesCounted /\ ptr[s] \in Objects
  BY DEF Core, TypeOK
<1>2. CASE ptr[s] # p \/ refs[ptr[s]] > 1
  BY <1>1, <1>2, RemoveRefEffect
<1>3. CASE ptr[s] = p /\ HeldBeside(p, s)
  <2>1. PICK t \in Strong \ {s} : ptr[t] = p
    BY <1>3 DEF HeldBeside
  <2>2. IsFiniteSet(Fiber(ptr, Strong, p)) /\ t \in Fiber(ptr, Strong, p) \ {s} /\ s \in Fiber(ptr, Strong, p)
    BY <1>3, <2>1, FS_Subset, HandlesAssumption DEF Fiber
  <2>3. /\ Cardinality(Fiber(ptr, Strong, p) \ {s}) = Cardinality(Fiber(ptr, Strong, p)) - 1
        /\ IsFiniteSet(Fiber(ptr, Strong, p) \ {s})
    BY <2>2, FS_RemoveElement
  <2>4. Cardinality(Fiber(ptr, Strong, p) \ {s}) # 0
    BY <2>2, <2>3, FS_EmptySet
  <2>5. refs[p] = Cardinality(Fiber(ptr, Strong, p))
    BY <1>1 DEF NodesCounted, owners
  <2>6. refs[p] # 1
    BY <2>3, <2>4, <2>5
  <2> QED BY <1>1, <1>3, <2>6, RemoveRefEffect
<1> QED BY <1>2, <1>3

LEMMA PendingStep ==
  ASSUME IInv, Next
  PROVE  ResetPending' /\ AssignPending'
<1> USE HandlesAssumption
<1>1. TypeOK /\ Core /\ NodesCounted /\ ResetPending /\ AssignPending
  BY DEF IInv, Core
<1>2. ASSUME ~Busy, resetting' = Null, ptr'[Temp] = Null
      PROVE  ResetPending' /\ AssignPending'
  BY <1>2 DEF ResetPending, AssignPending
<1>3. ASSUME NEW o \in Objects, New(o) \/ DeleteRaw(o)
      PROVE  ResetPending' /\ AssignPending'
  BY <1>2, <1>3 DEF New, DeleteRaw, Busy, handleVars, resetVars
<1>4. ASSUME NEW s \in Named, NEW o \in Objects, Own(s, o)
      PROVE  ResetPending' /\ AssignPending'
  BY <1>1, <1>2, <1>4 DEF Own, Busy, resetVars, Named, TypeOK
<1>5. ASSUME NEW s \in Named, Drop(s) \/ Release(s)
      PROVE  ResetPending' /\ AssignPending'
  BY <1>1, <1>2, <1>5 DEF Drop, Disown, Release, Busy, resetVars, Named, TypeOK
<1>6. ASSUME NEW w \in Weak, NEW s \in Named, Lock(w, s)
      PROVE  ResetPending' /\ AssignPending'
  BY <1>1, <1>2, <1>6 DEF Lock, Busy, resetVars, Named, TypeOK
<1>7. ASSUME NEW w \in Weak, NEW o \in Objects, Observe(w, o)
      PROVE  ResetPending' /\ AssignPending'
  BY <1>2, <1>7 DEF Observe, Busy, resetVars
<1>8. ASSUME NEW w \in Weak, NEW r \in Weak, AssignWeak(w, r)
      PROVE  ResetPending' /\ AssignPending'
  BY <1>2, <1>8 DEF AssignWeak, Busy, resetVars
<1>9. ASSUME NEW w \in Weak, Forget(w)
      PROVE  ResetPending' /\ AssignPending'
  BY <1>2, <1>9 DEF Forget, Unobserve, Busy, resetVars
<1>10. ASSUME NEW s \in Named, NEW t \in Named, Assign(s, t)
       PROVE  ResetPending' /\ AssignPending'
  <2>1. resetting' = Null /\ ostate' = ostate /\ Dying = {}
    BY <1>10 DEF Assign, AddRef, Busy, resetVars
  <2> QED BY <2>1 DEF ResetPending, AssignPending, Dying
<1>11. ASSUME NEW s \in Named, NEW o \in Objects, ResetBegin(s, o)
       PROVE  ResetPending' /\ AssignPending'
  <2>1. /\ s \in Strong /\ s # Temp /\ s # Null /\ o # Null
        /\ ptr[Temp] = Null /\ Dying = {} /\ Usable(s)
        /\ ptr[s] \in Objects /\ ptr[s] # Null /\ RemoveRef(ptr[s]) /\ MayReset(s, o)
        /\ ostate[o] = "live" /\ resetting' = s /\ incoming' = o
    BY <1>1, <1>11 DEF ResetBegin, Busy, Named, TypeOK
  <2>2. ptr'[s] = Null /\ ptr'[Temp] = Null /\ \A t \in Strong \ {s} : ptr'[t] = ptr[t]
    BY <1>1, <1>11, <2>1 DEF ResetBegin, TypeOK
  <2>3. refs[ptr[s]] > 0
    BY <1>1, <2>1, Counting DEF CountsSound, NodesCounted
  <2>4. ostate'[o] = "live"
    BY <1>1, <2>1, <2>3, HeldSurvives DEF MayReset, Unowned
  <2>5. Usable(s)'
    BY <1>1, <2>1, HeldSurvives DEF MayReset, Usable, OnStack
  <2>6. CASE refs[ptr[s]] > 1
    <3>1. Dying' = {}
      BY <1>1, <2>1, <2>6, RemoveRefEffect DEF Dying
    <3> QED BY <2>1, <2>2, <2>4, <2>5, <3>1 DEF ResetPending, AssignPending
  <2>7. CASE ~(refs[ptr[s]] > 1)
    <3>1. OnStack(s) \/ HeldBeside(Home[s], s)'
      BY <2>1, <2>2, <2>7 DEF MayReset, HeldBeside, OnStack
    <3>2. refs'[o] = 0 \/ HeldBeside(o, s)'
      <4>1. CASE Unowned(o)
        BY <1>1, <2>1, <2>3, <4>1, RemoveRefEffect DEF Unowned
      <4>2. CASE HeldBeside(o, s)
        BY <2>2, <4>2 DEF HeldBeside, OnStack
      <4> QED BY <2>1, <2>7, <4>1, <4>2 DEF MayReset
    <3>3. /\ OnStack(s) \/ (\E t \in Strong \ {s} : OnStack(t) /\ ptr'[t] = Home[s])
          /\ refs'[o] = 0 \/ (\E t \in Strong \ {s} : OnStack(t) /\ ptr'[t] = o)
      BY <3>1, <3>2 DEF HeldBeside, OnStack
    <3>4. ~OnStack(s) => ostate'[Home[s]] = "live"
      BY <2>5 DEF Usable, OnStack
    <3> QED BY <2>1, <2>2, <2>4, <3>3, <3>4
            DEF ResetPending, AssignPending, HeldBeside, Usable, OnStack
  <2> QED BY <2>6, <2>7
<1>12. CASE AssignEnd
  BY <1>1, <1>12 DEF AssignEnd, Disown, resetVars, ResetPending, AssignPending, TypeOK
<1>13. CASE ResetEnd
  <2>1. resetting' = Null /\ ostate' = ostate /\ Dying = {}
    BY <1>13 DEF ResetEnd, AddRef
  <2> QED BY <2>1 DEF ResetPending, AssignPending, Dying
<1>14. ASSUME NEW s \in Strong, DestroyStrong(s)
       PROVE  ResetPending' /\ AssignPending'
  <2>1. /\ Home[s] \in Dying /\ ~OnStack(s) /\ ptr[s] # Null /\ ptr[s] \in Objects
        /\ RemoveRef(ptr[s]) /\ ptr' = [ptr EXCEPT ![s] = Null]
        /\ UNCHANGED <<resetting, incoming>>
    BY <1>1, <1>14 DEF DestroyStrong, Disown, OnStack, Dying, resetVars, TypeOK
  <2>2. ptr'[Temp] = Null
    BY <1>1, <2>1 DEF AssignPending, TypeOK
  <2>3. \A t \in Strong : OnStack(t) => ptr'[t] = ptr[t]
    BY <1>1, <2>1 DEF TypeOK
  <2>4. \A p \in Objects : \A r : HeldBeside(p, r) => HeldBeside(p, s) /\ HeldBeside(p, r)'
    BY <2>1, <2>3 DEF HeldBeside, OnStack
  <2>5. CASE resetting = Null
    BY <2>1, <2>2, <2>5 DEF ResetPending, AssignPending
  <2>6. CASE resetting # Null
    <3>1. /\ resetting \in Strong /\ incoming \in Objects
          /\ incoming # Null /\ ptr[resetting] = Null
          /\ ostate[incoming] = "live" /\ Usable(resetting)
          /\ OnStack(resetting) \/ HeldBeside(Home[resetting], resetting)
          /\ refs[incoming] = 0 \/ HeldBeside(incoming, resetting)
      BY <1>1, <2>1, <2>6 DEF ResetPending, TypeOK
    <3>2. refs[ptr[s]] > 0
      BY <1>1, <2>1, Counting DEF CountsSound, NodesCounted
    <3>3. ostate'[incoming] = "live"
      BY <1>1, <2>1, <2>4, <3>1, <3>2, HeldSurvives
    <3>4. Usable(resetting)'
      BY <1>1, <2>1, <2>4, <3>1, HeldSurvives DEF Usable, OnStack
    <3>5. ptr'[resetting] = Null
      BY <1>1, <2>1, <3>1 DEF TypeOK
    <3>6. OnStack(resetting)
            \/ \E t \in Strong \ {resetting} : OnStack(t) /\ ptr'[t] = Home[resetting]
      BY <2>3, <3>1 DEF HeldBeside
    <3>7. refs'[incoming] = 0 \/ HeldBeside(incoming, resetting)'
      BY <1>1, <2>1, <2>4, <3>1, <3>2, RemoveRefEffect
    <3> QED BY <2>1, <2>2, <3>1, <3>3, <3>4, <3>5, <3>6, <3>7
            DEF ResetPending, AssignPending, HeldBeside, Usable, OnStack
  <2> QED BY <2>5, <2>6
<1>15. ASSUME NEW w \in Weak, DestroyWeak(w)
       PROVE  ResetPending' /\ AssignPending'
  <2>1. UNCHANGED <<ostate, refs, ptr, resetting, incoming>>
    BY <1>15 DEF DestroyWeak, Unobserve, resetVars
  <2> QED BY <1>1, <2>1
          DEF ResetPending, AssignPending, HeldBeside, Usable, OnStack, Dying
<1>16. ASSUME NEW o \in Objects, Free(o)
       PROVE  ResetPending' /\ AssignPending'
  <2>1. /\ ostate[o] = "dying" /\ ostate' = [ostate EXCEPT ![o] = "free"]
        /\ UNCHANGED <<refs, ptr, resetting, incoming>>
    BY <1>16 DEF Free, Dying, handleVars, resetVars
  <2>2. \A p \in Objects : p # o => ostate'[p] = ostate[p]
    BY <1>1, <2>1 DEF TypeOK
  <2>3. Dying' \subseteq Dying
    BY <1>1, <2>1 DEF Dying, TypeOK
  <2> QED BY <1>1, <2>1, <2>2, <2>3
          DEF ResetPending, AssignPending, HeldBeside, Usable, OnStack, TypeOK
<1> QED BY <1>3, <1>4, <1>5, <1>6, <1>7, <1>8, <1>9, <1>10, <1>11, <1>12, <1>13, <1>14, <1>15, <1>16
        DEF Next, Unwind

-----------------------------------------------------------------------------
(***************************************************************************)
(* The theorems.                                                           *)
(***************************************************************************)

LEMMA InitIInv == Init => IInv
<1> SUFFICES ASSUME Init PROVE IInv
  OBVIOUS
<1> USE HandlesAssumption
<1>1. TypeOK
  BY DEF Init, TypeOK
<1>2. CountsSound /\ \A c \in Cells : observers[c] = 0
  BY <1>1, Counting DEF CountsSound, Init
<1>3. Core
  BY <1>1, <1>2 DEF Core, Init, NodesCounted, CellsCounted, CellsUnshared, CellsOwned, ObserversBound
<1> QED BY <1>1, <1>3 DEF IInv, Init, MembersFreed, UnownedAnchored, Unowned, ResetPending, AssignPending

LEMMA StepIInv == IInv /\ [Next]_vars => IInv'
<1> SUFFICES ASSUME IInv, [Next]_vars PROVE IInv'
  OBVIOUS
<1>1. CASE Next
  BY <1>1, CoreStep, MembersStep, AnchorStep, PendingStep DEF IInv
<1>2. CASE UNCHANGED vars
  <2>1. /\ UNCHANGED <<ostate, refs, ocell, count, expired, ptr, wptr, wcell>>
        /\ UNCHANGED <<resetting, incoming, fault>>
    BY <1>2 DEF vars
  <2>2. UNCHANGED <<owners, observers, Dying>>
    BY <2>1 DEF owners, observers, Dying
  <2>3. TypeOK'
    BY <2>1 DEF IInv, Core, TypeOK
  <2>4. NodesCounted' /\ CellsCounted' /\ CellsUnshared' /\ CellsOwned' /\ ObserversBound'
    BY <2>1, <2>2 DEF IInv, Core, NodesCounted, CellsCounted, CellsUnshared,
                      CellsOwned, ObserversBound
  <2>5. MembersFreed' /\ UnownedAnchored' /\ AssignPending'
    BY <2>1, <2>2 DEF IInv, MembersFreed, UnownedAnchored, Unowned, AssignPending
  <2>6. ResetPending'
    BY <2>1, <2>2 DEF IInv, ResetPending, HeldBeside, Usable, OnStack
  <2> QED BY <2>1, <2>3, <2>4, <2>5, <2>6 DEF IInv, Core
<1> QED BY <1>1, <1>2

LEMMA Invariance == Spec => []IInv
BY InitIInv, StepIInv, PTL DEF Spec

\* The handle layer is type correct.
THEOREM TypeCorrect == Spec => []TypeOK
<1>1. IInv => TypeOK
  BY DEF IInv, Core
<1> QED BY <1>1, Invariance, PTL

\* No handle operation touches memory that is not there (include/Reprise/
\* Utils.h, all of IntrusivePointerBase, ReprisePtr and RepriseWeakPtr).
THEOREM MemorySafety == Spec => []MemorySafe
<1>1. IInv => MemorySafe
  BY DEF IInv, Core, MemorySafe
<1> QED BY <1>1, Invariance, PTL

\* The reference count of a node (m_refCount) is the number of its owners,
\* and a node being destroyed has none.
THEOREM ReferencesCounted == Spec => []RefsExact
<1>1. ASSUME IInv PROVE RefsExact
  <2> SUFFICES ASSUME NEW o \in Objects
               PROVE  IF ostate[o] = "live" THEN refs[o] = Cardinality(Owners(o))
                                            ELSE Owners(o) = {}
    BY DEF RefsExact
  <2>1. Owners(o) = Fiber(ptr, Strong, o)
    BY DEF Owners, Fiber
  <2>2. owners[o] = Cardinality(Owners(o))
    BY <2>1 DEF owners
  <2>3. CASE ostate[o] = "live"
    BY <1>1, <2>2, <2>3 DEF IInv, Core, NodesCounted
  <2>4. CASE ostate[o] # "live"
    BY <1>1, <2>4, HandlesAssumption DEF IInv, Core, NodesCounted, Owners
  <2> QED BY <2>3, <2>4
<1> QED BY <1>1, Invariance, PTL

\* A cell counts the weak handles that share it and the owners of its node
\* (WeakCounter::m_count without the flag), and is freed with the last.
THEOREM CellsCountedExactly == Spec => []CellsExact
<1>1. ASSUME IInv PROVE CellsExact
  <2> SUFFICES ASSUME NEW c \in Cells
               PROVE  count[c] = Cardinality(Observers(c))
                        + Cardinality({s \in Strong : ptr[s] # Null /\ ocell[ptr[s]] = c})
    BY DEF CellsExact
  <2> DEFINE sharers == {s \in Strong : ptr[s] # Null /\ ocell[ptr[s]] = c}
  <2>1. observers[c] = Cardinality(Observers(c)) /\ observers[c] \in Nat
    BY <1>1, Counting DEF observers, Observers, Fiber, IInv, Core, CountsSound
  <2>2. \A s \in sharers : /\ ptr[s] \in Objects /\ ostate[ptr[s]] = "live"
                           /\ ocell[ptr[s]] # Null
    BY <1>1, HandlesAssumption DEF IInv, Core, TypeOK, NodesCounted
  <2>3. CASE count[c] = 0 \/ expired[c]
    <3>1. sharers = {}
      BY <1>1, <2>2, <2>3 DEF IInv, Core, CellsCounted
    <3>2. Cardinality(sharers) = 0
      BY <3>1, FS_EmptySet
    <3>3. count[c] = observers[c]
      BY <1>1, <2>3 DEF IInv, Core, CellsOwned
    <3> QED BY <2>1, <3>2, <3>3
  <2>4. CASE ~(count[c] = 0 \/ expired[c])
    <3>1. PICK o \in Objects : ostate[o] = "live" /\ ocell[o] = c
      BY <1>1, <2>4 DEF IInv, Core, CellsOwned
    <3>2. ocell[o] # Null /\ o # Null
      BY <3>1, HandlesAssumption
    <3>3. sharers = Fiber(ptr, Strong, o)
      BY <1>1, <2>2, <3>1, <3>2 DEF IInv, Core, CellsUnshared, Fiber
    <3>4. owners[o] = Cardinality(sharers) /\ owners[o] \in Nat
      BY <1>1, <3>3, Counting DEF owners, IInv, Core, CountsSound
    <3>5. count[c] = owners[o] + observers[c]
      BY <1>1, <3>1, <3>2 DEF IInv, Core, CellsCounted, NodesCounted
    <3> QED BY <2>1, <3>4, <3>5
  <2> QED BY <2>3, <2>4
<1> QED BY <1>1, Invariance, PTL

\* A weak handle that does not say it is expired refers to its node.
THEOREM WeakHandlesHonest == Spec => []WeakHonest
<1>1. IInv => WeakHonest
  BY DEF IInv, Core, ObserversBound, WeakHonest, IsExpired
<1> QED BY <1>1, Invariance, PTL

-----------------------------------------------------------------------------
(***************************************************************************)
(* The handle layer implements Ownership: every action does to the nodes,  *)
(* owners and observers what one step of the promise does, or nothing.     *)
(***************************************************************************)
alive == {o \in Objects : ostate[o] = "live"}
sees  == [w \in Weak |-> IF IsExpired(w) THEN Null ELSE wptr[w]]

\* A weak handle sees a node if it shares the cell with it, and no other.
LEMMA SeesFacts ==
  ASSUME IInv
  PROVE  /\ \A w \in Weak : sees[w] # Null =>
              /\ wcell[w] \in Cells /\ ~ expired[wcell[w]] /\ sees[w] = wptr[w]
              /\ sees[w] \in alive /\ ocell[sees[w]] = wcell[w]
         /\ \A w \in Weak, o \in alive : wcell[w] # Null /\ wcell[w] = ocell[o] => sees[w] = o
<1> USE HandlesAssumption DEF IInv, Core
<1>1. ASSUME NEW w \in Weak, sees[w] # Null
      PROVE  /\ wcell[w] \in Cells /\ ~ expired[wcell[w]] /\ sees[w] = wptr[w]
             /\ sees[w] \in alive /\ ocell[sees[w]] = wcell[w]
  <2>1. wcell[w] # Null /\ ~ expired[wcell[w]] /\ sees[w] = wptr[w]
    BY <1>1 DEF sees, IsExpired
  <2> QED
    BY <2>1 DEF ObserversBound, TypeOK, alive
<1>2. ASSUME NEW w \in Weak, NEW o \in alive, wcell[w] # Null, wcell[w] = ocell[o]
      PROVE  sees[w] = o
  <2>1. o \in Objects /\ ostate[o] = "live" /\ ~ expired[wcell[w]]
    BY <1>2 DEF CellsCounted, alive
  <2>2. wptr[w] \in Objects /\ ostate[wptr[w]] = "live" /\ ocell[wptr[w]] = wcell[w]
    BY <1>2, <2>1 DEF ObserversBound, TypeOK
  <2>3. wptr[w] = o
    BY <1>2, <2>1, <2>2 DEF CellsUnshared
  <2> QED
    BY <1>2, <2>1, <2>3 DEF sees, IsExpired
<1> QED
  BY <1>1, <1>2

\* Taking a reference changes nothing that a weak handle sees.
LEMMA AddRefSees ==
  ASSUME IInv, NEW o \in alive, AddRef(o), UNCHANGED <<wptr, wcell>>
  PROVE  sees' = sees /\ alive' = alive
<1>1. PICK c \in Cells : AddCount(count, o, c)
  BY DEF AddRef
<1>2. ASSUME NEW w \in Weak, wcell[w] # Null
      PROVE  expired'[wcell[w]] = expired[wcell[w]]
  <2>1. wcell[w] \in Cells /\ count[wcell[w]] # 0 /\ expired \in [Cells -> BOOLEAN]
    BY <1>2 DEF IInv, Core, TypeOK, ObserversBound
  <2>2. expired' = expired \/ (count[c] = 0 /\ expired' = [expired EXCEPT ![c] = FALSE])
    BY <1>1 DEF AddCount
  <2> QED
    BY <2>1, <2>2
<1>3. \A w \in Weak : IsExpired(w)' <=> IsExpired(w)
  BY <1>2 DEF IsExpired
<1> QED
  BY <1>3 DEF sees, alive, AddRef

LEMMA AcquireMaps ==
  ASSUME IInv, NEW s \in Strong, NEW o \in Objects, ostate[o] = "live", ptr[s] = Null,
         AddRef(o), ptr' = [ptr EXCEPT ![s] = o], UNCHANGED <<wptr, wcell>>
  PROVE  Promise!Next
<1>1. o \in alive
  BY DEF alive
<1>2. Promise!Acquire(s, o)
  BY <1>1, AddRefSees DEF Promise!Acquire, alive, sees
<1> QED
  BY <1>2 DEF Promise!Next

\* The last owner blinds those who share its cell.
LEMMA DisownMaps ==
  ASSUME IInv, NEW s \in Strong, ptr[s] # Null, RemoveRef(ptr[s]), ptr' = [ptr EXCEPT ![s] = Null],
         UNCHANGED <<wptr, wcell>>
  PROVE  Promise!Next
<1> DEFINE o == ptr[s]
           gone == {ptr[s]} \ {ptr[t] : t \in Strong \ {s}}
<1>1. /\ o \in Objects /\ ostate[o] = "live" /\ o # Null /\ refs[o] \in Nat
      /\ ptr \in [Strong -> Objects \cup {Null}]
      /\ refs[o] = Cardinality(Fiber(ptr, Strong, o))
  BY HandlesAssumption DEF IInv, Core, TypeOK, NodesCounted, owners
<1>2. refs[o] = 1 <=> gone = {o}
  <2> HIDE DEF o
  <2>1. ptr[s] = o /\ ptr'[s] # o /\ \A t \in Strong : t # s => ptr'[t] = ptr[t]
    BY <1>1 DEF o
  <2>2. owners'[o] = owners[o] - 1
    BY <1>1, <2>1, OwnersChange DEF IInv, Core
  <2>3. owners'[o] = Cardinality(Fiber(ptr', Strong, o)) /\ owners[o] = refs[o]
    BY <1>1 DEF owners
  <2>4. /\ (\A t \in Strong : ptr'[t] # o) => Cardinality(Fiber(ptr', Strong, o)) = 0
        /\ \A t \in Strong : ptr'[t] = o => Cardinality(Fiber(ptr', Strong, o)) # 0
    <3>1. /\ Cardinality(Fiber(ptr', Strong, o)) \in Nat
          /\ (\A t \in Strong : ptr'[t] # o) => Cardinality(Fiber(ptr', Strong, o)) = 0
          /\ \A t \in Strong : ptr'[t] = o => Cardinality(Fiber(ptr', Strong, o)) > 0
      BY HandlesAssumption, FiberCount
    <3>2. \A k \in Nat : k > 0 => k # 0
      OBVIOUS
    <3> QED
      BY <3>1, <3>2, Zenon
  <2>5. (\A t \in Strong : ptr'[t] # o) <=> \A t \in Strong \ {s} : ptr[t] # o
    BY <2>1
  <2>6. (\A t \in Strong \ {s} : ptr[t] # o) <=> gone = {o}
    BY <2>1
  <2> HIDE DEF gone
  <2>7. Cardinality(Fiber(ptr', Strong, o)) = 0 <=> gone = {o}
    BY <2>4, <2>5, <2>6, Zenon
  <2> QED
    BY <1>1, <2>2, <2>3, <2>7
<1>3. gone = {o} \/ gone = {}
  OBVIOUS
<1>4. alive' = alive \ gone
  <2>1. \A p \in Objects : ostate'[p] = IF p = o /\ refs[o] = 1 THEN "dying" ELSE ostate[p]
    BY <1>1, RemoveRefEffect DEF IInv, Core
  <2> QED
    BY <1>1, <1>2, <1>3, <2>1 DEF alive
<1>5. sees' = Promise!Blinded(sees, gone)
  <2>1. CASE refs[o] # 1
    <3>1. expired' = expired /\ gone = {}
      BY <1>2, <1>3, <2>1 DEF RemoveRef
    <3> QED
      BY <3>1 DEF Promise!Blinded, sees, IsExpired
  <2>2. CASE refs[o] = 1
    <3>1. gone = {o}
      BY <1>2, <2>2
    <3>2. ASSUME NEW w \in Weak, sees[w] = o
          PROVE  sees'[w] = Null
      <4>1. wcell[w] \in Cells /\ ocell[o] = wcell[w] /\ o \in alive
        BY <1>1, <3>2, SeesFacts
      <4>2. count[ocell[o]] = 1 + observers[ocell[o]] /\ observers[ocell[o]] > 0
        BY <1>1, <2>2, <4>1, Counting, HandlesAssumption DEF IInv, Core, CellsCounted, CountsSound
      <4>3. count[ocell[o]] # 1
        BY <4>1, <4>2, Counting DEF IInv, Core, CountsSound
      <4>4. ocell'[o] = ocell[o]
        BY <4>3 DEF RemoveRef, ReleaseRef
      <4>5. expired'[wcell[w]]
        BY <2>2, <4>1, <4>4, HandlesAssumption DEF RemoveRef, IInv, Core, TypeOK
      <4> QED
        BY <4>5 DEF sees, IsExpired
    <3>3. ASSUME NEW w \in Weak, sees[w] # o
          PROVE  sees'[w] = sees[w]
      <4>1. CASE wcell[w] = Null
        BY <4>1 DEF sees, IsExpired
      <4>2. CASE wcell[w] # Null
        <5>1. o \in alive
          BY <1>1 DEF alive
        <5>2. wcell[w] # ocell[o]
          BY <3>3, <4>2, <5>1, SeesFacts
        <5>3. ocell'[o] # Null => ocell'[o] = ocell[o]
          BY <1>1 DEF RemoveRef, ReleaseRef, IInv, Core, TypeOK
        <5>4. wcell[w] \in Cells /\ expired \in [Cells -> BOOLEAN]
          BY <4>2 DEF IInv, Core, TypeOK
        <5>5. \/ expired' = expired
              \/ ocell'[o] # Null /\ expired' = [expired EXCEPT ![ocell'[o]] = TRUE]
          BY DEF RemoveRef
        <5>6. expired'[wcell[w]] = expired[wcell[w]]
          <6> HIDE DEF o
          <6> QED BY <5>2, <5>3, <5>4, <5>5
        <5> QED
          BY <5>6 DEF sees, IsExpired
      <4> QED
        BY <4>1, <4>2
    <3>4. sees' = [w \in Weak |-> sees'[w]]
      BY DEF sees
    <3> QED
      BY <3>1, <3>2, <3>3, <3>4 DEF Promise!Blinded
  <2> QED
    BY <2>1, <2>2
<1>6. Promise!LetGo(s)
  BY <1>4, <1>5 DEF Promise!LetGo, alive, sees
<1> QED
  BY <1>6 DEF Promise!Next

\* A weak handle that is rebound disturbs no other one.
LEMMA TurnMaps ==
  ASSUME NEW w \in Weak, NEW o \in alive \cup {Null}, Null \notin alive,
         alive' = alive, ptr' = ptr, sees'[w] = o,
         \A v \in Weak \ {w} : sees'[v] = sees[v]
  PROVE  Promise!Next
<1>1. sees' = [v \in Weak |-> sees'[v]]
  BY DEF sees
<1>2. sees' = [sees EXCEPT ![w] = o]
  BY <1>1 DEF sees
<1>3. o \in Objects \cup {Null}
  BY DEF alive
<1>4. Promise!Turn(w, o)
  BY <1>2 DEF Promise!Turn, alive, sees
<1> QED
  BY <1>3, <1>4 DEF Promise!Next

LEMMA UnobserveMaps ==
  ASSUME IInv, NEW w \in Weak, Unobserve(w)
  PROVE  Promise!Next
<1> USE HandlesAssumption
<1>1. wcell \in [Weak -> Cells \cup {Null}] /\ wptr \in [Weak -> Objects \cup {Null}]
  BY DEF IInv, Core, TypeOK
<1>2. alive' = alive /\ ptr' = ptr /\ expired' = expired /\ Null \notin alive
  BY DEF Unobserve, alive
<1>3. wcell'[w] = Null /\ \A v \in Weak \ {w} : wcell'[v] = wcell[v] /\ wptr'[v] = wptr[v]
  BY <1>1 DEF Unobserve
<1>4. sees'[w] = Null /\ \A v \in Weak \ {w} : sees'[v] = sees[v]
  BY <1>2, <1>3 DEF sees, IsExpired
<1> QED
  BY <1>2, <1>4, TurnMaps

LEMMA AssignWeakMaps ==
  ASSUME IInv, NEW w \in Weak, NEW r \in Weak, AssignWeak(w, r)
  PROVE  Promise!Next
<1> USE HandlesAssumption
<1>1. wcell \in [Weak -> Cells \cup {Null}] /\ wptr \in [Weak -> Objects \cup {Null}]
  BY DEF IInv, Core, TypeOK
<1>2. alive' = alive /\ ptr' = ptr /\ expired' = expired /\ Null \notin alive
  BY DEF AssignWeak, alive, resetVars
<1>3. CASE r = w \/ IsExpired(r)
  <2>1. Unobserve(w)
    BY <1>3 DEF AssignWeak, Unobserve
  <2> QED
    BY <2>1, UnobserveMaps
<1>4. CASE r # w /\ ~ IsExpired(r)
  <2>1. /\ wcell' = [wcell EXCEPT ![w] = wcell[r]]
        /\ wptr'  = [wptr EXCEPT ![w] = wptr[r]]
    BY <1>4 DEF AssignWeak
  <2>2. wcell'[w] = wcell[r] /\ wptr'[w] = wptr[r]
    BY <1>1, <2>1
  <2>3. \A v \in Weak \ {w} : wcell'[v] = wcell[v] /\ wptr'[v] = wptr[v]
    BY <1>1, <2>1
  <2>4. sees[r] = wptr[r] /\ sees[r] # Null
    BY <1>4 DEF sees, IsExpired, IInv, Core, ObserversBound
  <2>5. sees[r] \in alive
    BY <2>4, SeesFacts
  <2>6. sees'[w] = sees[r]
    BY <1>2, <1>4, <2>2, <2>4 DEF sees, IsExpired
  <2>7. \A v \in Weak \ {w} : sees'[v] = sees[v]
    BY <1>2, <2>3 DEF sees, IsExpired
  <2> QED
    BY <1>2, <2>5, <2>6, <2>7, TurnMaps
<1> QED
  BY <1>3, <1>4

\* A fresh cell was nobody's: the count that w gives back frees a cell only
\* if no other weak handle shares it.
LEMMA ObserveMaps ==
  ASSUME IInv, NEW w \in Weak, NEW o \in Objects, Observe(w, o)
  PROVE  Promise!Next
<1> USE HandlesAssumption
<1>1. Core /\ TypeOK /\ ostate[o] = "live" /\ o \in alive
  BY DEF IInv, Core, Observe, alive
<1>2. alive' = alive /\ ptr' = ptr /\ Null \notin alive
  BY DEF Observe, alive, resetVars
<1>3. PICK c \in Cells : /\ AddCount(Decreased(count, wcell[w]), o, c)
                         /\ wcell' = [wcell EXCEPT ![w] = c]
  BY DEF Observe
<1>4. wcell'[w] = c /\ wptr'[w] = o
  BY <1>1, <1>3 DEF Observe, TypeOK
<1>5. \A v \in Weak \ {w} : wcell'[v] = wcell[v] /\ wptr'[v] = wptr[v]
  BY <1>1, <1>3 DEF Observe, TypeOK
<1>6. ~ expired'[c] /\ c # Null
  BY <1>1, <1>3 DEF AddCount, Core, CellsCounted, TypeOK
<1>7. sees'[w] = o
  BY <1>4, <1>6 DEF sees, IsExpired
<1>8. ASSUME NEW v \in Weak \ {w}, wcell[v] # Null
      PROVE  expired'[wcell[v]] = expired[wcell[v]]
  <2>1. wcell[v] \in Cells /\ expired \in [Cells -> BOOLEAN] /\ count \in [Cells -> Nat]
    BY <1>1, <1>8 DEF TypeOK
  <2>2. Decreased(count, wcell[w])[wcell[v]] # 0
    <3>1. CASE wcell[w] = Null \/ wcell[w] # wcell[v]
      <4>1. count[wcell[v]] # 0
        BY <1>1, <1>8, <2>1 DEF Core, ObserversBound
      <4> QED
        BY <2>1, <3>1, <4>1 DEF Decreased
    <3>2. CASE wcell[w] # Null /\ wcell[w] = wcell[v]
      <4>1. observers[wcell[w]] > 1
        BY <1>1, <3>2, TwoObservers
      <4>2. /\ observers \in [Cells -> Nat] /\ refs \in [Objects -> Nat]
            /\ count[wcell[w]] # 0
        BY <1>1, <3>2, Counting DEF CountsSound, TypeOK, Core, ObserversBound
      <4>3. \/ count[wcell[w]] = observers[wcell[w]]
            \/ \E p \in Objects : count[wcell[w]] = refs[p] + observers[wcell[w]]
        BY <1>1, <2>1, <3>2, <4>2 DEF Core, CellsOwned, CellsCounted
      <4>4. count[wcell[w]] > 1
        BY <2>1, <3>2, <4>1, <4>2, <4>3
      <4> QED
        BY <2>1, <3>2, <4>4 DEF Decreased
    <3> QED
      BY <3>1, <3>2
  <2>3. \/ expired' = expired
        \/ /\ Decreased(count, wcell[w])[c] = 0
           /\ expired' = [expired EXCEPT ![c] = FALSE]
    BY <1>3 DEF AddCount
  <2> QED
    BY <2>1, <2>2, <2>3
<1>9. \A v \in Weak \ {w} : sees'[v] = sees[v]
  BY <1>5, <1>8 DEF sees, IsExpired
<1> QED
  BY <1>1, <1>2, <1>7, <1>9, TurnMaps

\* s takes over what t owns while the temporary keeps what s owned.
LEMMA AssignMaps ==
  ASSUME IInv, NEW s \in Named, NEW t \in Named, Assign(s, t)
  PROVE  Promise!Next
<1> USE HandlesAssumption
<1>1. ptr[Temp] = Null /\ UNCHANGED <<wptr, wcell>>
  BY DEF Assign, Busy
<1>2. sees' = sees /\ alive' = alive
  <2>1. CASE ptr[t] = Null
    BY <1>1, <2>1 DEF Assign, sees, alive, IsExpired
  <2>2. CASE ptr[t] # Null
    <3>1. ptr[t] \in alive
      BY <2>2 DEF IInv, Core, NodesCounted, TypeOK, alive, Named
    <3>2. AddRef(ptr[t])
      BY <2>2 DEF Assign
    <3> QED
      BY <1>1, <3>1, <3>2, AddRefSees
  <2> QED
    BY <2>1, <2>2
<1>3. ptr' = [ptr EXCEPT ![s] = ptr[t], ![Temp] = ptr[s]]
  BY DEF Assign
<1>4. Promise!Exchange(s, t, Temp)
  BY <1>1, <1>2, <1>3 DEF Promise!Exchange, alive, sees
<1> QED
  BY <1>4 DEF Promise!Next, Named

\* The node is left to a raw pointer, and seen as before.
LEMMA ReleaseMaps ==
  ASSUME IInv, NEW s \in Strong, Release(s)
  PROVE  Promise!Next
<1>1. sees' = sees /\ alive' = alive
  BY DEF Release, sees, alive, IsExpired
<1>2. Promise!Surrender(s)
  BY <1>1 DEF Promise!Surrender, alive, sees, Release
<1> QED
  BY <1>2 DEF Promise!Next

\* Nodes come and go; the one that is deleted has no owner and no cell.
LEMMA NodesMap ==
  ASSUME IInv, NEW o \in Objects, New(o) \/ DeleteRaw(o) \/ Free(o)
  PROVE  Promise!Next \/ UNCHANGED Promise!vars
<1> USE HandlesAssumption
<1>1. TypeOK /\ ostate \in [Objects -> {"free", "live", "dying"}]
  BY DEF IInv, Core, TypeOK
<1>2. sees' = sees /\ ptr' = ptr
  BY DEF New, DeleteRaw, Free, handleVars, sees, IsExpired
<1>3. CASE New(o)
  <2>1. o \notin alive /\ alive' = alive \cup {o}
    BY <1>1, <1>3 DEF New, alive
  <2>2. Promise!Create(o)
    BY <1>2, <2>1 DEF Promise!Create, alive, sees
  <2> QED
    BY <2>2 DEF Promise!Next
<1>4. CASE DeleteRaw(o)
  <2>1. o \in alive /\ alive' = alive \ {o}
    BY <1>1, <1>4 DEF DeleteRaw, Unowned, alive
  <2>2. ASSUME NEW s \in Strong PROVE ptr[s] # o
    <3>1. refs[o] = 0 /\ refs[o] = owners[o]
      BY <1>4 DEF DeleteRaw, Unowned, IInv, Core, NodesCounted
    <3> QED
      BY <1>1, <3>1, Counting DEF CountsSound
  <2>3. ASSUME NEW w \in Weak PROVE sees[w] # o
    BY <1>4, SeesFacts DEF DeleteRaw
  <2>4. Promise!Discard(o)
    BY <1>2, <2>1, <2>2, <2>3 DEF Promise!Discard, alive, sees
  <2> QED
    BY <2>4 DEF Promise!Next
<1>5. CASE Free(o)
  <2>1. alive' = alive
    BY <1>1, <1>5 DEF Free, Dying, alive
  <2> QED
    BY <1>2, <2>1 DEF Promise!vars, alive, sees
<1> QED
  BY <1>3, <1>4, <1>5

LEMMA InitMaps == Init => Promise!Init
BY DEF Init, Promise!Init, IsExpired

LEMMA StepMaps == IInv /\ [Next]_vars => [Promise!Next]_(Promise!vars)
<1> SUFFICES ASSUME IInv, [Next]_vars
             PROVE  Promise!Next \/ UNCHANGED Promise!vars
  OBVIOUS
<1> USE HandlesAssumption
<1>1. TypeOK /\ NodesCounted /\ ObserversBound /\ ResetPending
  BY DEF IInv, Core
<1>2. ASSUME NEW o \in Objects, New(o) \/ DeleteRaw(o) \/ Free(o)
      PROVE  Promise!Next \/ UNCHANGED Promise!vars
  BY <1>2, NodesMap
<1>3. ASSUME NEW s \in Named, NEW o \in Objects, Own(s, o)
      PROVE  Promise!Next
  BY <1>3, AcquireMaps DEF Own, Named
<1>4. ASSUME NEW s \in Named, NEW o \in Objects, ResetBegin(s, o)
      PROVE  Promise!Next
  BY <1>4, DisownMaps DEF ResetBegin, Named
<1>5. ASSUME NEW s \in Strong, Disown(s)
      PROVE  Promise!Next
  BY <1>5, DisownMaps DEF Disown
<1>6. ASSUME NEW w \in Weak, NEW s \in Named, Lock(w, s)
      PROVE  Promise!Next
  <2>1. wptr[w] \in Objects /\ ostate[wptr[w]] = "live"
    BY <1>1, <1>6 DEF Lock, IsExpired, ObserversBound, TypeOK
  <2> QED
    BY <1>6, <2>1, AcquireMaps DEF Lock, Named
<1>7. CASE ResetEnd
  <2>1. /\ resetting \in Strong /\ incoming \in Objects /\ ptr[resetting] = Null
        /\ ostate[incoming] = "live"
    BY <1>1, <1>7 DEF ResetEnd, ResetPending, TypeOK
  <2>2. /\ AddRef(incoming) /\ ptr' = [ptr EXCEPT ![resetting] = incoming]
        /\ UNCHANGED <<wptr, wcell>>
    BY <1>7 DEF ResetEnd
  <2> QED
    BY <2>1, <2>2, AcquireMaps
<1>8. CASE UNCHANGED vars
  BY <1>8 DEF vars, Promise!vars, IsExpired
<1> QED
  BY <1>2, <1>3, <1>4, <1>5, <1>6, <1>7, <1>8, AssignMaps, ReleaseMaps, ObserveMaps,
     AssignWeakMaps, UnobserveMaps
     DEF Next, Unwind, Drop, AssignEnd, DestroyStrong, DestroyWeak, Forget, Named

\* The counters implement ownership (include/Reprise/Utils.h, all of
\* IntrusivePointerBase, ReprisePtr and RepriseWeakPtr): a node lives as long
\* as something owns it, and weak handles see it exactly as long as it lives.
THEOREM CountersImplementOwnership == Spec => ImplementsOwnership
BY Invariance, InitMaps, StepMaps, PTL DEF Spec, ImplementsOwnership, Promise!Spec
=============================================================================
