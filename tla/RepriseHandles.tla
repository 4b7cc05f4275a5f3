---------------------------- MODULE RepriseHandles ----------------------------
(***************************************************************************)
(* The handle layer of Reprise, the internal representation of OpenOPS     *)
(* (include/Reprise/Utils.h).                                              *)
(*                                                                         *)
(* Every IR node derives from IntrusivePointerBase: it carries its own     *)
(* reference count and a pointer to a heap cell shared with the weak       *)
(* handles that observe it.  A ReprisePtr owns a node, a RepriseWeakPtr    *)
(* observes it.  The cell counts strong AND weak handles and has one flag  *)
(* bit, set when the node is deleted.  Handles live on the stack or are    *)
(* members of a node; deleting a node destroys its members, which may      *)
(* delete further nodes before the `delete` expression returns.            *)
(*                                                                         *)
(* Addresses of nodes and of cells are reused after they are freed.  An    *)
(* access to freed memory, or to a counter that is not there, raises       *)
(* `fault'.                                                                *)
(***************************************************************************)
EXTENDS Integers, FiniteSets

CONSTANTS
  Objects,   \* addresses a node may have
  Cells,     \* addresses a counter cell may have
  Strong,    \* ReprisePtr variables, members and RepriseList slots
  Weak,      \* RepriseWeakPtr variables and members
  Temp,      \* the temporary of ReprisePtr::operator=, on the stack
  Home,      \* the node a handle is a member of, Null for the stack
  Null       \* the null pointer

ASSUME HandlesAssumption ==
  /\ IsFiniteSet(Strong) /\ IsFiniteSet(Weak)
  /\ Strong \cap Weak = {}
  /\ Null \notin Objects \cup Cells \cup Strong
  /\ Home \in [Strong \cup Weak -> Objects \cup {Null}]
  /\ Temp \in Strong /\ Home[Temp] = Null

VARIABLES
  ostate,    \* a node's memory: "free", "live", or "dying" (in its destructor)
  refs,      \* m_refCount of a node
  ocell,     \* m_weakCounter of a node: its cell, or Null
  count,     \* the masked value of a cell; a cell that counts 0 is freed
  expired,   \* the EXPIRE_FLAG bit of a cell
  ptr,       \* m_data of a strong handle
  wptr,      \* m_data of a weak handle
  wcell,     \* m_counter of a weak handle
  resetting, \* the strong handle inside reset(raw), or Null
  incoming,  \* the raw pointer that reset() will adopt
  fault      \* has any step touched memory that is not there?

handleVars == <<ptr, wptr, wcell>>
resetVars  == <<resetting, incoming>>
vars == <<ostate, refs, ocell, count, expired, ptr, wptr, wcell,
          resetting, incoming, fault>>

TypeOK ==
  /\ ostate    \in [Objects -> {"free", "live", "dying"}]
  /\ refs      \in [Objects -> Nat]
  /\ ocell     \in [Objects -> Cells \cup {Null}]
  /\ count     \in [Cells -> Nat]
  /\ expired   \in [Cells -> BOOLEAN]
  /\ ptr       \in [Strong -> Objects \cup {Null}]
  /\ wptr      \in [Weak -> Objects \cup {Null}]
  /\ wcell     \in [Weak -> Cells \cup {Null}]
  /\ resetting \in Strong \cup {Null}
  /\ incoming  \in Objects \cup {Null}
  /\ fault     \in BOOLEAN

Init ==
  /\ ostate    = [o \in Objects |-> "free"]
  /\ refs      = [o \in Objects |-> 0]
  /\ ocell     = [o \in Objects |-> Null]
  /\ count     = [c \in Cells |-> 0]
  /\ expired   = [c \in Cells |-> FALSE]
  /\ ptr       = [s \in Strong |-> Null]
  /\ wptr      = [w \in Weak |-> Null]
  /\ wcell     = [w \in Weak |-> Null]
  /\ resetting = Null
  /\ incoming  = Null
  /\ fault     = FALSE

-----------------------------------------------------------------------------
(* Vocabulary.                                                             *)

OnStack(h) == Home[h] = Null

Usable(h) == ~OnStack(h) => ostate[Home[h]] = "live"

Named == Strong \ {Temp}

Dying == {o \in Objects : ostate[o] = "dying"}

\* An assignment, a reset() or a destructor is running.
Busy == ptr[Temp] # Null \/ resetting # Null \/ Dying # {}

\* RepriseWeakPtr::expired(): a handle without a cell is expired as well.
IsExpired(w) == wcell[w] = Null \/ expired[wcell[w]]

Owners(o)    == {s \in Strong : ptr[s] = o}
Observers(c) == {w \in Weak : wcell[w] = c}

-----------------------------------------------------------------------------
(* What the callers owe.  A live node that no ReprisePtr owns is in the    *)
(* hands of a raw pointer.  Its counter cell then belongs to its weak      *)
(* handles alone: the last of them would free it under the node.  A caller *)
(* that keeps such a node keeps a weak handle on the stack if there is any.*)

Unowned(o) == ostate[o] = "live" /\ refs[o] = 0

\* A weak handle on the stack, other than w, shares node o's cell.
AnchoredBeside(o, w) == \E v \in Weak \ {w} : OnStack(v) /\ wcell[v] = ocell[o]

\* A strong handle on the stack, other than s, owns node o.
HeldBeside(o, s) == \E t \in Strong \ {s} : OnStack(t) /\ ptr[t] = o

\* Handle w may let go of what it observes.
MayForget(w) ==
  \A o \in Objects :
    Unowned(o) /\ wcell[w] # Null /\ ocell[o] = wcell[w] => AnchoredBeside(o, w)

\* Handle w may start to observe the live node o.
MayObserve(w, o) ==
  OnStack(w) \/ refs[o] > 0 \/ (ocell[o] # Null /\ AnchoredBeside(o, w))

\* Handle s may leave its node to a raw pointer.
MayRelease(s) ==
  refs[ptr[s]] = 1 /\ (\E w \in Weak : wcell[w] = ocell[ptr[s]])
    => \E v \in Weak : OnStack(v) /\ wcell[v] = ocell[ptr[s]]

\* Handle s itself and the argument o of s.reset(o) outlive what s owned.
MayReset(s, o) ==
  \/ refs[ptr[s]] > 1
  \/ /\ OnStack(s) \/ HeldBeside(Home[s], s)
     /\ Unowned(o) \/ HeldBeside(o, s)

-----------------------------------------------------------------------------
(* WeakCounter.  A node and its weak handles each keep a copy of the       *)
(* pointer to the cell; deleting the cell clears only the copy it was      *)
(* reached through.                                                        *)

\* Mutant: the count is never given back.
CountKept(cnt, c) == cnt

\* decreaseCount(): a cell that counted 1 is deleted.
Decreased(cnt, c) == IF c = Null THEN cnt ELSE [cnt EXCEPT ![c] = @ - 1]

DecreaseFault(c) == c # Null /\ count[c] = 0

\* addCount() through node o, after cnt: a null pointer allocates cell c.
AddCount(cnt, o, c) ==
  /\ IF ocell[o] = Null THEN cnt[c] = 0 ELSE c = ocell[o]
  /\ count'   = [cnt EXCEPT ![c] = @ + 1]
  /\ ocell'   = [ocell EXCEPT ![o] = c]
  /\ expired' = IF ocell[o] = Null THEN [expired EXCEPT ![c] = FALSE] ELSE expired

\* addCount() reads a cell that is gone, or asserts !expired().
AddCountFault(cnt, o) ==
  \/ ostate[o] # "live"
  \/ ocell[o] # Null /\ (cnt[ocell[o]] = 0 \/ expired[ocell[o]])

\* Mutant: a new owner is counted in the cell only.
AddRefToCell(o) ==
  /\ \E c \in Cells : AddCount(count, o, c)
  /\ fault' = (fault \/ AddCountFault(count, o))
  /\ UNCHANGED <<refs, ostate>>

\* private_addRef()
AddRef(o) ==
  /\ \E c \in Cells : AddCount(count, o, c)
  /\ refs'  = [refs EXCEPT ![o] = @ + 1]
  /\ fault' = (fault \/ AddCountFault(count, o))
  /\ UNCHANGED ostate

\* Mutant: the node keeps its pointer to a cell that is deleted.
ReleaseKeepsCell(o) ==
  /\ count' = Decreased(count, ocell[o])
  /\ refs'  = [refs EXCEPT ![o] = @ - 1]
  /\ fault' = (fault \/ ostate[o] # "live" \/ DecreaseFault(ocell[o]))
  /\ UNCHANGED ocell

\* private_release(): the cell pointer of the node is cleared with the cell.
ReleaseRef(o) ==
  /\ count' = Decreased(count, ocell[o])
  /\ ocell' = IF ocell[o] # Null /\ count[ocell[o]] = 1
              THEN [ocell EXCEPT ![o] = Null] ELSE ocell
  /\ refs'  = [refs EXCEPT ![o] = @ - 1]
  /\ fault' = (fault \/ ostate[o] # "live" \/ DecreaseFault(ocell[o]))

\* Mutant: setExpired() is forgotten.
RemoveSilently(o) ==
  /\ ReleaseRef(o)
  /\ ostate' = IF refs[o] = 1 THEN [ostate EXCEPT ![o] = "dying"] ELSE ostate
  /\ UNCHANGED expired

\* Mutant: the node is deleted one owner too early.
RemoveEarly(o) ==
  /\ ReleaseRef(o)
  /\ ostate'  = IF refs[o] = 2 THEN [ostate EXCEPT ![o] = "dying"] ELSE ostate
  /\ expired' = IF refs[o] = 2 /\ ocell'[o] # Null
                THEN [expired EXCEPT ![ocell'[o]] = TRUE] ELSE expired

\* private_removeRef() and the `delete' every caller makes when it returns
\* true.  setExpired() runs after decreaseCount(), so it does nothing when
\* no weak handle is left.
RemoveRef(o) ==
  /\ ReleaseRef(o)
  /\ ostate'  = IF refs[o] = 1 THEN [ostate EXCEPT ![o] = "dying"] ELSE ostate
  /\ expired' = IF refs[o] = 1 /\ ocell'[o] # Null
                THEN [expired EXCEPT ![ocell'[o]] = TRUE] ELSE expired

-----------------------------------------------------------------------------
(* Nodes.                                                                  *)

\* `new Node': the intrusive base starts with no reference and no cell.
New(o) ==
  /\ ~Busy
  /\ ostate[o] = "free"
  /\ ostate' = [ostate EXCEPT ![o] = "live"]
  /\ refs'   = [refs EXCEPT ![o] = 0]
  /\ ocell'  = [ocell EXCEPT ![o] = Null]
  /\ UNCHANGED <<count, expired, handleVars, resetVars, fault>>

\* repriseDelete() of a node that nothing owns or observes.
DeleteRaw(o) ==
  /\ ~Busy
  /\ Unowned(o) /\ ocell[o] = Null
  /\ ostate' = [ostate EXCEPT ![o] = "dying"]
  /\ UNCHANGED <<refs, ocell, count, expired, handleVars, resetVars, fault>>

-----------------------------------------------------------------------------
(* ReprisePtr, and the slots of a RepriseList.                             *)

\* A handle is made from a raw pointer or from another handle;
\* RepriseList::add and insert.
Own(s, o) ==
  /\ ~Busy /\ Usable(s)
  /\ ptr[s] = Null /\ ostate[o] = "live"
  /\ AddRef(o)
  /\ ptr' = [ptr EXCEPT ![s] = o]
  /\ UNCHANGED <<wptr, wcell, resetVars>>

\* s = w.lock(); an expired w yields an empty handle.
Lock(w, s) ==
  /\ ~Busy /\ Usable(w) /\ Usable(s)
  /\ ptr[s] = Null /\ ~IsExpired(w)
  /\ AddRef(wptr[w])
  /\ ptr' = [ptr EXCEPT ![s] = wptr[w]]
  /\ UNCHANGED <<wptr, wcell, resetVars>>

Disown(s) ==
  /\ ptr[s] # Null
  /\ RemoveRef(ptr[s])
  /\ ptr' = [ptr EXCEPT ![s] = Null]
  /\ UNCHANGED <<wptr, wcell, resetVars>>

\* ~ReprisePtr(), reset(0), a slot of RepriseList::clear().
Drop(s) == ~Busy /\ Usable(s) /\ Disown(s)

\* release(): the node is left to a raw pointer.
Release(s) ==
  /\ ~Busy /\ Usable(s)
  /\ ptr[s] # Null /\ MayRelease(s)
  /\ ReleaseRef(ptr[s])
  /\ ptr' = [ptr EXCEPT ![s] = Null]
  /\ UNCHANGED <<ostate, expired, wptr, wcell, resetVars>>

\* Mutant: the pointer is copied without a reference.
AssignPointer(s, t) ==
  /\ ~Busy /\ Usable(s) /\ Usable(t)
  /\ ptr' = [ptr EXCEPT ![s] = ptr[t], ![Temp] = ptr[s]]
  /\ UNCHANGED <<ostate, refs, ocell, count, expired, fault, wptr, wcell, resetVars>>

\* s = t: copy t into a temporary and swap it with s ...
Assign(s, t) ==
  /\ ~Busy /\ Usable(s) /\ Usable(t)
  /\ IF ptr[t] = Null
     THEN UNCHANGED <<ostate, refs, ocell, count, expired, fault>>
     ELSE AddRef(ptr[t])
  /\ ptr' = [ptr EXCEPT ![s] = ptr[t], ![Temp] = ptr[s]]
  /\ UNCHANGED <<wptr, wcell, resetVars>>

\* ... then the temporary's destructor lets go of what s owned.
AssignEnd == Disown(Temp)

\* s.reset(o) and RepriseList::replace: what s owned is let go first ...
ResetBegin(s, o) ==
  /\ ~Busy /\ Usable(s)
  /\ ptr[s] # Null /\ ostate[o] = "live" /\ MayReset(s, o)
  /\ RemoveRef(ptr[s])
  /\ ptr'       = [ptr EXCEPT ![s] = Null]
  /\ resetting' = s
  /\ incoming'  = o
  /\ UNCHANGED <<wptr, wcell>>

\* ... and the argument is adopted when its destructors have returned.
ResetEnd ==
  /\ resetting # Null /\ Dying = {}
  /\ AddRef(incoming)
  /\ ptr'       = [ptr EXCEPT ![resetting] = incoming]
  /\ resetting' = Null
  /\ incoming'  = Null
  /\ UNCHANGED <<wptr, wcell>>

-----------------------------------------------------------------------------
(* RepriseWeakPtr.                                                         *)

\* w is made from, reset to or assigned a raw pointer or a strong handle:
\* it gives its count back before it takes one of node o's.
Observe(w, o) ==
  /\ ~Busy /\ Usable(w)
  /\ ostate[o] = "live" /\ MayForget(w) /\ MayObserve(w, o)
  /\ \E c \in Cells :
       /\ AddCount(Decreased(count, wcell[w]), o, c)
       /\ wcell' = [wcell EXCEPT ![w] = c]
  /\ wptr'  = [wptr EXCEPT ![w] = o]
  /\ fault' = (fault \/ DecreaseFault(wcell[w])
                     \/ AddCountFault(Decreased(count, wcell[w]), o))
  /\ UNCHANGED <<ostate, refs, ptr, resetVars>>

\* w = r, or a copy of r: an expired r leaves w empty, and so does w itself,
\* which operator= has emptied before it looks at its argument.
AssignWeak(w, r) ==
  /\ ~Busy /\ Usable(w) /\ Usable(r) /\ MayForget(w)
  /\ LET kept == r # w /\ ~IsExpired(r)
         left == Decreased(count, wcell[w])
     IN /\ count' = IF kept THEN [left EXCEPT ![wcell[r]] = @ + 1] ELSE left
        /\ wcell' = [wcell EXCEPT ![w] = IF kept THEN wcell[r] ELSE Null]
        /\ wptr'  = [wptr EXCEPT ![w] = IF kept THEN wptr[r] ELSE Null]
        /\ fault' = (fault \/ DecreaseFault(wcell[w])
                           \/ (kept /\ left[wcell[r]] = 0))
  /\ UNCHANGED <<ostate, refs, ocell, expired, ptr, resetVars>>

\* Mutant: the destructor of a weak handle does nothing.
StillObserving(w) == UNCHANGED vars

Unobserve(w) ==
  /\ count' = Decreased(count, wcell[w])
  /\ wcell' = [wcell EXCEPT ![w] = Null]
  /\ wptr'  = [wptr EXCEPT ![w] = Null]
  /\ fault' = (fault \/ DecreaseFault(wcell[w]))
  /\ UNCHANGED <<ostate, refs, ocell, expired, ptr, resetVars>>

\* ~RepriseWeakPtr(), reset(), reset(0).
Forget(w) ==
  /\ ~Busy /\ Usable(w)
  /\ wcell[w] # Null /\ MayForget(w)
  /\ Unobserve(w)

-----------------------------------------------------------------------------
(* Destructors: the members of a dying node let go, in any order, then its *)
(* memory is returned.                                                     *)

DestroyStrong(s) == Home[s] \in Dying /\ Disown(s)

DestroyWeak(w) == Home[w] \in Dying /\ wcell[w] # Null /\ Unobserve(w)

\* A reset() whose handle is freed under it will write into freed memory.
Free(o) ==
  /\ o \in Dying
  /\ \A s \in Strong : Home[s] = o => ptr[s] = Null
  /\ \A w \in Weak : Home[w] = o => wcell[w] = Null
  /\ ostate' = [ostate EXCEPT ![o] = "free"]
  /\ fault'  = (fault \/ (resetting # Null /\ Home[resetting] = o))
  /\ UNCHANGED <<refs, ocell, count, expired, handleVars, resetVars>>

Unwind ==
  \/ AssignEnd
  \/ ResetEnd
  \/ \E s \in Strong : DestroyStrong(s)
  \/ \E w \in Weak : DestroyWeak(w)
  \/ \E o \in Objects : Free(o)

Next ==
  \/ \E o \in Objects : New(o) \/ DeleteRaw(o)
  \/ \E s \in Named, o \in Objects : Own(s, o) \/ ResetBegin(s, o)
  \/ \E s \in Named : Drop(s) \/ Release(s)
  \/ \E s, t \in Named : Assign(s, t)
  \/ \E w \in Weak, s \in Named : Lock(w, s)
  \/ \E w \in Weak, o \in Objects : Observe(w, o)
  \/ \E w, r \in Weak : AssignWeak(w, r)
  \/ \E w \in Weak : Forget(w)
  \/ Unwind

\* A statement that has begun is run to its end.
Spec == Init /\ [][Next]_vars /\ WF_vars(Unwind)

-----------------------------------------------------------------------------
(* Properties.                                                             *)

\* No operation reads or writes a freed node, a freed cell or an expired
\* counter: the OPS_ASSERT of WeakCounter::addCount holds, and neither
\* reset(raw) nor a cascade of destructors leaves a handle or a raw argument
\* dangling.
MemorySafe == ~fault

\* m_refCount of a live node is the number of handles that own it, and a
\* node in or past its destructor is owned by none.
RefsExact ==
  \A o \in Objects :
    IF ostate[o] = "live" THEN refs[o] = Cardinality(Owners(o))
                          ELSE Owners(o) = {}

\* The cell of a live node counts its strong and its weak handles; once the
\* node is gone the cell counts the weak handles alone.  A cell nothing
\* refers to has been deleted.
CellsExact ==
  \A c \in Cells :
    count[c] = Cardinality(Observers(c))
               + Cardinality({s \in Strong : ptr[s] # Null /\ ocell[ptr[s]] = c})

\* A weak handle that does not say it is expired refers to a live node, and
\* to the node it was bound to, whatever address has been reused since: the
\* two share a cell.
WeakHonest ==
  \A w \in Weak :
    ~IsExpired(w) => /\ wptr[w] # Null
                     /\ ostate[wptr[w]] = "live"
                     /\ ocell[wptr[w]] = wcell[w]

\* The counters implement ownership: a node lives as long as something owns
\* it, and weak handles see it exactly as long as it lives.
Promise == INSTANCE Ownership WITH
  alive <- {o \in Objects : ostate[o] = "live"},
  owns  <- ptr,
  sees  <- [w \in Weak |-> IF IsExpired(w) THEN Null ELSE wptr[w]]

ImplementsOwnership == Promise!Spec

\* A chain of destructors ends, whatever cycles the handles form, and the
\* interrupted statement with it.
StatementsEnd == Busy ~> ~Busy
=============================================================================
