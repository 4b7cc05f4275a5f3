---------------------------- MODULE LoopReshaping ----------------------------
(***************************************************************************)
(* The loop transformations that replace one counted loop by other loops   *)
(* over the same iterations: strip mining, the eight forms of loop         *)
(* nesting, full unrolling, canonisation and unrolling of                  *)
(* source/Transforms/Loops.                                                *)
(*                                                                         *)
(* All of them generate an outer loop around an inner loop around a copy   *)
(* of the body in which the counter is replaced by an expression, then     *)
(* perhaps a loop over the iterations that are left, then perhaps an       *)
(* assignment of the final value to the counter.  They differ in the       *)
(* limits and the expressions.  The module executes the generated code, in *)
(* the arithmetic of the type of the counter: its numbers wrap around at   *)
(* MaxInt, and the division truncates towards zero.                        *)
(***************************************************************************)
EXTENDS Integers, Sequences

CONSTANTS
  MaxInt,      \* the greatest number of the type of the counter
  MaxFactor,   \* bound on the size h of a strip, or the number of strips
  Unset        \* the value of a counter nobody assigned

ASSUME MaxIntAssumption == MaxInt \in Nat \ {0}
ASSUME FactorAssumption == MaxFactor \in 1 .. MaxInt

MinInt == - MaxInt - 1
Ints == MinInt .. MaxInt

(* The type has MaxInt - MinInt + 1 numbers and wraps around at its ends. *)
Wrap(x) == ((x - MinInt) % (MaxInt - MinInt + 1)) + MinInt
Plus(x, y) == Wrap(x + y)
Minus(x, y) == Wrap(x - y)
Times(x, y) == Wrap(x * y)
Over(x, y) == Wrap(IF x >= 0 THEN x \div y ELSE - ((- x) \div y))
Rest(x, y) == Minus(x, Times(Over(x, y), y))
Lesser(x, y) == IF x < y THEN x ELSE y

-----------------------------------------------------------------------------
(* The transformations.  outerBound: h bounds the outer loop, not the      *)
(* inner one; tail: a last loop runs what is left over; native: the inner  *)
(* loop counts with the counter of the original loop.                      *)
Transformation(name, outerBound, tail, native) ==
  [name |-> name, outerBound |-> outerBound, tail |-> tail, native |-> native]

Nestings == {Transformation("nesting", b, t, c) : b, t, c \in BOOLEAN}
StripMining == Transformation("strip mining", FALSE, TRUE, FALSE)
Canonisation == Transformation("canonisation", FALSE, FALSE, FALSE)
FullUnrolling == Transformation("full unrolling", FALSE, FALSE, FALSE)
Unrolling == Transformation("unrolling", FALSE, TRUE, FALSE)

(* A loop for (i = first; i < n; i += step) and what is done to it.        *)
(* Everything but canonisation asks for first = 0 and step = 1.            *)
Loops(transformations) ==
  {l \in [by : transformations, first : Ints, n : Ints, step : 1 .. MaxFactor,
          h : 1 .. MaxFactor] :
     IF l.by = Canonisation THEN l.h = 1 ELSE l.first = 0 /\ l.step = 1}

(* The arithmetic of the generated code stays in the type of the counter.  *)
(* The forms with a tail loop never leave it when h bounds the inner loop; *)
(* the others need room for one more strip, or for n times the number of   *)
(* strips.                                                                 *)
NestingFits(l) ==
  /\ ~ l.by.outerBound /\ ~ l.by.tail => l.n + l.h - 1 <= MaxInt
  /\ l.by.outerBound /\ l.by.native => (l.h + (IF l.by.tail THEN 0 ELSE 1)) * l.n \in Ints
  /\ l.by.outerBound /\ ~ l.by.native /\ ~ l.by.tail => l.h * l.n \in Ints
CanonisationFits(l) ==
  /\ l.n - l.first \in Ints
  /\ l.n - l.first + l.step - 1 <= MaxInt
Fits(l) ==
  /\ l.by.name = "nesting" => NestingFits(l)
  /\ l.by = Canonisation => CanonisationFits(l)

VARIABLES
  loop,      \* the original loop and the transformation
  place,     \* the loop of the generated code that is running
  i1, i2,    \* the counters of the outer and of the inner or tail loop
  counter,   \* the counter of the original loop
  executed   \* the values the copies of the body have seen for it

vars == <<loop, place, i1, i2, counter, executed>>

TypeOK ==
  /\ loop.first \in Ints /\ loop.n \in Ints /\ loop.step \in Nat /\ loop.h \in Nat
  /\ place \in {"outer", "inner", "tail", "after", "done"}
  /\ i1 \in Ints /\ i2 \in Ints
  /\ counter \in Ints \cup {Unset}
  /\ \A k \in DOMAIN executed : executed[k] \in Ints \cup {Unset}

-----------------------------------------------------------------------------
(* The expressions of the generated code. *)
Strips(l) == Over(l.n, l.h)
StripsRoundedDown(l) == Over(l.n, l.h)
StripsRoundedUp(l) == Over(Minus(Plus(l.n, l.h), 1), l.h)

CanonicalLimit(l) ==
  IF l.step = 1 THEN Minus(l.n, l.first)
  ELSE Over(Minus(Plus(Minus(l.n, l.first), l.step), 1), l.step)

OuterLimit(l) ==
  IF l.by = Canonisation THEN CanonicalLimit(l)
  ELSE IF l.by \in {FullUnrolling, Unrolling} THEN l.n
  ELSE IF l.by.outerBound THEN IF l.by.native /\ ~ l.by.tail THEN Plus(l.h, 1) ELSE l.h
  ELSE IF l.by.tail THEN Strips(l) ELSE StripsRoundedUp(l)

OuterStep(l) == IF l.by = Unrolling THEN l.h ELSE 1

(* The first iteration of strip k, where h is the number of strips. *)
StripStart(l, k) == Over(Times(k, l.n), l.h)

InnerStart(l, k) ==
  IF ~ l.by.native THEN 0 ELSE IF l.by.outerBound THEN StripStart(l, k) ELSE Times(k, l.h)

NativeLimit(l, k) ==
  IF l.by.outerBound
  THEN IF l.by.tail THEN StripStart(l, k + 1) ELSE Lesser(StripStart(l, k + 1), l.n)
  ELSE IF l.by.tail THEN Times(k + 1, l.h) ELSE Lesser(Times(k + 1, l.h), l.n)

CountedLimit(l, k) ==
  IF l.by.outerBound
  THEN IF l.by.tail THEN Over(l.n, l.h) ELSE Minus(StripStart(l, k + 1), StripStart(l, k))
  ELSE IF l.by.tail THEN l.h ELSE Lesser(l.h, Minus(l.n, Times(k, l.h)))

InnerLimit(l, k) ==
  IF l.by \in {FullUnrolling, Canonisation} THEN 1
  ELSE IF l.by.native THEN NativeLimit(l, k) ELSE CountedLimit(l, k)

(* What replaces the counter in the copy of the body in the inner loop.    *)
(* Unrolling adds the number of the copy to the counter itself, which the  *)
(* generated loop does not assign.                                         *)
StripOfCounted(l, k) ==
  IF ~ l.by.outerBound THEN Times(k, l.h)
  ELSE IF l.by.tail THEN Times(k, Over(l.n, l.h)) ELSE StripStart(l, k)

CounterOf(l, k, j) ==
  IF l.by = Canonisation THEN Plus(l.first, IF l.step = 1 THEN k ELSE Times(k, l.step))
  ELSE IF l.by = FullUnrolling THEN k
  ELSE IF l.by = Unrolling THEN IF counter = Unset THEN Unset ELSE Plus(counter, j)
  ELSE IF l.by.native THEN j ELSE Plus(StripOfCounted(l, k), j)

HasTail(l) == l.by.tail /\ ~ (l.by.native /\ l.by.outerBound)
TailStart(l) == IF l.by.native THEN Times(l.h, Over(l.n, l.h)) ELSE 0
TailLimit(l) == IF l.by.native THEN l.n ELSE Rest(l.n, l.h)
TailCounterOf(l, j) == IF l.by.native THEN j ELSE Plus(Times(l.h, Over(l.n, l.h)), j)

(* The assignment after the loops. *)
LeftAlone(l) == counter
PastTheBound(l) == l.n + 1
FinalCounter(l) ==
  IF l.by.native \/ l.by = Canonisation THEN counter
  ELSE IF l.by = FullUnrolling THEN IF l.n >= 0 THEN l.n ELSE 0
  ELSE l.n

-----------------------------------------------------------------------------
Start(l) ==
  /\ loop = l
  /\ place = "outer"
  /\ i1 = 0
  /\ i2 = 0
  /\ counter = Unset
  /\ executed = <<>>

Init == \E l \in Loops(Nestings \cup {StripMining, Canonisation, FullUnrolling}) :
          Fits(l) /\ Start(l)
UnrollingInit == \E l \in Loops({Unrolling}) : Start(l)

(* A native inner or tail loop assigns the counter of the original loop.   *)
SetInner(j) ==
  /\ i2' = j
  /\ counter' = IF loop.by.native THEN j ELSE counter

EnterInner ==
  /\ place = "outer"
  /\ i1 < OuterLimit(loop)
  /\ place' = "inner"
  /\ SetInner(InnerStart(loop, i1))
  /\ UNCHANGED <<loop, i1, executed>>

LeaveOuter ==
  /\ place = "outer"
  /\ i1 >= OuterLimit(loop)
  /\ IF HasTail(loop)
     THEN place' = "tail" /\ SetInner(TailStart(loop))
     ELSE place' = "after" /\ UNCHANGED <<i2, counter>>
  /\ UNCHANGED <<loop, i1, executed>>

RunBody ==
  /\ place = "inner"
  /\ i2 < InnerLimit(loop, i1)
  /\ executed' = Append(executed, CounterOf(loop, i1, i2))
  /\ SetInner(Plus(i2, 1))
  /\ UNCHANGED <<loop, place, i1>>

LeaveInner ==
  /\ place = "inner"
  /\ i2 >= InnerLimit(loop, i1)
  /\ place' = "outer"
  /\ i1' = Plus(i1, OuterStep(loop))
  /\ UNCHANGED <<loop, i2, counter, executed>>

RunTail ==
  /\ place = "tail"
  /\ i2 < TailLimit(loop)
  /\ executed' = Append(executed, TailCounterOf(loop, i2))
  /\ SetInner(Plus(i2, 1))
  /\ UNCHANGED <<loop, place, i1>>

LeaveTail ==
  /\ place = "tail"
  /\ i2 >= TailLimit(loop)
  /\ place' = "after"
  /\ UNCHANGED <<loop, i1, i2, counter, executed>>

AssignCounter ==
  /\ place = "after"
  /\ place' = "done"
  /\ counter' = FinalCounter(loop)
  /\ UNCHANGED <<loop, i1, i2, executed>>

Next ==
  \/ EnterInner \/ LeaveOuter
  \/ RunBody \/ LeaveInner
  \/ RunTail \/ LeaveTail
  \/ AssignCounter

Spec == Init /\ [][Next]_vars /\ WF_vars(Next)
UnrollingSpec == UnrollingInit /\ [][Next]_vars /\ WF_vars(Next)

-----------------------------------------------------------------------------
Original == INSTANCE OriginalLoop WITH
  first <- loop.first, bound <- loop.n, step <- loop.step,
  finished <- place = "done"

(* The generated code runs the body for the iterations of the original     *)
(* loop, each once and in the original order, and it ends, for every bound *)
(* up to the limits of the type of the counter, negative ones included, as *)
(* long as the generated arithmetic fits (Fits).                           *)
ImplementsOriginal == Original!Spec

(* The same without the promise that it ends. *)
FollowsOriginal == Original!Runs

(* After the generated code the counter has the value the original loop    *)
(* leaves in it, if that loop ran at all.  A canonised loop does not       *)
(* restore its counter, as a TODO in CanonizeFor.cpp says.                 *)
CounterAfter ==
  place = "done" /\ loop.n > 0 /\ loop.by # Canonisation => counter = loop.n

(* Unrolling, which the transformations hub offers under that name, runs   *)
(* the iterations of the original loop.                                    *)
IterationsKept ==
  \A k \in DOMAIN executed : executed[k] = k - 1 /\ executed[k] < loop.n
=============================================================================
