------------------------------ MODULE LoopProofs ------------------------------
(***************************************************************************)
(* What the transformations of loops keep, for every type of the counter,  *)
(* every bound, step and factor.                                           *)
(*                                                                         *)
(* The proof goes through a plan of the generated code.  Of a loop with    *)
(* iterations it says which of them each strip runs, and that the strips   *)
(* and the tail join without a gap or an overlap (Plan, one lemma for each *)
(* family of limits); of a loop without any, that all strips are empty     *)
(* (Idle).  The inductive invariant LoopInv then counts the iterations     *)
(* that are through at every place of the generated code.  The next part   *)
(* is about nests that are unified, of which the unified loop is shown to  *)
(* run row after row; the last is about the dependence graphs by which     *)
(* loops are marked.                                                       *)
(***************************************************************************)
EXTENDS TransformedProgramMC, SequenceEditsProofs, TLAPS

-----------------------------------------------------------------------------
(* Whole quotients, and the numbers of the type of the counter.            *)
LEMMA Division ==
  ASSUME NEW x \in Nat, NEW h \in Nat \ {0}
  PROVE  /\ x \div h \in Nat
         /\ h * (x \div h) <= x /\ x < h * (x \div h) + h
OBVIOUS

LEMMA Quotients ==
  ASSUME NEW x \in Nat, NEW h \in Nat \ {0}, NEW q \in Int, h * q <= x, x < h * q + h
  PROVE  x \div h = q
OBVIOUS

LEMMA WrapsInto ==
  ASSUME NEW x \in Int
  PROVE  Wrap(x) \in Ints
BY MaxIntAssumption DEF Wrap, Ints, MinInt

LEMMA WrapKeeps ==
  ASSUME NEW x \in Ints
  PROVE  Wrap(x) = x
BY MaxIntAssumption DEF Wrap, Ints, MinInt

LEMMA WrapsAround == Wrap(MaxInt + 1) = MinInt /\ Wrap(MinInt - 1) = MaxInt
BY MaxIntAssumption DEF Wrap, Ints, MinInt

LEMMA IntsFacts == /\ Ints \subseteq Int /\ \A x \in Ints : x \in Int /\ (x >= 0 => x \in Nat)
                   /\ 0 \in Ints /\ 1 \in Ints
                   /\ \A x \in Int : x \in Ints <=> -MaxInt - 1 <= x /\ x <= MaxInt
                   /\ \A h \in 1 .. MaxFactor : h \in Nat \ {0} /\ h \in Ints
BY MaxIntAssumption, FactorAssumption DEF Ints, MinInt

(* The quotient of a number that is not negative; and of one that is not   *)
(* positive.                                                               *)
LEMMA OverNat ==
  ASSUME NEW x \in Ints, x >= 0, NEW h \in 1 .. MaxFactor
  PROVE  /\ Over(x, h) = x \div h
         /\ x \div h \in Nat /\ x \div h <= x
         /\ h * (x \div h) <= x /\ x < h * (x \div h) + h
<1>1. x \in Nat /\ h \in Nat \ {0}
  BY IntsFacts, FactorAssumption, MaxIntAssumption
<1>2. /\ x \div h \in Nat
      /\ h * (x \div h) <= x /\ x < h * (x \div h) + h
  BY <1>1, Division
<1>3. \A q \in Nat : q <= h * q
  BY <1>1
<1>4. x \div h <= x
  BY <1>1, <1>2, <1>3
<1>5. x \div h \in Ints
  BY <1>1, <1>2, <1>4, IntsFacts, MaxIntAssumption
<1> QED
  BY <1>1, <1>2, <1>4, <1>5, WrapKeeps DEF Over

LEMMA OverNegative ==
  ASSUME NEW x \in Ints, x <= 0, NEW h \in 1 .. MaxFactor
  PROVE  /\ Over(x, h) \in Ints /\ x <= h * Over(x, h) /\ Over(x, h) <= 0
         /\ Over(x, h) = -((-x) \div h)
<1>1. -x \in Nat /\ h \in Nat \ {0} /\ x \in Int
  BY IntsFacts, FactorAssumption, MaxIntAssumption
<1> DEFINE q == (-x) \div h
<1>2. q \in Nat /\ h * q <= -x
  BY <1>1, Division
<1>3. q <= h * q
  BY <1>1, <1>2
<1>4. -q \in Ints
  BY <1>1, <1>2, <1>3, IntsFacts, MaxIntAssumption
<1>5. Wrap(-q) = -q
  BY <1>4, WrapKeeps
<1>6. Over(x, h) = -q
  <2>1. CASE x = 0
    BY <1>1, <1>5, <2>1, Quotients DEF Over
  <2>2. CASE x < 0
    BY <1>1, <1>5, <2>2 DEF Over
  <2> QED
    BY <1>1, <2>1, <2>2
<1>7. h * (-q) = -(h * q)
  BY <1>1, <1>2
<1> QED
  BY <1>1, <1>2, <1>4, <1>6, <1>7

-----------------------------------------------------------------------------
(* What Init chooses from; and the forms that cut the loop into strips.    *)
Reshapings == Nestings \cup {StripMining, Canonisation, FullUnrolling}
IsNesting(l) == l.by \in Nestings \cup {StripMining}

(* The transformations are told apart by their names, and their forms.     *)
LEMMA Names ==
  /\ Canonisation.name = "canonisation" /\ FullUnrolling.name = "full unrolling"
  /\ Unrolling.name = "unrolling" /\ StripMining.name = "strip mining"
  /\ \A by \in Nestings : by.name = "nesting"
BY DEF Canonisation, FullUnrolling, Unrolling, StripMining, Nestings, Transformation

LEMMA Forms ==
  /\ ~Canonisation.outerBound /\ ~Canonisation.tail /\ ~Canonisation.native
  /\ ~FullUnrolling.outerBound /\ ~FullUnrolling.tail /\ ~FullUnrolling.native
  /\ ~StripMining.outerBound /\ StripMining.tail /\ ~StripMining.native
BY DEF Canonisation, FullUnrolling, StripMining, Transformation

(* What the checks of the transformations leave of the headers.            *)
LEMMA LoopForms ==
  ASSUME NEW l \in Loops(Reshapings), Fits(l)
  PROVE  /\ l.first \in Ints /\ l.n \in Ints /\ l.step \in 1 .. MaxFactor /\ l.h \in 1 .. MaxFactor
         /\ l.first \in Int /\ l.n \in Int /\ l.step \in Nat \ {0} /\ l.h \in Nat \ {0}
         /\ l.by # Unrolling
         /\ l.by = Canonisation => l.n - l.first \in Ints /\ l.n - l.first + l.step - 1 <= MaxInt
         /\ l.by # Canonisation => l.first = 0 /\ l.step = 1
         /\ l.by \in {Canonisation, FullUnrolling} =>
              ~IsNesting(l) /\ ~l.by.outerBound /\ ~l.by.tail /\ ~l.by.native
         /\ l.by \notin {Canonisation, FullUnrolling} => IsNesting(l) /\ NestingFits(l)
         /\ FullUnrolling # Canonisation
<1>1. /\ l.by \in Reshapings
      /\ l.first \in Ints /\ l.n \in Ints /\ l.step \in 1 .. MaxFactor /\ l.h \in 1 .. MaxFactor
      /\ IF l.by = Canonisation THEN l.h = 1 ELSE l.first = 0 /\ l.step = 1
  BY DEF Loops
<1>2. /\ Canonisation # FullUnrolling /\ Canonisation # Unrolling /\ FullUnrolling # Unrolling
      /\ StripMining \notin {Canonisation, FullUnrolling, Unrolling}
      /\ \A by \in Nestings : by \notin {Canonisation, FullUnrolling, Unrolling}
  BY Names
<1>3. l.first \in Int /\ l.n \in Int /\ l.step \in Nat \ {0} /\ l.h \in Nat \ {0}
  BY <1>1, IntsFacts
<1>4. CASE l.by \in {Canonisation, FullUnrolling}
  <2>1. ~l.by.outerBound /\ ~l.by.tail /\ ~l.by.native
    BY <1>4, Forms
  <2>2. ~IsNesting(l)
    BY <1>2, <1>4 DEF IsNesting
  <2>3. l.by = Canonisation => CanonisationFits(l)
    BY DEF Fits
  <2> QED
    BY <1>1, <1>2, <1>3, <1>4, <2>1, <2>2, <2>3 DEF CanonisationFits
<1>5. CASE l.by = StripMining
  <2>1. ~l.by.outerBound /\ l.by.tail /\ ~l.by.native
    BY <1>5, Forms
  <2> QED
    BY <1>1, <1>2, <1>3, <1>5, <2>1 DEF NestingFits, IsNesting
<1>6. CASE l.by \in Nestings
  <2>1. NestingFits(l)
    BY <1>6, Names DEF Fits
  <2> QED
    BY <1>1, <1>2, <1>3, <1>6, <2>1 DEF IsNesting
<1> QED
  BY <1>1, <1>4, <1>5, <1>6 DEF Reshapings

-----------------------------------------------------------------------------
(* The iterations that are through when the outer loop has come to strip k *)
(* of a loop that has some, and all it has.                                *)
Through(l, k) ==
  IF ~IsNesting(l) THEN k
  ELSE IF ~l.by.outerBound THEN IF l.by.tail THEN k * l.h ELSE Lesser(k * l.h, l.n)
  ELSE IF l.by.tail /\ ~l.by.native THEN k * (l.n \div l.h)
  ELSE Lesser((k * l.n) \div l.h, l.n)

Total(l) == IF l.by = Canonisation THEN (l.n - l.first + l.step - 1) \div l.step ELSE l.n

(* What iteration of the original loop the inner and the tail loop run.    *)
Position(l, k, c) == IF l.by.native THEN c ELSE Through(l, k) + c

(* The generated code cuts the iterations into strips that follow one      *)
(* another, and perhaps a tail.                                            *)
OuterPlan(l) ==
  /\ OuterLimit(l) \in Nat /\ Total(l) \in Nat /\ Total(l) \in Ints
  /\ Through(l, 0) = 0
  /\ \A k \in 0 .. OuterLimit(l) : Through(l, k) \in 0 .. Total(l)
  /\ \A p \in Nat : p < Total(l) => l.first + l.step * p < l.n
  /\ l.first + l.step * Total(l) >= l.n

InnerPlan(l) ==
  \A k \in Nat : k < OuterLimit(l) =>
    /\ Through(l, k) <= Through(l, k + 1)
    /\ InnerStart(l, k) = IF l.by.native THEN Through(l, k) ELSE 0
    /\ InnerLimit(l, k) = IF l.by.native THEN Through(l, k + 1) ELSE Through(l, k + 1) - Through(l, k)
    /\ \A c \in Nat : InnerStart(l, k) <= c /\ c < InnerLimit(l, k) =>
         CounterOf(l, k, c) = l.first + l.step * Position(l, k, c)

TailPlan(l) ==
  LET past == Through(l, OuterLimit(l)) IN
  IF HasTail(l)
  THEN /\ l.first = 0 /\ l.step = 1 /\ Total(l) = l.n
       /\ TailStart(l) = IF l.by.native THEN past ELSE 0
       /\ TailLimit(l) = IF l.by.native THEN l.n ELSE l.n - past
       /\ \A c \in Nat : TailStart(l) <= c /\ c < TailLimit(l) =>
            TailCounterOf(l, c) = IF l.by.native THEN c ELSE past + c
  ELSE past = Total(l) /\ (l.by.native => OuterLimit(l) > 0)

Plan(l) == OuterPlan(l) /\ InnerPlan(l) /\ TailPlan(l)

(* Full unrolling: an outer loop of copies, each a strip of one.           *)
LEMMA FullUnrollingPlan ==
  ASSUME NEW l \in Loops(Reshapings), Fits(l), l.by = FullUnrolling, l.first < l.n
  PROVE  Plan(l)
<1>1. /\ l.n \in Ints /\ l.n \in Int /\ l.first = 0 /\ l.step = 1
      /\ ~l.by.outerBound /\ ~l.by.tail /\ ~l.by.native
      /\ l.by # Canonisation /\ l.by # Unrolling /\ ~IsNesting(l)
  BY LoopForms
<1>2. OuterLimit(l) = l.n /\ Total(l) = l.n
  BY <1>1 DEF OuterLimit, Total
<1>3. l.n \in Nat
  BY <1>1
<1>4. \A k : Through(l, k) = k
  BY <1>1 DEF Through
<1>5. OuterPlan(l)
  BY <1>1, <1>2, <1>3, <1>4 DEF OuterPlan
<1>6. \A k, c : InnerStart(l, k) = 0 /\ InnerLimit(l, k) = 1 /\ CounterOf(l, k, c) = k
  BY <1>1 DEF InnerStart, InnerLimit, CounterOf
<1>7. InnerPlan(l)
  BY <1>1, <1>2, <1>3, <1>4, <1>6 DEF InnerPlan, Position
<1>8. TailPlan(l)
  BY <1>1, <1>2, <1>4 DEF TailPlan, HasTail
<1> QED
  BY <1>5, <1>7, <1>8 DEF Plan

(* Where the arithmetic fits, it does not wrap.                            *)
LEMMA Kept ==
  ASSUME NEW x \in Nat, NEW y \in Ints, x <= y
  PROVE  x \in Ints /\ Wrap(x) = x
<1>1. x \in Ints
  BY IntsFacts, MaxIntAssumption
<1> QED
  BY <1>1, WrapKeeps

(* The sum under the rounded quotient may leave the type for a moment.     *)
LEMMA RoundingUp ==
  ASSUME NEW x \in Ints, NEW h \in 1 .. MaxFactor, x + h - 1 <= MaxInt
  PROVE  Minus(Plus(x, h), 1) = x + h - 1 /\ x + h - 1 \in Ints
<1>1. x \in Int /\ h \in Nat \ {0} /\ -MaxInt - 1 <= x /\ MaxInt \in Nat \ {0}
  BY IntsFacts, FactorAssumption, MaxIntAssumption
<1>2. x + h - 1 \in Ints
  BY <1>1, IntsFacts
<1>3. CASE x + h <= MaxInt
  <2>1. x + h \in Ints
    BY <1>1, <1>3, IntsFacts
  <2>2. Plus(x, h) = x + h
    BY <2>1, WrapKeeps DEF Plus
  <2>3. Wrap(x + h - 1) = x + h - 1
    BY <1>2, WrapKeeps
  <2> QED
    BY <1>1, <1>2, <2>2, <2>3 DEF Minus
<1>4. CASE x + h = MaxInt + 1
  <2>1. Plus(x, h) = MinInt
    BY <1>4, WrapsAround DEF Plus
  <2>2. Minus(Plus(x, h), 1) = MaxInt
    BY <2>1, WrapsAround DEF Minus
  <2> QED
    BY <1>1, <1>2, <1>4, <2>2
<1> QED
  BY <1>1, <1>3, <1>4

(* How many strips of h there are in x, the last one cut short.            *)
LEMMA RoundedUp ==
  ASSUME NEW x \in Nat \ {0}, NEW h \in Nat \ {0}
  PROVE  LET q == (x + h - 1) \div h
         IN  q \in Nat \ {0} /\ q <= x /\ h * q >= x /\ \A k \in Nat : k < q => h * k < x
<1> DEFINE q == (x + h - 1) \div h
<1>1. q \in Nat /\ h * q <= x + h - 1 /\ x + h - 1 < h * q + h
  BY Division
<1>2. q # 0
  BY <1>1
<1>3. ASSUME NEW k \in Nat, k < q
      PROVE  h * k < x
  <2>1. h * (k + 1) <= h * q
    BY <1>1, <1>3
  <2> QED
    BY <1>1, <2>1
<1>4. q <= x
  <2>1. CASE q > x
    <3>1. h * x < x
      BY <1>3, <2>1
    <3>2. h * x >= x
      OBVIOUS
    <3> QED
      BY <3>1, <3>2
  <2> QED
    BY <1>1, <2>1
<1> QED
  BY <1>1, <1>2, <1>3, <1>4

(* The canonised loop has an iteration for every step of the original.     *)
LEMMA CanonisationPlan ==
  ASSUME NEW l \in Loops(Reshapings), Fits(l), l.by = Canonisation, l.first < l.n
  PROVE  Plan(l)
<1> DEFINE extent == l.n - l.first
           q == (extent + l.step - 1) \div l.step
<1>1. /\ l.n \in Ints /\ l.n \in Int /\ l.first \in Ints /\ l.first \in Int
      /\ l.step \in 1 .. MaxFactor /\ l.step \in Nat \ {0}
      /\ ~l.by.outerBound /\ ~l.by.tail /\ ~l.by.native
      /\ l.by # FullUnrolling /\ l.by # Unrolling /\ ~IsNesting(l)
      /\ extent \in Ints /\ extent + l.step - 1 <= MaxInt
  BY LoopForms
<1>2. extent \in Nat \ {0}
  BY <1>1
<1>3. /\ q \in Nat \ {0} /\ q <= extent /\ l.step * q >= extent
      /\ \A k \in Nat : k < q => l.step * k < extent
  BY <1>1, <1>2, RoundedUp
<1>4. Minus(l.n, l.first) = extent
  BY <1>1, WrapKeeps DEF Minus
<1>5. OuterLimit(l) = q
  <2>1. CASE l.step = 1
    <3>1. q = extent
      BY <1>2, <2>1, Quotients
    <3> QED
      BY <1>4, <2>1, <3>1 DEF OuterLimit, CanonicalLimit
  <2>2. CASE l.step # 1
    <3>1. Minus(Plus(extent, l.step), 1) = extent + l.step - 1 /\ extent + l.step - 1 \in Ints
      BY <1>1, RoundingUp
    <3>2. Over(extent + l.step - 1, l.step) = q
      <4>1. extent + l.step - 1 >= 0
        BY <1>1, <1>2
      <4> QED
        BY <1>1, <3>1, <4>1, OverNat
    <3> QED
      BY <1>4, <2>2, <3>1, <3>2 DEF OuterLimit, CanonicalLimit
  <2> QED
    BY <2>1, <2>2
<1>6. Total(l) = q
  BY DEF Total
<1>7. q \in Ints
  BY <1>1, <1>2, <1>3, Kept
<1>8. \A k : Through(l, k) = k
  BY <1>1 DEF Through
<1>9. OuterPlan(l)
  BY <1>1, <1>2, <1>3, <1>5, <1>6, <1>7, <1>8 DEF OuterPlan
<1>10. \A k : InnerStart(l, k) = 0 /\ InnerLimit(l, k) = 1
  BY <1>1 DEF InnerStart, InnerLimit
<1>11. ASSUME NEW k \in Nat, k < q, NEW c
       PROVE  CounterOf(l, k, c) = l.first + l.step * k
  <2>1. l.step * k \in Nat /\ l.step * k < extent
    BY <1>1, <1>3, <1>11
  <2>2. Times(k, l.step) = l.step * k
    BY <1>1, <1>2, <2>1, Kept DEF Times
  <2>3. l.first + l.step * k \in Ints
    BY <1>1, <2>1, IntsFacts, MaxIntAssumption
  <2>4. Plus(l.first, l.step * k) = l.first + l.step * k
    BY <2>3, WrapKeeps DEF Plus
  <2>5. l.step = 1 => l.step * k = k
    BY <1>11
  <2> QED
    BY <2>2, <2>4, <2>5 DEF CounterOf
<1>12. InnerPlan(l)
  <2>1. ASSUME NEW k \in Nat, k < q, NEW c \in Nat, 0 <= c, c < 1
        PROVE  CounterOf(l, k, c) = l.first + l.step * Position(l, k, c)
    <3>1. Position(l, k, c) = k
      BY <1>1, <1>8, <2>1 DEF Position
    <3> QED
      BY <1>11, <2>1, <3>1
  <2> QED
    BY <1>1, <1>3, <1>5, <1>8, <1>10, <2>1 DEF InnerPlan
<1>13. TailPlan(l)
  BY <1>1, <1>5, <1>6, <1>8 DEF TailPlan, HasTail
<1> QED
  BY <1>9, <1>12, <1>13 DEF Plan

-----------------------------------------------------------------------------
(* What the plans of all nestings and strip mining have in common.         *)
LEMMA NestingFacts ==
  ASSUME NEW l \in Loops(Reshapings), Fits(l), IsNesting(l), l.first < l.n
  PROVE  /\ l.first = 0 /\ l.step = 1
         /\ l.n \in Nat \ {0} /\ l.n \in Ints /\ l.n <= MaxInt
         /\ l.h \in Nat \ {0} /\ l.h \in Ints /\ l.h \in 1 .. MaxFactor
         /\ l.by \notin {Canonisation, FullUnrolling, Unrolling}
         /\ NestingFits(l)
         /\ Total(l) = l.n
         /\ l.first + l.step * Total(l) >= l.n
         /\ \A p \in Nat : p < Total(l) => l.first + l.step * p < l.n
         /\ \A p \in Nat : l.first + l.step * p = p
<1>1. l.by \notin {Canonisation, FullUnrolling, Unrolling}
  BY LoopForms
<1>2. l.first = 0 /\ l.step = 1 /\ l.n \in Int /\ l.n \in Ints /\ NestingFits(l)
  BY <1>1, LoopForms
<1>3. l.n \in Nat \ {0} /\ l.n <= MaxInt
  BY <1>2, IntsFacts
<1>4. l.h \in Nat \ {0} /\ l.h \in Ints /\ l.h \in 1 .. MaxFactor
  BY LoopForms, IntsFacts
<1>5. Total(l) = l.n
  BY <1>1 DEF Total
<1>6. \A p \in Nat : l.first + l.step * p = p
  BY <1>2
<1> QED
  BY <1>1, <1>2, <1>3, <1>4, <1>5, <1>6

(* Products of numbers that are not negative.                              *)
LEMMA Products ==
  ASSUME NEW k \in Nat, NEW q \in Nat, NEW h \in Nat, k < q
  PROVE  /\ k * h \in Nat /\ (k + 1) * h \in Nat /\ (k + 1) * h = k * h + h
         /\ (k + 1) * h <= q * h /\ k * h <= q * h
         /\ k * h = h * k /\ q * h = h * q /\ q * h \in Nat
OBVIOUS

(* Strips of h iterations, and a tail.                                     *)
LEMMA StripsAndTailPlan ==
  ASSUME NEW l \in Loops(Reshapings), Fits(l), IsNesting(l), l.first < l.n,
         ~l.by.outerBound, l.by.tail
  PROVE  Plan(l)
<1> DEFINE n == l.n
           h == l.h
           q == n \div h
<1>1. /\ l.first = 0 /\ l.step = 1
      /\ n \in Nat \ {0} /\ n \in Ints /\ h \in Nat \ {0} /\ h \in 1 .. MaxFactor
      /\ l.by \notin {Canonisation, FullUnrolling, Unrolling}
      /\ Total(l) = n
      /\ l.first + l.step * Total(l) >= l.n
      /\ \A p \in Nat : p < Total(l) => l.first + l.step * p < l.n
      /\ \A p \in Nat : l.first + l.step * p = p
  BY NestingFacts
<1>2. Over(n, h) = q /\ q \in Nat /\ q <= n /\ h * q <= n /\ n < h * q + h
  <2>1. n \in Ints /\ n >= 0 /\ h \in 1 .. MaxFactor
    BY <1>1
  <2> QED
    BY <2>1, OverNat
<1>3. \A k : Through(l, k) = k * h
  BY DEF Through
<1>4. OuterLimit(l) = q
  BY <1>1, <1>2 DEF OuterLimit, Strips
<1> HIDE DEF n, h, q
<1>5. ASSUME NEW k \in Nat, k < q
      PROVE  /\ k * h \in Nat /\ (k + 1) * h \in Nat /\ (k + 1) * h = k * h + h
             /\ (k + 1) * h <= n /\ k * h <= n
             /\ Times(k, h) = k * h /\ Times(k + 1, h) = (k + 1) * h
  <2>1. /\ k * h \in Nat /\ (k + 1) * h \in Nat /\ (k + 1) * h = k * h + h
        /\ (k + 1) * h <= n /\ k * h <= n
    BY <1>1, <1>2, <1>5, Products
  <2> QED
    BY <1>1, <2>1, Kept DEF Times
<1>6. h * q \in Nat /\ Times(h, q) = h * q /\ q * h = h * q
  <2>1. h * q \in Nat /\ q * h = h * q
    BY <1>1, <1>2
  <2> QED
    BY <1>1, <1>2, <2>1, Kept DEF Times
<1>7. OuterPlan(l)
  <2>1. \A k \in 0 .. q : Through(l, k) \in 0 .. n
    BY <1>1, <1>2, <1>3, <1>5, <1>6
  <2>2. q \in Nat /\ n \in Nat /\ Through(l, 0) = 0
    BY <1>1, <1>2, <1>3
  <2> QED
    BY <1>1, <1>4, <2>1, <2>2 DEF OuterPlan
<1>8. ASSUME NEW k \in Nat, k < q
      PROVE  /\ InnerStart(l, k) = IF l.by.native THEN k * h ELSE 0
             /\ InnerLimit(l, k) = IF l.by.native THEN (k + 1) * h ELSE h
  BY <1>1, <1>5, <1>8 DEF InnerStart, InnerLimit, NativeLimit, CountedLimit, h
<1>9. ASSUME NEW k \in Nat, k < q, NEW c \in Nat, InnerStart(l, k) <= c, c < InnerLimit(l, k)
      PROVE  CounterOf(l, k, c) = Position(l, k, c) /\ Position(l, k, c) \in Nat
  <2>1. CASE l.by.native
    BY <1>1, <1>9, <2>1 DEF CounterOf, Position
  <2>2. CASE ~l.by.native
    <3>1. c < h
      BY <1>8, <1>9, <2>2
    <3>2. k * h + c \in Nat /\ k * h + c <= n
      BY <1>1, <1>5, <1>9, <3>1
    <3>3. Plus(k * h, c) = k * h + c
      BY <1>1, <3>2, Kept DEF Plus
    <3>4. CounterOf(l, k, c) = Plus(Times(k, h), c)
      BY <1>1, <2>2 DEF CounterOf, StripOfCounted, h
    <3> QED
      BY <1>3, <1>5, <1>9, <2>2, <3>2, <3>3, <3>4 DEF Position
  <2> QED
    BY <2>1, <2>2
<1>10. InnerPlan(l)
  <2>1. ASSUME NEW k \in Nat, k < q
        PROVE  /\ Through(l, k) <= Through(l, k + 1)
               /\ Through(l, k + 1) - Through(l, k) = h
    BY <1>1, <1>3, <1>5, <2>1
  <2> QED
    BY <1>1, <1>3, <1>4, <1>8, <1>9, <2>1 DEF InnerPlan
<1>11. TailPlan(l)
  <2>1. HasTail(l) /\ Through(l, OuterLimit(l)) = q * h
    BY <1>3, <1>4 DEF HasTail
  <2>2. TailStart(l) = IF l.by.native THEN q * h ELSE 0
    BY <1>2, <1>6 DEF TailStart, n, h, q
  <2>3. TailLimit(l) = IF l.by.native THEN n ELSE n - q * h
    <3>1. n - q * h \in Nat /\ n - q * h <= n
      BY <1>1, <1>2, <1>6
    <3>2. Rest(n, h) = n - q * h
      <4>1. Times(q, h) = q * h
        BY <1>6 DEF Times
      <4> QED
        BY <1>1, <1>2, <3>1, <4>1, Kept DEF Rest, Minus
    <3> QED
      BY <3>2 DEF TailLimit, n, h
  <2>4. ASSUME NEW c \in Nat, TailStart(l) <= c, c < TailLimit(l)
        PROVE  TailCounterOf(l, c) = IF l.by.native THEN c ELSE q * h + c
    <3>1. CASE l.by.native
      BY <3>1 DEF TailCounterOf
    <3>2. CASE ~l.by.native
      <4>1. q * h + c \in Nat /\ q * h + c <= n
        BY <1>1, <1>2, <1>6, <2>3, <2>4, <3>2
      <4>2. TailCounterOf(l, c) = Plus(q * h, c)
        BY <1>2, <1>6, <3>2 DEF TailCounterOf, n, h, q
      <4> QED
        BY <1>1, <3>2, <4>1, <4>2, Kept DEF Plus
    <3> QED
      BY <3>1, <3>2
  <2> QED
    BY <1>1, <2>1, <2>2, <2>3, <2>4 DEF TailPlan, n
<1> QED
  BY <1>7, <1>10, <1>11 DEF Plan

(* Strips of h iterations, the last cut short.                             *)
LEMMA StripsRoundedPlan ==
  ASSUME NEW l \in Loops(Reshapings), Fits(l), IsNesting(l), l.first < l.n,
         ~l.by.outerBound, ~l.by.tail
  PROVE  Plan(l)
<1> DEFINE n == l.n
           h == l.h
           q == (n + h - 1) \div h
<1>1. /\ l.first = 0 /\ l.step = 1
      /\ n \in Nat \ {0} /\ n \in Ints /\ n <= MaxInt
      /\ h \in Nat \ {0} /\ h \in Ints /\ h \in 1 .. MaxFactor
      /\ l.by \notin {Canonisation, FullUnrolling, Unrolling}
      /\ NestingFits(l)
      /\ Total(l) = n
      /\ l.first + l.step * Total(l) >= l.n
      /\ \A p \in Nat : p < Total(l) => l.first + l.step * p < l.n
      /\ \A p \in Nat : l.first + l.step * p = p
  BY NestingFacts
<1>2. n + h - 1 <= MaxInt
  BY <1>1 DEF NestingFits
<1>3. Minus(Plus(n, h), 1) = n + h - 1 /\ n + h - 1 \in Ints
  BY <1>1, <1>2, RoundingUp
<1>4. Over(n + h - 1, h) = q
  <2>1. n + h - 1 >= 0
    BY <1>1
  <2> QED
    BY <1>1, <1>3, <2>1, OverNat
<1>5. /\ q \in Nat \ {0} /\ q <= n /\ h * q >= n
      /\ \A k \in Nat : k < q => h * k < n
  BY <1>1, RoundedUp
<1>6. OuterLimit(l) = q
  BY <1>1, <1>3, <1>4 DEF OuterLimit, StripsRoundedUp
<1>7. \A k : Through(l, k) = Lesser(k * h, n)
  BY DEF Through
<1>8. ~HasTail(l)
  BY DEF HasTail
<1> HIDE DEF n, h, q
<1>9. ASSUME NEW k \in Nat, k < q
      PROVE  /\ k * h \in Nat /\ (k + 1) * h \in Nat /\ (k + 1) * h = k * h + h
             /\ k * h < n /\ (k + 1) * h <= n + h - 1
             /\ Times(k, h) = k * h /\ Times(k + 1, h) = (k + 1) * h
             /\ Through(l, k) = k * h
             /\ Through(l, k + 1) = Lesser((k + 1) * h, n)
  <2>1. /\ k * h \in Nat /\ (k + 1) * h \in Nat /\ (k + 1) * h = k * h + h /\ k * h = h * k
    BY <1>1, <1>5, <1>9, Products
  <2>2. k * h < n
    BY <1>5, <1>9, <2>1
  <2>3. (k + 1) * h <= n + h - 1
    BY <1>1, <2>1, <2>2
  <2>4. Times(k, h) = k * h /\ Times(k + 1, h) = (k + 1) * h
    BY <1>1, <1>3, <2>1, <2>2, <2>3, Kept DEF Times
  <2> QED
    BY <1>1, <1>7, <2>1, <2>2, <2>3, <2>4 DEF Lesser
<1>10. q * h \in Nat /\ q * h >= n /\ Through(l, q) = n
  <2>1. q * h \in Nat /\ q * h >= n
    BY <1>1, <1>5
  <2> QED
    BY <1>1, <1>7, <2>1 DEF Lesser
<1>11. OuterPlan(l)
  <2>1. \A k \in 0 .. q : Through(l, k) \in 0 .. n
    BY <1>1, <1>5, <1>9, <1>10
  <2>2. Through(l, 0) = 0
    BY <1>1, <1>5, <1>9
  <2> QED
    BY <1>1, <1>5, <1>6, <2>1, <2>2 DEF OuterPlan
<1>12. ASSUME NEW k \in Nat, k < q
       PROVE  /\ Through(l, k) <= Through(l, k + 1)
              /\ Through(l, k + 1) <= n /\ Through(l, k + 1) \in Nat /\ Through(l, k) \in Nat
              /\ InnerStart(l, k) = IF l.by.native THEN Through(l, k) ELSE 0
              /\ InnerLimit(l, k) = IF l.by.native THEN Through(l, k + 1)
                                    ELSE Through(l, k + 1) - Through(l, k)
  <2>1. /\ Through(l, k) <= Through(l, k + 1)
        /\ Through(l, k + 1) <= n /\ Through(l, k + 1) \in Nat /\ Through(l, k) \in Nat
    BY <1>1, <1>9, <1>12 DEF Lesser
  <2>2. InnerStart(l, k) = IF l.by.native THEN Through(l, k) ELSE 0
    BY <1>9, <1>12 DEF InnerStart, h
  <2>3. CASE l.by.native
    BY <1>1, <1>9, <1>12, <2>1, <2>2, <2>3 DEF InnerLimit, NativeLimit, h, n
  <2>4. CASE ~l.by.native
    <3>1. InnerLimit(l, k) = Lesser(h, Minus(n, k * h))
      BY <1>1, <1>9, <1>12, <2>4 DEF InnerLimit, CountedLimit, h, n
    <3>2. n - k * h \in Nat /\ n - k * h <= n
      BY <1>1, <1>9, <1>12
    <3>3. Minus(n, k * h) = n - k * h
      BY <1>1, <3>2, Kept DEF Minus
    <3>4. Lesser(h, n - k * h) = Lesser((k + 1) * h, n) - k * h
      BY <1>1, <1>9, <1>12 DEF Lesser
    <3> QED
      BY <1>9, <1>12, <2>1, <2>2, <2>4, <3>1, <3>3, <3>4
  <2> QED
    BY <2>3, <2>4
<1>13. ASSUME NEW k \in Nat, k < q, NEW c \in Nat, InnerStart(l, k) <= c, c < InnerLimit(l, k)
       PROVE  CounterOf(l, k, c) = Position(l, k, c) /\ Position(l, k, c) \in Nat
  <2>1. CASE l.by.native
    BY <1>1, <1>13, <2>1 DEF CounterOf, Position
  <2>2. CASE ~l.by.native
    <3>1. c < Through(l, k + 1) - Through(l, k)
      BY <1>12, <1>13, <2>2
    <3>2. k * h + c \in Nat /\ k * h + c <= n
      BY <1>1, <1>9, <1>12, <1>13, <3>1
    <3>3. Plus(k * h, c) = k * h + c
      BY <1>1, <3>2, Kept DEF Plus
    <3>4. CounterOf(l, k, c) = Plus(Times(k, h), c)
      BY <1>1, <2>2 DEF CounterOf, StripOfCounted, h
    <3> QED
      BY <1>9, <1>13, <2>2, <3>2, <3>3, <3>4 DEF Position
  <2> QED
    BY <2>1, <2>2
<1>14. InnerPlan(l)
  BY <1>1, <1>6, <1>12, <1>13 DEF InnerPlan
<1>15. TailPlan(l)
  BY <1>1, <1>5, <1>6, <1>8, <1>10 DEF TailPlan
<1> QED
  BY <1>11, <1>14, <1>15 DEF Plan

(* h strips of equal length, and a tail.                                   *)
LEMMA EqualStripsPlan ==
  ASSUME NEW l \in Loops(Reshapings), Fits(l), IsNesting(l), l.first < l.n,
         l.by.outerBound, l.by.tail, ~l.by.native
  PROVE  Plan(l)
<1> DEFINE n == l.n
           h == l.h
           q == n \div h
<1>1. /\ l.first = 0 /\ l.step = 1
      /\ n \in Nat \ {0} /\ n \in Ints /\ n <= MaxInt
      /\ h \in Nat \ {0} /\ h \in Ints /\ h \in 1 .. MaxFactor
      /\ l.by \notin {Canonisation, FullUnrolling, Unrolling}
      /\ NestingFits(l)
      /\ Total(l) = n
      /\ l.first + l.step * Total(l) >= l.n
      /\ \A p \in Nat : p < Total(l) => l.first + l.step * p < l.n
      /\ \A p \in Nat : l.first + l.step * p = p
  BY NestingFacts
<1>2. Over(n, h) = q /\ q \in Nat /\ q <= n /\ h * q <= n /\ n < h * q + h
  <2>1. n \in Ints /\ n >= 0 /\ h \in 1 .. MaxFactor
    BY <1>1
  <2> QED
    BY <2>1, OverNat
<1>3. \A k : Through(l, k) = k * q
  BY DEF Through
<1>4. OuterLimit(l) = h /\ HasTail(l)
  BY <1>1 DEF OuterLimit, HasTail
<1>5. \A k : InnerStart(l, k) = 0 /\ InnerLimit(l, k) = q
  BY <1>1, <1>2 DEF InnerStart, InnerLimit, CountedLimit
<1>6. \A k, c : CounterOf(l, k, c) = Plus(Times(k, q), c)
  BY <1>1, <1>2 DEF CounterOf, StripOfCounted
<1>7. TailStart(l) = 0 /\ TailLimit(l) = Minus(n, Times(q, h))
  BY <1>2 DEF TailStart, TailLimit, Rest
<1>8. \A c : TailCounterOf(l, c) = Plus(Times(h, q), c)
  BY <1>2 DEF TailCounterOf
<1>9. \A k, c : Position(l, k, c) = k * q + c
  BY <1>3 DEF Position
<1>10. l.n = n
  OBVIOUS
<1> HIDE DEF n, h, q
<1>11. ASSUME NEW k \in Nat, k < h
       PROVE  /\ k * q \in Nat /\ (k + 1) * q = k * q + q /\ k * q + q <= n /\ Times(k, q) = k * q
  <2>1. k * q \in Nat /\ (k + 1) * q = k * q + q /\ k * q <= n /\ k * q + q <= n
    <3>1. /\ k * q \in Nat /\ (k + 1) * q = k * q + q /\ (k + 1) * q <= h * q
      BY <1>1, <1>2, <1>11, Products
    <3> QED
      BY <1>1, <1>2, <3>1
  <2> QED
    BY <1>1, <2>1, Kept DEF Times
<1>12. h * q \in Nat /\ Times(h, q) = h * q /\ Times(q, h) = h * q
  <2>1. h * q \in Nat /\ q * h = h * q
    BY <1>1, <1>2
  <2> QED
    BY <1>1, <1>2, <2>1, Kept DEF Times
<1>13. OuterPlan(l)
  <2>1. \A k \in 0 .. h : Through(l, k) \in 0 .. n
    BY <1>1, <1>2, <1>3, <1>11, <1>12
  <2>2. Through(l, 0) = 0
    BY <1>2, <1>3
  <2> QED
    BY <1>1, <1>4, <2>1, <2>2 DEF OuterPlan
<1>14. InnerPlan(l)
  <2>1. ASSUME NEW k \in Nat, k < h, NEW c \in Nat, c < q
        PROVE  CounterOf(l, k, c) = k * q + c /\ k * q + c \in Nat
    <3>1. k * q + c \in Nat /\ k * q + c <= n
      BY <1>1, <1>2, <1>11, <2>1
    <3>2. CounterOf(l, k, c) = Plus(k * q, c)
      BY <1>6, <1>11, <2>1
    <3> QED
      BY <1>1, <3>1, <3>2, Kept DEF Plus
  <2>2. ASSUME NEW k \in Nat, k < h
        PROVE  Through(l, k) <= Through(l, k + 1) /\ Through(l, k + 1) - Through(l, k) = q
    BY <1>1, <1>2, <1>3, <1>11, <2>2
  <2> QED
    BY <1>1, <1>2, <1>4, <1>5, <1>9, <2>1, <2>2 DEF InnerPlan
<1>15. TailPlan(l)
  <2>1. TailLimit(l) = n - h * q
    <3>1. n - h * q \in Nat /\ n - h * q <= n
      BY <1>1, <1>2, <1>12
    <3> QED
      BY <1>1, <1>7, <1>12, <3>1, Kept DEF Minus
  <2>2. ASSUME NEW c \in Nat, c < TailLimit(l)
        PROVE  TailCounterOf(l, c) = h * q + c
    <3>1. h * q + c \in Nat /\ h * q + c <= n
      BY <1>1, <1>2, <1>12, <2>1, <2>2
    <3> QED
      BY <1>1, <1>8, <1>12, <3>1, Kept DEF Plus
  <2> QED
    BY <1>1, <1>3, <1>4, <1>7, <1>10, <2>1, <2>2 DEF TailPlan
<1> QED
  BY <1>13, <1>14, <1>15 DEF Plan

(* The starts of proportional strips n * k / h follow one another.         *)
LEMMA QuotientsGrow ==
  ASSUME NEW x \in Nat, NEW y \in Nat, x <= y, NEW h \in Nat \ {0}
  PROVE  x \div h <= y \div h
<1> DEFINE a == x \div h
           b == y \div h
<1>1. a \in Nat /\ b \in Nat /\ h * a <= x /\ y < h * b + h
  BY Division
<1> HIDE DEF a, b
<1>2. ASSUME a >= b + 1
      PROVE  FALSE
  <2>1. h * a >= h * (b + 1)
    BY <1>1, <1>2
  <2> QED
    BY <1>1, <2>1
<1>3. a <= b
  BY <1>1, <1>2
<1> QED
  BY <1>3 DEF a, b

(* h strips that differ by one iteration at most; strip k begins with      *)
(* k * n / h.                                                              *)
LEMMA ProportionalStripsPlan ==
  ASSUME NEW l \in Loops(Reshapings), Fits(l), IsNesting(l), l.first < l.n,
         l.by.outerBound, l.by.native \/ ~l.by.tail
  PROVE  Plan(l)
<1> DEFINE n == l.n
           h == l.h
           most == IF l.by.native /\ ~l.by.tail THEN h + 1 ELSE h
           S(k) == (k * n) \div h
<1>1. /\ l.first = 0 /\ l.step = 1
      /\ n \in Nat \ {0} /\ n \in Ints /\ n <= MaxInt
      /\ h \in Nat \ {0} /\ h \in Ints /\ h \in 1 .. MaxFactor
      /\ l.by \notin {Canonisation, FullUnrolling, Unrolling}
      /\ NestingFits(l)
      /\ Total(l) = n
      /\ l.first + l.step * Total(l) >= l.n
      /\ \A p \in Nat : p < Total(l) => l.first + l.step * p < l.n
      /\ \A p \in Nat : l.first + l.step * p = p
  BY NestingFacts
<1>2. most * n \in Ints
  BY <1>1 DEF NestingFits
<1>3. most \in Nat \ {0} /\ h <= most /\ most <= h + 1
  BY <1>1
<1>4. OuterLimit(l) = most
  <2>1. CASE l.by.native /\ ~l.by.tail
    <3>1. h + 1 \in Nat /\ h + 1 <= (h + 1) * n
      BY <1>1
    <3>2. Plus(h, 1) = h + 1
      BY <1>2, <2>1, <3>1, Kept DEF Plus
    <3> QED
      BY <1>1, <2>1, <3>2 DEF OuterLimit
  <2>2. CASE ~(l.by.native /\ ~l.by.tail)
    BY <1>1, <2>2 DEF OuterLimit
  <2> QED
    BY <2>1, <2>2
<1>5. \A k : Through(l, k) = Lesser(S(k), n)
  BY DEF Through
<1>6. ~HasTail(l)
  BY DEF HasTail
<1>7. l.by.native /\ l.by.tail => most = h
  OBVIOUS
<1>8. ~l.by.native => most = h
  OBVIOUS
<1>9. ASSUME NEW k \in Nat, k <= most
      PROVE  /\ k * n \in Nat /\ k * n \in Ints /\ StripStart(l, k) = S(k)
             /\ S(k) \in Nat /\ S(k) \in Ints
  <2>1. k * n \in Nat /\ k * n <= most * n
    BY <1>1, <1>3, <1>9
  <2>2. k * n \in Ints /\ Times(k, n) = k * n
    BY <1>2, <2>1, Kept DEF Times
  <2>3. Over(k * n, h) = S(k) /\ S(k) \in Nat /\ S(k) <= k * n
    <3>1. k * n >= 0 /\ k * n \in Ints /\ h \in 1 .. MaxFactor
      BY <1>1, <2>1, <2>2
    <3> QED
      BY <3>1, OverNat
  <2> QED
    BY <2>1, <2>2, <2>3, Kept DEF StripStart
<1>10. S(0) = 0 /\ S(h) = n
  <2>1. S(0) = 0
    BY <1>1, Quotients
  <2>2. S(h) = n
    BY <1>1, Quotients
  <2> QED
    BY <2>1, <2>2
<1>11. ASSUME NEW k \in Nat, NEW m \in Nat, k <= m, m <= most
       PROVE  S(k) <= S(m)
  <2>1. k * n \in Nat /\ m * n \in Nat /\ k * n <= m * n
    BY <1>1, <1>11
  <2> QED
    BY <1>1, <2>1, QuotientsGrow
<1> HIDE DEF S, most
<1>12. ASSUME NEW k \in Nat, k <= h
       PROVE  S(k) \in 0 .. n /\ Through(l, k) = S(k)
  <2>1. S(k) <= n /\ S(k) \in Nat
    BY <1>1, <1>3, <1>9, <1>10, <1>11, <1>12
  <2> QED
    BY <1>1, <1>5, <2>1 DEF Lesser
<1>13. ASSUME NEW k \in Nat, k <= most
       PROVE  Through(l, k) \in 0 .. n
  BY <1>1, <1>5, <1>9, <1>13 DEF Lesser
<1>14. OuterPlan(l)
  <2>1. Through(l, 0) = 0
    BY <1>1, <1>10, <1>12
  <2> QED
    BY <1>1, <1>3, <1>4, <1>13, <2>1 DEF OuterPlan
<1>15. ASSUME NEW k \in Nat, k < most
       PROVE  /\ Through(l, k) = S(k) /\ Through(l, k + 1) = Lesser(S(k + 1), n)
              /\ Through(l, k) \in 0 .. n /\ Through(l, k + 1) \in 0 .. n
              /\ Through(l, k) <= Through(l, k + 1)
              /\ k + 1 <= h => Through(l, k + 1) = S(k + 1)
              /\ StripStart(l, k) = S(k) /\ StripStart(l, k + 1) = S(k + 1)
  <2>1. k <= h /\ k + 1 \in Nat /\ k + 1 <= most
    BY <1>1, <1>3, <1>15
  <2>2. S(k) <= S(k + 1) /\ S(k) \in Nat /\ S(k + 1) \in Nat
    BY <1>3, <1>9, <1>11, <1>15, <2>1
  <2>3. /\ Through(l, k) = S(k) /\ Through(l, k + 1) = Lesser(S(k + 1), n)
        /\ Through(l, k) \in 0 .. n /\ Through(l, k + 1) \in 0 .. n
    BY <1>3, <1>5, <1>12, <1>13, <1>15, <2>1
  <2>4. Through(l, k) <= Through(l, k + 1)
    BY <1>1, <2>2, <2>3 DEF Lesser
  <2> QED
    BY <1>3, <1>9, <1>12, <1>15, <2>1, <2>3, <2>4
<1>16. ASSUME NEW k \in Nat, k < most
       PROVE  /\ InnerStart(l, k) = IF l.by.native THEN Through(l, k) ELSE 0
              /\ InnerLimit(l, k) = IF l.by.native THEN Through(l, k + 1)
                                    ELSE Through(l, k + 1) - Through(l, k)
  <2>1. InnerStart(l, k) = IF l.by.native THEN Through(l, k) ELSE 0
    BY <1>15, <1>16 DEF InnerStart
  <2>2. CASE l.by.native
    <3>1. InnerLimit(l, k) = IF l.by.tail THEN S(k + 1) ELSE Lesser(S(k + 1), n)
      BY <1>1, <1>15, <1>16, <2>2 DEF InnerLimit, NativeLimit
    <3>2. l.by.tail => k + 1 <= h
      BY <1>1, <1>7, <1>16, <2>2
    <3> QED
      BY <1>15, <1>16, <2>1, <2>2, <3>1, <3>2
  <2>3. CASE ~l.by.native
    <3>1. InnerLimit(l, k) = Minus(S(k + 1), S(k))
      BY <1>1, <1>15, <1>16, <2>3 DEF InnerLimit, CountedLimit
    <3>2. k + 1 <= h
      BY <1>1, <1>8, <1>16, <2>3
    <3>3. Through(l, k + 1) = S(k + 1) /\ Through(l, k) = S(k)
      BY <1>15, <1>16, <3>2
    <3>4. S(k + 1) - S(k) \in Nat /\ S(k + 1) - S(k) <= n
      BY <1>1, <1>15, <1>16, <3>3
    <3>5. Minus(S(k + 1), S(k)) = S(k + 1) - S(k)
      BY <1>1, <3>4, Kept DEF Minus
    <3> QED
      BY <2>1, <2>3, <3>1, <3>3, <3>5
  <2> QED
    BY <2>2, <2>3
<1>17. ASSUME NEW k \in Nat, k < most, NEW c \in Nat, InnerStart(l, k) <= c, c < InnerLimit(l, k)
       PROVE  CounterOf(l, k, c) = Position(l, k, c) /\ Position(l, k, c) \in Nat
  <2>1. CASE l.by.native
    BY <1>1, <1>17, <2>1 DEF CounterOf, Position
  <2>2. CASE ~l.by.native
    <3>1. c < Through(l, k + 1) - Through(l, k)
      BY <1>16, <1>17, <2>2
    <3>2. S(k) + c \in Nat /\ S(k) + c <= n
      BY <1>1, <1>15, <1>17, <3>1
    <3>3. Plus(S(k), c) = S(k) + c
      BY <1>1, <3>2, Kept DEF Plus
    <3>4. CounterOf(l, k, c) = Plus(S(k), c)
      BY <1>1, <1>15, <1>17, <2>2 DEF CounterOf, StripOfCounted
    <3> QED
      BY <1>15, <1>17, <2>2, <3>2, <3>3, <3>4 DEF Position
  <2> QED
    BY <2>1, <2>2
<1>18. InnerPlan(l)
  BY <1>1, <1>4, <1>15, <1>16, <1>17 DEF InnerPlan
<1>19. Through(l, most) = n
  <2>1. S(h) <= S(most)
    BY <1>1, <1>3, <1>11
  <2>2. S(most) \in Nat
    BY <1>3, <1>9
  <2> QED
    BY <1>1, <1>5, <1>10, <2>1, <2>2 DEF Lesser
<1>20. TailPlan(l)
  BY <1>1, <1>3, <1>4, <1>6, <1>19 DEF TailPlan
<1> QED
  BY <1>14, <1>18, <1>20 DEF Plan

(* Every transformation has a plan for a loop with iterations.             *)
LEMMA Planned ==
  ASSUME NEW l \in Loops(Reshapings), Fits(l), l.first < l.n
  PROVE  Plan(l)
<1>1. CASE ~IsNesting(l)
  BY <1>1, LoopForms, CanonisationPlan, FullUnrollingPlan
<1>2. CASE IsNesting(l)
  BY <1>2, StripsAndTailPlan, StripsRoundedPlan, EqualStripsPlan, ProportionalStripsPlan
<1> QED
  BY <1>1, <1>2

-----------------------------------------------------------------------------
(* A loop without iterations: whatever strips the generated code goes      *)
(* through, each is empty, and so is the tail.                             *)
Idle(l) ==
  /\ \A k \in Nat : k < OuterLimit(l) => InnerStart(l, k) >= InnerLimit(l, k)
  /\ HasTail(l) => TailStart(l) >= TailLimit(l)

(* All limits and starts are numbers of the type.                          *)
LEMMA LimitsFit ==
  ASSUME NEW l \in Loops(Reshapings), Fits(l)
  PROVE  /\ OuterLimit(l) \in Ints
         /\ TailStart(l) \in Ints /\ TailLimit(l) \in Ints
         /\ \A k \in Int : InnerStart(l, k) \in Ints /\ InnerLimit(l, k) \in Int
<1>1. /\ l.n \in Ints /\ l.n \in Int /\ l.first \in Int /\ l.step \in Nat \ {0}
      /\ l.h \in Nat \ {0} /\ l.h \in Ints
      /\ 0 \in Ints /\ \A x \in Ints : x \in Int
      /\ l.h \in Int /\ l.step \in Int /\ 1 \in Int
  BY LoopForms, IntsFacts
<1>2. \A x, y \in Int : /\ Plus(x, y) \in Ints /\ Plus(x, y) \in Int
                        /\ Minus(x, y) \in Ints /\ Minus(x, y) \in Int
                        /\ Times(x, y) \in Ints /\ Times(x, y) \in Int
  BY <1>1, WrapsInto DEF Plus, Minus, Times
<1>3. ASSUME NEW x \in Int, NEW y \in Nat \ {0}
      PROVE  Over(x, y) \in Ints /\ Over(x, y) \in Int
  <2>1. (IF x >= 0 THEN x \div y ELSE -((-x) \div y)) \in Int
    <3>1. CASE x >= 0
      BY <3>1, Division
    <3>2. CASE x < 0
      <4>1. -x \in Nat
        BY <3>2
      <4>2. (-x) \div y \in Nat
        BY <4>1, Division
      <4> QED
        BY <3>2, <4>2
    <3> QED
      BY <3>1, <3>2
  <2> QED
    BY <1>1, <2>1, WrapsInto DEF Over
<1>4. OuterLimit(l) \in Ints
  <2>1. Minus(l.n, l.first) \in Ints /\ Minus(l.n, l.first) \in Int /\ Plus(l.h, 1) \in Ints
    BY <1>1, <1>2
  <2>2. /\ Plus(l.n, l.h) \in Int /\ Plus(Minus(l.n, l.first), l.step) \in Int
    BY <1>1, <1>2, <2>1
  <2>3. /\ Minus(Plus(l.n, l.h), 1) \in Int
        /\ Minus(Plus(Minus(l.n, l.first), l.step), 1) \in Int
    BY <1>1, <1>2, <2>2
  <2>4. /\ Strips(l) \in Ints /\ StripsRoundedUp(l) \in Ints /\ CanonicalLimit(l) \in Ints
    BY <1>1, <1>3, <2>1, <2>3 DEF CanonicalLimit, Strips, StripsRoundedUp
  <2> QED
    BY <1>1, <2>1, <2>4 DEF OuterLimit
<1>5. TailStart(l) \in Ints /\ TailLimit(l) \in Ints
  BY <1>1, <1>2, <1>3 DEF TailStart, TailLimit, Rest
<1>6. ASSUME NEW k \in Int
      PROVE  InnerStart(l, k) \in Ints /\ InnerLimit(l, k) \in Int
  <2>1. /\ StripStart(l, k) \in Ints /\ StripStart(l, k) \in Int
        /\ StripStart(l, k + 1) \in Ints /\ StripStart(l, k + 1) \in Int
    <3>1. k \in Int /\ k + 1 \in Int
      OBVIOUS
    <3>2. Times(k, l.n) \in Int /\ Times(k + 1, l.n) \in Int
      BY <1>1, <1>2, <3>1
    <3> QED
      BY <1>1, <1>3, <3>2 DEF StripStart
  <2>2. Times(k, l.h) \in Ints /\ Times(k, l.h) \in Int /\ Times(k + 1, l.h) \in Int
    <3>1. k \in Int /\ k + 1 \in Int
      OBVIOUS
    <3> QED
      BY <1>1, <1>2, <3>1
  <2>3. InnerStart(l, k) \in Ints
    BY <1>1, <2>1, <2>2 DEF InnerStart
  <2>4. NativeLimit(l, k) \in Int
    BY <1>1, <2>1, <2>2 DEF NativeLimit, Lesser
  <2>5. CountedLimit(l, k) \in Int
    BY <1>1, <1>2, <1>3, <2>1, <2>2 DEF CountedLimit, Lesser
  <2>6. InnerLimit(l, k) \in Int
    BY <2>4, <2>5 DEF InnerLimit
  <2> QED
    BY <2>3, <2>6
<1> QED
  BY <1>4, <1>5, <1>6

(* The truncating quotient grows with what is divided.                     *)
LEMMA OverGrows ==
  ASSUME NEW x \in Ints, NEW y \in Ints, x <= y, y <= 0, NEW h \in 1 .. MaxFactor
  PROVE  Over(x, h) <= Over(y, h)
<1>1. /\ x \in Int /\ y \in Int /\ h \in Nat \ {0} /\ x <= 0
  BY IntsFacts
<1>2. -x \in Nat /\ -y \in Nat /\ -y <= -x
  BY <1>1
<1>3. (-y) \div h <= (-x) \div h /\ (-y) \div h \in Nat /\ (-x) \div h \in Nat
  BY <1>1, <1>2, QuotientsGrow, Division
<1>4. Over(x, h) = -((-x) \div h) /\ Over(y, h) = -((-y) \div h)
  BY <1>1, OverNegative
<1> QED
  BY <1>3, <1>4

(* A quotient that is rounded up is not positive for what is not.          *)
LEMMA NothingToRound ==
  ASSUME NEW x \in Ints, x <= 0, NEW h \in 1 .. MaxFactor, x + h - 1 <= MaxInt
  PROVE  Over(Minus(Plus(x, h), 1), h) <= 0
<1> DEFINE y == x + h - 1
<1>1. x \in Int /\ h \in Nat \ {0}
  BY IntsFacts
<1>2. Minus(Plus(x, h), 1) = y /\ y \in Ints
  BY RoundingUp
<1>3. y \in Int
  BY <1>1
<1>4. CASE y >= 0
  <2>1. y \in Nat /\ y < h
    BY <1>1, <1>4
  <2>2. y \div h = 0
    BY <1>1, <2>1, Quotients
  <2>3. Over(y, h) = y \div h
    BY <1>2, <1>4, OverNat
  <2> QED
    BY <1>2, <2>2, <2>3
<1>5. CASE y < 0
  <2>1. y <= 0
    BY <1>1, <1>5
  <2>2. Over(y, h) <= 0
    BY <1>2, <2>1, OverNegative
  <2> QED
    BY <1>2, <2>2
<1> QED
  BY <1>3, <1>4, <1>5

(* What is left of a number that is not positive is not either, ...        *)
LEMMA IdleTail ==
  ASSUME NEW l \in Loops(Reshapings), Fits(l), l.n <= 0
  PROVE  TailStart(l) >= TailLimit(l)
<1> DEFINE q == Over(l.n, l.h)
<1>1. l.n \in Ints /\ l.n \in Int /\ l.h \in Nat \ {0} /\ l.h \in 1 .. MaxFactor
  BY LoopForms
<1>2. q \in Ints /\ l.n <= l.h * q /\ q <= 0
  BY <1>1, OverNegative
<1>3. q \in Int /\ MaxInt \in Nat /\ -MaxInt - 1 <= l.n
  BY <1>1, <1>2, IntsFacts, MaxIntAssumption
<1> HIDE DEF q
<1>4. l.h * q \in Int /\ l.h * q <= 0 /\ q * l.h = l.h * q
  BY <1>1, <1>2, <1>3
<1>5. l.h * q \in Ints
  BY <1>1, <1>2, <1>3, <1>4, IntsFacts
<1>6. Times(l.h, q) = l.h * q /\ Times(q, l.h) = l.h * q
  BY <1>4, <1>5, WrapKeeps DEF Times
<1>7. CASE l.by.native
  BY <1>1, <1>2, <1>6, <1>7 DEF TailStart, TailLimit, q
<1>8. CASE ~l.by.native
  <2>1. l.n - l.h * q \in Int /\ l.n - l.h * q <= 0 /\ -MaxInt - 1 <= l.n - l.h * q
    BY <1>1, <1>2, <1>3, <1>4
  <2>2. l.n - l.h * q \in Ints
    BY <1>3, <2>1, IntsFacts
  <2>3. Rest(l.n, l.h) = l.n - l.h * q
    BY <1>1, <1>6, <2>2, WrapKeeps DEF Rest, Minus, q
  <2> QED
    BY <1>8, <2>1, <2>3 DEF TailStart, TailLimit
<1> QED
  BY <1>7, <1>8

(* ... and so the generated code of a loop without iterations runs nothing.*)
LEMMA Idles ==
  ASSUME NEW l \in Loops(Reshapings), Fits(l), l.n <= l.first
  PROVE  Idle(l)
<1> DEFINE n == l.n
           h == l.h
<1>1. /\ n \in Ints /\ n \in Int /\ l.first \in Int /\ l.first \in Ints
      /\ h \in Nat \ {0} /\ h \in Ints /\ h \in 1 .. MaxFactor
      /\ l.step \in 1 .. MaxFactor
      /\ l.by # Unrolling
      /\ MaxInt \in Nat \ {0}
  BY LoopForms, IntsFacts, MaxIntAssumption
<1>2. CASE l.by = Canonisation
  <2> DEFINE extent == n - l.first
  <2>1. /\ extent \in Ints /\ extent \in Int /\ extent <= 0 /\ extent + l.step - 1 <= MaxInt
        /\ ~HasTail(l)
    BY <1>1, <1>2, LoopForms DEF HasTail
  <2>2. Minus(n, l.first) = extent
    BY <2>1, WrapKeeps DEF Minus
  <2>3. Over(Minus(Plus(extent, l.step), 1), l.step) <= 0
    BY <1>1, <2>1, NothingToRound
  <2>4. OuterLimit(l) <= 0
    BY <1>2, <2>1, <2>2, <2>3 DEF OuterLimit, CanonicalLimit
  <2>5. OuterLimit(l) \in Int
    BY LimitsFit, IntsFacts
  <2> QED
    BY <2>1, <2>4, <2>5 DEF Idle
<1>3. CASE l.by = FullUnrolling
  <2>1. l.first = 0 /\ l.by # Canonisation /\ ~HasTail(l)
    BY <1>3, LoopForms DEF HasTail
  <2>2. OuterLimit(l) = n /\ n <= 0
    BY <1>3, <2>1 DEF OuterLimit
  <2> QED
    BY <1>1, <2>1, <2>2 DEF Idle
<1>4. CASE l.by \notin {Canonisation, FullUnrolling}
  <2>1. /\ l.first = 0 /\ n <= 0 /\ IsNesting(l) /\ NestingFits(l)
    BY <1>4, LoopForms
  <2>2. TailStart(l) >= TailLimit(l)
    BY <2>1, IdleTail
  <2>3. CASE ~l.by.outerBound
    <3>1. CASE l.by.tail
      <4>1. Over(n, h) <= 0 /\ Over(n, h) \in Int
        BY <1>1, <2>1, OverNegative, IntsFacts
      <4>2. OuterLimit(l) = Over(n, h)
        BY <1>1, <1>4, <2>3, <3>1 DEF OuterLimit, Strips
      <4> QED
        BY <2>2, <4>1, <4>2 DEF Idle
    <3>2. CASE ~l.by.tail
      <4>1. n + h - 1 <= MaxInt
        BY <2>1, <2>3, <3>2 DEF NestingFits
      <4>2. Over(Minus(Plus(n, h), 1), h) <= 0
        BY <1>1, <2>1, <4>1, NothingToRound
      <4>3. OuterLimit(l) = Over(Minus(Plus(n, h), 1), h)
        BY <1>1, <1>4, <2>3, <3>2 DEF OuterLimit, StripsRoundedUp
      <4>4. OuterLimit(l) \in Int
        BY LimitsFit, IntsFacts
      <4> QED
        BY <2>2, <4>2, <4>3, <4>4 DEF Idle
    <3> QED
      BY <3>1, <3>2
  <2>4. CASE l.by.outerBound /\ l.by.tail /\ ~l.by.native
    <3>1. Over(n, h) <= 0
      BY <1>1, <2>1, OverNegative
    <3>2. \A k : InnerStart(l, k) = 0 /\ InnerLimit(l, k) = Over(n, h)
      BY <1>4, <2>4 DEF InnerStart, InnerLimit, CountedLimit
    <3>3. Over(n, h) \in Int
      BY <1>1, <2>1, OverNegative, IntsFacts
    <3> QED
      BY <2>2, <3>1, <3>2, <3>3 DEF Idle
  <2>5. CASE l.by.outerBound /\ (l.by.native \/ ~l.by.tail)
    <3> DEFINE most == IF l.by.native /\ ~l.by.tail THEN h + 1 ELSE h
    <3>1. most * n \in Ints
      BY <1>1, <2>1, <2>5 DEF NestingFits
    <3>2. most \in Nat \ {0}
      BY <1>1
    <3>3. ASSUME NEW k \in Nat, k < OuterLimit(l)
          PROVE  k < most
      <4>1. CASE l.by.native /\ ~l.by.tail
        <5>1. OuterLimit(l) = Plus(h, 1)
          BY <1>1, <1>4, <2>5, <4>1 DEF OuterLimit
        <5>2. CASE h + 1 <= MaxInt
          <6>1. h + 1 \in Ints
            BY <1>1, <5>2, IntsFacts
          <6>2. Plus(h, 1) = h + 1
            BY <6>1, WrapKeeps DEF Plus
          <6> QED
            BY <3>3, <4>1, <5>1, <6>2
        <5>3. CASE h = MaxInt
          <6>1. Plus(h, 1) = MinInt
            BY <5>3, WrapsAround DEF Plus
          <6>2. MinInt < 0 /\ MinInt \in Int
            BY <1>1 DEF MinInt
          <6> QED
            BY <3>3, <5>1, <6>1, <6>2
        <5>4. h <= MaxInt
          BY <1>1, IntsFacts
        <5> QED
          BY <1>1, <5>2, <5>3, <5>4
      <4>2. CASE ~(l.by.native /\ ~l.by.tail)
        <5>1. OuterLimit(l) = h
          BY <1>1, <1>4, <2>5, <4>2 DEF OuterLimit
        <5> QED
          BY <3>3, <4>2, <5>1
      <4> QED
        BY <4>1, <4>2
    <3> HIDE DEF most
    <3>4. ASSUME NEW k \in Nat, k <= most
          PROVE  /\ k * n \in Ints /\ k * n <= 0 /\ k * n \in Int
                 /\ StripStart(l, k) = Over(k * n, h)
                 /\ StripStart(l, k) <= 0 /\ StripStart(l, k) \in Ints /\ StripStart(l, k) \in Int
      <4>1. k * n \in Int /\ k * n <= 0 /\ most * n <= k * n /\ most * n \in Int
        BY <1>1, <2>1, <3>2, <3>4
      <4>2. -MaxInt - 1 <= most * n
        BY <3>1, <4>1, IntsFacts
      <4>3. k * n \in Ints
        BY <1>1, <4>1, <4>2, IntsFacts
      <4>4. Times(k, n) = k * n
        BY <4>3, WrapKeeps DEF Times
      <4>5. Over(k * n, h) <= 0 /\ Over(k * n, h) \in Ints
        BY <1>1, <4>1, <4>3, OverNegative
      <4> QED
        BY <4>1, <4>3, <4>4, <4>5, IntsFacts DEF StripStart
    <3>5. ASSUME NEW k \in Nat, k < OuterLimit(l)
          PROVE  InnerStart(l, k) >= InnerLimit(l, k)
      <4>1. k <= most /\ k + 1 \in Nat /\ k + 1 <= most
        BY <3>2, <3>3, <3>5
      <4>2. (k + 1) * n <= k * n
        BY <1>1, <2>1
      <4>3. StripStart(l, k + 1) <= StripStart(l, k)
        BY <1>1, <3>4, <4>1, <4>2, OverGrows
      <4>4. /\ StripStart(l, k) <= 0 /\ StripStart(l, k) \in Int
            /\ StripStart(l, k + 1) <= 0 /\ StripStart(l, k + 1) \in Int /\ StripStart(l, k + 1) \in Ints
        BY <3>4, <4>1
      <4>5. CASE l.by.native
        <5>1. InnerStart(l, k) = StripStart(l, k)
          BY <2>5, <4>5 DEF InnerStart
        <5>2. InnerLimit(l, k) = IF l.by.tail THEN StripStart(l, k + 1) ELSE Lesser(StripStart(l, k + 1), n)
          BY <1>4, <2>5, <4>5 DEF InnerLimit, NativeLimit
        <5>3. InnerLimit(l, k) <= StripStart(l, k + 1) /\ InnerLimit(l, k) \in Int
          BY <1>1, <4>4, <5>2 DEF Lesser
        <5> QED
          BY <4>3, <4>4, <5>1, <5>3
      <4>6. CASE ~l.by.native
        <5> DEFINE x == StripStart(l, k + 1) - StripStart(l, k)
        <5>1. InnerStart(l, k) = 0
          BY <4>6 DEF InnerStart
        <5>2. InnerLimit(l, k) = Wrap(x)
          BY <1>4, <2>5, <4>6 DEF InnerLimit, CountedLimit, Minus
        <5>3. -MaxInt - 1 <= StripStart(l, k + 1)
          BY <4>4, IntsFacts
        <5>4. x \in Int /\ x <= 0 /\ -MaxInt - 1 <= x
          BY <1>1, <4>3, <4>4, <5>3
        <5>5. x \in Ints
          BY <1>1, <5>4, IntsFacts
        <5> QED
          BY <5>1, <5>2, <5>4, <5>5, WrapKeeps
      <4> QED
        BY <4>5, <4>6
    <3> QED
      BY <2>2, <3>5 DEF Idle
  <2> QED
    BY <2>3, <2>4, <2>5
<1> QED
  BY <1>2, <1>3, <1>4

-----------------------------------------------------------------------------
(* Where the generated code of a loop with iterations is tells how many    *)
(* are through, and what the counter holds if it is the generated loops    *)
(* that count with it.                                                     *)
AtOuter ==
  place = "outer" =>
    /\ i1 <= OuterLimit(loop)
    /\ Len(executed) = Through(loop, i1)
    /\ loop.by.native /\ i1 > 0 => counter = Through(loop, i1)
AtInner ==
  place = "inner" =>
    /\ i1 < OuterLimit(loop)
    /\ InnerStart(loop, i1) <= i2 /\ i2 <= InnerLimit(loop, i1)
    /\ Len(executed) = Position(loop, i1, i2)
    /\ loop.by.native => counter = i2
AtTail ==
  place = "tail" =>
    /\ HasTail(loop)
    /\ TailStart(loop) <= i2 /\ i2 <= TailLimit(loop)
    /\ Len(executed) = IF loop.by.native THEN i2 ELSE Through(loop, OuterLimit(loop)) + i2
    /\ loop.by.native => counter = i2
AtEnd ==
  /\ place \in {"after", "done"} => Len(executed) = Total(loop)
  /\ place = "after" /\ loop.by.native => counter = loop.n
  /\ place = "done" /\ loop.by # Canonisation => counter = loop.n

(* Without iterations nothing runs.                                        *)
Idling ==
  /\ executed = <<>>
  /\ place = "inner" => i1 < OuterLimit(loop) /\ i2 = InnerStart(loop, i1)
  /\ place = "tail" => HasTail(loop) /\ i2 = TailStart(loop)

(* The inductive invariant.                                                *)
LoopInv ==
  /\ loop \in Loops(Reshapings) /\ Fits(loop)
  /\ place \in {"outer", "inner", "tail", "after", "done"}
  /\ i1 \in Nat /\ i1 \in Ints /\ i2 \in Ints /\ counter \in Ints \cup {Unset}
  /\ executed \in Seq(Ints)
  /\ loop.first < loop.n => AtOuter /\ AtInner /\ AtTail /\ AtEnd
  /\ loop.n <= loop.first => Idling

(* The invariant holds at first, and every step keeps it.                  *)
LEMMA LoopStarts == Init => LoopInv
<1> SUFFICES ASSUME Init
             PROVE  LoopInv
  OBVIOUS
<1>1. PICK l \in Loops(Reshapings) : Fits(l) /\ Start(l)
  BY DEF Init, Reshapings
<1>2. /\ loop = l /\ place = "outer" /\ i1 = 0 /\ i2 = 0 /\ counter = Unset /\ executed = <<>>
  BY <1>1 DEF Start
<1>3. loop \in Loops(Reshapings) /\ Fits(loop)
  BY <1>1, <1>2
<1>4. 0 \in Ints /\ executed \in Seq(Ints) /\ Len(executed) = 0
  BY <1>2, IntsFacts
<1>5. loop.first < loop.n => AtOuter
  <2>1. loop.first < loop.n => OuterLimit(loop) \in Nat /\ Through(loop, 0) = 0
    BY <1>3, Planned DEF Plan, OuterPlan
  <2> QED
    BY <1>2, <1>4, <2>1 DEF AtOuter
<1>6. AtInner /\ AtTail /\ AtEnd /\ Idling
  BY <1>2 DEF AtInner, AtTail, AtEnd, Idling
<1> QED
  BY <1>2, <1>3, <1>4, <1>5, <1>6 DEF LoopInv

(* What the plan of the loop says of the strip that it is at.              *)
LEMMA Strip ==
  ASSUME LoopInv, loop.first < loop.n, i1 < OuterLimit(loop)
  PROVE  /\ OuterLimit(loop) \in Nat /\ Total(loop) \in Nat /\ Total(loop) \in Ints
         /\ Through(loop, i1) \in 0 .. Total(loop) /\ Through(loop, i1 + 1) \in 0 .. Total(loop)
         /\ Through(loop, i1) <= Through(loop, i1 + 1)
         /\ InnerStart(loop, i1) = IF loop.by.native THEN Through(loop, i1) ELSE 0
         /\ InnerLimit(loop, i1) = IF loop.by.native THEN Through(loop, i1 + 1)
                                    ELSE Through(loop, i1 + 1) - Through(loop, i1)
         /\ InnerStart(loop, i1) \in Nat /\ InnerLimit(loop, i1) \in Nat
         /\ InnerStart(loop, i1) <= InnerLimit(loop, i1) /\ InnerLimit(loop, i1) <= Total(loop)
         /\ Position(loop, i1, InnerStart(loop, i1)) = Through(loop, i1)
         /\ Position(loop, i1, InnerLimit(loop, i1)) = Through(loop, i1 + 1)
<1>1. loop \in Loops(Reshapings) /\ Fits(loop) /\ i1 \in Nat
  BY DEF LoopInv
<1>2. OuterPlan(loop) /\ InnerPlan(loop)
  BY <1>1, Planned DEF Plan
<1>3. /\ OuterLimit(loop) \in Nat /\ Total(loop) \in Nat /\ Total(loop) \in Ints
      /\ \A k \in 0 .. OuterLimit(loop) : Through(loop, k) \in 0 .. Total(loop)
  BY <1>2 DEF OuterPlan
<1>4. i1 \in 0 .. OuterLimit(loop) /\ i1 + 1 \in 0 .. OuterLimit(loop)
  BY <1>1, <1>3
<1>5. /\ Through(loop, i1) <= Through(loop, i1 + 1)
      /\ InnerStart(loop, i1) = IF loop.by.native THEN Through(loop, i1) ELSE 0
      /\ InnerLimit(loop, i1) = IF loop.by.native THEN Through(loop, i1 + 1)
                                 ELSE Through(loop, i1 + 1) - Through(loop, i1)
  BY <1>1, <1>2 DEF InnerPlan
<1>6. Through(loop, i1) \in 0 .. Total(loop) /\ Through(loop, i1 + 1) \in 0 .. Total(loop)
  BY <1>3, <1>4
<1>7. CASE loop.by.native
  BY <1>3, <1>5, <1>6, <1>7 DEF Position
<1>8. CASE ~loop.by.native
  BY <1>3, <1>5, <1>6, <1>8 DEF Position
<1> QED
  BY <1>3, <1>5, <1>6, <1>7, <1>8

LEMMA EnterInnerKeeps ==
  ASSUME LoopInv, EnterInner
  PROVE  LoopInv'
<1>1. /\ place = "outer" /\ i1 < OuterLimit(loop) /\ place' = "inner"
      /\ loop' = loop /\ i1' = i1 /\ executed' = executed
      /\ i2' = InnerStart(loop, i1)
      /\ counter' = IF loop.by.native THEN InnerStart(loop, i1) ELSE counter
  BY DEF EnterInner, SetInner
<1>2. /\ loop \in Loops(Reshapings) /\ Fits(loop) /\ i1 \in Nat /\ i1 \in Ints
      /\ counter \in Ints \cup {Unset} /\ executed \in Seq(Ints)
  BY DEF LoopInv
<1>3. i2' \in Ints /\ counter' \in Ints \cup {Unset}
  <2>1. InnerStart(loop, i1) \in Ints
    BY <1>2, LimitsFit
  <2> QED
    BY <1>1, <1>2, <2>1
<1>4. ASSUME loop.first < loop.n
      PROVE  (AtOuter /\ AtInner /\ AtTail /\ AtEnd)'
  <2>1. Len(executed) = Through(loop, i1)
    BY <1>1, <1>4 DEF LoopInv, AtOuter
  <2>2. AtInner'
    BY <1>1, <1>4, <2>1, Strip DEF AtInner
  <2>3. (AtOuter /\ AtTail /\ AtEnd)'
    BY <1>1 DEF AtOuter, AtTail, AtEnd
  <2> QED
    BY <2>2, <2>3
<1>5. ASSUME loop.n <= loop.first
      PROVE  Idling'
  BY <1>1, <1>5 DEF LoopInv, Idling
<1> QED
  BY <1>1, <1>2, <1>3, <1>4, <1>5 DEF LoopInv

LEMMA LeaveInnerKeeps ==
  ASSUME LoopInv, LeaveInner
  PROVE  LoopInv'
<1>1. /\ place = "inner" /\ i2 >= InnerLimit(loop, i1) /\ place' = "outer"
      /\ i1' = Plus(i1, OuterStep(loop))
      /\ loop' = loop /\ i2' = i2 /\ counter' = counter /\ executed' = executed
  BY DEF LeaveInner
<1>2. /\ loop \in Loops(Reshapings) /\ Fits(loop) /\ i1 \in Nat /\ i1 \in Ints /\ i2 \in Ints
      /\ counter \in Ints \cup {Unset} /\ executed \in Seq(Ints)
  BY DEF LoopInv
<1>3. i1 < OuterLimit(loop)
  <2>1. loop.first \in Int /\ loop.n \in Int
    BY <1>2, LoopForms
  <2>2. loop.first < loop.n \/ loop.n <= loop.first
    BY <2>1
  <2> QED
    BY <1>1, <2>2 DEF LoopInv, AtInner, Idling
<1>4. i1' = i1 + 1 /\ i1' \in Nat /\ i1' \in Ints /\ i1' <= OuterLimit(loop)
  <2>1. OuterLimit(loop) \in Ints /\ OuterLimit(loop) \in Int
    BY <1>2, LimitsFit, IntsFacts
  <2>2. i1 + 1 \in Nat /\ i1 + 1 <= OuterLimit(loop)
    BY <1>2, <1>3, <2>1
  <2>3. i1 + 1 \in Ints /\ Wrap(i1 + 1) = i1 + 1
    BY <2>1, <2>2, Kept
  <2>4. OuterStep(loop) = 1
    BY <1>2, LoopForms DEF OuterStep
  <2> QED
    BY <1>1, <2>2, <2>3, <2>4 DEF Plus
<1>5. ASSUME loop.first < loop.n
      PROVE  (AtOuter /\ AtInner /\ AtTail /\ AtEnd)'
  <2>1. /\ i2 <= InnerLimit(loop, i1) /\ Len(executed) = Position(loop, i1, i2)
        /\ loop.by.native => counter = i2
    BY <1>1, <1>5 DEF LoopInv, AtInner
  <2>2. i2 = InnerLimit(loop, i1)
    BY <1>1, <1>2, <1>3, <1>5, <2>1, Strip, IntsFacts
  <2>3. Len(executed) = Through(loop, i1 + 1) /\ (loop.by.native => counter = Through(loop, i1 + 1))
    BY <1>3, <1>5, <2>1, <2>2, Strip
  <2>4. AtOuter'
    BY <1>1, <1>4, <2>3 DEF AtOuter
  <2>5. (AtInner /\ AtTail /\ AtEnd)'
    BY <1>1 DEF AtInner, AtTail, AtEnd
  <2> QED
    BY <2>4, <2>5
<1>6. ASSUME loop.n <= loop.first
      PROVE  Idling'
  BY <1>1, <1>6 DEF LoopInv, Idling
<1> QED
  BY <1>1, <1>2, <1>4, <1>5, <1>6 DEF LoopInv

(* A copy of the body runs for the iteration that is due.                  *)
LEMMA BodyIsDue ==
  ASSUME LoopInv, place = "inner", i2 < InnerLimit(loop, i1)
  PROVE  /\ loop.first < loop.n /\ i1 < OuterLimit(loop) /\ i2 \in Nat
         /\ CounterOf(loop, i1, i2) = loop.first + loop.step * Len(executed)
         /\ Len(executed) = Position(loop, i1, i2) /\ Len(executed) \in Nat
         /\ Len(executed) < Total(loop)
         /\ loop.first + loop.step * Len(executed) < loop.n
<1>1. loop \in Loops(Reshapings) /\ Fits(loop) /\ i1 \in Nat /\ i2 \in Int /\ executed \in Seq(Ints)
  BY IntsFacts DEF LoopInv
<1>2. loop.first \in Int /\ loop.n \in Int
  BY <1>1, LoopForms
<1>3. loop.first < loop.n
  <2>1. ASSUME loop.n <= loop.first
        PROVE  FALSE
    <3>1. i1 < OuterLimit(loop) /\ i2 = InnerStart(loop, i1)
      BY <2>1 DEF LoopInv, Idling
    <3>2. InnerStart(loop, i1) >= InnerLimit(loop, i1)
      BY <1>1, <2>1, <3>1, Idles DEF Idle
    <3>3. InnerLimit(loop, i1) \in Int
      BY <1>1, LimitsFit
    <3> QED
      BY <1>1, <3>1, <3>2, <3>3
  <2> QED
    BY <1>2, <2>1
<1>4. i1 < OuterLimit(loop) /\ InnerStart(loop, i1) <= i2 /\ Len(executed) = Position(loop, i1, i2)
  BY <1>3 DEF LoopInv, AtInner
<1>5. i2 \in Nat /\ Len(executed) \in Nat
  BY <1>1, <1>3, <1>4, Strip
<1>6. Len(executed) < Total(loop)
  <2>1. CASE loop.by.native
    BY <1>3, <1>4, <1>5, <2>1, Strip DEF Position
  <2>2. CASE ~loop.by.native
    BY <1>3, <1>4, <1>5, <2>2, Strip DEF Position
  <2> QED
    BY <2>1, <2>2
<1>7. CounterOf(loop, i1, i2) = loop.first + loop.step * Len(executed)
  BY <1>1, <1>3, <1>4, <1>5, Planned DEF Plan, InnerPlan
<1>8. loop.first + loop.step * Len(executed) < loop.n
  BY <1>1, <1>3, <1>5, <1>6, Planned DEF Plan, OuterPlan
<1> QED
  BY <1>3, <1>4, <1>5, <1>6, <1>7, <1>8

(* The number of an iteration is one of the type, and so is the next one.  *)
LEMMA DueFits ==
  ASSUME LoopInv, loop.first + loop.step * Len(executed) < loop.n
  PROVE  loop.first + loop.step * Len(executed) \in Ints
<1>1. loop \in Loops(Reshapings) /\ Fits(loop) /\ executed \in Seq(Ints)
  BY DEF LoopInv
<1>2. /\ loop.first \in Int /\ loop.n \in Int /\ loop.step \in Nat
      /\ loop.first \in Ints /\ loop.n \in Ints
  BY <1>1, LoopForms
<1>3. loop.step * Len(executed) \in Nat
  BY <1>1, <1>2
<1>4. -MaxInt - 1 <= loop.first /\ loop.n <= MaxInt /\ MaxInt \in Nat
  BY <1>2, IntsFacts, MaxIntAssumption
<1>5. /\ loop.first + loop.step * Len(executed) \in Int
      /\ -MaxInt - 1 <= loop.first + loop.step * Len(executed)
      /\ loop.first + loop.step * Len(executed) <= MaxInt
  BY <1>2, <1>3, <1>4
<1> QED
  BY <1>5, IntsFacts

LEMMA RunBodyKeeps ==
  ASSUME LoopInv, RunBody
  PROVE  LoopInv'
<1> DEFINE due == loop.first + loop.step * Len(executed)
<1>1. /\ place = "inner" /\ i2 < InnerLimit(loop, i1) /\ place' = place
      /\ executed' = Append(executed, CounterOf(loop, i1, i2))
      /\ loop' = loop /\ i1' = i1 /\ i2' = Plus(i2, 1)
      /\ counter' = IF loop.by.native THEN Plus(i2, 1) ELSE counter
  BY DEF RunBody, SetInner
<1>2. /\ loop \in Loops(Reshapings) /\ Fits(loop) /\ i1 \in Nat /\ i1 \in Ints
      /\ counter \in Ints \cup {Unset} /\ executed \in Seq(Ints)
  BY DEF LoopInv
<1>3. /\ loop.first < loop.n /\ i1 < OuterLimit(loop) /\ i2 \in Nat
      /\ CounterOf(loop, i1, i2) = due /\ due < loop.n
      /\ Len(executed) = Position(loop, i1, i2)
  BY <1>1, BodyIsDue
<1>4. due \in Ints
  BY <1>3, DueFits
<1>5. executed' \in Seq(Ints) /\ Len(executed') = Len(executed) + 1
  BY <1>1, <1>2, <1>3, <1>4
<1>6. /\ i2' = i2 + 1 /\ i2' \in Ints /\ i2' \in Nat /\ i2' <= InnerLimit(loop, i1)
      /\ InnerStart(loop, i1) <= i2'
  <2>1. /\ InnerLimit(loop, i1) \in Nat /\ InnerLimit(loop, i1) <= Total(loop)
        /\ Total(loop) \in Nat /\ Total(loop) \in Ints
    BY <1>3, Strip
  <2>2. i2 + 1 \in Nat /\ i2 + 1 <= InnerLimit(loop, i1) /\ i2 + 1 <= Total(loop)
    BY <1>1, <1>3, <2>1
  <2>3. i2 + 1 \in Ints /\ Wrap(i2 + 1) = i2 + 1
    BY <2>1, <2>2, Kept
  <2>4. InnerStart(loop, i1) <= i2 /\ InnerStart(loop, i1) \in Nat
    BY <1>1, <1>3, Strip DEF LoopInv, AtInner
  <2>5. i2' = i2 + 1
    BY <1>1, <2>3 DEF Plus
  <2> QED
    BY <1>3, <2>2, <2>3, <2>4, <2>5
<1>7. counter' \in Ints \cup {Unset} /\ (loop.by.native => counter' = i2')
  BY <1>1, <1>2, <1>6
<1>8. Len(executed') = Position(loop, i1, i2')
  <2>1. Through(loop, i1) \in Nat
    BY <1>3, Strip
  <2> QED
    BY <1>3, <1>5, <1>6, <2>1 DEF Position
<1>9. AtInner'
  BY <1>1, <1>3, <1>6, <1>7, <1>8 DEF AtInner
<1>10. (AtOuter /\ AtTail /\ AtEnd)'
  BY <1>1 DEF AtOuter, AtTail, AtEnd
<1>11. ~(loop.n <= loop.first)
  BY <1>2, <1>3, LoopForms
<1> QED
  BY <1>1, <1>2, <1>5, <1>6, <1>7, <1>9, <1>10, <1>11 DEF LoopInv

(* What the plan says when the strips are through.                         *)
LEMMA Past ==
  ASSUME LoopInv, loop.first < loop.n
  PROVE  /\ OuterLimit(loop) \in Nat /\ Total(loop) \in Nat /\ Total(loop) \in Ints
         /\ Through(loop, OuterLimit(loop)) \in 0 .. Total(loop)
         /\ TailPlan(loop)
         /\ loop.first + loop.step * Total(loop) >= loop.n
         /\ \A p \in Nat : p < Total(loop) => loop.first + loop.step * p < loop.n
         /\ Through(loop, 0) = 0
<1>1. Plan(loop)
  BY Planned DEF LoopInv
<1> QED
  BY <1>1 DEF Plan, OuterPlan

LEMMA LeaveOuterKeeps ==
  ASSUME LoopInv, LeaveOuter
  PROVE  LoopInv'
<1> DEFINE past == Through(loop, OuterLimit(loop))
<1>1. /\ place = "outer" /\ i1 >= OuterLimit(loop)
      /\ loop' = loop /\ i1' = i1 /\ executed' = executed
      /\ HasTail(loop) => /\ place' = "tail" /\ i2' = TailStart(loop)
                          /\ counter' = IF loop.by.native THEN TailStart(loop) ELSE counter
      /\ ~HasTail(loop) => place' = "after" /\ i2' = i2 /\ counter' = counter
  BY DEF LeaveOuter, SetInner
<1>2. /\ loop \in Loops(Reshapings) /\ Fits(loop) /\ i1 \in Nat /\ i1 \in Ints /\ i2 \in Ints
      /\ counter \in Ints \cup {Unset} /\ executed \in Seq(Ints)
  BY DEF LoopInv
<1>3. i2' \in Ints /\ counter' \in Ints \cup {Unset} /\ place' \in {"tail", "after"}
  <2>1. TailStart(loop) \in Ints
    BY <1>2, LimitsFit
  <2> QED
    BY <1>1, <1>2, <2>1
<1>4. ASSUME loop.first < loop.n
      PROVE  (AtOuter /\ AtInner /\ AtTail /\ AtEnd)'
  <2>1. /\ Len(executed) = past /\ i1 = OuterLimit(loop) /\ past \in Nat /\ OuterLimit(loop) \in Nat
        /\ loop.by.native /\ i1 > 0 => counter = past
    BY <1>1, <1>2, <1>4, Past DEF LoopInv, AtOuter
  <2>2. TailPlan(loop) /\ past \in 0 .. Total(loop) /\ Total(loop) \in Nat
    BY <1>4, Past
  <2>3. CASE HasTail(loop)
    <3>1. /\ TailStart(loop) = IF loop.by.native THEN past ELSE 0
          /\ TailLimit(loop) = IF loop.by.native THEN loop.n ELSE loop.n - past
          /\ Total(loop) = loop.n
      BY <2>2, <2>3 DEF TailPlan
    <3>2. TailStart(loop) <= TailLimit(loop)
      BY <2>2, <3>1
    <3>3. AtTail'
      BY <1>1, <2>1, <2>3, <3>1, <3>2 DEF AtTail
    <3> QED
      BY <1>1, <2>3, <3>3 DEF AtOuter, AtInner, AtEnd
  <2>4. CASE ~HasTail(loop)
    <3>1. past = Total(loop) /\ (loop.by.native => OuterLimit(loop) > 0)
      BY <2>2, <2>4 DEF TailPlan
    <3>2. loop.by.native => counter = past /\ Total(loop) = loop.n
      <4>1. loop.by.native => loop.by # Canonisation
        BY <1>2, LoopForms
      <4> QED
        BY <2>1, <3>1, <4>1 DEF Total
    <3>3. AtEnd'
      BY <1>1, <2>1, <2>4, <3>1, <3>2 DEF AtEnd
    <3> QED
      BY <1>1, <2>4, <3>3 DEF AtOuter, AtInner, AtTail
  <2> QED
    BY <2>3, <2>4
<1>5. ASSUME loop.n <= loop.first
      PROVE  Idling'
  BY <1>1, <1>5 DEF LoopInv, Idling
<1> QED
  BY <1>1, <1>2, <1>3, <1>4, <1>5 DEF LoopInv

(* The tail runs the iteration that is due.                                *)
LEMMA TailIsDue ==
  ASSUME LoopInv, place = "tail", i2 < TailLimit(loop)
  PROVE  /\ loop.first < loop.n /\ HasTail(loop) /\ i2 \in Nat
         /\ loop.first = 0 /\ loop.step = 1 /\ Len(executed) \in Nat
         /\ TailCounterOf(loop, i2) = loop.first + loop.step * Len(executed)
         /\ loop.first + loop.step * Len(executed) < loop.n
         /\ i2 + 1 <= loop.n
<1> DEFINE past == Through(loop, OuterLimit(loop))
<1>1. /\ loop \in Loops(Reshapings) /\ Fits(loop) /\ i2 \in Int /\ executed \in Seq(Ints)
      /\ loop.first \in Int /\ loop.n \in Int
  BY IntsFacts, LoopForms DEF LoopInv
<1>2. loop.first < loop.n
  <2>1. ASSUME loop.n <= loop.first
        PROVE  FALSE
    <3>1. HasTail(loop) /\ i2 = TailStart(loop)
      BY <2>1 DEF LoopInv, Idling
    <3>2. TailStart(loop) >= TailLimit(loop)
      BY <1>1, <2>1, <3>1, Idles DEF Idle
    <3>3. TailLimit(loop) \in Int
      BY <1>1, LimitsFit, IntsFacts
    <3> QED
      BY <1>1, <3>1, <3>2, <3>3
  <2> QED
    BY <1>1, <2>1
<1>3. /\ HasTail(loop) /\ TailStart(loop) <= i2
      /\ Len(executed) = IF loop.by.native THEN i2 ELSE past + i2
  BY <1>2 DEF LoopInv, AtTail
<1>4. /\ loop.first = 0 /\ loop.step = 1 /\ Total(loop) = loop.n /\ past \in 0 .. loop.n
      /\ TailStart(loop) = IF loop.by.native THEN past ELSE 0
      /\ TailLimit(loop) = IF loop.by.native THEN loop.n ELSE loop.n - past
      /\ \A c \in Nat : TailStart(loop) <= c /\ c < TailLimit(loop) =>
           TailCounterOf(loop, c) = IF loop.by.native THEN c ELSE past + c
  BY <1>2, <1>3, Past DEF TailPlan
<1>5. i2 \in Nat
  BY <1>1, <1>3, <1>4
<1>6. TailCounterOf(loop, i2) = Len(executed)
  BY <1>3, <1>4, <1>5
<1>7. Len(executed) \in Nat /\ Len(executed) < loop.n /\ i2 + 1 <= loop.n
  BY <1>1, <1>3, <1>4, <1>5
<1>8. loop.first + loop.step * Len(executed) = Len(executed)
  BY <1>4, <1>7
<1> QED
  BY <1>2, <1>3, <1>4, <1>5, <1>6, <1>7, <1>8

LEMMA RunTailKeeps ==
  ASSUME LoopInv, RunTail
  PROVE  LoopInv'
<1> DEFINE due == loop.first + loop.step * Len(executed)
<1>1. /\ place = "tail" /\ i2 < TailLimit(loop) /\ place' = place
      /\ executed' = Append(executed, TailCounterOf(loop, i2))
      /\ loop' = loop /\ i1' = i1 /\ i2' = Plus(i2, 1)
      /\ counter' = IF loop.by.native THEN Plus(i2, 1) ELSE counter
  BY DEF RunTail, SetInner
<1>2. /\ loop \in Loops(Reshapings) /\ Fits(loop) /\ i1 \in Nat /\ i1 \in Ints
      /\ counter \in Ints \cup {Unset} /\ executed \in Seq(Ints)
      /\ loop.n \in Ints /\ loop.n \in Int
  BY LoopForms DEF LoopInv
<1>3. /\ loop.first < loop.n /\ HasTail(loop) /\ i2 \in Nat
      /\ loop.first = 0 /\ TailCounterOf(loop, i2) = due /\ due < loop.n /\ i2 + 1 <= loop.n
  BY <1>1, TailIsDue
<1>4. due \in Ints
  BY <1>3, DueFits
<1>5. executed' \in Seq(Ints) /\ Len(executed') = Len(executed) + 1
  BY <1>1, <1>2, <1>3, <1>4
<1>6. /\ TailStart(loop) <= i2 /\ TailStart(loop) \in Int /\ TailLimit(loop) \in Int
      /\ Len(executed) = IF loop.by.native THEN i2 ELSE Through(loop, OuterLimit(loop)) + i2
      /\ Through(loop, OuterLimit(loop)) \in Nat
  <2>1. /\ TailStart(loop) <= i2
        /\ Len(executed) = IF loop.by.native THEN i2 ELSE Through(loop, OuterLimit(loop)) + i2
    BY <1>1, <1>3 DEF LoopInv, AtTail
  <2>2. TailStart(loop) \in Int /\ TailLimit(loop) \in Int
    BY <1>2, LimitsFit, IntsFacts
  <2>3. Through(loop, OuterLimit(loop)) \in Nat
    BY <1>2, <1>3, Past
  <2> QED
    BY <2>1, <2>2, <2>3
<1>7. /\ i2' = i2 + 1 /\ i2' \in Ints /\ i2' <= TailLimit(loop) /\ TailStart(loop) <= i2'
  <2>1. i2 + 1 \in Nat /\ i2 + 1 <= TailLimit(loop)
    BY <1>1, <1>3, <1>6
  <2>2. i2 + 1 \in Ints /\ Wrap(i2 + 1) = i2 + 1
    BY <1>2, <1>3, <2>1, Kept
  <2>3. i2' = i2 + 1
    BY <1>1, <2>2 DEF Plus
  <2> QED
    BY <1>3, <1>6, <2>1, <2>2, <2>3
<1>8. counter' \in Ints \cup {Unset} /\ (loop.by.native => counter' = i2')
  BY <1>1, <1>2, <1>7
<1>9. Len(executed') = IF loop.by.native THEN i2' ELSE Through(loop, OuterLimit(loop)) + i2'
  BY <1>3, <1>5, <1>6, <1>7
<1>10. AtTail'
  BY <1>1, <1>3, <1>7, <1>8, <1>9 DEF AtTail
<1>11. (AtOuter /\ AtInner /\ AtEnd)'
  BY <1>1 DEF AtOuter, AtInner, AtEnd
<1>12. ~(loop.n <= loop.first)
  BY <1>2, <1>3
<1> QED
  BY <1>1, <1>2, <1>5, <1>7, <1>8, <1>10, <1>11, <1>12 DEF LoopInv

LEMMA LeaveTailKeeps ==
  ASSUME LoopInv, LeaveTail
  PROVE  LoopInv'
<1> DEFINE past == Through(loop, OuterLimit(loop))
<1>1. /\ place = "tail" /\ i2 >= TailLimit(loop) /\ place' = "after"
      /\ loop' = loop /\ i1' = i1 /\ i2' = i2 /\ counter' = counter /\ executed' = executed
  BY DEF LeaveTail
<1>2. loop \in Loops(Reshapings) /\ Fits(loop) /\ i2 \in Int
  BY IntsFacts DEF LoopInv
<1>3. ASSUME loop.first < loop.n
      PROVE  AtEnd'
  <2>1. /\ HasTail(loop) /\ i2 <= TailLimit(loop)
        /\ Len(executed) = IF loop.by.native THEN i2 ELSE past + i2
        /\ loop.by.native => counter = i2
    BY <1>1, <1>3 DEF LoopInv, AtTail
  <2>2. /\ TailLimit(loop) = IF loop.by.native THEN loop.n ELSE loop.n - past
        /\ Total(loop) = loop.n /\ past \in Nat /\ loop.n \in Nat
    BY <1>3, <2>1, Past DEF TailPlan
  <2>3. i2 = TailLimit(loop)
    BY <1>1, <1>2, <2>1, <2>2
  <2> QED
    BY <1>1, <2>1, <2>2, <2>3 DEF AtEnd
<1>4. (AtOuter /\ AtInner /\ AtTail)'
  BY <1>1 DEF AtOuter, AtInner, AtTail
<1>5. loop.n <= loop.first => Idling'
  BY <1>1 DEF LoopInv, Idling
<1> QED
  BY <1>1, <1>3, <1>4, <1>5 DEF LoopInv

LEMMA AssignCounterKeeps ==
  ASSUME LoopInv, AssignCounter
  PROVE  LoopInv'
<1>1. /\ place = "after" /\ place' = "done" /\ counter' = FinalCounter(loop)
      /\ loop' = loop /\ i1' = i1 /\ i2' = i2 /\ executed' = executed
  BY DEF AssignCounter
<1>2. /\ loop \in Loops(Reshapings) /\ Fits(loop) /\ counter \in Ints \cup {Unset}
      /\ loop.n \in Ints /\ loop.n \in Int
      /\ loop.by # Canonisation => loop.first = 0
      /\ loop.by = Canonisation => ~loop.by.native
  BY LoopForms DEF LoopInv
<1>3. counter' \in Ints \cup {Unset}
  BY <1>1, <1>2, IntsFacts DEF FinalCounter
<1>4. ASSUME loop.first < loop.n
      PROVE  AtEnd'
  <2>1. Len(executed) = Total(loop) /\ (loop.by.native => counter = loop.n)
    BY <1>1, <1>4 DEF LoopInv, AtEnd
  <2>2. loop.by # Canonisation => counter' = loop.n
    <3>1. CASE loop.by.native
      BY <1>1, <2>1, <3>1 DEF FinalCounter
    <3>2. CASE ~loop.by.native
      BY <1>1, <1>2, <1>4, <3>2 DEF FinalCounter
    <3> QED
      BY <3>1, <3>2
  <2> QED
    BY <1>1, <2>1, <2>2 DEF AtEnd
<1>5. (AtOuter /\ AtInner /\ AtTail)'
  BY <1>1 DEF AtOuter, AtInner, AtTail
<1>6. loop.n <= loop.first => Idling'
  BY <1>1 DEF LoopInv, Idling
<1> QED
  BY <1>1, <1>3, <1>4, <1>5, <1>6 DEF LoopInv

LEMMA LoopKeeps == LoopInv /\ [Next]_vars => LoopInv'
<1>1. LoopInv /\ UNCHANGED vars => LoopInv'
  BY DEF vars, LoopInv, AtOuter, AtInner, AtTail, AtEnd, Idling
<1> QED
  BY <1>1, EnterInnerKeeps, LeaveOuterKeeps, RunBodyKeeps, LeaveInnerKeeps, RunTailKeeps,
     LeaveTailKeeps, AssignCounterKeeps DEF Next

LEMMA LoopHolds == Spec => []LoopInv
BY LoopStarts, LoopKeeps, PTL DEF Spec

LEMMA LoopTyped == LoopInv => TypeOK
<1> SUFFICES ASSUME LoopInv
             PROVE  TypeOK
  OBVIOUS
<1>1. /\ loop.first \in Ints /\ loop.n \in Ints /\ loop.step \in Nat /\ loop.h \in Nat
  BY LoopForms DEF LoopInv
<1>2. \A k \in DOMAIN executed : executed[k] \in Ints
  BY DEF LoopInv
<1>3. i1 \in Ints /\ i2 \in Ints /\ counter \in Ints \cup {Unset}
  BY DEF LoopInv
<1> QED
  BY <1>1, <1>2, <1>3 DEF LoopInv, TypeOK

(* The limits, starts and counters of the generated code, and the values   *)
(* the copies of the body see for the counter, are numbers of its type.    *)
THEOREM LoopTypeCorrect == Spec => []TypeOK
BY LoopHolds, LoopTyped, PTL

LEMMA CounterOfInv == LoopInv => CounterAfter
<1> SUFFICES ASSUME LoopInv, place = "done", loop.n > 0, loop.by # Canonisation
             PROVE  counter = loop.n
  BY DEF CounterAfter
<1>1. loop.first = 0 /\ loop.n \in Int
  BY LoopForms DEF LoopInv
<1>2. loop.first < loop.n
  BY <1>1
<1> QED
  BY <1>2 DEF LoopInv, AtEnd

(* After strip mining, any form of nesting or full unrolling of a loop     *)
(* with iterations the counter holds the bound, as the original loop       *)
(* leaves it: by the assignment the transformation adds, or because the    *)
(* last generated loop counts with it.                                     *)
THEOREM CounterIsLeft == Spec => []CounterAfter
BY LoopHolds, CounterOfInv, PTL

(* Every copy of the body that runs is the next iteration of the original  *)
(* loop, and the generated code is left only when that has none left.      *)
LEMMA LoopStepsAsOriginal == LoopInv /\ [Next]_vars => [Original!Next]_Original!vars
<1> SUFFICES ASSUME LoopInv, [Next]_vars
             PROVE  [Original!Next]_Original!vars
  OBVIOUS
<1>1. CASE EnterInner \/ LeaveOuter \/ LeaveInner \/ LeaveTail \/ UNCHANGED vars
  <2>1. loop' = loop /\ executed' = executed /\ (place' = "done") = (place = "done")
    BY <1>1 DEF EnterInner, LeaveOuter, LeaveInner, LeaveTail, vars
  <2> QED
    BY <2>1 DEF Original!vars
<1>2. CASE RunBody
  <2>1. /\ place = "inner" /\ place' = place /\ loop' = loop
        /\ executed' = Append(executed, loop.first + loop.step * Len(executed))
        /\ loop.first + loop.step * Len(executed) < loop.n
    BY <1>2, BodyIsDue DEF RunBody
  <2> QED
    BY <2>1 DEF Original!Next, Original!Iterate, Original!Current
<1>3. CASE RunTail
  <2>1. /\ place = "tail" /\ place' = place /\ loop' = loop
        /\ executed' = Append(executed, loop.first + loop.step * Len(executed))
        /\ loop.first + loop.step * Len(executed) < loop.n
    BY <1>3, TailIsDue DEF RunTail
  <2> QED
    BY <2>1 DEF Original!Next, Original!Iterate, Original!Current
<1>4. CASE AssignCounter
  <2>1. place = "after" /\ place' = "done" /\ loop' = loop /\ executed' = executed
    BY <1>4 DEF AssignCounter
  <2>2. loop.first \in Int /\ loop.n \in Int /\ loop.step \in Nat
    BY LoopForms DEF LoopInv
  <2>3. loop.first + loop.step * Len(executed) >= loop.n
    <3>1. CASE loop.first < loop.n
      BY <2>1, <3>1, Past DEF LoopInv, AtEnd
    <3>2. CASE loop.n <= loop.first
      BY <2>2, <3>2 DEF LoopInv, Idling
    <3> QED
      BY <2>2, <3>1, <3>2
  <2> QED
    BY <2>1, <2>3 DEF Original!Next, Original!Finish, Original!Current
<1> QED
  BY <1>1, <1>2, <1>3, <1>4 DEF Next

(* The generated code runs the body for the iterations of the original     *)
(* loop, each once and in the original order, and is not left before the   *)
(* last: a loop made by strip mining, nesting, full unrolling or           *)
(* canonisation behaves as the original, for every header whose generated  *)
(* arithmetic fits the type.                                               *)
THEOREM ReshapingIsFaithful == Spec => FollowsOriginal
<1>1. Init => Original!Init
  <2> SUFFICES ASSUME Init
               PROVE  Original!Init
    OBVIOUS
  <2>1. loop \in Loops(Reshapings) /\ Fits(loop)
    BY LoopStarts DEF LoopInv
  <2>2. place = "outer" /\ executed = <<>>
    BY DEF Init, Start
  <2>3. loop.first \in Int /\ loop.n \in Int /\ loop.step \in Nat \ {0}
    BY <2>1, LoopForms
  <2> QED
    BY <2>2, <2>3 DEF Original!Init
<1> QED
  BY <1>1, LoopHolds, LoopStepsAsOriginal, PTL DEF Spec, FollowsOriginal, Original!Runs

-----------------------------------------------------------------------------
(* Unified nests.  w[k] is the first k rows put together.                  *)
Gathers(w, rows, n) ==
  /\ w = [k \in 1 .. n |-> w[k]]
  /\ w[1] = rows[1]
  /\ \A k \in 2 .. n : w[k] = w[k - 1] \o rows[k]

(* FlattenSeq is recursive; what solves its equation is what it returns.   *)
LEMMA FlattenIs ==
  ASSUME NEW rows, NEW n \in Nat \ {0}, Len(rows) = n, NEW w, Gathers(w, rows, n)
  PROVE  Unified!FlattenSeq(rows) = w[n]
<1> DEFINE Step(f, k) == IF k = 1 THEN rows[k] ELSE f[k - 1] \o rows[k]
           Solves(f) == f = [k \in 1 .. n |-> Step(f, k)]
           flat == CHOOSE f : Solves(f)
<1>1. \A k \in 1 .. n : w[k] = Step(w, k)
  <2> TAKE k \in 1 .. n
  <2>1. k = 1 \/ k \in 2 .. n
    OBVIOUS
  <2> QED
    BY <2>1 DEF Gathers
<1>2. Solves(w)
  <2> HIDE DEF Step
  <2> QED
    BY <1>1 DEF Gathers
<1>3. Unified!FlattenSeq(rows) = flat[n]
  BY DEF Unified!FlattenSeq
<1> HIDE DEF flat
<1>4. Solves(flat)
  <2> HIDE DEF Solves
  <2> QED
    BY <1>2 DEF flat
<1>5. \A k \in 1 .. n : flat[k] = Step(flat, k)
  <2> DEFINE g == [k \in 1 .. n |-> Step(flat, k)]
  <2>1. \A k \in 1 .. n : g[k] = Step(flat, k)
    <3> HIDE DEF Step
    <3> QED
      OBVIOUS
  <2>2. flat = g
    BY <1>4
  <2> HIDE DEF g, Step
  <2> QED
    BY <2>1, <2>2
<1>6. \A k \in 1 .. n : flat[k] = w[k]
  <2> DEFINE T == {k \in 1 .. n : flat[k] # w[k]}
  <2> SUFFICES ASSUME T # {}
               PROVE  FALSE
    OBVIOUS
  <2>1. T \in SUBSET Nat
    OBVIOUS
  <2> HIDE DEF T
  <2>2. PICK k \in T : \A y \in T : k <= y
    BY <2>1, LeastNatural
  <2>3. k \in 1 .. n /\ flat[k] # w[k] /\ \A m \in 1 .. n : m < k => flat[m] = w[m]
    BY <2>2 DEF T
  <2>4. k # 1 => flat[k - 1] = w[k - 1]
    BY <2>3
  <2>5. Step(flat, k) = Step(w, k)
    BY <2>4
  <2> HIDE DEF Step
  <2> QED
    BY <1>1, <1>5, <2>3, <2>5
<1> QED
  BY <1>3, <1>6

-----------------------------------------------------------------------------
(* The pair that iteration p of the unified loop runs.                     *)
Pair(nst, p) ==
  LET width == nst.m - nst.j0
  IN  <<nst.i0 + p \div width, nst.j0 + (p - width * (p \div width))>>

Pairs(nst, n) == [p \in 1 .. n |-> Pair(nst, p - 1)]
PairsFrom(nst, past, n) == [c \in 1 .. n |-> Pair(nst, past + c - 1)]

(* The bounds are integers.                                                *)
LEMMA Headers ==
  ASSUME NEW nst \in Unified!Nests
  PROVE  nst.i0 \in Int /\ nst.n \in Int /\ nst.j0 \in Int /\ nst.m \in Int
BY BoundsAssumption DEF Unified!Nests

(* The pairs of the first iterations and those of the next.                *)
LEMMA PairsJoin ==
  ASSUME NEW nst, NEW past \in Nat, NEW width \in Nat
  PROVE  Pairs(nst, past + width) = Pairs(nst, past) \o PairsFrom(nst, past, width)
<1> DEFINE S == {Pair(nst, p) : p \in Int}
           a == Pairs(nst, past)
           b == PairsFrom(nst, past, width)
           ab == Pairs(nst, past + width)
<1>1. \A p \in Int : Pair(nst, p) \in S
  OBVIOUS
<1> HIDE DEF S
<1>2. ASSUME NEW n \in Nat
      PROVE  /\ Pairs(nst, n) \in Seq(S) /\ Len(Pairs(nst, n)) = n
             /\ \A p \in 1 .. n : Pairs(nst, n)[p] = Pair(nst, p - 1)
  <2>1. \A p \in 1 .. n : Pair(nst, p - 1) \in S
    BY <1>1
  <2> QED
    BY <2>1 DEF Pairs
<1>3. b \in Seq(S) /\ Len(b) = width /\ \A c \in 1 .. width : b[c] = Pair(nst, past + c - 1)
  <2>1. \A c \in 1 .. width : Pair(nst, past + c - 1) \in S
    BY <1>1
  <2> QED
    BY <2>1 DEF PairsFrom
<1>4. /\ a \in Seq(S) /\ Len(a) = past
      /\ ab \in Seq(S) /\ Len(ab) = past + width
      /\ \A p \in 1 .. past : a[p] = Pair(nst, p - 1)
      /\ \A p \in 1 .. past + width : ab[p] = Pair(nst, p - 1)
  BY <1>2
<1> HIDE DEF a, b, ab
<1>5. /\ a \o b \in Seq(S) /\ Len(a \o b) = past + width
      /\ \A p \in 1 .. past : (a \o b)[p] = a[p]
      /\ \A p \in past + 1 .. past + width : (a \o b)[p] = b[p - past]
  BY <1>3, <1>4, ConcatIs
<1> DEFINE r == a \o b
<1>6. ASSUME NEW p \in 1 .. past + width
      PROVE  r[p] = ab[p]
  <2>1. CASE p <= past
    <3>1. p \in 1 .. past
      BY <2>1
    <3> QED
      BY <1>4, <1>5, <3>1
  <2>2. CASE p > past
    <3>1. p \in past + 1 .. past + width /\ p - past \in 1 .. width /\ past + (p - past) - 1 = p - 1
      BY <2>2
    <3>2. b[p - past] = Pair(nst, p - 1)
      BY <1>3, <3>1
    <3> QED
      BY <1>4, <1>5, <3>1, <3>2
  <2>3. p \in Int
    OBVIOUS
  <2> HIDE DEF r
  <2> QED
    BY <2>1, <2>2, <2>3
<1>7. a \o b = ab
  <2>1. r \in Seq(S) /\ Len(r) = past + width /\ \A p \in 1 .. past + width : r[p] = ab[p]
    BY <1>5, <1>6
  <2> HIDE DEF r
  <2>2. r = ab
    BY <1>4, <2>1
  <2> QED
    BY <2>2 DEF r
<1> QED
  BY <1>7 DEF a, b, ab

LEMMA PairsGrow ==
  ASSUME NEW nst, NEW n \in Nat
  PROVE  Append(Pairs(nst, n), Pair(nst, n)) = Pairs(nst, n + 1)
<1> DEFINE a == Pairs(nst, n)
           b == Pairs(nst, n + 1)
<1>1. /\ a = [p \in 1 .. n |-> a[p]] /\ b = [p \in 1 .. n + 1 |-> b[p]]
      /\ \A p \in 1 .. n : a[p] = Pair(nst, p - 1)
      /\ \A p \in 1 .. n + 1 : b[p] = Pair(nst, p - 1)
  BY DEF Pairs
<1> HIDE DEF a, b
<1>2. \A x : Append(a, x) = [p \in 1 .. n + 1 |-> IF p = n + 1 THEN x ELSE a[p]]
  BY <1>1
<1>3. \A p \in 1 .. n + 1 : b[p] = IF p = n + 1 THEN Pair(nst, n) ELSE a[p]
  BY <1>1
<1>4. Append(a, Pair(nst, n)) = [p \in 1 .. n + 1 |-> IF p = n + 1 THEN Pair(nst, n) ELSE a[p]]
  BY <1>2
<1>5. b = [p \in 1 .. n + 1 |-> IF p = n + 1 THEN Pair(nst, n) ELSE a[p]]
  BY <1>1, <1>3
<1> QED
  BY <1>4, <1>5 DEF a, b

(* A nest has its rows one after another.                                  *)
LEMMA RowsInOrder ==
  ASSUME NEW nst \in Unified!Nests, nst.i0 < nst.n, nst.j0 < nst.m
  PROVE  Unified!NestOrder(nst) = Pairs(nst, (nst.n - nst.i0) * (nst.m - nst.j0))
<1> DEFINE height == nst.n - nst.i0
           width == nst.m - nst.j0
           row(k) == Unified!Row(nst, nst.i0 + k - 1)
           rows == Unified!Rows(nst)
           w == [k \in 1 .. height |-> Pairs(nst, k * width)]
<1>1. height \in Nat \ {0} /\ width \in Nat \ {0} /\ nst.i0 \in Int /\ nst.j0 \in Int
  BY Headers
<1>2. /\ \A k \in 1 .. height : rows[k] = row(k)
      /\ rows = [k \in 1 .. height |-> row(k)]
  BY DEF Unified!Rows
<1>3. Len(rows) = height
  <2> HIDE DEF row, rows, height
  <2> QED
    BY <1>1, <1>2
<1>4. \A k : row(k) = [c \in 1 .. width |-> <<nst.i0 + k - 1, nst.j0 + c - 1>>]
  BY DEF Unified!Row
<1> HIDE DEF height, width, row, rows
<1>5. ASSUME NEW k \in Nat, NEW c \in 1 .. width
      PROVE  Pair(nst, k * width + c - 1) = <<nst.i0 + k, nst.j0 + c - 1>>
  <2> DEFINE p == k * width + c - 1
  <2>1. k * width \in Nat /\ p \in Nat /\ k * width = width * k
    BY <1>1, <1>5
  <2>2. width * k <= p /\ p < width * k + width
    BY <1>1, <1>5, <2>1
  <2>3. p \div width = k
    BY <1>1, <1>5, <2>1, <2>2, Quotients
  <2>4. Pair(nst, p) = <<nst.i0 + k, nst.j0 + (p - width * k)>>
    BY <2>3 DEF Pair, width
  <2>5. nst.j0 + (p - width * k) = nst.j0 + c - 1
    BY <1>1, <1>5, <2>1
  <2> QED
    BY <2>4, <2>5
<1>6. w[1] = rows[1]
  <2>1. \A c \in 1 .. width : Pair(nst, c - 1) = <<nst.i0 + 1 - 1, nst.j0 + c - 1>>
    <3> TAKE c \in 1 .. width
    <3>1. 0 * width + c - 1 = c - 1 /\ nst.i0 + 0 = nst.i0 + 1 - 1
      BY <1>1
    <3> QED
      BY <1>5, <3>1
  <2>2. 1 * width = width /\ 1 \in 1 .. height
    BY <1>1
  <2>3. w[1] = [c \in 1 .. width |-> Pair(nst, c - 1)]
    BY <2>2 DEF Pairs
  <2> QED
    BY <1>2, <1>4, <2>1, <2>2, <2>3
<1>7. ASSUME NEW k \in 2 .. height
      PROVE  w[k] = w[k - 1] \o rows[k]
  <2> DEFINE past == (k - 1) * width
  <2>1. k - 1 \in 1 .. height /\ k - 1 \in Nat /\ k \in 1 .. height
    BY <1>1
  <2>2. past \in Nat /\ k * width = past + width
    BY <1>1, <2>1
  <2>3. w[k - 1] = Pairs(nst, past) /\ w[k] = Pairs(nst, past + width)
    BY <2>1, <2>2
  <2>4. rows[k] = [c \in 1 .. width |-> <<nst.i0 + (k - 1), nst.j0 + c - 1>>]
    BY <1>1, <1>2, <1>4, <2>1
  <2>5. \A c \in 1 .. width : Pair(nst, past + c - 1) = <<nst.i0 + (k - 1), nst.j0 + c - 1>>
    BY <1>5, <2>1
  <2> HIDE DEF past, w
  <2>6. rows[k] = PairsFrom(nst, past, width)
    BY <2>4, <2>5 DEF PairsFrom
  <2>7. Pairs(nst, past + width) = Pairs(nst, past) \o rows[k]
    <3>1. past \in Nat /\ width \in Nat
      BY <1>1, <2>2
    <3> QED
      BY <2>6, <3>1, PairsJoin
  <2> QED
    BY <2>3, <2>7
<1>8. w = [k \in 1 .. height |-> w[k]] /\ w[height] = Pairs(nst, height * width)
  BY <1>1
<1> HIDE DEF w
<1>9. Gathers(w, rows, height)
  BY <1>6, <1>7, <1>8 DEF Gathers
<1>10. Unified!FlattenSeq(rows) = w[height]
  BY <1>1, <1>3, <1>9, FlattenIs
<1> QED
  BY <1>8, <1>10 DEF Unified!NestOrder, rows, height, width

(* A nest without rows, or with empty ones, has no pairs.                  *)
LEMMA NothingInOrder ==
  ASSUME NEW nst \in Unified!Nests, nst.n <= nst.i0 \/ nst.m <= nst.j0
  PROVE  Unified!NestOrder(nst) = <<>>
<1> DEFINE height == nst.n - nst.i0
           rows == Unified!Rows(nst)
           w == [k \in 1 .. height |-> <<>>]
<1>1. height \in Int
  BY Headers
<1>2. CASE height <= 0
  <2>1. rows = <<>>
    BY <1>1, <1>2 DEF Unified!Rows
  <2> QED
    BY <2>1 DEF Unified!NestOrder, Unified!FlattenSeq
<1>3. CASE height > 0
  <2>1. nst.m - nst.j0 \in Int /\ nst.m - nst.j0 <= 0
    BY <1>3, Headers
  <2>2. \A k : Unified!Row(nst, k) = <<>>
    BY <2>1 DEF Unified!Row
  <2>3. rows = [k \in 1 .. height |-> <<>>]
    BY <2>2 DEF Unified!Rows
  <2> HIDE DEF rows, height
  <2>4. /\ Len(rows) = height /\ height \in Nat \ {0} /\ w = [k \in 1 .. height |-> w[k]]
        /\ \A k \in 1 .. height : rows[k] = <<>> /\ w[k] = <<>>
    BY <1>1, <1>3, <2>3
  <2> HIDE DEF w
  <2>5. w[1] = rows[1]
    <3>1. 1 \in 1 .. height
      BY <2>4
    <3> QED
      BY <2>4, <3>1
  <2>6. \A k \in 2 .. height : w[k] = w[k - 1] \o rows[k]
    <3> TAKE k \in 2 .. height
    <3>1. k \in 1 .. height /\ k - 1 \in 1 .. height
      BY <2>4
    <3>2. rows[k] = <<>> /\ w[k] = <<>> /\ w[k - 1] = <<>>
      BY <2>4, <3>1
    <3>3. <<>> \o <<>> = <<>>
      OBVIOUS
    <3> QED
      BY <3>2, <3>3
  <2>7. Gathers(w, rows, height)
    BY <2>4, <2>5, <2>6 DEF Gathers
  <2>8. Unified!FlattenSeq(rows) = w[height]
    BY <2>4, <2>7, FlattenIs
  <2>9. w[height] = <<>>
    BY <2>4
  <2> QED
    BY <2>8, <2>9 DEF Unified!NestOrder, rows
<1> QED
  BY <1>1, <1>2, <1>3

-----------------------------------------------------------------------------
(* How far the unified loop is, and that it has not lost a pair.           *)
NestInv ==
  /\ nest \in Unified!Nests /\ ~Unified!BothNegative(nest)
  /\ running \in BOOLEAN /\ s \in Nat
  /\ s > 0 => s <= Unified!ExtentI * Unified!ExtentJ
  /\ pairs = Pairs(nest, s)
  /\ <<i, j>> = IF s = 0 THEN <<nest.i0, nest.j0>> ELSE Pair(nest, s - 1)
  /\ ~running => ~Unified!Remaining

(* The product of the extents is positive only where the nest has pairs.   *)
LEMMA Extents ==
  ASSUME nest \in Unified!Nests, ~Unified!BothNegative(nest)
  PROVE  /\ Unified!ExtentI \in Int /\ Unified!ExtentJ \in Int
         /\ Unified!ExtentI * Unified!ExtentJ \in Int
         /\ Unified!ExtentI * Unified!ExtentJ > 0 => nest.i0 < nest.n /\ nest.j0 < nest.m
<1> DEFINE a == Unified!ExtentI
           b == Unified!ExtentJ
<1>1. /\ nest.i0 \in Int /\ nest.n \in Int /\ nest.j0 \in Int /\ nest.m \in Int
      /\ a = nest.n - nest.i0 /\ b = nest.m - nest.j0
  BY Headers DEF Unified!ExtentI, Unified!ExtentJ
<1>2. a \in Int /\ b \in Int /\ a * b \in Int /\ (a >= 0 \/ b >= 0)
  BY <1>1 DEF Unified!BothNegative
<1> HIDE DEF a, b
<1>3. ASSUME a <= 0 \/ b <= 0
      PROVE  a * b <= 0
  <2>1. CASE a = 0 \/ b = 0
    BY <1>2, <2>1
  <2>2. CASE a < 0 /\ b > 0
    BY <1>2, <2>2
  <2>3. CASE a > 0 /\ b < 0
    BY <1>2, <2>3
  <2> QED
    BY <1>2, <1>3, <2>1, <2>2, <2>3
<1>4. a * b > 0 => a > 0 /\ b > 0
  BY <1>2, <1>3
<1> QED
  BY <1>1, <1>2, <1>4 DEF a, b

(* The division of the target language computes the pair.                  *)
LEMMA CountersOfPair ==
  ASSUME NestInv, Unified!Remaining
  PROVE  /\ s < Unified!ExtentI * Unified!ExtentJ
         /\ <<Unified!RowOf, Unified!ColumnOf>> = Pair(nest, s)
<1> DEFINE width == Unified!ExtentJ
<1>1. s \in Nat /\ s < Unified!ExtentI * Unified!ExtentJ
  BY DEF NestInv, Unified!Remaining
<1>2. width \in Nat \ {0} /\ width = nest.m - nest.j0
  <2>1. nest.j0 < nest.m /\ nest.j0 \in Int /\ nest.m \in Int
    BY <1>1, Extents, Headers DEF NestInv
  <2> QED
    BY <2>1 DEF Unified!ExtentJ
<1> HIDE DEF width
<1>3. Unified!Quotient(s, width) = s \div width
  BY <1>1, <1>2 DEF Unified!Quotient, Unified!Size
<1>4. Unified!Remainder(s, width) = s - width * (s \div width)
  BY <1>3 DEF Unified!Remainder
<1> QED
  BY <1>1, <1>2, <1>3, <1>4 DEF Unified!RowOf, Unified!ColumnOf, Pair, width

LEMMA NestStarts == Unified!Init => NestInv
<1> SUFFICES ASSUME Unified!Init
             PROVE  NestInv
  OBVIOUS
<1>1. /\ nest \in Unified!Nests /\ ~Unified!BothNegative(nest)
      /\ s = 0 /\ running = TRUE /\ i = nest.i0 /\ j = nest.j0 /\ pairs = <<>>
  BY DEF Unified!Init, Unified!Start
<1>2. Pairs(nest, 0) = <<>>
  BY DEF Pairs
<1> QED
  BY <1>1, <1>2 DEF NestInv

LEMMA NestKeeps == NestInv /\ [Unified!Next]_nestVars => NestInv'
<1> SUFFICES ASSUME NestInv, [Unified!Next]_nestVars
             PROVE  NestInv'
  OBVIOUS
<1>1. CASE Unified!Iterate
  <2>1. /\ running /\ Unified!Remaining
        /\ i' = Unified!RowOf /\ j' = Unified!ColumnOf /\ pairs' = Append(pairs, <<i', j'>>)
        /\ s' = s + 1 /\ nest' = nest /\ running' = running
    BY <1>1 DEF Unified!Iterate, Unified!Stepped
  <2>2. s \in Nat /\ s < Unified!ExtentI * Unified!ExtentJ /\ <<i', j'>> = Pair(nest, s)
    BY <2>1, CountersOfPair DEF NestInv
  <2>3. Unified!ExtentI' = Unified!ExtentI /\ Unified!ExtentJ' = Unified!ExtentJ
    BY <2>1 DEF Unified!ExtentI, Unified!ExtentJ
  <2>4. Unified!ExtentI * Unified!ExtentJ \in Int
    BY Extents DEF NestInv
  <2>5. s' > 0 => s' <= Unified!ExtentI' * Unified!ExtentJ'
    BY <2>1, <2>2, <2>3, <2>4
  <2>6. pairs' = Pairs(nest, s + 1)
    <3>1. pairs = Pairs(nest, s)
      BY DEF NestInv
    <3>2. Append(Pairs(nest, s), Pair(nest, s)) = Pairs(nest, s + 1)
      BY <2>2, PairsGrow
    <3> QED
      BY <2>1, <2>2, <3>1, <3>2
  <2>7. s + 1 - 1 = s /\ s + 1 # 0 /\ s + 1 \in Nat
    BY <2>2
  <2>8. nest' \in Unified!Nests /\ ~Unified!BothNegative(nest)' /\ running' \in BOOLEAN
    BY <2>1 DEF NestInv
  <2>9. <<i', j'>> = IF s' = 0 THEN <<nest'.i0, nest'.j0>> ELSE Pair(nest', s' - 1)
    BY <2>1, <2>2, <2>7
  <2> QED
    BY <2>1, <2>5, <2>6, <2>7, <2>8, <2>9 DEF NestInv
<1>2. CASE Unified!Leave
  BY <1>2 DEF Unified!Leave, NestInv, Unified!Remaining, Unified!ExtentI, Unified!ExtentJ
<1>3. CASE UNCHANGED nestVars
  BY <1>3 DEF nestVars, NestInv, Unified!Remaining, Unified!ExtentI, Unified!ExtentJ
<1> QED
  BY <1>1, <1>2, <1>3 DEF Unified!Next

LEMMA NestHolds == Program => []NestInv
<1>1. ProgramInit => NestInv
  BY NestStarts DEF ProgramInit
<1>2. NestInv /\ [RunLoop \/ RunNest]_<<vars, nestVars>> => NestInv'
  BY NestKeeps DEF RunLoop, RunNest
<1> QED
  BY <1>1, <1>2, PTL DEF Program

(* When the unified loop has ended, the block has run for exactly the      *)
(* pairs of the nest, in its order: what makeLoopNestUnification computes  *)
(* from the counter by division and remainder neither drops nor repeats    *)
(* nor moves a pair, for nests of any bounds but those reversed in both    *)
(* directions, whose product of extents is positive (BothNegative).        *)
THEOREM NestIsInOrder == Program => [](~running => pairs = Unified!NestOrder(nest))
<1>1. NestInv => (~running => pairs = Unified!NestOrder(nest))
  <2> SUFFICES ASSUME NestInv, ~running
               PROVE  pairs = Unified!NestOrder(nest)
    OBVIOUS
  <2> DEFINE product == Unified!ExtentI * Unified!ExtentJ
  <2>1. /\ nest \in Unified!Nests /\ product \in Int
        /\ product > 0 => nest.i0 < nest.n /\ nest.j0 < nest.m
    BY Extents DEF NestInv
  <2>2. s \in Nat /\ ~(s < product) /\ (s > 0 => s <= product) /\ pairs = Pairs(nest, s)
    BY DEF NestInv, Unified!Remaining
  <2>3. product = (nest.n - nest.i0) * (nest.m - nest.j0)
    BY DEF Unified!ExtentI, Unified!ExtentJ
  <2> HIDE DEF product
  <2>4. CASE nest.i0 < nest.n /\ nest.j0 < nest.m
    <3>1. product > 0
      <4> DEFINE a == nest.n - nest.i0
                 b == nest.m - nest.j0
      <4>1. a \in Nat \ {0} /\ b \in Nat \ {0}
        BY <2>1, <2>4, Headers
      <4> HIDE DEF a, b
      <4>2. a * b > 0
        BY <4>1
      <4> QED
        BY <2>3, <4>2 DEF a, b
    <3>2. s = product
      BY <2>1, <2>2, <3>1
    <3> QED
      BY <2>1, <2>2, <2>3, <2>4, <3>2, RowsInOrder
  <2>5. CASE ~(nest.i0 < nest.n /\ nest.j0 < nest.m)
    <3>1. s = 0
      BY <2>1, <2>2, <2>5
    <3>2. Pairs(nest, 0) = <<>>
      BY DEF Pairs
    <3>3. nest.n <= nest.i0 \/ nest.m <= nest.j0
      BY <2>1, <2>5, Headers
    <3> QED
      BY <2>1, <2>2, <3>1, <3>2, <3>3, NothingInOrder
  <2> QED
    BY <2>4, <2>5
<1> QED
  BY <1>1, NestHolds, PTL

-----------------------------------------------------------------------------
(* The whole program: the loop keeps its invariant while the nest runs.    *)
LEMMA ProgramHolds == Program => [](LoopInv /\ NestInv)
<1>1. ProgramInit => LoopInv
  BY LoopStarts DEF ProgramInit
<1>2. LoopInv /\ [RunLoop \/ RunNest]_<<vars, nestVars>> => LoopInv'
  BY LoopKeeps DEF RunLoop, RunNest
<1>3. Program => []LoopInv
  BY <1>1, <1>2, PTL DEF Program
<1> QED
  BY <1>3, NestHolds, PTL

LEMMA NestTyped == NestInv => Unified!TypeOK
<1> SUFFICES ASSUME NestInv
             PROVE  Unified!TypeOK
  OBVIOUS
<1> DEFINE product == Unified!ExtentI * Unified!ExtentJ
           width == nest.m - nest.j0
<1>1. /\ nest \in Unified!Nests /\ running \in BOOLEAN /\ s \in Nat /\ product \in Int
      /\ s > 0 => s <= product /\ nest.j0 < nest.m
      /\ nest.i0 \in Int /\ nest.j0 \in Int /\ nest.m \in Int
  BY Extents, Headers DEF NestInv
<1>2. ASSUME NEW p \in Nat, width > 0
      PROVE  Pair(nest, p) \in Int \X Int
  <2>1. width \in Nat \ {0} /\ width = nest.m - nest.j0
    BY <1>1, <1>2
  <2>2. Pair(nest, p) = <<nest.i0 + p \div width, nest.j0 + (p - width * (p \div width))>>
    BY DEF Pair
  <2> HIDE DEF width
  <2>3. p \div width \in Int /\ width * (p \div width) \in Int
    BY <1>2, <2>1
  <2> QED
    BY <1>1, <1>2, <2>2, <2>3
<1>3. s > 0 => width > 0
  BY <1>1
<1> HIDE DEF width
<1>4. pairs \in Seq(Int \X Int) /\ Len(pairs) = s /\ \A p \in 1 .. s : pairs[p] = Pair(nest, p - 1)
  <2>1. \A p \in 1 .. s : Pair(nest, p - 1) \in Int \X Int
    <3> TAKE p \in 1 .. s
    <3>1. p - 1 \in Nat /\ s > 0
      BY <1>1
    <3> QED
      BY <1>2, <1>3, <3>1
  <2>2. pairs = Pairs(nest, s)
    BY DEF NestInv
  <2> QED
    BY <1>1, <2>1, <2>2 DEF Pairs
<1>5. s \in 0 .. Unified!Size(product)
  <2> HIDE DEF product
  <2> QED
    BY <1>1 DEF Unified!Size
<1>6. <<i, j>> = IF pairs = <<>> THEN <<nest.i0, nest.j0>> ELSE Unified!Last(pairs)
  <2>1. pairs = <<>> <=> s = 0
    BY <1>1, <1>4
  <2>2. s # 0 => Unified!Last(pairs) = Pair(nest, s - 1)
    BY <1>1, <1>4 DEF Unified!Last
  <2> QED
    BY <2>1, <2>2 DEF NestInv
<1> QED
  BY <1>1, <1>4, <1>5, <1>6 DEF Unified!TypeOK

(* Of a program with a reshaped loop and a unified nest, every variable    *)
(* keeps its type, whatever integers the nest is bounded by.               *)
THEOREM ProgramTypeCorrect == Program => []Typed
BY ProgramHolds, LoopTyped, NestTyped, PTL DEF Typed

-----------------------------------------------------------------------------
(* The dependence graphs of the loops that are marked.  SumIs evaluates    *)
(* the sums of the model; GCDIsSound and BanerjeeIsSound show that two     *)
(* runs that touch an element pass both tests, LevelsAreFound that they    *)
(* do at the level of the loop that carries the dependence; LamportKnows,  *)
(* MontegoKnows and RefinedKnows that the graphs then have the arrow.      *)
CONSTANTS Nests, Kinds, Sequences, Targets
VARIABLES marked, target, phase, graph, arrows, private, reductions, path, ready, memory, own, held, order

Marked == INSTANCE MarkedLoop WITH nest <- marked

(* The sum of a function of at most three numbers.  The sum is recursive;  *)
(* what solves its equation is what it returns.                            *)
Term(f, k) == IF k \in DOMAIN f THEN f[k] ELSE 0

LEMMA SumIs ==
  ASSUME NEW f, DOMAIN f \subseteq 1 .. 3, \A k \in DOMAIN f : f[k] \in Int
  PROVE  Marked!SumFunction(f) = Term(f, 1) + Term(f, 2) + Term(f, 3)
<1> DEFINE S == DOMAIN f
           one(d) == CHOOSE x \in d : TRUE
           Body(h, d) == IF d = {} THEN 0 ELSE f[one(d)] + h[d \ {one(d)}]
           Solves(h) == h = [d \in SUBSET S |-> Body(h, d)]
           sum == CHOOSE h : Solves(h)
           part(d, k) == IF k \in d THEN f[k] ELSE 0
           g == [d \in SUBSET S |-> part(d, 1) + part(d, 2) + part(d, 3)]
<1>1. Marked!SumFunction(f) = sum[S]
  BY DEF Marked!SumFunction, Marked!SumFunctionOnSet, Marked!FoldFunctionOnSet, Marked!MapThenFoldSet
<1>2. \A d \in SUBSET S : d # {} => one(d) \in d
  OBVIOUS
<1> HIDE DEF one
<1>3. \A d \in SUBSET S : g[d] = part(d, 1) + part(d, 2) + part(d, 3)
  OBVIOUS
<1> HIDE DEF g
<1>4. \A d \in SUBSET S : g[d] = Body(g, d)
  <2> TAKE d \in SUBSET S
  <2>1. CASE d = {}
    BY <1>3, <2>1
  <2>2. CASE d # {}
    <3>1. one(d) \in d /\ d \ {one(d)} \in SUBSET S /\ one(d) \in 1 .. 3
      BY <1>2, <2>2
    <3>2. one(d) \in Nat /\ (one(d) = 1 \/ one(d) = 2 \/ one(d) = 3)
      BY <3>1
    <3>3. \A k \in 1 .. 3 : part(d, k) \in Int
      OBVIOUS
    <3>4. g[d] = part(d, 1) + part(d, 2) + part(d, 3)
      BY <1>3
    <3>5. g[d \ {one(d)}] = part(d \ {one(d)}, 1) + part(d \ {one(d)}, 2) + part(d \ {one(d)}, 3)
      BY <1>3, <3>1
    <3>6. \A k \in 1 .. 3 : part(d \ {one(d)}, k) = IF k = one(d) THEN 0 ELSE part(d, k)
      BY <3>2
    <3>7. part(d, one(d)) = f[one(d)]
      BY <3>1
    <3> HIDE DEF part
    <3>8. g[d] = f[one(d)] + g[d \ {one(d)}]
      BY <3>2, <3>3, <3>4, <3>5, <3>6, <3>7
    <3> QED
      BY <2>2, <3>8
  <2> QED
    BY <2>1, <2>2
<1>5. Solves(g)
  <2>1. g = [d \in SUBSET S |-> g[d]]
    BY DEF g
  <2> HIDE DEF Body
  <2> QED
    BY <1>4, <2>1
<1>6. Solves(sum)
  <2> HIDE DEF Solves
  <2> QED
    BY <1>5
<1> HIDE DEF sum
<1>7. \A d \in SUBSET S : sum[d] = Body(sum, d)
  <2> HIDE DEF Body
  <2>1. \A h : Solves(h) => \A d \in SUBSET S : h[d] = Body(h, d)
    OBVIOUS
  <2> HIDE DEF Solves
  <2> QED
    BY <1>6, <2>1
<1> HIDE DEF Solves
<1>8. ASSUME NEW d \in SUBSET S, \A x \in d : sum[d \ {x}] = g[d \ {x}]
      PROVE  sum[d] = g[d]
  <2>1. d # {} => one(d) \in d
    BY <1>2
  <2> QED
    BY <1>4, <1>7, <1>8, <2>1
<1>9. sum[{}] = g[{}]
  BY <1>8
<1>10. \A a \in S : sum[{a}] = g[{a}]
  <2> TAKE a \in S
  <2>1. \A x \in {a} : {a} \ {x} = {}
    OBVIOUS
  <2> QED
    BY <1>8, <1>9, <2>1
<1>11. \A a, b \in S : sum[{a, b}] = g[{a, b}]
  <2> TAKE a, b \in S
  <2>1. \A x \in {a, b} : {a, b} \ {x} = {} \/ {a, b} \ {x} = {a} \/ {a, b} \ {x} = {b}
    OBVIOUS
  <2> QED
    BY <1>8, <1>9, <1>10, <2>1
<1>12. sum[S] = g[S]
  <2>1. \A x \in S : S \ {x} = {} \/ \E a, b \in S : S \ {x} = {a, b}
    <3> TAKE x \in S
    <3> DEFINE D == S \ {x}
    <3>1. PICK p, q \in 1 .. 3 : 1 .. 3 = {x, p, q}
      BY x \in {1, 2, 3}
    <3>2. D \subseteq {p, q} /\ D \subseteq S
      BY <3>1
    <3>3. D = {} \/ D = {p, p} \/ D = {q, q} \/ D = {p, q}
      BY <3>2
    <3> QED
      BY <3>2, <3>3
  <2>2. \A x \in S : sum[S \ {x}] = g[S \ {x}]
    <3> TAKE x \in S
    <3>1. CASE S \ {x} = {}
      BY <1>9, <3>1
    <3>2. CASE \E a, b \in S : S \ {x} = {a, b}
      <4>1. PICK a, b \in S : S \ {x} = {a, b}
        BY <3>2
      <4>2. sum[{a, b}] = g[{a, b}]
        BY <1>11
      <4> QED
        BY <4>1, <4>2
    <3> QED
      BY <2>1, <3>1, <3>2
  <2>3. S \in SUBSET S
    OBVIOUS
  <2> HIDE DEF S
  <2> QED
    BY <1>8, <2>2, <2>3
<1> QED
  BY <1>1, <1>3, <1>12 DEF Term

-----------------------------------------------------------------------------
(* Multiples, and the test of the greatest common divisor.                 *)
Multiple(g, n) == \E k \in Int : n = g * k

LEMMA MultipleIs ==
  ASSUME NEW g \in Nat \ {0}, NEW n \in Int
  PROVE  n % g = 0 <=> Multiple(g, n)
<1>1. n % g = 0 => \E k \in Int : n = g * k
  OBVIOUS
<1>2. \A k \in Int : n = g * k => n % g = 0
  OBVIOUS
<1> QED
  BY <1>1, <1>2 DEF Multiple

LEMMA MultiplesAdd ==
  ASSUME NEW g \in Nat \ {0}, NEW m \in Int, NEW n \in Int, NEW c \in Int, Multiple(g, m), Multiple(g, n)
  PROVE  Multiple(g, m + n) /\ Multiple(g, m - n) /\ Multiple(g, m * c) /\ Multiple(g, -m)
<1>1. PICK h \in Int : m = g * h
  BY DEF Multiple
<1>2. PICK k \in Int : n = g * k
  BY DEF Multiple
<1>3. m + n = g * (h + k) /\ m - n = g * (h - k) /\ m * c = g * (h * c) /\ -m = g * (-h)
  BY <1>1, <1>2
<1>4. h + k \in Int /\ h - k \in Int /\ h * c \in Int /\ -h \in Int
  OBVIOUS
<1> QED
  BY <1>3, <1>4 DEF Multiple

LEMMA GreatestIs ==
  ASSUME NEW D \in SUBSET Nat, D # {}, NEW top \in Nat, \A d \in D : d <= top
  PROVE  Marked!Max(D) \in D /\ \A d \in D : d <= Marked!Max(D)
<1> DEFINE below == {top - d : d \in D}
<1>1. below \in SUBSET Nat /\ below # {}
  <2>1. \A d \in D : top - d \in Nat
    OBVIOUS
  <2>2. PICK d \in D : TRUE
    OBVIOUS
  <2> QED
    BY <2>1, <2>2
<1>2. PICK least \in below : \A b \in below : least <= b
  BY <1>1, LeastNatural
<1>3. PICK m \in D : least = top - m
  BY <1>2
<1>4. \A d \in D : m >= d
  <2> TAKE d \in D
  <2>1. least <= top - d
    BY <1>2
  <2> QED
    BY <1>3, <2>1
<1>5. \E x \in D : \A y \in D : x >= y
  BY <1>4
<1>6. Marked!Max(D) \in D /\ \A y \in D : Marked!Max(D) >= y
  BY <1>5 DEF Marked!Max
<1> QED
  BY <1>6

LEMMA DivisorDivides ==
  ASSUME NEW C \in SUBSET Nat, NEW top \in Nat, \A c \in C : c <= top, Marked!Divisor(C) # 0
  PROVE  Marked!Divisor(C) \in Nat \ {0} /\ \A c \in C : c % Marked!Divisor(C) = 0
<1>1. ~(C \subseteq {0})
  BY DEF Marked!Divisor
<1>2. Marked!Max(C) \in C /\ \A c \in C : c <= Marked!Max(C)
  BY <1>1, GreatestIs
<1>3. PICK m \in Nat : m = Marked!Max(C) /\ m >= 1
  <2>1. PICK c \in C : c # 0
    BY <1>1
  <2>2. c \in Nat /\ Marked!Max(C) \in Nat /\ c <= Marked!Max(C)
    BY <1>2
  <2> HIDE DEF Marked!Max
  <2> QED
    BY <2>1, <2>2
<1> DEFINE D == {d \in 1 .. m : \A c \in C : c % d = 0}
<1>4. 1 \in D
  BY <1>3
<1>5. D \in SUBSET Nat /\ D # {} /\ \A d \in D : d <= m
  <2>1. D \subseteq 1 .. m
    OBVIOUS
  <2>2. 1 .. m \subseteq Nat /\ \A d \in 1 .. m : d <= m
    OBVIOUS
  <2> HIDE DEF D
  <2> QED
    BY <1>4, <2>1, <2>2
<1>6. Marked!Divisor(C) = Marked!Max(D)
  BY <1>1, <1>3 DEF Marked!Divisor
<1>7. Marked!Max(D) \in D
  <2> HIDE DEF D
  <2> QED
    BY <1>3, <1>5, GreatestIs
<1>8. D \subseteq Nat \ {0}
  BY <1>3
<1> QED
  BY <1>6, <1>7, <1>8

LEMMA AbsoluteMultiple ==
  ASSUME NEW g \in Nat \ {0}, NEW n \in Int, Marked!Size(n) % g = 0
  PROVE  Multiple(g, n)
<1>1. Marked!Size(n) = n \/ Marked!Size(n) = -n
  BY DEF Marked!Size, Marked!Pos, Marked!Neg
<1>2. CASE Marked!Size(n) = n
  BY <1>2, MultipleIs
<1>3. CASE Marked!Size(n) = -n
  <2>1. -n \in Int /\ -(-n) = n /\ (-n) % g = 0
    BY <1>3
  <2>2. Multiple(g, -n)
    BY <2>1, MultipleIs
  <2> QED
    BY <2>1, <2>2, MultiplesAdd
<1> QED
  BY <1>1, <1>2, <1>3

(* A run v gives a subscript z a counter for each of its coefficients, and *)
(* so the element that is touched.                                         *)
Around(z) == 1 .. Len(z) - 1
Indexes(z, v) == /\ z \in Seq(Int) /\ Len(z) \in {2, 3}
              /\ DOMAIN v = Around(z) /\ \A k \in Around(z) : v[k] \in Int
Part(z, v, k) == IF k \in Around(z) THEN z[k] * v[k] ELSE 0
Element(z, v) == Part(z, v, 1) + Part(z, v, 2) + Marked!Last(z)
Free(z) == z[Len(z)]

LEMMA IndexesFacts ==
  ASSUME NEW z, NEW v, Indexes(z, v)
  PROVE  /\ Free(z) \in Int /\ Marked!Last(z) = Free(z)
         /\ 1 \in Around(z) /\ \A k \in Around(z) : k = 1 \/ k = 2
         /\ \A k \in Around(z) : z[k] \in Int /\ v[k] \in Int /\ k \in DOMAIN z
         /\ DOMAIN z \subseteq 1 .. 3 /\ \A k \in DOMAIN z : z[k] \in Int
         /\ \A k : Part(z, v, k) \in Int
         /\ Element(z, v) = Part(z, v, 1) + Part(z, v, 2) + Free(z)
<1>1. z \in [1 .. Len(z) -> Int] /\ (Len(z) = 2 \/ Len(z) = 3)
  BY DEF Indexes
<1>2. DOMAIN z = 1 .. Len(z) /\ \A k \in 1 .. Len(z) : z[k] \in Int
  BY <1>1
<1>3. Len(z) \in 1 .. Len(z) /\ Around(z) \subseteq 1 .. Len(z) /\ 1 \in Around(z)
      /\ \A k \in Around(z) : k = 1 \/ k = 2
  BY <1>1 DEF Around
<1>4. 1 .. Len(z) \subseteq 1 .. 3
  BY <1>1
<1>5. \A k \in Around(z) : v[k] \in Int /\ z[k] \in Int
  BY <1>2, <1>3 DEF Indexes
<1>6. \A k : Part(z, v, k) \in Int
  BY <1>5 DEF Part
<1> QED
  BY <1>2, <1>3, <1>4, <1>5, <1>6 DEF Marked!Last, Element, Free

LEMMA ElementIs ==
  ASSUME NEW z, NEW v, Indexes(z, v)
  PROVE  Marked!SumFunction([k \in DOMAIN v |-> z[k] * v[k]]) = Part(z, v, 1) + Part(z, v, 2)
<1> DEFINE f == [k \in Around(z) |-> z[k] * v[k]]
<1>1. DOMAIN f \subseteq 1 .. 3 /\ \A k \in DOMAIN f : f[k] \in Int
  <2>1. \A k \in Around(z) : z[k] * v[k] \in Int /\ k \in 1 .. 3
    BY IndexesFacts
  <2> QED
    BY <2>1
<1>2. \A k : Term(f, k) = Part(z, v, k)
  BY DEF Part, Term
<1>3. Marked!SumFunction(f) = Term(f, 1) + Term(f, 2) + Term(f, 3)
  <2> HIDE DEF f
  <2> QED
    BY <1>1, SumIs
<1>4. Part(z, v, 3) = 0
  <2>1. 3 \notin Around(z)
    BY IndexesFacts
  <2> QED
    BY <2>1 DEF Part
<1>5. Part(z, v, 1) \in Int /\ Part(z, v, 2) \in Int
  BY IndexesFacts
<1> HIDE DEF f
<1>6. Marked!SumFunction(f) = Part(z, v, 1) + Part(z, v, 2)
  BY <1>2, <1>3, <1>4, <1>5
<1>7. DOMAIN v = Around(z)
  BY DEF Indexes
<1> QED
  BY <1>6, <1>7 DEF f

(* The first counters of two runs are equal. *)
EqualFor(x, v, y, w, equal) ==
  /\ equal \in 0 .. 2 /\ 1 .. equal \subseteq Around(x) /\ 1 .. equal \subseteq Around(y)
  /\ \A k \in 1 .. equal : v[k] = w[k]

(* Two runs that touch the same element pass the test. *)
LEMMA GCDIsSound ==
  ASSUME NEW x, NEW y, NEW v, NEW w, NEW equal, Indexes(x, v), Indexes(y, w), EqualFor(x, v, y, w, equal),
         Element(x, v) = Element(y, w)
  PROVE  Marked!GCDTest(x, y, equal)
<1> DEFINE apart == {Marked!Size(x[k] - y[k]) : k \in 1 .. equal}
           alone(z) == {Marked!Size(z[k]) : k \in equal + 1 .. Len(z) - 1}
           C == apart \union alone(x) \union alone(y)
           g == Marked!Divisor(C)
<1> SUFFICES ASSUME g # 0
             PROVE  (Marked!Last(x) - Marked!Last(y)) % g = 0
  BY DEF Marked!GCDTest
<1>1. \A n \in Int : Marked!Size(n) \in Nat
  BY DEF Marked!Size, Marked!Pos, Marked!Neg
<1>2. ASSUME NEW z, NEW u, Indexes(z, u)
      PROVE  \A k \in equal + 1 .. Len(z) - 1 : k \in Around(z) /\ z[k] \in Int /\ (k = 1 \/ k = 2)
  <2>1. equal \in Nat
    BY DEF EqualFor
  <2>2. Len(z) \in Int
    BY <1>2 DEF Indexes
  <2>3. \A k \in equal + 1 .. Len(z) - 1 : k \in Around(z)
    BY <2>1, <2>2 DEF Around
  <2> QED
    BY <1>2, <2>3, IndexesFacts
<1>3. \A k \in 1 .. equal : x[k] \in Int /\ y[k] \in Int /\ x[k] - y[k] \in Int /\ (k = 1 \/ k = 2)
  <2> TAKE k \in 1 .. equal
  <2>1. k \in Around(x) /\ k \in Around(y)
    BY DEF EqualFor
  <2>2. x[k] \in Int /\ (k = 1 \/ k = 2)
    BY <2>1, IndexesFacts
  <2>3. y[k] \in Int
    BY <2>1, IndexesFacts
  <2> QED
    BY <2>2, <2>3
<1>4. C \in SUBSET Nat
  <2>1. apart \in SUBSET Nat
    BY <1>1, <1>3
  <2>2. alone(x) \in SUBSET Nat
    BY <1>1, <1>2
  <2>3. alone(y) \in SUBSET Nat
    BY <1>1, <1>2
  <2> HIDE DEF apart, alone
  <2> QED
    BY <2>1, <2>2, <2>3
<1>5. \E top \in Nat : \A c \in C : c <= top
  <2> DEFINE size(k) == IF k \in 1 .. equal THEN Marked!Size(x[k] - y[k]) ELSE 0
             one(z, k) == IF k \in equal + 1 .. Len(z) - 1 THEN Marked!Size(z[k]) ELSE 0
  <2>1. \A k : size(k) \in Nat
    BY <1>1, <1>3
  <2>2. \A k : one(x, k) \in Nat
    BY <1>1, <1>2
  <2>3. \A k : one(y, k) \in Nat
    BY <1>1, <1>2
  <2>4. \A c \in apart : c = size(1) \/ c = size(2)
    BY <1>3
  <2>5. \A c \in alone(x) : c = one(x, 1) \/ c = one(x, 2)
    BY <1>2
  <2>6. \A c \in alone(y) : c = one(y, 1) \/ c = one(y, 2)
    BY <1>2
  <2> DEFINE top == size(1) + size(2) + one(x, 1) + one(x, 2) + one(y, 1) + one(y, 2)
  <2> HIDE DEF size, one, apart, alone
  <2>7. top \in Nat /\ size(1) <= top /\ size(2) <= top /\ one(x, 1) <= top /\ one(x, 2) <= top
        /\ one(y, 1) <= top /\ one(y, 2) <= top
    BY <2>1, <2>2, <2>3
  <2> HIDE DEF top
  <2>8. \A c \in C : c <= top
    BY <2>4, <2>5, <2>6, <2>7
  <2> QED
    BY <2>7, <2>8
<1>6. g \in Nat \ {0} /\ \A c \in C : c % g = 0
  <2> HIDE DEF C
  <2> QED
    BY <1>4, <1>5, DivisorDivides
<1> DEFINE Closed == \A m, n \in Int : Multiple(g, m) /\ Multiple(g, n) => Multiple(g, m + n) /\ Multiple(g, m - n) /\ Multiple(g, -m)
           Scaled == \A m, c \in Int : Multiple(g, m) => Multiple(g, m * c)
<1> HIDE DEF g
<1>7. \A n \in Int : Marked!Size(n) \in C => Multiple(g, n)
  BY <1>6, AbsoluteMultiple
<1>8. \A k \in 1 .. equal : Multiple(g, x[k] - y[k])
  <2> TAKE k \in 1 .. equal
  <2>1. Marked!Size(x[k] - y[k]) \in C /\ x[k] - y[k] \in Int
    BY <1>3
  <2> HIDE DEF C
  <2> QED
    BY <1>7, <2>1
<1>9. \A k \in equal + 1 .. Len(x) - 1 : Multiple(g, x[k])
  <2> TAKE k \in equal + 1 .. Len(x) - 1
  <2>1. Marked!Size(x[k]) \in alone(x) /\ x[k] \in Int
    BY <1>2
  <2> HIDE DEF alone
  <2> QED
    BY <1>7, <2>1
<1>10. \A k \in equal + 1 .. Len(y) - 1 : Multiple(g, y[k])
  <2> TAKE k \in equal + 1 .. Len(y) - 1
  <2>1. Marked!Size(y[k]) \in alone(y) /\ y[k] \in Int
    BY <1>2
  <2> HIDE DEF alone
  <2> QED
    BY <1>7, <2>1
<1> HIDE DEF C
<1>11. Multiple(g, 0)
  BY <1>6 DEF Multiple
<1>12. Closed /\ Scaled
  BY <1>6, MultiplesAdd
<1>13. \A k \in {1, 2} : Part(x, v, k) \in Int /\ Part(y, w, k) \in Int
  BY IndexesFacts
<1>14. \A k \in {1, 2} : Multiple(g, Part(x, v, k) - Part(y, w, k))
  <2> TAKE k \in {1, 2}
  <2>1. CASE k \in 1 .. equal
    <3>1. k \in Around(x) /\ k \in Around(y) /\ w[k] = v[k]
      BY <2>1 DEF EqualFor
    <3>2. v[k] \in Int /\ x[k] \in Int /\ y[k] \in Int
      BY <3>1, IndexesFacts
    <3>3. Part(x, v, k) = x[k] * v[k] /\ Part(y, w, k) = y[k] * v[k]
      BY <3>1 DEF Part
    <3>4. x[k] * v[k] - y[k] * v[k] = (x[k] - y[k]) * v[k] /\ x[k] - y[k] \in Int
      BY <3>2
    <3>5. Multiple(g, (x[k] - y[k]) * v[k])
      BY <1>8, <1>12, <2>1, <3>2, <3>4
    <3> QED
      BY <3>3, <3>4, <3>5
  <2>2. CASE k \notin 1 .. equal
    <3>1. ASSUME NEW z, NEW u, Indexes(z, u), k \in Around(z)
          PROVE  k \in equal + 1 .. Len(z) - 1
      <4>1. equal \in Nat
        BY DEF EqualFor
      <4>2. Len(z) \in Int
        BY <3>1 DEF Indexes
      <4> QED
        BY <2>2, <3>1, <4>1, <4>2 DEF Around
    <3>2. Multiple(g, Part(x, v, k))
      <4>1. CASE k \in Around(x)
        <5>1. Multiple(g, x[k]) /\ x[k] \in Int /\ v[k] \in Int
          BY <1>9, <3>1, <4>1, IndexesFacts
        <5> QED
          BY <1>12, <4>1, <5>1 DEF Part
      <4> QED
        BY <1>11, <4>1 DEF Part
    <3>3. Multiple(g, Part(y, w, k))
      <4>1. CASE k \in Around(y)
        <5>1. Multiple(g, y[k]) /\ y[k] \in Int /\ w[k] \in Int
          BY <1>10, <3>1, <4>1, IndexesFacts
        <5> QED
          BY <1>12, <4>1, <5>1 DEF Part
      <4> QED
        BY <1>11, <4>1 DEF Part
    <3> QED
      BY <1>12, <1>13, <3>2, <3>3
  <2> QED
    BY <2>1, <2>2
<1> DEFINE first == Part(x, v, 1) - Part(y, w, 1)
           second == Part(x, v, 2) - Part(y, w, 2)
<1>15. first \in Int /\ second \in Int /\ Multiple(g, first) /\ Multiple(g, second)
  BY <1>13, <1>14
<1>16. Free(x) \in Int /\ Free(y) \in Int /\ Marked!Last(x) = Free(x) /\ Marked!Last(y) = Free(y)
       /\ Part(x, v, 1) + Part(x, v, 2) + Free(x) = Part(y, w, 1) + Part(y, w, 2) + Free(y)
  <2>1. Free(x) \in Int /\ Marked!Last(x) = Free(x) /\ Element(x, v) = Part(x, v, 1) + Part(x, v, 2) + Free(x)
    BY IndexesFacts
  <2>2. Free(y) \in Int /\ Marked!Last(y) = Free(y) /\ Element(y, w) = Part(y, w, 1) + Part(y, w, 2) + Free(y)
    BY IndexesFacts
  <2> QED
    BY <2>1, <2>2
<1>17. Free(x) - Free(y) = -(first + second)
  BY <1>13, <1>16
<1> HIDE DEF first, second
<1>18. first + second \in Int /\ Multiple(g, first + second)
  BY <1>12, <1>15
<1>19. Multiple(g, -(first + second))
  BY <1>12, <1>18
<1> QED
  BY <1>6, <1>16, <1>17, <1>19, MultipleIs

-----------------------------------------------------------------------------
(* Banerjee's test.                                                        *)
LEMMA ProductsGrow ==
  ASSUME NEW c \in Nat, NEW a \in Int, NEW b \in Int, a <= b
  PROVE  c * a <= c * b
<1>1. b - a \in Nat /\ c * (b - a) \in Nat
  OBVIOUS
<1>2. c * (b - a) = c * b - c * a /\ c * b \in Int /\ c * a \in Int
  OBVIOUS
<1> QED
  BY <1>1, <1>2

LEMMA SignsAre ==
  ASSUME NEW r \in Int
  PROVE  /\ Marked!Pos(r) \in Nat /\ Marked!Neg(r) \in Nat /\ r = Marked!Pos(r) - Marked!Neg(r)
         /\ r <= Marked!Pos(r) /\ -r <= Marked!Neg(r)
BY DEF Marked!Pos, Marked!Neg

LEMMA ProductIsBounded ==
  ASSUME NEW r \in Int, NEW n \in Int, NEW t \in Int, 0 <= t, t <= n
  PROVE  -(Marked!Neg(r) * n) <= r * t /\ r * t <= Marked!Pos(r) * n
<1>1. PICK p \in Nat : p = Marked!Pos(r)
  BY SignsAre
<1>2. PICK m \in Nat : m = Marked!Neg(r)
  BY SignsAre
<1>3. r = p - m
  BY <1>1, <1>2, SignsAre
<1>4. r * t = p * t - m * t /\ p * t \in Int /\ m * t \in Int /\ p * n \in Int /\ m * n \in Int
  BY <1>3
<1>5. 0 <= p * t /\ p * t <= p * n /\ 0 <= m * t /\ m * t <= m * n
  <2>1. p * t <= p * n /\ m * t <= m * n
    BY ProductsGrow
  <2>2. p * 0 <= p * t /\ m * 0 <= m * t
    BY ProductsGrow
  <2>3. p * 0 = 0 /\ m * 0 = 0
    OBVIOUS
  <2> QED
    BY <2>1, <2>2, <2>3
<1>6. -(m * n) <= r * t /\ r * t <= p * n
  BY <1>4, <1>5
<1> QED
  BY <1>1, <1>2, <1>6

(* In the loop that carries the dependence. *)
LEMMA ApartIsBounded ==
  ASSUME NEW x \in Int, NEW y \in Int, NEW n \in Int, NEW a \in Int, NEW b \in Int, 0 <= a, a < b, b <= n
  PROVE  /\ -y - Marked!Pos(Marked!Neg(x) + y) * (n - 1) <= x * a - y * b
         /\ x * a - y * b <= -y + Marked!Pos(Marked!Pos(x) - y) * (n - 1)
<1> DEFINE t == b - a - 1
<1>1. t \in Int /\ 0 <= t /\ 0 <= a + t /\ a + t <= n - 1 /\ b = a + t + 1 /\ n - 1 \in Int /\ a + t \in Int
  OBVIOUS
<1> HIDE DEF t
<1>2. /\ x * a - y * b = -y + (x - y) * a - y * t
      /\ x * a \in Int /\ y * b \in Int /\ (x - y) * a \in Int /\ y * t \in Int
  BY <1>1
<1>3. PICK h \in Nat : h = Marked!Pos(Marked!Pos(x) - y) /\ x - y <= h /\ -y <= h
  BY DEF Marked!Pos
<1>4. PICK m \in Nat : m = Marked!Pos(Marked!Neg(x) + y) /\ y - x <= m /\ y <= m
  BY DEF Marked!Pos, Marked!Neg
<1>5. (x - y) * a - y * t <= h * (n - 1)
  <2>1. a * (x - y) <= a * h /\ t * (-y) <= t * h
    BY <1>1, <1>3, ProductsGrow
  <2>2. h * (a + t) <= h * (n - 1)
    BY <1>1, ProductsGrow
  <2>3. /\ a * (x - y) = (x - y) * a /\ t * (-y) = -(y * t) /\ h * (a + t) = a * h + t * h
        /\ a * h \in Int /\ t * h \in Int /\ h * (n - 1) \in Int
    BY <1>1
  <2> QED
    BY <1>2, <2>1, <2>2, <2>3
<1>6. -(m * (n - 1)) <= (x - y) * a - y * t
  <2>1. a * (y - x) <= a * m /\ t * y <= t * m
    BY <1>1, <1>4, ProductsGrow
  <2>2. m * (a + t) <= m * (n - 1)
    BY <1>1, ProductsGrow
  <2>3. /\ a * (y - x) = -((x - y) * a) /\ t * y = y * t /\ m * (a + t) = a * m + t * m
        /\ a * m \in Int /\ t * m \in Int /\ m * (n - 1) \in Int
    BY <1>1
  <2> QED
    BY <1>2, <2>1, <2>2, <2>3
<1>7. h * (n - 1) \in Int /\ m * (n - 1) \in Int
  BY <1>1
<1> QED
  BY <1>2, <1>3, <1>4, <1>5, <1>6, <1>7

LEMMA SumOfTwo ==
  ASSUME NEW f, \A k \in DOMAIN f : (k = 1 \/ k = 2) /\ f[k] \in Int
  PROVE  /\ Marked!SumFunction(f) = Term(f, 1) + Term(f, 2)
         /\ \A k : Term(f, k) \in Int
<1>1. DOMAIN f \subseteq 1 .. 3 /\ 3 \notin DOMAIN f
  OBVIOUS
<1>2. \A k : Term(f, k) \in Int
  BY DEF Term
<1>3. Term(f, 3) = 0
  BY <1>1 DEF Term
<1>4. Marked!SumFunction(f) = Term(f, 1) + Term(f, 2) + Term(f, 3)
  BY <1>1, SumIs
<1> QED
  BY <1>2, <1>3, <1>4

Coefficient(z, k) == IF k \in Around(z) THEN z[k] ELSE 0

LEMMA SubscriptSums ==
  ASSUME NEW z, NEW v, Indexes(z, v)
  PROVE  /\ Marked!SumFunction(z) = Coefficient(z, 1) + Coefficient(z, 2) + Free(z)
         /\ Coefficient(z, 1) \in Int /\ Coefficient(z, 2) \in Int
<1>1. Marked!SumFunction(z) = Term(z, 1) + Term(z, 2) + Term(z, 3)
  BY IndexesFacts, SumIs
<1>2. DOMAIN z = 1 .. Len(z) /\ (Len(z) = 2 \/ Len(z) = 3)
  BY DEF Indexes
<1>3. Coefficient(z, 1) \in Int /\ Coefficient(z, 2) \in Int /\ Free(z) \in Int
  BY IndexesFacts DEF Coefficient
<1>4. CASE Len(z) = 2
  <2>1. Term(z, 1) = Coefficient(z, 1) /\ Term(z, 2) = Free(z) /\ Term(z, 3) = 0 /\ Coefficient(z, 2) = 0
    BY <1>2, <1>4 DEF Term, Coefficient, Around, Free
  <2> QED
    BY <1>1, <1>3, <2>1
<1>5. CASE Len(z) = 3
  <2>1. Term(z, 1) = Coefficient(z, 1) /\ Term(z, 2) = Coefficient(z, 2) /\ Term(z, 3) = Free(z)
    BY <1>2, <1>5 DEF Term, Coefficient, Around, Free
  <2> QED
    BY <1>1, <1>3, <2>1
<1> QED
  BY <1>2, <1>3, <1>4, <1>5

(* The counters run from 1 to u. *)
Counted(z, v, u) == \A k \in Around(z) : u[k] \in Int /\ 1 <= v[k] /\ v[k] <= u[k]
Shifted(z, v, k) == IF k \in Around(z) THEN z[k] * (v[k] - 1) ELSE 0

LEMMA ShiftedIs ==
  ASSUME NEW z, NEW v, Indexes(z, v)
  PROVE  \A k : Shifted(z, v, k) \in Int /\ Part(z, v, k) = Shifted(z, v, k) + Coefficient(z, k)
<1> TAKE k
<1>1. CASE k \in Around(z)
  <2>1. z[k] \in Int /\ v[k] \in Int
    BY <1>1, IndexesFacts
  <2>2. \A a, b \in Int : a * b = a * (b - 1) + a /\ a * (b - 1) \in Int
    OBVIOUS
  <2>3. z[k] * v[k] = z[k] * (v[k] - 1) + z[k] /\ z[k] * (v[k] - 1) \in Int
    BY <2>1, <2>2
  <2> QED
    BY <1>1, <2>3 DEF Shifted, Part, Coefficient
<1>2. CASE k \notin Around(z)
  BY <1>2 DEF Shifted, Part, Coefficient
<1> QED
  BY <1>1, <1>2

LEMMA BanerjeeIsSound ==
  ASSUME NEW x, NEW y, NEW v, NEW w, NEW u, NEW common \in {1, 2}, NEW equal \in 0 .. common,
         Indexes(x, v), Indexes(y, w), EqualFor(x, v, y, w, equal), Element(x, v) = Element(y, w),
         Counted(x, v, u), Counted(y, w, u), common \in Around(x), common \in Around(y),
         equal < common => v[equal + 1] < w[equal + 1]
  PROVE  Marked!BanerjeeTest(u, x, y, equal, common)
<1> DEFINE c == equal + 1
           rest(z) == {k \in 1 .. Len(z) - 1 : k > (IF equal = common THEN equal ELSE c)}
           nd == [k \in 1 .. equal |-> Marked!Neg(x[k] - y[k]) * (u[k] - 1)]
           pd == [k \in 1 .. equal |-> Marked!Pos(x[k] - y[k]) * (u[k] - 1)]
           nx == [k \in rest(x) |-> Marked!Neg(x[k]) * (u[k] - 1)]
           px == [k \in rest(x) |-> Marked!Pos(x[k]) * (u[k] - 1)]
           ny == [k \in rest(y) |-> Marked!Neg(y[k]) * (u[k] - 1)]
           py == [k \in rest(y) |-> Marked!Pos(y[k]) * (u[k] - 1)]
           sum(f) == Marked!SumFunction(f)
           l == -(sum(nd) + sum(nx) + sum(py))
           r == sum(pd) + sum(px) + sum(ny)
           b == sum(y) - sum(x)
           low == -y[c] - Marked!Pos(Marked!Neg(x[c]) + y[c]) * (u[c] - 2)
           high == -y[c] + Marked!Pos(Marked!Pos(x[c]) - y[c]) * (u[c] - 2)
           lo(k) == IF equal # common /\ k = c THEN low ELSE 0
           hi(k) == IF equal # common /\ k = c THEN high ELSE 0
<1> SUFFICES IF equal = common THEN l <= b /\ b <= r
             ELSE /\ l - y[c] - Marked!Pos(Marked!Neg(x[c]) + y[c]) * (u[c] - 2) <= b
                  /\ b <= r - y[c] + Marked!Pos(Marked!Pos(x[c]) - y[c]) * (u[c] - 2)
  BY DEF Marked!BanerjeeTest
<1>1. \A n \in Int : Marked!Pos(n) \in Int /\ Marked!Neg(n) \in Int
  BY SignsAre
<1>2. \A k \in 1 .. equal : /\ k \in Around(x) /\ k \in Around(y) /\ (k = 1 \/ k = 2) /\ v[k] = w[k]
                            /\ x[k] \in Int /\ y[k] \in Int /\ x[k] - y[k] \in Int /\ u[k] \in Int
  BY IndexesFacts DEF EqualFor, Counted
<1>3. ASSUME NEW z, NEW h, Indexes(z, h), Counted(z, h, u)
      PROVE  /\ rest(z) \subseteq Around(z)
             /\ \A k \in Around(z) : z[k] \in Int /\ (k = 1 \/ k = 2) /\ u[k] \in Int /\ h[k] \in Int
                                     /\ 0 <= h[k] - 1 /\ h[k] - 1 <= u[k] - 1 /\ h[k] - 1 \in Int /\ u[k] - 1 \in Int
  <2>1. rest(z) \subseteq Around(z)
    BY DEF Around
  <2> HIDE DEF rest
  <2> QED
    BY <1>3, <2>1, IndexesFacts DEF Counted
<1>4. /\ \A k \in rest(x) : x[k] \in Int /\ (k = 1 \/ k = 2) /\ u[k] - 1 \in Int
      /\ \A k \in rest(y) : y[k] \in Int /\ (k = 1 \/ k = 2) /\ u[k] - 1 \in Int
      /\ \A k \in 1 .. equal : x[k] - y[k] \in Int /\ (k = 1 \/ k = 2) /\ u[k] - 1 \in Int
  <2> HIDE DEF rest
  <2>1. \A k \in rest(x) : x[k] \in Int /\ (k = 1 \/ k = 2) /\ u[k] - 1 \in Int
    BY <1>3
  <2>2. \A k \in rest(y) : y[k] \in Int /\ (k = 1 \/ k = 2) /\ u[k] - 1 \in Int
    BY <1>3
  <2> QED
    BY <1>2, <2>1, <2>2
<1>0. \A z, k : k \in rest(z) <=> k \in Around(z) /\ k > (IF equal = common THEN equal ELSE c)
  BY DEF Around
<1> HIDE DEF rest
<1>5. /\ sum(nd) = Term(nd, 1) + Term(nd, 2) /\ \A k : Term(nd, k) \in Int
      /\ sum(pd) = Term(pd, 1) + Term(pd, 2) /\ \A k : Term(pd, k) \in Int
  <2>1. \A k \in 1 .. equal : Marked!Neg(x[k] - y[k]) * (u[k] - 1) \in Int /\ Marked!Pos(x[k] - y[k]) * (u[k] - 1) \in Int
    BY <1>1, <1>4
  <2>2. \A k \in DOMAIN nd : (k = 1 \/ k = 2) /\ nd[k] \in Int
    BY <1>4, <2>1
  <2>3. \A k \in DOMAIN pd : (k = 1 \/ k = 2) /\ pd[k] \in Int
    BY <1>4, <2>1
  <2> HIDE DEF nd, pd
  <2> QED
    BY <2>2, <2>3, SumOfTwo
<1>6. /\ sum(nx) = Term(nx, 1) + Term(nx, 2) /\ \A k : Term(nx, k) \in Int
      /\ sum(px) = Term(px, 1) + Term(px, 2) /\ \A k : Term(px, k) \in Int
  <2>1. \A k \in rest(x) : Marked!Neg(x[k]) * (u[k] - 1) \in Int /\ Marked!Pos(x[k]) * (u[k] - 1) \in Int
    BY <1>1, <1>4
  <2>2. \A k \in DOMAIN nx : (k = 1 \/ k = 2) /\ nx[k] \in Int
    BY <1>4, <2>1
  <2>3. \A k \in DOMAIN px : (k = 1 \/ k = 2) /\ px[k] \in Int
    BY <1>4, <2>1
  <2> HIDE DEF nx, px
  <2> QED
    BY <2>2, <2>3, SumOfTwo
<1>7. /\ sum(ny) = Term(ny, 1) + Term(ny, 2) /\ \A k : Term(ny, k) \in Int
      /\ sum(py) = Term(py, 1) + Term(py, 2) /\ \A k : Term(py, k) \in Int
  <2>1. \A k \in rest(y) : Marked!Neg(y[k]) * (u[k] - 1) \in Int /\ Marked!Pos(y[k]) * (u[k] - 1) \in Int
    BY <1>1, <1>4
  <2>2. \A k \in DOMAIN ny : (k = 1 \/ k = 2) /\ ny[k] \in Int
    BY <1>4, <2>1
  <2>3. \A k \in DOMAIN py : (k = 1 \/ k = 2) /\ py[k] \in Int
    BY <1>4, <2>1
  <2> HIDE DEF ny, py
  <2> QED
    BY <2>2, <2>3, SumOfTwo
<1> DEFINE A(k) == Shifted(x, v, k)
           B(k) == Shifted(y, w, k)
<1>8. b = (A(1) - B(1)) + (A(2) - B(2)) /\ \A k : A(k) \in Int /\ B(k) \in Int
  <2>1. sum(x) = Coefficient(x, 1) + Coefficient(x, 2) + Free(x) /\ Coefficient(x, 1) \in Int /\ Coefficient(x, 2) \in Int
    BY SubscriptSums
  <2>2. sum(y) = Coefficient(y, 1) + Coefficient(y, 2) + Free(y) /\ Coefficient(y, 1) \in Int /\ Coefficient(y, 2) \in Int
    BY SubscriptSums
  <2>3. \A k : A(k) \in Int /\ Part(x, v, k) = A(k) + Coefficient(x, k)
    BY ShiftedIs
  <2>4. \A k : B(k) \in Int /\ Part(y, w, k) = B(k) + Coefficient(y, k)
    BY ShiftedIs
  <2>5. Free(x) \in Int /\ Element(x, v) = Part(x, v, 1) + Part(x, v, 2) + Free(x)
    BY IndexesFacts
  <2>6. Free(y) \in Int /\ Element(y, w) = Part(y, w, 1) + Part(y, w, 2) + Free(y)
    BY IndexesFacts
  <2> DEFINE A1 == A(1)  A2 == A(2)  B1 == B(1)  B2 == B(2)
  <2>7. A1 \in Int /\ A2 \in Int /\ B1 \in Int /\ B2 \in Int
    BY <2>3, <2>4
  <2>8. (A1 + Coefficient(x, 1)) + (A2 + Coefficient(x, 2)) + Free(x) = (B1 + Coefficient(y, 1)) + (B2 + Coefficient(y, 2)) + Free(y)
    BY <2>3, <2>4, <2>5, <2>6
  <2> HIDE DEF A1, A2, B1, B2, sum
  <2>9. b = (A1 - B1) + (A2 - B2)
    BY <2>1, <2>2, <2>5, <2>6, <2>7, <2>8
  <2> QED
    BY <2>3, <2>4, <2>9 DEF A1, A2, B1, B2
<1>9. equal < common \/ equal = common
  OBVIOUS
<1>10. c \in Int /\ (equal # common => c \in Around(x) /\ c \in Around(y) /\ low \in Int /\ high \in Int /\ u[c] \in Int /\ y[c] \in Int
                     /\ low <= A(c) - B(c) /\ A(c) - B(c) <= high)
  <2> SUFFICES ASSUME equal < common
               PROVE  c \in Around(x) /\ c \in Around(y) /\ low \in Int /\ high \in Int /\ u[c] \in Int /\ y[c] \in Int
                      /\ low <= A(c) - B(c) /\ A(c) - B(c) <= high
    BY <1>9
  <2>1. c \in Around(x) /\ c \in Around(y)
    BY DEF Around
  <2>2. v[c] < w[c]
    OBVIOUS
  <2>3. x[c] \in Int /\ v[c] \in Int /\ 0 <= v[c] - 1 /\ v[c] - 1 <= u[c] - 1 /\ u[c] \in Int
    BY <1>3, <2>1
  <2>4. y[c] \in Int /\ w[c] \in Int /\ 0 <= w[c] - 1 /\ w[c] - 1 <= u[c] - 1
    BY <1>3, <2>1
  <2>5. v[c] - 1 \in Int /\ w[c] - 1 \in Int /\ u[c] - 1 \in Int /\ v[c] - 1 < w[c] - 1 /\ (u[c] - 1) - 1 = u[c] - 2
    BY <2>2, <2>3, <2>4
  <2>6. /\ -y[c] - Marked!Pos(Marked!Neg(x[c]) + y[c]) * ((u[c] - 1) - 1) <= x[c] * (v[c] - 1) - y[c] * (w[c] - 1)
        /\ x[c] * (v[c] - 1) - y[c] * (w[c] - 1) <= -y[c] + Marked!Pos(Marked!Pos(x[c]) - y[c]) * ((u[c] - 1) - 1)
    BY <2>3, <2>4, <2>5, ApartIsBounded
  <2>7. A(c) = x[c] * (v[c] - 1) /\ B(c) = y[c] * (w[c] - 1)
    BY <2>1 DEF Shifted
  <2>8. Marked!Pos(Marked!Neg(x[c]) + y[c]) \in Int /\ Marked!Pos(Marked!Pos(x[c]) - y[c]) \in Int
    BY <1>1, <2>3, <2>4
  <2>9. low \in Int /\ high \in Int
    BY <2>3, <2>4, <2>8
  <2> QED
    BY <2>1, <2>3, <2>4, <2>5, <2>6, <2>7, <2>9
<1> HIDE DEF low, high
<1> DEFINE least(k) == -(Term(nd, k) + Term(nx, k) + Term(py, k)) + lo(k)
           most(k) == Term(pd, k) + Term(px, k) + Term(ny, k) + hi(k)
<1>11. \A k \in {1, 2} : least(k) <= A(k) - B(k) /\ A(k) - B(k) <= most(k) /\ least(k) \in Int /\ most(k) \in Int
  <2> TAKE k \in {1, 2}
  <2> HIDE DEF rest, A, B
  <2>1. A(k) \in Int /\ B(k) \in Int /\ equal \in Int /\ k \in Int
    BY <1>8
  <2>2. CASE k \in 1 .. equal
    <3>1. k \notin rest(x) /\ k \notin rest(y) /\ k # c
      BY <1>0, <2>2
    <3>2. Term(nx, k) = 0 /\ Term(px, k) = 0 /\ Term(ny, k) = 0 /\ Term(py, k) = 0 /\ lo(k) = 0 /\ hi(k) = 0
      BY <3>1 DEF Term
    <3>3. /\ Term(nd, k) = Marked!Neg(x[k] - y[k]) * (u[k] - 1)
          /\ Term(pd, k) = Marked!Pos(x[k] - y[k]) * (u[k] - 1)
      BY <2>2 DEF Term
    <3>4. k \in Around(x) /\ k \in Around(y) /\ v[k] = w[k] /\ x[k] \in Int /\ y[k] \in Int /\ x[k] - y[k] \in Int
      BY <1>2, <2>2
    <3>5. v[k] - 1 \in Int /\ 0 <= v[k] - 1 /\ v[k] - 1 <= u[k] - 1 /\ u[k] - 1 \in Int
      BY <1>3, <3>4
    <3>6. A(k) = x[k] * (v[k] - 1) /\ B(k) = y[k] * (v[k] - 1)
      BY <3>4 DEF A, B, Shifted
    <3>7. A(k) - B(k) = (x[k] - y[k]) * (v[k] - 1)
      BY <3>4, <3>5, <3>6
    <3>8. /\ -(Marked!Neg(x[k] - y[k]) * (u[k] - 1)) <= (x[k] - y[k]) * (v[k] - 1)
          /\ (x[k] - y[k]) * (v[k] - 1) <= Marked!Pos(x[k] - y[k]) * (u[k] - 1)
      BY <3>4, <3>5, ProductIsBounded
    <3>9. -Term(nd, k) <= A(k) - B(k) /\ A(k) - B(k) <= Term(pd, k) /\ Term(nd, k) \in Int /\ Term(pd, k) \in Int
      BY <1>5, <3>3, <3>7, <3>8
    <3> HIDE DEF nd, pd, nx, px, ny, py, lo, hi
    <3> QED
      BY <2>1, <3>2, <3>9
  <2>3. CASE equal # common /\ k = c
    <3>1. k \notin rest(x) /\ k \notin rest(y) /\ k \notin 1 .. equal
      BY <1>0, <2>1, <2>3
    <3>2. /\ Term(nx, k) = 0 /\ Term(px, k) = 0 /\ Term(ny, k) = 0 /\ Term(py, k) = 0
          /\ Term(nd, k) = 0 /\ Term(pd, k) = 0
      BY <3>1 DEF Term
    <3>3. lo(k) = low /\ hi(k) = high
      BY <2>3
    <3>4. low \in Int /\ high \in Int /\ low <= A(k) - B(k) /\ A(k) - B(k) <= high
      BY <1>10, <2>3
    <3> HIDE DEF nd, pd, nx, px, ny, py, lo, hi
    <3> QED
      BY <2>1, <3>2, <3>3, <3>4
  <2>4. CASE k \notin 1 .. equal /\ ~(equal # common /\ k = c)
    <3>1. (k \in rest(x) <=> k \in Around(x)) /\ (k \in rest(y) <=> k \in Around(y))
      BY <1>0, <2>1, <2>4
    <3>2. Term(nd, k) = 0 /\ Term(pd, k) = 0 /\ lo(k) = 0 /\ hi(k) = 0
      BY <2>4 DEF Term
    <3>3. -Term(nx, k) <= A(k) /\ A(k) <= Term(px, k)
      <4>1. CASE k \in Around(x)
        <5>1. Term(nx, k) = Marked!Neg(x[k]) * (u[k] - 1) /\ Term(px, k) = Marked!Pos(x[k]) * (u[k] - 1)
          BY <3>1, <4>1 DEF Term
        <5>2. A(k) = x[k] * (v[k] - 1)
          BY <4>1 DEF A, Shifted
        <5>3. x[k] \in Int /\ v[k] - 1 \in Int /\ 0 <= v[k] - 1 /\ v[k] - 1 <= u[k] - 1 /\ u[k] - 1 \in Int
          BY <1>3, <4>1
        <5> QED
          BY <5>1, <5>2, <5>3, ProductIsBounded
      <4>2. CASE k \notin Around(x)
        <5>1. Term(nx, k) = 0 /\ Term(px, k) = 0 /\ A(k) = 0
          BY <3>1, <4>2 DEF Term, A, Shifted
        <5> QED
          BY <5>1
      <4> QED
        BY <4>1, <4>2
    <3>4. -Term(ny, k) <= B(k) /\ B(k) <= Term(py, k)
      <4>1. CASE k \in Around(y)
        <5>1. Term(ny, k) = Marked!Neg(y[k]) * (u[k] - 1) /\ Term(py, k) = Marked!Pos(y[k]) * (u[k] - 1)
          BY <3>1, <4>1 DEF Term
        <5>2. B(k) = y[k] * (w[k] - 1)
          BY <4>1 DEF B, Shifted
        <5>3. y[k] \in Int /\ w[k] - 1 \in Int /\ 0 <= w[k] - 1 /\ w[k] - 1 <= u[k] - 1 /\ u[k] - 1 \in Int
          BY <1>3, <4>1
        <5> QED
          BY <5>1, <5>2, <5>3, ProductIsBounded
      <4>2. CASE k \notin Around(y)
        <5>1. Term(ny, k) = 0 /\ Term(py, k) = 0 /\ B(k) = 0
          BY <3>1, <4>2 DEF Term, B, Shifted
        <5> QED
          BY <5>1
      <4> QED
        BY <4>1, <4>2
    <3>5. Term(nx, k) \in Int /\ Term(px, k) \in Int /\ Term(ny, k) \in Int /\ Term(py, k) \in Int
      BY <1>6, <1>7
    <3> HIDE DEF nd, pd, nx, px, ny, py, lo, hi
    <3> QED
      BY <2>1, <3>2, <3>3, <3>4, <3>5
  <2> QED
    BY <2>2, <2>3, <2>4
<1>12. IF equal = common THEN lo(1) + lo(2) = 0 /\ hi(1) + hi(2) = 0
       ELSE lo(1) + lo(2) = low /\ hi(1) + hi(2) = high /\ low \in Int /\ high \in Int
  <2>1. equal # common => c = 1 \/ c = 2
    OBVIOUS
  <2>2. equal # common => low \in Int /\ high \in Int
    BY <1>10
  <2> QED
    BY <2>1, <2>2
<1>13. l = -(Term(nd, 1) + Term(nx, 1) + Term(py, 1)) - (Term(nd, 2) + Term(nx, 2) + Term(py, 2)) /\ l \in Int
  <2> HIDE DEF nd, pd, nx, px, ny, py, sum
  <2> QED
    BY <1>5, <1>6, <1>7
<1>14. r = (Term(pd, 1) + Term(px, 1) + Term(ny, 1)) + (Term(pd, 2) + Term(px, 2) + Term(ny, 2)) /\ r \in Int
  <2> HIDE DEF nd, pd, nx, px, ny, py, sum
  <2> QED
    BY <1>5, <1>6, <1>7
<1>15. b \in Int /\ least(1) + least(2) <= b /\ b <= most(1) + most(2)
  <2> HIDE DEF A, B, least, most
  <2>1. A(1) - B(1) \in Int /\ A(2) - B(2) \in Int
    BY <1>8
  <2> QED
    BY <1>8, <1>11, <2>1
<1>16. l + (lo(1) + lo(2)) <= b /\ b <= r + (hi(1) + hi(2))
  <2>1. \A k \in {1, 2} : lo(k) \in Int /\ hi(k) \in Int
    BY <1>10
  <2> HIDE DEF nd, pd, nx, px, ny, py, lo, hi, sum
  <2>2. \A k \in {1, 2} : /\ Term(nd, k) \in Int /\ Term(pd, k) \in Int /\ Term(nx, k) \in Int
                          /\ Term(px, k) \in Int /\ Term(ny, k) \in Int /\ Term(py, k) \in Int
    BY <1>5, <1>6, <1>7
  <2> HIDE DEF l, r, b
  <2> QED
    BY <1>13, <1>14, <1>15, <2>1, <2>2
<1> HIDE DEF l, r, b, lo, hi
<1>17. CASE equal = common
  BY <1>12, <1>13, <1>14, <1>15, <1>16, <1>17
<1>18. CASE equal # common
  <2>1. l + low <= b /\ b <= r + high
    BY <1>12, <1>16, <1>18
  <2>2. y[c] \in Int /\ low \in Int /\ high \in Int
    BY <1>10, <1>18
  <2> DEFINE deep == Marked!Pos(Marked!Neg(x[c]) + y[c]) * (u[c] - 2)
             tall == Marked!Pos(Marked!Pos(x[c]) - y[c]) * (u[c] - 2)
  <2>3. low = -y[c] - deep /\ high = -y[c] + tall
    BY DEF low, high
  <2>4. deep \in Int /\ tall \in Int
    <3>1. x[c] \in Int /\ u[c] - 2 \in Int
      BY <1>3, <1>10, <1>18
    <3>2. Marked!Pos(Marked!Neg(x[c]) + y[c]) \in Int /\ Marked!Pos(Marked!Pos(x[c]) - y[c]) \in Int
      BY <1>1, <2>2, <3>1
    <3> QED
      BY <3>1, <3>2
  <2> HIDE DEF deep, tall
  <2>5. \A e, f, g, d, h, n \in Int : f + (-e - d) <= n /\ n <= g + (-e + h) => f - e - d <= n /\ n <= g - e + h
    OBVIOUS
  <2>6. l \in Int /\ r \in Int /\ b \in Int
    BY <1>13, <1>14, <1>15
  <2>7. l - y[c] - deep <= b /\ b <= r - y[c] + tall
    BY <2>1, <2>2, <2>3, <2>4, <2>5, <2>6
  <2> QED
    BY <1>18, <2>7 DEF deep, tall
<1> QED
  BY <1>17, <1>18

-----------------------------------------------------------------------------
(* The occurrences of a nest, and the levels of a pair of them.            *)
LEMMA PlacesAre ==
  ASSUME NEW p, NEW o \in Marked!Places(p)
  PROVE  o.s \in DOMAIN p.body /\ o.n \in 0 .. 2 /\ o = [s |-> o.s, n |-> o.n]
BY DEF Marked!Places

LEMMA SpaceIs ==
  ASSUME NEW p, Marked!IsNest(p), NEW st, NEW v \in Marked!Space(p, st)
  PROVE  /\ DOMAIN v = IF Marked!InLoop(p, st) THEN {1, 2} ELSE {1}
         /\ v = IF Marked!InLoop(p, st) THEN <<v[1], v[2]>> ELSE <<v[1]>>
         /\ \A k \in DOMAIN v : v[k] \in Int /\ p.from <= v[k] /\ v[k] <= p.from + p.trips[k] - 1
         /\ p.from \in Int /\ p.trips[1] \in Nat /\ p.trips[2] \in Nat
<1>1. p.from \in Int /\ p.trips[1] \in Nat /\ p.trips[2] \in Nat
  BY DEF Marked!IsNest
<1>2. CASE Marked!InLoop(p, st)
  <2>1. \E a \in Marked!Outer(p), b \in Marked!Inner(p) : v = <<a, b>>
    BY <1>2 DEF Marked!Space
  <2>2. PICK a \in Marked!Outer(p), b \in Marked!Inner(p) : v = <<a, b>>
    BY <2>1
  <2>3. DOMAIN v = {1, 2} /\ v[1] = a /\ v[2] = b /\ v = <<v[1], v[2]>>
    BY <2>2
  <2> QED
    BY <1>1, <1>2, <2>3 DEF Marked!Outer, Marked!Inner
<1>3. CASE ~Marked!InLoop(p, st)
  <2>1. \E a \in Marked!Outer(p) : v = <<a>>
    BY <1>3 DEF Marked!Space
  <2>2. PICK a \in Marked!Outer(p) : v = <<a>>
    BY <2>1
  <2>3. DOMAIN v = {1} /\ v[1] = a /\ v = <<v[1]>>
    BY <2>2
  <2> QED
    BY <1>1, <1>3, <2>3 DEF Marked!Outer
<1> QED
  BY <1>2, <1>3

LEMMA RunsIndex ==
  ASSUME NEW p, Marked!IsNest(p), NEW o \in Marked!Places(p), ~Marked!IsScalar(Marked!At(p, o)),
         NEW v \in Marked!Space(p, o.s)
  PROVE  /\ Indexes(Marked!At(p, o).sub, v)
         /\ Around(Marked!At(p, o).sub) = IF Marked!InLoop(p, o.s) THEN {1, 2} ELSE {1}
         /\ Marked!Address(Marked!At(p, o), v) = Element(Marked!At(p, o).sub, v)
<1> DEFINE sub == Marked!At(p, o).sub
<1>1. sub \in Seq(Int) /\ Len(sub) = IF Marked!InLoop(p, o.s) THEN 3 ELSE 2
  BY DEF Marked!IsNest, Marked!IsSubscript, Marked!IsScalar
<1> HIDE DEF sub
<1>2. Around(sub) = IF Marked!InLoop(p, o.s) THEN {1, 2} ELSE {1}
  <2>1. 1 .. 2 = {1, 2} /\ 1 .. 1 = {1} /\ 3 - 1 = 2 /\ 2 - 1 = 1
    OBVIOUS
  <2> QED
    BY <1>1, <2>1 DEF Around
<1>3. Indexes(sub, v)
  <2>1. DOMAIN v = Around(sub) /\ \A k \in Around(sub) : v[k] \in Int
    BY <1>2, SpaceIs
  <2> QED
    BY <1>1, <2>1 DEF Indexes
<1>4. Marked!Address(Marked!At(p, o), v) = Marked!SumFunction([k \in DOMAIN v |-> sub[k] * v[k]]) + Marked!Last(sub)
  BY DEF Marked!Address, sub
<1>5. Marked!Address(Marked!At(p, o), v) = Element(sub, v)
  BY <1>3, <1>4, ElementIs DEF Element
<1> QED
  BY <1>2, <1>3, <1>5 DEF sub

LEMMA CommonLoopsAre ==
  ASSUME NEW p, NEW o, NEW q
  PROVE  /\ Marked!CommonLoops(p, o, q) \in {1, 2}
         /\ Marked!CommonLoops(p, o, q) = 2 => Marked!InLoop(p, o.s) /\ Marked!InLoop(p, q.s)
BY DEF Marked!CommonLoops, Marked!SameLoop, Marked!InLoop

LEMMA LevelsAreFound ==
  ASSUME NEW p, Marked!IsNest(p), p.from = 1, NEW o \in Marked!Places(p), NEW q \in Marked!Places(p),
         Marked!SameVariable(p, o, q), ~Marked!IsScalar(Marked!At(p, o)),
         NEW v \in Marked!Space(p, o.s), NEW w \in Marked!Space(p, q.s), Marked!Touch(p, o, v, q, w),
         NEW level \in 1 .. Marked!CommonLoops(p, o, q) + 1, \A e \in 1 .. level - 1 : v[e] = w[e],
         level <= Marked!CommonLoops(p, o, q) => v[level] < w[level]
  PROVE  level \in Marked!Levels(p, o, q)
<1> DEFINE x == Marked!At(p, o).sub
           y == Marked!At(p, q).sub
           common == Marked!CommonLoops(p, o, q)
           equal == level - 1
           u == [k \in 1 .. 2 |-> p.from + p.trips[k] - 1]
<1>1. ~Marked!IsScalar(Marked!At(p, q))
  BY DEF Marked!IsNest, Marked!SameVariable
<1>2. Indexes(x, v) /\ Around(x) = (IF Marked!InLoop(p, o.s) THEN {1, 2} ELSE {1})
      /\ Marked!Address(Marked!At(p, o), v) = Element(x, v)
  BY RunsIndex
<1>3. Indexes(y, w) /\ Around(y) = (IF Marked!InLoop(p, q.s) THEN {1, 2} ELSE {1})
      /\ Marked!Address(Marked!At(p, q), w) = Element(y, w)
  BY <1>1, RunsIndex
<1>4. Element(x, v) = Element(y, w)
  BY <1>2, <1>3 DEF Marked!Touch, Marked!Cell
<1>5. common \in {1, 2} /\ common \in Around(x) /\ common \in Around(y)
      /\ 1 .. common \subseteq Around(x) /\ 1 .. common \subseteq Around(y)
  <2>1. 1 .. 1 = {1} /\ 1 .. 2 = {1, 2}
    OBVIOUS
  <2> QED
    BY <1>2, <1>3, <2>1, CommonLoopsAre
<1>6. Counted(x, v, u)
  BY <1>2, SpaceIs DEF Counted, Indexes
<1>7. Counted(y, w, u)
  BY <1>3, SpaceIs DEF Counted, Indexes
<1>8. equal \in 0 .. common /\ level = equal + 1 /\ (level <= common <=> equal < common)
  BY <1>5
<1>9. EqualFor(x, v, y, w, equal)
  <2>1. 1 .. equal \subseteq 1 .. common /\ equal \in 0 .. 2
    BY <1>5, <1>8
  <2> QED
    BY <1>5, <2>1 DEF EqualFor
<1> HIDE DEF x, y, common, u
<1>10. equal < common => v[equal + 1] < w[equal + 1]
  BY <1>8 DEF common
<1> HIDE DEF equal
<1>11. Marked!GCDTest(x, y, equal)
  BY <1>2, <1>3, <1>4, <1>9, GCDIsSound
<1>12. Marked!BanerjeeTest(u, x, y, equal, common)
  BY <1>2, <1>3, <1>4, <1>5, <1>6, <1>7, <1>8, <1>9, <1>10, BanerjeeIsSound
<1> QED
  BY <1>11, <1>12 DEF Marked!Levels, x, y, common, equal, u

(* A run of o comes before a run of q by the counter of a common loop, or, *)
(* if they are all equal, by the place of o and q in the text.             *)
Standing(o, q) == o.s < q.s \/ (o.s = q.s /\ Marked!Writes(q) /\ ~Marked!Writes(o))
AtLevel(p, o, v, q, w, level) ==
  /\ level \in 1 .. Marked!CommonLoops(p, o, q) + 1
  /\ \A e \in 1 .. level - 1 : v[e] = w[e]
  /\ level <= Marked!CommonLoops(p, o, q) => v[level] < w[level]
  /\ level = Marked!CommonLoops(p, o, q) + 1 => Standing(o, q)

LEMMA BeforeIs ==
  ASSUME NEW p, p.loops = <<DOMAIN p.body>>, NEW o \in Marked!Places(p), NEW q \in Marked!Places(p), NEW v, NEW w
  PROVE  Marked!Before(p, <<o.s, v>>, <<q.s, w>>) <=>
           \/ v[1] < w[1]
           \/ v[1] = w[1] /\ IF Marked!SameLoop(p, o.s, q.s) THEN v[2] < w[2] \/ (v[2] = w[2] /\ o.s < q.s) ELSE o.s < q.s
<1>1. o.s \in DOMAIN p.body /\ q.s \in DOMAIN p.body
  BY PlacesAre
<1>2. DOMAIN p.loops = {1} /\ p.loops[1] = DOMAIN p.body
  OBVIOUS
<1>3. Marked!LoopOf(p, o.s) = 1 /\ Marked!LoopOf(p, q.s) = 1
  BY <1>1, <1>2 DEF Marked!LoopOf
<1>4. ~(1 < 1)
  OBVIOUS
<1> QED
  BY <1>3, <1>4 DEF Marked!Before

LEMMA FollowsAtLevel ==
  ASSUME NEW p, Marked!IsNest(p), p.loops = <<DOMAIN p.body>>, NEW o \in Marked!Places(p), NEW q \in Marked!Places(p),
         NEW v \in Marked!Space(p, o.s), NEW w \in Marked!Space(p, q.s), Marked!Follows(p, o, v, q, w)
  PROVE  \E level \in Nat : AtLevel(p, o, v, q, w, level)
<1> DEFINE common == Marked!CommonLoops(p, o, q)
<1>1. common = (IF Marked!SameLoop(p, o.s, q.s) THEN 2 ELSE 1)
  BY DEF Marked!CommonLoops
<1>2. ASSUME v[1] < w[1]
      PROVE  AtLevel(p, o, v, q, w, 1)
  <2>1. 1 \in 1 .. common + 1 /\ 1 <= common /\ 1 # common + 1 /\ 1 .. 1 - 1 = {}
    BY <1>1
  <2> QED
    BY <1>2, <2>1 DEF AtLevel
<1>3. ASSUME v[1] = w[1], ~Marked!SameLoop(p, o.s, q.s), Standing(o, q)
      PROVE  AtLevel(p, o, v, q, w, 2)
  <2>1. common = 1 /\ 2 \in 1 .. common + 1 /\ ~(2 <= common) /\ 1 .. 2 - 1 = {1}
    BY <1>1, <1>3
  <2> QED
    BY <1>3, <2>1 DEF AtLevel
<1>4. ASSUME v[1] = w[1], Marked!SameLoop(p, o.s, q.s), v[2] < w[2]
      PROVE  AtLevel(p, o, v, q, w, 2)
  <2>1. common = 2 /\ 2 \in 1 .. common + 1 /\ 2 # common + 1 /\ 1 .. 2 - 1 = {1}
    BY <1>1, <1>4
  <2> QED
    BY <1>4, <2>1 DEF AtLevel
<1>5. ASSUME v[1] = w[1], Marked!SameLoop(p, o.s, q.s), v[2] = w[2], Standing(o, q)
      PROVE  AtLevel(p, o, v, q, w, 3)
  <2>1. common = 2 /\ 3 \in 1 .. common + 1 /\ ~(3 <= common) /\ 1 .. 3 - 1 = {1, 2}
    BY <1>1, <1>5
  <2> QED
    BY <1>5, <2>1 DEF AtLevel
<1>6. CASE Marked!Before(p, <<o.s, v>>, <<q.s, w>>)
  BY <1>2, <1>3, <1>4, <1>5, <1>6, BeforeIs DEF Standing
<1>7. CASE <<o.s, v>> = <<q.s, w>> /\ Marked!Writes(q) /\ ~Marked!Writes(o)
  BY <1>3, <1>5, <1>7 DEF Standing
<1> QED
  BY <1>6, <1>7 DEF Marked!Follows

LEMMA AtLevelFollows ==
  ASSUME NEW p, Marked!IsNest(p), p.loops = <<DOMAIN p.body>>, NEW o \in Marked!Places(p), NEW q \in Marked!Places(p),
         NEW v \in Marked!Space(p, o.s), NEW w \in Marked!Space(p, q.s),
         NEW level \in Nat, AtLevel(p, o, v, q, w, level)
  PROVE  Marked!Follows(p, o, v, q, w)
<1> DEFINE common == Marked!CommonLoops(p, o, q)
<1>1. common = (IF Marked!SameLoop(p, o.s, q.s) THEN 2 ELSE 1)
  BY DEF Marked!CommonLoops
<1>2. level \in 1 .. common + 1 /\ common \in Nat
  BY <1>1 DEF AtLevel
<1>3. CASE level = 1
  <2>1. level <= common
    BY <1>1, <1>3
  <2>2. v[1] < w[1]
    BY <1>3, <2>1 DEF AtLevel
  <2> QED
    BY <2>2, BeforeIs DEF Marked!Follows
<1>4. CASE level = 2 /\ common = 2
  <2>1. level <= common /\ 1 \in 1 .. level - 1 /\ Marked!SameLoop(p, o.s, q.s)
    BY <1>1, <1>4
  <2>2. v[2] < w[2] /\ v[1] = w[1]
    BY <1>4, <2>1 DEF AtLevel
  <2> QED
    BY <2>1, <2>2, BeforeIs DEF Marked!Follows
<1>5. CASE level = common + 1
  <2>1. Standing(o, q)
    BY <1>5 DEF AtLevel
  <2>2. v[1] = w[1] /\ (Marked!SameLoop(p, o.s, q.s) => v[2] = w[2])
    <3>1. 1 \in 1 .. level - 1 /\ (Marked!SameLoop(p, o.s, q.s) => 2 \in 1 .. level - 1)
      BY <1>1, <1>5
    <3> QED
      BY <3>1 DEF AtLevel
  <2>3. CASE o.s < q.s
    BY <2>2, <2>3, BeforeIs DEF Marked!Follows
  <2>4. CASE o.s = q.s /\ Marked!Writes(q) /\ ~Marked!Writes(o)
    <3>1. Marked!SameLoop(p, o.s, q.s) <=> Marked!InLoop(p, o.s)
      BY <2>4 DEF Marked!SameLoop
    <3>2. v = (IF Marked!InLoop(p, o.s) THEN <<v[1], v[2]>> ELSE <<v[1]>>)
      BY SpaceIs
    <3>3. w = (IF Marked!InLoop(p, o.s) THEN <<w[1], w[2]>> ELSE <<w[1]>>)
      BY <2>4, SpaceIs
    <3>4. v = w
      BY <2>2, <3>1, <3>2, <3>3
    <3> QED
      BY <2>4, <3>4 DEF Marked!Follows
  <2> QED
    BY <2>1, <2>3, <2>4 DEF Standing
<1> QED
  BY <1>1, <1>2, <1>3, <1>4, <1>5

-----------------------------------------------------------------------------
(* What a graph has for two runs: the dependence, with its carrier.        *)
Knows(p, dependences, o, q, level) ==
  \E d \in dependences : /\ d.type = Marked!TypeOf(o, q) /\ d.from = o /\ d.to = q
                         /\ level <= Marked!CommonLoops(p, o, q) => level \in d.carriers

LEMMA TestedKnows ==
  ASSUME NEW p, NEW o, NEW q, NEW independent, NEW level \in Marked!Levels(p, o, q),
         level <= Marked!CommonLoops(p, o, q) \/ independent
  PROVE  Knows(p, Marked!Tested(p, Marked!TypeOf(o, q), o, q, independent), o, q, level)
<1> DEFINE common == Marked!CommonLoops(p, o, q)
           found == IF independent THEN Marked!Levels(p, o, q) ELSE Marked!Levels(p, o, q) \intersect (1 .. common)
           type == Marked!TypeOf(o, q)
           d == Marked!Dependence(type, o, q, found \intersect (1 .. common))
<1>1. common \in {1, 2} /\ level \in 1 .. common + 1
  BY CommonLoopsAre DEF Marked!Levels
<1>2. level <= common => level \in 1 .. common
  BY <1>1
<1>3. level \in found
  BY <1>2
<1>4. Marked!Tested(p, type, o, q, independent) = {d}
  <2> HIDE DEF type
  <2> QED
    BY <1>3 DEF Marked!Tested
<1>5. d.type = type /\ d.from = o /\ d.to = q /\ d.carriers = found \intersect (1 .. common)
  BY DEF Marked!Dependence
<1> HIDE DEF d, found, type
<1> QED
  BY <1>2, <1>3, <1>4, <1>5 DEF Knows, type

LEMMA LamportTests ==
  ASSUME NEW p, Marked!IsNest(p), NEW o \in Marked!Places(p), NEW q \in Marked!Places(p),
         Marked!SameVariable(p, o, q), ~Marked!IsScalar(Marked!At(p, o)), Marked!Writes(o) \/ Marked!Writes(q)
  PROVE  \E independent \in BOOLEAN :
           /\ Standing(o, q) => independent
           /\ Marked!Tested(p, Marked!TypeOf(o, q), o, q, independent) \subseteq Marked!LamportGraph(p)
<1> DEFINE defs == {a \in Marked!Places(p) : Marked!Writes(a)}
           uses == Marked!Places(p) \ defs
           two(S, T) == {pair \in S \X T : Marked!SameVariable(p, pair[1], pair[2])}
           later(S) == {pair \in two(S, S) : Marked!Earlier(pair[1], pair[2])}
           tested(independent) == Marked!Tested(p, Marked!TypeOf(o, q), o, q, independent)
<1> SUFFICES \E independent \in BOOLEAN :
               (Standing(o, q) => independent) /\ tested(independent) \subseteq Marked!LamportGraph(p)
  OBVIOUS
<1>1. /\ \A a \in defs : Marked!BuildSelfDep(p, "output", a) \subseteq Marked!LamportGraph(p)
      /\ \A pair \in later(defs) : Marked!BuildOutDep(p, pair[1], pair[2]) \subseteq Marked!LamportGraph(p)
      /\ \A pair \in two(defs, uses) : Marked!BuildFlowAntiDeps(p, pair[1], pair[2]) \subseteq Marked!LamportGraph(p)
  <2> DEFINE G == {Marked!BuildSelfDep(p, "output", a) : a \in defs}
                  \union {Marked!BuildSelfDep(p, "input", a) : a \in uses}
                  \union {Marked!BuildOutDep(p, pair[1], pair[2]) : pair \in later(defs)}
                  \union {Marked!BuildInDep(p, pair[1], pair[2]) : pair \in later(uses)}
                  \union {Marked!BuildFlowAntiDeps(p, pair[1], pair[2]) : pair \in two(defs, uses)}
  <2>1. Marked!LamportGraph(p) = UNION G
    BY DEF Marked!LamportGraph
  <2>2. /\ \A a \in defs : Marked!BuildSelfDep(p, "output", a) \in G
        /\ \A pair \in later(defs) : Marked!BuildOutDep(p, pair[1], pair[2]) \in G
        /\ \A pair \in two(defs, uses) : Marked!BuildFlowAntiDeps(p, pair[1], pair[2]) \in G
    OBVIOUS
  <2> HIDE DEF G
  <2> QED
    BY <2>1, <2>2
<1>2. ~Marked!IsScalar(Marked!At(p, q)) /\ Marked!SameVariable(p, q, o)
  BY DEF Marked!IsNest, Marked!SameVariable
<1>3. o.s \in Int /\ q.s \in Int /\ o = [s |-> o.s, n |-> o.n] /\ q = [s |-> q.s, n |-> q.n]
  <2>1. DOMAIN p.body \subseteq Int
    BY DEF Marked!IsNest
  <2> QED
    BY <2>1, PlacesAre
<1> HIDE DEF defs, uses
<1>4. (Marked!Writes(o) <=> o \in defs) /\ (Marked!Writes(q) <=> q \in defs)
      /\ (~Marked!Writes(o) <=> o \in uses) /\ (~Marked!Writes(q) <=> q \in uses)
  BY DEF defs, uses
<1>5. ASSUME tested(TRUE) \subseteq Marked!LamportGraph(p)
      PROVE  \E independent \in BOOLEAN : (Standing(o, q) => independent) /\ tested(independent) \subseteq Marked!LamportGraph(p)
  BY <1>5
<1>6. ASSUME tested(FALSE) \subseteq Marked!LamportGraph(p), ~Standing(o, q)
      PROVE  \E independent \in BOOLEAN : (Standing(o, q) => independent) /\ tested(independent) \subseteq Marked!LamportGraph(p)
  BY <1>6
<1>7. CASE Marked!Writes(o) /\ Marked!Writes(q)
  <2>1. Marked!TypeOf(o, q) = "output" /\ o.n = 0 /\ q.n = 0 /\ o \in defs /\ q \in defs
    BY <1>4, <1>7 DEF Marked!TypeOf, Marked!Writes
  <2>2. CASE o.s = q.s
    <3>1. o = q
      BY <1>3, <2>1, <2>2
    <3>2. tested(FALSE) = Marked!BuildSelfDep(p, "output", o)
      BY <2>1, <3>1 DEF Marked!BuildSelfDep
    <3>3. ~Standing(o, q)
      BY <1>3, <1>7, <3>1 DEF Standing
    <3> QED
      BY <1>1, <1>6, <2>1, <3>2, <3>3
  <2>3. CASE o.s < q.s
    <3>1. <<o, q>> \in later(defs)
      BY <2>1, <2>3 DEF Marked!Earlier
    <3>2. Marked!BuildOutDep(p, o, q) \subseteq Marked!LamportGraph(p)
      BY <1>1, <3>1
    <3>3. tested(TRUE) \subseteq Marked!BuildOutDep(p, o, q)
      BY <2>1 DEF Marked!BuildOutDep
    <3> HIDE DEF tested
    <3> QED
      BY <1>5, <3>2, <3>3
  <2>4. CASE q.s < o.s
    <3>1. <<q, o>> \in later(defs)
      BY <1>2, <2>1, <2>4 DEF Marked!Earlier
    <3>2. Marked!BuildOutDep(p, q, o) \subseteq Marked!LamportGraph(p)
      BY <1>1, <3>1
    <3>3. tested(FALSE) \subseteq Marked!BuildOutDep(p, q, o)
      BY <1>2, <2>1 DEF Marked!BuildOutDep
    <3>4. ~Standing(o, q)
      BY <1>3, <2>4 DEF Standing
    <3> HIDE DEF tested
    <3> QED
      BY <1>6, <3>2, <3>3, <3>4
  <2> QED
    BY <1>3, <2>2, <2>3, <2>4
<1>8. CASE Marked!Writes(o) /\ ~Marked!Writes(q)
  <2> DEFINE rel == Marked!PrecedesNonStrictly(q, o)
  <2>1. Marked!TypeOf(o, q) = "flow" /\ <<o, q>> \in two(defs, uses)
    BY <1>4, <1>8 DEF Marked!TypeOf
  <2>2. Marked!BuildFlowAntiDeps(p, o, q) \subseteq Marked!LamportGraph(p)
    BY <1>1, <2>1
  <2>3. tested(~rel) \subseteq Marked!BuildFlowAntiDeps(p, o, q)
    BY <2>1 DEF Marked!BuildFlowAntiDeps
  <2>4. CASE rel
    <3>1. tested(~rel) = tested(FALSE)
      BY <2>4 DEF Marked!Tested
    <3>2. ~Standing(o, q)
      BY <1>3, <1>8, <2>4 DEF Standing, Marked!PrecedesNonStrictly
    <3> HIDE DEF tested, rel
    <3> QED
      BY <1>6, <2>2, <2>3, <3>1, <3>2
  <2>5. CASE ~rel
    <3>1. tested(~rel) = tested(TRUE)
      BY <2>5 DEF Marked!Tested
    <3> HIDE DEF tested, rel
    <3> QED
      BY <1>5, <2>2, <2>3, <3>1
  <2> QED
    BY <2>4, <2>5
<1>9. CASE ~Marked!Writes(o) /\ Marked!Writes(q)
  <2> DEFINE rel == Marked!PrecedesNonStrictly(o, q)
  <2>1. Marked!TypeOf(o, q) = "anti" /\ <<q, o>> \in two(defs, uses)
    BY <1>2, <1>4, <1>9 DEF Marked!TypeOf
  <2>2. Marked!BuildFlowAntiDeps(p, q, o) \subseteq Marked!LamportGraph(p)
    BY <1>1, <2>1
  <2>3. tested(rel) \subseteq Marked!BuildFlowAntiDeps(p, q, o)
    BY <1>2, <2>1 DEF Marked!BuildFlowAntiDeps
  <2>4. CASE rel
    <3>1. tested(rel) = tested(TRUE)
      BY <2>4 DEF Marked!Tested
    <3> HIDE DEF tested, rel
    <3> QED
      BY <1>5, <2>2, <2>3, <3>1
  <2>5. CASE ~rel
    <3>1. tested(rel) = tested(FALSE)
      BY <2>5 DEF Marked!Tested
    <3>2. ~Standing(o, q)
      BY <1>3, <2>5 DEF Standing, Marked!PrecedesNonStrictly
    <3> HIDE DEF tested, rel
    <3> QED
      BY <1>6, <2>2, <2>3, <3>1, <3>2
  <2> QED
    BY <2>4, <2>5
<1> QED
  BY <1>7, <1>8, <1>9

(* What every graph knows of two runs that touch the same element. *)
Meets(p, o, v, q, w, level) ==
  /\ Marked!IsNest(p) /\ p.loops = <<DOMAIN p.body>>
  /\ o \in Marked!Places(p) /\ q \in Marked!Places(p)
  /\ Marked!SameVariable(p, o, q) /\ ~Marked!IsScalar(Marked!At(p, o)) /\ (Marked!Writes(o) \/ Marked!Writes(q))
  /\ v \in Marked!Space(p, o.s) /\ w \in Marked!Space(p, q.s)
  /\ Marked!Touch(p, o, v, q, w) /\ level \in Nat /\ AtLevel(p, o, v, q, w, level)

LEMMA LamportKnows ==
  ASSUME NEW p, NEW o, NEW q, NEW v, NEW w, NEW level, Meets(p, o, v, q, w, level), p.from = 1
  PROVE  Knows(p, Marked!LamportGraph(p), o, q, level)
<1>1. level \in Marked!Levels(p, o, q)
  BY LevelsAreFound DEF Meets, AtLevel
<1>2. PICK independent \in BOOLEAN :
        /\ Standing(o, q) => independent
        /\ Marked!Tested(p, Marked!TypeOf(o, q), o, q, independent) \subseteq Marked!LamportGraph(p)
  BY LamportTests DEF Meets
<1>3. level <= Marked!CommonLoops(p, o, q) \/ independent
  <2>1. Marked!CommonLoops(p, o, q) \in {1, 2} /\ level \in 1 .. Marked!CommonLoops(p, o, q) + 1
    BY CommonLoopsAre DEF Meets, AtLevel
  <2>2. level <= Marked!CommonLoops(p, o, q) \/ level = Marked!CommonLoops(p, o, q) + 1
    BY <2>1
  <2> QED
    BY <1>2, <2>2 DEF Meets, AtLevel
<1>4. Knows(p, Marked!Tested(p, Marked!TypeOf(o, q), o, q, independent), o, q, level)
  BY <1>1, <1>3, TestedKnows
<1> QED
  BY <1>2, <1>4 DEF Knows

LEMMA MontegoKnows ==
  ASSUME NEW p, NEW o, NEW q, NEW v, NEW w, NEW level, Meets(p, o, v, q, w, level)
  PROVE  Knows(p, Marked!MontegoGraph(p), o, q, level)
<1> DEFINE d == Marked!Dependence(Marked!TypeOf(o, q), o, q, Marked!findDepSupp(p, o, q))
<1>1. d \in Marked!MontegoGraph(p)
  <2>1. <<o, q>> \in {pair \in Marked!Places(p) \X Marked!Places(p) : Marked!SameVariable(p, pair[1], pair[2])}
    BY DEF Meets
  <2>2. \A pair \in {pair \in Marked!Places(p) \X Marked!Places(p) : Marked!SameVariable(p, pair[1], pair[2])} :
          Marked!Dependence(Marked!TypeOf(pair[1], pair[2]), pair[1], pair[2], Marked!findDepSupp(p, pair[1], pair[2]))
            \in Marked!MontegoGraph(p)
    BY DEF Marked!MontegoGraph
  <2> QED
    BY <2>1, <2>2
<1>2. level <= Marked!CommonLoops(p, o, q) => level \in Marked!findDepSupp(p, o, q)
  <2> SUFFICES ASSUME level <= Marked!CommonLoops(p, o, q)
               PROVE  level \in Marked!findDepSupp(p, o, q)
    OBVIOUS
  <2>1. Marked!CommonLoops(p, o, q) \in {1, 2} /\ level \in 1 .. Marked!CommonLoops(p, o, q) + 1
    BY CommonLoopsAre DEF Meets, AtLevel
  <2>2. level \in 1 .. Marked!CommonLoops(p, o, q)
    BY <2>1
  <2> QED
    BY <2>2 DEF Marked!findDepSupp, Meets, AtLevel
<1>3. d.type = Marked!TypeOf(o, q) /\ d.from = o /\ d.to = q /\ d.carriers = Marked!findDepSupp(p, o, q)
  BY DEF Marked!Dependence
<1> HIDE DEF d
<1> QED
  BY <1>1, <1>2, <1>3 DEF Knows

(* The lattice graphs remove no arrow of two runs that meet. *)
LEMMA RefinedKnows ==
  ASSUME NEW p, NEW o, NEW q, NEW v, NEW w, NEW level, Meets(p, o, v, q, w, level),
         NEW dependences, Knows(p, dependences, o, q, level)
  PROVE  Knows(p, Marked!Refined(p, dependences), o, q, level)
<1>1. Marked!Follows(p, o, v, q, w)
  BY AtLevelFollows DEF Meets
<1>2. Marked!Meet(p, o, q)
  BY <1>1 DEF Marked!Meet, Meets
<1> QED
  BY <1>2 DEF Knows, Marked!Refined

LEMMA BuiltKnows ==
  ASSUME NEW kind, kind \in {"Lamport", "refined Lamport", "Montego", "refined Montego"},
         kind \in Marked!Lamport => marked.from = 1,
         NEW o, NEW q, NEW v, NEW w, NEW level, Meets(marked, o, v, q, w, level)
  PROVE  Knows(marked, Marked!Build(kind), o, q, level)
<1>1. CASE kind = "Lamport"
  BY <1>1, LamportKnows DEF Marked!Build, Marked!Lamport
<1>2. CASE kind = "refined Lamport"
  <2>1. Knows(marked, Marked!LamportGraph(marked), o, q, level)
    BY <1>2, LamportKnows DEF Marked!Lamport
  <2> QED
    BY <1>2, <2>1, RefinedKnows DEF Marked!Build
<1>3. CASE kind = "Montego"
  BY <1>3, MontegoKnows DEF Marked!Build
<1>4. CASE kind = "refined Montego"
  <2>1. Knows(marked, Marked!MontegoGraph(marked), o, q, level)
    BY MontegoKnows
  <2> QED
    BY <1>4, <2>1, RefinedKnows DEF Marked!Build
<1> QED
  BY <1>1, <1>2, <1>3, <1>4

(* ArrowsComplete, of a nest, its graph and the subgraph of its loop. *)
Carried(p, o, v, q, w, k) == Marked!Touch(p, o, v, q, w) /\ v[k] < w[k] /\ \A e \in 1 .. k - 1 : v[e] = w[e]
CompleteFor(p, dependences, left) ==
  \A o, q \in Marked!Places(p) :
    Marked!SameVariable(p, o, q) /\ ~Marked!IsScalar(Marked!At(p, o)) /\ (Marked!Writes(o) \/ Marked!Writes(q)) =>
      \A v \in Marked!Space(p, o.s), w \in Marked!Space(p, q.s) :
        /\ \A k \in 1 .. Marked!CommonLoops(p, o, q) :
             Carried(p, o, v, q, w, k) =>
               \E d \in (IF k = 1 THEN left ELSE dependences) :
                 d.type = Marked!TypeOf(o, q) /\ d.from = o /\ d.to = q /\ k \in d.carriers
        /\ Marked!Touch(p, o, v, q, w) /\ Marked!Follows(p, o, v, q, w) =>
             \E d \in dependences : d.type = Marked!TypeOf(o, q) /\ d.from = o /\ d.to = q

LEMMA CompleteIs ==
  /\ Marked!ArrowsComplete <=> (phase = "graph" => CompleteFor(marked, graph, arrows))
  /\ Marked!ArrowsComplete' <=> (phase' = "graph" => CompleteFor(marked', graph', arrows'))
<1>1. Marked!ArrowsComplete <=> (phase = "graph" => CompleteFor(marked, graph, arrows))
  BY DEF Marked!ArrowsComplete, Marked!Carries, CompleteFor, Carried
<1>2. Marked!ArrowsComplete' <=> (phase' = "graph" => CompleteFor(marked', graph', arrows'))
  BY DEF Marked!ArrowsComplete, Marked!Carries, CompleteFor, Carried
<1> QED
  BY <1>1, <1>2

(* The inductive invariant: a loop that is to be marked is a nest. *)
ArrowsInv ==
  /\ phase = "unmarked" /\ target # "sequential" => marked \in Nests
  /\ Marked!ArrowsComplete

LEMMA Within ==
  ASSUME NEW n \in {1, 2}, NEW e \in 1 .. n
  PROVE  e \in Nat /\ e <= n /\ e \in 1 .. n + 1 /\ e # n + 1
OBVIOUS

LEMMA MarkingKnows ==
  ASSUME Marked!NestsAssumption, Marked!KindsAssumption, ArrowsInv, NEW kind \in Kinds, Marked!markLoops(kind)
  PROVE  Marked!ArrowsComplete'
<1>1. /\ marked' = marked /\ graph' = Marked!Build(kind)
      /\ arrows' = {d \in graph' : 1 \in d.carriers}
  BY DEF Marked!markLoops, Marked!getSubGraphByCarrier
<1>2. Marked!IsNest(marked) /\ marked.loops = <<DOMAIN marked.body>>
  BY DEF Marked!markLoops, ArrowsInv, Marked!NestsAssumption
<1>3. kind \in {"Lamport", "refined Lamport", "Montego", "refined Montego"}
  BY DEF Marked!KindsAssumption
<1>4. kind \in Marked!Lamport => marked.from = 1
  BY DEF Marked!markLoops, Marked!CountsFromOne
<1> DEFINE Concerned(o, q) == /\ Marked!SameVariable(marked, o, q) /\ ~Marked!IsScalar(Marked!At(marked, o))
                              /\ Marked!Writes(o) \/ Marked!Writes(q)
<1>5. ASSUME NEW o \in Marked!Places(marked), NEW q \in Marked!Places(marked), Concerned(o, q),
             NEW v \in Marked!Space(marked, o.s), NEW w \in Marked!Space(marked, q.s),
             NEW level \in Nat, Marked!Touch(marked, o, v, q, w), AtLevel(marked, o, v, q, w, level)
      PROVE  Knows(marked, graph', o, q, level)
  <2>1. Meets(marked, o, v, q, w, level)
    BY <1>2, <1>5 DEF Meets
  <2>2. Knows(marked, Marked!Build(kind), o, q, level)
    BY <1>3, <1>4, <2>1, BuiltKnows
  <2> QED
    BY <1>1, <2>2
<1>6. CompleteFor(marked, graph', arrows')
  <2> SUFFICES ASSUME NEW o \in Marked!Places(marked), NEW q \in Marked!Places(marked), Concerned(o, q),
                      NEW v \in Marked!Space(marked, o.s), NEW w \in Marked!Space(marked, q.s)
               PROVE  /\ \A k \in 1 .. Marked!CommonLoops(marked, o, q) :
                           Carried(marked, o, v, q, w, k) =>
                             \E d \in (IF k = 1 THEN arrows' ELSE graph') :
                               d.type = Marked!TypeOf(o, q) /\ d.from = o /\ d.to = q /\ k \in d.carriers
                      /\ Marked!Touch(marked, o, v, q, w) /\ Marked!Follows(marked, o, v, q, w) =>
                           \E d \in graph' : d.type = Marked!TypeOf(o, q) /\ d.from = o /\ d.to = q
    BY DEF CompleteFor
  <2>1. ASSUME NEW k \in 1 .. Marked!CommonLoops(marked, o, q), Carried(marked, o, v, q, w, k)
        PROVE  \E d \in (IF k = 1 THEN arrows' ELSE graph') :
                 d.type = Marked!TypeOf(o, q) /\ d.from = o /\ d.to = q /\ k \in d.carriers
    <3>1. Marked!CommonLoops(marked, o, q) \in {1, 2}
      BY CommonLoopsAre
    <3>2. k \in Nat /\ k <= Marked!CommonLoops(marked, o, q) /\ k \in 1 .. Marked!CommonLoops(marked, o, q) + 1
          /\ k # Marked!CommonLoops(marked, o, q) + 1
      BY <3>1, Within
    <3>3. AtLevel(marked, o, v, q, w, k) /\ Marked!Touch(marked, o, v, q, w)
      BY <2>1, <3>2 DEF AtLevel, Carried
    <3>4. Knows(marked, graph', o, q, k)
      BY <1>5, <3>2, <3>3
    <3>5. PICK d \in graph' : d.type = Marked!TypeOf(o, q) /\ d.from = o /\ d.to = q /\ k \in d.carriers
      BY <3>2, <3>4 DEF Knows
    <3> QED
      BY <1>1, <3>5
  <2>2. ASSUME Marked!Touch(marked, o, v, q, w), Marked!Follows(marked, o, v, q, w)
        PROVE  \E d \in graph' : d.type = Marked!TypeOf(o, q) /\ d.from = o /\ d.to = q
    <3>1. PICK level \in Nat : AtLevel(marked, o, v, q, w, level)
      BY <1>2, <2>2, FollowsAtLevel
    <3>2. Knows(marked, graph', o, q, level)
      BY <1>5, <2>2, <3>1
    <3> QED
      BY <3>2 DEF Knows
  <2> QED
    BY <2>1, <2>2
<1> QED
  BY <1>1, <1>6, CompleteIs

LEMMA ArrowsStart == Marked!Init => ArrowsInv
BY DEF Marked!Init, Marked!Unmarked, ArrowsInv, Marked!ArrowsComplete

LEMMA ArrowsKeep ==
  ASSUME Marked!NestsAssumption, Marked!KindsAssumption, ArrowsInv, [Marked!Next]_Marked!vars
  PROVE  ArrowsInv'
<1>1. ASSUME phase' # "graph", phase' # "unmarked"
      PROVE  ArrowsInv'
  BY <1>1 DEF ArrowsInv, Marked!ArrowsComplete
<1>2. ASSUME phase' = phase, marked' = marked, graph' = graph, arrows' = arrows, target' = target
      PROVE  ArrowsInv'
  <2>1. Marked!ArrowsComplete'
    BY <1>2, CompleteIs DEF ArrowsInv
  <2> QED
    BY <1>2, <2>1 DEF ArrowsInv
<1>3. ASSUME NEW kind \in Kinds, Marked!markLoops(kind)
      PROVE  ArrowsInv'
  BY <1>3, MarkingKnows DEF ArrowsInv, Marked!markLoops
<1>4. CASE Marked!makePrivatization
  BY <1>1, <1>4 DEF Marked!makePrivatization
<1>5. CASE Marked!recognizeReduction
  BY <1>1, <1>5 DEF Marked!recognizeReduction
<1>6. CASE Marked!analyse
  BY <1>1, <1>6 DEF Marked!analyse
<1>7. CASE Marked!Regroup
  BY <1>1, <1>7 DEF Marked!Regroup, Marked!LoopDistribution, Marked!LoopFusion
<1>8. CASE Marked!Start
  BY <1>1, <1>8 DEF Marked!Start
<1>9. CASE Marked!Process \/ Marked!Lanes
  BY <1>2, <1>9 DEF Marked!Process, Marked!Lanes, Marked!Advance, Marked!markerVars
<1>10. CASE Marked!Finish
  BY <1>1, <1>10 DEF Marked!Finish
<1>11. CASE UNCHANGED Marked!vars
  BY <1>2, <1>11 DEF Marked!vars
<1> QED
  BY <1>3, <1>4, <1>5, <1>6, <1>7, <1>8, <1>9, <1>10, <1>11 DEF Marked!Next, Marked!Mark

(* Whatever the nest, and whatever graph the marker asks for: of two runs  *)
(* that touch the same element of an array, one of them to assign it, the  *)
(* graph has the dependence, in the right direction and with the loop that *)
(* carries it.  No pair is lost to the test of the greatest common divisor *)
(* or to Banerjee's test, which is asked about counters from 1 only.       *)
THEOREM ArrowsAreComplete ==
  ASSUME Marked!NestsAssumption, Marked!KindsAssumption
  PROVE  Marked!Spec => []Marked!ArrowsComplete
<1>1. ArrowsInv /\ [Marked!Next]_Marked!vars => ArrowsInv'
  BY ArrowsKeep
<1>2. ArrowsInv => Marked!ArrowsComplete
  BY DEF ArrowsInv
<1> QED
  BY <1>1, <1>2, ArrowsStart, PTL DEF Marked!Spec
=============================================================================
