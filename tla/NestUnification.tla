--------------------------- MODULE NestUnification ---------------------------
(***************************************************************************)
(* makeLoopNestUnification of source/Transforms/Loops/LoopNestUnification: *)
(* a perfect nest of two counted loops becomes one loop over the product   *)
(* of their extents, which computes both counters by division.             *)
(* Deeper nests are unified pair by pair from the inside, so the first     *)
(* extent of a pair may itself be such a product.                          *)
(***************************************************************************)
EXTENDS Integers, Sequences, SequencesExt

CONSTANT Bounds   \* integers, for the first and the last value of a counter

Nests == [i0 : Bounds, n : Bounds, j0 : Bounds, m : Bounds]

(* The nest as it was: rows of (i, j) pairs. *)
Row(nest, i) == [k \in 1 .. nest.m - nest.j0 |-> <<i, nest.j0 + k - 1>>]
Rows(nest) == [k \in 1 .. nest.n - nest.i0 |-> Row(nest, nest.i0 + k - 1)]
NestOrder(nest) == FlattenSeq(Rows(nest))

(* The nests that run backwards in both directions: no iterations, but a   *)
(* positive product of the extents.                                        *)
BothNegative(nest) == nest.n < nest.i0 /\ nest.m < nest.j0

(* Division of the target language: it truncates towards zero. *)
Size(x) == IF x < 0 THEN - x ELSE x
Quotient(x, y) == IF (x < 0) = (y < 0) THEN Size(x) \div Size(y) ELSE - (Size(x) \div Size(y))
Remainder(x, y) == x - y * Quotient(x, y)

VARIABLES
  nest,      \* the headers of the nest
  s,         \* the counter of the unified loop
  running,   \* the unified loop has not ended
  i, j,      \* the counters of the nest
  executed   \* the pairs the block has run for

vars == <<nest, s, running, i, j, executed>>

ExtentI == nest.n - nest.i0
ExtentJ == nest.m - nest.j0

TypeOK ==
  /\ nest \in Nests
  /\ s \in 0 .. Size(ExtentI * ExtentJ)
  /\ running \in BOOLEAN
  /\ executed \in Seq(Int \X Int)
  /\ <<i, j>> = IF executed = <<>> THEN <<nest.i0, nest.j0>> ELSE Last(executed)

Start(nests) ==
  /\ nest \in nests
  /\ s = 0
  /\ running = TRUE
  /\ i = nest.i0
  /\ j = nest.j0
  /\ executed = <<>>

Init == Start({nst \in Nests : ~ BothNegative(nst)})

(* The header of the unified loop: s < (n - i0) * (m - j0) *)
OneShort == s < (ExtentI * ExtentJ) - 1
Remaining == s < ExtentI * ExtentJ

(* i = i0 + s / (m - j0); j = j0 + s % (m - j0) *)
RowOf == nest.i0 + Quotient(s, ExtentJ)
ColumnOf == nest.j0 + Remainder(s, ExtentJ)

Stepped == s + 1

Iterate ==
  /\ running
  /\ Remaining
  /\ i' = RowOf
  /\ j' = ColumnOf
  /\ executed' = Append(executed, <<i', j'>>)
  /\ s' = Stepped
  /\ UNCHANGED <<nest, running>>

Leave ==
  /\ running
  /\ ~ Remaining
  /\ running' = FALSE
  /\ UNCHANGED <<nest, s, i, j, executed>>

Next == Iterate \/ Leave

Spec == Init /\ [][Next]_vars /\ WF_vars(Next)

-----------------------------------------------------------------------------
(* The unified loop ends, and then the block has run for every pair of the *)
(* nest once, in its order.  The pairs are only appended, so this also     *)
(* says that they have been in that order from the start.                  *)
Completed == <>[](~ running /\ executed = NestOrder(nest))

=============================================================================
