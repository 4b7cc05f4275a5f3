---------------------------- MODULE BlockAffine -----------------------------
(***************************************************************************)
(* The parameters of a block-affine distribution and the numbers the code  *)
(* generators take from them: which process owns a block, how blocks group *)
(* into cells, how many elements a process stores and in which order.      *)
(* Source: source/Transforms/DataDistribution/                             *)
(* BlockAffineDataDistributionParameters.cpp, class BADDParametersFamily,  *)
(* and the index modifier of BlockAffineDataDistribution.cpp.              *)
(*                                                                         *)
(* A distribution D is a record: P processes; for every axis the size dims *)
(* of the array, the size d of a block and the step s of the process       *)
(* number; refs, the shifts with which the loop refers to the array; gen,  *)
(* the shift of the reference that is written; leading, the axis that      *)
(* orders the blocks of a process; source, the process that owns the       *)
(* array before and after; sweeps, how often the loop runs.  Axes count    *)
(* from 1, indices from 0.                                                 *)
(***************************************************************************)
EXTENDS Integers, Sequences, FiniteSets
LOCAL INSTANCE SequencesExt
LOCAL INSTANCE FiniteSetsExt

Axes(D) == DOMAIN D.dims

(* All multi-indices below the given widths, and the number of one in them, *)
(* the last axis fastest.                                                   *)
Box(widths) ==
  LET top == Max({1} \cup {widths[k] : k \in DOMAIN widths})
  IN  {n \in [DOMAIN widths -> 0..(top - 1)] : \A k \in DOMAIN widths : n[k] < widths[k]}

Ordinal(n, widths) == FoldLeftDomain(LAMBDA sum, k : (sum * widths[k]) + n[k], 0, n)

Product(widths) == FoldLeft(LAMBDA x, y : x * y, 1, widths)

Valid(D) ==
  /\ D.P > 0
  /\ Len(D.d) = Len(D.dims) /\ Len(D.s) = Len(D.dims)
  /\ \A k \in Axes(D) : D.dims[k] > 0 /\ D.d[k] > 0

Normalized(D) ==
  /\ Valid(D)
  /\ \A k \in Axes(D) : /\ D.s[k] \in 1..D.P
                        /\ D.d[k] <= D.dims[k]
                        /\ (D.d[k] = D.dims[k]) <=> (D.s[k] = D.P)

(* makeShiftContribution: the shifts of all references widen every block. *)
Left(D)  == [k \in Axes(D) |-> Max({0} \cup {-a[k] : a \in D.refs})]
Right(D) == [k \in Axes(D) |-> Max({0} \cup {a[k] : a \in D.refs})]

Process(D, block) == FoldLeftDomain(LAMBDA sum, k : sum + (block[k] * D.s[k]), 0, block) % D.P

GreatestCommonDivisor(m, n) == Max({q \in 1..m : m % q = 0 /\ n % q = 0})

CellWidth(D, k)   == D.P \div GreatestCommonDivisor(D.P, D.s[k])
CellWidths(D)     == [k \in Axes(D) |-> CellWidth(D, k)]
WidthsInCells(D)  == [k \in Axes(D) |-> D.dims[k] \div (D.d[k] * CellWidth(D, k))]
CellsCount(D)     == Product(WidthsInCells(D))
BlockWidths(D)    == [k \in Axes(D) |-> Left(D)[k] + D.d[k] + Right(D)[k]]
BareBlock(D) == Product(D.d)
ElementsInBlock(D) == Product(BlockWidths(D))

BlocksInEachProcessor(D) ==
  IF Len(D.dims) = 1 THEN CellsCount(D) ELSE CellsCount(D) * CellWidth(D, D.leading)

(* The axis whose blocks take the least memory, the first of several. *)
LeadingWithLessMemory(D) ==
  LET Demand(k) == BlocksInEachProcessor([D EXCEPT !.leading = k])
  IN  CHOOSE k \in Axes(D) : \A j \in Axes(D) :
        Demand(k) <= Demand(j) /\ (Demand(k) = Demand(j) => k <= j)

ElementsInEachProcessor(D) == BlocksInEachProcessor(D) * ElementsInBlock(D)

(* The length the index modifier prints when it allocates the part of a    *)
(* process: it rounds the cells up where the others round down.            *)
NewArrayLength(D) ==
  Product([k \in Axes(D) |-> (D.dims[k] + (CellWidth(D, k) * D.d[k]) - 1) \div (CellWidth(D, k) * D.d[k])])
  * (IF Len(D.dims) = 1 THEN 1 ELSE CellWidth(D, D.leading)) * ElementsInBlock(D)

Cells(D)  == Box(WidthsInCells(D))
BlocksOfProcess(D, p) == {block \in Box(CellWidths(D)) : Process(D, block) = p}

Shifted(point, a) == [k \in DOMAIN point |-> point[k] + a[k]]

(* Where the local index of an element is, as the rewritten references of  *)
(* the loop compute it from the iteration's point and the reference's      *)
(* shift.  The cell is found by dividing by the width of a cell twice.     *)
LocalOfSeveral(D, point, shift) ==
  LET cell == [k \in Axes(D) |-> point[k] \div (CellWidth(D, k) * CellWidth(D, k) * D.d[k])]
      block == IF Len(D.dims) = 1 THEN 0
               ELSE (point[D.leading] \div D.d[D.leading]) % CellWidth(D, D.leading)
      within == [k \in Axes(D) |-> (point[k] % D.d[k]) + Left(D)[k] + shift[k]]
  IN  ((Ordinal(cell, WidthsInCells(D)) * CellWidth(D, D.leading)) + block) * ElementsInBlock(D)
        + Ordinal(within, BlockWidths(D))

(* For one process a function of its own does, which takes the shifted     *)
(* index as it is and does not count the overlap on the left.  Its one     *)
(* cell and its one block have the number 0.                               *)
LocalOfOne(D, g) == Ordinal([k \in Axes(D) |-> g[k] % D.d[k]], BlockWidths(D))

Local(D, point, shift) ==
  IF D.P = 1 THEN LocalOfOne(D, Shifted(point, shift)) ELSE LocalOfSeveral(D, point, shift)

(* The points of the loop: those whose references all stay in the array,   *)
(* each executed by the process that owns the point's block.               *)
Points(D) == {x \in Box(D.dims) : \A a \in D.refs : Shifted(x, a) \in Box(D.dims)}
PointsOf(D, p) == {x \in Points(D) : Process(D, [k \in Axes(D) |-> x[k] \div D.d[k]]) = p}

(* The elements the loop writes. *)
Generated(D) == {Shifted(x, D.gen) : x \in Points(D)}
=============================================================================
