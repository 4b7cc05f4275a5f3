----------------------------- MODULE SequenceEdits -----------------------------
(***************************************************************************)
(* How the lists of Reprise change: one element enters a sequence, leaves  *)
(* it, or gives its place to another.                                      *)
(***************************************************************************)
EXTENDS Integers, Sequences

\* x is put into q, to be its i-th element, and the i-th element is taken out
\* of it.
Inserted(q, i, x) == SubSeq(q, 1, i - 1) \o <<x>> \o SubSeq(q, i, Len(q))
Removed(q, i)     == SubSeq(q, 1, i - 1) \o SubSeq(q, i + 1, Len(q))

\* x is put before the i-th element, which is then taken out.
Replaced(q, i, x) == Removed(Inserted(q, i, x), i + 1)
=============================================================================
