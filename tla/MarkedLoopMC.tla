----------------------------- MODULE MarkedLoopMC -----------------------------
(* Loops of three iterations, with inner loops of two and conditions that  *)
(* hold in the first and the last: an array that meets itself in one       *)
(* assignment or two, up to two apart, upwards and downwards; scalars that *)
(* are set, copied and summed up in every order and grouping of two        *)
(* assignments and in many of three.                                       *)
EXTENDS MarkedLoop

Trips == <<3, 2>>
Of3(groups, body) == Nest(1, Trips, groups, {1, 3}, body)

a(sub) == Occurrence("a", sub)
b == Occurrence("b", <<1, 0>>)
c(sub) == Occurrence("c", sub)

-----------------------------------------------------------------------------
Lines == {<<k, free>> : k \in {-1, 0, 1, 2}, free \in 0 .. 2}
FewLines == {<<1, 0>>, <<1, 1>>, <<2, 1>>}
Planes == {<<k, l, free>> : k \in 0 .. 2, l \in -1 .. 1, free \in 0 .. 1}
FewPlanes == {<<1, 0, 0>>, <<1, 1, 0>>, <<1, -1, 1>>, <<2, 1, 1>>}
Subscripts(group) == IF group = 0 THEN FewLines ELSE FewPlanes
Plain(group) == IF group = 0 THEN <<1, 0>> ELSE <<1, 0, 0>>

(* Below an inner loop b has a coefficient for its counter, too. *)
Under(loop, o) == IF loop /\ o = b THEN Occurrence("b", Plain(1)) ELSE o

(* One assignment of the array from itself. *)
Updates ==
  {Of3(<<>>, <<Statement(0, a(x), <<a(y)>>)>>) : x \in Lines, y \in Lines} \union
  {Of3(<<"loop">>, <<Statement(1, a(x), <<a(y)>>)>>) : x \in Planes, y \in FewPlanes}

(* Two that meet in the array, from a loop that starts at 0 or at 1, and   *)
(* from inner loops; the value is set first or used first.                 *)
Set(group, sub) == Statement(group, a(sub), <<Under(group # 0, b)>>)
Use(group, sub) == Statement(group, c(Plain(group)), <<a(sub)>>)
Meetings ==
  {Nest(from, Trips, <<>>, {}, <<Set(0, x), Use(0, y)>>) : from \in {0, 1}, x \in Lines, y \in Lines} \union
  UNION {UNION {{Of3(<<"loop", "loop">>, <<Set(g[1], x), Use(g[2], y)>>),
                 Of3(<<"loop", "loop">>, <<Use(g[1], x), Set(g[2], y)>>)} :
                  x \in Subscripts(g[1]), y \in Subscripts(g[2])} :
           g \in {<<0, 0>>, <<0, 1>>, <<1, 0>>, <<1, 1>>, <<1, 2>>}}

-----------------------------------------------------------------------------
s == Scalar("s")
t == Scalar("t")

(* What is done to scalars: a target and operands. *)
Copies == {<<t, <<b>>>>, <<b, <<t>>>>, <<t, <<s>>>>}
Sums == {<<s, <<s, b>>>>, <<s, <<s, t>>>>, <<t, <<t, b>>>>, <<s, <<s, s>>>>}
InGroup(kind, g, what) ==
  LET loop == g = 1 /\ kind = "loop"
  IN  Statement(g, Under(loop, what[1]), [k \in DOMAIN what[2] |-> Under(loop, what[2][k])])
Pairs ==
  {Of3(<<kind, "if">>, <<InGroup(kind, g[1], x), InGroup(kind, g[2], y)>>) :
     kind \in {"loop", "if"}, g \in {<<0, 0>>, <<1, 0>>, <<0, 1>>, <<1, 1>>, <<1, 2>>},
     x \in Copies \union Sums, y \in Copies \union Sums}
Triples ==
  {Of3(<<kind>>, <<InGroup(kind, g[1], <<t, <<b>>>>), InGroup(kind, g[2], x), InGroup(kind, g[3], y)>>) :
     kind \in {"loop", "if"}, g \in {<<0, 0, 0>>, <<1, 1, 0>>, <<0, 1, 1>>, <<1, 1, 1>>},
     x \in Copies \union Sums, y \in Copies \union Sums}

Loops == Updates \union Meetings \union Pairs \union Triples
-----------------------------------------------------------------------------
(* What is distributed counts from 0, what is fused from 1: three          *)
(* assignments in a row that use what another of them, or the one itself,  *)
(* assigns up to two iterations away, and those of the pairs that need no  *)
(* group.                                                                  *)
InARow(from, body) == Nest(from, <<3, 1>>, <<>>, {}, body)
Cut(p, k) == [p EXCEPT !.loops = <<1 .. k, k + 1 .. Len(p.body)>>]
Used == {a(<<1, free>>) : free \in 0 .. 2} \union {Occurrence(v, <<1, free>>) : v \in {"b", "c"}, free \in {0, 2}}
Bodies ==
  {<<Statement(0, a(<<1, 1>>), <<x>>), Statement(0, second, <<y>>), Statement(0, c(<<1, 1>>), <<z>>)>> :
     x \in Used, y \in Used, z \in Used, second \in {Occurrence("b", <<1, 1>>), t}} \union
  {<<Statement(0, x[1], x[2]), Statement(0, y[1], y[2])>> : x \in Copies \union Sums, y \in Copies \union Sums}
Rows ==
  {InARow(0, body) : body \in Bodies} \union
  UNION {{Cut(InARow(1, body), k) : k \in 1 .. Len(body) - 1} : body \in Bodies}

AllKinds == {"Lamport", "refined Lamport", "Montego", "refined Montego"}
=============================================================================
