----------------------------- MODULE SSAFormMC -----------------------------
(* Bodies with one variable that is visible everywhere and one of an inner *)
(* block.                                                                  *)
EXTENDS SSAForm

CONSTANTS x, y

TheVars == {x, y}

Assign == Simple({}, x)
Use == Simple({x}, None)
Nested(kids) == Block(<<>>, kids)

(* Blocks with no statement, or one. *)
Flat == {Nested(<<>>), Nested(<<Assign>>), Nested(<<Use>>)}

(* Branches and loops around other blocks. *)
Around(bodies) ==
  {If({x}, b, c) : b \in bodies, c \in {Nested(<<>>), Nested(<<Assign>>)}}
  \union {While({x}, b) : b \in bodies} \union {For(x, b) : b \in bodies}

Shallow == Around(Flat)
Deep == Around({Nested(<<s>>) : s \in Shallow} \union {Nested(<<Use, s>>) : s \in Shallow})
EarlyReturn == If({x}, Nested(<<Assign, Return({x})>>), Nested(<<Empty>>))

(* A block with a variable of its own, assigned on one of two ways. *)
Inner == Block(<<y>>, <<Simple({}, y), If({x}, Nested(<<Simple({x}, y)>>), Nested(<<>>)), Simple({y}, x)>>)

(* Loops that are made with labels: the jump goes back to a statement, in  *)
(* the middle of what already is a vector. *)
Jumping(path) == If({x}, Nested(<<Goto(path)>>), Nested(<<>>))
Labelled ==
  {Block(<<x>>, <<Assign, s, Jumping(<<k>>), Use>>) : s \in {Use} \union Shallow, k \in 1 .. 2}
  \union {Block(<<x>>, <<Assign, While({x}, Nested(<<Use, Jumping(<<2>>), Assign>>)), Jumping(<<1>>)>>),
          Block(<<x>>, <<Assign, Use, Jumping(<<1>>), Jumping(<<2>>), Use>>)}

(* Bodies that begin with a loop, so that the first vector is jumped back  *)
(* to, from one place or from two.                                         *)
Silent == Simple({}, None)
Back == If({}, Nested(<<Goto(<<1>>)>>), Nested(<<>>))
Counted == Block(<<y>>, <<Simple({}, y), Simple({y}, None)>>)
Restarted == {Block(<<>>, <<Silent, Back, Counted>>), Block(<<>>, <<Silent, Back, Back, Counted>>),
              Block(<<>>, <<While({}, Counted), Silent>>)}

Bodies(menu) == {Block(<<x>>, <<Assign, s, Use>>) : s \in menu}
                \union {Block(<<x>>, <<s, t, Use>>) : s \in Shallow, t \in {EarlyReturn, Assign}}

Structured ==
  Bodies(Shallow \union Deep \union {While({x}, Inner), If({x}, Inner, Nested(<<>>))}) \union Labelled
  \union Restarted
=============================================================================
