--------------------------- MODULE StatementBlocksMC ---------------------------
(***************************************************************************)
(* A small instance of StatementBlocks: two blocks, statements one of      *)
(* which has a goto in it, and a case label.                               *)
(***************************************************************************)
EXTENDS StatementBlocks

CONSTANTS leap,   \* the goto
          jumper  \* the statement it is in

SiteMC == [j \in Gotos |-> IF j = leap THEN jumper ELSE Null]
=============================================================================
