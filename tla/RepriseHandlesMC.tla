--------------------------- MODULE RepriseHandlesMC ---------------------------
(***************************************************************************)
(* A small instance of RepriseHandles: two nodes, of which the first has a *)
(* strong and a weak member, four cells, and handles on the stack.        *)
(***************************************************************************)
EXTENDS RepriseHandles

CONSTANTS parent, child, \* nodes
          member,        \* a ReprisePtr inside parent
          link           \* a RepriseWeakPtr inside parent

HomeMC == [h \in Strong \cup Weak |-> IF h \in {member, link} THEN parent ELSE Null]
=============================================================================
