--------------------------- MODULE StructuredCode ---------------------------
(***************************************************************************)
(* Subroutine bodies as trees of statements, and what the C language says  *)
(* about the order in which their parts run.  A statement is addressed by  *)
(* its path: the positions to take from the root block downwards.  An      *)
(* element is what one step of the program runs: a declaration, a simple   *)
(* statement, a condition or a part of a for header.                       *)
(***************************************************************************)
EXTENDS Naturals, Sequences, SequencesExt

CONSTANT None   \* no variable

(* The statements of include/Reprise/Statements.h.  A simple statement     *)
(* reads the variables of uses and then assigns def; a bump is i++ in a    *)
(* statement of its own; a condition reads uses; a for loop counts with    *)
(* def.                                                                    *)
Node(kind) == [kind |-> kind, kids |-> <<>>, decls |-> <<>>, uses |-> {}, def |-> None, to |-> <<>>]
Block(decls, kids) == [Node("block") EXCEPT !.decls = decls, !.kids = kids]
Simple(uses, def) == [Node("simple") EXCEPT !.uses = uses, !.def = def]
Bump(counter) == [Node("bump") EXCEPT !.uses = {counter}, !.def = counter]
Empty == Node("empty")
Return(uses) == [Node("return") EXCEPT !.uses = uses]
Goto(path) == [Node("goto") EXCEPT !.to = path]
If(uses, then, else) == [Node("if") EXCEPT !.uses = uses, !.kids = <<then, else>>]
While(uses, body) == [Node("while") EXCEPT !.uses = uses, !.kids = <<body>>]
DoWhile(uses, body) == [Node("dowhile") EXCEPT !.uses = uses, !.kids = <<body>>]
For(counter, body) == [Node("for") EXCEPT !.def = counter, !.kids = <<body>>]

Paths == Seq(Nat)
At(code, path) ==
  LET node[k \in 0 .. Len(path)] == IF k = 0 THEN code ELSE node[k - 1].kids[path[k]]
  IN  node[Len(path)]
Kind(code, path) == At(code, path).kind

Parts == {"statement", "condition", "init", "final", "step", "declaration"}
Elements == [at : Paths, part : Parts, n : Nat]
Element(path, part) == [at |-> path, part |-> part, n |-> 0]
Declared(path, k) == [at |-> path, part |-> "declaration", n |-> k]
End == [at |-> <<>>, part |-> "end", n |-> 0]   \* the end of the subroutine

(* The variables an element reads, and the one it assigns afterwards. *)
Uses(code, e) ==
  LET node == At(code, e.at) IN
  CASE e.part \in {"statement", "condition"} -> node.uses
    [] e.part \in {"final", "step"} -> {node.def}
    [] OTHER -> {}
Def(code, e) == IF e.part \in {"statement", "init", "step"} THEN At(code, e.at).def ELSE None
DeclaredAt(code, e) == IF e.part = "declaration" THEN At(code, e.at).decls[e.n] ELSE None

-----------------------------------------------------------------------------
(* A point of control is an element about to run, or the place before or   *)
(* after a statement.  From a place control moves on without running       *)
(* anything.                                                               *)
Before(path) == [place |-> "before", path |-> path]
After(path) == [place |-> "after", path |-> path]
Running(e) == [place |-> "running", element |-> e]

FirstOf(code, path) ==
  IF At(code, path).kids = <<>> THEN After(path) ELSE Before(Append(path, 1))

MoveOn(code, point) ==
  LET path == point.path
      node == At(code, path)
      up == At(code, Front(path))
      place == Last(path)
  IN
  IF point.place = "before"
    THEN CASE node.kind \in {"simple", "bump", "return", "goto"} -> Running(Element(path, "statement"))
           [] node.kind = "empty" -> After(path)
           [] node.kind \in {"if", "while"} -> Running(Element(path, "condition"))
           [] node.kind = "for" -> Running(Element(path, "init"))
           [] node.kind = "dowhile" -> Before(Append(path, 1))
           [] node.kind = "block" ->
                IF node.decls # <<>> THEN Running(Declared(path, 1)) ELSE FirstOf(code, path)
    ELSE CASE path = <<>> -> Running(End)
           [] path # <<>> /\ up.kind = "block" ->
                IF place < Len(up.kids) THEN Before(Append(Front(path), place + 1))
                ELSE After(Front(path))
           [] path # <<>> /\ up.kind = "if" -> After(Front(path))
           [] path # <<>> /\ up.kind = "for" -> Running(Element(Front(path), "step"))
           [] path # <<>> /\ up.kind \in {"while", "dowhile"} ->
                Running(Element(Front(path), "condition"))

Places == [place : {"before", "after"}, path : Paths] \union
          [place : {"running"}, element : Elements \union {End}]

(* Where control comes to rest. *)
Settle(code, point) ==
  LET settled[p \in Places] == IF p.place = "running" THEN p.element ELSE settled[MoveOn(code, p)]
  IN  settled[point]

(* The element that runs first, and the elements that may run right after  *)
(* an element.                                                             *)
Entry(code) == Settle(code, Before(<<>>))

Following(code, e) ==
  LET node == At(code, e.at)
      points ==
        CASE e.part = "declaration" ->
               IF e.n < Len(node.decls) THEN {Running(Declared(e.at, e.n + 1))}
               ELSE {FirstOf(code, e.at)}
          [] e.part = "condition" /\ node.kind = "if" ->
               {Before(Append(e.at, 1)), Before(Append(e.at, 2))}
          [] e.part = "condition" /\ node.kind # "if" -> {Before(Append(e.at, 1)), After(e.at)}
          [] e.part \in {"init", "step"} -> {Running(Element(e.at, "final"))}
          [] e.part = "final" -> {Before(Append(e.at, 1)), After(e.at)}
          [] e.part = "statement" /\ node.kind = "return" -> {Running(End)}
          [] e.part = "statement" /\ node.kind = "goto" -> {Before(node.to)}
          [] e.part = "statement" /\ node.kind \in {"simple", "bump"} -> {After(e.at)}
  IN  {Settle(code, p) : p \in points}

(* The steps of control from one element to another that the program can   *)
(* take.                                                                   *)
Steps(code) ==
  LET closure[known \in SUBSET Elements] ==
        LET more == known \union (UNION {Following(code, e) : e \in known} \ {End})
        IN  IF more = known THEN known ELSE closure[more]
      running == IF Entry(code) = End THEN {} ELSE closure[{Entry(code)}]
  IN  UNION {{<<e, f>> : f \in Following(code, e)} : e \in running}
=============================================================================
