------------------------------ MODULE FlowGraph ------------------------------
(***************************************************************************)
(* ControlFlowGraphEx: the control flow graph of a subroutine body, whose  *)
(* vertices are vectors of elements ("stashes") that run one after another *)
(* (source/Analysis/ControlFlowGraphEx/ControlFlowGraphEx.cpp).            *)
(*                                                                         *)
(* The graph grows along the branches of the program, depth first.  When a *)
(* branch leads into the middle of a vector that is already there, the     *)
(* vector is split: a new vector takes its head and its place in the list, *)
(* and whoever pointed at the old one points at the new one - while calls  *)
(* that are still growing the old vector hold its address.                 *)
(*                                                                         *)
(* A stash is an element of StructuredCode.  The statement of a block      *)
(* stands for its closing bracket, and End for the empty stash.  Vectors   *)
(* are numbered in the order of their creation; 0 is the null pointer that *)
(* a branch out of the body leaves among the successors.                   *)
(***************************************************************************)
EXTENDS StructuredCode, FiniteSets

CONSTANT Programs   \* the bodies to analyse

VARIABLES
  prog,     \* the body, m_block
  blocks,   \* m_blocks, the vectors in the order of the list
  content,  \* the stashes of each vector
  succ,     \* m_blocksSucc
  frames,   \* the calls of buildBlock that wait for a branch to be built
  focus     \* what the innermost call is about to do

flow == <<prog, blocks, content, succ, frames, focus>>

-----------------------------------------------------------------------------
(* The walk along the program: intoBlock, next and skip call one another,  *)
(* so they are one function over the calls.                                *)
Parent(path) == Front(path)
Into(path) == [call |-> "intoBlock", stash |-> Element(path, "statement")]
Next_(stash) == [call |-> "next", stash |-> stash]
Skip(stash) == [call |-> "skip", stash |-> stash]
Statement(path) == Element(path, "statement")
Calls == [call : {"intoBlock", "next", "skip"}, stash : Elements \union {End}]

IntoBlock(block, path) ==
  CASE block.decls # <<>> -> <<Declared(path, 1)>>
    [] block.decls = <<>> /\ block.kids = <<>> -> <<Skip(Statement(path))>>
    [] block.decls = <<>> /\ block.kids # <<>> ->
         IF block.kids[1].kind = "block" THEN <<Into(Append(path, 1))>>
         ELSE <<Skip(Statement(Append(path, 1)))>>

NextOf(code, stash) ==
  LET path == stash.at
      node == At(code, path)
      block == At(code, Parent(path))
      sibling == Append(Parent(path), Last(path) + 1)
  IN
  CASE stash.part = "declaration" /\ stash.n < Len(node.decls) -> <<Declared(path, stash.n + 1)>>
    [] stash.part = "declaration" /\ stash.n = Len(node.decls) ->
         <<Skip(Statement(IF node.kids = <<>> THEN path ELSE Append(path, 1)))>>
    [] stash.part \in {"init", "step"} -> <<Element(path, "final")>>
    [] stash.part = "statement" /\ Last(path) = Len(block.kids) -> <<Statement(Parent(path))>>
    [] stash.part = "statement" /\ Last(path) < Len(block.kids) ->
         IF Kind(code, sibling) = "block" THEN <<Into(sibling)>> ELSE <<Skip(Statement(sibling))>>

SkipOf(code, stash) ==
  LET path == stash.at
      kind == Kind(code, path)
      up == Kind(code, Parent(path))
  IN
  CASE stash.part # "statement" \/ kind \in {"simple", "bump", "return", "goto"} -> <<stash>>
    [] stash.part = "statement" /\ kind = "block" ->
         (CASE path = <<>> -> <<End>>
            [] path # <<>> /\ up = "for" -> <<Element(Parent(path), "step")>>
            [] path # <<>> /\ up = "while" -> <<Element(Parent(path), "condition")>>
            [] path # <<>> /\ up = "dowhile" -> <<Into(path)>>
            [] path # <<>> /\ up = "if" -> <<Next_(Statement(Parent(path)))>>
            [] path # <<>> /\ up = "block" -> <<Next_(stash)>>)
    [] stash.part = "statement" /\ kind = "empty" -> <<Next_(stash), Skip(End)>>
    [] stash.part = "statement" /\ kind \in {"if", "while"} -> <<Element(path, "condition")>>
    [] stash.part = "statement" /\ kind = "for" -> <<Element(path, "init")>>
    [] stash.part = "statement" /\ kind = "dowhile" -> <<Into(Append(path, 1))>>

(* A call ends with a stash, or with another call, or - after an empty     *)
(* statement - with skip of what another call returns.                     *)
Walk(code, call) ==
  LET IsCall(x) == "call" \in DOMAIN x
      result[c \in Calls] ==
        LET todo == CASE c.call = "intoBlock" -> IntoBlock(At(code, c.stash.at), c.stash.at)
                      [] c.call = "next" -> NextOf(code, c.stash)
                      [] c.call = "skip" ->
                           IF c.stash = End THEN <<End>> ELSE SkipOf(code, c.stash)
            first == IF IsCall(todo[1]) THEN result[todo[1]] ELSE todo[1]
        IN  IF Len(todo) = 1 THEN first ELSE result[Skip(first)]
  IN  result[call]

IsBracket(code, stash) == stash.part = "statement" /\ Kind(code, stash.at) = "block"

isControlStash(code, stash) ==
  \/ stash.part \in {"condition", "final", "step"}
  \/ stash.part = "statement" /\ Kind(code, stash.at) \in {"return", "goto", "block"}

branches(code, stash) ==
  LET path == stash.at
      node == At(code, path)
      loop == <<Walk(code, Into(Append(path, 1))), Walk(code, Next_(Statement(path)))>>
  IN
  CASE stash.part = "step" -> <<Element(path, "final")>>
    [] stash.part = "final" -> loop
    [] stash.part = "condition" ->
         IF node.kind = "if"
           THEN <<Walk(code, Into(Append(path, 1))), Walk(code, Into(Append(path, 2)))>>
           ELSE loop
    [] stash.part = "statement" ->
         (CASE node.kind = "return" -> <<>>
            [] node.kind = "block" -> <<Walk(code, Skip(stash))>>
            [] node.kind = "goto" -> <<Walk(code, Skip(Statement(node.to)))>>)

(* The bodies have something to run: of an empty body the graph is empty,  *)
(* and the dominators ask an empty list for its first block.               *)
ASSUME ProgramsAssumption ==
  \A body \in Programs :
    LET first == Walk(body, Into(<<>>))
    IN  body.kind = "block" /\ first # End /\ ~IsBracket(body, first)

-----------------------------------------------------------------------------
(* buildBlock.  A frame is a call that has pushed its vector and builds    *)
(* the branches one by one.                                                *)
Call(stash) == [doing |-> "call", stash |-> stash]
Growing(run) == [doing |-> "grow", run |-> run]
Give(block) == [doing |-> "return", block |-> block]
Resume == [doing |-> "resume"]
Built == [doing |-> "built"]

(* findMatch: the vector of the list that holds a stash. *)
Matching(stash) == {b \in Range(blocks) : stash \in Range(content[b])}
findMatch(stash) == CHOOSE b \in Matching(stash) : TRUE

FlowInit ==
  /\ prog \in Programs
  /\ blocks = <<>> /\ content = <<>> /\ succ = <<>> /\ frames = <<>>
  /\ focus = Call(Walk(prog, Into(<<>>)))

Calling == focus.doing = "call"
Complete(run) == Last(run) = End \/ isControlStash(prog, Last(run))

(* A branch out of the body. *)
LeaveBody ==
  /\ Calling /\ focus.stash = End
  /\ focus' = Give(0)
  /\ UNCHANGED <<prog, blocks, content, succ, frames>>

(* splitIfNeeded finds a vector that begins with the stash. *)
Found ==
  /\ Calling /\ focus.stash # End
  /\ \E b \in Matching(focus.stash) :
       /\ content[b][1] = focus.stash
       /\ focus' = Give(b)
  /\ UNCHANGED <<prog, blocks, content, succ, frames>>

(* rewriteLinks *)
Relinked(links, what, withWhat) ==
  [b \in DOMAIN links |->
     [i \in DOMAIN links[b] |-> IF links[b][i] = what THEN withWhat ELSE links[b][i]]]

(* splitIfNeeded finds the stash inside a vector. *)
Split ==
  /\ Calling /\ focus.stash # End
  /\ \E b \in Matching(focus.stash) :
       LET at == CHOOSE i \in DOMAIN content[b] : content[b][i] = focus.stash
           head == Len(content) + 1
       IN
       /\ at > 1
       /\ content' = Append([content EXCEPT ![b] = SubSeq(@, at, Len(@))],
                            SubSeq(content[b], 1, at - 1))
       /\ succ' = Append(Relinked(succ, b, head), <<b>>)
       /\ blocks' = Append([i \in DOMAIN blocks |-> IF blocks[i] = b THEN head ELSE blocks[i]], b)
       /\ focus' = Give(b)
  /\ UNCHANGED <<prog, frames>>

(* A branch that leads to a closing bracket only: an empty vector with one *)
(* branch is not kept, its branch is built instead.                        *)
Pass ==
  /\ Calling /\ focus.stash # End /\ Matching(focus.stash) = {}
  /\ IsBracket(prog, focus.stash)
  /\ focus' = Call(branches(prog, focus.stash)[1])
  /\ UNCHANGED <<prog, blocks, content, succ, frames>>

(* A new vector takes one stash after another, up to one that controls or  *)
(* to the end of the body; then it enters the list.                        *)
Begin ==
  /\ Calling /\ focus.stash # End /\ Matching(focus.stash) = {}
  /\ ~IsBracket(prog, focus.stash)
  /\ focus' = Growing(<<focus.stash>>)
  /\ UNCHANGED <<prog, blocks, content, succ, frames>>

Extend ==
  /\ focus.doing = "grow" /\ ~Complete(focus.run)
  /\ focus' = Growing(Append(focus.run, Walk(prog, Next_(Last(focus.run)))))
  /\ UNCHANGED <<prog, blocks, content, succ, frames>>

Grow ==
  /\ focus.doing = "grow" /\ Complete(focus.run)
  /\ LET last == Last(focus.run)
         block == Len(content) + 1
     IN
     /\ content' = Append(content, IF last = End \/ IsBracket(prog, last) THEN Front(focus.run)
                                   ELSE focus.run)
     /\ succ' = Append(succ, <<>>)
     /\ blocks' = Append(blocks, block)
     /\ frames' = Append(frames, [block |-> block, first |-> focus.run[1],
                                  todo |-> IF last = End THEN <<>> ELSE branches(prog, last)])
  /\ focus' = Resume
  /\ UNCHANGED prog

(* The innermost frame goes on with its next branch, *)
BuildBranch ==
  /\ focus = Resume /\ Last(frames).todo # <<>>
  /\ focus' = Call(Head(Last(frames).todo))
  /\ frames' = [frames EXCEPT ![Len(frames)].todo = Tail(@)]
  /\ UNCHANGED <<prog, blocks, content, succ>>

(* adds what the branch returned to the successors of its vector, *)
Link ==
  /\ focus.doing = "return" /\ frames # <<>>
  /\ succ' = [succ EXCEPT ![Last(frames).block] = Append(@, focus.block)]
  /\ focus' = Resume
  /\ UNCHANGED <<prog, blocks, content, frames>>

(* and returns the vector that now begins with its first stash: its own    *)
(* may have been split meanwhile.                                          *)
OwnVector(frame) == frame.block
Returned(frame) == findMatch(frame.first)

Leave ==
  /\ focus = Resume /\ Last(frames).todo = <<>>
  /\ focus' = Give(Returned(Last(frames)))
  /\ frames' = Front(frames)
  /\ UNCHANGED <<prog, blocks, content, succ>>

Finish ==
  /\ focus.doing = "return" /\ frames = <<>>
  /\ focus' = Built
  /\ UNCHANGED <<prog, blocks, content, succ, frames>>

FlowNext ==
  LeaveBody \/ Found \/ Split \/ Pass \/ Begin \/ Extend \/ Grow \/ BuildBranch \/ Link \/ Leave \/ Finish

-----------------------------------------------------------------------------
(* The steps of control that the graph so far stands for. *)
Edges ==
  UNION {{<<content[b][i], content[b][i + 1]>> : i \in 1 .. Len(content[b]) - 1} :
           b \in DOMAIN content}
  \union
  UNION {{<<Last(content[b]), content[s][1]>> : s \in Range(succ[b]) \ {0}} : b \in DOMAIN content}

FlowTypeOK ==
  /\ prog \in Programs
  /\ Range(blocks) = DOMAIN content /\ Len(blocks) = Len(content)
  /\ DOMAIN succ = DOMAIN content
  /\ \A b \in DOMAIN content : content[b] # <<>> /\ Range(succ[b]) \subseteq {0} \union DOMAIN content
  /\ \A i \in DOMAIN frames : frames[i].block \in DOMAIN content

(* Every vector can be reached from the first of the list: whatever holds  *)
(* the first and the successors of its vectors holds all.                  *)
Reached ==
  \A S \in SUBSET DOMAIN content :
    blocks[1] \in S /\ (\A b \in S : Range(succ[b]) \ {0} \subseteq S) => S = DOMAIN content

(* The finished graph takes exactly the steps the program can take; it     *)
(* holds each stash once, and the list begins with the vector where the    *)
(* program starts, from which all others are reached: the dominators and   *)
(* the frontiers rely on it.                                               *)
GraphTrue ==
  focus = Built =>
    /\ Edges = {step \in Steps(prog) : step[2] # End}
    /\ content[blocks[1]][1] = Entry(prog) /\ Reached
    /\ \A b, c \in DOMAIN content : \A i \in DOMAIN content[b], j \in DOMAIN content[c] :
         content[b][i] = content[c][j] => b = c /\ i = j
=============================================================================
