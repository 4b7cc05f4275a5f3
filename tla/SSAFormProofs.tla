---------------------------- MODULE SSAFormProofs ----------------------------
(***************************************************************************)
(* Proofs about SSAForm for any bodies of subroutines: the list of blocks  *)
(* that the control flow graph hands on is sound, and the sweeps of        *)
(* DominanceFrontier end with the dominators, neither fewer nor more.      *)
(***************************************************************************)
EXTENDS SSAForm, FiniteSetTheorems, WellFoundedInduction, TLAPS

IsSeq(s) == \E S : s \in Seq(S)

(* A sequence stays one when something is put into it or at its end.       *)
LEMMA WiderSeq ==
  ASSUME NEW S, NEW T, S \subseteq T, NEW s \in Seq(S)
  PROVE  s \in Seq(T)
<1>1. Len(s) \in Nat /\ s = [i \in 1 .. Len(s) |-> s[i]] /\ \A i \in 1 .. Len(s) : s[i] \in S
  OBVIOUS
<1>2. [i \in 1 .. Len(s) |-> s[i]] \in Seq(T)
  BY <1>1
<1> QED
  BY <1>1, <1>2

LEMMA Appended ==
  ASSUME NEW s, IsSeq(s), NEW e
  PROVE  /\ IsSeq(Append(s, e))
         /\ Len(Append(s, e)) = Len(s) + 1 /\ Len(s) \in Nat
         /\ DOMAIN s = 1 .. Len(s)
         /\ \A i \in 1 .. Len(s) : Append(s, e)[i] = s[i]
         /\ Append(s, e)[Len(s) + 1] = e
<1>1. PICK S : s \in Seq(S)
  BY DEF IsSeq
<1>2. s \in Seq(S \union {e})
  BY <1>1, WiderSeq
<1>3. Append(s, e) \in Seq(S \union {e})
  BY <1>2
<1> QED
  BY <1>2, <1>3 DEF IsSeq

Put(s, k, e) == [s EXCEPT ![k] = e]

LEMMA PutKeeps ==
  \A s, k, e : IsSeq(s) =>
    /\ IsSeq(Put(s, k, e)) /\ Len(Put(s, k, e)) = Len(s)
    /\ \A i \in 1 .. Len(s) : Put(s, k, e)[i] = IF i = k THEN e ELSE s[i]
<1> TAKE s, k, e
<1>1. HAVE IsSeq(s)
<1>2. PICK S : s \in Seq(S)
  BY <1>1 DEF IsSeq
<1>3. s \in Seq(S \union {e})
  BY <1>2, WiderSeq
<1> DEFINE t == [i \in 1 .. Len(s) |-> IF i = k THEN e ELSE s[i]]
<1>4. Put(s, k, e) = t
  BY <1>3 DEF Put
<1>5. t \in Seq(S \union {e}) /\ Len(t) = Len(s)
  BY <1>3
<1> QED
  BY <1>4, <1>5 DEF IsSeq

LEMMA Cut ==
  ASSUME NEW s, IsSeq(s), NEW m \in 1 .. Len(s) + 1, NEW n \in 0 .. Len(s), m <= n + 1
  PROVE  /\ IsSeq(SubSeq(s, m, n)) /\ Len(SubSeq(s, m, n)) = n - m + 1
         /\ \A i \in 1 .. n - m + 1 : SubSeq(s, m, n)[i] = s[m + i - 1]
<1>1. PICK S : s \in Seq(S)
  BY DEF IsSeq
<1>2. SubSeq(s, m, n) \in Seq(S) /\ Len(SubSeq(s, m, n)) = n - m + 1
      /\ \A i \in 1 .. n - m + 1 : SubSeq(s, m, n)[i] = s[m + i - 1]
  BY <1>1
<1> QED
  BY <1>2 DEF IsSeq

LEMMA Fronted ==
  ASSUME NEW s, IsSeq(s), Len(s) # 0
  PROVE  /\ IsSeq(Front(s)) /\ Len(Front(s)) = Len(s) - 1
         /\ \A i \in 1 .. Len(s) - 1 : Front(s)[i] = s[i]
<1>1. Len(s) \in Nat
  BY Appended
<1>2. 1 \in 1 .. Len(s) + 1 /\ Len(s) - 1 \in 0 .. Len(s) /\ 1 <= Len(s) - 1 + 1
  BY <1>1
<1>3. /\ IsSeq(Front(s)) /\ Len(Front(s)) = Len(s) - 1 - 1 + 1
      /\ \A i \in 1 .. Len(s) - 1 - 1 + 1 : Front(s)[i] = s[1 + i - 1]
  BY <1>2, Cut DEF Front
<1> QED
  BY <1>1, <1>3

LEMMA SeqDomain ==
  ASSUME NEW s, IsSeq(s)
  PROVE  Len(s) \in Nat /\ DOMAIN s = 1 .. Len(s) /\ (s = <<>> <=> Len(s) = 0)
<1>1. PICK S : s \in Seq(S)
  BY DEF IsSeq
<1> QED
  BY <1>1

LEMMA NoneIsSeq == IsSeq(<<>>) /\ Len(<<>>) = 0
<1>1. Len(<<>>) = 0
  OBVIOUS
<1>2. <<>> \in Seq({})
  OBVIOUS
<1>3. IsSeq(<<>>)
  BY <1>2, Zenon DEF IsSeq
<1> QED
  BY <1>1, <1>3

LEMMA SingleSeq == \A e : IsSeq(<<e>>) /\ Len(<<e>>) = 1 /\ <<e>>[1] = e
<1> TAKE e
<1>1. <<e>> \in Seq({e})
  OBVIOUS
<1> QED
  BY <1>1 DEF IsSeq

-----------------------------------------------------------------------------
(* The list of blocks while the graph is built: each block is in it once,  *)
(* and it is empty only until the first vector has grown.                  *)
FlowInv ==
  /\ prog \in Programs
  /\ IsSeq(blocks) /\ IsSeq(content)
  /\ \A i \in 1 .. Len(blocks) : blocks[i] \in 1 .. Len(content)
  /\ \A i, j \in 1 .. Len(blocks) : blocks[i] = blocks[j] => i = j
  /\ Len(blocks) = 0 => focus = Call(Walk(prog, Into(<<>>))) \/ focus.doing = "grow"

LEMMA FlowStarts == Init => FlowInv
<1>1. IsSeq(<<>>)
  BY DEF IsSeq
<1> QED
  BY <1>1 DEF Init, FlowInit, FlowInv

(* The step that splits a vector puts a new number in the place of the old *)
(* one, and the old one at the end of the list.                            *)
LEMMA SplitKeeps ==
  ASSUME FlowInv, Split
  PROVE  FlowInv'
<1>1. PICK b \in Matching(focus.stash) :
        LET at == CHOOSE i \in DOMAIN content[b] : content[b][i] = focus.stash
            head == Len(content) + 1
        IN  /\ content' = Append([content EXCEPT ![b] = SubSeq(@, at, Len(@))],
                                 SubSeq(content[b], 1, at - 1))
            /\ blocks' = Append([i \in DOMAIN blocks |-> IF blocks[i] = b THEN head ELSE blocks[i]], b)
  BY DEF Split
<1>2. PICK S : blocks \in Seq(S)
  BY DEF FlowInv, IsSeq
<1>3. DOMAIN blocks = 1 .. Len(blocks) /\ Len(blocks) \in Nat
  BY <1>2
<1>4. PICK k \in 1 .. Len(blocks) : blocks[k] = b
  BY <1>3 DEF Matching, Range
<1>5. IsSeq(content') /\ Len(content') = Len(content) + 1 /\ Len(content) \in Nat
  <2>1. PICK e, f : content' = Append(Put(content, b, e), f)
    BY <1>1 DEF Put
  <2>2. IsSeq(content)
    BY DEF FlowInv
  <2>3. IsSeq(Put(content, b, e)) /\ Len(Put(content, b, e)) = Len(content)
    BY <2>2, PutKeeps
  <2>4. Len(content) \in Nat
    BY <2>2, Appended
  <2> QED
    BY <2>1, <2>3, <2>4, Appended
<1> DEFINE n == Len(blocks)
           head == Len(content) + 1
           q == [i \in 1 .. n |-> IF i = k THEN head ELSE blocks[i]]
<1>6. blocks' = Append(q, b)
  <2>1. \A i \in 1 .. n : blocks[i] = b <=> i = k
    BY <1>4 DEF FlowInv
  <2>2. [i \in DOMAIN blocks |-> IF blocks[i] = b THEN head ELSE blocks[i]] = q
    BY <1>3, <2>1
  <2> QED
    BY <1>1, <2>2
<1>7. IsSeq(q) /\ Len(q) = n
  <2>1. q \in Seq(S \union {head})
    BY <1>2, <1>3
  <2>2. Len(q) = n
    BY <1>3
  <2> QED
    BY <2>1, <2>2 DEF IsSeq
<1>8. IsSeq(blocks') /\ Len(blocks') = n + 1
  BY <1>6, <1>7, Appended
<1>9. /\ \A i \in 1 .. n : blocks'[i] = IF i = k THEN head ELSE blocks[i]
      /\ blocks'[n + 1] = b
  BY <1>6, <1>7, Appended
<1>10. \A i \in 1 .. n : blocks[i] \in 1 .. Len(content)
  BY DEF FlowInv
<1>11. \A i \in 1 .. Len(blocks') : blocks'[i] \in 1 .. Len(content')
  BY <1>3, <1>4, <1>5, <1>8, <1>9, <1>10
<1>12. ASSUME NEW i \in 1 .. Len(blocks'), NEW j \in 1 .. Len(blocks'), blocks'[i] = blocks'[j]
       PROVE  i = j
  <2>1. \A l, m \in 1 .. n : blocks[l] = blocks[m] => l = m
    BY DEF FlowInv
  <2>2. b \in 1 .. Len(content) /\ head \notin 1 .. Len(content)
    BY <1>4, <1>5, <1>10
  <2>3. CASE i \in 1 .. n /\ j \in 1 .. n
    BY <1>9, <1>10, <1>12, <2>1, <2>2, <2>3
  <2>4. CASE i = n + 1 /\ j \in 1 .. n
    BY <1>4, <1>9, <1>12, <2>1, <2>2, <2>4
  <2>5. CASE i \in 1 .. n /\ j = n + 1
    BY <1>4, <1>9, <1>12, <2>1, <2>2, <2>5
  <2>6. CASE i = n + 1 /\ j = n + 1
    BY <2>6
  <2> QED
    BY <1>3, <1>8, <2>3, <2>4, <2>5, <2>6
<1>13. prog' = prog
  BY DEF Split
<1> QED
  BY <1>3, <1>5, <1>8, <1>11, <1>12, <1>13 DEF FlowInv

LEMMA GrowKeeps ==
  ASSUME FlowInv, Grow
  PROVE  FlowInv'
<1>1. blocks' = Append(blocks, Len(content) + 1) /\ prog' = prog
  BY DEF Grow
<1>2. IsSeq(content') /\ Len(content') = Len(content) + 1 /\ Len(content) \in Nat
  BY Appended DEF Grow, FlowInv
<1>3. /\ IsSeq(blocks') /\ Len(blocks') = Len(blocks) + 1 /\ Len(blocks) \in Nat
      /\ \A i \in 1 .. Len(blocks) : blocks'[i] = blocks[i]
      /\ blocks'[Len(blocks) + 1] = Len(content) + 1
  BY <1>1, Appended DEF FlowInv
<1>4. \A i \in 1 .. Len(blocks) : blocks[i] \in 1 .. Len(content)
  BY DEF FlowInv
<1>5. \A i \in 1 .. Len(blocks') : blocks'[i] \in 1 .. Len(content')
  BY <1>2, <1>3, <1>4
<1>6. ASSUME NEW i \in 1 .. Len(blocks'), NEW j \in 1 .. Len(blocks'), blocks'[i] = blocks'[j]
      PROVE  i = j
  BY <1>2, <1>3, <1>4, <1>6 DEF FlowInv
<1> QED
  BY <1>1, <1>2, <1>3, <1>5, <1>6 DEF FlowInv

(* Before the first block there is nothing to match, and the first call is *)
(* neither for the end of the body nor for a bracket.                      *)
LEMMA FirstGrows ==
  ASSUME FlowInv, Len(blocks) = 0, FlowNext
  PROVE  Begin \/ Extend \/ Grow
<1>1. prog \in Programs /\ (focus = Call(Walk(prog, Into(<<>>))) \/ focus.doing = "grow")
  BY DEF FlowInv
<1>2. CASE focus.doing = "grow"
  BY <1>2 DEF FlowNext, Calling, LeaveBody, Found, Split, Pass, BuildBranch, Link, Leave, Finish, Resume
<1>3. CASE focus = Call(Walk(prog, Into(<<>>)))
  <2>1. focus.doing = "call" /\ focus.stash = Walk(prog, Into(<<>>))
    BY <1>3 DEF Call
  <2>2. focus.stash # End /\ ~IsBracket(prog, focus.stash)
    BY <1>1, <2>1, ProgramsAssumption
  <2>3. Matching(focus.stash) = {}
    <3>1. PICK S : blocks \in Seq(S)
      BY DEF FlowInv, IsSeq
    <3>2. DOMAIN blocks = {}
      BY <3>1
    <3> QED
      BY <3>2 DEF Matching, Range
  <2>4. focus # Resume /\ focus.doing # "return" /\ focus.doing # "grow"
    BY <2>1 DEF Resume
  <2> QED
    BY <2>2, <2>3, <2>4 DEF FlowNext, LeaveBody, Found, Split, Pass, BuildBranch, Link, Leave, Finish
<1> QED
  BY <1>1, <1>2, <1>3

LEMMA FlowKeeps ==
  ASSUME FlowInv, FlowNext
  PROVE  FlowInv'
<1>1. CASE Split
  BY <1>1, SplitKeeps
<1>2. CASE Grow
  BY <1>2, GrowKeeps
<1>3. CASE Begin \/ Extend
  BY <1>3 DEF FlowInv, Begin, Extend, Growing
<1>4. CASE LeaveBody \/ Found \/ Pass \/ BuildBranch \/ Link \/ Leave \/ Finish
  <2>1. CASE Len(blocks) = 0
    BY <1>3, <2>1, FirstGrows, GrowKeeps
  <2>2. CASE Len(blocks) # 0
    BY <1>4, <2>2 DEF FlowInv, LeaveBody, Found, Pass, BuildBranch, Link, Leave, Finish
  <2> QED
    BY <2>1, <2>2
<1> QED
  BY <1>1, <1>2, <1>3, <1>4 DEF FlowNext

-----------------------------------------------------------------------------
(* The vectors while the graph is built.  None is empty, a successor is a  *)
(* vector or none, and a call that waits finds the vector that holds its   *)
(* first stash when it returns.                                            *)
Holds(stash) == \E b \in 1 .. Len(content) : \E i \in 1 .. Len(content[b]) : content[b][i] = stash

FilledInv == \A b \in 1 .. Len(content) : IsSeq(content[b]) /\ Len(content[b]) # 0

LinksInv ==
  \A b \in 1 .. Len(content) :
    IsSeq(succ[b]) /\ \A i \in 1 .. Len(succ[b]) : succ[b][i] \in 0 .. Len(content)

FramesInv ==
  \A k \in 1 .. Len(frames) :
    /\ DOMAIN frames[k] = {"block", "first", "todo"}
    /\ frames[k].block \in 1 .. Len(content) /\ Holds(frames[k].first)

FocusInv ==
  /\ focus.doing = "resume" => Len(frames) # 0
  /\ focus.doing = "return" => focus.block \in 0 .. Len(content)
  /\ focus.doing = "grow" => /\ IsSeq(focus.run) /\ Len(focus.run) # 0
                             /\ focus.run[1] # End /\ ~IsBracket(prog, focus.run[1])

VectorInv ==
  /\ FlowInv
  /\ IsSeq(succ) /\ IsSeq(frames) /\ Len(blocks) = Len(content) /\ Len(succ) = Len(content)
  /\ \A b \in 1 .. Len(content) : \E k \in 1 .. Len(blocks) : blocks[k] = b
  /\ FilledInv /\ LinksInv /\ FramesInv /\ FocusInv

LEMMA VectorStarts == Init => VectorInv
<1> SUFFICES ASSUME Init PROVE VectorInv
  OBVIOUS
<1>1. focus.doing = "call" /\ blocks = <<>> /\ content = <<>> /\ succ = <<>> /\ frames = <<>>
  BY DEF Init, FlowInit, Call
<1>2. Len(content) = 0 /\ Len(blocks) = 0 /\ Len(succ) = 0 /\ Len(frames) = 0
      /\ IsSeq(succ) /\ IsSeq(frames)
  BY <1>1, NoneIsSeq, Zenon
<1> QED
  BY <1>1, <1>2, FlowStarts DEF VectorInv, FilledInv, LinksInv, FramesInv, FocusInv

(* While vectors stay as they are, so does what they hold. *)
LEMMA FilledFacts ==
  ASSUME VectorInv
  PROVE  /\ Len(content) \in Nat /\ DOMAIN content = 1 .. Len(content)
         /\ DOMAIN blocks = 1 .. Len(content) /\ Range(blocks) = 1 .. Len(content)
         /\ DOMAIN succ = 1 .. Len(content) /\ DOMAIN frames = 1 .. Len(frames) /\ Len(frames) \in Nat
         /\ \A b \in 1 .. Len(content) :
              Len(content[b]) \in Nat \ {0} /\ DOMAIN content[b] = 1 .. Len(content[b])
         /\ \A stash : Holds(stash) <=> Matching(stash) # {}
<1>1. /\ Len(content) \in Nat /\ DOMAIN content = 1 .. Len(content)
      /\ DOMAIN blocks = 1 .. Len(content)
      /\ DOMAIN succ = 1 .. Len(content) /\ DOMAIN frames = 1 .. Len(frames) /\ Len(frames) \in Nat
  BY SeqDomain DEF VectorInv, FlowInv
<1>2. Range(blocks) = 1 .. Len(content)
  BY <1>1 DEF VectorInv, FlowInv, Range
<1>3. \A b \in 1 .. Len(content) :
        Len(content[b]) \in Nat \ {0} /\ DOMAIN content[b] = 1 .. Len(content[b])
  BY SeqDomain DEF VectorInv, FilledInv
<1>4. \A stash : Holds(stash) <=> Matching(stash) # {}
  BY <1>2, <1>3 DEF Holds, Matching, Range
<1> QED
  BY <1>1, <1>2, <1>3, <1>4

LEMMA SplitVectors ==
  ASSUME VectorInv, Split
  PROVE  VectorInv'
<1> DEFINE n == Len(content)
           head == n + 1
<1>1. PICK b, at :
        /\ b \in Matching(focus.stash)
        /\ at = CHOOSE i \in DOMAIN content[b] : content[b][i] = focus.stash
        /\ at > 1
        /\ content' = Append([content EXCEPT ![b] = SubSeq(@, at, Len(@))],
                             SubSeq(content[b], 1, at - 1))
        /\ succ' = Append(Relinked(succ, b, head), <<b>>)
        /\ blocks' = Append([i \in DOMAIN blocks |-> IF blocks[i] = b THEN head ELSE blocks[i]], b)
        /\ focus' = Give(b)
        /\ frames' = frames /\ prog' = prog
  BY DEF Split
<1>2. /\ n \in Nat /\ DOMAIN content = 1 .. n /\ DOMAIN blocks = 1 .. n /\ DOMAIN succ = 1 .. n
      /\ b \in 1 .. n /\ Len(content[b]) \in Nat /\ DOMAIN content[b] = 1 .. Len(content[b])
      /\ IsSeq(content) /\ IsSeq(content[b])
  BY <1>1, FilledFacts DEF Matching, VectorInv, FlowInv, FilledInv
<1>3. at \in 1 .. Len(content[b])
  <2>1. focus.stash \in Range(content[b])
    BY <1>1 DEF Matching
  <2>2. \E i \in DOMAIN content[b] : content[b][i] = focus.stash
    BY <2>1 DEF Range
  <2> QED
    BY <1>1, <1>2, <2>2
<1> DEFINE tail == SubSeq(content[b], at, Len(content[b]))
           front == SubSeq(content[b], 1, at - 1)
           long == Len(content[b])
<1>4. /\ IsSeq(tail) /\ Len(tail) = long - at + 1
      /\ \A i \in 1 .. long - at + 1 : tail[i] = content[b][at + i - 1]
  <2>1. at \in 1 .. long + 1 /\ long \in 0 .. long /\ at <= long + 1
    BY <1>2, <1>3
  <2> QED
    BY <1>2, <2>1, Cut
<1>5. /\ IsSeq(front) /\ Len(front) = at - 1
      /\ \A i \in 1 .. at - 1 : front[i] = content[b][i]
  <2>1. 1 \in 1 .. long + 1 /\ at - 1 \in 0 .. long /\ 1 <= at - 1 + 1
    BY <1>1, <1>2, <1>3
  <2>2. /\ IsSeq(front) /\ Len(front) = at - 1 - 1 + 1
        /\ \A i \in 1 .. at - 1 - 1 + 1 : front[i] = content[b][1 + i - 1]
    BY <1>2, <2>1, Cut
  <2> QED
    BY <1>2, <1>3, <2>2
<1>6. /\ IsSeq(content') /\ Len(content') = n + 1
      /\ \A c \in 1 .. n : content'[c] = IF c = b THEN tail ELSE content[c]
      /\ content'[n + 1] = front
  <2> DEFINE mid == Put(content, b, tail)
  <2>1. content' = Append(mid, front)
    BY <1>1 DEF Put
  <2>2. IsSeq(mid) /\ Len(mid) = n /\ \A c \in 1 .. n : mid[c] = IF c = b THEN tail ELSE content[c]
    BY <1>2, PutKeeps
  <2> HIDE DEF mid, tail, front
  <2> QED
    BY <2>1, <2>2, Appended
<1> HIDE DEF tail, front
<1>7. FilledInv'
  <2>1. long \in Nat /\ at \in 1 .. long /\ at > 1
    BY <1>1, <1>2, <1>3
  <2>2. Len(front) # 0 /\ Len(tail) # 0
    BY <1>4, <1>5, <2>1
  <2>3. \A c \in 1 .. n : IsSeq(content[c]) /\ Len(content[c]) # 0
    BY DEF FilledInv, VectorInv
  <2>4. \A c \in 1 .. n + 1 : IsSeq(content'[c]) /\ Len(content'[c]) # 0
    <3> TAKE c \in 1 .. n + 1
    <3>1. CASE c = b
      BY <1>2, <1>4, <1>6, <2>2, <3>1
    <3>2. CASE c = n + 1
      BY <1>5, <1>6, <2>2, <3>2
    <3>3. CASE c \in 1 .. n /\ c # b
      BY <1>6, <2>3, <3>3
    <3> QED
      BY <1>2, <3>1, <3>2, <3>3
  <2> QED
    BY <1>6, <2>4 DEF FilledInv
<1>8. \A stash : Holds(stash) => Holds(stash)'
  <2> SUFFICES ASSUME NEW stash, NEW c \in 1 .. n, NEW i \in 1 .. Len(content[c]), content[c][i] = stash
               PROVE  \E d \in 1 .. n + 1 : \E j \in 1 .. Len(content'[d]) : content'[d][j] = stash
    BY <1>6 DEF Holds
  <2>1. CASE c # b
    BY <1>2, <1>6, <2>1
  <2>2. CASE c = b /\ i < at
    <3>1. i \in 1 .. at - 1 /\ n + 1 \in 1 .. n + 1
      BY <1>2, <1>3, <2>2
    <3> QED
      BY <1>5, <1>6, <2>2, <3>1
  <2>3. CASE c = b /\ i >= at
    <3>1. i - at + 1 \in 1 .. long - at + 1 /\ at + (i - at + 1) - 1 = i /\ b \in 1 .. n + 1
      BY <1>2, <1>3, <2>3
    <3>2. tail[i - at + 1] = stash
      BY <1>4, <2>3, <3>1
    <3> QED
      BY <1>2, <1>4, <1>6, <2>3, <3>1, <3>2
  <2> QED
    BY <1>2, <1>3, <2>1, <2>2, <2>3
<1>9. FramesInv'
  <2>1. \A k \in 1 .. Len(frames) : /\ DOMAIN frames[k] = {"block", "first", "todo"}
                                    /\ frames[k].block \in 1 .. n /\ Holds(frames[k].first)'
    <3> TAKE k \in 1 .. Len(frames)
    <3>1. /\ DOMAIN frames[k] = {"block", "first", "todo"}
          /\ frames[k].block \in 1 .. n /\ Holds(frames[k].first)
      BY DEF FramesInv, VectorInv
    <3>2. Holds(frames[k].first)'
      <4> DEFINE stash == frames[k].first
      <4>1. Holds(stash)'
        BY <1>1, <1>8, <3>1
      <4> QED
        BY <4>1
    <3> QED
      BY <3>1, <3>2
  <2>2. \A m \in 1 .. n : m \in 1 .. n + 1
    BY <1>2
  <2>3. frames' = frames /\ Len(content') = n + 1
    BY <1>1, <1>6
  <2> QED
    BY <2>1, <2>2, <2>3 DEF FramesInv
<1>10. IsSeq(succ') /\ Len(succ') = n + 1 /\ LinksInv'
  <2> DEFINE more == Relinked(succ, b, head)
  <2>1. \A c \in 1 .. n : more[c] = [i \in DOMAIN succ[c] |-> IF succ[c][i] = b THEN head ELSE succ[c][i]]
    BY <1>2 DEF Relinked
  <2>2. \A c \in 1 .. n : DOMAIN succ[c] = 1 .. Len(succ[c]) /\ Len(succ[c]) \in Nat
                          /\ \A i \in 1 .. Len(succ[c]) : succ[c][i] \in 0 .. n
    BY SeqDomain DEF VectorInv, LinksInv
  <2>3. ASSUME NEW c \in 1 .. n
        PROVE  IsSeq(more[c]) /\ \A i \in 1 .. Len(more[c]) : more[c][i] \in 0 .. n + 1
    <3>1. more[c] = [i \in 1 .. Len(succ[c]) |-> IF succ[c][i] = b THEN head ELSE succ[c][i]]
      BY <2>1, <2>2
    <3> DEFINE L == Len(succ[c])
               e(i) == IF succ[c][i] = b THEN head ELSE succ[c][i]
    <3>2. L \in Nat /\ \A i \in 1 .. L : e(i) \in 0 .. n + 1
      BY <1>2, <2>2
    <3>3. more[c] = [i \in 1 .. L |-> e(i)]
      BY <3>1
    <3> HIDE DEF more, L, e
    <3>4. more[c] \in Seq(0 .. n + 1) /\ Len(more[c]) = L
      BY <3>2, <3>3
    <3>5. \A i \in 1 .. L : more[c][i] \in 0 .. n + 1
      BY <3>2, <3>3
    <3> QED
      BY <3>4, <3>5 DEF IsSeq
  <2>4. IsSeq(more) /\ Len(more) = n
    <3>1. more = [c \in 1 .. n |-> more[c]]
      BY <1>2 DEF Relinked
    <3> HIDE DEF more
    <3>2. more \in Seq({more[c] : c \in 1 .. n}) /\ Len(more) = n
      BY <1>2, <3>1
    <3> QED
      BY <3>2 DEF IsSeq
  <2> HIDE DEF more
  <2>5. /\ IsSeq(succ') /\ Len(succ') = n + 1 /\ succ'[n + 1] = <<b>>
        /\ \A c \in 1 .. n : succ'[c] = more[c]
    BY <1>1, <2>4, Appended DEF more
  <2>6. IsSeq(<<b>>) /\ Len(<<b>>) = 1 /\ <<b>>[1] \in 0 .. n + 1
    BY <1>2, SingleSeq
  <2>7. \A c \in 1 .. n + 1 :
          IsSeq(succ'[c]) /\ \A i \in 1 .. Len(succ'[c]) : succ'[c][i] \in 0 .. n + 1
    <3> TAKE c \in 1 .. n + 1
    <3>1. CASE c \in 1 .. n
      BY <2>3, <2>5, <3>1
    <3>2. CASE c = n + 1
      BY <2>5, <2>6, <3>2
    <3> QED
      BY <1>2, <3>1, <3>2
  <2> QED
    BY <1>6, <2>5, <2>7 DEF LinksInv
<1>11. Len(blocks') = n + 1 /\ \A c \in 1 .. n + 1 : \E k \in 1 .. n + 1 : blocks'[k] = c
  <2> DEFINE q == [i \in DOMAIN blocks |-> IF blocks[i] = b THEN head ELSE blocks[i]]
  <2>1. \A i \in 1 .. n : q[i] = (IF blocks[i] = b THEN head ELSE blocks[i]) /\ blocks[i] \in 1 .. n
    BY <1>2 DEF VectorInv, FlowInv
  <2>2. IsSeq(q) /\ Len(q) = n
    <3>1. q = [i \in 1 .. n |-> q[i]]
      BY <1>2
    <3> HIDE DEF q
    <3>2. q \in Seq({q[i] : i \in 1 .. n}) /\ Len(q) = n
      BY <1>2, <3>1
    <3> QED
      BY <3>2 DEF IsSeq
  <2>3. blocks' = Append(q, b)
    BY <1>1
  <2> HIDE DEF q
  <2>4. Len(blocks') = n + 1 /\ blocks'[n + 1] = b /\ \A i \in 1 .. n : blocks'[i] = q[i]
    BY <2>2, <2>3, Appended
  <2>5. \A c \in 1 .. n : \E k \in 1 .. n : blocks[k] = c
    BY DEF VectorInv
  <2>6. ASSUME NEW c \in 1 .. n + 1 PROVE \E k \in 1 .. n + 1 : blocks'[k] = c
    <3>1. CASE c = b
      BY <1>2, <2>4, <3>1
    <3>2. CASE c = n + 1
      <4>1. PICK k \in 1 .. n : blocks[k] = b
        BY <1>2, <2>5
      <4> QED
        BY <1>2, <2>1, <2>4, <3>2, <4>1
    <3>3. CASE c # b /\ c \in 1 .. n
      <4>1. PICK k \in 1 .. n : blocks[k] = c
        BY <2>5, <3>3
      <4> QED
        BY <1>2, <2>1, <2>4, <3>3, <4>1
    <3> QED
      BY <1>2, <3>1, <3>2, <3>3
  <2> QED
    BY <2>4, <2>6
<1>12. FocusInv'
  BY <1>1, <1>2, <1>6 DEF FocusInv, Give
<1>13. FlowInv'
  BY SplitKeeps DEF VectorInv
<1>14. IsSeq(frames')
  BY <1>1 DEF VectorInv
<1> QED
  BY <1>6, <1>7, <1>9, <1>10, <1>11, <1>12, <1>13, <1>14 DEF VectorInv

LEMMA GrowVectors ==
  ASSUME VectorInv, Grow
  PROVE  VectorInv'
<1> DEFINE n == Len(content)
           run_ == focus.run
           new == IF Last(run_) = End \/ IsBracket(prog, Last(run_)) THEN Front(run_) ELSE run_
<1>1. PICK todo, first :
        /\ first = run_[1] /\ focus.doing = "grow" /\ focus' = Resume /\ prog' = prog
        /\ content' = Append(content, new) /\ succ' = Append(succ, <<>>)
        /\ blocks' = Append(blocks, n + 1)
        /\ frames' = Append(frames, [block |-> n + 1, first |-> first, todo |-> todo])
  BY DEF Grow
<1>2. IsSeq(run_) /\ Len(run_) # 0 /\ run_[1] # End /\ ~IsBracket(prog, run_[1]) /\ Len(run_) \in Nat
  BY <1>1, SeqDomain DEF VectorInv, FocusInv
<1>3. IsSeq(new) /\ Len(new) \in Nat \ {0} /\ new[1] = first
  <2>1. CASE Last(run_) = End \/ IsBracket(prog, Last(run_))
    <3>1. Len(run_) # 1
      BY <1>2, <2>1 DEF Last
    <3>2. new = Front(run_)
      BY <2>1
    <3>3. IsSeq(Front(run_)) /\ Len(Front(run_)) = Len(run_) - 1
          /\ \A i \in 1 .. Len(run_) - 1 : Front(run_)[i] = run_[i]
      BY <1>2, Fronted
    <3>4. Len(run_) - 1 \in Nat \ {0} /\ 1 \in 1 .. Len(run_) - 1
      <4> DEFINE k == Len(run_)
      <4>1. k \in Nat /\ k # 0 /\ k # 1
        BY <1>2, <3>1
      <4> HIDE DEF k
      <4>2. k - 1 \in Nat \ {0} /\ 1 \in 1 .. k - 1
        BY <4>1
      <4> QED
        BY <4>2 DEF k
    <3> HIDE DEF new, run_
    <3> QED
      BY <1>1, <3>2, <3>3, <3>4
  <2>2. CASE ~(Last(run_) = End \/ IsBracket(prog, Last(run_)))
    BY <1>1, <1>2, <2>2
  <2> QED
    BY <2>1, <2>2
<1> HIDE DEF new
<1>4. /\ n \in Nat /\ IsSeq(content) /\ IsSeq(succ) /\ IsSeq(frames) /\ IsSeq(blocks)
      /\ Len(succ) = n /\ Len(blocks) = n /\ Len(frames) \in Nat
  BY SeqDomain DEF VectorInv, FlowInv
<1>5. /\ IsSeq(content') /\ Len(content') = n + 1 /\ content'[n + 1] = new
      /\ \A c \in 1 .. n : content'[c] = content[c]
  BY <1>1, <1>4, Appended
<1>6. /\ IsSeq(succ') /\ Len(succ') = n + 1 /\ succ'[n + 1] = <<>>
      /\ \A c \in 1 .. n : succ'[c] = succ[c]
  BY <1>1, <1>4, Appended
<1>7. /\ Len(blocks') = n + 1 /\ blocks'[n + 1] = n + 1
      /\ \A c \in 1 .. n : blocks'[c] = blocks[c]
  BY <1>1, <1>4, Appended
<1>8. /\ IsSeq(frames') /\ Len(frames') = Len(frames) + 1
      /\ frames'[Len(frames) + 1] = [block |-> n + 1, first |-> first, todo |-> todo]
      /\ \A k \in 1 .. Len(frames) : frames'[k] = frames[k]
  BY <1>1, <1>4, Appended
<1>9. \A c \in 1 .. n + 1 : \E k \in 1 .. n + 1 : blocks'[k] = c
  <2>1. \A c \in 1 .. n : \E k \in 1 .. n : blocks[k] = c
    BY <1>4 DEF VectorInv
  <2> TAKE c \in 1 .. n + 1
  <2>2. CASE c \in 1 .. n
    <3>1. PICK k \in 1 .. n : blocks[k] = c
      BY <2>1, <2>2
    <3> QED
      BY <1>4, <1>7, <3>1
  <2>3. CASE c = n + 1
    BY <1>4, <1>7, <2>3
  <2> QED
    BY <1>4, <2>2, <2>3
<1>10. FilledInv'
  <2>1. \A c \in 1 .. n : IsSeq(content[c]) /\ Len(content[c]) # 0
    BY DEF VectorInv, FilledInv
  <2>2. \A c \in 1 .. n + 1 : IsSeq(content'[c]) /\ Len(content'[c]) # 0
    BY <1>3, <1>4, <1>5, <2>1
  <2> QED
    BY <1>5, <2>2 DEF FilledInv
<1>11. LinksInv'
  <2>1. \A c \in 1 .. n : IsSeq(succ[c]) /\ \A i \in 1 .. Len(succ[c]) : succ[c][i] \in 0 .. n + 1
    BY <1>4 DEF VectorInv, LinksInv
  <2>2. ASSUME NEW c \in 1 .. n + 1
        PROVE  IsSeq(succ'[c]) /\ \A i \in 1 .. Len(succ'[c]) : succ'[c][i] \in 0 .. n + 1
    <3>1. CASE c \in 1 .. n
      BY <1>6, <2>1, <3>1
    <3>2. CASE c = n + 1
      BY <1>6, <3>2, NoneIsSeq
    <3> QED
      BY <1>4, <3>1, <3>2
  <2> QED
    BY <1>5, <2>2 DEF LinksInv
<1>12. \A stash : Holds(stash) \/ stash = first => Holds(stash)'
  <2>1. ASSUME NEW stash, Holds(stash) PROVE Holds(stash)'
    BY <1>4, <1>5, <2>1 DEF Holds
  <2>2. Holds(first)'
    <3>1. n + 1 \in 1 .. Len(content') /\ 1 \in 1 .. Len(content'[n + 1]) /\ content'[n + 1][1] = first
      BY <1>3, <1>4, <1>5
    <3> QED
      BY <3>1 DEF Holds
  <2> QED
    BY <2>1, <2>2
<1>13. FramesInv'
  <2> DEFINE Good(f) == DOMAIN f = {"block", "first", "todo"} /\ f.block \in 1 .. n + 1
             added == [block |-> n + 1, first |-> first, todo |-> todo]
  <2>1. \A k \in 1 .. Len(frames) : Good(frames[k]) /\ Holds(frames[k].first)
    BY <1>4 DEF VectorInv, FramesInv
  <2>2. Good(added) /\ added.first = first
    BY <1>4
  <2> HIDE DEF Good, added
  <2>3. \A k \in 1 .. Len(frames) + 1 :
          Good(frames'[k]) /\ (frames'[k].first = first \/ Holds(frames'[k].first))
    BY <1>4, <1>8, <2>1, <2>2 DEF added
  <2> QED
    BY <1>5, <1>8, <1>12, <2>3 DEF FramesInv, Good
<1>14. FocusInv'
  BY <1>1, <1>4, <1>8 DEF FocusInv, Resume
<1>15. FlowInv'
  BY GrowKeeps DEF VectorInv
<1> QED
  BY <1>5, <1>6, <1>7, <1>8, <1>9, <1>10, <1>11, <1>13, <1>14, <1>15 DEF VectorInv

LEMMA VectorKeeps ==
  ASSUME VectorInv, FlowNext
  PROVE  VectorInv'
<1>0. FlowInv'
  BY FlowKeeps DEF VectorInv
<1>1. CASE Split
  BY <1>1, SplitVectors
<1>2. CASE Grow
  BY <1>2, GrowVectors
<1>3. CASE LeaveBody \/ Found \/ Pass \/ Begin \/ Extend \/ Finish
  <2>1. UNCHANGED <<prog, blocks, content, succ, frames>>
    BY <1>3 DEF LeaveBody, Found, Pass, Begin, Extend, Finish
  <2>2. FilledInv' /\ LinksInv' /\ FramesInv'
    <3>1. FilledInv /\ LinksInv /\ FramesInv
      BY DEF VectorInv
    <3>2. content' = content /\ succ' = succ /\ frames' = frames
      BY <2>1
    <3>3. FilledInv'
      BY <3>1, <3>2 DEF FilledInv
    <3>4. LinksInv'
      BY <3>1, <3>2 DEF LinksInv
    <3>5. FramesInv'
      BY <3>1, <3>2 DEF FramesInv, Holds
    <3> QED
      BY <3>3, <3>4, <3>5
  <2>3. FocusInv'
    <3>1. CASE LeaveBody
      BY <2>1, <3>1, FilledFacts DEF LeaveBody, FocusInv, Give
    <3>2. CASE Found
      <4>1. PICK b \in Matching(focus.stash) : focus' = Give(b)
        BY <3>2 DEF Found
      <4>2. b \in 0 .. Len(content)
        BY FilledFacts DEF Matching
      <4> QED
        BY <2>1, <4>1, <4>2 DEF FocusInv, Give
    <3>3. CASE Pass \/ Finish
      BY <3>3 DEF Pass, Finish, FocusInv, Call, Built
    <3>4. CASE Begin
      BY <2>1, <3>4, SingleSeq DEF Begin, FocusInv, Growing
    <3>5. CASE Extend
      <4>1. PICK e : focus' = Growing(Append(focus.run, e))
        BY <3>5 DEF Extend
      <4>2. /\ IsSeq(focus.run) /\ Len(focus.run) # 0 /\ focus.run[1] # End
            /\ ~IsBracket(prog, focus.run[1])
        BY <3>5 DEF Extend, VectorInv, FocusInv
      <4> DEFINE more == Append(focus.run, e)
      <4>3. /\ IsSeq(more) /\ Len(more) = Len(focus.run) + 1 /\ Len(focus.run) \in Nat
            /\ \A i \in 1 .. Len(focus.run) : more[i] = focus.run[i]
        BY <4>2, Appended
      <4>4. 1 \in 1 .. Len(focus.run) /\ Len(focus.run) + 1 # 0
        BY <4>2, <4>3
      <4> HIDE DEF more
      <4>5. IsSeq(more) /\ Len(more) # 0 /\ more[1] # End /\ ~IsBracket(prog, more[1])
        BY <4>2, <4>3, <4>4
      <4>6. focus'.doing = "grow" /\ focus'.run = more
        BY <4>1 DEF Growing, more
      <4> QED
        BY <2>1, <4>5, <4>6 DEF FocusInv
    <3> QED
      BY <1>3, <3>1, <3>2, <3>3, <3>4, <3>5
  <2> QED
    BY <1>0, <2>1, <2>2, <2>3 DEF VectorInv
<1>4. CASE BuildBranch
  <2>1. /\ frames' = [frames EXCEPT ![Len(frames)].todo = Tail(@)]
        /\ UNCHANGED <<prog, blocks, content, succ>> /\ focus'.doing = "call"
    BY <1>4 DEF BuildBranch, Call
  <2> DEFINE last == [frames[Len(frames)] EXCEPT !.todo = Tail(@)]
  <2>2. frames' = Put(frames, Len(frames), last)
    BY <2>1 DEF Put
  <2>3. /\ IsSeq(frames') /\ Len(frames') = Len(frames) /\ Len(frames) \in Nat
        /\ \A k \in 1 .. Len(frames) : frames'[k] = IF k = Len(frames) THEN last ELSE frames[k]
    <3> HIDE DEF last
    <3> QED
      BY <2>2, PutKeeps, SeqDomain DEF VectorInv
  <2>4. ASSUME NEW k \in 1 .. Len(frames)
        PROVE  /\ DOMAIN frames'[k] = {"block", "first", "todo"}
               /\ frames'[k].block = frames[k].block /\ frames'[k].first = frames[k].first
    <3>1. DOMAIN frames[k] = {"block", "first", "todo"}
      BY DEF VectorInv, FramesInv
    <3>2. CASE k = Len(frames)
      BY <2>3, <3>1, <3>2
    <3>3. CASE k # Len(frames)
      BY <2>3, <3>1, <3>3
    <3> QED
      BY <3>2, <3>3
  <2>5. \A k \in 1 .. Len(frames) : frames[k].block \in 1 .. Len(content) /\ Holds(frames[k].first)
    BY DEF VectorInv, FramesInv
  <2>6. \A stash : Holds(stash) => Holds(stash)'
    BY <2>1 DEF Holds
  <2>7. FramesInv'
    BY <2>1, <2>3, <2>4, <2>5, <2>6 DEF FramesInv
  <2>8. FilledInv' /\ LinksInv' /\ FocusInv'
    BY <2>1 DEF VectorInv, FilledInv, LinksInv, FocusInv
  <2> QED
    BY <1>0, <2>1, <2>3, <2>7, <2>8 DEF VectorInv
<1>5. CASE Link
  <2> DEFINE at == Last(frames).block
             more == Append(succ[at], focus.block)
  <2>1. /\ focus.doing = "return" /\ frames # <<>> /\ focus' = Resume
        /\ succ' = [succ EXCEPT ![at] = more]
        /\ UNCHANGED <<prog, blocks, content, frames>>
    BY <1>5 DEF Link
  <2>2. at \in 1 .. Len(content)
    <3>1. Len(frames) \in Nat /\ Len(frames) # 0
      BY <2>1, SeqDomain DEF VectorInv
    <3>2. Len(frames) \in 1 .. Len(frames)
      BY <3>1
    <3> QED
      BY <3>2 DEF Last, VectorInv, FramesInv
  <2>3. IsSeq(succ[at]) /\ Len(succ[at]) \in Nat
        /\ \A i \in 1 .. Len(succ[at]) : succ[at][i] \in 0 .. Len(content)
    BY <2>2, SeqDomain DEF VectorInv, LinksInv
  <2>4. focus.block \in 0 .. Len(content)
    BY <2>1 DEF VectorInv, FocusInv
  <2>5. IsSeq(more) /\ Len(more) = Len(succ[at]) + 1 /\ more[Len(succ[at]) + 1] = focus.block
        /\ \A i \in 1 .. Len(succ[at]) : more[i] = succ[at][i]
    BY <2>3, Appended
  <2>6. \A i \in 1 .. Len(more) : more[i] \in 0 .. Len(content)
    <3> HIDE DEF at, more
    <3> QED
      BY <2>3, <2>4, <2>5
  <2>7. /\ IsSeq(succ') /\ Len(succ') = Len(succ)
        /\ \A c \in 1 .. Len(succ) : succ'[c] = IF c = at THEN more ELSE succ[c]
    <3>1. IsSeq(succ) /\ succ' = Put(succ, at, more)
      BY <2>1 DEF VectorInv, Put
    <3> HIDE DEF at, more
    <3> QED
      BY <3>1, PutKeeps
  <2>8. LinksInv'
    <3> HIDE DEF at, more
    <3>1. \A c \in 1 .. Len(content) :
            IsSeq(succ'[c]) /\ \A i \in 1 .. Len(succ'[c]) : succ'[c][i] \in 0 .. Len(content)
      BY <2>5, <2>6, <2>7 DEF VectorInv, LinksInv
    <3> QED
      BY <2>1, <3>1 DEF LinksInv
  <2>9. FilledInv' /\ FramesInv' /\ FocusInv'
    <3>1. Len(frames) # 0
      BY <2>1, SeqDomain DEF VectorInv
    <3> QED
      BY <2>1, <3>1 DEF VectorInv, FilledInv, FramesInv, FocusInv, Holds, Resume
  <2> QED
    BY <1>0, <2>1, <2>7, <2>8, <2>9 DEF VectorInv
<1>6. CASE Leave
  <2>1. /\ focus = Resume /\ focus' = Give(findMatch(Last(frames).first)) /\ frames' = Front(frames)
        /\ UNCHANGED <<prog, blocks, content, succ>>
    BY <1>6 DEF Leave, Returned
  <2>2. IsSeq(frames) /\ Len(frames) \in Nat /\ Len(frames) # 0
    BY <2>1, SeqDomain DEF VectorInv, FocusInv, Resume
  <2>3. Len(frames) \in 1 .. Len(frames)
    BY <2>2
  <2>4. Matching(Last(frames).first) # {}
    BY <2>3, FilledFacts DEF Last, VectorInv, FramesInv
  <2>5. findMatch(Last(frames).first) \in Matching(Last(frames).first)
    BY <2>4 DEF findMatch
  <2>6. findMatch(Last(frames).first) \in 0 .. Len(content)
    BY <2>5, FilledFacts DEF Matching
  <2>7. FocusInv'
    BY <2>1, <2>6 DEF FocusInv, Give
  <2>8. /\ IsSeq(frames') /\ Len(frames') = Len(frames) - 1
        /\ \A k \in 1 .. Len(frames) - 1 : frames'[k] = frames[k] /\ k \in 1 .. Len(frames)
    BY <2>1, <2>2, Fronted
  <2>9. \A stash : Holds(stash) => Holds(stash)'
    BY <2>1 DEF Holds
  <2>10. FramesInv'
    BY <2>1, <2>8, <2>9 DEF VectorInv, FramesInv
  <2>11. FilledInv' /\ LinksInv'
    BY <2>1 DEF VectorInv, FilledInv, LinksInv
  <2> QED
    BY <1>0, <2>1, <2>7, <2>8, <2>10, <2>11 DEF VectorInv
<1> QED
  BY <1>1, <1>2, <1>3, <1>4, <1>5, <1>6 DEF FlowNext

-----------------------------------------------------------------------------
(* The sweeps: what has been found so far holds the true dominators, and a *)
(* sweep without a change has left every block behind it as its            *)
(* predecessors ask for.                                                   *)
SweepInv ==
  /\ doms \in [Graph!Nodes -> SUBSET Graph!Nodes]
  /\ doms[blocks[1]] = {blocks[1]}
  /\ \A b \in Graph!Nodes : b \in doms[b]
  /\ \A b \in Graph!Nodes : Graph!Dominators(b) \subseteq doms[b]
  /\ cursor \in Nat /\ cursor >= 2
  /\ changed \in BOOLEAN
  /\ ~changed => \A k \in 2 .. Len(blocks), b \in Graph!Nodes :
                   k < cursor /\ b = blocks[k] => doms[b] = Graph!NewList(b)

LEMMA NodesFacts ==
  ASSUME FlowInv, Len(blocks) # 0
  PROVE  /\ Len(blocks) \in Nat /\ DOMAIN blocks = 1 .. Len(blocks)
         /\ Graph!Nodes = {blocks[i] : i \in 1 .. Len(blocks)}
         /\ blocks[1] \in Graph!Nodes
         /\ \A k \in 2 .. Len(blocks) : blocks[k] \in Graph!Nodes /\ blocks[k] # blocks[1]
         /\ \A k, l \in 1 .. Len(blocks) : blocks[k] = blocks[l] => k = l
<1>1. PICK S : blocks \in Seq(S)
  BY DEF FlowInv, IsSeq
<1>2. Len(blocks) \in Nat /\ DOMAIN blocks = 1 .. Len(blocks)
  BY <1>1
<1>3. Graph!Nodes = {blocks[i] : i \in 1 .. Len(blocks)}
  BY <1>2 DEF Graph!Nodes
<1>4. \A k, l \in 1 .. Len(blocks) : blocks[k] = blocks[l] => k = l
  BY DEF FlowInv
<1>5. 1 \in 1 .. Len(blocks) /\ \A k \in 2 .. Len(blocks) : k \in 1 .. Len(blocks) /\ k # 1
  BY <1>2
<1> QED
  BY <1>2, <1>3, <1>4, <1>5

(* The predecessors of a block share its dominators. *)
LEMMA SharedDominators ==
  ASSUME FlowInv, Len(blocks) # 0, SweepInv,
         NEW b \in Graph!Nodes, NEW d \in Graph!Dominators(b)
  PROVE  d \in Graph!NewList(b)
<1>1. d \in Graph!Nodes
  BY DEF Graph!Dominators
<1>2. CASE d = b
  BY <1>2 DEF Graph!NewList
<1>3. CASE d # b
  <2>1. PICK S \in SUBSET (Graph!Nodes \ {d, b}) :
          (d # blocks[1] => blocks[1] \in S) /\ Graph!ClosedAvoiding(S, d)
    BY <1>3 DEF Graph!Dominators, Graph!Dominates
  <2>2. ASSUME NEW p \in Graph!Preds(b)
        PROVE  d \in doms[p]
    <3>1. p \in Graph!Nodes /\ b \in Graph!Successors(p)
      BY <2>2 DEF Graph!Preds
    <3>2. p \notin S
      BY <1>3, <2>1, <3>1 DEF Graph!ClosedAvoiding
    <3>3. Graph!Dominates(d, p)
      BY <2>1, <3>2 DEF Graph!Dominates
    <3>4. d \in Graph!Dominators(p)
      BY <1>1, <3>3 DEF Graph!Dominators
    <3> QED
      BY <3>1, <3>4 DEF SweepInv
  <2> QED
    BY <1>1, <2>2 DEF Graph!NewList
<1> QED
  BY <1>2, <1>3

(* What only depends on the graph does not change in a sweep. *)
LEMMA GraphStays ==
  ASSUME blocks' = blocks, succ' = succ
  PROVE  /\ Graph!Nodes' = Graph!Nodes
         /\ \A b : Graph!Dominators(b)' = Graph!Dominators(b)
         /\ doms' = doms => \A b : Graph!NewList(b)' = Graph!NewList(b)
BY DEF Graph!Nodes, Graph!Dominators, Graph!Dominates, Graph!ClosedAvoiding, Graph!Successors,
       Graph!NewList, Graph!Preds

LEMMA BuildDomsStarts ==
  ASSUME FlowInv, Len(blocks) # 0, Graph!BuildDoms, UNCHANGED flow
  PROVE  SweepInv'
<1>1. /\ doms' = [b \in Graph!Nodes |-> IF b = blocks[1] THEN {b} ELSE Graph!Nodes]
      /\ cursor' = 2 /\ changed' = FALSE /\ blocks' = blocks /\ succ' = succ
  BY DEF Graph!BuildDoms, flow
<1>2. Graph!Nodes' = Graph!Nodes /\ \A b : Graph!Dominators(b)' = Graph!Dominators(b)
  BY <1>1, GraphStays
<1>3. blocks[1] \in Graph!Nodes
  BY NodesFacts
<1>4. doms' \in [Graph!Nodes -> SUBSET Graph!Nodes]
  BY <1>1, <1>3
<1>5. doms'[blocks[1]] = {blocks[1]} /\ \A b \in Graph!Nodes : b \in doms'[b]
  BY <1>1, <1>3
<1>6. ASSUME NEW b \in Graph!Nodes
      PROVE  Graph!Dominators(b) \subseteq doms'[b]
  <2>1. CASE b # blocks[1]
    BY <1>1, <2>1 DEF Graph!Dominators
  <2>2. CASE b = blocks[1]
    BY <1>1, <1>3, <2>2 DEF Graph!Dominators, Graph!Dominates
  <2> QED
    BY <2>1, <2>2
<1>7. \A b \in Graph!Nodes' : Graph!Dominators(b)' \subseteq doms'[b]
  BY <1>2, <1>6
<1>8. cursor' \in Nat /\ cursor' >= 2 /\ changed' \in BOOLEAN
  <2>1. changed' \in BOOLEAN
    BY <1>1, Zenon
  <2> QED
    BY <1>1, <2>1
<1>9. \A k \in 2 .. Len(blocks') : ~(k < cursor')
  BY <1>1
<1> QED
  BY <1>1, <1>2, <1>4, <1>5, <1>7, <1>8, <1>9 DEF SweepInv

LEMMA SweepKeeps ==
  ASSUME FlowInv, Len(blocks) # 0, SweepInv, Graph!Sweep
  PROVE  SweepInv'
<1> DEFINE b == blocks[cursor]
<1>1. /\ cursor <= Len(blocks) /\ cursor' = cursor + 1 /\ blocks' = blocks /\ succ' = succ
      /\ doms' = [doms EXCEPT ![b] = Graph!NewList(b)]
      /\ changed' = (changed \/ Graph!NewList(b) # doms[b])
  BY DEF Graph!Sweep, Graph!Changed
<1>2. /\ Graph!Nodes' = Graph!Nodes
      /\ \A c : Graph!Dominators(c)' = Graph!Dominators(c)
      /\ doms' = doms => \A c : Graph!NewList(c)' = Graph!NewList(c)
  BY <1>1, GraphStays
<1>3. cursor \in 2 .. Len(blocks) /\ b \in Graph!Nodes /\ b # blocks[1] /\ blocks[1] \in Graph!Nodes
  BY <1>1, NodesFacts DEF SweepInv
<1>4. /\ doms \in [Graph!Nodes -> SUBSET Graph!Nodes] /\ doms[blocks[1]] = {blocks[1]}
      /\ \A c \in Graph!Nodes : c \in doms[c]
      /\ \A c \in Graph!Nodes : Graph!Dominators(c) \subseteq doms[c]
      /\ cursor \in Nat /\ cursor >= 2 /\ changed \in BOOLEAN
  BY DEF SweepInv
<1>5. Graph!NewList(b) \in SUBSET Graph!Nodes /\ b \in Graph!NewList(b)
  BY <1>3 DEF Graph!NewList
<1>6. doms' \in [Graph!Nodes -> SUBSET Graph!Nodes]
  BY <1>1, <1>3, <1>4, <1>5
<1>7. doms'[blocks[1]] = {blocks[1]} /\ \A c \in Graph!Nodes : c \in doms'[c]
  BY <1>1, <1>3, <1>4, <1>5
<1>8. \A c \in Graph!Nodes : Graph!Dominators(c) \subseteq doms'[c]
  <2>1. Graph!Dominators(b) \subseteq Graph!NewList(b)
    BY <1>3, SharedDominators
  <2> QED
    BY <1>1, <1>3, <1>4, <2>1
<1>9. cursor' \in Nat /\ cursor' >= 2 /\ changed' \in BOOLEAN
  BY <1>1, <1>4
<1>10. ASSUME ~changed', NEW k \in 2 .. Len(blocks), NEW c \in Graph!Nodes, k < cursor', c = blocks[k]
       PROVE  doms'[c] = Graph!NewList(c)'
  <2>1. ~changed /\ Graph!NewList(b) = doms[b]
    BY <1>1, <1>10
  <2>2. doms' = doms
    BY <1>1, <1>3, <1>4, <2>1
  <2>3. CASE k = cursor
    BY <1>2, <1>10, <2>1, <2>2, <2>3
  <2>4. CASE k < cursor
    BY <1>2, <1>10, <2>1, <2>2, <2>4 DEF SweepInv
  <2> QED
    BY <1>1, <1>4, <1>10, <2>3, <2>4
<1> QED
  BY <1>1, <1>2, <1>6, <1>7, <1>8, <1>9, <1>10 DEF SweepInv

LEMMA SweepAgainKeeps ==
  ASSUME SweepInv, Graph!SweepAgain
  PROVE  SweepInv'
<1>1. cursor' = 2 /\ changed' = FALSE /\ blocks' = blocks /\ succ' = succ /\ doms' = doms
  BY DEF Graph!SweepAgain
<1>2. Graph!Nodes' = Graph!Nodes /\ \A b : Graph!Dominators(b)' = Graph!Dominators(b)
  BY <1>1, GraphStays
<1>3. cursor' \in Nat /\ cursor' >= 2 /\ changed' \in BOOLEAN
  <2>1. changed' \in BOOLEAN
    BY <1>1, Zenon
  <2> QED
    BY <1>1, <2>1
<1>4. \A k \in 2 .. Len(blocks') : ~(k < cursor')
  BY <1>1
<1>5. \A b \in Graph!Nodes' : Graph!Dominators(b)' \subseteq doms'[b]
  BY <1>1, <1>2 DEF SweepInv
<1> QED
  BY <1>1, <1>2, <1>3, <1>4, <1>5 DEF SweepInv

(* When the sweeps have settled, every block but the first has the         *)
(* dominators that its predecessors share.                                 *)
LEMMA SettledShares ==
  ASSUME FlowInv, Len(blocks) # 0, SweepInv, Graph!Settled
  PROVE  \A c \in Graph!Nodes \ {blocks[1]} : doms[c] = Graph!NewList(c)
<1>1. \A k \in 2 .. Len(blocks) : k < cursor /\ ~changed
  BY NodesFacts DEF Graph!Settled, SweepInv
<1>2. \A k \in 2 .. Len(blocks) : doms[blocks[k]] = Graph!NewList(blocks[k])
  BY <1>1, NodesFacts DEF SweepInv
<1>3. \A c \in Graph!Nodes \ {blocks[1]} : \E k \in 2 .. Len(blocks) : c = blocks[k]
  BY NodesFacts
<1> QED
  BY <1>2, <1>3

(* The blocks that a block is not found to dominate are closed under the   *)
(* steps that avoid it, and so witness that it does not dominate more than *)
(* it should.                                                              *)
LEMMA SettledIsExact ==
  ASSUME FlowInv, Len(blocks) # 0, SweepInv, Graph!Settled,
         NEW b \in Graph!Nodes
  PROVE  doms[b] = Graph!Dominators(b)
<1>1. \A c \in Graph!Nodes \ {blocks[1]} : doms[c] = Graph!NewList(c)
  BY SettledShares
<1>2. /\ doms \in [Graph!Nodes -> SUBSET Graph!Nodes] /\ doms[blocks[1]] = {blocks[1]}
      /\ \A c \in Graph!Nodes : c \in doms[c]
      /\ \A c \in Graph!Nodes : Graph!Dominators(c) \subseteq doms[c]
  BY DEF SweepInv
<1>3. ASSUME NEW d \in doms[b]
      PROVE  d \in Graph!Dominators(b)
  <2> DEFINE S == {x \in Graph!Nodes : d \notin doms[x]}
  <2>1. d \in Graph!Nodes
    BY <1>2
  <2>2. S \in SUBSET (Graph!Nodes \ {d, b})
    BY <1>2, <1>3
  <2>3. d # blocks[1] => blocks[1] \in S
    BY <1>2, NodesFacts
  <2>4. ASSUME NEW x \in S, NEW y \in Graph!Successors(x) \ {d}
        PROVE  y \in S
    <3>1. y \in Graph!Nodes /\ x \in Graph!Preds(y)
      BY <2>4 DEF Graph!Successors, Graph!Preds
    <3>2. CASE y = blocks[1]
      BY <1>2, <2>4, <3>1, <3>2
    <3>3. CASE y # blocks[1]
      BY <1>1, <2>4, <3>1, <3>3 DEF Graph!NewList
    <3> QED
      BY <3>2, <3>3
  <2>5. Graph!ClosedAvoiding(S, d)
    BY <2>4 DEF Graph!ClosedAvoiding
  <2>6. Graph!Dominates(d, b)
    BY <2>2, <2>3, <2>5 DEF Graph!Dominates
  <2> QED
    BY <2>1, <2>6 DEF Graph!Dominators
<1> QED
  BY <1>2, <1>3

-----------------------------------------------------------------------------
(* The blocks that a block does not dominate are the least set that holds  *)
(* the first block and is closed under the steps that avoid it.            *)
Missed(a) == {x \in Graph!Nodes : ~Graph!Dominates(a, x)}

Connected ==
  \A S \in SUBSET Graph!Nodes :
    blocks[1] \in S /\ (\A x \in S : Graph!Successors(x) \subseteq S) => S = Graph!Nodes

LEMMA MissedClosed ==
  ASSUME NEW a \in Graph!Nodes, blocks[1] \in Graph!Nodes
  PROVE  /\ Missed(a) \subseteq Graph!Nodes \ {a}
         /\ a # blocks[1] => blocks[1] \in Missed(a)
         /\ \A x \in Missed(a) : \A y \in Graph!Successors(x) : y = a \/ y \in Missed(a)
<1>1. Missed(a) \subseteq Graph!Nodes \ {a}
  BY DEF Missed, Graph!Dominates
<1>2. a # blocks[1] => blocks[1] \in Missed(a)
  BY DEF Missed, Graph!Dominates
<1>3. ASSUME NEW x \in Missed(a), NEW y \in Graph!Successors(x), y # a, y \notin Missed(a)
      PROVE  FALSE
  <2>1. y \in Graph!Nodes /\ Graph!Dominates(a, y) /\ x \in Graph!Nodes /\ ~Graph!Dominates(a, x)
    BY <1>3 DEF Missed, Graph!Successors
  <2>2. PICK S \in SUBSET (Graph!Nodes \ {a, y}) :
          (a # blocks[1] => blocks[1] \in S) /\ Graph!ClosedAvoiding(S, a)
    BY <1>3, <2>1 DEF Graph!Dominates
  <2>3. x \notin S
    BY <1>3, <2>2 DEF Graph!ClosedAvoiding
  <2>4. x # a
    BY <1>1, <1>3
  <2>5. S \in SUBSET (Graph!Nodes \ {a, x})
    BY <2>2, <2>3
  <2> QED
    BY <2>1, <2>2, <2>5 DEF Graph!Dominates
<1> QED
  BY <1>1, <1>2, <1>3

LEMMA DominanceIs ==
  ASSUME NEW a \in Graph!Nodes, NEW b \in Graph!Nodes
  PROVE  Graph!Dominates(a, b) <=> b \notin Missed(a)
BY DEF Missed

LEMMA Witnessed ==
  ASSUME NEW a, NEW b, NEW S \in SUBSET Graph!Nodes, a \notin S, b \notin S,
         a # blocks[1] => blocks[1] \in S,
         \A x \in S : \A y \in Graph!Successors(x) : y = a \/ y \in S
  PROVE  Graph!Dominates(a, b)
<1>1. Graph!ClosedAvoiding(S, a)
  BY DEF Graph!ClosedAvoiding
<1>2. S \in SUBSET (Graph!Nodes \ {a, b})
  OBVIOUS
<1> QED
  BY <1>1, <1>2 DEF Graph!Dominates

(* Dominance is transitive, antisymmetric on a connected graph, and the    *)
(* dominators of a block are a chain.                                      *)
LEMMA DominanceTransitive ==
  ASSUME NEW a \in Graph!Nodes, NEW b \in Graph!Nodes, NEW c \in Graph!Nodes,
         blocks[1] \in Graph!Nodes, Graph!Dominates(a, b), Graph!Dominates(b, c)
  PROVE  Graph!Dominates(a, c)
<1>1. CASE a = b \/ b = c
  BY <1>1
<1>2. CASE a # b /\ b # c
  <2> DEFINE T == Missed(a) \intersect Missed(b)
  <2>1. b \notin Missed(a) /\ c \notin Missed(b)
    BY DominanceIs
  <2>2. a # blocks[1] => blocks[1] \in T
    BY <1>2, <2>1, MissedClosed
  <2>3. \A x \in T : \A y \in Graph!Successors(x) : y = a \/ y \in T
    BY <2>1, MissedClosed
  <2>4. T \in SUBSET Graph!Nodes /\ a \notin T /\ c \notin T
    BY <2>1, MissedClosed
  <2> HIDE DEF T
  <2> QED
    BY <2>2, <2>3, <2>4, Witnessed
<1> QED
  BY <1>1, <1>2

LEMMA DominanceAntisymmetric ==
  ASSUME NEW a \in Graph!Nodes, NEW b \in Graph!Nodes, Connected,
         blocks[1] \in Graph!Nodes, Graph!Dominates(a, b), Graph!Dominates(b, a)
  PROVE  a = b
<1> SUFFICES ASSUME a # b PROVE FALSE
  OBVIOUS
<1> DEFINE T == Missed(a) \intersect Missed(b)
<1>1. b \notin Missed(a) /\ a \notin Missed(b) /\ a \notin Missed(a)
  BY DominanceIs, MissedClosed
<1>2. blocks[1] \in T
  BY <1>1, MissedClosed
<1>3. \A x \in T : \A y \in Graph!Successors(x) : y \in T
  BY <1>1, MissedClosed
<1>4. T \in SUBSET Graph!Nodes /\ a \notin T
  BY <1>1, MissedClosed
<1> HIDE DEF T
<1>5. \A x \in T : Graph!Successors(x) \subseteq T
  BY <1>3
<1> QED
  BY <1>2, <1>4, <1>5 DEF Connected

LEMMA DominatorsChained ==
  ASSUME NEW a \in Graph!Nodes, NEW b \in Graph!Nodes, NEW c \in Graph!Nodes, Connected,
         blocks[1] \in Graph!Nodes, Graph!Dominates(a, c), Graph!Dominates(b, c)
  PROVE  Graph!Dominates(a, b) \/ Graph!Dominates(b, a)
<1> SUFFICES ASSUME ~Graph!Dominates(a, b), ~Graph!Dominates(b, a) PROVE FALSE
  OBVIOUS
<1> DEFINE T == Missed(a) \union Missed(b)
<1>1. b \in Missed(a) /\ a \in Missed(b) /\ c \notin Missed(a) /\ c \notin Missed(b)
  BY DominanceIs
<1>2. a # b
  BY <1>1, MissedClosed
<1>3. blocks[1] \in T
  BY <1>2, MissedClosed
<1>4. \A x \in T : \A y \in Graph!Successors(x) : y \in T
  BY <1>1, MissedClosed
<1>5. T \in SUBSET Graph!Nodes /\ c \notin T
  BY <1>1, MissedClosed
<1> HIDE DEF T
<1>6. \A x \in T : Graph!Successors(x) \subseteq T
  BY <1>4
<1> QED
  BY <1>3, <1>5, <1>6 DEF Connected

(* What fails for some natural number fails for a least one. *)
LEMMA LeastNatural ==
  \A T \in SUBSET Nat : T # {} => \E n \in T : \A m \in T : n <= m
<1> SUFFICES ASSUME NEW T \in SUBSET Nat, T # {} PROVE \E n \in T : \A m \in T : n <= m
  OBVIOUS
<1> DEFINE R == OpToRel(<, Nat)
<1>1. IsWellFoundedOn(R, Nat)
  BY NatLessThanWellFounded
<1>2. R = {ss \in Nat \X Nat : ss[1] < ss[2]}
  BY DEF OpToRel
<1> HIDE DEF R
<1>3. PICK n \in T : \A m \in T : ~(<<m, n>> \in R)
  BY <1>1, WFMin
<1>4. \A a, b \in Nat : a < b => <<a, b>> \in R
  BY <1>2
<1>5. ASSUME NEW m \in T PROVE n <= m
  <2>1. n \in Nat /\ m \in Nat /\ ~(m < n)
    BY <1>3, <1>4
  <2> QED
    BY <2>1
<1> QED
  BY <1>5

LEMMA NodesFinite ==
  ASSUME FlowInv, Len(blocks) # 0
  PROVE  IsFiniteSet(Graph!Nodes)
<1> DEFINE f == [i \in 1 .. Len(blocks) |-> blocks[i]]
<1>1. Len(blocks) \in Nat /\ Graph!Nodes = {blocks[i] : i \in 1 .. Len(blocks)}
  BY NodesFacts
<1>2. f \in Surjection(1 .. Len(blocks), Graph!Nodes)
  BY <1>1 DEF Surjection
<1>3. IsFiniteSet(1 .. Len(blocks))
  BY <1>1, FS_Interval
<1> QED
  BY <1>2, <1>3, FS_Surjection

LEMMA DominatorsSized ==
  ASSUME FlowInv, Len(blocks) # 0, NEW b \in Graph!Nodes
  PROVE  /\ Graph!Dominators(b) \subseteq Graph!Nodes /\ b \in Graph!Dominators(b)
         /\ \A S \in SUBSET Graph!Nodes : IsFiniteSet(S) /\ Cardinality(S) \in Nat
<1>1. \A S \in SUBSET Graph!Nodes : IsFiniteSet(S)
  BY NodesFinite, FS_Subset
<1> QED
  BY <1>1, FS_CardinalityType DEF Graph!Dominators, Graph!Dominates

(* The dominators of a dominator are among those of the block, and are     *)
(* fewer unless it is the block itself.                                    *)
LEMMA DominatorsNest ==
  ASSUME FlowInv, Len(blocks) # 0, Connected, NEW b \in Graph!Nodes,
         NEW d \in Graph!Dominators(b)
  PROVE  /\ d \in Graph!Nodes /\ Graph!Dominators(d) \subseteq Graph!Dominators(b)
         /\ d # b => b \notin Graph!Dominators(d)
<1>1. blocks[1] \in Graph!Nodes
  BY NodesFacts
<1>2. d \in Graph!Nodes /\ Graph!Dominates(d, b)
  BY DEF Graph!Dominators
<1>3. ASSUME NEW e \in Graph!Dominators(d) PROVE e \in Graph!Dominators(b)
  BY <1>1, <1>2, <1>3, DominanceTransitive DEF Graph!Dominators
<1>4. b \in Graph!Dominators(d) => d = b
  BY <1>1, <1>2, DominanceAntisymmetric DEF Graph!Dominators
<1> QED
  BY <1>2, <1>3, <1>4

(* The closest of the strict dominators of a block has all of them for its *)
(* own.                                                                    *)
LEMMA HasIdom ==
  ASSUME FlowInv, Len(blocks) # 0, Connected, NEW b \in Graph!Nodes, b # blocks[1]
  PROVE  \E i \in Graph!Dominators(b) \ {b} :
           Graph!Dominators(i) = Graph!Dominators(b) \ {b}
<1> DEFINE Strict == Graph!Dominators(b) \ {b}
           Lack(e) == Cardinality(Graph!Dominators(b)) - Cardinality(Graph!Dominators(e))
           Lacks == {Lack(e) : e \in Strict}
<1>1. blocks[1] \in Strict
  <2>1. blocks[1] \in Graph!Nodes
    BY NodesFacts
  <2>2. Graph!ClosedAvoiding({}, blocks[1])
    BY DEF Graph!ClosedAvoiding
  <2>3. Graph!Dominates(blocks[1], b)
    BY <2>1, <2>2 DEF Graph!Dominates
  <2> QED
    BY <2>1, <2>3 DEF Graph!Dominators
<1>2. \A e \in Strict : e \in Graph!Nodes /\ Graph!Dominators(e) \subseteq Graph!Dominators(b)
                        /\ b \notin Graph!Dominators(e)
  BY DominatorsNest
<1>3. ASSUME NEW e \in Strict
      PROVE  /\ Cardinality(Graph!Dominators(e)) <= Cardinality(Graph!Dominators(b))
             /\ Cardinality(Graph!Dominators(e)) \in Nat
             /\ Cardinality(Graph!Dominators(b)) \in Nat
  <2>1. IsFiniteSet(Graph!Dominators(b)) /\ Cardinality(Graph!Dominators(b)) \in Nat
    BY DominatorsSized
  <2>2. e \in Graph!Nodes /\ Graph!Dominators(e) \in SUBSET Graph!Dominators(b)
    BY <1>2
  <2>3. Cardinality(Graph!Dominators(e)) \in Nat
    BY <2>2, DominatorsSized
  <2> QED
    BY <2>1, <2>2, <2>3, FS_Subset
<1>4. PICK i \in Strict : \A e \in Strict : Lack(i) <= Lack(e)
  <2>1. \A e \in Strict : Lack(e) \in Nat
    BY <1>3
  <2>2. Lacks \in SUBSET Nat /\ Lacks # {}
    BY <1>1, <2>1
  <2>3. PICK n \in Lacks : \A m \in Lacks : n <= m
    BY <2>2, LeastNatural
  <2> QED
    BY <2>3
<1>5. ASSUME NEW e \in Strict PROVE e \in Graph!Dominators(i)
  <2>1. /\ e \in Graph!Nodes /\ i \in Graph!Nodes /\ blocks[1] \in Graph!Nodes
        /\ Graph!Dominates(e, b) /\ Graph!Dominates(i, b)
    BY <1>2, NodesFacts DEF Graph!Dominators
  <2>2. Graph!Dominates(e, i) \/ Graph!Dominates(i, e)
    BY <2>1, DominatorsChained
  <2>3. CASE Graph!Dominates(e, i)
    BY <2>1, <2>3 DEF Graph!Dominators
  <2>4. CASE Graph!Dominates(i, e)
    <3>1. i \in Graph!Dominators(e)
      BY <2>1, <2>4 DEF Graph!Dominators
    <3>2. Graph!Dominators(i) \in SUBSET Graph!Dominators(e) /\ IsFiniteSet(Graph!Dominators(e))
      BY <2>1, <3>1, DominatorsNest, DominatorsSized
    <3>3. Lack(i) <= Lack(e)
      BY <1>4
    <3>4. Cardinality(Graph!Dominators(e)) <= Cardinality(Graph!Dominators(i))
      BY <1>3, <3>3
    <3>5. Cardinality(Graph!Dominators(i)) <= Cardinality(Graph!Dominators(e))
      BY <3>2, FS_Subset
    <3>6. Cardinality(Graph!Dominators(e)) = Cardinality(Graph!Dominators(i))
      BY <1>3, <3>4, <3>5
    <3>7. Graph!Dominators(e) = Graph!Dominators(i)
      BY <3>2, <3>6, FS_Subset
    <3> QED
      BY <2>1, <3>7, DominatorsSized
  <2> QED
    BY <2>2, <2>3, <2>4
<1>6. Graph!Dominators(i) \subseteq Strict
  BY <1>2
<1>7. Graph!Dominators(i) = Strict
  BY <1>5, <1>6
<1> QED
  BY <1>7

(* DominanceFrontier counts as FiniteSets does. *)
LEMMA CountsAlike == \A S : Graph!Cardinality(S) = Cardinality(S)
BY DEF Graph!Cardinality, Cardinality

(* The immediate dominators that buildReverseDom finds, once the lists are *)
(* exact: one for every block but the first, and none for that.            *)
Exact == \A b \in Graph!Nodes : doms[b] = Graph!Dominators(b)

LEMMA IdomsAre ==
  ASSUME FlowInv, Len(blocks) # 0, Connected, Exact, NEW b \in Graph!Nodes, b # blocks[1]
  PROVE  \E i \in Graph!Dominators(b) \ {b} :
           Graph!Idoms(b) = {i} /\ Graph!Dominators(i) = Graph!Dominators(b) \ {b}
<1>1. PICK i \in Graph!Dominators(b) \ {b} : Graph!Dominators(i) = Graph!Dominators(b) \ {b}
  BY HasIdom
<1> DEFINE n == Cardinality(Graph!Dominators(b))
<1>2. /\ IsFiniteSet(Graph!Dominators(b)) /\ n \in Nat /\ b \in Graph!Dominators(b)
      /\ doms[b] = Graph!Dominators(b)
  BY DominatorsSized DEF Exact
<1>3. IsFiniteSet(Graph!Dominators(i)) /\ Cardinality(Graph!Dominators(i)) = n - 1
  BY <1>1, <1>2, FS_RemoveElement
<1>4. i \in Graph!Nodes /\ doms[i] = Graph!Dominators(i)
  BY DominatorsNest DEF Exact
<1>5. Graph!IsIdom(i, b)
  BY <1>1, <1>2, <1>3, <1>4, CountsAlike DEF Graph!IsIdom
<1>6. ASSUME NEW d \in Graph!Nodes, Graph!IsIdom(d, b)
      PROVE  d = i
  <2>1. d \in Graph!Dominators(b) /\ doms[d] = Graph!Dominators(d) /\ n = Cardinality(Graph!Dominators(d)) + 1
    BY <1>2, <1>6, CountsAlike DEF Graph!IsIdom, Exact
  <2>2. d # b
    BY <1>2, <2>1
  <2>3. Graph!Dominators(d) \in SUBSET Graph!Dominators(i)
    BY <1>1, <2>1, <2>2, DominatorsNest
  <2>4. Cardinality(Graph!Dominators(d)) \in Nat
    BY <1>6, DominatorsSized
  <2>5. Cardinality(Graph!Dominators(d)) = Cardinality(Graph!Dominators(i))
    BY <1>2, <1>3, <2>1, <2>4
  <2>6. Graph!Dominators(d) = Graph!Dominators(i)
    BY <1>3, <2>3, <2>5, FS_Subset
  <2>7. i \in Graph!Dominators(d) /\ d \in Graph!Dominators(i)
    BY <1>4, <1>6, <2>6, DominatorsSized
  <2> QED
    BY <1>6, <2>7, DominatorsNest
<1>7. Graph!Idoms(b) = {i}
  BY <1>4, <1>5, <1>6 DEF Graph!Idoms
<1> QED
  BY <1>1, <1>7

LEMMA FirstHasNone ==
  ASSUME FlowInv, Len(blocks) # 0, Exact
  PROVE  Graph!Idoms(blocks[1]) = {} /\ Graph!Dominators(blocks[1]) = {blocks[1]}
<1>1. blocks[1] \in Graph!Nodes
  BY NodesFacts
<1>2. Graph!Dominators(blocks[1]) = {blocks[1]}
  BY <1>1 DEF Graph!Dominators, Graph!Dominates
<1>3. ASSUME NEW d, Graph!IsIdom(d, blocks[1])
      PROVE  FALSE
  <2>1. d = blocks[1] /\ Cardinality({blocks[1]}) = Cardinality({blocks[1]}) + 1
    BY <1>1, <1>2, <1>3, CountsAlike DEF Graph!IsIdom, Exact
  <2>2. Cardinality({blocks[1]}) \in Nat
    BY <1>1, DominatorsSized
  <2> QED
    BY <2>1, <2>2
<1> QED
  BY <1>2, <1>3 DEF Graph!Idoms

(* What a climb towards the immediate dominator of b finds from x upwards: *)
(* the dominators of x that are below it.                                  *)
Upwards(b, x) ==
  {d \in Graph!Dominators(x) :
     \A i \in Graph!Idoms(b) : i \in Graph!Dominators(x) => i \in Graph!Dominators(d) /\ i # d}

ClimbStep(f, b, x) ==
  IF x \in Graph!Idoms(b) THEN {} ELSE {x} \union UNION {f[d] : d \in Graph!Idoms(x)}

LEMMA UpwardsStep ==
  ASSUME FlowInv, Len(blocks) # 0, Connected, Exact, NEW b \in Graph!Nodes, NEW x \in Graph!Nodes
  PROVE  Upwards(b, x) = IF x \in Graph!Idoms(b) THEN {}
                         ELSE {x} \union UNION {Upwards(b, d) : d \in Graph!Idoms(x)}
<1>1. x \in Graph!Dominators(x) /\ blocks[1] \in Graph!Nodes
  BY DominatorsSized, NodesFacts
<1>2. \A d \in Graph!Dominators(x) : d # x => x \notin Graph!Dominators(d)
  BY DominatorsNest
<1>3. CASE x \in Graph!Idoms(b)
  <2>1. ASSUME NEW d \in Upwards(b, x) PROVE FALSE
    BY <1>1, <1>2, <1>3, <2>1 DEF Upwards
  <2> QED
    BY <1>3, <2>1
<1>4. CASE x \notin Graph!Idoms(b) /\ x = blocks[1]
  <2>1. Graph!Idoms(x) = {} /\ Graph!Dominators(x) = {x}
    BY <1>4, FirstHasNone
  <2>2. Upwards(b, x) = {x}
    BY <1>4, <2>1 DEF Upwards
  <2> QED
    BY <1>4, <2>1, <2>2
<1>5. CASE x \notin Graph!Idoms(b) /\ x # blocks[1]
  <2>1. PICK p \in Graph!Dominators(x) \ {x} :
          Graph!Idoms(x) = {p} /\ Graph!Dominators(p) = Graph!Dominators(x) \ {x}
    BY <1>5, IdomsAre
  <2>2. \A i \in Graph!Idoms(b) : i \in Graph!Dominators(x) <=> i \in Graph!Dominators(p)
    BY <1>5, <2>1
  <2>3. x \in Upwards(b, x)
    BY <1>1, <1>5 DEF Upwards
  <2>4. Upwards(b, x) \ {x} = Upwards(b, p)
    BY <2>1, <2>2 DEF Upwards
  <2>5. Upwards(b, x) = {x} \union Upwards(b, p)
    BY <2>3, <2>4
  <2>6. UNION {Upwards(b, d) : d \in Graph!Idoms(x)} = Upwards(b, p)
    BY <2>1
  <2> QED
    BY <1>5, <2>5, <2>6
<1> QED
  BY <1>3, <1>4, <1>5

(* The climb is recursive along the tree; what solves its equation is what *)
(* it finds.                                                               *)
LEMMA ClimbIs ==
  ASSUME FlowInv, Len(blocks) # 0, Connected, Exact, NEW b \in Graph!Nodes
  PROVE  Graph!Climb(b) = UNION {Upwards(b, p) : p \in Graph!Preds(b)}
<1> DEFINE Solves(f) == f = [x \in Graph!Nodes |-> ClimbStep(f, b, x)]
           climbed == CHOOSE f : Solves(f)
           up == [x \in Graph!Nodes |-> Upwards(b, x)]
<1>1. \A x \in Graph!Nodes : \A d \in Graph!Idoms(x) :
        /\ d \in Graph!Nodes
        /\ Cardinality(Graph!Dominators(d)) \in Nat
        /\ Cardinality(Graph!Dominators(x)) = Cardinality(Graph!Dominators(d)) + 1
  BY CountsAlike, DominatorsSized DEF Graph!Idoms, Graph!IsIdom, Exact
<1>2. \A x \in Graph!Nodes : up[x] = ClimbStep(up, b, x)
  <2> TAKE x \in Graph!Nodes
  <2>1. up[x] = Upwards(b, x) /\ \A d \in Graph!Idoms(x) : up[d] = Upwards(b, d)
    BY <1>1
  <2> HIDE DEF up
  <2>2. {up[d] : d \in Graph!Idoms(x)} = {Upwards(b, d) : d \in Graph!Idoms(x)}
    BY <2>1
  <2> QED
    BY <2>1, <2>2, UpwardsStep DEF ClimbStep
<1>3. Solves(up)
  <2>1. up = [x \in Graph!Nodes |-> up[x]]
    OBVIOUS
  <2> HIDE DEF up
  <2> QED
    BY <1>2, <2>1
<1>4. Graph!Climb(b) = UNION {climbed[p] : p \in Graph!Preds(b)}
  BY DEF Graph!Climb, ClimbStep
<1> HIDE DEF climbed
<1>5. Solves(climbed)
  <2> HIDE DEF Solves
  <2> QED
    BY <1>3 DEF climbed
<1>6. \A x \in Graph!Nodes : climbed[x] = ClimbStep(climbed, b, x)
  <2> DEFINE g == [x \in Graph!Nodes |-> ClimbStep(climbed, b, x)]
  <2>1. \A x \in Graph!Nodes : g[x] = ClimbStep(climbed, b, x)
    OBVIOUS
  <2>2. climbed = g
    BY <1>5
  <2> HIDE DEF g
  <2> QED
    BY <2>1, <2>2
<1>7. \A x \in Graph!Nodes : climbed[x] = up[x]
  <2> DEFINE Wrong == {x \in Graph!Nodes : climbed[x] # up[x]}
             T == {Cardinality(Graph!Dominators(x)) : x \in Wrong}
  <2> SUFFICES ASSUME Wrong # {}
               PROVE  FALSE
    OBVIOUS
  <2>1. \A x \in Graph!Nodes : Cardinality(Graph!Dominators(x)) \in Nat
    BY DominatorsSized
  <2>2. T \in SUBSET Nat /\ T # {}
    BY <2>1
  <2>3. PICK n \in T : \A m \in T : n <= m
    BY <2>2, LeastNatural
  <2>4. PICK x \in Wrong : Cardinality(Graph!Dominators(x)) = n
    OBVIOUS
  <2>5. \A d \in Graph!Idoms(x) : climbed[d] = up[d]
    <3> SUFFICES ASSUME NEW d \in Graph!Idoms(x), climbed[d] # up[d]
                 PROVE  FALSE
      OBVIOUS
    <3>1. d \in Wrong /\ Cardinality(Graph!Dominators(d)) \in T
      BY <1>1, <2>4
    <3>2. n <= Cardinality(Graph!Dominators(d))
      BY <2>3, <3>1
    <3> QED
      BY <1>1, <2>1, <2>4, <3>1, <3>2
  <2>6. {climbed[d] : d \in Graph!Idoms(x)} = {up[d] : d \in Graph!Idoms(x)}
    BY <2>5
  <2>7. ClimbStep(climbed, b, x) = ClimbStep(up, b, x)
    BY <2>6 DEF ClimbStep
  <2> HIDE DEF up
  <2> QED
    BY <1>2, <1>6, <2>4, <2>7
<1>8. \A p \in Graph!Preds(b) : climbed[p] = Upwards(b, p)
  BY <1>7 DEF Graph!Preds
<1> QED
  BY <1>4, <1>8

(* A block that one block alone leads to does not dominate that one: the   *)
(* blocks it does not dominate would be closed under all steps.            *)
LEMMA SoleEntryNotDominated ==
  ASSUME FlowInv, Len(blocks) # 0, Connected,
         NEW b \in Graph!Nodes, b # blocks[1], NEW p, Graph!Preds(b) = {p}
  PROVE  ~Graph!Dominates(b, p)
<1> SUFFICES ASSUME Graph!Dominates(b, p) PROVE FALSE
  OBVIOUS
<1>1. p \in Graph!Nodes /\ p \notin Missed(b) /\ blocks[1] \in Graph!Nodes
  BY NodesFacts DEF Graph!Preds, Missed
<1>2. \A x \in Missed(b) : b \notin Graph!Successors(x)
  <2> SUFFICES ASSUME NEW x \in Missed(b), b \in Graph!Successors(x) PROVE FALSE
    OBVIOUS
  <2>1. x \in Graph!Preds(b)
    BY <1>1, MissedClosed DEF Graph!Preds
  <2> QED
    BY <1>1, <2>1
<1>3. \A x \in Missed(b) : \A y \in Graph!Successors(x) : y \in Missed(b)
  BY <1>1, <1>2, MissedClosed
<1>4. Missed(b) \in SUBSET Graph!Nodes /\ blocks[1] \in Missed(b) /\ b \notin Missed(b)
  BY <1>1, MissedClosed
<1>5. \A x \in Missed(b) : Graph!Successors(x) \subseteq Missed(b)
  BY <1>3
<1> QED
  BY <1>4, <1>5 DEF Connected

LEMMA TwoOrMore ==
  ASSUME FlowInv, Len(blocks) # 0, NEW b
  PROVE  /\ Cardinality(Graph!Preds(b)) \in Nat
         /\ Cardinality(Graph!Preds(b)) = 0 <=> Graph!Preds(b) = {}
         /\ Cardinality(Graph!Preds(b)) = 1 <=> \E p : Graph!Preds(b) = {p}
<1>1. Graph!Preds(b) \in SUBSET Graph!Nodes
  BY DEF Graph!Preds
<1>2. IsFiniteSet(Graph!Preds(b))
  BY <1>1, NodesFinite, FS_Subset
<1> QED
  BY <1>2, FS_CardinalityType, FS_EmptySet, FS_Singleton

(* For a block other than the first: what is below its immediate dominator *)
(* on the way up from a predecessor does not dominate it strictly.         *)
LEMMA BelowIdom ==
  ASSUME FlowInv, Len(blocks) # 0, Connected, Exact,
         NEW b \in Graph!Nodes, b # blocks[1], doms[b] = Graph!NewList(b),
         NEW p \in Graph!Preds(b), NEW d \in Graph!Nodes
  PROVE  d \in Upwards(b, p) <=> Graph!Dominates(d, p) /\ (d = b \/ ~Graph!Dominates(d, b))
<1>1. PICK i \in Graph!Dominators(b) \ {b} :
        Graph!Idoms(b) = {i} /\ Graph!Dominators(i) = Graph!Dominators(b) \ {b}
  BY IdomsAre
<1>2. p \in Graph!Nodes /\ blocks[1] \in Graph!Nodes /\ i \in Graph!Nodes
  BY NodesFacts DEF Graph!Preds, Graph!Dominators
<1>3. i \in Graph!Dominators(p)
  <2>1. i \in Graph!NewList(b) /\ i # b
    BY <1>1 DEF Exact
  <2>2. i \in doms[p]
    BY <2>1 DEF Graph!NewList
  <2> QED
    BY <1>2, <2>2 DEF Exact
<1>4. \A c \in Graph!Nodes : \A e \in Graph!Nodes : e \in Graph!Dominators(c) <=> Graph!Dominates(e, c)
  BY DEF Graph!Dominators
<1>5. d \in Upwards(b, p) <=> d \in Graph!Dominators(p) /\ i \in Graph!Dominators(d) /\ i # d
  BY <1>1, <1>3 DEF Upwards
<1>6. ASSUME d \in Graph!Dominators(p)
      PROVE  i \in Graph!Dominators(d) /\ i # d <=> d = b \/ ~Graph!Dominates(d, b)
  <2>1. CASE d = b
    BY <1>1, <2>1
  <2>2. CASE d # b /\ Graph!Dominates(d, b)
    <3>1. d \in Graph!Dominators(i)
      BY <1>1, <1>4, <2>2
    <3> QED
      BY <1>2, <1>4, <2>2, <3>1, DominanceAntisymmetric
  <2>3. CASE d # b /\ ~Graph!Dominates(d, b)
    <3>1. d \notin Graph!Dominators(i) /\ i # d
      BY <1>1, <1>4, <2>3
    <3>2. Graph!Dominates(i, d)
      BY <1>2, <1>3, <1>4, <1>6, <3>1, DominatorsChained
    <3> QED
      BY <1>2, <1>4, <2>3, <3>1, <3>2
  <2> QED
    BY <2>1, <2>2, <2>3
<1> QED
  BY <1>2, <1>4, <1>5, <1>6

LEMMA FrontierIs ==
  ASSUME FlowInv, Len(blocks) # 0, Connected, SweepInv, Graph!Settled,
         NEW d \in Graph!Nodes, NEW b \in Graph!Nodes
  PROVE  b \in Graph!Frontier(d) <=>
           /\ b # blocks[1] \/ Cardinality(Graph!Preds(b)) # 1
           /\ \E p \in Graph!Preds(b) : Graph!Dominates(d, p)
           /\ d = b \/ ~Graph!Dominates(d, b)
<1>1. Exact /\ blocks[1] \in Graph!Nodes
  BY SettledIsExact, NodesFacts DEF Exact
<1>2. b \in Graph!Frontier(d) <=>
        Cardinality(Graph!Preds(b)) >= 2 /\ \E p \in Graph!Preds(b) : d \in Upwards(b, p)
  BY <1>1, ClimbIs, CountsAlike DEF Graph!Frontier
<1>3. Cardinality(Graph!Preds(b)) >= 2 <=> Graph!Preds(b) # {} /\ ~\E p : Graph!Preds(b) = {p}
  <2> DEFINE n == Cardinality(Graph!Preds(b))
  <2>1. n \in Nat /\ (n = 0 <=> Graph!Preds(b) = {}) /\ (n = 1 <=> \E p : Graph!Preds(b) = {p})
    BY TwoOrMore
  <2>2. n >= 2 <=> n # 0 /\ n # 1
    BY <2>1
  <2> QED
    BY <2>1, <2>2
<1>4. CASE b # blocks[1]
  <2>1. doms[b] = Graph!NewList(b)
    BY <1>4, SettledShares
  <2>2. \A p \in Graph!Preds(b) :
          d \in Upwards(b, p) <=> Graph!Dominates(d, p) /\ (d = b \/ ~Graph!Dominates(d, b))
    BY <1>1, <1>4, <2>1, BelowIdom
  <2>3. ASSUME NEW p, Graph!Preds(b) = {p}, Graph!Dominates(d, p), d = b \/ ~Graph!Dominates(d, b)
        PROVE  FALSE
    <3>1. d # b
      BY <1>4, <2>3, SoleEntryNotDominated
    <3>2. d \in doms[p] /\ p \in Graph!Nodes
      BY <1>1, <2>3 DEF Exact, Graph!Dominators, Graph!Preds
    <3>3. d \in Graph!NewList(b)
      BY <2>3, <3>2 DEF Graph!NewList
    <3>4. Graph!Dominates(d, b)
      BY <1>1, <2>1, <3>3 DEF Exact, Graph!Dominators
    <3> QED
      BY <2>3, <3>1, <3>4
  <2> QED
    BY <1>2, <1>3, <1>4, <2>2, <2>3
<1>5. CASE b = blocks[1]
  <2>1. Graph!Idoms(b) = {} /\ Graph!Dominators(b) = {b}
    BY <1>1, <1>5, FirstHasNone
  <2>2. d = b \/ ~Graph!Dominates(d, b)
    BY <2>1 DEF Graph!Dominators
  <2>3. \A p \in Graph!Preds(b) : d \in Upwards(b, p) <=> Graph!Dominates(d, p)
    BY <2>1 DEF Upwards, Graph!Dominators
  <2>4. Cardinality(Graph!Preds(b)) # 1 <=> ~\E p : Graph!Preds(b) = {p}
    BY TwoOrMore
  <2> QED
    BY <1>2, <1>3, <1>5, <2>2, <2>3, <2>4
<1> QED
  BY <1>4, <1>5

-----------------------------------------------------------------------------
DomInv ==
  /\ VectorInv
  /\ phase # "graph" => Len(blocks) # 0 /\ SweepInv

LEMMA DomStarts == Init => DomInv
BY VectorStarts DEF Init, DomInv

LEMMA VectorStays ==
  ASSUME VectorInv, UNCHANGED flow
  PROVE  VectorInv'
<1>1. FlowInv'
  BY DEF VectorInv, FlowInv, flow
<1>2. FilledInv' /\ LinksInv' /\ FramesInv' /\ FocusInv'
  BY DEF VectorInv, FilledInv, LinksInv, FramesInv, FocusInv, Holds, flow
<1> QED
  BY <1>1, <1>2 DEF VectorInv, flow

LEMMA SweepStays ==
  ASSUME SweepInv, UNCHANGED flow, UNCHANGED <<doms, cursor, changed>>
  PROVE  SweepInv'
BY GraphStays DEF SweepInv, flow

LEMMA DomKeeps == DomInv /\ [Next]_vars => DomInv'
<1> SUFFICES ASSUME DomInv, [Next]_vars
             PROVE  DomInv'
  OBVIOUS
<1>0. VectorInv /\ FlowInv
  BY DEF DomInv, VectorInv
<1>1. CASE BuildGraph
  <2>1. FlowNext /\ phase = "graph" /\ phase' = phase
    BY <1>1 DEF BuildGraph
  <2> QED
    BY <1>0, <2>1, VectorKeeps DEF DomInv
<1>2. CASE BuildDoms
  <2>1. phase = "graph" /\ focus = Built /\ Graph!BuildDoms /\ UNCHANGED flow
    BY <1>2 DEF BuildDoms
  <2>2. Len(blocks) # 0
    BY <1>0, <2>1 DEF FlowInv, Built, Call
  <2>3. SweepInv'
    BY <1>0, <2>1, <2>2, BuildDomsStarts
  <2>4. VectorInv'
    BY <1>0, <2>1, VectorStays
  <2>5. Len(blocks)' # 0
    BY <2>1, <2>2 DEF flow
  <2> QED
    BY <2>3, <2>4, <2>5 DEF DomInv
<1>3. CASE SweepDoms
  <2>1. /\ phase = "dominators"
        /\ Graph!Sweep \/ Graph!SweepAgain
        /\ UNCHANGED <<prog, content, frames, focus, phase>>
    BY <1>3 DEF SweepDoms
  <2>2. UNCHANGED flow
    BY <2>1 DEF Graph!Sweep, Graph!SweepAgain, flow
  <2>3. SweepInv'
    BY <1>0, <2>1, SweepKeeps, SweepAgainKeeps DEF DomInv
  <2>4. VectorInv'
    BY <1>0, <2>2, VectorStays
  <2>5. Len(blocks') # 0
    BY <2>1, <2>2 DEF DomInv, flow
  <2> QED
    BY <2>3, <2>4, <2>5 DEF DomInv
<1>4. CASE \/ placePhis \/ indexVars \/ numberElement \/ passOn \/ popNumbers
           \/ Start \/ RunElement \/ UNCHANGED vars
  <2>1. /\ UNCHANGED flow /\ UNCHANGED <<doms, cursor, changed>>
        /\ phase # "graph" \/ phase' = phase
    BY <1>4 DEF placePhis, indexVars, numberElement, passOn, popNumbers, Indexing, Start, RunElement, vars
  <2>2. VectorInv' /\ blocks' = blocks
    BY <1>0, <2>1, VectorStays DEF flow
  <2>3. SweepInv => SweepInv'
    BY <2>1, SweepStays
  <2> QED
    BY <2>1, <2>2, <2>3 DEF DomInv
<1> QED
  BY <1>1, <1>2, <1>3, <1>4 DEF Next, Analyse

LEMMA DomHolds == Spec => []DomInv
BY DomStarts, DomKeeps, PTL DEF Spec

(* For any bodies, any variables and any values: when the sweeps of        *)
(* buildDoms end, the list kept for a block holds exactly the blocks that  *)
(* every way from the first block passes.                                  *)
THEOREM DominatorsAreExact == Spec => []DominatorsExact
<1>1. DomInv => DominatorsExact
  BY SettledIsExact DEF DomInv, VectorInv, DominatorsExact
<1> QED
  BY <1>1, DomHolds, PTL

-----------------------------------------------------------------------------
(* The vectors are the blocks, and what the graph calls reached is what    *)
(* the dominators need.                                                    *)
LEMMA ReachedConnects ==
  ASSUME VectorInv, Reached
  PROVE  Connected
<1> DEFINE n == Len(content)
<1>1. /\ n \in Nat /\ DOMAIN content = 1 .. n /\ Graph!Nodes = 1 .. n
  <2>1. /\ n \in Nat /\ DOMAIN content = 1 .. n /\ DOMAIN blocks = 1 .. n
    BY SeqDomain DEF VectorInv, FlowInv
  <2> QED
    BY <2>1 DEF VectorInv, FlowInv, Graph!Nodes
<1>2. \A b \in 1 .. n : Range(succ[b]) \ {0} \subseteq Graph!Successors(b)
  <2> TAKE b \in 1 .. n
  <2>1. DOMAIN succ[b] = 1 .. Len(succ[b]) /\ \A i \in 1 .. Len(succ[b]) : succ[b][i] \in 0 .. n
    BY SeqDomain DEF VectorInv, LinksInv
  <2> QED
    BY <1>1, <2>1 DEF Range, Graph!Successors
<1> SUFFICES ASSUME NEW S \in SUBSET Graph!Nodes, blocks[1] \in S,
                    \A x \in S : Graph!Successors(x) \subseteq S
             PROVE  S = Graph!Nodes
  BY DEF Connected
<1>3. \A b \in S : Range(succ[b]) \ {0} \subseteq S
  BY <1>1, <1>2
<1> QED
  BY <1>1, <1>3 DEF Reached

(* For any bodies, any variables and any values: of a graph whose blocks   *)
(* are all reached, every block but the first has one parent in the tree   *)
(* that buildIncDom makes, and the frontier that buildDomf finds for a     *)
(* block is where its dominance ends - but for the first block, which it   *)
(* leaves out if one predecessor only leads back to it.                    *)
THEOREM FrontiersAreTrue == Spec => []FrontierTrue
<1>1. DomInv => FrontierTrue
  <2> SUFFICES ASSUME DomInv, phase = "dominators", Graph!Settled, Reached
               PROVE  /\ \A b \in Graph!Nodes \ {blocks[1]} : Cardinality(Graph!Idoms(b)) = 1
                      /\ \A d \in Graph!Nodes :
                           Graph!Frontier(d) =
                             {b \in Graph!Nodes :
                                /\ b # blocks[1] \/ Cardinality(Graph!Preds(b)) # 1
                                /\ \E p \in Graph!Preds(b) : Graph!Dominates(d, p)
                                /\ d = b \/ ~Graph!Dominates(d, b)}
    BY DEF FrontierTrue
  <2>1. FlowInv /\ Len(blocks) # 0 /\ SweepInv /\ Connected
    BY ReachedConnects DEF DomInv, VectorInv
  <2>2. Exact
    BY <2>1, SettledIsExact DEF Exact
  <2>3. ASSUME NEW b \in Graph!Nodes \ {blocks[1]}
        PROVE  Cardinality(Graph!Idoms(b)) = 1
    <3>1. PICK i : Graph!Idoms(b) = {i}
      BY <2>1, <2>2, IdomsAre
    <3> QED
      BY <3>1, FS_Singleton
  <2>4. ASSUME NEW d \in Graph!Nodes
        PROVE  Graph!Frontier(d) =
                 {b \in Graph!Nodes :
                    /\ b # blocks[1] \/ Cardinality(Graph!Preds(b)) # 1
                    /\ \E p \in Graph!Preds(b) : Graph!Dominates(d, p)
                    /\ d = b \/ ~Graph!Dominates(d, b)}
    <3>1. Graph!Frontier(d) \subseteq Graph!Nodes
      BY DEF Graph!Frontier
    <3> QED
      BY <2>1, <3>1, FrontierIs
  <2> QED
    BY <2>3, <2>4
<1> QED
  BY <1>1, DomHolds, PTL

-----------------------------------------------------------------------------
(* Numbers.  What a stack holds has been given, and the calls of indexVars *)
(* know what they pushed: from the first call to the last, the pushes add  *)
(* up to the heights of the stacks.                                        *)
CountInv ==
  /\ counters \in [Vars -> Nat] /\ stacks \in [Vars -> Seq(Nat)]
  /\ \A v \in Vars : \A i \in 1 .. Len(stacks[v]) : stacks[v][i] < counters[v]

Adds(pushes, n, height) ==
  \E sum \in [1 .. n -> Nat] :
    sum[1] = 0 /\ sum[n] = height /\ \A k \in 1 .. n - 1 : sum[k + 1] = sum[k] + pushes[k + 1]

PushesOf(v) == [k \in 1 .. Len(trail) |-> trail[k].pushed[v]]

TrailInv ==
  /\ IsSeq(trail) /\ Len(trail) # 0 /\ trail[1].doing = "children"
  /\ \A k \in 1 .. Len(trail) : /\ DOMAIN trail[k] = {"block", "doing", "at", "pushed", "todo"}
                                /\ trail[k].pushed \in [Vars -> Nat]
  /\ \A v \in Vars : Adds(PushesOf(v), Len(trail), Len(stacks[v]))

HeldInv == DOMAIN held = Vars /\ \A v \in Vars : DOMAIN held[v] = 0 .. counters[v] - 1

NumberInv ==
  /\ CountInv
  /\ phase \in {"graph", "dominators", "numbering", "running", "undefined"}
  /\ phase \in {"graph", "dominators", "running"} => \A v \in Vars : stacks[v] = <<>>
  /\ phase = "numbering" => TrailInv
  /\ phase = "running" => HeldInv

(* A call that begins, that pushes more, and that ends. *)
LEMMA AddsUp ==
  ASSUME NEW n \in Nat \ {0}, NEW p, NEW q, NEW h \in Nat, Adds(p, n, h),
         \A k \in 1 .. n : q[k] = p[k], q[n + 1] \in Nat
  PROVE  Adds(q, n + 1, h + q[n + 1])
<1>1. PICK sum \in [1 .. n -> Nat] :
        sum[1] = 0 /\ sum[n] = h /\ \A k \in 1 .. n - 1 : sum[k + 1] = sum[k] + p[k + 1]
  BY DEF Adds
<1> DEFINE more == [k \in 1 .. n + 1 |-> IF k = n + 1 THEN h + q[n + 1] ELSE sum[k]]
<1>2. more \in [1 .. n + 1 -> Nat] /\ more[1] = 0 /\ more[n + 1] = h + q[n + 1]
  BY <1>1
<1>3. ASSUME NEW k \in 1 .. n PROVE more[k + 1] = more[k] + q[k + 1]
  <2>1. CASE k = n
    BY <1>1, <2>1
  <2>2. CASE k # n
    <3>1. k \in 1 .. n - 1 /\ k + 1 \in 1 .. n
      BY <2>2
    <3> QED
      BY <1>1, <3>1
  <2> QED
    BY <2>1, <2>2
<1>4. (n + 1) - 1 = n
  OBVIOUS
<1> HIDE DEF more
<1> QED
  BY <1>2, <1>3, <1>4 DEF Adds

LEMMA AddsMore ==
  ASSUME NEW n \in Nat, n >= 2, NEW p, NEW q, NEW h \in Nat, Adds(p, n, h), NEW d \in Nat,
         \A k \in 1 .. n - 1 : q[k] = p[k], p[n] \in Nat, q[n] = p[n] + d
  PROVE  Adds(q, n, h + d)
<1>1. PICK sum \in [1 .. n -> Nat] :
        sum[1] = 0 /\ sum[n] = h /\ \A k \in 1 .. n - 1 : sum[k + 1] = sum[k] + p[k + 1]
  BY DEF Adds
<1> DEFINE more == [k \in 1 .. n |-> IF k = n THEN h + d ELSE sum[k]]
<1>2. more \in [1 .. n -> Nat] /\ more[1] = 0 /\ more[n] = h + d
  BY <1>1
<1>3. ASSUME NEW k \in 1 .. n - 1 PROVE more[k + 1] = more[k] + q[k + 1]
  <2>1. more[k] = sum[k] /\ sum[k + 1] = sum[k] + p[k + 1] /\ sum[k] \in Nat
    BY <1>1
  <2>2. CASE k + 1 = n
    <3>1. sum[n] = sum[k] + p[n] /\ h = sum[n] /\ more[n] = h + d /\ q[n] = p[n] + d
      BY <1>1, <1>2, <2>1, <2>2
    <3>2. h + d = sum[k] + (p[n] + d)
      BY <2>1, <3>1
    <3> HIDE DEF more
    <3> QED
      BY <2>1, <2>2, <3>1, <3>2
  <2>3. CASE k + 1 # n
    <3>1. k + 1 \in 1 .. n - 1
      BY <2>3
    <3> QED
      BY <2>1, <2>3, <3>1
  <2> QED
    BY <2>2, <2>3
<1> HIDE DEF more
<1> QED
  BY <1>2, <1>3 DEF Adds

LEMMA AddsDown ==
  ASSUME NEW n \in Nat, n >= 2, NEW p, NEW q, NEW h \in Nat, Adds(p, n, h), p[n] \in Nat,
         \A k \in 1 .. n - 1 : q[k] = p[k]
  PROVE  p[n] <= h /\ Adds(q, n - 1, h - p[n])
<1>1. PICK sum \in [1 .. n -> Nat] :
        sum[1] = 0 /\ sum[n] = h /\ \A k \in 1 .. n - 1 : sum[k + 1] = sum[k] + p[k + 1]
  BY DEF Adds
<1>2. n - 1 \in 1 .. n - 1 /\ n - 1 \in 1 .. n /\ (n - 1) + 1 = n
  OBVIOUS
<1>3. h = sum[n - 1] + p[n] /\ sum[n - 1] \in Nat
  BY <1>1, <1>2
<1> DEFINE less == [k \in 1 .. n - 1 |-> sum[k]]
<1>4. less \in [1 .. n - 1 -> Nat] /\ less[1] = 0 /\ less[n - 1] = h - p[n] /\ p[n] <= h
  <2>1. \A k \in 1 .. n - 1 : k \in 1 .. n
    OBVIOUS
  <2>2. less \in [1 .. n - 1 -> Nat] /\ less[1] = 0
    BY <1>1, <1>2, <2>1
  <2>3. less[n - 1] = sum[n - 1]
    BY <1>2
  <2>4. sum[n - 1] = h - p[n] /\ p[n] <= h
    BY <1>3
  <2> QED
    BY <2>2, <2>3, <2>4
<1>5. \A k \in 1 .. (n - 1) - 1 : less[k + 1] = less[k] + q[k + 1]
  BY <1>1
<1> HIDE DEF less
<1>6. Adds(q, n - 1, h - p[n])
  BY <1>4, <1>5 DEF Adds
<1> QED
  BY <1>4, <1>6

LEMMA AddsAlike ==
  ASSUME NEW n \in Nat, NEW p, NEW q, NEW h, Adds(p, n, h), \A k \in 1 .. n : q[k] = p[k]
  PROVE  Adds(q, n, h)
BY DEF Adds

LEMMA AddsNone == \A p, h : Adds(p, 1, h) <=> h = 0
<1> TAKE p, h
<1>1. ASSUME h = 0 PROVE Adds(p, 1, h)
  <2> DEFINE sum == [k \in 1 .. 1 |-> 0]
  <2>1. sum \in [1 .. 1 -> Nat] /\ sum[1] = 0 /\ 1 .. 1 - 1 = {}
    OBVIOUS
  <2> HIDE DEF sum
  <2> QED
    BY <1>1, <2>1 DEF Adds
<1> QED
  BY <1>1 DEF Adds

LEMMA PushedKeeps ==
  ASSUME CountInv, NEW vs, stacks' = Pushed(vs), counters' = Advanced(vs)
  PROVE  CountInv' /\ \A v \in Vars : Len(stacks'[v]) = Len(stacks[v]) + IF v \in vs THEN 1 ELSE 0
<1>1. ASSUME NEW v \in Vars
      PROVE  /\ counters'[v] \in Nat /\ stacks'[v] \in Seq(Nat)
             /\ \A i \in 1 .. Len(stacks'[v]) : stacks'[v][i] < counters'[v]
             /\ Len(stacks'[v]) = Len(stacks[v]) + IF v \in vs THEN 1 ELSE 0
  <2>1. counters[v] \in Nat /\ stacks[v] \in Seq(Nat)
        /\ \A i \in 1 .. Len(stacks[v]) : stacks[v][i] < counters[v]
    BY DEF CountInv
  <2>2. CASE v \notin vs
    BY <2>1, <2>2 DEF Pushed, Advanced
  <2>3. CASE v \in vs
    <3>1. stacks'[v] = Append(stacks[v], counters[v]) /\ counters'[v] = counters[v] + 1
      BY <2>3 DEF Pushed, Advanced
    <3>2. ASSUME NEW i \in 1 .. Len(stacks[v]) + 1
          PROVE  Append(stacks[v], counters[v])[i] < counters[v] + 1
      <4>1. CASE i \in 1 .. Len(stacks[v])
        <5>1. stacks[v][i] \in Nat /\ stacks[v][i] < counters[v]
          BY <2>1, <4>1
        <5> QED
          BY <2>1, <4>1, <5>1
      <4>2. CASE i = Len(stacks[v]) + 1
        BY <2>1, <4>2
      <4> QED
        BY <2>1, <4>1, <4>2
    <3> QED
      BY <2>1, <2>3, <3>1, <3>2
  <2> QED
    BY <2>2, <2>3
<1>2. counters' \in [Vars -> Nat] /\ stacks' \in [Vars -> Seq(Nat)]
  <2>1. counters' = [v \in Vars |-> counters'[v]] /\ stacks' = [v \in Vars |-> stacks'[v]]
    BY DEF Pushed, Advanced
  <2> QED
    BY <1>1, <2>1
<1> QED
  BY <1>1, <1>2 DEF CountInv

IsVisit(r) ==
  DOMAIN r = {"block", "doing", "at", "pushed", "todo"} /\ r.pushed \in [Vars -> Nat]

LEMMA VisitIs ==
  \A block, doing, pushed, todo :
    pushed \in [Vars -> Nat] =>
      LET r == Visit(block, doing, pushed, todo) IN
      IsVisit(r) /\ r.pushed = pushed /\ r.doing = doing
BY DEF Visit, IsVisit

LEMMA PushesAre ==
  \A before, vs :
    before \in [Vars -> Nat] =>
      /\ Pushes(before, vs) \in [Vars -> Nat]
      /\ \A v \in Vars : Pushes(before, vs)[v] = before[v] + IF v \in vs THEN 1 ELSE 0
BY DEF Pushes

LEMMA TrailFacts ==
  ASSUME TrailInv
  PROVE  /\ IsSeq(trail) /\ Len(trail) \in Nat \ {0} /\ Last(trail) = trail[Len(trail)]
         /\ \A k \in 1 .. Len(trail) : IsVisit(trail[k])
         /\ \A v \in Vars : Adds(PushesOf(v), Len(trail), Len(stacks[v]))
BY SeqDomain DEF TrailInv, IsVisit, Last

LEMMA placePhisNumbers ==
  ASSUME NumberInv, placePhis
  PROVE  NumberInv'
<1>1. /\ phase = "dominators" /\ UNCHANGED <<counters, stacks>>
      /\ trail' = <<Visit(0, "children", NoPushes, {blocks[1]})>>
      /\ phase' \in {"undefined", "numbering"}
  BY DEF placePhis
<1>2. NoPushes \in [Vars -> Nat]
  BY DEF NoPushes
<1>3. IsSeq(trail') /\ Len(trail') = 1 /\ IsVisit(trail'[1]) /\ trail'[1].doing = "children"
  BY <1>1, <1>2, VisitIs, SingleSeq
<1>4. \A v \in Vars : Len(stacks'[v]) = 0
  BY <1>1, NoneIsSeq DEF NumberInv
<1>5. \A v \in Vars : Adds(PushesOf(v)', Len(trail'), Len(stacks'[v]))
  BY <1>3, <1>4, AddsNone
<1>6. TrailInv'
  BY <1>3, <1>5 DEF TrailInv, IsVisit
<1>7. CountInv'
  BY <1>1 DEF NumberInv, CountInv
<1> QED
  BY <1>1, <1>6, <1>7 DEF NumberInv

LEMMA indexVarsNumbers ==
  ASSUME NumberInv, indexVars
  PROVE  NumberInv'
<1> DEFINE n == Len(trail)
<1>1. PICK b, here :
        /\ phase = "numbering" /\ phase' = phase
        /\ stacks' = Pushed(here) /\ counters' = Advanced(here)
        /\ trail' = Append([trail EXCEPT ![n].todo = @ \ {b}],
                           Visit(b, "elements", Pushes(NoPushes, here), {}))
  BY DEF indexVars, Indexing
<1>2. TrailInv /\ CountInv
  BY <1>1 DEF NumberInv
<1>3. CountInv' /\ \A v \in Vars : Len(stacks'[v]) = Len(stacks[v]) + IF v \in here THEN 1 ELSE 0
  BY <1>1, <1>2, PushedKeeps
<1>4. /\ IsSeq(trail) /\ n \in Nat \ {0} /\ \A k \in 1 .. n : IsVisit(trail[k])
      /\ \A v \in Vars : Adds(PushesOf(v), n, Len(stacks[v])) /\ Len(stacks[v]) \in Nat
  BY <1>2, TrailFacts DEF CountInv
<1> DEFINE last == [trail[n] EXCEPT !.todo = @ \ {b}]
           new == Visit(b, "elements", Pushes(NoPushes, here), {})
<1>5. IsVisit(last) /\ last.pushed = trail[n].pushed /\ last.doing = trail[n].doing
  BY <1>4 DEF IsVisit
<1>6. /\ IsVisit(new)
      /\ \A v \in Vars : new.pushed[v] = IF v \in here THEN 1 ELSE 0
  <2>1. NoPushes \in [Vars -> Nat] /\ \A v \in Vars : NoPushes[v] = 0
    BY DEF NoPushes
  <2>2. Pushes(NoPushes, here) \in [Vars -> Nat]
    BY <2>1, PushesAre
  <2>3. IsVisit(new) /\ new.pushed = Pushes(NoPushes, here)
    BY <2>2, VisitIs
  <2> HIDE DEF new
  <2> QED
    BY <2>1, <2>3, PushesAre
<1>7. trail' = Append(Put(trail, n, last), new)
  BY <1>1 DEF Put
<1> HIDE DEF last, new
<1>8. /\ IsSeq(trail') /\ Len(trail') = n + 1 /\ trail'[n + 1] = new
      /\ \A k \in 1 .. n : trail'[k] = IF k = n THEN last ELSE trail[k]
  <2>1. IsSeq(Put(trail, n, last)) /\ Len(Put(trail, n, last)) = n
        /\ \A k \in 1 .. n : Put(trail, n, last)[k] = IF k = n THEN last ELSE trail[k]
    BY <1>4, PutKeeps
  <2> QED
    BY <1>7, <2>1, Appended
<1>9. \A k \in 1 .. n : IsVisit(trail'[k]) /\ trail'[k].pushed = trail[k].pushed
                        /\ trail'[k].doing = trail[k].doing
  BY <1>4, <1>5, <1>8
<1>10. \A k \in 1 .. n + 1 : IsVisit(trail'[k])
  BY <1>4, <1>6, <1>8, <1>9
<1>11. ASSUME NEW v \in Vars
       PROVE  Adds(PushesOf(v)', Len(trail'), Len(stacks'[v]))
  <2> DEFINE q == [k \in 1 .. n + 1 |-> trail'[k].pushed[v]]
  <2>1. PushesOf(v)' = q
    BY <1>8 DEF PushesOf
  <2>2. q[n + 1] = IF v \in here THEN 1 ELSE 0
    BY <1>4, <1>6, <1>8
  <2>3. \A k \in 1 .. n : q[k] = PushesOf(v)[k]
    BY <1>4, <1>9 DEF PushesOf
  <2> HIDE DEF q
  <2>4. Adds(q, n + 1, Len(stacks[v]) + q[n + 1])
    <3>1. Adds(PushesOf(v), n, Len(stacks[v])) /\ Len(stacks[v]) \in Nat /\ n \in Nat \ {0}
      BY <1>4
    <3>2. q[n + 1] \in Nat
      BY <2>2
    <3> HIDE DEF n
    <3> QED
      BY <2>3, <3>1, <3>2, AddsUp
  <2> QED
    BY <1>3, <1>8, <2>1, <2>2, <2>4
<1>12. trail'[1].doing = "children" /\ Len(trail') # 0
  <2>1. 1 \in 1 .. n /\ n + 1 # 0
    BY <1>4
  <2> QED
    BY <1>2, <1>8, <1>9, <2>1 DEF TrailInv
<1>13. TrailInv'
  BY <1>8, <1>10, <1>11, <1>12 DEF TrailInv, IsVisit
<1> QED
  BY <1>1, <1>3, <1>13 DEF NumberInv

LEMMA numberElementNumbers ==
  ASSUME NumberInv, numberElement
  PROVE  NumberInv'
<1> DEFINE n == Len(trail)
<1>1. PICK given :
        /\ phase = "numbering" /\ phase' \in {"numbering", "undefined"}
        /\ Last(trail).doing = "elements"
        /\ stacks' = Pushed(given) /\ counters' = Advanced(given)
        /\ trail' = [trail EXCEPT ![n].at = @ + 1, ![n].pushed = Pushes(@, given)]
  BY DEF numberElement, Indexing
<1>2. TrailInv /\ CountInv
  BY <1>1 DEF NumberInv
<1>3. CountInv' /\ \A v \in Vars : Len(stacks'[v]) = Len(stacks[v]) + IF v \in given THEN 1 ELSE 0
  BY <1>1, <1>2, PushedKeeps
<1>4. /\ IsSeq(trail) /\ n \in Nat \ {0} /\ \A k \in 1 .. n : IsVisit(trail[k])
      /\ \A v \in Vars : Adds(PushesOf(v), n, Len(stacks[v])) /\ Len(stacks[v]) \in Nat
  BY <1>2, TrailFacts DEF CountInv
<1>5. n >= 2
  BY <1>1, <1>2, <1>4, TrailFacts DEF TrailInv
<1> DEFINE last == [trail[n] EXCEPT !.at = @ + 1, !.pushed = Pushes(@, given)]
<1>6. IsVisit(last) /\ \A v \in Vars : last.pushed[v] = trail[n].pushed[v] + IF v \in given THEN 1 ELSE 0
  <2>1. n \in 1 .. n /\ IsVisit(trail[n])
    BY <1>4
  <2>2. Pushes(trail[n].pushed, given) \in [Vars -> Nat]
    BY <2>1, PushesAre DEF IsVisit
  <2>3. last.pushed = Pushes(trail[n].pushed, given) /\ IsVisit(last)
    BY <2>1, <2>2 DEF IsVisit
  <2> HIDE DEF last
  <2> QED
    BY <2>1, <2>3, PushesAre DEF IsVisit
<1>7. trail' = Put(trail, n, last)
  BY <1>1 DEF Put
<1> HIDE DEF last
<1>8. /\ IsSeq(trail') /\ Len(trail') = n
      /\ \A k \in 1 .. n : trail'[k] = IF k = n THEN last ELSE trail[k]
  BY <1>4, <1>7, PutKeeps
<1>9. \A k \in 1 .. n : IsVisit(trail'[k])
  BY <1>4, <1>6, <1>8
<1>10. ASSUME NEW v \in Vars
       PROVE  Adds(PushesOf(v)', Len(trail'), Len(stacks'[v]))
  <2> DEFINE q == [k \in 1 .. n |-> trail'[k].pushed[v]]
             d == IF v \in given THEN 1 ELSE 0
  <2>1. PushesOf(v)' = q
    BY <1>8 DEF PushesOf
  <2>2. n \in 1 .. n /\ \A k \in 1 .. n - 1 : k \in 1 .. n /\ k # n
    BY <1>4
  <2>3. PushesOf(v)[n] \in Nat /\ q[n] = PushesOf(v)[n] + d /\ d \in Nat
    BY <1>4, <1>6, <1>8, <2>2 DEF PushesOf, IsVisit
  <2>4. \A k \in 1 .. n - 1 : q[k] = PushesOf(v)[k]
    BY <1>8, <2>2 DEF PushesOf
  <2> HIDE DEF q, d
  <2>5. Adds(q, n, Len(stacks[v]) + d)
    BY <1>4, <1>5, <2>3, <2>4, AddsMore
  <2>6. Len(stacks'[v]) = Len(stacks[v]) + d
    BY <1>3 DEF d
  <2> QED
    BY <1>8, <2>1, <2>5, <2>6
<1>11. trail'[1].doing = "children" /\ Len(trail') # 0
  <2>1. 1 \in 1 .. n /\ 1 # n /\ n # 0
    BY <1>4, <1>5
  <2> QED
    BY <1>2, <1>8, <2>1 DEF TrailInv
<1>12. TrailInv'
  BY <1>8, <1>9, <1>10, <1>11 DEF TrailInv, IsVisit
<1> QED
  BY <1>1, <1>3, <1>12 DEF NumberInv

LEMMA passOnNumbers ==
  ASSUME NumberInv, passOn
  PROVE  NumberInv'
<1> DEFINE n == Len(trail)
<1>1. PICK todo :
        /\ phase = "numbering" /\ phase' = phase
        /\ stacks' = stacks /\ counters' = counters
        /\ trail' = [trail EXCEPT ![n].doing = "children", ![n].todo = todo]
  BY DEF passOn, Indexing
<1>2. TrailInv /\ CountInv /\ CountInv'
  BY <1>1 DEF NumberInv, CountInv
<1>3. /\ IsSeq(trail) /\ n \in Nat \ {0} /\ \A k \in 1 .. n : IsVisit(trail[k])
      /\ \A v \in Vars : Adds(PushesOf(v), n, Len(stacks[v]))
  BY <1>2, TrailFacts
<1> DEFINE last == [trail[n] EXCEPT !.doing = "children", !.todo = todo]
<1>4. IsVisit(last) /\ last.doing = "children" /\ last.pushed = trail[n].pushed
  BY <1>3 DEF IsVisit
<1>5. trail' = Put(trail, n, last)
  BY <1>1 DEF Put
<1> HIDE DEF last
<1>6. /\ IsSeq(trail') /\ Len(trail') = n
      /\ \A k \in 1 .. n : trail'[k] = IF k = n THEN last ELSE trail[k]
  BY <1>3, <1>5, PutKeeps
<1>7. \A k \in 1 .. n : IsVisit(trail'[k]) /\ trail'[k].pushed = trail[k].pushed
  BY <1>3, <1>4, <1>6
<1>8. trail'[1].doing = "children" /\ Len(trail') # 0
  <2>1. 1 \in 1 .. n /\ n # 0
    BY <1>3
  <2> QED
    BY <1>2, <1>4, <1>6, <2>1 DEF TrailInv
<1>9. \A v \in Vars : PushesOf(v)' = PushesOf(v)
  BY <1>6, <1>7 DEF PushesOf
<1>10. \A v \in Vars : Adds(PushesOf(v)', Len(trail'), Len(stacks'[v]))
  BY <1>1, <1>3, <1>6, <1>9
<1>11. TrailInv'
  BY <1>6, <1>7, <1>8, <1>10 DEF TrailInv, IsVisit
<1> QED
  BY <1>1, <1>2, <1>11 DEF NumberInv

LEMMA popNumbersNumbers ==
  ASSUME NumberInv, popNumbers
  PROVE  NumberInv'
<1> DEFINE n == Len(trail)
           pushed == trail[n].pushed
<1>1. /\ phase = "numbering" /\ phase' = phase /\ counters' = counters
      /\ Len(trail) > 1 /\ trail' = Front(trail)
      /\ stacks' = [v \in Vars |-> SubSeq(stacks[v], 1, Len(stacks[v]) - pushed[v])]
  BY DEF popNumbers, Indexing, Popped, Last
<1>2. TrailInv /\ CountInv
  BY <1>1 DEF NumberInv
<1>3. /\ IsSeq(trail) /\ n \in Nat \ {0} /\ n >= 2 /\ \A k \in 1 .. n : IsVisit(trail[k])
      /\ \A v \in Vars : Adds(PushesOf(v), n, Len(stacks[v]))
  BY <1>1, <1>2, TrailFacts
<1>4. /\ IsSeq(trail') /\ Len(trail') = n - 1
      /\ \A k \in 1 .. n - 1 : trail'[k] = trail[k] /\ k \in 1 .. n
  BY <1>1, <1>3, Fronted
<1>5. ASSUME NEW v \in Vars
      PROVE  /\ pushed[v] \in Nat /\ pushed[v] <= Len(stacks[v])
             /\ Adds(PushesOf(v)', n - 1, Len(stacks[v]) - pushed[v])
  <2>1. Len(stacks[v]) \in Nat
    BY <1>2 DEF CountInv
  <2>2. PushesOf(v)[n] = pushed[v] /\ pushed[v] \in Nat
    BY <1>3 DEF PushesOf, IsVisit
  <2>3. \A k \in 1 .. n - 1 : PushesOf(v)'[k] = PushesOf(v)[k]
    BY <1>4 DEF PushesOf
  <2>4. PICK q : q = PushesOf(v)'
    OBVIOUS
  <2>5. Adds(PushesOf(v), n, Len(stacks[v]))
    BY <1>3
  <2>6. n \in Nat /\ n >= 2
    BY <1>3
  <2> HIDE DEF n, pushed
  <2>7. PushesOf(v)[n] <= Len(stacks[v]) /\ Adds(q, n - 1, Len(stacks[v]) - PushesOf(v)[n])
    BY <2>1, <2>2, <2>3, <2>4, <2>5, <2>6, AddsDown
  <2> QED
    BY <2>2, <2>4, <2>7
<1>6. ASSUME NEW v \in Vars
      PROVE  /\ stacks'[v] \in Seq(Nat) /\ Len(stacks'[v]) = Len(stacks[v]) - pushed[v]
             /\ \A i \in 1 .. Len(stacks'[v]) : stacks'[v][i] < counters'[v]
  <2> DEFINE m == Len(stacks[v]) - pushed[v]
  <2>1. stacks[v] \in Seq(Nat) /\ Len(stacks[v]) \in Nat
        /\ \A i \in 1 .. Len(stacks[v]) : stacks[v][i] < counters[v]
    BY <1>2 DEF CountInv
  <2>2. m \in 0 .. Len(stacks[v])
    BY <1>5, <2>1
  <2>3. stacks'[v] = SubSeq(stacks[v], 1, m)
    BY <1>1
  <2> HIDE DEF m, pushed
  <2>4. SubSeq(stacks[v], 1, m) \in Seq(Nat) /\ Len(SubSeq(stacks[v], 1, m)) = m
        /\ \A i \in 1 .. m : SubSeq(stacks[v], 1, m)[i] = stacks[v][i] /\ i \in 1 .. Len(stacks[v])
    BY <2>1, <2>2
  <2> QED
    BY <1>1, <2>1, <2>3, <2>4 DEF m
<1>7. CountInv'
  <2>1. stacks' = [v \in Vars |-> stacks'[v]]
    BY <1>1
  <2>2. stacks' \in [Vars -> Seq(Nat)]
    BY <1>6, <2>1
  <2> QED
    BY <1>1, <1>2, <1>6, <2>2 DEF CountInv
<1>8. trail'[1].doing = "children" /\ Len(trail') # 0
  <2>1. 1 \in 1 .. n - 1 /\ n - 1 # 0
    BY <1>3
  <2> QED
    BY <1>2, <1>4, <2>1 DEF TrailInv
<1>9. \A v \in Vars : Adds(PushesOf(v)', Len(trail'), Len(stacks'[v]))
  BY <1>4, <1>5, <1>6
<1>10. TrailInv'
  BY <1>3, <1>4, <1>8, <1>9 DEF TrailInv, IsVisit
<1> QED
  BY <1>1, <1>7, <1>10 DEF NumberInv

LEMMA StartNumbers ==
  ASSUME NumberInv, Start
  PROVE  NumberInv'
<1>1. PICK nothing \in Data :
        /\ phase = "numbering" /\ phase' = "running" /\ Len(trail) = 1
        /\ UNCHANGED <<counters, stacks>>
        /\ held' = [v \in Vars |-> [n \in 0 .. counters[v] - 1 |-> nothing]]
  BY DEF Start, Indexing, numbers
<1>2. TrailInv /\ CountInv /\ CountInv'
  BY <1>1 DEF NumberInv, CountInv
<1>3. ASSUME NEW v \in Vars PROVE stacks'[v] = <<>>
  <2>1. Len(stacks[v]) = 0 /\ stacks[v] \in Seq(Nat)
    BY <1>1, <1>2, AddsNone DEF TrailInv, CountInv
  <2> QED
    BY <1>1, <2>1
<1>4. HeldInv'
  BY <1>1 DEF HeldInv
<1> QED
  BY <1>1, <1>2, <1>3, <1>4 DEF NumberInv

(* A step of the program gives numbered values new values, and no others. *)
SameNumbers(values, more) ==
  DOMAIN more = DOMAIN values /\ \A v \in DOMAIN values : DOMAIN more[v] = DOMAIN values[v]

LEMMA WrittenKeeps == \A values, e, value : SameNumbers(values, Written(values, e, value))
BY DEF SameNumbers, Written

LEMMA MergedKeeps ==
  \A values, from, to, missing :
    DOMAIN values = Vars => SameNumbers(values, Merged(values, from, to, missing))
BY DEF SameNumbers, Merged

LEMMA RunElementNumbers ==
  ASSUME NumberInv, RunElement
  PROVE  NumberInv'
<1>1. phase = "running" /\ phase' = phase /\ UNCHANGED <<counters, stacks>>
  BY DEF RunElement, numbers
<1>2. PICK value, s, missing :
        \/ held' = Written(held, Here, value)
        \/ held' = Merged(Written(held, Here, value), place.block, s, missing)
  BY DEF RunElement
<1>3. DOMAIN held = Vars /\ \A v \in Vars : DOMAIN held[v] = 0 .. counters[v] - 1
  BY <1>1 DEF NumberInv, HeldInv
<1>4. PICK written : written = Written(held, Here, value)
  OBVIOUS
<1>5. SameNumbers(held, written)
  BY <1>4, WrittenKeeps
<1>6. held' = written \/ SameNumbers(written, held')
  BY <1>2, <1>3, <1>4, <1>5, MergedKeeps DEF SameNumbers
<1>7. HeldInv'
  BY <1>1, <1>3, <1>5, <1>6 DEF HeldInv, SameNumbers
<1> QED
  BY <1>1, <1>7 DEF NumberInv, CountInv

LEMMA NumberStarts == Init => NumberInv
<1>1. <<>> \in Seq(Nat) /\ Len(<<>>) = 0
  BY NoneIsSeq
<1> QED
  BY <1>1 DEF Init, NumberInv, CountInv

LEMMA NumberKeeps == NumberInv /\ [Next]_vars => NumberInv'
<1> SUFFICES ASSUME NumberInv, [Next]_vars
             PROVE  NumberInv'
  OBVIOUS
<1>1. CASE BuildGraph \/ BuildDoms \/ SweepDoms
  <2>1. /\ UNCHANGED <<counters, stacks>> /\ phase \in {"graph", "dominators"}
        /\ phase' \in {"graph", "dominators"}
    BY <1>1 DEF BuildGraph, BuildDoms, SweepDoms, numbers
  <2> QED
    BY <2>1 DEF NumberInv, CountInv
<1>2. CASE UNCHANGED vars
  <2>1. UNCHANGED <<phase, counters, stacks, trail, held>>
    BY <1>2 DEF vars, numbers, run
  <2> QED
    BY <2>1 DEF NumberInv, CountInv, TrailInv, HeldInv, PushesOf
<1> QED
  BY <1>1, <1>2, placePhisNumbers, indexVarsNumbers, numberElementNumbers, passOnNumbers,
     popNumbersNumbers, StartNumbers, RunElementNumbers DEF Next, Analyse

LEMMA NumberHolds == Spec => []NumberInv
BY NumberStarts, NumberKeeps, PTL DEF Spec

(* For any bodies, any variables and any values: the vectors of the graph  *)
(* are the blocks of the list, none is empty, and they lead to each other  *)
(* only; every number on a stack has been given; indexVars pops all that   *)
(* it pushed, and the program has a value for every number given.          *)
THEOREM TypesAreCorrect == Spec => []TypeOK
<1>1. DomInv /\ NumberInv => TypeOK
  <2> SUFFICES ASSUME DomInv, NumberInv
               PROVE  TypeOK
    OBVIOUS
  <2>1. VectorInv /\ FlowInv
    BY DEF DomInv, VectorInv
  <2>2. /\ DOMAIN content = 1 .. Len(content) /\ DOMAIN succ = 1 .. Len(content)
        /\ DOMAIN blocks = 1 .. Len(content) /\ DOMAIN frames = 1 .. Len(frames)
        /\ Len(blocks) = Len(content)
    BY <2>1, SeqDomain DEF VectorInv, FlowInv
  <2>3. Range(blocks) = DOMAIN content
    BY <2>1, <2>2 DEF VectorInv, FlowInv, Range
  <2>4. ASSUME NEW b \in DOMAIN content
        PROVE  content[b] # <<>> /\ Range(succ[b]) \subseteq {0} \union DOMAIN content
    <3>1. IsSeq(content[b]) /\ Len(content[b]) # 0 /\ IsSeq(succ[b])
          /\ \A i \in 1 .. Len(succ[b]) : succ[b][i] \in 0 .. Len(content)
      BY <2>1, <2>2 DEF VectorInv, FilledInv, LinksInv
    <3>2. content[b] # <<>> /\ DOMAIN succ[b] = 1 .. Len(succ[b])
      BY <3>1, SeqDomain
    <3>3. Len(content) \in Nat
      BY <2>1, SeqDomain DEF FlowInv
    <3> QED
      BY <2>2, <3>1, <3>2, <3>3 DEF Range
  <2>5. FlowTypeOK
    BY <2>1, <2>2, <2>3, <2>4 DEF FlowTypeOK, FlowInv, VectorInv, FramesInv
  <2>6. phase # "graph" => DOMAIN doms = Graph!Nodes /\ \A b \in Graph!Nodes : b \in doms[b]
    BY DEF DomInv, SweepInv
  <2>7. \A v \in Vars : \A i \in DOMAIN stacks[v] : stacks[v][i] < counters[v]
    BY DEF NumberInv, CountInv
  <2>8. phase = "running" => \A v \in Vars : stacks[v] = <<>> /\ DOMAIN held[v] = 0 .. counters[v] - 1
    BY DEF NumberInv, HeldInv
  <2> QED
    BY <2>5, <2>6, <2>7, <2>8 DEF TypeOK, NumberInv
<1> QED
  BY <1>1, DomHolds, NumberHolds, PTL

-----------------------------------------------------------------------------
(* Names.  A variable is plain if it is visible in every vector, declared  *)
(* in none but the first, and changed by no i++, which fillGens does not   *)
(* take for an assignment.                                                 *)
Plain(v) ==
  /\ \A b \in Graph!Nodes : isVisible(v, ParentBlock(content[b][1]))
  /\ \A b \in Graph!Nodes : \A i \in DOMAIN content[b] :
       /\ b # blocks[1] => Declaration(content[b][i]) # v
       /\ Def(prog, content[b][i]) = v => Generator(content[b][i]) = v

EachOnce ==
  \A b, c \in Graph!Nodes : \A i \in DOMAIN content[b], j \in DOMAIN content[c] :
    content[b][i] = content[c][j] => b = c /\ i = j

(* Where the dominance of a block ends, as FrontierIs finds it.            *)
Ends(d, b) ==
  /\ b # blocks[1] \/ Cardinality(Graph!Preds(b)) # 1
  /\ \E p \in Graph!Preds(b) : Graph!Dominates(d, p)
  /\ d = b \/ ~Graph!Dominates(d, b)

(* No phi function of the variable was dropped, *)
Kept(v) == \A d \in AssignedIn(v), b \in Graph!Nodes : Ends(d, b) => <<b, v>> \in DOMAIN phis

Sound(v) == Connected /\ EachOnce /\ Plain(v) /\ Kept(v)

(* and all were placed where an assignment meets other values.             *)
PhiInv ==
  \A p \in DOMAIN phis :
    /\ DOMAIN phis[p] = {"gen", "args"}
    /\ p \in Graph!Nodes \X Vars
    /\ Connected => \E d \in AssignedIn(p[2]) : Ends(d, p[1])

TreeInv == phase \in {"numbering", "running"} => Graph!Settled /\ PhiInv

LEMMA TreeStays ==
  ASSUME UNCHANGED flow, doms' = doms
  PROVE  /\ Graph!Nodes' = Graph!Nodes
         /\ \A b : /\ Graph!Idoms(b)' = Graph!Idoms(b) /\ Graph!Children(b)' = Graph!Children(b)
                   /\ Graph!Successors(b)' = Graph!Successors(b)
                   /\ Graph!Preds(b)' = Graph!Preds(b)
         /\ \A d, b : Ends(d, b)' = Ends(d, b)
         /\ Connected' = Connected
<1>1. blocks' = blocks /\ succ' = succ
  BY DEF flow
<1>2. Graph!Nodes' = Graph!Nodes
  BY <1>1 DEF Graph!Nodes
<1>3. \A b : Graph!Successors(b)' = Graph!Successors(b) /\ Graph!Preds(b)' = Graph!Preds(b)
  BY <1>1, <1>2 DEF Graph!Successors, Graph!Preds
<1>4. \A d, b : Graph!Dominates(d, b)' = Graph!Dominates(d, b)
  BY <1>1, <1>2, <1>3 DEF Graph!Dominates, Graph!ClosedAvoiding
<1>5. Connected' = Connected
  BY <1>1, <1>2, <1>3 DEF Connected
<1> QED
  BY <1>1, <1>2, <1>3, <1>4, <1>5 DEF Graph!Idoms, Graph!Children, Graph!IsIdom, Ends

LEMMA CodeStays ==
  ASSUME UNCHANGED flow
  PROVE  /\ \A v, path : isVisible(v, path)' = isVisible(v, path)
         /\ \A e : /\ Generator(e)' = Generator(e) /\ Declaration(e)' = Declaration(e)
                   /\ Numbered(e)' = Numbered(e) /\ Assigned(e)' = Assigned(e)
                   /\ Uses(prog, e)' = Uses(prog, e) /\ Def(prog, e)' = Def(prog, e)
         /\ \A v : AssignedIn(v)' = AssignedIn(v) /\ EachOnce' = EachOnce
<1>1. blocks' = blocks /\ prog' = prog /\ content' = content
  BY DEF flow
<1>2. Graph!Nodes' = Graph!Nodes
  BY <1>1 DEF Graph!Nodes
<1>3. \A e : Generator(e)' = Generator(e) /\ Declaration(e)' = Declaration(e)
  BY <1>1 DEF Generator, Declaration
<1> QED
  BY <1>1, <1>2, <1>3 DEF isVisible, Numbered, Assigned, AssignedIn, Assignments, EachOnce

LEMMA TreeFacts ==
  ASSUME DomInv, phase # "graph", Graph!Settled, Connected
  PROVE  /\ FlowInv /\ Len(blocks) # 0 /\ Exact /\ blocks[1] \in Graph!Nodes
         /\ Graph!Idoms(blocks[1]) = {}
         /\ \A b \in Graph!Nodes : b # blocks[1] =>
              \E d \in Graph!Nodes : /\ Graph!Idoms(b) = {d} /\ d \in Graph!Dominators(b) \ {b}
                                     /\ Graph!Dominators(d) = Graph!Dominators(b) \ {b}
         /\ \A d \in Graph!Nodes : \A b : b \in Graph!Children(d) <=> b \in Graph!Nodes /\ d \in Graph!Idoms(b)
<1>1. FlowInv /\ Len(blocks) # 0 /\ SweepInv
  BY DEF DomInv, VectorInv
<1>2. Exact
  BY <1>1, SettledIsExact DEF Exact
<1>3. blocks[1] \in Graph!Nodes
  BY <1>1, NodesFacts
<1>4. Graph!Idoms(blocks[1]) = {}
  BY <1>1, <1>2, FirstHasNone
<1>5. ASSUME NEW b \in Graph!Nodes, b # blocks[1]
      PROVE  \E d \in Graph!Nodes : /\ Graph!Idoms(b) = {d} /\ d \in Graph!Dominators(b) \ {b}
                                    /\ Graph!Dominators(d) = Graph!Dominators(b) \ {b}
  <2>1. PICK d \in Graph!Dominators(b) \ {b} :
          Graph!Idoms(b) = {d} /\ Graph!Dominators(d) = Graph!Dominators(b) \ {b}
    BY <1>1, <1>2, <1>5, IdomsAre
  <2>2. d \in Graph!Nodes
    BY <2>1 DEF Graph!Dominators
  <2> QED
    BY <2>1, <2>2
<1>6. \A d \in Graph!Nodes : \A b : b \in Graph!Children(d) <=> b \in Graph!Nodes /\ d \in Graph!Idoms(b)
  BY DEF Graph!Children, Graph!Idoms
<1> QED
  BY <1>1, <1>2, <1>3, <1>4, <1>5, <1>6

LEMMA ForemostIs ==
  ASSUME FlowInv, Len(blocks) # 0, NEW todo, todo \subseteq Graph!Nodes, todo # {}
  PROVE  Foremost(todo) \in todo
<1>1. Graph!Nodes = {blocks[i] : i \in 1 .. Len(blocks)} /\ DOMAIN blocks = 1 .. Len(blocks)
      /\ Len(blocks) \in Nat
  BY NodesFacts
<1>2. \A b \in todo : Position(b) \in Nat
  BY <1>1 DEF Position
<1> DEFINE P == {Position(b) : b \in todo}
<1>3. P \in SUBSET Nat /\ P # {}
  BY <1>2
<1>4. PICK m \in P : \A k \in P : m <= k
  BY <1>3, LeastNatural
<1>5. \E b \in todo : \A c \in todo : Position(b) <= Position(c)
  BY <1>4
<1> QED
  BY <1>5 DEF Foremost

-----------------------------------------------------------------------------
(* The numbers of a variable.  N[b][i] is the one that holds before the    *)
(* i-th element of vector b, the last one after them all; L[b] says how    *)
(* far indexVars has come with b; H[k] is how high the stack is with what  *)
(* the first k calls have pushed.                                          *)
NoNumber == -1
Exit(b) == Len(content[b]) + 1
Busy(b) == Last(trail).doing = "elements" /\ Last(trail).block = b
Passed(L, b) == L[b] = Exit(b) /\ ~Busy(b)

Typed(L, N, v) ==
  /\ L \in [Graph!Nodes -> Nat] /\ N \in [Graph!Nodes -> [Nat -> Int]]
  /\ \A b \in Graph!Nodes : /\ L[b] <= Exit(b)
                            /\ \A i \in 1 .. L[b] : N[b][i] = NoNumber \/ N[b][i] \in 0 .. counters[v] - 1

(* What numberElement has done, *)
Along(L, N, v) ==
  \A b \in Graph!Nodes : \A i \in 1 .. L[b] - 1 :
    /\ v \in Uses(prog, content[b][i]) =>
         /\ <<content[b][i], v>> \in DOMAIN uses /\ uses[<<content[b][i], v>>] = N[b][i]
         /\ N[b][i] # NoNumber
    /\ Numbered(content[b][i]) = v => content[b][i] \in DOMAIN gens /\ N[b][i + 1] = gens[content[b][i]]
    /\ Numbered(content[b][i]) # v => N[b][i + 1] = N[b][i]

(* what indexVars has done on entering a block, *)
Entered(L, N, v) ==
  \A b \in Graph!Nodes :
    L[b] # 0 =>
      /\ <<b, v>> \in DOMAIN phis => N[b][1] = phis[<<b, v>>].gen
      /\ <<b, v>> \notin DOMAIN phis /\ b = blocks[1] => N[b][1] = NoNumber
      /\ \A d \in Graph!Idoms(b) :
           Passed(L, d) /\ (<<b, v>> \notin DOMAIN phis => N[b][1] = N[d][Exit(d)])

(* and what passOn has done.                                               *)
Handed(L, N, v) ==
  \A b \in Graph!Nodes :
    Passed(L, b) =>
      \A s \in Graph!Successors(b) :
        <<s, v>> \in DOMAIN phis =>
          /\ b \in DOMAIN phis[<<s, v>>].args /\ phis[<<s, v>>].args[b] = N[b][Exit(b)]
          /\ N[b][Exit(b)] # NoNumber

(* The calls are a way down the tree, and what is left to do is in them.   *)
Visiting(L, r) ==
  /\ r.block \in Graph!Nodes /\ r.at = L[r.block] /\ r.at # 0
  /\ r.doing = "children" => r.at = Exit(r.block)
  /\ r.todo \subseteq Graph!Children(r.block)

Walked(L) ==
  /\ \A k \in 2 .. Len(trail) : Visiting(L, trail[k])
  /\ \A k, l \in 2 .. Len(trail) : trail[k].block = trail[l].block => k = l
  /\ \A k \in 1 .. Len(trail) - 1 : trail[k].doing = "children"
  /\ \A k \in 1 .. Len(trail) : \A c \in trail[k].todo : c \in Graph!Nodes /\ L[c] = 0
  /\ trail[1].todo \subseteq {blocks[1]} /\ (blocks[1] \in trail[1].todo \/ L[blocks[1]] # 0)
  /\ \A b \in Graph!Nodes : L[b] # 0 => L[b] = Exit(b) \/ Busy(b)
  /\ \A d \in Graph!Nodes : Passed(L, d) =>
       \A c \in Graph!Children(d) :
         L[c] # 0 \/ \E k \in 2 .. Len(trail) : trail[k].block = d /\ c \in trail[k].todo

(* A stack has the number that holds where each call is.                   *)
Stacked(N, H, v) ==
  /\ H \in [1 .. Len(trail) -> Nat] /\ H[1] = 0 /\ H[Len(trail)] = Len(stacks[v])
  /\ \A k \in 1 .. Len(trail) - 1 : H[k + 1] = H[k] + trail[k + 1].pushed[v]
  /\ \A k, l \in 1 .. Len(trail) : k <= l => H[k] <= H[l]
  /\ \A k \in 2 .. Len(trail) :
       N[trail[k].block][trail[k].at] = IF H[k] = 0 THEN NoNumber ELSE stacks[v][H[k]]

Names(L, N, H, v) ==
  /\ Typed(L, N, v) /\ Along(L, N, v) /\ Entered(L, N, v) /\ Handed(L, N, v)
  /\ Walked(L) /\ Stacked(N, H, v)

NamesInv == phase = "numbering" => \A v \in Vars : Sound(v) => \E L, N, H : Names(L, N, H, v)

Alike(r, s) == r.block = s.block /\ r.doing = s.doing /\ r.at = s.at /\ r.pushed = s.pushed

Midway(L, N, H, v) ==
  /\ DomInv /\ NumberInv /\ Graph!Settled /\ PhiInv /\ Sound(v) /\ Names(L, N, H, v)

(* What the steps of indexVars do to a plain variable. *)
Enters(v, n, b) ==
  /\ n \in Nat \ {0} /\ trail[n].doing = "children"
  /\ UNCHANGED <<flow, doms, phase, uses, gens>>
  /\ Len(trail') = n + 1
  /\ \A k \in 1 .. n :
       /\ Alike(trail'[k], trail[k])
       /\ trail'[k].todo = IF k = n THEN trail[k].todo \ {b} ELSE trail[k].todo
  /\ trail'[n + 1].block = b /\ trail'[n + 1].doing = "elements"
  /\ trail'[n + 1].at = 1 /\ trail'[n + 1].todo = {}
  /\ trail'[n + 1].pushed[v] = IF <<b, v>> \in DOMAIN phis THEN 1 ELSE 0
  /\ IF <<b, v>> \in DOMAIN phis
     THEN stacks'[v] = Append(stacks[v], counters[v]) /\ counters'[v] = counters[v] + 1
     ELSE stacks'[v] = stacks[v] /\ counters'[v] = counters[v]
  /\ DOMAIN phis' = DOMAIN phis
  /\ \A p \in DOMAIN phis :
       /\ DOMAIN phis'[p] = {"gen", "args"} /\ phis'[p].args = phis[p].args
       /\ phis'[p].gen = IF p[1] = b THEN counters[p[2]] ELSE phis[p].gen

LEMMA indexVarsDoes ==
  ASSUME NEW v \in Vars, NEW L, NEW N, NEW H, Midway(L, N, H, v), indexVars,
         NEW n, n = Len(trail)
  PROVE  \E b \in trail[n].todo : Enters(v, n, b)
<1>1. TrailInv /\ phase = "numbering"
  BY DEF indexVars, Indexing, Midway, NumberInv
<1>2. /\ IsSeq(trail) /\ n \in Nat \ {0} /\ Last(trail) = trail[n]
      /\ \A k \in 1 .. n : IsVisit(trail[k])
  BY <1>1, TrailFacts
<1>3. PICK b, here :
        /\ b = Foremost(trail[n].todo) /\ trail[n].todo # {} /\ trail[n].doing = "children"
        /\ here = {w \in Vars : <<b, w>> \in DOMAIN phis}
        /\ stacks' = Pushed(here) /\ counters' = Advanced(here)
        /\ phis' = [p \in DOMAIN phis |-> IF p[1] = b THEN [phis[p] EXCEPT !.gen = counters[p[2]]]
                                          ELSE phis[p]]
        /\ trail' = Append([trail EXCEPT ![n].todo = @ \ {b}],
                           Visit(b, "elements", Pushes(NoPushes, here), {}))
        /\ UNCHANGED <<flow, doms, phase, uses, gens>>
  BY <1>2 DEF indexVars, Indexing
<1>4. b \in trail[n].todo
  <2>1. FlowInv /\ Len(blocks) # 0
    BY <1>1 DEF Midway, DomInv, VectorInv
  <2>2. trail[n].todo \subseteq Graph!Nodes
    BY <1>2 DEF Midway, Names, Walked
  <2> QED
    BY <1>3, <2>1, <2>2, ForemostIs
<1> DEFINE last == [trail[n] EXCEPT !.todo = @ \ {b}]
           new == Visit(b, "elements", Pushes(NoPushes, here), {})
<1>5. Alike(last, trail[n]) /\ last.todo = trail[n].todo \ {b}
  BY <1>2 DEF IsVisit, Alike
<1>6. /\ new.block = b /\ new.doing = "elements" /\ new.at = 1 /\ new.todo = {}
      /\ new.pushed[v] = IF v \in here THEN 1 ELSE 0
  BY DEF Visit, Pushes, NoPushes
<1>7. trail' = Append(Put(trail, n, last), new)
  BY <1>3 DEF Put
<1> HIDE DEF last, new
<1>8. /\ Len(trail') = n + 1 /\ trail'[n + 1] = new
      /\ \A k \in 1 .. n : trail'[k] = IF k = n THEN last ELSE trail[k]
  <2>1. IsSeq(Put(trail, n, last)) /\ Len(Put(trail, n, last)) = n
        /\ \A k \in 1 .. n : Put(trail, n, last)[k] = IF k = n THEN last ELSE trail[k]
    BY <1>2, PutKeeps
  <2> QED
    BY <1>7, <2>1, Appended
<1>9. \A k \in 1 .. n : /\ Alike(trail'[k], trail[k])
                        /\ trail'[k].todo = IF k = n THEN trail[k].todo \ {b} ELSE trail[k].todo
  BY <1>5, <1>8 DEF Alike
<1>10. v \in here <=> <<b, v>> \in DOMAIN phis
  BY <1>3
<1>11. IF <<b, v>> \in DOMAIN phis
       THEN stacks'[v] = Append(stacks[v], counters[v]) /\ counters'[v] = counters[v] + 1
       ELSE stacks'[v] = stacks[v] /\ counters'[v] = counters[v]
  BY <1>3, <1>10 DEF Pushed, Advanced
<1>12. \A p \in DOMAIN phis :
         /\ DOMAIN phis'[p] = {"gen", "args"} /\ phis'[p].args = phis[p].args
         /\ phis'[p].gen = IF p[1] = b THEN counters[p[2]] ELSE phis[p].gen
  <2>1. \A p \in DOMAIN phis : DOMAIN phis[p] = {"gen", "args"}
    BY DEF Midway, PhiInv
  <2> QED
    BY <1>3, <2>1
<1>13. Enters(v, n, b)
  BY <1>2, <1>3, <1>6, <1>8, <1>9, <1>10, <1>11, <1>12 DEF Enters
<1> QED
  BY <1>4, <1>13

LEMMA OverIs ==
  \A new, old, x :
    /\ x \in DOMAIN new => x \in DOMAIN Over(new, old) /\ Over(new, old)[x] = new[x]
    /\ x \in DOMAIN old => x \in DOMAIN Over(new, old) /\ (x \notin DOMAIN new => Over(new, old)[x] = old[x])
BY DEF Over

LEMMA numberElementDoes ==
  ASSUME NEW v \in Vars, NEW L, NEW N, NEW H, Midway(L, N, H, v), numberElement,
         NEW n, n = Len(trail), NEW b, b = trail[n].block, NEW e, e = content[b][trail[n].at]
  PROVE  /\ n \in Nat /\ n >= 2 /\ trail[n].doing = "elements" /\ trail[n].at <= Len(content[b])
         /\ UNCHANGED <<flow, doms, phis>>
         /\ Len(trail') = n
         /\ \A k \in 1 .. n :
              /\ trail'[k].block = trail[k].block /\ trail'[k].doing = trail[k].doing
              /\ trail'[k].todo = trail[k].todo
              /\ trail'[k].at = IF k = n THEN trail[k].at + 1 ELSE trail[k].at
              /\ trail'[k].pushed[v] = IF k = n /\ Numbered(e) = v THEN trail[k].pushed[v] + 1
                                       ELSE trail[k].pushed[v]
         /\ IF Numbered(e) = v
            THEN /\ stacks'[v] = Append(stacks[v], counters[v]) /\ counters'[v] = counters[v] + 1
                 /\ e \in DOMAIN gens' /\ gens'[e] = counters[v]
            ELSE stacks'[v] = stacks[v] /\ counters'[v] = counters[v]
         /\ \A g \in DOMAIN gens : g \in DOMAIN gens' /\ (g # e => gens'[g] = gens[g])
         /\ v \in Uses(prog, e) => <<e, v>> \in DOMAIN uses' /\ uses'[<<e, v>>] = Top(stacks[v])
         /\ \A u \in DOMAIN uses : u \in DOMAIN uses' /\ (u[1] # e => uses'[u] = uses[u])
         /\ phase' = "numbering" /\ v \in Uses(prog, e) => stacks[v] # <<>>
<1>1. TrailInv /\ phase = "numbering"
  BY DEF numberElement, Indexing, Midway, NumberInv
<1>2. /\ IsSeq(trail) /\ n \in Nat \ {0} /\ Last(trail) = trail[n]
      /\ \A k \in 1 .. n : IsVisit(trail[k])
  BY <1>1, TrailFacts
<1>3. PICK read, given :
        /\ read = Uses(prog, e) /\ given = {Numbered(e)} \ {None}
        /\ trail[n].doing = "elements" /\ trail[n].at <= Len(content[b])
        /\ uses' = Over([u \in {<<e, w>> : w \in read} |-> Top(stacks[u[2]])], uses)
        /\ stacks' = Pushed(given) /\ counters' = Advanced(given)
        /\ gens' = Over([g \in {e : w \in given} |-> counters[Numbered(g)]], gens)
        /\ trail' = [trail EXCEPT ![n].at = @ + 1, ![n].pushed = Pushes(@, given)]
        /\ phase' = IF \A w \in read : stacks[w] # <<>> THEN "numbering" ELSE "undefined"
        /\ UNCHANGED <<flow, doms, phis>>
  BY <1>2, ZenonT(60) DEF numberElement, Indexing
<1>4. v \in given <=> Numbered(e) = v
  BY <1>3, DataAssumption
<1>5. n >= 2
  <2>1. n # 1
    BY <1>1, <1>3 DEF TrailInv
  <2> QED
    BY <1>2, <2>1
<1> DEFINE last == [trail[n] EXCEPT !.at = @ + 1, !.pushed = Pushes(@, given)]
<1>6. /\ last.block = trail[n].block /\ last.doing = trail[n].doing /\ last.todo = trail[n].todo
      /\ last.at = trail[n].at + 1
      /\ last.pushed[v] = trail[n].pushed[v] + IF v \in given THEN 1 ELSE 0
  BY <1>2 DEF IsVisit, Pushes
<1>7. trail' = Put(trail, n, last)
  BY <1>3 DEF Put
<1> HIDE DEF last
<1>8. /\ Len(trail') = n
      /\ \A k \in 1 .. n : trail'[k] = IF k = n THEN last ELSE trail[k]
  BY <1>2, <1>7, PutKeeps
<1>9. trail[n].pushed[v] \in Nat
  BY <1>2 DEF IsVisit
<1>10. \A k \in 1 .. n :
         /\ trail'[k].block = trail[k].block /\ trail'[k].doing = trail[k].doing
         /\ trail'[k].todo = trail[k].todo
         /\ trail'[k].at = IF k = n THEN trail[k].at + 1 ELSE trail[k].at
         /\ trail'[k].pushed[v] = IF k = n /\ Numbered(e) = v THEN trail[k].pushed[v] + 1
                                  ELSE trail[k].pushed[v]
  BY <1>4, <1>6, <1>8, <1>9
<1>11. IF Numbered(e) = v
       THEN stacks'[v] = Append(stacks[v], counters[v]) /\ counters'[v] = counters[v] + 1
       ELSE stacks'[v] = stacks[v] /\ counters'[v] = counters[v]
  BY <1>3, <1>4 DEF Pushed, Advanced
<1>12. /\ Numbered(e) = v => e \in DOMAIN gens' /\ gens'[e] = counters[v]
       /\ \A g \in DOMAIN gens : g \in DOMAIN gens' /\ (g # e => gens'[g] = gens[g])
  <2> DEFINE new == [g \in {e : w \in given} |-> counters[Numbered(g)]]
  <2>1. /\ \A g \in DOMAIN new : g = e /\ new[g] = counters[Numbered(e)]
        /\ Numbered(e) = v => e \in DOMAIN new
    BY <1>4
  <2>2. gens' = Over(new, gens)
    BY <1>3
  <2> HIDE DEF new
  <2> QED
    BY <2>1, <2>2, OverIs
<1>13. /\ v \in Uses(prog, e) => <<e, v>> \in DOMAIN uses' /\ uses'[<<e, v>>] = Top(stacks[v])
       /\ \A u \in DOMAIN uses : u \in DOMAIN uses' /\ (u[1] # e => uses'[u] = uses[u])
  <2> DEFINE new == [u \in {<<e, w>> : w \in read} |-> Top(stacks[u[2]])]
  <2> DEFINE keys == {<<e, w>> : w \in read}
  <2>3. DOMAIN new = keys /\ \A u \in keys : new[u] = Top(stacks[u[2]])
    OBVIOUS
  <2>4. \A u \in keys : u[1] = e
    OBVIOUS
  <2>5. v \in Uses(prog, e) => <<e, v>> \in keys
    BY <1>3
  <2>6. <<e, v>>[2] = v
    OBVIOUS
  <2> HIDE DEF keys
  <2>1. /\ \A u \in DOMAIN new : u[1] = e
        /\ v \in Uses(prog, e) => <<e, v>> \in DOMAIN new /\ new[<<e, v>>] = Top(stacks[v])
    <3> HIDE DEF new
    <3>1. v \in Uses(prog, e) => new[<<e, v>>] = Top(stacks[v])
      BY <2>3, <2>5, <2>6
    <3> QED
      BY <2>3, <2>4, <2>5, <3>1
  <2>2. uses' = Over(new, uses)
    BY <1>3
  <2> HIDE DEF new
  <2> QED
    BY <2>1, <2>2, OverIs
<1>14. phase' = "numbering" /\ v \in Uses(prog, e) => stacks[v] # <<>>
  BY <1>3
<1> QED
  BY <1>2, <1>3, <1>5, <1>8, <1>10, <1>11, <1>12, <1>13, <1>14

LEMMA passOnDoes ==
  ASSUME NEW v \in Vars, NEW L, NEW N, NEW H, Midway(L, N, H, v), passOn,
         NEW n, n = Len(trail), NEW b, b = trail[n].block, b \in Graph!Nodes
  PROVE  /\ n \in Nat /\ n >= 2 /\ trail[n].doing = "elements" /\ trail[n].at > Len(content[b])
         /\ UNCHANGED <<flow, doms, phase, counters, stacks, uses, gens>>
         /\ Len(trail') = n
         /\ \A k \in 1 .. n :
              /\ trail'[k].block = trail[k].block /\ trail'[k].at = trail[k].at
              /\ trail'[k].pushed = trail[k].pushed
              /\ trail'[k].doing = IF k = n THEN "children" ELSE trail[k].doing
              /\ trail'[k].todo = IF k = n THEN Graph!Children(b) ELSE trail[k].todo
         /\ DOMAIN phis' \subseteq DOMAIN phis
         /\ \A p \in DOMAIN phis' :
              /\ DOMAIN phis'[p] = {"gen", "args"} /\ phis'[p].gen = phis[p].gen
              /\ \A q \in DOMAIN phis[p].args :
                   q \in DOMAIN phis'[p].args /\ (q # b => phis'[p].args[q] = phis[p].args[q])
         /\ \A s \in Graph!Successors(b) :
              <<s, v>> \in DOMAIN phis' =>
                /\ stacks[v] # <<>>
                /\ b \in DOMAIN phis'[<<s, v>>].args /\ phis'[<<s, v>>].args[b] = Last(stacks[v])
<1>1. TrailInv /\ phase = "numbering"
  BY DEF passOn, Indexing, Midway, NumberInv
<1>2. /\ IsSeq(trail) /\ n \in Nat \ {0} /\ Last(trail) = trail[n]
      /\ \A k \in 1 .. n : IsVisit(trail[k])
  BY <1>1, TrailFacts
<1>3. /\ trail[n].doing = "elements" /\ trail[n].at > Len(content[b])
      /\ phis' = PassOn(b)
      /\ trail' = [trail EXCEPT ![n].doing = "children", ![n].todo = Graph!Children(b)]
      /\ UNCHANGED <<flow, doms, phase, counters, stacks, uses, gens>>
  BY <1>2 DEF passOn, Indexing
<1>4. n >= 2
  <2>1. n # 1
    BY <1>1, <1>3 DEF TrailInv
  <2> QED
    BY <1>2, <2>1
<1> DEFINE last == [trail[n] EXCEPT !.doing = "children", !.todo = Graph!Children(b)]
<1>5. /\ last.block = trail[n].block /\ last.at = trail[n].at /\ last.pushed = trail[n].pushed
      /\ last.doing = "children" /\ last.todo = Graph!Children(b)
  BY <1>2 DEF IsVisit
<1>6. trail' = Put(trail, n, last)
  BY <1>3 DEF Put
<1> HIDE DEF last
<1>7. Len(trail') = n /\ \A k \in 1 .. n : trail'[k] = IF k = n THEN last ELSE trail[k]
  BY <1>2, <1>6, PutKeeps
<1>8. PICK meant, dropped :
        /\ meant = {p \in DOMAIN phis : p[1] \in Range(succ[b]) /\
                                        isVisible(p[2], ParentBlock(content[b][1]))}
        /\ dropped = {p \in meant : stacks[p[2]] = <<>>}
        /\ phis' = [p \in DOMAIN phis \ dropped |->
                      IF p \in meant
                      THEN [phis[p] EXCEPT !.args = Over([q \in {b} |-> Last(stacks[p[2]])], @)]
                      ELSE phis[p]]
  BY <1>3 DEF PassOn
<1>9. \A p \in DOMAIN phis : DOMAIN phis[p] = {"gen", "args"}
  BY DEF Midway, PhiInv
<1>10. ASSUME NEW p \in DOMAIN phis'
       PROVE  /\ DOMAIN phis'[p] = {"gen", "args"} /\ phis'[p].gen = phis[p].gen
              /\ phis'[p].args = IF p \in meant THEN Over([q \in {b} |-> Last(stacks[p[2]])], phis[p].args)
                                 ELSE phis[p].args
  BY <1>8, <1>9
<1>11. ASSUME NEW p \in DOMAIN phis', NEW q \in DOMAIN phis[p].args
       PROVE  q \in DOMAIN phis'[p].args /\ (q # b => phis'[p].args[q] = phis[p].args[q])
  <2> DEFINE new == [r \in {b} |-> Last(stacks[p[2]])]
  <2>1. DOMAIN new = {b}
    OBVIOUS
  <2>2. phis'[p].args = Over(new, phis[p].args) \/ phis'[p].args = phis[p].args
    BY <1>10
  <2> HIDE DEF new
  <2> QED
    BY <2>1, <2>2, OverIs
<1>12. ASSUME NEW s \in Graph!Successors(b), <<s, v>> \in DOMAIN phis'
       PROVE  /\ stacks[v] # <<>>
              /\ b \in DOMAIN phis'[<<s, v>>].args /\ phis'[<<s, v>>].args[b] = Last(stacks[v])
  <2>1. isVisible(v, ParentBlock(content[b][1]))
    BY DEF Midway, Sound, Plain
  <2>2. s \in Range(succ[b])
    BY DEF Graph!Successors, Range
  <2>3. <<s, v>> \in meant /\ <<s, v>> \notin dropped
    BY <1>8, <1>12, <2>1, <2>2
  <2>4. stacks[v] # <<>>
    BY <1>8, <2>3
  <2> DEFINE new == [q \in {b} |-> Last(stacks[v])]
  <2>5. phis'[<<s, v>>].args = Over(new, phis[<<s, v>>].args)
    BY <1>10, <1>12, <2>3
  <2>6. b \in DOMAIN new /\ new[b] = Last(stacks[v])
    OBVIOUS
  <2> HIDE DEF new
  <2> QED
    BY <2>4, <2>5, <2>6, OverIs
<1>13. \A k \in 1 .. n :
         /\ trail'[k].block = trail[k].block /\ trail'[k].at = trail[k].at
         /\ trail'[k].pushed = trail[k].pushed
         /\ trail'[k].doing = IF k = n THEN "children" ELSE trail[k].doing
         /\ trail'[k].todo = IF k = n THEN Graph!Children(b) ELSE trail[k].todo
  BY <1>5, <1>7
<1>14. DOMAIN phis' \subseteq DOMAIN phis
  BY <1>8
<1>15. n \in Nat
  BY <1>2
<1>16. \A p \in DOMAIN phis' :
         /\ DOMAIN phis'[p] = {"gen", "args"} /\ phis'[p].gen = phis[p].gen
         /\ \A q \in DOMAIN phis[p].args :
              q \in DOMAIN phis'[p].args /\ (q # b => phis'[p].args[q] = phis[p].args[q])
  BY <1>10, <1>11
<1> QED
  BY <1>3, <1>4, <1>7, <1>12, <1>13, <1>14, <1>15, <1>16

LEMMA popNumbersDoes ==
  ASSUME NEW v \in Vars, NEW L, NEW N, NEW H, Midway(L, N, H, v), popNumbers,
         NEW n, n = Len(trail)
  PROVE  /\ n \in Nat /\ n >= 2 /\ trail[n].doing = "children" /\ trail[n].todo = {}
         /\ UNCHANGED <<flow, doms, phase, phis, counters, uses, gens>>
         /\ Len(trail') = n - 1 /\ \A k \in 1 .. n - 1 : trail'[k] = trail[k]
         /\ stacks'[v] = SubSeq(stacks[v], 1, Len(stacks[v]) - trail[n].pushed[v])
<1>1. TrailInv /\ phase = "numbering"
  BY DEF popNumbers, Indexing, Midway, NumberInv
<1>2. /\ IsSeq(trail) /\ n \in Nat \ {0} /\ Last(trail) = trail[n]
  BY <1>1, TrailFacts
<1>3. /\ trail[n].doing = "children" /\ trail[n].todo = {} /\ n > 1 /\ trail' = Front(trail)
      /\ stacks' = [w \in Vars |-> Popped(stacks[w], trail[n].pushed[w])]
      /\ UNCHANGED <<flow, doms, phase, phis, counters, uses, gens>>
  BY <1>2 DEF popNumbers, Indexing
<1>4. Len(trail') = n - 1 /\ \A k \in 1 .. n - 1 : trail'[k] = trail[k]
  BY <1>2, <1>3, Fronted
<1>5. n >= 2
  BY <1>2, <1>3
<1>6. stacks'[v] = SubSeq(stacks[v], 1, Len(stacks[v]) - trail[n].pushed[v])
  BY <1>3 DEF Popped
<1> QED
  BY <1>2, <1>3, <1>4, <1>5, <1>6

LEMMA NamesStay ==
  ASSUME UNCHANGED <<flow, doms>>
  PROVE  /\ Graph!Nodes' = Graph!Nodes /\ blocks' = blocks /\ content' = content
         /\ \A b : /\ Graph!Idoms(b)' = Graph!Idoms(b) /\ Graph!Children(b)' = Graph!Children(b)
                   /\ Graph!Successors(b)' = Graph!Successors(b)
                   /\ Exit(b)' = Exit(b)
         /\ \A e : Numbered(e)' = Numbered(e) /\ Uses(prog, e)' = Uses(prog, e)
BY TreeStays, CodeStays DEF flow, Exit

LEMMA SoundStays ==
  ASSUME UNCHANGED <<flow, doms>>, DOMAIN phis' \subseteq DOMAIN phis, NEW v \in Vars, Sound(v)'
  PROVE  Sound(v) /\ (PhiInv => \A b : <<b, v>> \in DOMAIN phis => <<b, v>> \in DOMAIN phis')
<1>1. /\ Graph!Nodes' = Graph!Nodes /\ Connected' = Connected /\ EachOnce' = EachOnce
      /\ blocks' = blocks /\ content' = content
      /\ \A d, b : Ends(d, b)' = Ends(d, b)
      /\ \A w, path : isVisible(w, path)' = isVisible(w, path)
      /\ \A e : Generator(e)' = Generator(e) /\ Declaration(e)' = Declaration(e) /\ Def(prog, e)' = Def(prog, e)
      /\ AssignedIn(v)' = AssignedIn(v)
  BY TreeStays, CodeStays DEF flow
<1>2. Plain(v)' = Plain(v)
  BY <1>1 DEF Plain
<1>3. Kept(v)
  BY <1>1 DEF Sound, Kept
<1>4. ASSUME PhiInv, NEW b, <<b, v>> \in DOMAIN phis
      PROVE  <<b, v>> \in DOMAIN phis'
  <2>1. b \in Graph!Nodes /\ Connected
    BY <1>1, <1>4 DEF PhiInv, Sound
  <2>2. PICK d \in AssignedIn(v) : Ends(d, b)
    BY <1>4, <2>1 DEF PhiInv
  <2> QED
    BY <1>1, <2>1, <2>2 DEF Sound, Kept
<1> QED
  BY <1>1, <1>2, <1>3, <1>4 DEF Sound

LEMMA popNumbersNames ==
  ASSUME NEW v \in Vars, NEW L, NEW N, NEW H, Midway(L, N, H, v), popNumbers
  PROVE  \E H2 : Names(L, N, H2, v)'
<1>1. PICK n : n = Len(trail)
  OBVIOUS
<1>2. /\ n \in Nat /\ n >= 2 /\ trail[n].doing = "children" /\ trail[n].todo = {}
      /\ UNCHANGED <<flow, doms, phase, phis, counters, uses, gens>>
      /\ Len(trail') = n - 1 /\ \A k \in 1 .. n - 1 : trail'[k] = trail[k]
      /\ stacks'[v] = SubSeq(stacks[v], 1, Len(stacks[v]) - trail[n].pushed[v])
  BY <1>1, popNumbersDoes
<1>3. /\ Graph!Nodes' = Graph!Nodes /\ blocks' = blocks /\ content' = content
      /\ \A b : /\ Graph!Idoms(b)' = Graph!Idoms(b) /\ Graph!Children(b)' = Graph!Children(b)
                /\ Graph!Successors(b)' = Graph!Successors(b)
                /\ Exit(b)' = Exit(b)
      /\ \A e : Numbered(e)' = Numbered(e) /\ Uses(prog, e)' = Uses(prog, e)
  BY <1>2, NamesStay
<1>4. Names(L, N, H, v)
  BY DEF Midway
<1>5. /\ n - 1 \in 1 .. n - 1 /\ n \in 2 .. n /\ 1 \in 1 .. n - 1
      /\ \A k \in 1 .. n - 1 : k \in 1 .. n
      /\ \A k \in 2 .. n - 1 : k \in 1 .. n - 1 /\ k \in 2 .. n
  BY <1>2
<1>6. trail[n - 1].doing = "children"
  BY <1>1, <1>4, <1>5 DEF Names, Walked
<1>7. \A b : ~Busy(b) /\ ~Busy(b)'
  BY <1>1, <1>2, <1>5, <1>6 DEF Busy, Last
<1>8. \A b : Passed(L, b)' = Passed(L, b)
  BY <1>3, <1>7 DEF Passed
<1>9. Typed(L, N, v)'
  BY <1>2, <1>3, <1>4 DEF Names, Typed
<1>10. Along(L, N, v)'
  BY <1>2, <1>3, <1>4 DEF Names, Along
<1>11. Entered(L, N, v)'
  BY <1>2, <1>3, <1>4, <1>8 DEF Names, Entered
<1>12. Handed(L, N, v)'
  BY <1>2, <1>3, <1>4, <1>8 DEF Names, Handed
<1>13. Walked(L)'
  <2>1. Walked(L)
    BY <1>4 DEF Names
  <2>2. \A k \in 2 .. n - 1 : Visiting(L, trail[k])'
    <3>1. \A r : Visiting(L, r)' <=> Visiting(L, r)
      BY <1>3 DEF Visiting
    <3>2. \A k \in 2 .. n - 1 : trail'[k] = trail[k] /\ Visiting(L, trail[k])
      BY <1>1, <1>2, <1>5, <2>1 DEF Walked
    <3> QED
      BY <1>3, <3>2 DEF Visiting
  <2>8. \A k, l \in 2 .. n - 1 : trail'[k].block = trail'[l].block => k = l
    BY <1>1, <1>2, <1>5, <2>1 DEF Walked
  <2>3. \A k \in 1 .. n - 1 - 1 : trail'[k].doing = "children"
    <3>1. \A k \in 1 .. n - 1 - 1 : k \in 1 .. n - 1
      BY <1>2
    <3> QED
      BY <1>1, <1>2, <3>1, <2>1 DEF Walked
  <2>4. \A k \in 1 .. n - 1 : \A c \in trail'[k].todo : c \in Graph!Nodes /\ L[c] = 0
    BY <1>1, <1>2, <1>5, <2>1 DEF Walked
  <2>5. trail'[1].todo \subseteq {blocks[1]} /\ (blocks[1] \in trail'[1].todo \/ L[blocks[1]] # 0)
    BY <1>1, <1>2, <1>5, <2>1 DEF Walked
  <2>6. \A b \in Graph!Nodes : L[b] # 0 => L[b] = Exit(b)
    BY <1>7, <2>1 DEF Walked
  <2>7. ASSUME NEW d \in Graph!Nodes, Passed(L, d), NEW c \in Graph!Children(d), L[c] = 0
        PROVE  \E k \in 2 .. n - 1 : trail'[k].block = d /\ c \in trail'[k].todo
    <3>1. PICK k \in 2 .. n : trail[k].block = d /\ c \in trail[k].todo
      BY <1>1, <2>1, <2>7 DEF Walked
    <3>2. k # n
      BY <1>2, <3>1
    <3>3. k \in 2 .. n - 1
      BY <1>2, <3>2
    <3> QED
      BY <1>2, <1>5, <3>1, <3>3
  <2> QED
    BY <1>2, <1>3, <1>8, <2>2, <2>3, <2>4, <2>5, <2>6, <2>7, <2>8 DEF Walked
<1>14. PICK H2 : H2 = [k \in 1 .. n - 1 |-> H[k]]
  OBVIOUS
<1>15. Stacked(N, H2, v)'
  <2>1. /\ H \in [1 .. n -> Nat] /\ H[1] = 0 /\ H[n] = Len(stacks[v])
        /\ \A k \in 1 .. n - 1 : H[k + 1] = H[k] + trail[k + 1].pushed[v]
        /\ \A k, l \in 1 .. n : k <= l => H[k] <= H[l]
        /\ \A k \in 2 .. n :
             N[trail[k].block][trail[k].at] = IF H[k] = 0 THEN NoNumber ELSE stacks[v][H[k]]
    BY <1>1, <1>4 DEF Names, Stacked
  <2>2. H[n - 1] \in Nat /\ H[n] = H[n - 1] + trail[n].pushed[v] /\ H[n] \in Nat
    <3>1. n - 1 + 1 = n
      BY <1>2
    <3> QED
      BY <1>5, <2>1, <3>1
  <2>3. trail[n].pushed[v] \in Nat /\ stacks[v] \in Seq(Nat)
    <3>1. TrailInv /\ CountInv
      BY DEF Midway, NumberInv, popNumbers, Indexing
    <3> QED
      BY <1>1, <1>5, <3>1, TrailFacts DEF IsVisit, CountInv
  <2>4. Len(stacks[v]) - trail[n].pushed[v] = H[n - 1]
    BY <2>1, <2>2, <2>3
  <2>5. H[n - 1] \in 0 .. Len(stacks[v])
    BY <2>1, <2>2, <2>3
  <2>6. Len(stacks'[v]) = H[n - 1] /\ \A i \in 1 .. H[n - 1] : stacks'[v][i] = stacks[v][i]
    BY <1>2, <2>3, <2>4, <2>5, SMTT(30)
  <2>7. \A k \in 1 .. n - 1 : H2[k] = H[k] /\ H[k] <= H[n - 1] /\ H[k] \in Nat
    <3>1. \A k \in 1 .. n - 1 : k \in 1 .. n /\ n - 1 \in 1 .. n /\ k <= n - 1
      BY <1>2
    <3> QED
      BY <1>14, <2>1, <3>1
  <2>8. \A k \in 2 .. n - 1 :
          N[trail'[k].block][trail'[k].at] = IF H2[k] = 0 THEN NoNumber ELSE stacks'[v][H2[k]]
    <3> TAKE k \in 2 .. n - 1
    <3>1. H2[k] = H[k] /\ H[k] <= H[n - 1] /\ H[k] \in Nat /\ trail'[k] = trail[k]
      BY <1>2, <1>5, <2>7
    <3>2. H[k] = 0 \/ stacks'[v][H[k]] = stacks[v][H[k]]
      BY <2>2, <2>6, <3>1
    <3> QED
      BY <1>5, <2>1, <3>1, <3>2
  <2>9. \A k \in 1 .. n - 1 - 1 : H2[k + 1] = H2[k] + trail'[k + 1].pushed[v]
    <3>1. \A k \in 1 .. n - 1 - 1 : k \in 1 .. n - 1 /\ k + 1 \in 1 .. n - 1
      BY <1>2
    <3> QED
      BY <1>2, <2>1, <2>7, <3>1
  <2>10. \A k, l \in 1 .. n - 1 : k <= l => H2[k] <= H2[l]
    BY <1>5, <2>1, <2>7
  <2>11. H2 \in [1 .. n - 1 -> Nat] /\ H2[1] = 0 /\ H2[n - 1] = Len(stacks'[v])
    BY <1>5, <1>14, <2>1, <2>6, <2>7
  <2> QED
    BY <1>2, <2>8, <2>9, <2>10, <2>11 DEF Stacked
<1> QED
  BY <1>9, <1>10, <1>11, <1>12, <1>13, <1>15 DEF Names

LEMMA VectorsFilled ==
  ASSUME VectorInv, NEW b \in Graph!Nodes
  PROVE  Len(content[b]) \in Nat \ {0} /\ DOMAIN content[b] = 1 .. Len(content[b])
BY FilledFacts DEF Graph!Nodes, Range

LEMMA passOnNames ==
  ASSUME NEW v \in Vars, NEW L, NEW N, NEW H, Midway(L, N, H, v), passOn, Sound(v)'
  PROVE  Names(L, N, H, v)'
<1>1. PICK n, b : n = Len(trail) /\ b = trail[n].block
  OBVIOUS
<1>2. Names(L, N, H, v) /\ Walked(L)
  BY DEF Midway, Names
<1>3. trail[n].doing = "elements" /\ n \in Nat /\ n >= 2
  <2>1. TrailInv /\ phase = "numbering"
    BY DEF passOn, Indexing, Midway, NumberInv
  <2>2. n \in Nat \ {0} /\ Last(trail) = trail[n]
    BY <1>1, <2>1, TrailFacts
  <2>3. trail[n].doing = "elements" /\ n # 1
    BY <2>1, <2>2 DEF passOn, Indexing, TrailInv
  <2> QED
    BY <2>2, <2>3
<1>4. n \in 2 .. n /\ \A k \in 2 .. n : k \in 1 .. n
  BY <1>3
<1>5. Visiting(L, trail[n]) /\ b \in Graph!Nodes
  BY <1>1, <1>2, <1>4 DEF Walked, Visiting
<1>6. /\ trail[n].at > Len(content[b])
      /\ UNCHANGED <<flow, doms, phase, counters, stacks, uses, gens>>
      /\ Len(trail') = n
      /\ \A k \in 1 .. n :
           /\ trail'[k].block = trail[k].block /\ trail'[k].at = trail[k].at
           /\ trail'[k].pushed = trail[k].pushed
           /\ trail'[k].doing = IF k = n THEN "children" ELSE trail[k].doing
           /\ trail'[k].todo = IF k = n THEN Graph!Children(b) ELSE trail[k].todo
      /\ DOMAIN phis' \subseteq DOMAIN phis
      /\ \A p \in DOMAIN phis' :
           /\ DOMAIN phis'[p] = {"gen", "args"} /\ phis'[p].gen = phis[p].gen
           /\ \A q \in DOMAIN phis[p].args :
                q \in DOMAIN phis'[p].args /\ (q # b => phis'[p].args[q] = phis[p].args[q])
      /\ \A s \in Graph!Successors(b) :
           <<s, v>> \in DOMAIN phis' =>
             /\ stacks[v] # <<>>
             /\ b \in DOMAIN phis'[<<s, v>>].args /\ phis'[<<s, v>>].args[b] = Last(stacks[v])
  BY <1>1, <1>5, passOnDoes
<1>7. /\ Graph!Nodes' = Graph!Nodes /\ blocks' = blocks /\ content' = content
      /\ \A x : /\ Graph!Idoms(x)' = Graph!Idoms(x) /\ Graph!Children(x)' = Graph!Children(x)
                /\ Graph!Successors(x)' = Graph!Successors(x)
                /\ Exit(x)' = Exit(x)
      /\ \A e : Numbered(e)' = Numbered(e) /\ Uses(prog, e)' = Uses(prog, e)
  BY <1>6, NamesStay
<1>8. \A x : <<x, v>> \in DOMAIN phis => <<x, v>> \in DOMAIN phis'
  BY <1>6, SoundStays DEF Midway
<1>9. L[b] = Exit(b) /\ trail[n].at = Exit(b)
  <2>1. Len(content[b]) \in Nat
    BY <1>5, VectorsFilled DEF Midway, DomInv
  <2>2. L[b] \in Nat /\ L[b] <= Exit(b) /\ trail[n].at = L[b]
    BY <1>1, <1>2, <1>5 DEF Names, Typed, Visiting
  <2> QED
    BY <1>6, <2>1, <2>2 DEF Exit
<1>10. \A x : (Busy(x) <=> x = b) /\ ~Busy(x)'
  BY <1>1, <1>3, <1>4, <1>6 DEF Busy, Last
<1>11. \A x : Passed(L, x)' <=> Passed(L, x) \/ x = b
  BY <1>7, <1>9, <1>10 DEF Passed
<1>12. Typed(L, N, v)'
  BY <1>2, <1>6, <1>7 DEF Names, Typed
<1>13. Along(L, N, v)'
  BY <1>2, <1>6, <1>7 DEF Names, Along
<1>14. Entered(L, N, v)'
  BY <1>2, <1>6, <1>7, <1>8, <1>11 DEF Names, Entered
<1>15. stacks[v] # <<>> => Last(stacks[v]) = N[b][Exit(b)] /\ N[b][Exit(b)] # NoNumber
  <2>1. stacks[v] \in Seq(Nat)
    BY DEF Midway, NumberInv, CountInv
  <2>2. H[n] = Len(stacks[v]) /\ N[b][Exit(b)] = IF H[n] = 0 THEN NoNumber ELSE stacks[v][H[n]]
    BY <1>1, <1>2, <1>4, <1>9 DEF Names, Stacked
  <2>3. stacks[v] # <<>> => Len(stacks[v]) # 0 /\ stacks[v][Len(stacks[v])] \in Nat
    BY <2>1
  <2> QED
    BY <2>2, <2>3 DEF Last, NoNumber
<1>16. Handed(L, N, v)'
  <2> SUFFICES ASSUME NEW x \in Graph!Nodes, Passed(L, x)', NEW s \in Graph!Successors(x),
                      <<s, v>> \in DOMAIN phis'
               PROVE  /\ x \in DOMAIN phis'[<<s, v>>].args /\ phis'[<<s, v>>].args[x] = N[x][Exit(x)]
                      /\ N[x][Exit(x)] # NoNumber
    BY <1>7 DEF Handed
  <2>1. CASE x = b
    BY <1>6, <1>15, <2>1
  <2>2. CASE x # b
    <3>1. Passed(L, x) /\ <<s, v>> \in DOMAIN phis
      BY <1>6, <1>11, <2>2
    <3>2. /\ x \in DOMAIN phis[<<s, v>>].args /\ phis[<<s, v>>].args[x] = N[x][Exit(x)]
          /\ N[x][Exit(x)] # NoNumber
      BY <1>2, <3>1 DEF Names, Handed
    <3> QED
      BY <1>6, <2>2, <3>2
  <2> QED
    BY <2>1, <2>2
<1>17. Walked(L)'
  <2>1. \A k \in 2 .. n : Visiting(L, trail[k])'
    <3> TAKE k \in 2 .. n
    <3>1. Visiting(L, trail[k]) /\ k \in 1 .. n
      BY <1>1, <1>2, <1>4 DEF Walked
    <3>2. /\ trail'[k].block = trail[k].block /\ trail'[k].at = trail[k].at
          /\ trail'[k].doing = IF k = n THEN "children" ELSE trail[k].doing
          /\ trail'[k].todo = IF k = n THEN Graph!Children(b) ELSE trail[k].todo
      BY <1>6, <3>1
    <3> QED
      BY <1>1, <1>7, <1>9, <3>1, <3>2 DEF Visiting
  <2>2. \A k, l \in 2 .. n : trail'[k].block = trail'[l].block => k = l
    BY <1>1, <1>2, <1>4, <1>6 DEF Walked
  <2>3. \A k \in 1 .. n - 1 : trail'[k].doing = "children"
    <3>1. \A k \in 1 .. n - 1 : k \in 1 .. n /\ k # n
      BY <1>3
    <3>2. \A k \in 1 .. n - 1 : trail[k].doing = "children"
      BY <1>1, <1>2 DEF Walked
    <3>3. \A k \in 1 .. n : trail'[k].doing = IF k = n THEN "children" ELSE trail[k].doing
      BY <1>6
    <3> QED
      BY <3>1, <3>2, <3>3
  <2>4. \A c \in Graph!Children(b) : c \in Graph!Nodes /\ L[c] = 0
    <3>1. \A c \in Graph!Children(b) : c \in Graph!Nodes /\ b \in Graph!Idoms(c)
      <4>1. phase = "numbering" /\ Connected
        BY DEF passOn, Indexing, Midway, Sound
      <4> QED
        BY <1>5, <4>1, TreeFacts DEF Midway
    <3>2. ~Passed(L, b)
      BY <1>10 DEF Passed
    <3> QED
      BY <1>2, <3>1, <3>2 DEF Names, Entered
  <2>5. \A k \in 1 .. n : \A c \in trail'[k].todo : c \in Graph!Nodes /\ L[c] = 0
    BY <1>1, <1>2, <1>6, <2>4 DEF Walked
  <2>6. trail'[1].todo \subseteq {blocks[1]} /\ (blocks[1] \in trail'[1].todo \/ L[blocks[1]] # 0)
    <3>1. 1 \in 1 .. n /\ 1 # n
      BY <1>3
    <3> QED
      BY <1>2, <1>6, <3>1 DEF Walked
  <2>7. \A x \in Graph!Nodes : L[x] # 0 => L[x] = Exit(x)
    BY <1>2, <1>9, <1>10 DEF Walked
  <2>8. ASSUME NEW d \in Graph!Nodes, Passed(L, d)', NEW c \in Graph!Children(d), L[c] # 0
               \/ d = b \/ \E k \in 2 .. n : trail[k].block = d /\ c \in trail[k].todo
        PROVE  L[c] # 0 \/ \E k \in 2 .. n : trail'[k].block = d /\ c \in trail'[k].todo
    <3>1. CASE d = b
      BY <1>1, <1>4, <1>6, <2>8, <3>1
    <3>2. CASE d # b
      <4>1. CASE \E k \in 2 .. n : trail[k].block = d /\ c \in trail[k].todo
        <5>1. PICK k \in 2 .. n : trail[k].block = d /\ c \in trail[k].todo
          BY <4>1
        <5>2. trail'[k].block = d /\ c \in trail'[k].todo
          BY <1>1, <1>4, <1>6, <3>2, <5>1
        <5> QED
          BY <5>2
      <4> QED
        BY <2>8, <3>2, <4>1
    <3> QED
      BY <3>1, <3>2
  <2>9. \A d \in Graph!Nodes : Passed(L, d)' =>
          \A c \in Graph!Children(d) :
            L[c] # 0 \/ \E k \in 2 .. n : trail'[k].block = d /\ c \in trail'[k].todo
    <3> TAKE d \in Graph!Nodes
    <3>1. HAVE Passed(L, d)'
    <3> TAKE c \in Graph!Children(d)
    <3>2. L[c] # 0 \/ d = b \/ \E k \in 2 .. n : trail[k].block = d /\ c \in trail[k].todo
      BY <1>1, <1>2, <1>11, <3>1 DEF Walked
    <3> QED
      BY <2>8, <3>1, <3>2
  <2> QED
    BY <1>6, <1>7, <2>1, <2>2, <2>3, <2>5, <2>6, <2>7, <2>9 DEF Walked
<1>18. Stacked(N, H, v)'
  <2>1. \A k \in 1 .. n - 1 : k + 1 \in 1 .. n
    BY <1>3
  <2> QED
    BY <1>1, <1>2, <1>4, <1>6, <2>1, SMTT(30) DEF Names, Stacked
<1> QED
  BY <1>12, <1>13, <1>14, <1>16, <1>17, <1>18 DEF Names

(* What a step does to the stack of a variable and to its counter.         *)
Grown(v, given) ==
  IF given THEN stacks'[v] = Append(stacks[v], counters[v]) /\ counters'[v] = counters[v] + 1
  ELSE stacks'[v] = stacks[v] /\ counters'[v] = counters[v]

LEMMA StackGrows ==
  ASSUME NumberInv, NEW v \in Vars, NEW given \in BOOLEAN, Grown(v, given)
  PROVE  /\ counters[v] \in Nat /\ Len(stacks[v]) \in Nat
         /\ \A i \in 1 .. Len(stacks[v]) : stacks[v][i] \in Nat /\ stacks'[v][i] = stacks[v][i]
         /\ Len(stacks'[v]) = IF given THEN Len(stacks[v]) + 1 ELSE Len(stacks[v])
         /\ counters'[v] = IF given THEN counters[v] + 1 ELSE counters[v]
         /\ given => stacks'[v][Len(stacks[v]) + 1] = counters[v]
<1>1. stacks[v] \in Seq(Nat) /\ counters[v] \in Nat
  BY DEF NumberInv, CountInv
<1>2. CASE given
  BY <1>1, <1>2, SMTT(30) DEF Grown
<1>3. CASE ~given
  BY <1>1, <1>3 DEF Grown
<1> QED
  BY <1>2, <1>3

LEMMA numberElementNames ==
  ASSUME NEW v \in Vars, NEW L, NEW N, NEW H, Midway(L, N, H, v), numberElement,
         phase' = "numbering"
  PROVE  \E L2, N2, H2 : Names(L2, N2, H2, v)'
<1>1. PICK n, b, i, e : n = Len(trail) /\ b = trail[n].block /\ i = trail[n].at /\ e = content[b][i]
  OBVIOUS
<1> DEFINE given == Numbered(e) = v
<1>2. /\ Names(L, N, H, v) /\ Walked(L) /\ Typed(L, N, v) /\ Stacked(N, H, v)
      /\ Along(L, N, v) /\ Entered(L, N, v) /\ Handed(L, N, v)
  BY DEF Midway, Names
<1>3. /\ n \in Nat /\ n >= 2 /\ trail[n].doing = "elements" /\ i <= Len(content[b])
      /\ UNCHANGED <<flow, doms, phis>>
      /\ Len(trail') = n
      /\ \A k \in 1 .. n :
           /\ trail'[k].block = trail[k].block /\ trail'[k].doing = trail[k].doing
           /\ trail'[k].todo = trail[k].todo
           /\ trail'[k].at = IF k = n THEN i + 1 ELSE trail[k].at
           /\ trail'[k].pushed[v] = IF k = n /\ given THEN trail[k].pushed[v] + 1
                                    ELSE trail[k].pushed[v]
      /\ Grown(v, given)
      /\ given => e \in DOMAIN gens' /\ gens'[e] = counters[v]
      /\ \A g \in DOMAIN gens : g \in DOMAIN gens' /\ (g # e => gens'[g] = gens[g])
      /\ v \in Uses(prog, e) => <<e, v>> \in DOMAIN uses' /\ uses'[<<e, v>>] = Top(stacks[v])
      /\ \A u \in DOMAIN uses : u \in DOMAIN uses' /\ (u[1] # e => uses'[u] = uses[u])
      /\ v \in Uses(prog, e) => stacks[v] # <<>>
  <2>1. i = trail[n].at /\ e = content[b][trail[n].at]
    BY <1>1
  <2>2. /\ n \in Nat /\ n >= 2 /\ trail[n].doing = "elements" /\ trail[n].at <= Len(content[b])
        /\ UNCHANGED <<flow, doms, phis>>
        /\ Len(trail') = n
        /\ \A k \in 1 .. n :
             /\ trail'[k].block = trail[k].block /\ trail'[k].doing = trail[k].doing
             /\ trail'[k].todo = trail[k].todo
             /\ trail'[k].at = IF k = n THEN trail[k].at + 1 ELSE trail[k].at
             /\ trail'[k].pushed[v] = IF k = n /\ Numbered(e) = v THEN trail[k].pushed[v] + 1
                                      ELSE trail[k].pushed[v]
        /\ IF Numbered(e) = v
           THEN /\ stacks'[v] = Append(stacks[v], counters[v]) /\ counters'[v] = counters[v] + 1
                /\ e \in DOMAIN gens' /\ gens'[e] = counters[v]
           ELSE stacks'[v] = stacks[v] /\ counters'[v] = counters[v]
        /\ \A g \in DOMAIN gens : g \in DOMAIN gens' /\ (g # e => gens'[g] = gens[g])
        /\ v \in Uses(prog, e) => <<e, v>> \in DOMAIN uses' /\ uses'[<<e, v>>] = Top(stacks[v])
        /\ \A u \in DOMAIN uses : u \in DOMAIN uses' /\ (u[1] # e => uses'[u] = uses[u])
        /\ phase' = "numbering" /\ v \in Uses(prog, e) => stacks[v] # <<>>
    BY <1>1, <2>1, numberElementDoes
  <2>3. \A k \in 1 .. n : trail'[k].at = IF k = n THEN i + 1 ELSE trail[k].at
    BY <2>1, <2>2
  <2>4. Grown(v, given) /\ (given => e \in DOMAIN gens' /\ gens'[e] = counters[v])
    BY <2>2 DEF Grown
  <2> QED
    BY <2>1, <2>2, <2>3, <2>4
<1> HIDE DEF given
<1>4. n \in 2 .. n /\ n - 1 \in 1 .. n - 1 /\ 1 \in 1 .. n /\ 1 # n /\ \A k \in 2 .. n : k \in 1 .. n
  BY <1>3
<1>5. /\ Visiting(L, trail[n]) /\ b \in Graph!Nodes /\ L[b] = i /\ i \in Nat \ {0}
      /\ \A k \in 2 .. n : trail[k].block = b => k = n
  <2>1. Visiting(L, trail[n])
    BY <1>1, <1>2, <1>4 DEF Walked
  <2>2. \A k \in 2 .. n : trail[k].block = b => k = n
    BY <1>1, <1>2, <1>4 DEF Walked
  <2>3. L \in [Graph!Nodes -> Nat]
    BY <1>2 DEF Typed
  <2> QED
    BY <1>1, <2>1, <2>2, <2>3 DEF Visiting
<1>6. /\ Graph!Nodes' = Graph!Nodes /\ blocks' = blocks /\ content' = content
      /\ \A x : /\ Graph!Idoms(x)' = Graph!Idoms(x) /\ Graph!Children(x)' = Graph!Children(x)
                /\ Graph!Successors(x)' = Graph!Successors(x)
                /\ Exit(x)' = Exit(x)
      /\ \A g : Numbered(g)' = Numbered(g) /\ Uses(prog, g)' = Uses(prog, g)
  BY <1>3, NamesStay
<1>7. /\ counters[v] \in Nat /\ Len(stacks[v]) \in Nat
      /\ \A k \in 1 .. Len(stacks[v]) : stacks[v][k] \in Nat /\ stacks'[v][k] = stacks[v][k]
      /\ Len(stacks'[v]) = IF given THEN Len(stacks[v]) + 1 ELSE Len(stacks[v])
      /\ counters'[v] = IF given THEN counters[v] + 1 ELSE counters[v]
      /\ given => stacks'[v][Len(stacks[v]) + 1] = counters[v]
  BY <1>3, StackGrows DEF Midway, given
<1>8. /\ H \in [1 .. n -> Nat] /\ H[1] = 0 /\ H[n] = Len(stacks[v])
      /\ \A k \in 1 .. n - 1 : H[k + 1] = H[k] + trail[k + 1].pushed[v]
      /\ \A k, l \in 1 .. n : k <= l => H[k] <= H[l]
      /\ \A k \in 2 .. n :
           N[trail[k].block][trail[k].at] = IF H[k] = 0 THEN NoNumber ELSE stacks[v][H[k]]
  BY <1>1, <1>2 DEF Stacked
<1>9. N[b][i] = IF H[n] = 0 THEN NoNumber ELSE stacks[v][H[n]]
  BY <1>1, <1>4, <1>8
<1>10. PICK m, L2, N2, H2 :
         /\ m = IF given THEN counters[v] ELSE N[b][i]
         /\ L2 = [L EXCEPT ![b] = i + 1]
         /\ N2 = [N EXCEPT ![b] = [N[b] EXCEPT ![i + 1] = m]]
         /\ H2 = [H EXCEPT ![n] = Len(stacks'[v])]
  OBVIOUS
<1>11. /\ L \in [Graph!Nodes -> Nat] /\ N \in [Graph!Nodes -> [Nat -> Int]]
       /\ \A x \in Graph!Nodes : /\ L[x] \in Nat /\ L[x] <= Exit(x)
                                 /\ \A j \in 1 .. L[x] : N[x][j] = NoNumber \/ N[x][j] \in 0 .. counters[v] - 1
  BY <1>2 DEF Typed
<1>12. m \in Int /\ (m = NoNumber \/ m \in 0 .. counters'[v] - 1)
  <2>1. i \in 1 .. L[b] /\ N[b][i] \in Int
    BY <1>5, <1>11
  <2>2. N[b][i] = NoNumber \/ N[b][i] \in 0 .. counters[v] - 1
    BY <1>5, <1>11, <2>1
  <2> QED
    BY <1>7, <1>10, <2>1, <2>2
<1>13. /\ L2 \in [Graph!Nodes -> Nat] /\ L2[b] = i + 1
       /\ \A x \in Graph!Nodes : x # b => L2[x] = L[x]
  BY <1>5, <1>10, <1>11
<1>14. /\ N2 \in [Graph!Nodes -> [Nat -> Int]] /\ N2[b][i + 1] = m
       /\ \A x \in Graph!Nodes : x # b => N2[x] = N[x]
       /\ \A j \in Nat : j # i + 1 => N2[b][j] = N[b][j]
  <2> DEFINE row == [N[b] EXCEPT ![i + 1] = m]
  <2>1. N[b] \in [Nat -> Int] /\ i + 1 \in Nat
    BY <1>5, <1>11
  <2>2. row \in [Nat -> Int] /\ row[i + 1] = m /\ \A j \in Nat : j # i + 1 => row[j] = N[b][j]
    BY <1>12, <2>1
  <2>3. N2 = [N EXCEPT ![b] = row]
    BY <1>10
  <2> HIDE DEF row
  <2> QED
    BY <1>5, <1>11, <2>2, <2>3
<1>15. \A x : (Busy(x) <=> x = b) /\ (Busy(x)' <=> x = b)
  BY <1>1, <1>3, <1>4 DEF Busy, Last
<1>16. \A x \in Graph!Nodes : (Passed(L2, x)' <=> Passed(L, x)) /\ (Passed(L, x) => x # b)
  BY <1>6, <1>13, <1>15 DEF Passed
<1>17. Typed(L2, N2, v)'
  <2> SUFFICES ASSUME NEW x \in Graph!Nodes
               PROVE  /\ L2[x] <= Exit(x)
                      /\ \A j \in 1 .. L2[x] : N2[x][j] = NoNumber \/ N2[x][j] \in 0 .. counters'[v] - 1
    BY <1>6, <1>13, <1>14 DEF Typed
  <2>1. \A j \in 1 .. L[x] : N[x][j] = NoNumber \/ N[x][j] \in 0 .. counters'[v] - 1
    <3> SUFFICES ASSUME NEW j \in 1 .. L[x], N[x][j] # NoNumber
                 PROVE  N[x][j] \in 0 .. counters'[v] - 1
      OBVIOUS
    <3>1. N[x][j] \in 0 .. counters[v] - 1
      BY <1>11
    <3>2. counters[v] \in Nat /\ (counters'[v] = counters[v] \/ counters'[v] = counters[v] + 1)
      BY <1>7
    <3> QED
      BY <3>1, <3>2
  <2>2. CASE x # b
    BY <1>11, <1>13, <1>14, <2>1, <2>2
  <2>3. CASE x = b
    <3>1. Len(content[b]) \in Nat
      BY <1>5, VectorsFilled DEF Midway, DomInv
    <3>2. L2[x] <= Exit(x)
      BY <1>3, <1>5, <1>13, <2>3, <3>1 DEF Exit
    <3>3. \A j \in 1 .. L2[x] : j = i + 1 \/ (j \in 1 .. L[x] /\ j \in Nat /\ j # i + 1)
      BY <1>5, <1>13, <2>3
    <3> QED
      BY <1>12, <1>14, <2>1, <2>3, <3>2, <3>3
  <2> QED
    BY <2>2, <2>3
<1>18. Along(L2, N2, v)'
  <2> SUFFICES ASSUME NEW x \in Graph!Nodes, NEW j \in 1 .. L2[x] - 1, NEW g, g = content[x][j]
               PROVE  /\ v \in Uses(prog, g) =>
                           /\ <<g, v>> \in DOMAIN uses' /\ uses'[<<g, v>>] = N2[x][j]
                           /\ N2[x][j] # NoNumber
                      /\ Numbered(g) = v => g \in DOMAIN gens' /\ N2[x][j + 1] = gens'[g]
                      /\ Numbered(g) # v => N2[x][j + 1] = N2[x][j]
    BY <1>6 DEF Along
  <2>1. CASE x = b /\ j = i
    <3>1. g = e /\ N2[x][j] = N[b][i] /\ N2[x][j + 1] = m
      <4>1. g = e
        BY <1>1, <2>1
      <4>2. i \in Nat /\ i # i + 1
        BY <1>5
      <4>3. N2[b][i] = N[b][i] /\ N2[b][i + 1] = m
        BY <1>14, <4>2
      <4> QED
        BY <2>1, <4>1, <4>3
    <3>2. ASSUME v \in Uses(prog, g)
          PROVE  /\ <<g, v>> \in DOMAIN uses' /\ uses'[<<g, v>>] = N2[x][j] /\ N2[x][j] # NoNumber
      <4>1. stacks[v] # <<>> /\ stacks[v] \in Seq(Nat)
        BY <1>3, <3>1, <3>2 DEF Midway, NumberInv, CountInv
      <4>2. Len(stacks[v]) \in 1 .. Len(stacks[v]) /\ Top(stacks[v]) = stacks[v][Len(stacks[v])]
        BY <4>1 DEF Top, Last
      <4>3. N[b][i] = stacks[v][Len(stacks[v])] /\ N[b][i] \in Nat
        BY <1>7, <1>8, <1>9, <4>2
      <4> QED
        BY <1>3, <3>1, <3>2, <4>2, <4>3 DEF NoNumber
    <3> QED
      BY <1>3, <1>10, <3>1, <3>2 DEF given
  <2>2. CASE ~(x = b /\ j = i)
    <3>1. j \in 1 .. L[x] - 1 /\ j \in Nat /\ j + 1 \in Nat /\ (x = b => j # i + 1 /\ j + 1 # i + 1)
      BY <1>5, <1>11, <1>13, <2>2
    <3>2. N2[x][j] = N[x][j] /\ N2[x][j + 1] = N[x][j + 1]
      BY <1>14, <3>1
    <3>3. g # e
      <4>1. /\ Len(content[x]) \in Nat /\ DOMAIN content[x] = 1 .. Len(content[x])
            /\ DOMAIN content[b] = 1 .. Len(content[b]) /\ Len(content[b]) \in Nat
        BY <1>5, VectorsFilled DEF Midway, DomInv
      <4>2. j \in DOMAIN content[x] /\ i \in DOMAIN content[b]
        <5>1. L[x] \in Nat /\ L[x] <= Len(content[x]) + 1
          BY <1>11 DEF Exit
        <5>2. j \in Nat /\ 1 <= j /\ j <= L[x] - 1
          BY <3>1, <5>1
        <5>3. j \in 1 .. Len(content[x])
          BY <4>1, <5>1, <5>2
        <5>4. i \in 1 .. Len(content[b])
          BY <1>3, <1>5, <4>1
        <5> QED
          BY <4>1, <5>3, <5>4
      <4> QED
        BY <1>1, <1>5, <2>2, <4>2 DEF Midway, Sound, EachOnce
    <3>4. /\ v \in Uses(prog, g) =>
               <<g, v>> \in DOMAIN uses /\ uses[<<g, v>>] = N[x][j] /\ N[x][j] # NoNumber
          /\ Numbered(g) = v => g \in DOMAIN gens /\ N[x][j + 1] = gens[g]
          /\ Numbered(g) # v => N[x][j + 1] = N[x][j]
      BY <1>2, <3>1 DEF Along
    <3>5. <<g, v>>[1] = g
      OBVIOUS
    <3> QED
      BY <1>3, <3>2, <3>3, <3>4, <3>5
  <2> QED
    BY <2>1, <2>2
<1>19. Entered(L2, N2, v)'
  <2>1. \A x \in Graph!Nodes : (L2[x] # 0 => L[x] # 0) /\ N2[x][1] = N[x][1]
    BY <1>5, <1>13, <1>14
  <2>2. \A x \in Graph!Nodes : Passed(L, x) => N2[x] = N[x]
    BY <1>14, <1>16
  <2>3. \A x : \A d \in Graph!Idoms(x) : d \in Graph!Nodes
    BY DEF Graph!Idoms
  <2> SUFFICES ASSUME NEW x \in Graph!Nodes, L2[x] # 0
               PROVE  /\ <<x, v>> \in DOMAIN phis => N2[x][1] = phis[<<x, v>>].gen
                      /\ <<x, v>> \notin DOMAIN phis /\ x = blocks[1] => N2[x][1] = NoNumber
                      /\ \A d \in Graph!Idoms(x) :
                           /\ Passed(L2, d)'
                           /\ <<x, v>> \notin DOMAIN phis => N2[x][1] = N2[d][Exit(d)]
    BY <1>3, <1>6 DEF Entered
  <2>4. /\ <<x, v>> \in DOMAIN phis => N[x][1] = phis[<<x, v>>].gen
        /\ <<x, v>> \notin DOMAIN phis /\ x = blocks[1] => N[x][1] = NoNumber
        /\ \A d \in Graph!Idoms(x) :
             Passed(L, d) /\ (<<x, v>> \notin DOMAIN phis => N[x][1] = N[d][Exit(d)])
    BY <1>2, <2>1 DEF Entered
  <2> QED
    BY <1>16, <2>1, <2>2, <2>3, <2>4
<1>20. Handed(L2, N2, v)'
  <2>1. \A x \in Graph!Nodes : Passed(L, x) => N2[x] = N[x]
    BY <1>14, <1>16
  <2> QED
    BY <1>2, <1>3, <1>6, <1>16, <2>1 DEF Handed
<1>21. Walked(L2)'
  <2>1. \A k \in 2 .. n : Visiting(L2, trail[k])'
    <3> TAKE k \in 2 .. n
    <3>1. Visiting(L, trail[k]) /\ k \in 1 .. n
      BY <1>1, <1>2, <1>4 DEF Walked
    <3>2. /\ trail'[k].block = trail[k].block /\ trail'[k].doing = trail[k].doing
          /\ trail'[k].todo = trail[k].todo
          /\ trail'[k].at = IF k = n THEN i + 1 ELSE trail[k].at
      BY <1>3, <3>1
    <3>3. CASE k = n
      BY <1>1, <1>3, <1>5, <1>6, <1>13, <3>1, <3>2, <3>3 DEF Visiting
    <3>4. CASE k # n
      <4>1. trail[k].block \in Graph!Nodes /\ trail[k].block # b
        BY <1>5, <3>1, <3>4 DEF Visiting
      <4> QED
        BY <1>6, <1>13, <3>1, <3>2, <3>4, <4>1 DEF Visiting
    <3> QED
      BY <3>3, <3>4
  <2>2. \A k, l \in 2 .. n : trail'[k].block = trail'[l].block => k = l
    BY <1>1, <1>2, <1>3, <1>4 DEF Walked
  <2>3. \A k \in 1 .. n - 1 : trail'[k].doing = "children"
    <3>1. \A k \in 1 .. n - 1 : k \in 1 .. n /\ k # n
      BY <1>3
    <3>2. \A k \in 1 .. n - 1 : trail[k].doing = "children"
      BY <1>1, <1>2 DEF Walked
    <3>3. \A k \in 1 .. n : trail'[k].doing = trail[k].doing
      BY <1>3
    <3> QED
      BY <3>1, <3>2, <3>3
  <2>4. \A k \in 1 .. n : \A c \in trail'[k].todo : c \in Graph!Nodes /\ L2[c] = 0
    <3>1. \A k \in 1 .. n : \A c \in trail'[k].todo : c \in Graph!Nodes /\ L[c] = 0
      BY <1>1, <1>2, <1>3 DEF Walked
    <3> QED
      BY <1>5, <1>13, <3>1
  <2>5. trail'[1].todo \subseteq {blocks[1]} /\ (blocks[1] \in trail'[1].todo \/ L2[blocks[1]] # 0)
    <3>1. blocks[1] \in Graph!Nodes
      BY NodesFacts DEF Midway, DomInv, VectorInv, numberElement, Indexing
    <3>2. trail'[1].todo \subseteq {blocks[1]} /\ (blocks[1] \in trail'[1].todo \/ L[blocks[1]] # 0)
      BY <1>2, <1>3, <1>4 DEF Walked
    <3> QED
      BY <1>5, <1>13, <3>1, <3>2
  <2>6. \A x \in Graph!Nodes : L2[x] # 0 => L2[x] = Exit(x) \/ Busy(x)'
    BY <1>2, <1>13, <1>15 DEF Walked
  <2>7. \A d \in Graph!Nodes : Passed(L2, d)' =>
          \A c \in Graph!Children(d) :
            L2[c] # 0 \/ \E k \in 2 .. n : trail'[k].block = d /\ c \in trail'[k].todo
    <3>1. \A d : \A c \in Graph!Children(d) : c \in Graph!Nodes
      BY DEF Graph!Children
    <3>2. \A d \in Graph!Nodes : Passed(L, d) =>
            \A c \in Graph!Children(d) :
              L[c] # 0 \/ \E k \in 2 .. n : trail[k].block = d /\ c \in trail[k].todo
      BY <1>1, <1>2 DEF Walked
    <3>3. \A x \in Graph!Nodes : L[x] # 0 => L2[x] # 0
      BY <1>5, <1>13
    <3>4. \A k \in 2 .. n : trail'[k].block = trail[k].block /\ trail'[k].todo = trail[k].todo
      BY <1>3, <1>4
    <3> QED
      BY <1>16, <3>1, <3>2, <3>3, <3>4
  <2> QED
    BY <1>3, <1>6, <2>1, <2>2, <2>3, <2>4, <2>5, <2>6, <2>7 DEF Walked
<1>22. Stacked(N2, H2, v)'
  <2>1. /\ H2 \in [1 .. n -> Nat] /\ H2[n] = Len(stacks'[v]) /\ \A k \in 1 .. n - 1 : H2[k] = H[k]
        /\ H2[n] >= H[n] /\ H2[1] = 0
    <3>1. Len(stacks'[v]) \in Nat /\ Len(stacks'[v]) >= H[n] /\ n \in 1 .. n
      BY <1>3, <1>7, <1>8
    <3>2. \A k \in 1 .. n - 1 : k \in 1 .. n /\ k # n
      BY <1>3
    <3> QED
      BY <1>4, <1>8, <1>10, <3>1, <3>2
  <2>2. \A k \in 1 .. n - 1 : H2[k + 1] = H2[k] + trail'[k + 1].pushed[v]
    <3> TAKE k \in 1 .. n - 1
    <3>1. k + 1 \in 1 .. n /\ H2[k] = H[k] /\ H[k + 1] = H[k] + trail[k + 1].pushed[v]
          /\ H[k] \in Nat /\ H[k + 1] \in Nat
      <4>1. k \in 1 .. n /\ k + 1 \in 1 .. n
        BY <1>3
      <4>2. H[k] \in Nat /\ H[k + 1] \in Nat
        BY <1>8, <4>1
      <4>3. H[k + 1] = H[k] + trail[k + 1].pushed[v]
        BY <1>8
      <4>4. H2[k] = H[k]
        BY <2>1
      <4> QED
        BY <4>1, <4>2, <4>3, <4>4
    <3>2. CASE k + 1 = n
      <4>1. trail[n].pushed[v] \in Nat
        <5>1. TrailInv
          BY DEF Midway, NumberInv, numberElement, Indexing
        <5> QED
          BY <1>1, <1>4, <5>1, TrailFacts DEF IsVisit
      <4>2. trail'[n].pushed[v] = trail[n].pushed[v] + IF given THEN 1 ELSE 0
        BY <1>3, <1>4, <4>1
      <4>3. H2[n] = H[n] + IF given THEN 1 ELSE 0
        <5>1. H[n] = Len(stacks[v]) /\ H2[n] = Len(stacks'[v])
          BY <1>8, <2>1
        <5>2. CASE given
          BY <1>7, <5>1, <5>2
        <5>3. CASE ~given
          BY <1>7, <5>1, <5>3
        <5> QED
          BY <5>2, <5>3
      <4> QED
        BY <3>1, <3>2, <4>1, <4>2, <4>3
    <3>3. CASE k + 1 # n
      <4>1. k + 1 \in 1 .. n - 1
        BY <1>3, <3>1, <3>3
      <4>2. H2[k + 1] = H[k + 1]
        BY <2>1, <4>1
      <4>3. trail'[k + 1].pushed[v] = trail[k + 1].pushed[v]
        BY <1>3, <3>1, <3>3
      <4> QED
        BY <3>1, <4>2, <4>3
    <3> QED
      BY <3>2, <3>3
  <2>3. \A k, l \in 1 .. n : k <= l => H2[k] <= H2[l]
    <3> TAKE k, l \in 1 .. n
    <3>1. HAVE k <= l
    <3>4. H[k] <= H[l] /\ H[k] \in Nat /\ H[l] \in Nat
      BY <1>8, <3>1
    <3>5. n \in 1 .. n /\ k <= n
      BY <1>3
    <3>6. H[n] \in Nat /\ H2[n] \in Nat /\ H[k] <= H[n]
      BY <1>8, <2>1, <3>5
    <3>2. H[k] <= H[l] /\ H[k] \in Nat /\ H[l] \in Nat /\ H2[n] \in Nat /\ H[n] \in Nat /\ H[k] <= H[n]
      BY <3>4, <3>6
    <3>10. (k # n => k \in 1 .. n - 1) /\ (l # n => l \in 1 .. n - 1)
      BY <1>3
    <3>11. k = n => l = n
      BY <1>3, <3>1
    <3>3. (k = n => l = n) /\ (k # n => H2[k] = H[k]) /\ (l # n => H2[l] = H[l])
      BY <2>1, <3>10, <3>11
    <3>7. CASE k = n
      BY <3>2, <3>3, <3>7
    <3>8. CASE k # n /\ l = n
      BY <2>1, <3>2, <3>3, <3>8
    <3>9. CASE k # n /\ l # n
      BY <3>2, <3>3, <3>9
    <3> QED
      BY <3>7, <3>8, <3>9
  <2>4. \A k \in 2 .. n :
          N2[trail'[k].block][trail'[k].at] = IF H2[k] = 0 THEN NoNumber ELSE stacks'[v][H2[k]]
    <3> TAKE k \in 2 .. n
    <3>1. CASE k = n
      <4>1. trail'[k].block = b /\ trail'[k].at = i + 1
        BY <1>1, <1>3, <1>4, <3>1
      <4>2. CASE given
        <5>1. H2[n] = Len(stacks[v]) + 1 /\ H2[n] # 0
          BY <1>7, <2>1, <4>2
        <5> QED
          BY <1>7, <1>10, <1>14, <3>1, <4>1, <4>2, <5>1
      <4>3. CASE ~given
        <5>1. H2[n] = Len(stacks[v]) /\ H2[n] = H[n] /\ (H[n] # 0 => H[n] \in 1 .. Len(stacks[v]))
          BY <1>7, <1>8, <2>1, <4>3
        <5> QED
          BY <1>7, <1>9, <1>10, <1>14, <3>1, <4>1, <4>3, <5>1
      <4> QED
        BY <4>2, <4>3
    <3>2. CASE k # n
      <4>1. k \in 1 .. n - 1 /\ k \in 1 .. n /\ k <= n
        BY <1>3, <3>2
      <4>2. trail'[k].block = trail[k].block /\ trail'[k].at = trail[k].at /\ H2[k] = H[k]
        BY <1>3, <2>1, <3>2, <4>1
      <4>3. trail[k].block \in Graph!Nodes /\ trail[k].block # b
        BY <1>1, <1>2, <1>5, <3>2 DEF Walked, Visiting
      <4>4. H[k] \in Nat /\ H[k] <= Len(stacks[v])
        BY <1>4, <1>8, <4>1
      <4>5. H[k] # 0 => stacks'[v][H[k]] = stacks[v][H[k]]
        BY <1>7, <4>4
      <4> QED
        BY <1>8, <1>14, <4>2, <4>3, <4>5, ZenonT(60)
    <3> QED
      BY <3>1, <3>2
  <2> QED
    BY <1>3, <2>1, <2>2, <2>3, <2>4 DEF Stacked
<1> QED
  BY <1>17, <1>18, <1>19, <1>20, <1>21, <1>22 DEF Names

LEMMA indexVarsNames ==
  ASSUME NEW v \in Vars, NEW L, NEW N, NEW H, Midway(L, N, H, v), indexVars
  PROVE  \E L2, N2, H2 : Names(L2, N2, H2, v)'
<1>1. PICK n : n = Len(trail)
  OBVIOUS
<1>27. PICK b \in trail[n].todo : Enters(v, n, b)
  BY <1>1, indexVarsDoes
<1>2. /\ b \in trail[n].todo
      /\ n \in Nat \ {0} /\ trail[n].doing = "children"
      /\ UNCHANGED <<flow, doms, phase, uses, gens>>
      /\ Len(trail') = n + 1
      /\ \A k \in 1 .. n :
           /\ Alike(trail'[k], trail[k])
           /\ trail'[k].todo = IF k = n THEN trail[k].todo \ {b} ELSE trail[k].todo
      /\ trail'[n + 1].block = b /\ trail'[n + 1].doing = "elements"
      /\ trail'[n + 1].at = 1 /\ trail'[n + 1].todo = {}
      /\ trail'[n + 1].pushed[v] = IF <<b, v>> \in DOMAIN phis THEN 1 ELSE 0
      /\ IF <<b, v>> \in DOMAIN phis
         THEN stacks'[v] = Append(stacks[v], counters[v]) /\ counters'[v] = counters[v] + 1
         ELSE stacks'[v] = stacks[v] /\ counters'[v] = counters[v]
      /\ DOMAIN phis' = DOMAIN phis
      /\ \A p \in DOMAIN phis :
           /\ DOMAIN phis'[p] = {"gen", "args"} /\ phis'[p].args = phis[p].args
           /\ phis'[p].gen = IF p[1] = b THEN counters[p[2]] ELSE phis[p].gen
  BY <1>27 DEF Enters
<1> DEFINE given == <<b, v>> \in DOMAIN phis
           above == trail[n].block
<1>3. /\ Names(L, N, H, v) /\ Walked(L) /\ Typed(L, N, v) /\ Stacked(N, H, v)
      /\ Along(L, N, v) /\ Entered(L, N, v) /\ Handed(L, N, v)
  BY DEF Midway, Names
<1>4. /\ n \in 1 .. n /\ 1 \in 1 .. n /\ (n # 1 => n \in 2 .. n) /\ \A k \in 2 .. n : k \in 1 .. n
      /\ n + 1 \in 2 .. n + 1 /\ \A k \in 2 .. n + 1 : k = n + 1 \/ (k \in 2 .. n /\ k \in 1 .. n)
      /\ \A k \in 1 .. n + 1 : k = n + 1 \/ (k \in 1 .. n /\ k # n + 1)
  BY <1>2
<1>5. Grown(v, given)
  BY <1>2 DEF Grown
<1>6. /\ Graph!Nodes' = Graph!Nodes /\ blocks' = blocks /\ content' = content
      /\ \A x : /\ Graph!Idoms(x)' = Graph!Idoms(x) /\ Graph!Children(x)' = Graph!Children(x)
                /\ Graph!Successors(x)' = Graph!Successors(x)
                /\ Exit(x)' = Exit(x)
      /\ \A g : Numbered(g)' = Numbered(g) /\ Uses(prog, g)' = Uses(prog, g)
  BY <1>2, NamesStay
<1>7. /\ counters[v] \in Nat /\ Len(stacks[v]) \in Nat
      /\ \A k \in 1 .. Len(stacks[v]) : stacks[v][k] \in Nat /\ stacks'[v][k] = stacks[v][k]
      /\ Len(stacks'[v]) = IF given THEN Len(stacks[v]) + 1 ELSE Len(stacks[v])
      /\ counters'[v] = IF given THEN counters[v] + 1 ELSE counters[v]
      /\ given => stacks'[v][Len(stacks[v]) + 1] = counters[v]
  <2>1. given \in BOOLEAN
    OBVIOUS
  <2> HIDE DEF given
  <2> QED
    BY <1>5, <2>1, StackGrows DEF Midway
<1>8. b \in Graph!Nodes /\ L[b] = 0
  BY <1>1, <1>2, <1>3, <1>4 DEF Walked
<1>9. /\ blocks[1] \in Graph!Nodes /\ Graph!Idoms(blocks[1]) = {}
      /\ \A x \in Graph!Nodes : x # blocks[1] => \E d \in Graph!Nodes : Graph!Idoms(x) = {d}
      /\ \A d \in Graph!Nodes : \A x : x \in Graph!Children(d) <=> x \in Graph!Nodes /\ d \in Graph!Idoms(x)
  <2>1. phase = "numbering" /\ Connected
    BY DEF indexVars, Indexing, Midway, Sound
  <2> QED
    BY <2>1, TreeFacts DEF Midway
<1>10. n = 1 => b = blocks[1]
  BY <1>2, <1>3 DEF Walked
<1>11. ASSUME n # 1
       PROVE  /\ Visiting(L, trail[n]) /\ above \in Graph!Nodes /\ L[above] = Exit(above)
              /\ trail[n].at = Exit(above) /\ Graph!Idoms(b) = {above} /\ b # blocks[1] /\ above # b
  <2>1. Visiting(L, trail[n])
    BY <1>1, <1>3, <1>4, <1>11 DEF Walked
  <2>2. above \in Graph!Nodes /\ L[above] = Exit(above) /\ trail[n].at = Exit(above) /\ L[above] # 0
        /\ b \in Graph!Children(above)
    BY <1>2, <2>1 DEF Visiting
  <2>3. above \in Graph!Idoms(b) /\ b # blocks[1]
    BY <1>9, <2>2
  <2>4. Graph!Idoms(b) = {above}
    BY <1>8, <1>9, <2>3
  <2> QED
    BY <1>8, <2>1, <2>2, <2>3, <2>4
<1>12. PICK m, L2, N2, H2 :
         /\ m = IF given THEN counters[v] ELSE IF n = 1 THEN NoNumber ELSE N[above][Exit(above)]
         /\ L2 = [L EXCEPT ![b] = 1]
         /\ N2 = [N EXCEPT ![b] = [N[b] EXCEPT ![1] = m]]
         /\ H2 = [k \in 1 .. n + 1 |-> IF k = n + 1 THEN Len(stacks'[v]) ELSE H[k]]
  OBVIOUS
<1>13. /\ L \in [Graph!Nodes -> Nat] /\ N \in [Graph!Nodes -> [Nat -> Int]]
       /\ \A x \in Graph!Nodes : /\ L[x] \in Nat /\ L[x] <= Exit(x)
                                 /\ \A j \in 1 .. L[x] : N[x][j] = NoNumber \/ N[x][j] \in 0 .. counters[v] - 1
  BY <1>3 DEF Typed
<1>14. \A x \in Graph!Nodes : Exit(x) \in Nat \ {0} /\ Exit(x) >= 1
  <2> TAKE x \in Graph!Nodes
  <2>1. Len(content[x]) \in Nat
    BY VectorsFilled DEF Midway, DomInv
  <2> QED
    BY <2>1 DEF Exit
<1>15. m \in Int /\ (m = NoNumber \/ m \in 0 .. counters'[v] - 1)
  <2>1. CASE given
    BY <1>7, <1>12, <2>1
  <2>2. CASE ~given /\ n = 1
    BY <1>12, <2>2 DEF NoNumber
  <2>3. CASE ~given /\ n # 1
    <3>1. L[above] = Exit(above) /\ above \in Graph!Nodes /\ Exit(above) \in 1 .. L[above]
      BY <1>11, <1>14, <2>3
    <3>2. N[above][Exit(above)] \in Int
      BY <1>13, <1>14, <3>1
    <3>3. N[above][Exit(above)] = NoNumber \/ N[above][Exit(above)] \in 0 .. counters[v] - 1
      BY <1>13, <3>1
    <3> QED
      BY <1>7, <1>12, <2>3, <3>2, <3>3
  <2> QED
    BY <2>1, <2>2, <2>3
<1>16. /\ L2 \in [Graph!Nodes -> Nat] /\ L2[b] = 1
       /\ \A x \in Graph!Nodes : x # b => L2[x] = L[x]
  BY <1>8, <1>12, <1>13
<1>17. /\ N2 \in [Graph!Nodes -> [Nat -> Int]] /\ N2[b][1] = m
       /\ \A x \in Graph!Nodes : x # b => N2[x] = N[x]
  <2> DEFINE row == [N[b] EXCEPT ![1] = m]
  <2>1. N[b] \in [Nat -> Int] /\ 1 \in Nat
    BY <1>8, <1>13
  <2>2. row \in [Nat -> Int] /\ row[1] = m
    BY <1>15, <2>1
  <2>3. N2 = [N EXCEPT ![b] = row]
    BY <1>12
  <2> HIDE DEF row
  <2> QED
    BY <1>8, <1>13, <2>2, <2>3
<1>18. \A x : ~Busy(x) /\ (Busy(x)' <=> x = b)
  BY <1>1, <1>2 DEF Busy, Last
<1>19. \A x \in Graph!Nodes : (Passed(L2, x)' <=> Passed(L, x)) /\ (Passed(L, x) => x # b)
  BY <1>6, <1>8, <1>14, <1>16, <1>18 DEF Passed
<1>20. Typed(L2, N2, v)'
  <2> SUFFICES ASSUME NEW x \in Graph!Nodes
               PROVE  /\ L2[x] <= Exit(x)
                      /\ \A j \in 1 .. L2[x] : N2[x][j] = NoNumber \/ N2[x][j] \in 0 .. counters'[v] - 1
    BY <1>6, <1>16, <1>17 DEF Typed
  <2>1. \A j \in 1 .. L[x] : N[x][j] = NoNumber \/ N[x][j] \in 0 .. counters'[v] - 1
    <3> SUFFICES ASSUME NEW j \in 1 .. L[x], N[x][j] # NoNumber
                 PROVE  N[x][j] \in 0 .. counters'[v] - 1
      OBVIOUS
    <3>1. N[x][j] \in 0 .. counters[v] - 1
      BY <1>13
    <3>2. counters[v] \in Nat /\ (counters'[v] = counters[v] \/ counters'[v] = counters[v] + 1)
      BY <1>7
    <3> QED
      BY <3>1, <3>2
  <2>2. CASE x # b
    BY <1>13, <1>16, <1>17, <2>1, <2>2
  <2>3. CASE x = b
    BY <1>14, <1>15, <1>16, <1>17, <2>3
  <2> QED
    BY <2>2, <2>3
<1>21. Along(L2, N2, v)'
  <2>1. \A j \in 1 .. L2[b] - 1 : FALSE
    BY <1>16
  <2>2. \A x \in Graph!Nodes : x # b => L2[x] = L[x] /\ N2[x] = N[x]
    BY <1>16, <1>17
  <2>3. uses' = uses /\ gens' = gens
    BY <1>2
  <2> QED
    BY <1>3, <1>6, <2>1, <2>2, <2>3 DEF Along
<1>22. Entered(L2, N2, v)'
  <2> SUFFICES ASSUME NEW x \in Graph!Nodes, L2[x] # 0
               PROVE  /\ <<x, v>> \in DOMAIN phis => N2[x][1] = phis'[<<x, v>>].gen
                      /\ <<x, v>> \notin DOMAIN phis /\ x = blocks[1] => N2[x][1] = NoNumber
                      /\ \A d \in Graph!Idoms(x) :
                           /\ Passed(L2, d)'
                           /\ <<x, v>> \notin DOMAIN phis => N2[x][1] = N2[d][Exit(d)]
    BY <1>2, <1>6 DEF Entered
  <2>1. \A d \in Graph!Idoms(x) : d \in Graph!Nodes
    BY DEF Graph!Idoms
  <2>2. <<x, v>>[1] = x /\ <<x, v>>[2] = v
    OBVIOUS
  <2>3. CASE x = b
    <3>1. given => N2[x][1] = phis'[<<x, v>>].gen
      BY <1>2, <1>12, <1>17, <2>2, <2>3
    <3>2. <<x, v>> \notin DOMAIN phis /\ x = blocks[1] => N2[x][1] = NoNumber
      BY <1>11, <1>12, <1>17, <2>3
    <3>3. ASSUME NEW d \in Graph!Idoms(x)
          PROVE  Passed(L2, d)' /\ (<<x, v>> \notin DOMAIN phis => N2[x][1] = N2[d][Exit(d)])
      <4>1. n # 1
        BY <1>9, <1>10, <2>3, <3>3
      <4>2. d = above /\ d \in Graph!Nodes /\ L[d] = Exit(d) /\ d # b
        BY <1>11, <2>3, <3>3, <4>1
      <4>3. Passed(L, d)
        BY <1>18, <4>2 DEF Passed
      <4> QED
        BY <1>12, <1>17, <1>19, <2>3, <4>1, <4>2, <4>3
    <3> QED
      BY <2>3, <3>1, <3>2, <3>3
  <2>4. CASE x # b
    <3>1. L[x] # 0 /\ N2[x] = N[x]
      BY <1>16, <1>17, <2>4
    <3>2. /\ <<x, v>> \in DOMAIN phis => N[x][1] = phis[<<x, v>>].gen
          /\ <<x, v>> \notin DOMAIN phis /\ x = blocks[1] => N[x][1] = NoNumber
          /\ \A d \in Graph!Idoms(x) :
               Passed(L, d) /\ (<<x, v>> \notin DOMAIN phis => N[x][1] = N[d][Exit(d)])
      BY <1>3, <3>1 DEF Entered
    <3>3. <<x, v>> \in DOMAIN phis => phis'[<<x, v>>].gen = phis[<<x, v>>].gen
      BY <1>2, <2>2, <2>4
    <3> QED
      BY <1>17, <1>19, <2>1, <3>1, <3>2, <3>3
  <2> QED
    BY <2>3, <2>4
<1>23. Handed(L2, N2, v)'
  <2>1. \A x \in Graph!Nodes : Passed(L, x) => N2[x] = N[x]
    BY <1>17, <1>19
  <2>2. \A s : <<s, v>> \in DOMAIN phis => phis'[<<s, v>>].args = phis[<<s, v>>].args
    BY <1>2
  <2> QED
    BY <1>2, <1>3, <1>6, <1>19, <2>1, <2>2 DEF Handed
<1>24. \A k \in 2 .. n : trail[k].block \in Graph!Nodes /\ trail[k].block # b /\ Visiting(L, trail[k])
  BY <1>1, <1>3, <1>8 DEF Walked, Visiting
<1>25. Walked(L2)'
  <2>1. \A k \in 2 .. n + 1 : Visiting(L2, trail[k])'
    <3> TAKE k \in 2 .. n + 1
    <3>1. CASE k = n + 1
      <4>1. "elements" # "children"
        OBVIOUS
      <4> QED
        BY <1>2, <1>6, <1>8, <1>16, <3>1, <4>1 DEF Visiting
    <3>2. CASE k # n + 1
      <4>1. k \in 2 .. n /\ k \in 1 .. n
        BY <1>4, <3>2
      <4>2. /\ trail'[k].block = trail[k].block /\ trail'[k].doing = trail[k].doing
            /\ trail'[k].at = trail[k].at /\ trail'[k].todo \subseteq trail[k].todo
        BY <1>2, <4>1 DEF Alike
      <4>3. L2[trail[k].block] = L[trail[k].block] /\ Visiting(L, trail[k])
        BY <1>16, <1>24, <4>1
      <4> QED
        BY <1>6, <4>2, <4>3 DEF Visiting
    <3> QED
      BY <3>1, <3>2
  <2>2. \A k, l \in 2 .. n + 1 : trail'[k].block = trail'[l].block => k = l
    <3>1. \A k, l \in 2 .. n : trail[k].block = trail[l].block => k = l
      BY <1>1, <1>3 DEF Walked
    <3>2. \A k \in 2 .. n : trail'[k].block = trail[k].block
      BY <1>2, <1>4 DEF Alike
    <3> QED
      BY <1>2, <1>4, <1>24, <3>1, <3>2
  <2>3. \A k \in 1 .. n : trail'[k].doing = "children"
    <3>1. \A k \in 1 .. n : k = n \/ k \in 1 .. n - 1
      BY <1>2
    <3>2. \A k \in 1 .. n : trail'[k].doing = trail[k].doing
      BY <1>2 DEF Alike
    <3> QED
      BY <1>1, <1>2, <1>3, <3>1, <3>2 DEF Walked
  <2>4. \A k \in 1 .. n + 1 : \A c \in trail'[k].todo : c \in Graph!Nodes /\ L2[c] = 0
    <3> TAKE k \in 1 .. n + 1
    <3> TAKE c \in trail'[k].todo
    <3>1. k \in 1 .. n
      BY <1>2, <1>4
    <3>2. c \in trail[k].todo /\ (k = n => c # b)
      BY <1>2, <3>1
    <3>3. c \in Graph!Nodes /\ L[c] = 0
      BY <1>1, <1>3, <3>1, <3>2 DEF Walked
    <3>4. c # b
      <4>1. CASE k = n
        BY <3>2, <4>1
      <4>2. CASE k # n /\ k = 1
        <5>1. n # 1 /\ c = blocks[1]
          BY <1>3, <3>2, <4>2 DEF Walked
        <5> QED
          BY <1>11, <5>1
      <4>3. CASE k # n /\ k # 1
        <5>1. n # 1 /\ k \in 2 .. n
          BY <1>2, <3>1, <4>3
        <5>2. c \in Graph!Children(trail[k].block) /\ trail[k].block \in Graph!Nodes
          BY <1>24, <3>2, <5>1 DEF Visiting
        <5>3. trail[k].block \in Graph!Idoms(c)
          BY <1>9, <5>2
        <5>4. c = b => trail[k].block = trail[n].block
          BY <1>11, <5>1, <5>3
        <5>5. trail[k].block # trail[n].block
          BY <1>1, <1>3, <1>4, <4>3, <5>1 DEF Walked
        <5> QED
          BY <5>4, <5>5
      <4> QED
        BY <4>1, <4>2, <4>3
    <3> QED
      BY <1>16, <3>3, <3>4
  <2>5. trail'[1].todo \subseteq {blocks[1]} /\ (blocks[1] \in trail'[1].todo \/ L2[blocks[1]] # 0)
    <3>1. trail[1].todo \subseteq {blocks[1]} /\ (blocks[1] \in trail[1].todo \/ L[blocks[1]] # 0)
      BY <1>3 DEF Walked
    <3>2. CASE n = 1
      BY <1>2, <1>4, <1>10, <1>16, <3>1, <3>2
    <3>3. CASE n # 1
      BY <1>2, <1>4, <1>9, <1>11, <1>16, <3>1, <3>3
    <3> QED
      BY <3>2, <3>3
  <2>6. \A x \in Graph!Nodes : L2[x] # 0 => L2[x] = Exit(x) \/ Busy(x)'
    BY <1>3, <1>16, <1>18 DEF Walked
  <2>7. \A d \in Graph!Nodes : Passed(L2, d)' =>
          \A c \in Graph!Children(d) :
            L2[c] # 0 \/ \E k \in 2 .. n + 1 : trail'[k].block = d /\ c \in trail'[k].todo
    <3> TAKE d \in Graph!Nodes
    <3>1. HAVE Passed(L2, d)'
    <3> TAKE c \in Graph!Children(d)
    <3>2. L[c] # 0 \/ \E k \in 2 .. n : trail[k].block = d /\ c \in trail[k].todo
      BY <1>1, <1>3, <1>19, <3>1 DEF Walked
    <3>3. c \in Graph!Nodes
      BY DEF Graph!Children
    <3>4. CASE c = b
      BY <1>16, <3>4
    <3>5. CASE c # b /\ L[c] # 0
      BY <1>16, <3>3, <3>5
    <3>6. CASE c # b /\ L[c] = 0
      <4>1. PICK k \in 2 .. n : trail[k].block = d /\ c \in trail[k].todo
        BY <3>2, <3>6
      <4>2. k \in 1 .. n /\ k \in 2 .. n + 1
        BY <1>2, <4>1
      <4>3. trail'[k].block = d /\ c \in trail'[k].todo
        BY <1>2, <3>6, <4>1, <4>2 DEF Alike
      <4> QED
        BY <4>2, <4>3
    <3> QED
      BY <3>4, <3>5, <3>6
  <2>8. n + 1 - 1 = n
    BY <1>2
  <2> QED
    BY <1>2, <1>6, <2>1, <2>2, <2>3, <2>4, <2>5, <2>6, <2>7, <2>8 DEF Walked
<1>26. Stacked(N2, H2, v)'
  <2>1. /\ H \in [1 .. n -> Nat] /\ H[1] = 0 /\ H[n] = Len(stacks[v])
        /\ \A k \in 1 .. n - 1 : H[k + 1] = H[k] + trail[k + 1].pushed[v]
        /\ \A k, l \in 1 .. n : k <= l => H[k] <= H[l]
        /\ \A k \in 2 .. n :
             N[trail[k].block][trail[k].at] = IF H[k] = 0 THEN NoNumber ELSE stacks[v][H[k]]
    BY <1>1, <1>3 DEF Stacked
  <2>2. Len(stacks'[v]) \in Nat /\ Len(stacks'[v]) >= H[n] /\ H[n] \in Nat
    <3>1. CASE given
      BY <1>7, <2>1, <3>1
    <3>2. CASE ~given
      BY <1>7, <2>1, <3>2
    <3> QED
      BY <3>1, <3>2
  <2>3. /\ H2 \in [1 .. n + 1 -> Nat] /\ H2[n + 1] = Len(stacks'[v])
        /\ \A k \in 1 .. n : H2[k] = H[k] /\ H[k] \in Nat /\ H[k] <= H[n]
    <3>1. n + 1 \in 1 .. n + 1 /\ \A k \in 1 .. n : k \in 1 .. n + 1 /\ k # n + 1 /\ k <= n
      BY <1>2
    <3>2. \A k \in 1 .. n : H2[k] = H[k] /\ H[k] \in Nat
      BY <1>12, <2>1, <3>1
    <3>3. H2 \in [1 .. n + 1 -> Nat]
      BY <1>4, <1>12, <2>1, <2>2
    <3>4. \A k \in 1 .. n : H[k] <= H[n]
      BY <1>4, <2>1, <3>1
    <3> QED
      BY <1>12, <3>1, <3>2, <3>3, <3>4
  <2>4. \A k \in 1 .. n : H2[k + 1] = H2[k] + trail'[k + 1].pushed[v]
    <3> TAKE k \in 1 .. n
    <3>1. CASE k = n
      <4>1. trail'[n + 1].pushed[v] = IF given THEN 1 ELSE 0
        BY <1>2
      <4>2. CASE given
        BY <1>4, <1>7, <2>1, <2>3, <3>1, <4>1, <4>2
      <4>3. CASE ~given
        BY <1>4, <1>7, <2>1, <2>3, <3>1, <4>1, <4>3
      <4> QED
        BY <4>2, <4>3
    <3>2. CASE k # n
      <4>1. k \in 1 .. n - 1 /\ k + 1 \in 1 .. n
        BY <1>2, <3>2
      <4>2. trail'[k + 1].pushed = trail[k + 1].pushed
        BY <1>2, <4>1 DEF Alike
      <4> QED
        BY <2>1, <2>3, <4>1, <4>2
    <3> QED
      BY <3>1, <3>2
  <2>5. \A k, l \in 1 .. n + 1 : k <= l => H2[k] <= H2[l]
    <3> TAKE k, l \in 1 .. n + 1
    <3>1. HAVE k <= l
    <3>2. CASE l = n + 1 /\ k = n + 1
      BY <2>2, <2>3, <3>2
    <3>3. CASE l = n + 1 /\ k # n + 1
      <4>1. k \in 1 .. n
        BY <1>4, <3>3
      <4> QED
        BY <2>2, <2>3, <3>3, <4>1
    <3>4. CASE l # n + 1
      <4>1. k \in 1 .. n /\ l \in 1 .. n
        BY <1>2, <3>1, <3>4
      <4> QED
        BY <2>1, <2>3, <3>1, <4>1
    <3> QED
      BY <3>2, <3>3, <3>4
  <2>6. \A k \in 2 .. n + 1 :
          N2[trail'[k].block][trail'[k].at] = IF H2[k] = 0 THEN NoNumber ELSE stacks'[v][H2[k]]
    <3> TAKE k \in 2 .. n + 1
    <3>1. CASE k = n + 1
      <4>1. trail'[k].block = b /\ trail'[k].at = 1 /\ N2[b][1] = m
        BY <1>2, <1>17, <3>1
      <4>2. CASE given
        <5>1. H2[k] = Len(stacks[v]) + 1 /\ H2[k] # 0
          BY <1>7, <2>3, <3>1, <4>2
        <5> QED
          BY <1>7, <1>12, <4>1, <4>2, <5>1
      <4>3. CASE ~given /\ n = 1
        BY <1>7, <1>12, <2>1, <2>3, <3>1, <4>1, <4>3
      <4>4. CASE ~given /\ n # 1
        <5>1. H2[k] = Len(stacks[v]) /\ H2[k] = H[n]
          BY <1>7, <2>1, <2>3, <3>1, <4>4
        <5>2. H[n] # 0 => H[n] \in 1 .. Len(stacks[v])
          BY <1>7, <2>1
        <5>3. N[above][Exit(above)] = IF H[n] = 0 THEN NoNumber ELSE stacks[v][H[n]]
          BY <1>4, <1>11, <2>1, <4>4
        <5> QED
          BY <1>7, <1>12, <4>1, <4>4, <5>1, <5>2, <5>3
      <4> QED
        BY <4>2, <4>3, <4>4
    <3>2. CASE k # n + 1
      <4>1. k \in 2 .. n /\ k \in 1 .. n
        BY <1>4, <3>2
      <4>2. trail'[k].block = trail[k].block /\ trail'[k].at = trail[k].at /\ H2[k] = H[k]
        BY <1>2, <2>3, <4>1 DEF Alike
      <4>3. N2[trail[k].block] = N[trail[k].block]
        BY <1>17, <1>24, <4>1
      <4>4. H[k] # 0 => stacks'[v][H[k]] = stacks[v][H[k]]
        <5>1. H[k] \in Nat /\ H[k] <= Len(stacks[v])
          BY <2>1, <2>3, <4>1
        <5> QED
          BY <1>7, <5>1
      <4> QED
        BY <2>1, <4>1, <4>2, <4>3, <4>4
    <3> QED
      BY <3>1, <3>2
  <2>7. H2[1] = 0 /\ n + 1 - 1 = n
    BY <1>2, <1>4, <2>1, <2>3
  <2> QED
    BY <1>2, <2>3, <2>4, <2>5, <2>6, <2>7 DEF Stacked
<1> QED
  BY <1>20, <1>21, <1>22, <1>23, <1>25, <1>26 DEF Names

LEMMA placePhisNames ==
  ASSUME DomInv, NumberInv, placePhis, NEW v \in Vars
  PROVE  \E L, N, H : Names(L, N, H, v)'
<1>1. /\ phase = "dominators" /\ UNCHANGED <<flow, doms, counters, stacks>>
      /\ trail' = <<Visit(0, "children", NoPushes, {blocks[1]})>>
  BY DEF placePhis
<1>2. VectorInv /\ FlowInv /\ Len(blocks) # 0 /\ blocks[1] \in Graph!Nodes
  BY <1>1, NodesFacts DEF DomInv, VectorInv
<1>3. /\ Len(trail') = 1 /\ trail'[1].doing = "children" /\ trail'[1].todo = {blocks[1]}
      /\ Last(trail') = trail'[1]
  <2>1. PICK r : r = Visit(0, "children", NoPushes, {blocks[1]})
    OBVIOUS
  <2>2. Len(trail') = 1 /\ trail'[1] = r
    BY <1>1, <2>1, SingleSeq
  <2> QED
    BY <2>1, <2>2 DEF Visit, Last
<1>4. Len(stacks'[v]) = 0 /\ counters'[v] \in Nat
  BY <1>1, NoneIsSeq DEF NumberInv, CountInv
<1>5. /\ Graph!Nodes' = Graph!Nodes /\ blocks' = blocks /\ \A b : Exit(b)' = Exit(b)
      /\ \A b : Graph!Children(b)' = Graph!Children(b)
  BY <1>1, NamesStay
<1>6. PICK L, N, H : /\ L = [b \in Graph!Nodes |-> 0]
                     /\ N = [b \in Graph!Nodes |-> [i \in Nat |-> NoNumber]]
                     /\ H = [k \in 1 .. 1 |-> 0]
  OBVIOUS
<1>7. \A b \in Graph!Nodes : L[b] = 0 /\ Exit(b) \in Nat /\ Exit(b) # 0
  <2> TAKE b \in Graph!Nodes
  <2>1. Len(content[b]) \in Nat
    BY <1>2, VectorsFilled
  <2> QED
    BY <1>6, <2>1 DEF Exit
<1>8. \A b \in Graph!Nodes : ~Passed(L, b)'
  BY <1>5, <1>7 DEF Passed
<1>9. Typed(L, N, v)'
  <2>1. L \in [Graph!Nodes -> Nat] /\ N \in [Graph!Nodes -> [Nat -> Int]]
    BY <1>6 DEF NoNumber
  <2>2. \A b \in Graph!Nodes : L[b] <= Exit(b) /\ \A i \in 1 .. L[b] : FALSE
    BY <1>7
  <2> QED
    BY <1>5, <2>1, <2>2 DEF Typed
<1>10. Along(L, N, v)'
  <2>1. \A b \in Graph!Nodes : \A i \in 1 .. L[b] - 1 : FALSE
    BY <1>7
  <2> QED
    BY <1>5, <2>1 DEF Along
<1>11. Entered(L, N, v)' /\ Handed(L, N, v)'
  BY <1>5, <1>7, <1>8 DEF Entered, Handed
<1>12. Walked(L)'
  <2>1. /\ 2 .. 1 = {} /\ 1 .. 1 - 1 = {} /\ \A k \in 1 .. 1 : k = 1
    OBVIOUS
  <2> QED
    BY <1>2, <1>3, <1>5, <1>7, <1>8, <2>1 DEF Walked
<1>13. Stacked(N, H, v)'
  <2>1. /\ 2 .. 1 = {} /\ 1 .. 1 - 1 = {} /\ 1 \in 1 .. 1 /\ \A k \in 1 .. 1 : k = 1
    OBVIOUS
  <2>2. H \in [1 .. 1 -> Nat] /\ H[1] = 0
    BY <1>6, <2>1
  <2>3. \A k, l \in 1 .. 1 : k <= l => H[k] <= H[l]
    BY <2>1, <2>2
  <2> QED
    BY <1>3, <1>4, <2>1, <2>2, <2>3 DEF Stacked
<1> QED
  BY <1>9, <1>10, <1>11, <1>12, <1>13 DEF Names

LEMMA TreeKeeps ==
  ASSUME DomInv, NumberInv, TreeInv, [Next]_vars
  PROVE  TreeInv'
<1>1. CASE BuildGraph \/ BuildDoms \/ SweepDoms
  <2>1. phase' \in {"graph", "dominators"}
    BY <1>1 DEF BuildGraph, BuildDoms, SweepDoms
  <2> QED
    BY <2>1 DEF TreeInv
<1>2. ASSUME UNCHANGED <<flow, doms, cursor, changed>>
      PROVE  /\ Graph!Settled' = Graph!Settled
             /\ Graph!Nodes' = Graph!Nodes /\ Connected' = Connected
             /\ \A d, b : Ends(d, b)' = Ends(d, b)
             /\ \A v : AssignedIn(v)' = AssignedIn(v)
  <2>1. Graph!Settled' = Graph!Settled
    BY <1>2 DEF Graph!Settled, flow
  <2> QED
    BY <1>2, <2>1, TreeStays, CodeStays
<1>3. CASE placePhis
  <2>1. /\ phase = "dominators" /\ Graph!Settled /\ UNCHANGED <<flow, doms, cursor, changed>>
        /\ phis' = [p \in Anchors |-> [gen |-> 0, args |-> <<>>]]
    BY <1>3 DEF placePhis
  <2>2. FlowInv /\ Len(blocks) # 0 /\ SweepInv
    BY <2>1 DEF DomInv, VectorInv
  <2>3. DOMAIN phis' = Anchors /\ \A p \in Anchors : DOMAIN phis'[p] = {"gen", "args"}
    BY <2>1
  <2>4. ASSUME NEW p \in Anchors
        PROVE  /\ p \in Graph!Nodes \X Vars
               /\ Connected => \E d \in AssignedIn(p[2]) : Ends(d, p[1])
    <3>1. p \in Graph!Nodes \X Vars /\ p[1] \in Meeting(p[2])
      BY DEF Anchors
    <3>2. PICK d \in GenBlocks(p[2]) : p[1] \in Graph!Frontier(d)
      BY <3>1 DEF Meeting
    <3>3. d \in AssignedIn(p[2]) /\ d \in Graph!Nodes
      BY <3>2 DEF GenBlocks, AssignedIn, Graph!Nodes
    <3>4. p[1] \in Graph!Nodes
      BY <3>1
    <3>5. Connected => Ends(d, p[1])
      BY <2>1, <2>2, <3>2, <3>3, <3>4, FrontierIs DEF Ends
    <3> QED
      BY <3>1, <3>3, <3>5
  <2>5. PhiInv'
    BY <1>2, <2>1, <2>3, <2>4 DEF PhiInv
  <2> QED
    BY <1>2, <2>1, <2>5 DEF TreeInv
<1>4. ASSUME phase \in {"numbering", "running"}, UNCHANGED <<flow, doms, cursor, changed>>,
             DOMAIN phis' \subseteq DOMAIN phis,
             \A p \in DOMAIN phis' : DOMAIN phis[p] = {"gen", "args"} => DOMAIN phis'[p] = {"gen", "args"}
      PROVE  TreeInv'
  <2>1. Graph!Settled /\ PhiInv
    BY <1>4 DEF TreeInv
  <2>2. PhiInv'
    BY <1>2, <1>4, <2>1 DEF PhiInv
  <2> QED
    BY <1>2, <1>4, <2>1, <2>2 DEF TreeInv
<1>5. CASE indexVars
  <2>1. PICK b : phis' = [p \in DOMAIN phis |-> IF p[1] = b THEN [phis[p] EXCEPT !.gen = counters[p[2]]]
                                                ELSE phis[p]]
    BY <1>5 DEF indexVars
  <2>2. phase = "numbering" /\ UNCHANGED <<flow, doms, cursor, changed>>
    BY <1>5 DEF indexVars, Indexing
  <2>3. DOMAIN phis' = DOMAIN phis
        /\ \A p \in DOMAIN phis : DOMAIN phis'[p] = DOMAIN phis[p]
    BY <2>1
  <2> QED
    BY <1>4, <2>2, <2>3
<1>6. CASE passOn
  <2>1. PICK b : phis' = PassOn(b)
    BY <1>6 DEF passOn
  <2>2. phase = "numbering" /\ UNCHANGED <<flow, doms, cursor, changed>>
    BY <1>6 DEF passOn, Indexing
  <2>3. PICK meant, dropped :
          phis' = [p \in DOMAIN phis \ dropped |->
                     IF p \in meant
                     THEN [phis[p] EXCEPT !.args = Over([q \in {b} |-> Last(stacks[p[2]])], @)]
                     ELSE phis[p]]
    BY <2>1 DEF PassOn
  <2>4. DOMAIN phis' \subseteq DOMAIN phis
        /\ \A p \in DOMAIN phis' : DOMAIN phis'[p] = DOMAIN phis[p]
    BY <2>3
  <2> QED
    BY <1>4, <2>2, <2>4
<1>7. CASE numberElement \/ popNumbers \/ Start \/ RunElement
  <2>1. phase \in {"numbering", "running"} /\ UNCHANGED <<flow, doms, cursor, changed, phis>>
    BY <1>7 DEF numberElement, popNumbers, Indexing, Start, RunElement, numbers
  <2> QED
    BY <1>4, <2>1
<1>8. CASE UNCHANGED vars
  <2>1. UNCHANGED <<flow, doms, cursor, changed, phis, phase>>
    BY <1>8 DEF vars, numbers
  <2>2. phase \notin {"numbering", "running"} => TreeInv'
    BY <2>1 DEF TreeInv
  <2> QED
    BY <1>4, <2>1, <2>2
<1> QED
  BY <1>1, <1>3, <1>5, <1>6, <1>7, <1>8 DEF Next, Analyse

LEMMA NamesKeep ==
  ASSUME DomInv, NumberInv, TreeInv, NamesInv, [Next]_vars
  PROVE  NamesInv'
<1> SUFFICES ASSUME phase' = "numbering", NEW v \in Vars, Sound(v)'
             PROVE  (\E L, N, H : Names(L, N, H, v))'
  BY DEF NamesInv
<1>1. CASE BuildGraph \/ BuildDoms \/ SweepDoms \/ Start \/ RunElement
  <2>1. phase' # "numbering"
    BY <1>1 DEF BuildGraph, BuildDoms, SweepDoms, Start, RunElement
  <2> QED
    BY <2>1
<1>2. CASE placePhis
  BY <1>2, placePhisNames
<1>3. ASSUME phase = "numbering", UNCHANGED <<flow, doms>>, DOMAIN phis' \subseteq DOMAIN phis
      PROVE  \E L, N, H : Midway(L, N, H, v)
  <2>1. Sound(v)
    BY <1>3, SoundStays
  <2>2. PICK L, N, H : Names(L, N, H, v)
    BY <1>3, <2>1 DEF NamesInv
  <2>3. Midway(L, N, H, v)
    BY <1>3, <2>1, <2>2 DEF Midway, TreeInv
  <2> QED
    BY <2>3
<1>4. CASE indexVars
  <2>1. phase = "numbering" /\ UNCHANGED <<flow, doms>> /\ DOMAIN phis' \subseteq DOMAIN phis
    BY <1>4 DEF indexVars, Indexing
  <2>2. PICK L, N, H : Midway(L, N, H, v)
    BY <1>3, <2>1
  <2> QED
    BY <1>4, <2>2, indexVarsNames
<1>5. CASE numberElement
  <2>1. phase = "numbering" /\ UNCHANGED <<flow, doms>> /\ DOMAIN phis' \subseteq DOMAIN phis
    BY <1>5 DEF numberElement, Indexing
  <2>2. PICK L, N, H : Midway(L, N, H, v)
    BY <1>3, <2>1
  <2> QED
    BY <1>5, <2>2, numberElementNames
<1>6. CASE passOn
  <2>1. phase = "numbering" /\ UNCHANGED <<flow, doms>> /\ DOMAIN phis' \subseteq DOMAIN phis
    BY <1>6 DEF passOn, Indexing, PassOn
  <2>2. PICK L, N, H : Midway(L, N, H, v)
    BY <1>3, <2>1
  <2> QED
    BY <1>6, <2>2, passOnNames
<1>7. CASE popNumbers
  <2>1. phase = "numbering" /\ UNCHANGED <<flow, doms>> /\ DOMAIN phis' \subseteq DOMAIN phis
    BY <1>7 DEF popNumbers, Indexing
  <2>2. PICK L, N, H : Midway(L, N, H, v)
    BY <1>3, <2>1
  <2> QED
    BY <1>7, <2>2, popNumbersNames
<1>8. CASE UNCHANGED vars
  <2>1. UNCHANGED <<flow, doms, phis, counters, stacks, uses, gens, trail, phase>>
    BY <1>8 DEF vars, numbers
  <2>2. PICK L, N, H : Midway(L, N, H, v)
    BY <1>3, <2>1
  <2>3. /\ Graph!Nodes' = Graph!Nodes /\ blocks' = blocks /\ content' = content
        /\ \A b : /\ Graph!Idoms(b)' = Graph!Idoms(b) /\ Graph!Children(b)' = Graph!Children(b)
                  /\ Graph!Successors(b)' = Graph!Successors(b)
                  /\ Exit(b)' = Exit(b)
        /\ \A e : Numbered(e)' = Numbered(e) /\ Uses(prog, e)' = Uses(prog, e)
    BY <2>1, NamesStay
  <2>4. Names(L, N, H, v)
    BY <2>2 DEF Midway
  <2>5. \A b : (Busy(b)' <=> Busy(b)) /\ (Passed(L, b)' <=> Passed(L, b))
    BY <2>1, <2>3 DEF Busy, Passed
  <2>6. Typed(L, N, v)' /\ Along(L, N, v)' /\ Entered(L, N, v)' /\ Handed(L, N, v)'
    BY <2>1, <2>3, <2>4, <2>5 DEF Names, Typed, Along, Entered, Handed
  <2>7. \A r : Visiting(L, r)' <=> Visiting(L, r)
    BY <2>3 DEF Visiting
  <2>8. Walked(L)' /\ Stacked(N, H, v)'
    BY <2>1, <2>3, <2>4, <2>5, <2>7 DEF Names, Walked, Stacked
  <2> QED
    BY <2>6, <2>8 DEF Names
<1> QED
  BY <1>1, <1>2, <1>4, <1>5, <1>6, <1>7, <1>8 DEF Next, Analyse

-----------------------------------------------------------------------------
(* The program with the numbers.  The phi functions of a variable are      *)
(* where its values meet: those that elements assign, and those that phi   *)
(* functions make.                                                         *)
Placed(v) == {b \in Graph!Nodes : <<b, v>> \in DOMAIN phis}
Meets(v) ==
  \A d \in AssignedIn(v) \union Placed(v), b \in Graph!Nodes : Ends(d, b) => b \in Placed(v)

Sure(v) == Connected /\ EachOnce /\ Plain(v) /\ Meets(v)

(* Wherever the numbers come from, on every way one that holds is the one  *)
(* that held before, and a phi function takes the one that arrives.        *)
Certified(N, v) ==
  /\ N \in [Graph!Nodes -> [Nat -> Int]]
  /\ \A b \in Graph!Nodes :
       /\ \A i \in 1 .. Exit(b) : N[b][i] = NoNumber \/ N[b][i] \in 0 .. counters[v] - 1
       /\ \A i \in 1 .. Len(content[b]) :
            /\ v \in Uses(prog, content[b][i]) =>
                 uses[<<content[b][i], v>>] = N[b][i] /\ N[b][i] # NoNumber
            /\ Numbered(content[b][i]) = v => content[b][i] \in DOMAIN gens /\ N[b][i + 1] = gens[content[b][i]]
            /\ Numbered(content[b][i]) # v => N[b][i + 1] = N[b][i]
       /\ \A s \in Graph!Successors(b) :
            IF <<s, v>> \in DOMAIN phis
            THEN /\ N[s][1] = phis[<<s, v>>].gen
                 /\ b \in DOMAIN phis[<<s, v>>].args /\ phis[<<s, v>>].args[b] = N[b][Exit(b)]
                 /\ N[b][Exit(b)] # NoNumber
            ELSE N[s][1] = NoNumber \/ N[s][1] = N[b][Exit(b)]

LEMMA SureIsSound ==
  ASSUME NEW v, Sure(v)
  PROVE  Sound(v)
<1>1. \A d \in AssignedIn(v), b \in Graph!Nodes : Ends(d, b) => <<b, v>> \in DOMAIN phis
  BY DEF Sure, Meets, Placed
<1> QED
  BY <1>1 DEF Sure, Sound, Kept

(* indexVars has come to an end with every block. *)
LEMMA AllVisited ==
  ASSUME NEW v \in Vars, NEW L, NEW N, NEW H, Midway(L, N, H, v), phase = "numbering",
         Len(trail) = 1, trail[1].todo = {}, trail[1].doing = "children"
  PROVE  \A b \in Graph!Nodes : L[b] = Exit(b) /\ Passed(L, b)
<1>1. /\ FlowInv /\ VectorInv /\ Len(blocks) # 0 /\ Connected /\ Exact /\ blocks[1] \in Graph!Nodes
      /\ \A b \in Graph!Nodes : b # blocks[1] =>
           \E d \in Graph!Nodes : /\ Graph!Idoms(b) = {d} /\ d \in Graph!Dominators(b) \ {b}
                                  /\ Graph!Dominators(d) = Graph!Dominators(b) \ {b}
      /\ \A d \in Graph!Nodes : \A b : b \in Graph!Children(d) <=> b \in Graph!Nodes /\ d \in Graph!Idoms(b)
  BY TreeFacts DEF Midway, Sound, DomInv
<1>2. Walked(L) /\ Typed(L, N, v)
  BY DEF Midway, Names
<1>3. \A b : ~Busy(b)
  BY DEF Busy, Last
<1>4. \A b \in Graph!Nodes : Passed(L, b) <=> L[b] # 0
  <2> TAKE b \in Graph!Nodes
  <2>1. Len(content[b]) \in Nat
    BY <1>1, VectorsFilled
  <2>2. Exit(b) # 0
    BY <2>1 DEF Exit
  <2> QED
    BY <1>2, <1>3, <2>2 DEF Walked, Passed
<1>5. L[blocks[1]] # 0
  BY <1>2 DEF Walked
<1>6. 2 .. 1 = {}
  OBVIOUS
<1>7. \A d \in Graph!Nodes : L[d] # 0 => \A c \in Graph!Children(d) : L[c] # 0
  BY <1>2, <1>4, <1>6 DEF Walked
<1> DEFINE T == {b \in Graph!Nodes : L[b] = 0}
           size(b) == Cardinality(Graph!Dominators(b))
           sizes == {size(b) : b \in T}
<1>8. \A b \in Graph!Nodes : size(b) \in Nat /\ IsFiniteSet(Graph!Dominators(b)) /\ b \in Graph!Dominators(b)
  BY <1>1, DominatorsSized
<1>9. T = {}
  <2> SUFFICES ASSUME T # {} PROVE FALSE
    OBVIOUS
  <2>1. sizes \in SUBSET Nat /\ sizes # {}
    BY <1>8
  <2> HIDE DEF size
  <2>2. PICK m \in sizes : \A k \in sizes : m <= k
    BY <2>1, LeastNatural
  <2>3. PICK b \in T : \A c \in T : size(b) <= size(c)
    BY <2>2
  <2>4. b # blocks[1] /\ b \in Graph!Nodes
    BY <1>5, <2>3
  <2>5. PICK d \in Graph!Nodes : /\ Graph!Idoms(b) = {d}
                                 /\ Graph!Dominators(d) = Graph!Dominators(b) \ {b}
    BY <1>1, <2>4
  <2>6. size(d) = size(b) - 1
    BY <1>8, <2>4, <2>5, FS_RemoveElement DEF size
  <2>7. ~(size(b) <= size(d))
    BY <1>8, <2>4, <2>6
  <2>8. L[d] # 0
    BY <2>3, <2>5, <2>7
  <2>9. b \in Graph!Children(d)
    BY <1>1, <2>4, <2>5
  <2> QED
    BY <1>7, <2>3, <2>5, <2>8, <2>9
<1> HIDE DEF size, sizes
<1> QED
  BY <1>2, <1>4, <1>9 DEF Passed

(* A number holds through a block that assigns nothing. *)
LEMMA HoldsThrough ==
  ASSUME NEW v \in Vars, NEW N, NEW b \in Graph!Nodes, VectorInv,
         \A i \in 1 .. Len(content[b]) : N[b][i + 1] = N[b][i]
  PROVE  N[b][Exit(b)] = N[b][1]
<1> DEFINE T == {i \in 1 .. Exit(b) : N[b][i] # N[b][1]}
<1>1. Len(content[b]) \in Nat
  BY VectorsFilled
<1>2. T = {}
  <2> SUFFICES ASSUME T # {} PROVE FALSE
    OBVIOUS
  <2>1. T \in SUBSET Nat
    OBVIOUS
  <2>2. PICK i \in T : \A j \in T : i <= j
    BY <2>1, LeastNatural
  <2>3. i \in Nat /\ i # 1 /\ i >= 1 /\ i <= Len(content[b]) + 1
    BY <1>1 DEF Exit
  <2>4. i - 1 \in 1 .. Len(content[b]) /\ i - 1 \in 1 .. Exit(b) /\ ~(i <= i - 1) /\ i - 1 + 1 = i
    BY <1>1, <2>3 DEF Exit
  <2>5. N[b][i - 1] = N[b][1]
    BY <2>2, <2>4
  <2>6. N[b][i - 1 + 1] = N[b][i - 1]
    BY <2>4
  <2> QED
    BY <2>2, <2>4, <2>5, <2>6
<1>3. Exit(b) \in 1 .. Exit(b)
  BY <1>1 DEF Exit
<1> QED
  BY <1>2, <1>3

(* Where no phi function of a variable is, one number arrives on all ways: *)
(* the one of the immediate dominator.                                     *)
LEMMA OneArrives ==
  ASSUME NEW v \in Vars, NEW L, NEW N, NEW H, Midway(L, N, H, v), phase = "numbering", Meets(v),
         \A b \in Graph!Nodes : L[b] = Exit(b),
         NEW s \in Graph!Nodes, s # blocks[1], s \notin Placed(v),
         NEW p \in Graph!Preds(s), NEW i \in Graph!Idoms(s)
  PROVE  N[p][Exit(p)] = N[i][Exit(i)]
<1>1. /\ FlowInv /\ VectorInv /\ Len(blocks) # 0 /\ SweepInv /\ Connected /\ Exact
      /\ blocks[1] \in Graph!Nodes
      /\ \A b \in Graph!Nodes : b # blocks[1] =>
           \E d \in Graph!Nodes : /\ Graph!Idoms(b) = {d} /\ d \in Graph!Dominators(b) \ {b}
                                  /\ Graph!Dominators(d) = Graph!Dominators(b) \ {b}
  BY TreeFacts DEF Midway, Sound, DomInv
<1>2. /\ i \in Graph!Nodes /\ i \in Graph!Dominators(s) \ {s}
      /\ Graph!Dominators(i) = Graph!Dominators(s) \ {s}
  BY <1>1
<1>3. p \in Graph!Nodes /\ Graph!Dominates(i, p)
  <2>1. doms[s] = Graph!NewList(s) /\ p \in Graph!Nodes
    BY <1>1, SettledShares DEF Midway, Graph!Preds
  <2>2. i \in Graph!NewList(s) /\ i # s
    BY <1>1, <1>2, <2>1 DEF Exact
  <2>3. i \in doms[p]
    BY <2>2 DEF Graph!NewList
  <2> QED
    BY <1>1, <2>1, <2>3 DEF Exact, Graph!Dominators
<1>4. \A c, e \in Graph!Nodes : e \in Graph!Dominators(c) <=> Graph!Dominates(e, c)
  BY DEF Graph!Dominators
<1> DEFINE T == {x \in Graph!Nodes : /\ Graph!Dominates(i, x) /\ Graph!Dominates(x, p)
                                     /\ N[x][Exit(x)] # N[i][Exit(i)]}
           size(b) == Cardinality(Graph!Dominators(b))
           sizes == {size(b) : b \in T}
<1>5. \A b \in Graph!Nodes : size(b) \in Nat /\ IsFiniteSet(Graph!Dominators(b)) /\ b \in Graph!Dominators(b)
  BY <1>1, DominatorsSized
<1>6. T = {}
  <2> SUFFICES ASSUME T # {} PROVE FALSE
    OBVIOUS
  <2>1. sizes \in SUBSET Nat /\ sizes # {}
    BY <1>5
  <2> HIDE DEF size
  <2>2. PICK m \in sizes : \A k \in sizes : m <= k
    BY <2>1, LeastNatural
  <2>3. PICK x \in T : \A c \in T : size(x) <= size(c)
    BY <2>2
  <2>4. x \in Graph!Nodes /\ Graph!Dominates(i, x) /\ Graph!Dominates(x, p) /\ x # i
    BY <2>3
  <2>5. x # blocks[1]
    <3>1. Graph!Dominators(blocks[1]) = {blocks[1]}
      BY <1>1, FirstHasNone
    <3> QED
      BY <1>2, <1>4, <2>4, <3>1
  <2>6. PICK d \in Graph!Nodes : /\ Graph!Idoms(x) = {d} /\ d \in Graph!Dominators(x)
                                 /\ Graph!Dominators(d) = Graph!Dominators(x) \ {x}
    BY <1>1, <2>4, <2>5
  <2>7. Graph!Dominates(i, d)
    BY <1>2, <1>4, <2>4, <2>6
  <2>8. Graph!Dominates(d, p)
    <3>1. Graph!Dominates(d, x)
      BY <1>4, <2>4, <2>6
    <3> QED
      BY <1>1, <1>3, <2>4, <3>1, DominanceTransitive
  <2>9. ~(size(x) <= size(d))
    <3>1. size(d) = size(x) - 1
      BY <1>5, <2>4, <2>6, FS_RemoveElement, ZenonT(60) DEF size
    <3> QED
      BY <1>5, <2>4, <3>1
  <2>10. N[d][Exit(d)] = N[i][Exit(i)]
    BY <2>3, <2>7, <2>8, <2>9
  <2>11. Ends(x, s)
    <3>1. x = s \/ ~Graph!Dominates(x, s)
      <4> SUFFICES ASSUME x # s, Graph!Dominates(x, s) PROVE FALSE
        OBVIOUS
      <4>1. Graph!Dominates(x, i)
        BY <1>2, <1>4, <2>4
      <4> QED
        BY <1>1, <1>2, <2>4, <4>1, DominanceAntisymmetric
    <3> QED
      BY <2>4, <3>1 DEF Ends
  <2>12. x \notin AssignedIn(v) /\ <<x, v>> \notin DOMAIN phis
    BY <2>4, <2>11 DEF Meets, Placed
  <2>13. Typed(L, N, v) /\ Along(L, N, v) /\ Entered(L, N, v) /\ Plain(v)
    BY DEF Midway, Names, Sound
  <2>14. L[x] = Exit(x) /\ Len(content[x]) \in Nat /\ DOMAIN content[x] = 1 .. Len(content[x])
    BY <1>1, <2>4, VectorsFilled
  <2>15. N[x][1] = N[d][Exit(d)]
    <3>1. L[x] # 0
      BY <2>14 DEF Exit
    <3> QED
      BY <2>4, <2>6, <2>12, <2>13, <3>1 DEF Entered
  <2>16. ASSUME NEW j \in 1 .. Len(content[x]) PROVE N[x][j + 1] = N[x][j]
    <3>1. j \in 1 .. L[x] - 1 /\ j \in DOMAIN content[x]
      BY <2>14 DEF Exit
    <3>2. Generator(content[x][j]) # v
      BY <2>4, <2>12, <3>1 DEF AssignedIn, Assignments
    <3>3. Declaration(content[x][j]) # v
      BY <2>4, <2>5, <2>13, <3>1 DEF Plain
    <3>4. Numbered(content[x][j]) # v
      BY <3>2, <3>3 DEF Numbered
    <3> QED
      BY <2>4, <2>13, <3>1, <3>4 DEF Along
  <2>17. N[x][Exit(x)] = N[x][1]
    BY <1>1, <2>4, <2>16, HoldsThrough
  <2> QED
    BY <2>3, <2>10, <2>15, <2>17
<1> HIDE DEF size, sizes
<1>7. Graph!Dominates(p, p)
  BY DEF Graph!Dominates
<1> QED
  BY <1>3, <1>6, <1>7

LEMMA NumberingCertified ==
  ASSUME NEW v \in Vars, NEW L, NEW N, NEW H, Midway(L, N, H, v), phase = "numbering", Meets(v),
         Len(trail) = 1, trail[1].todo = {}, trail[1].doing = "children"
  PROVE  Certified(N, v)
<1>1. \A b \in Graph!Nodes : L[b] = Exit(b) /\ Passed(L, b)
  BY AllVisited
<1>2. /\ Typed(L, N, v) /\ Along(L, N, v) /\ Entered(L, N, v) /\ Handed(L, N, v)
      /\ VectorInv /\ FlowInv
  BY DEF Midway, Names, DomInv, VectorInv
<1>3. /\ \A b \in Graph!Nodes : b # blocks[1] => \E d \in Graph!Nodes : Graph!Idoms(b) = {d}
      /\ blocks[1] \in Graph!Nodes
  BY TreeFacts DEF Midway, Sound
<1>4. N \in [Graph!Nodes -> [Nat -> Int]]
  BY <1>2 DEF Typed
<1> SUFFICES ASSUME NEW b \in Graph!Nodes
             PROVE  /\ \A i \in 1 .. Exit(b) : N[b][i] = NoNumber \/ N[b][i] \in 0 .. counters[v] - 1
                    /\ \A i \in 1 .. Len(content[b]) :
                         /\ v \in Uses(prog, content[b][i]) =>
                              uses[<<content[b][i], v>>] = N[b][i] /\ N[b][i] # NoNumber
                         /\ Numbered(content[b][i]) = v =>
                              content[b][i] \in DOMAIN gens /\ N[b][i + 1] = gens[content[b][i]]
                         /\ Numbered(content[b][i]) # v => N[b][i + 1] = N[b][i]
                    /\ \A s \in Graph!Successors(b) :
                         IF <<s, v>> \in DOMAIN phis
                         THEN /\ N[s][1] = phis[<<s, v>>].gen
                              /\ b \in DOMAIN phis[<<s, v>>].args
                              /\ phis[<<s, v>>].args[b] = N[b][Exit(b)]
                              /\ N[b][Exit(b)] # NoNumber
                         ELSE N[s][1] = NoNumber \/ N[s][1] = N[b][Exit(b)]
  BY <1>4 DEF Certified
<1>5. \A i \in 1 .. Exit(b) : N[b][i] = NoNumber \/ N[b][i] \in 0 .. counters[v] - 1
  BY <1>1, <1>2 DEF Typed
<1>6. ASSUME NEW i \in 1 .. Len(content[b])
      PROVE  /\ v \in Uses(prog, content[b][i]) =>
                  uses[<<content[b][i], v>>] = N[b][i] /\ N[b][i] # NoNumber
             /\ Numbered(content[b][i]) = v =>
                  content[b][i] \in DOMAIN gens /\ N[b][i + 1] = gens[content[b][i]]
             /\ Numbered(content[b][i]) # v => N[b][i + 1] = N[b][i]
  <2>1. Len(content[b]) \in Nat
    BY <1>2, VectorsFilled
  <2>2. i \in 1 .. L[b] - 1
    BY <1>1, <2>1 DEF Exit
  <2> QED
    BY <1>2, <2>2 DEF Along
<1>7. ASSUME NEW s \in Graph!Successors(b), <<s, v>> \in DOMAIN phis
      PROVE  /\ N[s][1] = phis[<<s, v>>].gen
             /\ b \in DOMAIN phis[<<s, v>>].args /\ phis[<<s, v>>].args[b] = N[b][Exit(b)]
             /\ N[b][Exit(b)] # NoNumber
  <2>1. s \in Graph!Nodes
    BY DEF Graph!Successors
  <2>2. Len(content[s]) \in Nat
    BY <1>2, <2>1, VectorsFilled
  <2>3. L[s] # 0
    BY <1>1, <2>1, <2>2 DEF Exit
  <2> QED
    BY <1>1, <1>2, <1>7, <2>1, <2>3 DEF Entered, Handed
<1>8. ASSUME NEW s \in Graph!Successors(b), <<s, v>> \notin DOMAIN phis
      PROVE  N[s][1] = NoNumber \/ N[s][1] = N[b][Exit(b)]
  <2>1. s \in Graph!Nodes
    BY DEF Graph!Successors
  <2>2. Len(content[s]) \in Nat
    BY <1>2, <2>1, VectorsFilled
  <2>3. L[s] # 0
    BY <1>1, <2>1, <2>2 DEF Exit
  <2>4. CASE s = blocks[1]
    BY <1>2, <1>8, <2>1, <2>3, <2>4 DEF Entered
  <2>5. CASE s # blocks[1]
    <3>1. PICK d \in Graph!Nodes : Graph!Idoms(s) = {d}
      BY <1>3, <2>1, <2>5
    <3>2. N[s][1] = N[d][Exit(d)]
      BY <1>2, <1>8, <2>1, <2>3, <3>1 DEF Entered
    <3>3. b \in Graph!Preds(s) /\ s \notin Placed(v) /\ d \in Graph!Idoms(s)
      BY <1>8, <3>1 DEF Graph!Preds, Placed
    <3>4. N[b][Exit(b)] = N[d][Exit(d)]
      BY <1>1, <2>1, <2>5, <3>3, OneArrives
    <3> QED
      BY <3>2, <3>4
  <2> QED
    BY <2>4, <2>5
<1> QED
  BY <1>5, <1>6, <1>7, <1>8

(* The program goes its way: the number that holds has the value of the    *)
(* variable.                                                               *)
Follows(N, v) ==
  N[place.block][place.at] # NoNumber => held[v][N[place.block][place.at]] = truth[v]

PlaceInv ==
  /\ place.block \in Graph!Nodes /\ place.at \in 1 .. Len(content[place.block])
  /\ DOMAIN truth = Vars

RightInv ==
  phase = "running" =>
    PlaceInv /\ \A v \in Vars : Sure(v) => \E N : Certified(N, v) /\ Follows(N, v)

LEMMA SureStays ==
  ASSUME UNCHANGED <<flow, doms, phis, counters, uses, gens>>, NEW v
  PROVE  Sure(v)' = Sure(v) /\ Meets(v)' = Meets(v) /\ \A N : Certified(N, v)' = Certified(N, v)
<1>1. /\ Graph!Nodes' = Graph!Nodes /\ Connected' = Connected /\ EachOnce' = EachOnce
      /\ blocks' = blocks /\ content' = content
      /\ \A d, b : Ends(d, b)' = Ends(d, b)
      /\ \A b : Graph!Successors(b)' = Graph!Successors(b) /\ Exit(b)' = Exit(b)
      /\ \A w, path : isVisible(w, path)' = isVisible(w, path)
      /\ \A e : /\ Generator(e)' = Generator(e) /\ Declaration(e)' = Declaration(e)
                /\ Def(prog, e)' = Def(prog, e) /\ Numbered(e)' = Numbered(e)
                /\ Uses(prog, e)' = Uses(prog, e)
      /\ AssignedIn(v)' = AssignedIn(v)
  BY TreeStays, CodeStays DEF flow, Exit
<1>2. Plain(v)' = Plain(v)
  BY <1>1 DEF Plain
<1>3. Placed(v)' = Placed(v)
  BY <1>1 DEF Placed
<1>4. Meets(v)' = Meets(v)
  BY <1>1, <1>3 DEF Meets
<1>5. ASSUME NEW N PROVE Certified(N, v)' = Certified(N, v)
  BY <1>1 DEF Certified
<1> QED
  BY <1>1, <1>2, <1>4, <1>5 DEF Sure

LEMMA StartRight ==
  ASSUME DomInv, NumberInv, TreeInv, NamesInv, Start
  PROVE  RightInv'
<1>1. /\ phase = "numbering" /\ phase' = "running" /\ Len(trail) = 1
      /\ Last(trail).doing = "children" /\ Last(trail).todo = {}
      /\ UNCHANGED <<flow, doms, phis, counters, uses, gens>>
      /\ place' = [block |-> blocks[1], at |-> 1]
  BY DEF Start, Indexing, numbers
<1>2. PICK nothing \in Data :
        /\ truth' = [v \in Vars |-> nothing]
        /\ held' = [v \in Vars |-> [n \in 0 .. counters[v] - 1 |-> nothing]]
  BY DEF Start
<1>3. trail[1].doing = "children" /\ trail[1].todo = {}
  BY <1>1 DEF Last
<1>4. blocks[1] \in Graph!Nodes /\ VectorInv
  BY <1>1, NodesFacts DEF DomInv, VectorInv
<1>5. Len(content[blocks[1]]) \in Nat \ {0}
  BY <1>4, VectorsFilled
<1>6. Graph!Nodes' = Graph!Nodes /\ content' = content
  BY <1>1, NamesStay
<1>7. PlaceInv'
  BY <1>1, <1>2, <1>4, <1>5, <1>6 DEF PlaceInv
<1>8. ASSUME NEW v \in Vars, Sure(v)'
      PROVE  \E N : Certified(N, v)' /\ Follows(N, v)'
  <2>1. Sure(v)
    BY <1>1, <1>8, SureStays
  <2>2. PICK L, N, H : Names(L, N, H, v)
    BY <1>1, <2>1, SureIsSound DEF NamesInv
  <2>3. Midway(L, N, H, v)
    BY <1>1, <2>1, <2>2, SureIsSound DEF Midway, TreeInv
  <2>4. Certified(N, v)
    BY <1>1, <1>3, <2>1, <2>3, NumberingCertified DEF Sure
  <2>5. Certified(N, v)'
    BY <1>1, <2>4, SureStays
  <2>6. 1 \in 1 .. Exit(blocks[1])
    BY <1>5 DEF Exit
  <2>7. N[blocks[1]][1] = NoNumber \/ N[blocks[1]][1] \in 0 .. counters[v] - 1
    BY <1>4, <2>4, <2>6 DEF Certified
  <2>8. Follows(N, v)'
    BY <1>1, <1>2, <2>7 DEF Follows
  <2> QED
    BY <2>5, <2>8
<1> QED
  BY <1>7, <1>8 DEF RightInv

(* What a plain variable is assigned is what it is numbered for. *)
LEMMA AssignedIsNumbered ==
  ASSUME NEW v \in Vars, Plain(v), NEW b \in Graph!Nodes, NEW i \in DOMAIN content[b],
         NEW e, e = content[b][i]
  PROVE  Assigned(e) = v <=> Numbered(e) = v
<1>1. Def(prog, e) = v => Generator(e) = v
  BY DEF Plain
<1>2. Generator(e) # None => Generator(e) = Def(prog, e)
  BY DEF Generator
<1>3. Def(prog, e) # None /\ Declaration(e) # None => FALSE
  BY DEF Def, Declaration, DeclaredAt
<1>4. v # None
  BY DataAssumption
<1> QED
  BY <1>1, <1>2, <1>3, <1>4 DEF Assigned, Numbered

LEMMA RunElementRight ==
  ASSUME DomInv, NumberInv, RightInv, RunElement
  PROVE  RightInv'
<1>1. PICK b, i, e : b = place.block /\ i = place.at /\ e = content[b][i] /\ e = Here
  BY DEF Here
<1>2. PICK value \in Data :
        /\ truth' = IF Assigned(e) = None THEN truth ELSE [truth EXCEPT ![Assigned(e)] = value]
        /\ IF i < Len(content[b])
           THEN place' = [place EXCEPT !.at = @ + 1] /\ held' = Written(held, e, value)
           ELSE \E s \in Range(succ[b]) \ {0}, missing \in Data :
                  /\ place' = [block |-> s, at |-> 1]
                  /\ held' = Merged(Written(held, e, value), b, s, missing)
  BY <1>1 DEF RunElement
<1>3. /\ phase = "running" /\ phase' = phase
      /\ UNCHANGED <<flow, doms, phis, counters, uses, gens>>
  BY DEF RunElement, numbers
<1>4. /\ PlaceInv /\ VectorInv /\ FlowInv /\ HeldInv
      /\ \A v \in Vars : Sure(v) => \E N : Certified(N, v) /\ Follows(N, v)
  BY <1>3 DEF RightInv, DomInv, VectorInv, NumberInv
<1>5. /\ b \in Graph!Nodes /\ i \in 1 .. Len(content[b]) /\ Len(content[b]) \in Nat
      /\ i \in DOMAIN content[b] /\ DOMAIN truth = Vars
  BY <1>1, <1>4, VectorsFilled DEF PlaceInv
<1>6. DOMAIN truth' = Vars
  BY <1>2, <1>5
<1>7. Graph!Nodes' = Graph!Nodes /\ content' = content
  BY <1>3, NamesStay
<1>8. PICK written : written = Written(held, e, value)
  OBVIOUS
<1>9. DOMAIN written = Vars /\ \A v \in Vars : DOMAIN written[v] = 0 .. counters[v] - 1
  BY <1>4, <1>8, WrittenKeeps DEF SameNumbers, HeldInv
<1>10. ASSUME NEW v \in Vars, Plain(v), NEW N, Certified(N, v), Follows(N, v), N[b][i + 1] # NoNumber
       PROVE  written[v][N[b][i + 1]] = truth'[v]
  <2>1. /\ Numbered(e) = v => e \in DOMAIN gens /\ N[b][i + 1] = gens[e]
        /\ Numbered(e) # v => N[b][i + 1] = N[b][i]
    <3>1. e = content[b][i]
      BY <1>1
    <3>2. /\ Numbered(content[b][i]) = v =>
               content[b][i] \in DOMAIN gens /\ N[b][i + 1] = gens[content[b][i]]
          /\ Numbered(content[b][i]) # v => N[b][i + 1] = N[b][i]
      BY <1>5, <1>10 DEF Certified
    <3> QED
      BY <3>1, <3>2
  <2>2. Assigned(e) = v <=> Numbered(e) = v
    <3>1. e = content[b][i]
      BY <1>1
    <3> QED
      BY <1>5, <1>10, <3>1, AssignedIsNumbered
  <2>3. i + 1 \in 1 .. Exit(b)
    BY <1>5 DEF Exit
  <2>4. N[b][i + 1] \in 0 .. counters[v] - 1
    BY <1>5, <1>10, <2>3 DEF Certified
  <2>5. v # None
    BY DataAssumption
  <2>6. CASE Numbered(e) = v
    <3>1. truth'[v] = value
      BY <1>2, <1>5, <2>2, <2>5, <2>6
    <3>2. written = [held EXCEPT ![v][gens[e]] = value]
      BY <1>8, <2>1, <2>6 DEF Written
    <3>3. v \in DOMAIN held /\ gens[e] \in DOMAIN held[v]
      BY <1>4, <2>1, <2>4, <2>6 DEF HeldInv
    <3>4. written[v][gens[e]] = value
      BY <3>2, <3>3
    <3> QED
      BY <2>1, <2>6, <3>1, <3>4
  <2>7. CASE Numbered(e) # v
    <3>1. truth'[v] = truth[v]
      BY <1>2, <1>5, <2>2, <2>7
    <3>2. written[v] = held[v]
      <4>1. CASE e \notin DOMAIN gens
        BY <1>8, <4>1 DEF Written
      <4>2. CASE e \in DOMAIN gens
        <5>1. written = [held EXCEPT ![Numbered(e)][gens[e]] = value]
          BY <1>8, <4>2 DEF Written
        <5>2. v \in DOMAIN held
          BY <1>4 DEF HeldInv
        <5> QED
          BY <2>7, <5>1, <5>2
      <4> QED
        BY <4>1, <4>2
    <3>3. held[v][N[b][i]] = truth[v]
      BY <1>1, <1>10, <2>1, <2>7 DEF Follows
    <3> QED
      BY <2>1, <2>7, <3>1, <3>2, <3>3
  <2> QED
    BY <2>6, <2>7
<1>11. CASE i < Len(content[b])
  <2>1. place'.block = b /\ place'.at = i + 1 /\ held' = written
    <3>1. place' = [place EXCEPT !.at = @ + 1] /\ held' = written
      BY <1>2, <1>8, <1>11
    <3> QED
      BY <1>1, <3>1
  <2>2. i + 1 \in 1 .. Len(content[b])
    BY <1>5, <1>11
  <2>3. PlaceInv'
    BY <1>5, <1>6, <1>7, <2>1, <2>2 DEF PlaceInv
  <2>4. ASSUME NEW v \in Vars, Sure(v)'
        PROVE  \E N : Certified(N, v)' /\ Follows(N, v)'
    <3>1. Sure(v)
      BY <1>3, <2>4, SureStays
    <3>2. PICK N : Certified(N, v) /\ Follows(N, v)
      BY <1>4, <3>1
    <3>3. Certified(N, v)'
      BY <1>3, <3>2, SureStays
    <3>4. Follows(N, v)'
      BY <1>10, <2>1, <3>1, <3>2 DEF Follows, Sure
    <3> QED
      BY <3>3, <3>4
  <2> QED
    BY <2>3, <2>4 DEF RightInv
<1>12. CASE ~(i < Len(content[b]))
  <2>1. PICK s \in Range(succ[b]) \ {0}, missing \in Data :
          place' = [block |-> s, at |-> 1] /\ held' = Merged(written, b, s, missing)
    BY <1>2, <1>8, <1>12
  <2>2. i + 1 = Exit(b)
    BY <1>5, <1>12 DEF Exit
  <2>3. s \in Graph!Successors(b) /\ s \in Graph!Nodes
    <3>1. Graph!Nodes = 1 .. Len(content) /\ DOMAIN succ = 1 .. Len(content)
      BY <1>4, FilledFacts DEF Graph!Nodes, Range
    <3>2. IsSeq(succ[b]) /\ \A k \in 1 .. Len(succ[b]) : succ[b][k] \in 0 .. Len(content)
      BY <1>4, <1>5, <3>1 DEF VectorInv, LinksInv
    <3>3. DOMAIN succ[b] = 1 .. Len(succ[b])
      BY <3>2, SeqDomain
    <3>4. Len(content) \in Nat
      BY <1>4, FilledFacts
    <3>5. s \in 1 .. Len(content)
      BY <2>1, <3>2, <3>3, <3>4 DEF Range
    <3> QED
      BY <2>1, <3>1, <3>5 DEF Graph!Successors, Range
  <2>4. Len(content[s]) \in Nat \ {0}
    BY <1>4, <2>3, VectorsFilled
  <2>5. PlaceInv'
    BY <1>6, <1>7, <2>1, <2>3, <2>4 DEF PlaceInv
  <2>6. ASSUME NEW v \in Vars, Sure(v)'
        PROVE  \E N : Certified(N, v)' /\ Follows(N, v)'
    <3>1. Sure(v)
      BY <1>3, <2>6, SureStays
    <3>2. PICK N : Certified(N, v) /\ Follows(N, v)
      BY <1>4, <3>1
    <3>3. Certified(N, v)'
      BY <1>3, <3>2, SureStays
    <3>4. N[b][Exit(b)] # NoNumber => written[v][N[b][Exit(b)]] = truth'[v]
      BY <1>10, <2>2, <3>1, <3>2 DEF Sure
    <3>5. ASSUME N[s][1] # NoNumber PROVE held'[v][N[s][1]] = truth'[v]
      <4>1. CASE <<s, v>> \in DOMAIN phis
        <5>1. PICK phi : phi = phis[<<s, v>>]
          OBVIOUS
        <5>2. N[s][1] = phi.gen /\ b \in DOMAIN phi.args /\ phi.args[b] = N[b][Exit(b)]
              /\ N[b][Exit(b)] # NoNumber
          BY <1>5, <2>3, <3>2, <4>1, <5>1 DEF Certified
        <5>3. held'[v] = [written[v] EXCEPT ![phi.gen] = written[v][phi.args[b]]]
          BY <2>1, <4>1, <5>1, <5>2 DEF Merged
        <5>4. phi.gen \in DOMAIN written[v]
          <6>1. 1 \in 1 .. Exit(s)
            BY <2>4 DEF Exit
          <6> QED
            BY <1>9, <2>3, <3>2, <3>5, <5>2, <6>1 DEF Certified
        <5>5. held'[v][phi.gen] = written[v][phi.args[b]]
          BY <5>3, <5>4
        <5> QED
          BY <3>4, <5>2, <5>5
      <4>2. CASE <<s, v>> \notin DOMAIN phis
        <5>1. held'[v] = written[v]
          BY <2>1, <4>2 DEF Merged
        <5>2. N[s][1] = N[b][Exit(b)]
          BY <1>5, <2>3, <3>2, <3>5, <4>2 DEF Certified
        <5> QED
          BY <3>4, <3>5, <5>1, <5>2
      <4> QED
        BY <4>1, <4>2
    <3>6. Follows(N, v)'
      BY <2>1, <3>5 DEF Follows
    <3> QED
      BY <3>3, <3>6
  <2> QED
    BY <2>5, <2>6 DEF RightInv
<1> QED
  BY <1>11, <1>12

RightKept == DomInv /\ NumberInv /\ TreeInv /\ NamesInv /\ RightInv /\ (phase # "graph" => focus = Built)

LEMMA RightStarts == Init => RightKept
BY DomStarts, NumberStarts DEF Init, RightKept, TreeInv, NamesInv, RightInv

LEMMA RightKeeps == RightKept /\ [Next]_vars => RightKept'
<1> SUFFICES ASSUME RightKept, [Next]_vars
             PROVE  RightKept'
  OBVIOUS
<1>1. DomInv /\ NumberInv /\ TreeInv /\ NamesInv /\ RightInv
  BY DEF RightKept
<1>2. DomInv' /\ NumberInv' /\ TreeInv' /\ NamesInv'
  BY <1>1, DomKeeps, NumberKeeps, TreeKeeps, NamesKeep
<1>3. RightInv'
  <2>1. CASE UNCHANGED vars
    <3>1. UNCHANGED <<flow, doms, phis, counters, uses, gens, phase, place, truth, held>>
      BY <2>1 DEF vars, numbers, run
    <3>2. Graph!Nodes' = Graph!Nodes /\ content' = content
      BY <3>1, NamesStay
    <3>3. \A v : Sure(v)' = Sure(v) /\ \A N : Certified(N, v)' = Certified(N, v)
      BY <3>1, SureStays
    <3> QED
      BY <1>1, <3>1, <3>2, <3>3 DEF RightInv, PlaceInv, Follows
  <2>2. CASE BuildGraph \/ BuildDoms \/ SweepDoms \/ placePhis \/ indexVars \/ numberElement
             \/ passOn \/ popNumbers
    <3>1. phase' # "running"
      BY <2>2 DEF BuildGraph, BuildDoms, SweepDoms, placePhis, indexVars, numberElement, passOn,
                  popNumbers, Indexing
    <3> QED
      BY <3>1 DEF RightInv
  <2> QED
    BY <1>1, <2>1, <2>2, StartRight, RunElementRight DEF Next, Analyse
<1>4. (phase # "graph" => focus = Built)'
  <2>1. CASE BuildGraph
    BY <2>1 DEF BuildGraph
  <2>2. CASE BuildDoms \/ SweepDoms \/ placePhis \/ indexVars \/ numberElement \/ passOn \/ popNumbers
             \/ Start \/ RunElement \/ UNCHANGED vars
    <3>1. focus' = focus /\ (phase # "graph" \/ focus = Built \/ phase' = phase)
      BY <2>2 DEF BuildDoms, SweepDoms, placePhis, indexVars, numberElement, passOn, popNumbers,
                  Indexing, Start, RunElement, flow, vars
    <3> QED
      BY <3>1 DEF RightKept
  <2> QED
    BY <2>1, <2>2 DEF Next, Analyse
<1> QED
  BY <1>2, <1>3, <1>4 DEF RightKept

(* For any bodies, any variables and any values: if the graph is true to   *)
(* the body and the phi functions of a variable that is visible everywhere *)
(* are well placed, a use of it reads the number whose value the variable  *)
(* holds, whatever way the program takes.                                  *)
THEOREM NamesAreRight ==
  Spec => [](phase = "running" /\ GraphTrue =>
               \A v \in Vars : Plain(v) => ReadsRight(v) \/ ~WellPlaced(v))
<1>1. ASSUME RightKept, phase = "running", GraphTrue,
             NEW v \in Vars, Plain(v), WellPlaced(v), v \in Uses(prog, Here)
      PROVE  held[v][uses[<<Here, v>>]] = truth[v]
  <2>1. /\ VectorInv /\ FlowInv /\ Len(blocks) # 0 /\ SweepInv /\ Graph!Settled
        /\ focus = Built /\ Reached /\ PlaceInv
        /\ (Sure(v) => \E N : Certified(N, v) /\ Follows(N, v))
    BY <1>1 DEF RightKept, DomInv, VectorInv, TreeInv, RightInv, GraphTrue
  <2>2. Connected
    BY <2>1, ReachedConnects
  <2>3. Graph!Nodes = DOMAIN content
    BY <2>1, FilledFacts DEF Graph!Nodes, Range
  <2>4. EachOnce
    BY <1>1, <2>1, <2>3 DEF GraphTrue, EachOnce
  <2>5. Meets(v)
    <3> SUFFICES ASSUME NEW d \in AssignedIn(v) \union Placed(v), NEW b \in Graph!Nodes, Ends(d, b)
                 PROVE  b \in Placed(v)
      BY DEF Meets
    <3>1. d \in Graph!Nodes
      BY DEF AssignedIn, Placed
    <3>2. b \in Graph!Frontier(d)
      BY <2>1, <2>2, <3>1, FrontierIs DEF Ends
    <3>3. isVisible(v, ParentBlock(content[b][1]))
      BY <1>1 DEF Plain
    <3> QED
      BY <1>1, <3>2, <3>3 DEF WellPlaced, Placed
  <2>6. PICK N : Certified(N, v) /\ Follows(N, v)
    BY <1>1, <2>1, <2>2, <2>4, <2>5 DEF Sure
  <2>7. uses[<<Here, v>>] = N[place.block][place.at] /\ N[place.block][place.at] # NoNumber
    BY <1>1, <2>1, <2>6 DEF Certified, PlaceInv, Here
  <2> QED
    BY <2>6, <2>7 DEF Follows
<1>2. RightKept => (phase = "running" /\ GraphTrue =>
                      \A v \in Vars : Plain(v) => ReadsRight(v) \/ ~WellPlaced(v))
  BY <1>1 DEF ReadsRight
<1>3. Spec => []RightKept
  BY RightStarts, RightKeeps, PTL DEF Spec
<1> QED
  BY <1>2, <1>3, PTL
=============================================================================
