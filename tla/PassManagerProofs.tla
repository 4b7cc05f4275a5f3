-------------------------- MODULE PassManagerProofs --------------------------
(***************************************************************************)
(* Proofs about PassManager for any passes, requirements, registry and     *)
(* lists of passes: the type invariant, that services are those of the     *)
(* present program, that a pass runs after what it requires, and that run()*)
(* calls its own passes in order.                                          *)
(***************************************************************************)
EXTENDS PassManager, FiniteSetTheorems, TLAPS

(* Every service that exists was added by a pass that returned in this run. *)
Provided ==
  \A s \in Service : Exists(s) => \E j \in 1..Len(log) : s \in log[j].added

(* What an active call of runPass on pass p requires is there, or is still  *)
(* to be looked at, or is what the call above it is to bring in.            *)
FramesReady ==
  \A i \in 1..Len(stack) : \A s \in Requires[stack[i].pass] :
    \/ s \in stack[i].todo
    \/ Exists(s)
    \/ i < Len(stack) /\ s = stack[i].asked

(* The call at the bottom of the stack is the one run() made last.          *)
BottomCall == stack # <<>> => next > 1 /\ stack[1].pass = Queue[next - 1]

Ready ==
  /\ TypeOK /\ ServicesCurrent /\ Provided /\ FramesReady /\ Prepared
  /\ BottomCall /\ InOrder

-----------------------------------------------------------------------------
(* The call stack without its last call, and with that one changed.         *)
LEMMA BelowFacts ==
  ASSUME stack \in Seq(Frame), stack # <<>>
  PROVE  /\ Len(stack) \in Nat \ {0}
         /\ Top \in Frame
         /\ Below \in Seq(Frame)
         /\ Len(Below) = Len(stack) - 1
         /\ \A i \in 1..(Len(stack) - 1) : Below[i] = stack[i]
<1>1. Len(stack) \in Nat \ {0}
  OBVIOUS
<1>2. Top \in Frame
  BY <1>1 DEF Top
<1>3. Below \in Seq(Frame) /\ Len(Below) = Len(stack) - 1
  BY <1>1 DEF Below
<1>4. \A i \in 1..(Len(stack) - 1) : Below[i] = stack[i]
  BY <1>1 DEF Below
<1> QED
  BY <1>1, <1>2, <1>3, <1>4

LEMMA TopChanged ==
  ASSUME stack \in Seq(Frame), stack # <<>>, NEW f \in Frame
  PROVE  /\ Append(Below, f) \in Seq(Frame)
         /\ Len(Append(Below, f)) = Len(stack)
         /\ \A i \in 1..(Len(stack) - 1) : Append(Below, f)[i] = stack[i]
         /\ Append(Below, f)[Len(stack)] = f
<1> DEFINE b == Below
<1>1. /\ Len(stack) \in Nat \ {0} /\ b \in Seq(Frame) /\ Len(b) = Len(stack) - 1
      /\ \A i \in 1..(Len(stack) - 1) : b[i] = stack[i]
  BY BelowFacts
<1> HIDE DEF b
<1>2. /\ Append(b, f) \in Seq(Frame) /\ Len(Append(b, f)) = Len(stack)
      /\ \A i \in 1..(Len(stack) - 1) : Append(b, f)[i] = stack[i]
      /\ Append(b, f)[Len(stack)] = f
  BY <1>1
<1> QED
  BY <1>2 DEF b

(* The loop over the required services strikes one off, or asks for it.     *)
LEMMA TopFrames ==
  ASSUME TypeOK, stack # <<>>, NEW s \in Service
  PROVE  /\ [Top EXCEPT !.todo = @ \ {s}] \in Frame
         /\ [Top EXCEPT !.todo = @ \ {s}, !.asked = s] \in Frame
         /\ [Top EXCEPT !.todo = @ \ {s}].pass = Top.pass
         /\ [Top EXCEPT !.todo = @ \ {s}].todo = Top.todo \ {s}
         /\ [Top EXCEPT !.todo = @ \ {s}, !.asked = s].pass = Top.pass
         /\ [Top EXCEPT !.todo = @ \ {s}, !.asked = s].todo = Top.todo \ {s}
         /\ [Top EXCEPT !.todo = @ \ {s}, !.asked = s].asked = s
<1>1. Top \in Frame
  BY BelowFacts DEF TypeOK
<1> QED
  BY <1>1 DEF Frame

LEMMA EnterFacts ==
  ASSUME NEW p \in Pass
  PROVE  Enter(p) \in Frame /\ Enter(p).pass = p /\ Enter(p).todo = Requires[p]
BY PassAssumption DEF Enter, Frame

(* What run() works through is a list of passes.                            *)
LEMMA QueueFacts ==
  ASSUME passes \in Seq(Pass)
  PROVE  /\ Queue \in Seq(Pass)
         /\ Len(Queue) \in Nat
<1>1. (IF Generator \in equipped THEN <<Generator>> ELSE <<>>) \in Seq(Pass)
  BY PassAssumption
<1>2. (IF Serializer \in equipped THEN <<Serializer>> ELSE <<>>) \in Seq(Pass)
  BY PassAssumption
<1>3. Queue \in Seq(Pass)
  BY <1>1, <1>2 DEF Queue
<1> QED
  BY <1>3

-----------------------------------------------------------------------------
(* The list run() works through grows, and never shrinks, between runs.     *)
LEMMA QueueGrows ==
  ASSUME passes \in Seq(Pass), passes' \in Seq(Pass), Len(passes) <= Len(passes'),
         equipped \subseteq equipped'
  PROVE  Len(Queue) <= Len(Queue)' /\ Len(Queue)' \in Nat
<1> DEFINE front == IF Generator \in equipped THEN <<Generator>> ELSE <<>>
           back == IF Serializer \in equipped THEN <<Serializer>> ELSE <<>>
<1>1. front \in Seq(Pass) /\ front' \in Seq(Pass) /\ Len(front) <= Len(front')
  BY PassAssumption
<1>2. back \in Seq(Pass) /\ back' \in Seq(Pass) /\ Len(back) <= Len(back')
  BY PassAssumption
<1>3. Queue = front \o passes \o back /\ Queue' = front' \o passes' \o back'
  BY DEF Queue
<1> HIDE DEF front, back
<1>4. Len(Queue) = Len(front) + Len(passes) + Len(back)
  BY <1>1, <1>2, <1>3
<1>5. Len(Queue') = Len(front') + Len(passes') + Len(back')
  BY <1>1, <1>2, <1>3
<1> QED
  BY <1>1, <1>2, <1>4, <1>5

(* A step that leaves the list alone.                                       *)
LEMMA QueueKept ==
  ASSUME UNCHANGED <<passes, equipped>>
  PROVE  Queue' = Queue
BY DEF Queue

LEMMA TypeStep ==
  ASSUME TypeOK, [Next]_vars
  PROVE  TypeOK'
<1> USE DEF TypeOK
<1>q. Queue \in Seq(Pass) /\ Len(Queue) \in Nat
  BY QueueFacts
<1>e. <<>> \in Seq(Frame)
  OBVIOUS
<1>1. ASSUME NEW p \in Pass, AddPass(p) PROVE TypeOK'
  <2>1. passes' \in Seq(Pass) /\ Len(passes) <= Len(passes')
    BY <1>1 DEF AddPass
  <2>2. Len(Queue) <= Len(Queue') /\ Len(Queue') \in Nat
    BY <1>1, <2>1, QueueGrows DEF AddPass
  <2> QED
    BY <1>1, <1>q, <2>1, <2>2 DEF AddPass
<1>2. ASSUME NEW p \in Pass, Equip(p) PROVE TypeOK'
  <2>1. Len(Queue) <= Len(Queue') /\ Len(Queue') \in Nat
    BY <1>2, QueueGrows DEF Equip
  <2> QED
    BY <1>2, <1>q, <2>1 DEF Equip
<1>3. ASSUME Run PROVE TypeOK'
  <2>1. Queue' = Queue
    BY <1>3, QueueKept DEF Run
  <2>2. program' \in 0..MaxRuns /\ services' \in [Service -> 0..MaxRuns]
    BY <1>3, PassAssumption DEF Run, Reset
  <2> QED
    BY <1>3, <1>q, <2>1, <2>2 DEF Run
<1>4. ASSUME RunNext PROVE TypeOK'
  <2>1. Queue' = Queue
    BY <1>4, QueueKept DEF RunNext
  <2>2. Queue[next] \in Pass
    BY <1>4, <1>q DEF RunNext
  <2>3. stack' \in Seq(Frame)
    BY <1>4, <2>2, EnterFacts DEF RunNext
  <2> QED
    BY <1>4, <1>q, <2>1, <2>3 DEF RunNext
<1>5. ASSUME RunDone PROVE TypeOK'
  <2>1. Queue' = Queue
    BY <1>5, QueueKept DEF RunDone
  <2> QED
    BY <1>5, <2>1 DEF RunDone
<1>6. ASSUME NEW s \in Service, Skip(s) PROVE TypeOK'
  <2>1. Queue' = Queue
    BY <1>6, QueueKept DEF Skip
  <2>2. stack' \in Seq(Frame)
    BY <1>6, TopChanged, TopFrames DEF Skip
  <2> QED
    BY <1>6, <2>1, <2>2 DEF Skip
<1>7. ASSUME NEW s \in Service, Fetch(s) PROVE TypeOK'
  <2>1. Queue' = Queue
    BY <1>7, QueueKept DEF Fetch, CallFor
  <2>2. stack' \in Seq(Frame)
    <3>1. Enter(Registered[s]) \in Frame
      BY <1>7, EnterFacts, PassAssumption DEF Fetch
    <3>2. Append(Below, [Top EXCEPT !.todo = @ \ {s}, !.asked = s]) \in Seq(Frame)
      BY <1>7, TopChanged, TopFrames DEF Fetch
    <3> QED
      BY <1>7, <3>1, <3>2 DEF Fetch, CallFor
  <2> QED
    BY <1>7, <2>1, <2>2 DEF Fetch, CallFor
<1>8. ASSUME NEW s \in Service, Unavailable(s) PROVE TypeOK'
  <2>1. Queue' = Queue
    BY <1>8, QueueKept DEF Unavailable
  <2> QED
    BY <1>8, <1>e, <2>1 DEF Unavailable, Throw
<1>9. ASSUME NEW added \in SUBSET Service, Perform(added) PROVE TypeOK'
  <2>1. Queue' = Queue
    BY <1>9, QueueKept DEF Perform, Return
  <2>2. services' \in [Service -> 0..MaxRuns]
    BY <1>9 DEF Perform, Return
  <2>3. log' \in Seq([pass : Pass, added : SUBSET Service, called : BOOLEAN])
    <3>1. Top.pass \in Pass
      BY <1>9, BelowFacts DEF Perform, Return, Frame
    <3>2. [pass |-> Top.pass, added |-> added, called |-> Len(stack) > 1]
            \in [pass : Pass, added : SUBSET Service, called : BOOLEAN]
      BY <3>1
    <3> QED
      BY <1>9, <3>2 DEF Perform, Return
  <2>4. \/ stack' = <<>> /\ running' = FALSE /\ failure' = "unmet"
        \/ stack' = Below /\ UNCHANGED <<running, failure>>
    BY <1>9 DEF Perform, Return, Throw
  <2>5. stack' \in Seq(Frame) /\ stack # <<>>
    BY <1>9, <1>e, <2>4, BelowFacts DEF Perform, Return
  <2>6. UNCHANGED <<passes, equipped, program, next>>
    BY <1>9 DEF Perform, Return
  <2> QED
    BY <2>1, <2>2, <2>3, <2>4, <2>5, <2>6
<1>10. ASSUME AddTwice \/ PassThrows PROVE TypeOK'
  <2>1. Queue' = Queue
    BY <1>10, QueueKept DEF AddTwice, PassThrows
  <2> QED
    BY <1>10, <1>e, <2>1 DEF AddTwice, PassThrows, Throw
<1>11. ASSUME UNCHANGED vars PROVE TypeOK'
  <2>1. Queue' = Queue
    BY <1>11, QueueKept DEF vars
  <2> QED
    BY <1>11, <2>1 DEF vars
<1> QED
  BY <1>1, <1>2, <1>3, <1>4, <1>5, <1>6, <1>7, <1>8, <1>9, <1>10, <1>11 DEF Next, Step

-----------------------------------------------------------------------------
(* The steps that neither add services nor write the log, and what the one  *)
(* does that does both.                                                     *)
Quiet == UNCHANGED <<program, services, log>>

LEMMA NextCases ==
  ASSUME [Next]_vars
  PROVE  Quiet \/ Run \/ \E added \in SUBSET Service : Perform(added)
BY DEF Next, Step, vars, Quiet, AddPass, Equip, RunNext, RunDone, Skip, Fetch, CallFor,
       Unavailable, AddTwice, PassThrows

LEMMA PerformEffect ==
  ASSUME TypeOK, NEW added \in SUBSET Service, Perform(added)
  PROVE  /\ stack # <<>> /\ Top.todo = {}
         /\ \A s \in Service : services'[s] = IF s \in added THEN program ELSE services[s]
         /\ \A s \in Service : Exists(s) => Exists(s)'
         /\ Len(log') = Len(log) + 1 /\ Len(log) \in Nat
         /\ \A i \in 1..Len(log) : log'[i] = log[i]
         /\ log'[Len(log) + 1].pass = Top.pass
         /\ log'[Len(log) + 1].added = added
         /\ \/ stack' = <<>>
            \/ /\ stack' = Below
               /\ Below # <<>> => services'[Below[Len(Below)].asked] # 0
<1>1. /\ stack # <<>> /\ Top.todo = {}
      /\ services' = [s \in Service |-> IF s \in added THEN program ELSE services[s]]
      /\ \A s \in added : ~Exists(s)
      /\ log' = Append(log, [pass |-> Top.pass, added |-> added, called |-> Len(stack) > 1])
  BY DEF Perform, Return
<1>2. \/ stack' = <<>>
      \/ /\ stack' = Below
         /\ Below # <<>> => services'[Below[Len(Below)].asked] # 0
  BY DEF Perform, Return, Throw
<1>3. \A s \in Service : Exists(s) => Exists(s)'
  BY <1>1 DEF Exists
<1>4. log \in Seq([pass : Pass, added : SUBSET Service, called : BOOLEAN])
  BY DEF TypeOK
<1>5. [pass |-> Top.pass, added |-> added, called |-> Len(stack) > 1]
        \in [pass : Pass, added : SUBSET Service, called : BOOLEAN]
  BY <1>1, BelowFacts DEF TypeOK, Frame
<1>6. /\ Len(log') = Len(log) + 1 /\ Len(log) \in Nat
      /\ \A i \in 1..Len(log) : log'[i] = log[i]
      /\ log'[Len(log) + 1] = [pass |-> Top.pass, added |-> added, called |-> Len(stack) > 1]
  BY <1>1, <1>4, <1>5
<1> QED
  BY <1>1, <1>2, <1>3, <1>6

LEMMA CurrentStep ==
  ASSUME TypeOK, ServicesCurrent, [Next]_vars
  PROVE  ServicesCurrent'
<1>1. CASE Quiet
  BY <1>1 DEF Quiet, ServicesCurrent
<1>2. CASE Run
  BY <1>2 DEF Run, Reset, ServicesCurrent
<1>3. ASSUME NEW added \in SUBSET Service, Perform(added) PROVE ServicesCurrent'
  <2>1. program' = program
    BY <1>3 DEF Perform, Return
  <2> QED
    BY <1>3, <2>1, PerformEffect DEF ServicesCurrent
<1> QED
  BY <1>1, <1>2, <1>3, NextCases

LEMMA ProvidedStep ==
  ASSUME TypeOK, Provided, [Next]_vars
  PROVE  Provided'
<1>1. CASE Quiet
  BY <1>1 DEF Quiet, Provided, Exists
<1>2. CASE Run
  BY <1>2 DEF Run, Reset, Provided, Exists
<1>3. ASSUME NEW added \in SUBSET Service, Perform(added) PROVE Provided'
  <2> SUFFICES ASSUME NEW s \in Service, Exists(s)'
               PROVE  \E j \in 1..Len(log') : s \in log'[j].added
    BY DEF Provided
  <2>1. CASE s \in added
    BY <1>3, <2>1, PerformEffect
  <2>2. CASE s \notin added
    <3>1. Exists(s)
      BY <1>3, <2>2, PerformEffect DEF Exists
    <3>2. PICK j \in 1..Len(log) : s \in log[j].added
      BY <3>1 DEF Provided
    <3> QED
      BY <1>3, <3>2, PerformEffect
  <2> QED
    BY <2>1, <2>2
<1> QED
  BY <1>1, <1>2, <1>3, NextCases

(* A pass that runs has nothing left to look at, and nothing above it to    *)
(* wait for: what it requires exists, so the log says who added it.         *)
LEMMA PreparedStep ==
  ASSUME TypeOK, Provided, FramesReady, Prepared, [Next]_vars
  PROVE  Prepared'
<1>1. CASE Quiet
  BY <1>1 DEF Quiet, Prepared
<1>2. CASE Run
  BY <1>2 DEF Run, Prepared
<1>3. ASSUME NEW added \in SUBSET Service, Perform(added) PROVE Prepared'
  <2> DEFINE n == Len(log)
  <2>1. /\ n \in Nat /\ Len(log') = n + 1
        /\ \A i \in 1..n : log'[i] = log[i]
        /\ log'[n + 1].pass = Top.pass
    BY <1>3, PerformEffect
  <2>2. DOMAIN log = 1..n /\ DOMAIN log' = 1..(n + 1)
    BY <1>3, <2>1, TypeStep DEF TypeOK
  <2>3. \A s \in Requires[Top.pass] : \E j \in 1..n : s \in log[j].added
    <3>1. stack # <<>> /\ Top.todo = {} /\ stack \in Seq(Frame)
      BY <1>3, PerformEffect DEF TypeOK
    <3>2. Len(stack) \in Nat \ {0} /\ Top.pass \in Pass
      BY <3>1, BelowFacts DEF Frame
    <3>3. \A s \in Requires[Top.pass] : Exists(s) /\ s \in Service
      BY <3>1, <3>2, PassAssumption DEF FramesReady, Top
    <3> QED
      BY <3>3 DEF Provided
  <2> SUFFICES ASSUME NEW i \in 1..(n + 1), NEW s \in Requires[log'[i].pass]
               PROVE  \E j \in 1..(i - 1) : s \in log'[j].added
    BY <2>2 DEF Prepared
  <2>4. CASE i = n + 1
    BY <2>1, <2>3, <2>4
  <2>5. CASE i # n + 1
    <3>1. i \in 1..n /\ log'[i] = log[i]
      BY <2>1, <2>5
    <3>2. PICK j \in 1..(i - 1) : s \in log[j].added
      BY <2>2, <3>1 DEF Prepared
    <3> QED
      BY <2>1, <3>1, <3>2
  <2> QED
    BY <2>4, <2>5
<1> QED
  BY <1>1, <1>2, <1>3, NextCases

(* Every call that is active stays so, with its requirements in hand.  A    *)
(* throw, and a new run, leave no call; a return is what the caller waited  *)
(* for.                                                                     *)
LEMMA FramesStep ==
  ASSUME TypeOK, FramesReady, [Next]_vars
  PROVE  FramesReady'
<1> DEFINE n == Len(stack)
<1>e. ASSUME stack' = <<>> PROVE FramesReady'
  BY <1>e DEF FramesReady
<1>1. CASE UNCHANGED <<stack, services>>
  BY <1>1 DEF FramesReady, Exists
<1>2. CASE Run
  BY <1>2, <1>e DEF Run, TypeOK
<1>3. CASE RunNext
  <2>1. Queue[next] \in Pass
    BY <1>3, QueueFacts DEF RunNext, TypeOK
  <2>2. /\ Len(stack') = 1 /\ stack'[1].pass = Queue[next]
        /\ stack'[1].todo = Requires[Queue[next]]
    BY <1>3, <2>1, EnterFacts DEF RunNext
  <2> QED
    BY <2>2 DEF FramesReady
<1>4. ASSUME NEW s \in Service, Skip(s) PROVE FramesReady'
  <2> DEFINE f == [Top EXCEPT !.todo = @ \ {s}]
  <2>1. /\ stack # <<>> /\ Exists(s) /\ services' = services
        /\ stack' = Append(Below, f)
    BY <1>4 DEF Skip
  <2>2. f \in Frame /\ f.pass = Top.pass /\ f.todo = Top.todo \ {s}
    BY <2>1, TopFrames
  <2> HIDE DEF f
  <2>3. /\ Len(stack') = n /\ n \in Nat \ {0} /\ stack'[n] = f
        /\ \A i \in 1..(n - 1) : stack'[i] = stack[i]
    BY <2>1, <2>2, TopChanged, BelowFacts DEF TypeOK
  <2> SUFFICES ASSUME NEW i \in 1..n, NEW r \in Requires[stack'[i].pass]
               PROVE  \/ r \in stack'[i].todo
                      \/ Exists(r)
                      \/ i < n /\ r = stack'[i].asked
    BY <2>1, <2>3 DEF FramesReady, Exists
  <2>4. CASE i = n
    BY <2>1, <2>2, <2>3, <2>4 DEF FramesReady, Top
  <2>5. CASE i \in 1..(n - 1)
    BY <2>3, <2>5 DEF FramesReady
  <2> QED
    BY <2>3, <2>4, <2>5
<1>5. ASSUME NEW s \in Service, Fetch(s) PROVE FramesReady'
  <2> DEFINE f == [Top EXCEPT !.todo = @ \ {s}, !.asked = s]
             g == Enter(Registered[s])
             low == Append(Below, f)
  <2>1. /\ stack # <<>> /\ services' = services
        /\ stack' = Append(low, g) /\ Registered[s] \in Pass
    BY <1>5, PassAssumption DEF Fetch, CallFor
  <2>2. f \in Frame /\ f.pass = Top.pass /\ f.todo = Top.todo \ {s} /\ f.asked = s
    BY <2>1, TopFrames
  <2>3. g \in Frame /\ g.todo = Requires[g.pass]
    BY <2>1, EnterFacts
  <2> HIDE DEF f, g
  <2>4. /\ low \in Seq(Frame) /\ Len(low) = n /\ n \in Nat \ {0} /\ low[n] = f
        /\ \A i \in 1..(n - 1) : low[i] = stack[i]
    BY <2>1, <2>2, TopChanged, BelowFacts DEF TypeOK
  <2> HIDE DEF low
  <2>5. /\ Len(stack') = n + 1 /\ stack'[n] = f /\ stack'[n + 1] = g
        /\ \A i \in 1..(n - 1) : stack'[i] = stack[i]
    BY <2>1, <2>3, <2>4
  <2> SUFFICES ASSUME NEW i \in 1..(n + 1), NEW r \in Requires[stack'[i].pass]
               PROVE  \/ r \in stack'[i].todo
                      \/ Exists(r)
                      \/ i < n + 1 /\ r = stack'[i].asked
    BY <2>1, <2>5 DEF FramesReady, Exists
  <2>6. CASE i = n + 1
    BY <2>3, <2>5, <2>6
  <2>7. CASE i = n
    BY <2>2, <2>4, <2>5, <2>7 DEF FramesReady, Top
  <2>8. CASE i \in 1..(n - 1)
    BY <2>4, <2>5, <2>8 DEF FramesReady
  <2> QED
    BY <2>4, <2>6, <2>7, <2>8
<1>6. ASSUME NEW s \in Service, Unavailable(s) PROVE FramesReady'
  BY <1>6, <1>e DEF Unavailable, Throw
<1>7. ASSUME NEW added \in SUBSET Service, Perform(added) PROVE FramesReady'
  <2>1. stack # <<>> /\ \A s \in Service : Exists(s) => Exists(s)'
    BY <1>7, PerformEffect
  <2>2. CASE stack' = <<>>
    BY <1>e, <2>2
  <2>3. CASE stack' = Below /\ (Below # <<>> => services'[Below[Len(Below)].asked] # 0)
    <3>1. /\ n \in Nat \ {0} /\ stack \in Seq(Frame) /\ Len(stack') = n - 1
          /\ \A i \in 1..(n - 1) : stack'[i] = stack[i]
      BY <2>1, <2>3, BelowFacts DEF TypeOK
    <3>2. n - 1 # 0 => services'[stack[n - 1].asked] # 0
      BY <2>3, <3>1
    <3> SUFFICES ASSUME NEW i \in 1..(n - 1), NEW r \in Requires[stack[i].pass]
                 PROVE  \/ r \in stack[i].todo
                        \/ Exists(r)'
                        \/ i < n - 1 /\ r = stack[i].asked
      BY <3>1 DEF FramesReady
    <3>3. r \in Service
      <4>1. stack[i] \in Frame
        BY <3>1
      <4>2. stack[i].pass \in Pass
        BY <4>1 DEF Frame
      <4> QED
        BY <4>2, PassAssumption
    <3>4. \/ r \in stack[i].todo
          \/ Exists(r)
          \/ r = stack[i].asked
      BY <3>1 DEF FramesReady
    <3>5. CASE r = stack[i].asked
      BY <3>1, <3>2, <3>5 DEF Exists
    <3> QED
      BY <2>1, <3>3, <3>4, <3>5
  <2> QED
    BY <1>7, <2>2, <2>3, PerformEffect
<1>8. CASE AddTwice \/ PassThrows
  BY <1>8, <1>e DEF AddTwice, PassThrows, Throw
<1>9. CASE RunDone \/ (\E p \in Pass : AddPass(p) \/ Equip(p)) \/ UNCHANGED vars
  BY <1>1, <1>9 DEF RunDone, AddPass, Equip, vars
<1> QED
  BY <1>2, <1>3, <1>4, <1>5, <1>6, <1>7, <1>8, <1>9 DEF Next, Step

-----------------------------------------------------------------------------
(* The order of the passes run() itself calls.                              *)
Entry == [pass : Pass, added : SUBSET Service, called : BOOLEAN]

OwnIn(f, i) == {j \in 1..i : ~f[j].called}

LEMMA CountAppended ==
  ASSUME NEW n \in Nat, NEW g, NEW h, NEW e \in Entry, h[n + 1] = e, \A j \in 1..n : h[j] = g[j]
  PROVE  /\ \A i \in 1..n : OwnIn(h, i) = OwnIn(g, i)
         /\ Cardinality(OwnIn(g, n)) \in Nat
         /\ e.called => Cardinality(OwnIn(h, n + 1)) = Cardinality(OwnIn(g, n))
         /\ ~e.called => Cardinality(OwnIn(h, n + 1)) = Cardinality(OwnIn(g, n)) + 1
<1> DEFINE A == OwnIn(g, n)
           B == OwnIn(h, n + 1)
<1>1. n \in Nat /\ h[n + 1] = e /\ (\A j \in 1..n : h[j] = g[j]) /\ e.called \in BOOLEAN
  BY DEF Entry
<1>2. ASSUME NEW i \in 1..n
      PROVE  OwnIn(h, i) = OwnIn(g, i)
  <2>1. \A j \in 1..i : h[j] = g[j]
    BY <1>1
  <2> QED BY <2>1 DEF OwnIn
<1>3. \A j : j \in 1..n + 1 <=> j \in 1..n \/ j = n + 1
  BY <1>1
<1>4. B = IF e.called THEN A ELSE A \cup {n + 1}
  BY <1>1, <1>3 DEF OwnIn
<1>5. IsFiniteSet(A) /\ n + 1 \notin A
  <2>1. IsFiniteSet(1..n) /\ A \in SUBSET (1..n) /\ n + 1 \notin 1..n
    <3>1. n \in Int /\ 1 \in Int /\ n + 1 \notin 1..n
      BY <1>1
    <3>2. IsFiniteSet(1..n)
      BY <3>1, FS_Interval
    <3> QED BY <3>1, <3>2 DEF OwnIn
  <2>2. IsFiniteSet(A)
    <3> HIDE DEF A
    <3> QED BY <2>1, FS_Subset
  <2> QED BY <2>1, <2>2
<1> HIDE DEF A, B
<1>6. Cardinality(A) \in Nat /\ Cardinality(A \cup {n + 1}) = Cardinality(A) + 1
  BY <1>5, FS_CardinalityType, FS_AddElement
<1>7. /\ e.called => Cardinality(B) = Cardinality(A)
      /\ ~e.called => Cardinality(B) = Cardinality(A) + 1
  BY <1>4, <1>6
<1> QED BY <1>2, <1>6, <1>7 DEF A, B

LEMMA BottomStep ==
  ASSUME TypeOK, BottomCall, [Next]_vars
  PROVE  BottomCall'
<1>1. CASE stack' = <<>>
  BY <1>1 DEF BottomCall
<1>2. CASE RunNext
  <2>1. Queue' = Queue /\ next' = next + 1 /\ stack' = <<Enter(Queue[next])>> /\ next \in Nat \ {0}
    BY <1>2, QueueKept DEF RunNext, TypeOK
  <2>2. Queue[next] \in Pass
    BY <1>2, QueueFacts DEF RunNext, TypeOK
  <2>3. stack'[1].pass = Queue[next] /\ next' - 1 = next /\ next' > 1
    BY <2>1, <2>2, EnterFacts
  <2> QED BY <2>1, <2>3 DEF BottomCall
<1>3. ASSUME stack' # <<>>, stack # <<>>, stack'[1].pass = stack[1].pass,
             UNCHANGED <<passes, equipped, next>>
      PROVE  BottomCall'
  BY <1>3, QueueKept DEF BottomCall
<1>4. ASSUME NEW s \in Service, Skip(s) PROVE BottomCall'
  <2> DEFINE f == [Top EXCEPT !.todo = @ \ {s}]
  <2>1. stack # <<>> /\ stack' = Append(Below, f) /\ UNCHANGED <<passes, equipped, next>>
    BY <1>4 DEF Skip
  <2>2. f \in Frame /\ f.pass = Top.pass
    BY <2>1, TopFrames
  <2> HIDE DEF f
  <2>3. /\ Len(stack') = Len(stack) /\ Len(stack) \in Nat \ {0} /\ stack'[Len(stack)] = f
        /\ \A i \in 1..(Len(stack) - 1) : stack'[i] = stack[i]
    BY <2>1, <2>2, TopChanged, BelowFacts DEF TypeOK
  <2>4. stack'[1].pass = stack[1].pass
    BY <2>2, <2>3 DEF Top
  <2> QED BY <1>1, <1>3, <2>1, <2>4
<1>5. ASSUME NEW s \in Service, Fetch(s) PROVE BottomCall'
  <2> DEFINE f == [Top EXCEPT !.todo = @ \ {s}, !.asked = s]
             g == Enter(Registered[s])
             low == Append(Below, f)
  <2>1. /\ stack # <<>> /\ UNCHANGED <<passes, equipped, next>>
        /\ stack' = Append(low, g) /\ Registered[s] \in Pass
    BY <1>5, PassAssumption DEF Fetch, CallFor
  <2>2. f \in Frame /\ f.pass = Top.pass /\ g \in Frame
    BY <2>1, TopFrames, EnterFacts
  <2> HIDE DEF f, g
  <2>3. /\ low \in Seq(Frame) /\ Len(low) = Len(stack) /\ Len(stack) \in Nat \ {0}
        /\ low[Len(stack)] = f /\ \A i \in 1..(Len(stack) - 1) : low[i] = stack[i]
    BY <2>1, <2>2, TopChanged, BelowFacts DEF TypeOK
  <2> HIDE DEF low
  <2>4. stack'[1] = low[1]
    BY <2>1, <2>2, <2>3
  <2>5. low[1].pass = stack[1].pass
    BY <2>2, <2>3 DEF Top
  <2> QED BY <1>1, <1>3, <2>1, <2>4, <2>5
<1>6. ASSUME NEW added \in SUBSET Service, Perform(added) PROVE BottomCall'
  <2>1. stack # <<>> /\ (stack' = <<>> \/ stack' = Below) /\ UNCHANGED <<passes, equipped, next>>
    BY <1>6 DEF Perform, Return, Throw
  <2>2. CASE stack' = Below /\ Below # <<>>
    <3>1. /\ Len(stack) \in Nat \ {0} /\ Below \in Seq(Frame) /\ Len(Below) = Len(stack) - 1
          /\ \A i \in 1..(Len(stack) - 1) : Below[i] = stack[i]
      BY <2>1, BelowFacts DEF TypeOK
    <3>2. Len(Below) # 0
      BY <2>2, <3>1
    <3>3. stack'[1] = stack[1]
      BY <2>2, <3>1, <3>2
    <3> QED BY <1>1, <1>3, <2>1, <3>3
  <2> QED BY <1>1, <2>1, <2>2
<1>7. CASE AddTwice \/ PassThrows \/ \E s \in Service : Unavailable(s)
  BY <1>1, <1>7 DEF AddTwice, PassThrows, Unavailable, Throw
<1>8. CASE Run \/ RunDone \/ \E p \in Pass : AddPass(p) \/ Equip(p)
  BY <1>1, <1>8 DEF Run, RunDone, AddPass, Equip, TypeOK
<1>9. CASE UNCHANGED vars
  BY <1>1, <1>3, <1>9 DEF vars
<1> QED
  BY <1>2, <1>4, <1>5, <1>6, <1>7, <1>8, <1>9 DEF Next, Step

LEMMA OrderStep ==
  ASSUME TypeOK, BottomCall, InOrder, [Next]_vars
  PROVE  InOrder'
<1> DEFINE active == IF stack = <<>> THEN 0 ELSE 1
<1>n. PICK n : n = Len(log)
  OBVIOUS
<1>1. CASE running' = FALSE
  BY <1>1 DEF InOrder
<1>2. ASSUME UNCHANGED <<passes, equipped, log>>, running,
             next' - 1 - (IF stack' = <<>> THEN 0 ELSE 1) = next - 1 - active
      PROVE  InOrder'
  <2>1. Queue' = Queue
    BY <1>2, QueueKept
  <2>2. \A i : Own(i)' = Own(i)
    BY <1>2 DEF Own
  <2> QED BY <1>2, <2>1, <2>2 DEF InOrder
<1>3. CASE Run
  <2>1. next' = 1 /\ log' = <<>> /\ stack' = <<>>
    BY <1>3 DEF Run, TypeOK
  <2>2. DOMAIN log' = {} /\ Len(log') = 0
    BY <2>1
  <2>3. Own(Len(log))' = Cardinality({j \in 1..0 : ~log'[j].called})
    BY <2>2 DEF Own
  <2>4. {j \in 1..0 : ~log'[j].called} = {}
    OBVIOUS
  <2>5. Own(Len(log))' = 0
    BY <2>3, <2>4, FS_EmptySet
  <2> QED BY <2>1, <2>2, <2>5 DEF InOrder
<1>4. CASE RunNext
  BY <1>2, <1>4 DEF RunNext, TypeOK
<1>5. CASE \E s \in Service : Skip(s) \/ Fetch(s)
  <2>1. stack' # <<>> /\ stack # <<>> /\ UNCHANGED <<passes, equipped, log, next>>
    <3>1. PICK s \in Service : Skip(s) \/ Fetch(s)
      BY <1>5
    <3>2. stack # <<>> /\ UNCHANGED <<passes, equipped, log, next>>
      BY <3>1 DEF Skip, Fetch, CallFor
    <3>3. \E t, f : stack' = Append(t, f) /\ t \in Seq(Frame) /\ f \in Frame
      <4>1. CASE Skip(s)
        BY <3>2, <4>1, BelowFacts, TopFrames DEF Skip, TypeOK
      <4>2. CASE Fetch(s)
        <5>1. Append(Below, [Top EXCEPT !.todo = @ \ {s}, !.asked = s]) \in Seq(Frame)
          BY <3>2, TopChanged, TopFrames DEF TypeOK
        <5>2. Enter(Registered[s]) \in Frame
          BY <4>2, EnterFacts, PassAssumption DEF Fetch
        <5> QED BY <4>2, <5>1, <5>2 DEF Fetch, CallFor
      <4> QED BY <3>1, <4>1, <4>2
    <3> QED BY <3>2, <3>3
  <2>2. running
    BY <2>1 DEF TypeOK
  <2> QED BY <1>2, <2>1, <2>2
<1>6. ASSUME NEW added \in SUBSET Service, Perform(added), running' # FALSE PROVE InOrder'
  <2>e. PICK e : e = [pass |-> Top.pass, added |-> added, called |-> Len(stack) > 1]
    OBVIOUS
  <2>1. /\ stack # <<>> /\ stack' = Below /\ running' = running /\ next' = next
        /\ log' = Append(log, e) /\ UNCHANGED <<passes, equipped>>
    BY <1>6, <2>e DEF Perform, Return, Throw
  <2>2. running
    BY <2>1 DEF TypeOK
  <2>3. /\ Top \in Frame /\ Len(stack) \in Nat \ {0} /\ Below \in Seq(Frame)
        /\ Len(Below) = Len(stack) - 1
    BY <2>1, BelowFacts DEF TypeOK
  <2>4. e \in Entry
    BY <2>e, <2>3 DEF Frame, Entry
  <2>5. e.pass = Top.pass /\ (e.called <=> Len(stack) > 1)
    BY <2>e
  <2>7. /\ n \in Nat /\ Len(log') = n + 1 /\ DOMAIN log = 1..n /\ DOMAIN log' = 1..n + 1
        /\ log'[n + 1] = e /\ \A i \in 1..n : log'[i] = log[i]
    BY <1>n, <2>1, <2>4 DEF TypeOK, Entry
  <2>6. /\ \A i \in 1..n : Own(i)' = Own(i)
        /\ Own(n) \in Nat
        /\ e.called => Own(n + 1)' = Own(n)
        /\ ~e.called => Own(n + 1)' = Own(n) + 1
    <3>1. PICK g, h : g = log /\ h = log'
      OBVIOUS
    <3>2. n \in Nat /\ e \in Entry /\ h[n + 1] = e /\ \A j \in 1..n : h[j] = g[j]
      BY <2>4, <2>7, <3>1
    <3>3. /\ \A i \in 1..n : OwnIn(h, i) = OwnIn(g, i)
          /\ Cardinality(OwnIn(g, n)) \in Nat
          /\ e.called => Cardinality(OwnIn(h, n + 1)) = Cardinality(OwnIn(g, n))
          /\ ~e.called => Cardinality(OwnIn(h, n + 1)) = Cardinality(OwnIn(g, n)) + 1
      <4>1. \A x \in Entry : h[n + 1] = x =>
              /\ \A i \in 1..n : OwnIn(h, i) = OwnIn(g, i)
              /\ Cardinality(OwnIn(g, n)) \in Nat
              /\ x.called => Cardinality(OwnIn(h, n + 1)) = Cardinality(OwnIn(g, n))
              /\ ~x.called => Cardinality(OwnIn(h, n + 1)) = Cardinality(OwnIn(g, n)) + 1
        BY <3>2, CountAppended
      <4> QED BY <3>2, <4>1
    <3>4. \A i : Own(i) = Cardinality(OwnIn(g, i)) /\ Own(i)' = Cardinality(OwnIn(h, i))
      BY <3>1 DEF Own, OwnIn
    <3> QED BY <3>3, <3>4
  <2>8. Queue' = Queue
    BY <2>1, QueueKept
  <2>9. Own(n) = next - 2 /\ \A i \in 1..n : ~log[i].called => log[i].pass = Queue[Own(i)]
    <3>1. next \in Nat
      BY DEF TypeOK
    <3> QED BY <1>n, <2>1, <2>2, <2>7, <3>1 DEF InOrder
  <2>10. stack' = <<>> <=> ~e.called
    BY <2>1, <2>3, <2>5
  <2>11. next \in Nat
    BY DEF TypeOK
  <2>12. Own(n + 1)' = next' - 1 - (IF stack' = <<>> THEN 0 ELSE 1)
    BY <2>1, <2>6, <2>9, <2>10, <2>11
  <2>13. ~e.called => e.pass = Queue'[Own(n + 1)']
    <3> SUFFICES ASSUME ~e.called PROVE e.pass = Queue'[Own(n + 1)']
      OBVIOUS
    <3>1. Top = stack[1]
      BY <2>3, <2>5 DEF Top
    <3>2. Own(n + 1)' = next - 1
      BY <2>6, <2>9, <2>11
    <3> QED BY <2>1, <2>5, <2>8, <3>1, <3>2 DEF BottomCall
  <2>14. ASSUME NEW i \in 1..n + 1, ~log'[i].called PROVE log'[i].pass = Queue'[Own(i)']
    <3>1. CASE i = n + 1
      BY <2>7, <2>8, <2>13, <2>14, <3>1
    <3>2. CASE i # n + 1
      <4>1. i \in 1..n
        BY <2>7, <3>2
      <4> QED BY <2>6, <2>7, <2>8, <2>9, <2>14, <4>1
    <3> QED BY <3>1, <3>2
  <2>15. Own(Len(log))' = Own(n + 1)'
    BY <2>7 DEF Own
  <2> QED BY <2>7, <2>12, <2>14, <2>15 DEF InOrder
<1>7. CASE AddTwice \/ PassThrows \/ (\E s \in Service : Unavailable(s)) \/ RunDone
  BY <1>1, <1>7 DEF AddTwice, PassThrows, Unavailable, Throw, RunDone
<1>8. CASE \E p \in Pass : AddPass(p) \/ Equip(p)
  BY <1>1, <1>8 DEF AddPass, Equip, TypeOK
<1>9. CASE UNCHANGED vars
  BY <1>1, <1>2, <1>9 DEF vars, TypeOK
<1> QED
  BY <1>1, <1>3, <1>4, <1>5, <1>6, <1>7, <1>8, <1>9 DEF Next, Step

LEMMA InitReady ==
  ASSUME Init
  PROVE  Ready
<1>1. passes \in Seq(Pass) /\ stack \in Seq(Frame)
  BY DEF Init
<1>2. log \in Seq([pass : Pass, added : SUBSET Service, called : BOOLEAN])
  BY DEF Init
<1>3. Len(Queue) \in Nat
  BY <1>1, QueueFacts
<1>4. TypeOK
  <2>1. program \in 0..MaxRuns /\ services \in [Service -> 0..MaxRuns]
    BY PassAssumption DEF Init
  <2>2. next \in 1..(Len(Queue) + 1)
    BY <1>3 DEF Init
  <2>3. running = FALSE /\ stack = <<>> /\ failure = "no" /\ equipped = {}
    BY DEF Init
  <2> QED
    BY <1>1, <1>2, <2>1, <2>2, <2>3 DEF TypeOK
<1>5. ServicesCurrent /\ Provided /\ FramesReady /\ Prepared
  BY DEF Init, ServicesCurrent, Provided, FramesReady, Prepared, Exists
<1>6. BottomCall /\ InOrder
  BY DEF Init, BottomCall, InOrder
<1> QED
  BY <1>4, <1>5, <1>6 DEF Ready

LEMMA ReadyAlways == Spec => []Ready
<1>1. Ready /\ [Next]_vars => Ready'
  BY TypeStep, CurrentStep, ProvidedStep, FramesStep, PreparedStep, BottomStep, OrderStep
     DEF Ready
<1> QED
  BY <1>1, InitReady, PTL DEF Spec

-----------------------------------------------------------------------------
(* Whatever the passes throw, decline or require, the manager's state is of *)
(* its type, no call is left behind by run(), and a failed run is over.     *)
THEOREM TypeCorrect == Spec => []TypeOK
<1>1. Ready => TypeOK
  BY DEF Ready
<1> QED
  BY <1>1, ReadyAlways, PTL

(* A service in the context always describes the program in the context:    *)
(* WorkContext::reset at the start of run() leaves nothing of a run before, *)
(* finished or left by an exception.                                        *)
THEOREM ServicesOfThisProgram == Spec => []ServicesCurrent
<1>1. Ready => ServicesCurrent
  BY DEF Ready
<1> QED
  BY <1>1, ReadyAlways, PTL

(* Whatever the registry and the requirements, with cycles among them too,  *)
(* a pass that runs finds every service it requires, added in this run by a *)
(* pass that returned before: the recursion of PassManager::runPass.        *)
THEOREM RequirementsPrepared == Spec => []Prepared
<1>1. Ready => Prepared
  BY DEF Ready
<1> QED
  BY <1>1, ReadyAlways, PTL

(* PassManager::run calls the passes of its list, the generator first and   *)
(* the serializer last, each once and in their order, however many passes   *)
(* runPass brings in between and whichever of them declines.                *)
THEOREM PassesInOrder == Spec => []InOrder
<1>1. Ready => InOrder
  BY DEF Ready
<1> QED
  BY <1>1, ReadyAlways, PTL
=============================================================================
