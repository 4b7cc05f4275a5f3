----------------------------- MODULE PassManager -----------------------------
(***************************************************************************)
(* OPS::Stage: a PassManager runs a generator, a list of passes and a      *)
(* serializer over one WorkContext.  The context holds the program and the *)
(* services (facts about the program) that passes leave behind.  A pass    *)
(* names the services it requires; runPass brings in, recursively, the     *)
(* registered pass of every required service that is not there yet.        *)
(*                                                                         *)
(* A C++ call is an entry of "stack".  An exception leaves run() and every *)
(* runPass() at once; the context keeps what it held until the next run()  *)
(* resets it.  The assertions are those of a debug build, where they throw *)
(* (include/OPS_Core/Helpers.h:25-33).                                     *)
(***************************************************************************)
EXTENDS Sequences, Naturals, FiniteSets

CONSTANTS
  Pass,        \* the pass classes
  Service,     \* the interfaces of WorkContext services
  Requires,    \* [Pass -> SUBSET Service], getAnalysisUsage()
  Provides,    \* [Pass -> SUBSET Service], what run() adds
  Declining,   \* passes whose run() may return without adding anything
  Registered,  \* the registry: [a subset of Service -> Pass]
  Generator,   \* the pass given to setGenerator
  Serializer,  \* the pass given to setSerializer
  Pipelines,   \* the lists of passes an application may build
  MaxRuns      \* bound on calls of run()

NoService == "none"

ASSUME PassAssumption ==
  /\ Requires \in [Pass -> SUBSET Service]
  /\ Provides \in [Pass -> SUBSET Service]
  /\ Declining \subseteq Pass
  /\ DOMAIN Registered \subseteq Service
  /\ \A s \in DOMAIN Registered : Registered[s] \in Pass
  /\ Generator \in Pass /\ Serializer \in Pass
  /\ Pipelines \subseteq Seq(Pass) /\ MaxRuns \in Nat

VARIABLES
  passes,     \* m_passes, and whether a generator and a serializer are set
  equipped,   \* the ones of {Generator, Serializer} that are set
  program,    \* which ProgramUnit the context holds: the number of the run
  services,   \* [Service -> the program it was made from, 0 for none]
  next,       \* index in Queue of the pass run() runs next
  stack,      \* the active calls of runPass
  running,    \* run() is active
  failure,    \* why the last run was left by an exception
  log         \* history: the passes that returned from run() in this run

vars == <<passes, equipped, program, services, next, stack, running, failure, log>>

Frame == [pass : Pass, todo : SUBSET Service, asked : Service \cup {NoService}]

Top == stack[Len(stack)]
Below == SubSeq(stack, 1, Len(stack) - 1)

(* A call of runPass on a pass: the set of required services is copied.    *)
Enter(p) == [pass |-> p, todo |-> Requires[p], asked |-> NoService]

(* What run() hands to runPass, in its order.                              *)
Queue ==
  (IF Generator \in equipped THEN <<Generator>> ELSE <<>>) \o passes \o
  (IF Serializer \in equipped THEN <<Serializer>> ELSE <<>>)

Exists(s) == services[s] # 0

Init ==
  /\ passes = <<>> /\ equipped = {}
  /\ program = 0 /\ services = [s \in Service |-> 0]
  /\ next = 1 /\ stack = <<>> /\ running = FALSE
  /\ failure = "no" /\ log = <<>>

-----------------------------------------------------------------------------
AddPass(p) ==
  /\ ~running
  /\ Append(passes, p) \in Pipelines
  /\ passes' = Append(passes, p)
  /\ UNCHANGED <<equipped, program, services, next, stack, running, failure, log>>

(* setGenerator and setSerializer.                                         *)
Equip(p) ==
  /\ ~running /\ p \in {Generator, Serializer}
  /\ equipped' = equipped \cup {p}
  /\ UNCHANGED <<passes, program, services, next, stack, running, failure, log>>

ResetProgramOnly ==
  /\ program' = program + 1
  /\ UNCHANGED services

(* WorkContext::reset: a new program and no services.                      *)
Reset ==
  /\ program' = program + 1
  /\ services' = [s \in Service |-> 0]

Run ==
  /\ ~running /\ program < MaxRuns
  /\ Reset
  /\ running' = TRUE /\ next' = 1
  /\ failure' = "no" /\ log' = <<>>
  /\ UNCHANGED <<passes, equipped, stack>>

(* run() calls runPass on the next pass of its list, or returns.           *)
RunNext ==
  /\ running /\ stack = <<>>
  /\ next <= Len(Queue)
  /\ stack' = <<Enter(Queue[next])>>
  /\ next' = next + 1
  /\ UNCHANGED <<passes, equipped, program, services, running, failure, log>>

RunDone ==
  /\ running /\ stack = <<>>
  /\ next > Len(Queue)
  /\ running' = FALSE
  /\ UNCHANGED <<passes, equipped, program, services, next, stack, failure, log>>

ThrowOneLevel(why) ==
  /\ stack' = Below /\ running' = FALSE
  /\ failure' = why

(* An exception leaves every runPass and run().                            *)
Throw(why) ==
  /\ stack' = <<>> /\ running' = FALSE
  /\ failure' = why

SkipForever(s) ==
  /\ stack # <<>> /\ s \in Top.todo
  /\ Exists(s)
  /\ UNCHANGED vars

(* The loop of runPass over the required services: one that exists needs   *)
(* nothing.                                                                *)
Skip(s) ==
  /\ stack # <<>> /\ s \in Top.todo
  /\ Exists(s)
  /\ stack' = Append(Below, [Top EXCEPT !.todo = @ \ {s}])
  /\ UNCHANGED <<passes, equipped, program, services, next, running, failure, log>>

CallFor(s, callee) ==
  /\ stack' = Append(Append(Below, [Top EXCEPT !.todo = @ \ {s}, !.asked = s]), callee)
  /\ UNCHANGED <<passes, equipped, program, services, next, running, failure, log>>

FetchBare(s) ==
  /\ stack # <<>> /\ s \in Top.todo
  /\ ~Exists(s) /\ s \in DOMAIN Registered
  /\ CallFor(s, [Enter(Registered[s]) EXCEPT !.todo = {}])

(* One that does not exist is made by the pass registered for it.          *)
Fetch(s) ==
  /\ stack # <<>> /\ s \in Top.todo
  /\ ~Exists(s) /\ s \in DOMAIN Registered
  /\ CallFor(s, Enter(Registered[s]))

(* One that no registered pass makes fails the assertion of the loop.      *)
Unavailable(s) ==
  /\ stack # <<>> /\ s \in Top.todo
  /\ ~Exists(s) /\ s \notin DOMAIN Registered
  /\ Throw("unmet")
  /\ UNCHANGED <<passes, equipped, program, services, next, log>>

(* What a pass's run() may add.                                            *)
Outcomes(p) == IF p \in Declining THEN {Provides[p], {}} ELSE {Provides[p]}

(* pass.run() returns, and so does runPass, to "callers".                  *)
Return(added, callers) ==
  LET p == Top.pass
      after == [s \in Service |-> IF s \in added THEN program ELSE services[s]]
      missed == callers # <<>> /\ after[callers[Len(callers)].asked] = 0
  IN
  /\ stack # <<>> /\ Top.todo = {}
  /\ added \in Outcomes(p)
  /\ \A s \in added : ~Exists(s)
  /\ services' = after
  /\ log' = Append(log, [pass |-> p, added |-> added, called |-> Len(stack) > 1])
  /\ \/ missed /\ Throw("unmet")
     \/ ~missed /\ stack' = callers /\ UNCHANGED <<running, failure>>
  /\ UNCHANGED <<passes, equipped, program, next>>

PerformForRun(added) == Return(added, <<>>)

(* pass.run() adds its services and returns to the caller of runPass: to   *)
(* run(), or to the loop of the pass that asked for a service, which then  *)
(* asserts that it exists.                                                 *)
Perform(added) == Return(added, Below)

(* pass.run() adds a service that exists: addService asserts.              *)
AddTwice ==
  /\ stack # <<>> /\ Top.todo = {}
  /\ \E s \in Provides[Top.pass] : Exists(s)
  /\ Throw("twice")
  /\ UNCHANGED <<passes, equipped, program, services, next, log>>

(* pass.run() throws before it adds anything: every pass adds last.        *)
PassThrows ==
  /\ stack # <<>> /\ Top.todo = {}
  /\ Throw("pass")
  /\ UNCHANGED <<passes, equipped, program, services, next, log>>

-----------------------------------------------------------------------------
Step ==
  \/ RunNext
  \/ RunDone
  \/ \E s \in Service : Skip(s)
  \/ \E s \in Service : Fetch(s)
  \/ \E s \in Service : Unavailable(s)
  \/ \E added \in SUBSET Service : Perform(added)
  \/ AddTwice
  \/ PassThrows

Next ==
  \/ \E p \in Pass : AddPass(p)
  \/ \E p \in Pass : Equip(p)
  \/ Run
  \/ Step

Spec == Init /\ [][Next]_vars /\ WF_vars(Step)

-----------------------------------------------------------------------------
(* Every variable has its type; nothing is on the call stack of a manager  *)
(* that is not running, and a run that was left by an exception is over.   *)
TypeOK ==
  /\ passes \in Seq(Pass) /\ equipped \subseteq {Generator, Serializer}
  /\ program \in 0..MaxRuns
  /\ services \in [Service -> 0..MaxRuns]
  /\ next \in 1..(Len(Queue) + 1)
  /\ stack \in Seq(Frame)
  /\ running \in BOOLEAN
  /\ failure \in {"no", "pass", "unmet", "twice"}
  /\ log \in Seq([pass : Pass, added : SUBSET Service, called : BOOLEAN])
  /\ stack # <<>> => running
  /\ failure # "no" => ~running

(* A pass that runs finds each service it requires, and finds it made in   *)
(* this run: some pass that returned before it, in this run, added it.     *)
(* Passes brought in for a service had their own requirements met too.     *)
Prepared ==
  \A i \in DOMAIN log : \A s \in Requires[log[i].pass] :
    \E j \in 1..(i - 1) : s \in log[j].added

(* No service outlives the program it describes, whether the run before    *)
(* came to its end or was left by an exception halfway.                    *)
ServicesCurrent == \A s \in Service : services[s] \in {0, program}

(* How many of the first i passes that returned run() itself had called.   *)
Own(i) == Cardinality({j \in 1..i : ~log[j].called})

(* The passes run() itself called are those of its list, each once, in     *)
(* their order: the generator first and the serializer last, no pass lost  *)
(* or repeated by the passes that were brought in between.                 *)
InOrder ==
  running =>
    /\ Own(Len(log)) = next - 1 - (IF stack = <<>> THEN 0 ELSE 1)
    /\ \A i \in DOMAIN log : ~log[i].called => log[i].pass = Queue[Own(i)]

(* Every run() comes to an end: bringing in passes on demand terminates.   *)
Settles == running ~> ~running
=============================================================================
