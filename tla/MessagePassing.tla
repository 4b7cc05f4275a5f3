--------------------------- MODULE MessagePassing ---------------------------
(***************************************************************************)
(* Processes that run generated code and the message passing interface     *)
(* they call.  The interface is not part of the repository: the module     *)
(* has the guarantees of MPI_Isend, MPI_Irecv and MPI_Wait that the        *)
(* generated code uses, with one communicator and one tag (0) as there.    *)
(*                                                                         *)
(* A statement is a record with an op.  alloc, copy and free touch only    *)
(* the memory of their process, so they run together with the call before  *)
(* them; every other statement is a step of its own.                       *)
(***************************************************************************)
EXTENDS Integers, Sequences, FiniteSets
LOCAL INSTANCE SequencesExt
LOCAL INSTANCE FiniteSetsExt
LOCAL INSTANCE TLC

CONSTANTS Junk

VARIABLES at,       \* the statement each process runs next
          memory,   \* the buffers each process has, by name
          pending,  \* the requests of each process that are not complete
          network,  \* what a process sent another one and was not received
          posted    \* the receives a process posted for another one

machine == <<at, memory, pending, network, posted>>

(* The mark of a program that went outside its buffers or lost one. *)
Fault == <<"fault", 0>>
Faulted(mem) == (Fault :> <<>>) @@ mem
Has(mem, buf, indices) == buf \in DOMAIN mem /\ indices \subseteq DOMAIN mem[buf]

(* ---- Statements of one process ---- *)
Alloc(buf, size)      == [op |-> "alloc", buf |-> buf, size |-> size]
Copy(to, from, moves) == [op |-> "copy", to |-> to, from |-> from, moves |-> moves]
Free(buf)             == [op |-> "free", buf |-> buf]
Isend(buf, count, to, req)   == [op |-> "isend", buf |-> buf, count |-> count, peer |-> to, req |-> req]
Irecv(buf, count, from, req) == [op |-> "irecv", buf |-> buf, count |-> count, peer |-> from, req |-> req]
Wait(req)             == [op |-> "wait", req |-> req]

(* The blocking calls are a nonblocking one and its wait. *)
Blocking == <<"blocking", 0>>
Send(buf, count, to)   == <<Isend(buf, count, to, Blocking), Wait(Blocking)>>
Recv(buf, count, from) == <<Irecv(buf, count, from, Blocking), Wait(Blocking)>>

IsLocal(statement) == statement.op \in {"alloc", "copy", "free"}

AfterCopy(mem, c) ==
  IF Has(mem, c.to, {m.to : m \in c.moves}) /\ Has(mem, c.from, {m.from : m \in c.moves})
  THEN [mem EXCEPT ![c.to] = [i \in DOMAIN @ |->
          IF \E m \in c.moves : m.to = i
          THEN mem[c.from][(CHOOSE m \in c.moves : m.to = i).from] ELSE @[i]]]
  ELSE Faulted(mem)

AfterLocal(mem, s) ==
  CASE s.op = "alloc" -> (s.buf :> [i \in 0..(s.size - 1) |-> Junk]) @@ mem
    [] s.op = "copy"  -> AfterCopy(mem, s)
    [] s.op = "free"  -> [b \in DOMAIN mem \ {s.buf} |-> mem[b]]

(* The next statement that is not local, and the memory after those before. *)
NextStep(code, i) == Min({j \in i..Len(code) : ~IsLocal(code[j])} \cup {Len(code) + 1})
AfterLocals(mem, code, from, to) == FoldLeft(AfterLocal, mem, SubSeq(code, from, to - 1))

(* Process p goes on after a step that left it with the memory mem. *)
Continue(p, code, mem) ==
  LET next == NextStep(code, at[p] + 1) IN
  /\ at' = [at EXCEPT ![p] = next]
  /\ memory' = [memory EXCEPT ![p] = AfterLocals(mem, code, at[p] + 1, next)]

(* ---- Calls ---- *)
Whole(count) == 0..(count - 1)
Guarded(p, c) == IF Has(memory[p], c.buf, Whole(c.count)) THEN memory[p] ELSE Faulted(memory[p])

CallIsend(p, code, c) ==
  /\ c.op = "isend"
  /\ network' = [network EXCEPT ![p][c.peer] = Append(@,
                  [buf |-> c.buf, count |-> c.count, req |-> c.req, taken |-> FALSE, data |-> <<>>])]
  /\ pending' = [pending EXCEPT ![p] = @ \cup {c.req}]
  /\ Continue(p, code, Guarded(p, c))
  /\ UNCHANGED posted

CallIrecv(p, code, c) ==
  /\ c.op = "irecv"
  /\ posted' = [posted EXCEPT ![p][c.peer] = Append(@, [buf |-> c.buf, count |-> c.count, req |-> c.req])]
  /\ pending' = [pending EXCEPT ![p] = @ \cup {c.req}]
  /\ Continue(p, code, Guarded(p, c))
  /\ UNCHANGED network

CallWait(p, code, c) ==
  /\ c.op = "wait"
  /\ c.req \notin pending[p]
  /\ Continue(p, code, memory[p])
  /\ UNCHANGED <<pending, network, posted>>

(* ---- The interface ---- *)
(* What the interface reads of a send buffer now: a freed one holds anything. *)
Contents(p, m) ==
  [i \in Whole(m.count) |-> IF Has(memory[p], m.buf, {i}) THEN memory[p][m.buf][i] ELSE Junk]
Data(p, m) == IF m.taken THEN m.data ELSE Contents(p, m)

(* It may copy a message out before the receiver is ready: the send is then *)
(* complete.                                                                *)
Take(p, q) ==
  \E i \in DOMAIN network[p][q] :
    LET m == network[p][q][i] IN
    /\ ~m.taken /\ \A j \in 1..(i - 1) : network[p][q][j].taken
    /\ network' = [network EXCEPT ![p][q][i] = [m EXCEPT !.taken = TRUE, !.data = Contents(p, m)]]
    /\ pending' = [pending EXCEPT ![p] = @ \ {m.req}]
    /\ UNCHANGED <<at, memory, posted>>

(* It gives the oldest message to the oldest receive posted for it. *)
Deliver(p, q) ==
  /\ network[p][q] # <<>> /\ posted[q][p] # <<>>
  /\ LET m == Head(network[p][q])
         r == Head(posted[q][p])
     IN  /\ memory' = [memory EXCEPT ![q] =
              IF m.count <= r.count /\ Has(@, r.buf, Whole(m.count))
              THEN [@ EXCEPT ![r.buf] = [i \in DOMAIN @ |->
                      IF i \in Whole(m.count) THEN Data(p, m)[i] ELSE @[i]]]
              ELSE Faulted(@)]
         /\ pending' = [w \in DOMAIN pending |->
              pending[w] \ ((IF w = p /\ ~m.taken THEN {m.req} ELSE {})
                            \cup (IF w = q THEN {r.req} ELSE {}))]
         /\ network' = [network EXCEPT ![p][q] = Tail(@)]
         /\ posted' = [posted EXCEPT ![q][p] = Tail(@)]
         /\ UNCHANGED at
=============================================================================
