-------------------------- MODULE DataDistribution --------------------------
(***************************************************************************)
(* The MPI code that a distributed loop becomes: one process scatters the  *)
(* array, every process sweeps over its blocks and exchanges the edges of  *)
(* the blocks after each sweep, and the first process gathers the array.   *)
(* The module builds the statements each process runs, as the generators   *)
(* do, and runs them on MessagePassing.                                    *)
(* Source: source/Transforms/DataDistribution/MPI/,                        *)
(* MPIDataDistributionScatter.cpp, MPIDataDistributionIteration.cpp and    *)
(* MPIDataDistributionGather.cpp.                                          *)
(*                                                                         *)
(* An element's value is the pair of its index and the number of the sweep *)
(* that computed it; a sweep that reads anything but the values of the     *)
(* sweep before computes Junk.                                             *)
(***************************************************************************)
EXTENDS MessagePassing, BlockAffine
LOCAL INSTANCE SequencesExt
LOCAL INSTANCE FiniteSetsExt
LOCAL INSTANCE TLC

CONSTANTS Distributions,  \* the distributions to choose from
          MaxProcesses,   \* bound: no distribution has more processes
          Sweeps          \* bound: no loop has more iterations

ASSUME DistributionsAssumption ==
  /\ Sweeps \in Nat /\ MaxProcesses \in Nat
  /\ \A D \in Distributions : /\ Normalized(D)
                              /\ D.P <= MaxProcesses
                              /\ D.gen \in D.refs /\ D.leading = LeadingWithLessMemory(D)
                              /\ D.source \in Nat /\ D.sweeps \in 1..Sweeps

VARIABLES dist,     \* the distribution of this run
          program   \* the statements generated for each process

vars == <<dist, program, machine>>

Processes(D) == 0..(D.P - 1)
Source(D) == D.source % D.P
Others(D) == Processes(D) \ {Source(D)}
Ranks == 0..(MaxProcesses - 1)

Ascending(set) == SetToSortSeq(set, LAMBDA x, y : x < y)
Descending(set) == Reverse(Ascending(set))
ForEach(seq, Statement(_)) == FlattenSeq([i \in DOMAIN seq |-> Statement(seq[i])])

(* ---- Names: the array, the part of a process, buffers and requests ---- *)
A  == <<"A", 0>>
AA == <<"AA", 0>>
SendBuf(q) == <<"_SEND_BUF_", q>>
RecvBuf(q) == <<"_RECV_BUF_", q>>
Gathered(q) == <<"gathered", q>>

Initial(g) == <<g, 0>>
Value(D, g, t) == <<g, IF g \in Generated(D) THEN t ELSE 0>>

(* ---- Scatter and gather ---- *)
(* Where the block's element is in what a process stores. *)
Stored(D, cell, block, element) ==
  (Ordinal(cell, WidthsInCells(D)) * CellWidth(D, D.leading) * ElementsInBlock(D))
  + (IF Len(D.dims) = 1 THEN 0 ELSE block[D.leading] * ElementsInBlock(D))
  + Ordinal(element, BlockWidths(D))

FirstOf(D, cell, block, k) == (cell[k] * CellWidth(D, k) * D.d[k]) + (block[k] * D.d[k])

Scattered(D, cell, block, element) ==
  [k \in Axes(D) |->
     IF Left(D)[k] > 0 \/ Right(D)[k] > 0
     THEN (FirstOf(D, cell, block, k) + element[k] - Left(D)[k] + D.dims[k]) % D.dims[k]
     ELSE FirstOf(D, cell, block, k) + element[k]]

ScatterMoves(D, q) ==
  {[to |-> Stored(D, c, b, e), from |-> Scattered(D, c, b, e)] :
     c \in Cells(D), b \in BlocksOfProcess(D, q), e \in Box(BlockWidths(D))}

Scatter(D, p) ==
  LET size == ElementsInEachProcessor(D)
      Fill(q) == IF q = p THEN <<Copy(AA, A, ScatterMoves(D, q))>>
                 ELSE <<Alloc(SendBuf(q), size), Copy(SendBuf(q), A, ScatterMoves(D, q)),
                        Isend(SendBuf(q), size, q, SendBuf(q))>>
  IN  IF p # Source(D) THEN Recv(AA, size, Source(D))
      ELSE ForEach(Descending(Processes(D)), Fill)
           \o ForEach(Descending(Others(D)), LAMBDA q : <<Wait(SendBuf(q))>>)
           \o ForEach(Descending(Others(D)), LAMBDA q : <<Free(SendBuf(q))>>)

Unshifted(D, cell, block, i) == [k \in Axes(D) |-> FirstOf(D, cell, block, k) + i[k]]
Written(D, cell, block, i) ==
  [k \in Axes(D) |-> IF D.gen[k] # 0
                     THEN (FirstOf(D, cell, block, k) + i[k] + D.gen[k] + D.dims[k]) % D.dims[k]
                     ELSE FirstOf(D, cell, block, k) + i[k]]

GatherMoves(D, q) ==
  {[to |-> Written(D, c, b, i),
    from |-> Stored(D, c, b, [k \in Axes(D) |-> i[k] + Left(D)[k] + D.gen[k]])] :
     c \in Cells(D), b \in BlocksOfProcess(D, q), i \in Box(D.d)}

Gather(D, p) ==
  LET size == ElementsInEachProcessor(D)
      Unpack(q) == IF q = p THEN <<Copy(A, AA, GatherMoves(D, q))>>
                   ELSE <<Wait(Gathered(q)), Copy(A, Gathered(q), GatherMoves(D, q)), Free(Gathered(q))>>
  IN  IF p # Source(D) THEN Send(AA, size, Source(D))
      ELSE ForEach(Ascending(Others(D)), LAMBDA q : <<Alloc(Gathered(q), size)>>)
           \o ForEach(Ascending(Others(D)), LAMBDA q : <<Irecv(Gathered(q), size, q, Gathered(q))>>)
           \o ForEach(Ascending(Processes(D)), Unpack)

(* ---- The exchange after a sweep ---- *)
(* The neighbours of a block, the block itself among them, in the order in *)
(* which their parts lie in a buffer.                                      *)
Neighbours(D) ==
  LET n == Len(D.dims) IN
  [m \in 1..(3 ^ n) |-> [k \in 1..n |-> (((m - 1) \div (3 ^ (n - k))) % 3) - 1]]

BackOffset(D, n) == FoldLeftDomain(LAMBDA sum, k : sum + D.P - (n[k] * D.s[k]), 0, n) % D.P
RankOffset(D, n) == FoldLeftDomain(LAMBDA sum, k : sum + D.P + (n[k] * D.s[k]), 0, n) % D.P

ElementsToSend(D, n) ==
  LET Along(k) ==
        CASE n[k] = 0 -> D.d[k]
          [] n[k] = -1 /\ Right(D)[k] > 0 -> Right(D)[k] - D.gen[k]
          [] n[k] = -1 /\ Right(D)[k] = 0 -> IF D.gen[k] < 0 THEN D.gen[k] ELSE 0
          [] n[k] = 1 /\ Left(D)[k] > 0 -> Left(D)[k] + D.gen[k]
          [] n[k] = 1 /\ Left(D)[k] = 0 -> IF D.gen[k] > 0 THEN D.gen[k] ELSE 0
  IN  Product([k \in Axes(D) |-> Along(k)]) * BlocksInEachProcessor(D)

(* The parts for the process that is offset ranks further, and how many    *)
(* elements they have; parts for the process itself are left out.          *)
Parts(D, offset) ==
  SelectSeq(Neighbours(D), LAMBDA n : ElementsToSend(D, n) > 0 /\ RankOffset(D, n) = offset)
PartsBefore(D, offset, i) ==
  FoldLeft(LAMBDA sum, n : sum + ElementsToSend(D, n), 0, SubSeq(Parts(D, offset), 1, i - 1))
Count(D, offset) == PartsBefore(D, offset, Len(Parts(D, offset)) + 1)
Offsets(D) == Ascending({o \in 1..(D.P - 1) : Count(D, o) > 0})

SendFrom(D, n) == [k \in Axes(D) |-> CASE n[k] = -1 -> Left(D)[k] + D.gen[k]
                                       [] n[k] = 0  -> Left(D)[k]
                                       [] n[k] = 1  -> D.d[k]]
SendTo(D, n)   == [k \in Axes(D) |-> CASE n[k] = -1 -> Left(D)[k] + Right(D)[k]
                                       [] n[k] = 0  -> Left(D)[k] + D.d[k]
                                       [] n[k] = 1  -> Left(D)[k] + D.d[k] + D.gen[k]]
ReceiveFrom(D, n) == [k \in Axes(D) |-> CASE n[k] = -1 -> Left(D)[k] + D.d[k] + D.gen[k]
                                          [] n[k] = 0  -> Left(D)[k]
                                          [] n[k] = 1  -> 0]
ReceiveTo(D, n)   == [k \in Axes(D) |-> CASE n[k] = -1 -> Left(D)[k] + D.d[k] + Right(D)[k]
                                          [] n[k] = 0  -> Left(D)[k] + D.d[k]
                                          [] n[k] = 1  -> Left(D)[k] + D.gen[k]]

Minus(x, y) == [k \in DOMAIN x |-> x[k] - y[k]]
Extent(from, to) == {Shifted(i, from) : i \in Box(Minus(to, from))}

BlockIndex(D, block) == IF Len(D.dims) = 1 THEN 0 ELSE block[D.leading]
ElementsInCell(D) == ElementsInEachProcessor(D) \div CellsCount(D)
BlocksInCell(D) == BlocksInEachProcessor(D) \div CellsCount(D)

(* The cell of the neighbour of a block, round the edges of the array. *)
CellOf(D, cell, block, n) ==
  [k \in Axes(D) |->
     LET b == block[k] + n[k]
         w == WidthsInCells(D)[k]
     IN  CASE b = -1 -> (cell[k] + w - 1) % w
           [] b \in 0..(CellWidth(D, k) - 1) -> cell[k]
           [] b = CellWidth(D, k) -> (cell[k] + 1) % w]

SendIndex(D, cell, block, n, e) ==
  LET inBlock == ElementsToSend(D, n) \div BlocksInEachProcessor(D)
      newBlock == (BlockIndex(D, block) + n[D.leading] + BlocksInCell(D)) % BlocksInCell(D)
  IN  (Ordinal(CellOf(D, cell, block, n), WidthsInCells(D)) * ElementsInCell(D))
      + (newBlock * inBlock)
      + Ordinal(Minus(e, SendFrom(D, n)), Minus(SendTo(D, n), SendFrom(D, n)))

SourceIndex(D, cell, block, e) ==
  (Ordinal(cell, WidthsInCells(D)) * ElementsInCell(D))
  + (BlockIndex(D, block) * ElementsInBlock(D)) + Ordinal(e, BlockWidths(D))

PackMoves(D, p, offset) ==
  UNION {LET n == Parts(D, offset)[i] IN
         {[to |-> SendIndex(D, c, b, n, e) + PartsBefore(D, offset, i),
           from |-> SourceIndex(D, c, b, e)] :
            c \in Cells(D), b \in BlocksOfProcess(D, p), e \in Extent(SendFrom(D, n), SendTo(D, n))} :
         i \in DOMAIN Parts(D, offset)}

ReceiveIndex(D, blockIndex, n, e) ==
  (blockIndex * ElementsToSend(D, n))
  + Ordinal(Minus(e, ReceiveFrom(D, n)), Minus(ReceiveTo(D, n), ReceiveFrom(D, n)))

UnpackMoves(D, offset) ==
  UNION {LET n == Parts(D, offset)[i] IN
         {[to |-> (b * ElementsInBlock(D)) + Ordinal(e, BlockWidths(D)),
           from |-> ReceiveIndex(D, b, n, e) + PartsBefore(D, offset, i)] :
            b \in 0..(BlocksInEachProcessor(D) - 1), e \in Extent(ReceiveFrom(D, n), ReceiveTo(D, n))} :
         i \in DOMAIN Parts(D, offset)}

Packed(D, p) ==
  ForEach(Offsets(D), LAMBDA o : <<Alloc(SendBuf(o), Count(D, o))>>)
  \o ForEach(Offsets(D), LAMBDA o : <<Copy(SendBuf(o), AA, PackMoves(D, p, o))>>)
  \o ForEach(Offsets(D), LAMBDA o : <<Isend(SendBuf(o), Count(D, o), (p + o) % D.P, SendBuf(o))>>)

Posted(D, p) ==
  ForEach(Offsets(D), LAMBDA o :
    <<Alloc(RecvBuf(o), Count(D, o)), Irecv(RecvBuf(o), Count(D, o), (p + (D.P - o)) % D.P, RecvBuf(o))>>)

UnpackedAtOnce(D) == ForEach(Offsets(D), LAMBDA o : <<Copy(AA, RecvBuf(o), UnpackMoves(D, o))>>)
Unpacked(D) ==
  ForEach(Offsets(D), LAMBDA o : <<Wait(RecvBuf(o)), Copy(AA, RecvBuf(o), UnpackMoves(D, o))>>)

FreedAtOnce(D) == ForEach(Offsets(D), LAMBDA o : <<Free(SendBuf(o))>>)
Freed(D) == ForEach(Offsets(D), LAMBDA o : <<Wait(SendBuf(o)), Free(SendBuf(o))>>)

ReceivedFirst(D, p) == Posted(D, p) \o Unpacked(D) \o Packed(D, p) \o Freed(D)
Exchange(D, p) ==
  Packed(D, p) \o Posted(D, p) \o Unpacked(D)
  \o ForEach(Offsets(D), LAMBDA o : <<Free(RecvBuf(o))>>) \o Freed(D)

(* ---- The loop ---- *)
(* The process that computes an element. *)
Owner(D, g) == Process(D, [k \in Axes(D) |-> (g[k] - D.gen[k]) \div D.d[k]])

(* One sweep of a process: for each of its points, where the result goes   *)
(* and what the references of the point must hold for it to be right; and  *)
(* whose elements it reads.                                                *)
Sweep(D, p, t) ==
  [op |-> "sweep",
   reads |-> {Owner(D, Shifted(x, a)) : x \in PointsOf(D, p), a \in D.refs},
   points |-> {[to |-> Local(D, x, D.gen),
                value |-> Value(D, Shifted(x, D.gen), t),
                needs |-> {[at |-> Local(D, x, a), value |-> Value(D, Shifted(x, a), t - 1)] : a \in D.refs}] :
               x \in PointsOf(D, p)}]

Iterations(D, p) == ForEach([t \in 1..D.sweeps |-> t], LAMBDA t : <<Sweep(D, p, t)>> \o Exchange(D, p))

Program(D, p) ==
  <<Alloc(AA, NewArrayLength(D))>> \o Scatter(D, p) \o Iterations(D, p) \o Gather(D, p)

Here(p) == program[p][at[p]]
Ended(p) == at[p] > Len(program[p])

Meets(part, need) == need.at \in DOMAIN part /\ part[need.at] = need.value
AfterSweep(part, s) ==
  [i \in DOMAIN part |->
     IF \E x \in s.points : x.to = i
     THEN LET x == CHOOSE x \in s.points : x.to = i
          IN  IF \A n \in x.needs : Meets(part, n) THEN x.value ELSE Junk
     ELSE part[i]]

RunSweep(p, s) ==
  /\ s.op = "sweep"
  /\ Continue(p, program[p],
       IF Has(memory[p], AA, {x.to : x \in s.points} \cup UNION {{n.at : n \in x.needs} : x \in s.points})
       THEN [memory[p] EXCEPT ![AA] = AfterSweep(@, s)] ELSE Faulted(memory[p]))
  /\ UNCHANGED <<pending, network, posted>>

Init ==
  /\ dist \in Distributions
  /\ program = [p \in Processes(dist) |-> Program(dist, p)]
  /\ at = [p \in Processes(dist) |-> NextStep(program[p], 1)]
  /\ memory = [p \in Processes(dist) |->
       AfterLocals(IF p = Source(dist) THEN A :> [g \in Box(dist.dims) |-> Initial(g)] ELSE <<>>,
                   program[p], 1, NextStep(program[p], 1))]
  /\ pending = [p \in Processes(dist) |-> {}]
  /\ network = [p \in Processes(dist) |-> [q \in Processes(dist) |-> <<>>]]
  /\ posted = [p \in Processes(dist) |-> [q \in Processes(dist) |-> <<>>]]

Step(p) ==
  /\ p \in Processes(dist)
  /\ ~Ended(p)
  /\ \/ RunSweep(p, Here(p))
     \/ CallIsend(p, program[p], Here(p))
     \/ CallIrecv(p, program[p], Here(p))
     \/ CallWait(p, program[p], Here(p))
  /\ UNCHANGED <<dist, program>>

Carry(p, q) ==
  /\ {p, q} \subseteq Processes(dist)
  /\ Deliver(p, q)
  /\ UNCHANGED <<dist, program>>

Early(p, q) ==
  /\ {p, q} \subseteq Processes(dist)
  /\ Take(p, q)
  /\ UNCHANGED <<dist, program>>

Progress == \E p, q \in Ranks : Step(p) \/ Carry(p, q)
Next == Progress \/ \E p, q \in Ranks : Early(p, q)

(* As long as a process can run on or a message be delivered, one of that
   happens; the interface need not take a message early. *)
Fairness == WF_vars(Progress)

Spec == Init /\ [][Next]_vars /\ Fairness

-----------------------------------------------------------------------------

(* Type invariant. *)
TypeOK ==
  /\ dist \in Distributions
  /\ \A p \in Processes(dist) :
       /\ at[p] \in 1..(Len(program[p]) + 1)
       /\ AA \in DOMAIN memory[p]
       /\ pending[p] \subseteq {program[p][i].req : i \in
            {j \in DOMAIN program[p] : program[p][j].op \in {"isend", "irecv"}}}
       /\ \A q \in Processes(dist) : \A i \in DOMAIN network[p][q] :
            ~network[p][q][i].taken => network[p][q][i].req \in pending[p]

(* No process reads or writes outside a buffer it has, sends one that is   *)
(* not as long as it says, or is sent more than it has room for: the sizes *)
(* the generators print for malloc and for the calls fit the indices they  *)
(* print for the copies.                                                   *)
WithinBuffers == \A p \in Processes(dist) : Fault \notin DOMAIN memory[p]

(* A process that starts a sweep has, for every reference of every point   *)
(* it executes, the value of the sweep before, its own or its neighbours': *)
(* nobody gets an edge too old, too new or of another block.               *)
HalosFresh ==
  \A p \in Processes(dist) :
    ~Ended(p) /\ Here(p).op = "sweep"
      => \A x \in Here(p).points : \A n \in x.needs : Meets(memory[p][AA], n)

(* When the first process is through, the array is what the loop computes  *)
(* without distribution; when all are, no message, request or buffer is    *)
(* left.                                                                   *)
Restored ==
  /\ Ended(Source(dist)) =>
       memory[Source(dist)][A] = [g \in Box(dist.dims) |-> Value(dist, g, dist.sweeps)]
  /\ (\A p \in Processes(dist) : Ended(p)) =>
       \A p \in Processes(dist) :
         /\ DOMAIN memory[p] \subseteq {A, AA}
         /\ pending[p] = {}
         /\ \A q \in Processes(dist) : network[p][q] = <<>> /\ posted[p][q] = <<>>

(* The messages are all the order there is between sweeps, and enough of   *)
(* it: no process starts a sweep before those it reads from finished the   *)
(* one before.                                                             *)
SweepsDone(p) ==
  IF p \in Processes(dist)
  THEN Cardinality({i \in 1..(at[p] - 1) : program[p][i].op = "sweep"}) ELSE 0
ReadsFrom(p) ==
  IF p \in Processes(dist)
  THEN UNION {program[p][i].reads : i \in {j \in DOMAIN program[p] : program[p][j].op = "sweep"}}
  ELSE {}

Abstract == INSTANCE NeighbourSweeps WITH
  done <- [p \in Ranks |-> SweepsDone(p)], sources <- [p \in Ranks |-> ReadsFrom(p)]
ImplementsSweeps == Abstract!Spec

(* Every process comes to its end: with blocking receives and waits, no    *)
(* ring of processes waits on itself.                                      *)
Ends == <>(\A p \in Ranks : p \in Processes(dist) => Ended(p))
=============================================================================
