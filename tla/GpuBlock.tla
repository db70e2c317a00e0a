------------------------------- MODULE GpuBlock -------------------------------
(***************************************************************************)
(* The reference of a GPU kernel (ppy/_gpu.py): the blocks of a grid run   *)
(* one after another, the threads of a block at once, each a thread of     *)
(* Python.  `syncthreads` is a barrier of the block, a shuffle trades      *)
(* values through a table of the warp between two barriers, and a thread   *)
(* that fails breaks every barrier so that no other waits for it.          *)
(*                                                                         *)
(* A kernel is a sequence of operations every thread does; a value is      *)
(* named by the thread and the operation it comes from.  Barriers are      *)
(* those of Python's `threading`.                                          *)
(***************************************************************************)
EXTENDS Integers, Sequences, FiniteSets

CONSTANTS
    Width,     \* how many lanes a warp has
    BlockSize, \* how many threads a block has
    Grid,      \* how many blocks
    Kernels,   \* the kernels launched
    MaxFails   \* bound: the operations that raise

BlockThreads == 0 .. BlockSize - 1
WarpOf(t) == t \div Width
Lane(t) == t % Width
Warps == {WarpOf(t) : t \in BlockThreads}
Lanes(w) == {t \in BlockThreads : WarpOf(t) = w}
Operations == {"sync", "shfl", "shfl_up", "shfl_down", "shfl_xor"}
Shuffles == {"shfl", "shfl_up", "shfl_down", "shfl_xor"}

ASSUME GpuAssumption ==
    /\ Width \in Nat \ {0} /\ BlockSize \in Nat \ {0} /\ Grid \in Nat \ {0} /\ MaxFails \in Nat
    /\ Kernels \subseteq Seq(Operations)

\* The barrier of the block is named "block", a warp's by its number.
Barriers == {<<"block">>} \cup {<<"warp", w>> : w \in Warps}
Parties(b) == IF b = <<"block">> THEN BlockThreads ELSE Lanes(b[2])
Block == <<"block">>
Warp(t) == <<"warp", WarpOf(t)>>

VARIABLES
    \* the launch: its kernel, the block at hand, how it ended
    kernel, block, outcome,
    \* the block: its barriers, its warps' tables, the failures, in order
    barrier, table, failures,
    \* each thread: its operation, where in it, what it got of every shuffle,
    \* and the barriers it has still to break
    step, phase, got, breaking

blockVars == <<barrier, table, failures>>
laneVars  == <<step, phase, got, breaking>>
gpuVars   == <<kernel, block, outcome, blockVars, laneVars>>

Phases == {"ready", "waiting", "first", "trade", "last", "leaving", "failing", "out"}
Nothing == <<>>
Value(t, i) == <<t, i>>
ShuffleValues == {Nothing} \cup {Value(t, i) : t \in BlockThreads, i \in DOMAIN kernel}
GpuTypeOK ==
    /\ kernel \in Kernels /\ block \in 1 .. Grid
    /\ outcome \in {"running", "returned", "raised"}
    /\ barrier \in [Barriers -> [state : {"filling", "draining", "broken"}, count : 0 .. BlockSize]]
    /\ table \in [BlockThreads -> ShuffleValues]
    /\ failures \in Seq(BlockThreads)
    /\ step \in [BlockThreads -> 1 .. Len(kernel) + 1] /\ phase \in [BlockThreads -> Phases]
    /\ got \in [BlockThreads -> [DOMAIN kernel -> ShuffleValues]]
    /\ breaking \in [BlockThreads -> SUBSET Barriers]

\* `_Block`: made anew for every block.
Unbroken == [b \in Barriers |-> [state |-> "filling", count |-> 0]]
NoValues == [t \in BlockThreads |-> Nothing]
Starting == [t \in BlockThreads |-> "ready"]

GpuInit ==
    /\ kernel \in Kernels /\ block = 1 /\ outcome = "running"
    /\ barrier = Unbroken /\ table = NoValues /\ failures = <<>>
    /\ step = [t \in BlockThreads |-> 1] /\ phase = Starting
    /\ got = [t \in BlockThreads |-> [i \in DOMAIN kernel |-> Nothing]]
    /\ breaking = [t \in BlockThreads |-> {}]

Doing(t, ops) == step[t] \in DOMAIN kernel /\ kernel[step[t]] \in ops
GoTo(t, there) == phase' = [phase EXCEPT ![t] = there]
Advance(t) == step' = [step EXCEPT ![t] = @ + 1] /\ GoTo(t, "ready")
Give(t, v) == got' = [got EXCEPT ![t][step[t]] = v]

-----------------------------------------------------------------------------
(* `threading.Barrier.wait`: nobody enters while the last group leaves. *)

\* The last to arrive lets the others leave, and does not wait.
Arrives(t, b, inside, past) ==
    LET at == barrier[b]
        others == Cardinality(Parties(b)) - 1
    IN /\ at.state # "draining"
       /\ IF at.state = "broken" THEN GoTo(t, "out") /\ UNCHANGED <<barrier, step>>
          ELSE IF at.count < others
          THEN GoTo(t, inside) /\ barrier' = [barrier EXCEPT ![b].count = @ + 1] /\ UNCHANGED step
          ELSE /\ barrier' = IF others = 0 THEN barrier
                             ELSE [barrier EXCEPT ![b].state = "draining"]
               /\ past

Leaves(t, b, past) ==
    LET at == barrier[b] IN
       /\ at.state # "filling"
       /\ barrier' = [barrier EXCEPT ![b] =
              [state |-> IF at.count = 1 /\ at.state = "draining" THEN "filling" ELSE at.state,
               count |-> at.count - 1]]
       /\ IF at.state = "broken" THEN GoTo(t, "out") /\ UNCHANGED step ELSE past

-----------------------------------------------------------------------------
(* What a thread of a kernel does. *)

\* `syncthreads`.
Sync(t) ==
    /\ Doing(t, {"sync"})
    /\ \/ phase[t] = "ready" /\ Arrives(t, Block, "waiting", Advance(t))
       \/ phase[t] = "waiting" /\ Leaves(t, Block, Advance(t))
    /\ UNCHANGED <<kernel, block, outcome, table, failures, got, breaking>>

\* `_shuffle`: the value is put in the table; between the barriers it is read there.
Put(t) ==
    /\ phase[t] = "ready" /\ Doing(t, Shuffles)
    /\ table' = [table EXCEPT ![t] = Value(t, step[t])]
    /\ GoTo(t, "first")
    /\ UNCHANGED <<kernel, block, outcome, barrier, failures, step, got, breaking>>

Between(t) == GoTo(t, "trade") /\ UNCHANGED step
FirstBarrier(t) ==
    /\ \/ phase[t] = "first" /\ Arrives(t, Warp(t), "waiting", Between(t))
       \/ phase[t] = "waiting" /\ Doing(t, Shuffles) /\ Leaves(t, Warp(t), Between(t))
    /\ UNCHANGED <<kernel, block, outcome, table, failures, got, breaking>>

\* The lane a value comes from; one there is not leaves the thread its own.
Source(t, op) ==
    LET size == Cardinality(Lanes(WarpOf(t)))
        lane == Lane(t)
        from == CASE op = "shfl"      -> 1 % size
                  [] op = "shfl_up"   -> lane - 1
                  [] op = "shfl_down" -> lane + 1
                  [] op = "shfl_xor"  -> IF lane % 2 = 0 THEN lane + 1 ELSE lane - 1
    IN IF from \in 0 .. size - 1 THEN WarpOf(t) * Width + from ELSE t

Trade(t) ==
    /\ phase[t] = "trade"
    /\ Give(t, table[Source(t, kernel[step[t]])])
    /\ GoTo(t, "last")
    /\ UNCHANGED <<kernel, block, outcome, blockVars, step, breaking>>

\* Mutant of LastBarrier: nothing waits for the others to have read.
NoLastBarrier(t) ==
    /\ phase[t] = "last" /\ Advance(t)
    /\ UNCHANGED <<kernel, block, outcome, barrier, table, failures, got, breaking>>

\* The second barrier keeps the next shuffle from the table until everyone has read it.
LastBarrier(t) ==
    /\ \/ phase[t] = "last" /\ Arrives(t, Warp(t), "leaving", Advance(t))
       \/ phase[t] = "leaving" /\ Leaves(t, Warp(t), Advance(t))
    /\ UNCHANGED <<kernel, block, outcome, table, failures, got, breaking>>

EndKernel(t) ==
    /\ phase[t] = "ready" /\ step[t] = Len(kernel) + 1
    /\ GoTo(t, "out")
    /\ UNCHANGED <<kernel, block, outcome, blockVars, step, got, breaking>>

-----------------------------------------------------------------------------
(* Failures, and the end of a block. *)

\* Mutant of Raise: only the barrier of the block will be broken.
RaiseToBlock(t) ==
    /\ phase[t] = "ready" /\ step[t] \in DOMAIN kernel /\ Len(failures) < MaxFails
    /\ failures' = Append(failures, t)
    /\ GoTo(t, "failing") /\ breaking' = [breaking EXCEPT ![t] = {Block}]
    /\ UNCHANGED <<kernel, block, outcome, barrier, table, step, got>>

\* The error is kept, then the barriers are broken one after another.
Raise(t) ==
    /\ phase[t] = "ready" /\ step[t] \in DOMAIN kernel /\ Len(failures) < MaxFails
    /\ failures' = Append(failures, t)
    /\ GoTo(t, "failing") /\ breaking' = [breaking EXCEPT ![t] = Barriers]
    /\ UNCHANGED <<kernel, block, outcome, barrier, table, step, got>>

Break(t, b) ==
    /\ phase[t] = "failing" /\ b \in breaking[t]
    /\ b # Block => Block \notin breaking[t]
    /\ barrier' = [barrier EXCEPT ![b].state = "broken"]
    /\ breaking' = [breaking EXCEPT ![t] = @ \ {b}]
    /\ GoTo(t, IF breaking[t] = {b} THEN "out" ELSE "failing")
    /\ UNCHANGED <<kernel, block, outcome, table, failures, step, got>>

\* `_run_block` joins the threads; `launch` goes on with the next block.
Join ==
    /\ outcome = "running" /\ \A t \in BlockThreads : phase[t] = "out"
    /\ IF failures # <<>> \/ block = Grid
       THEN /\ outcome' = IF failures = <<>> THEN "returned" ELSE "raised"
            /\ UNCHANGED <<block, blockVars, laneVars>>
       ELSE /\ block' = block + 1 /\ UNCHANGED outcome
            /\ barrier' = Unbroken /\ table' = NoValues
            /\ failures' = <<>>
            /\ step' = [t \in BlockThreads |-> 1] /\ phase' = Starting
            /\ got' = [t \in BlockThreads |-> [i \in DOMAIN kernel |-> Nothing]]
            /\ breaking' = [t \in BlockThreads |-> {}]
    /\ UNCHANGED kernel

GpuStep(t) ==
    \/ Sync(t) \/ Put(t) \/ FirstBarrier(t) \/ Trade(t) \/ LastBarrier(t)
    \/ EndKernel(t) \/ Raise(t) \/ (\E b \in Barriers : Break(t, b))

GpuNext == Join \/ \E t \in BlockThreads : GpuStep(t)

GpuSpec == GpuInit /\ [][GpuNext]_gpuVars

-----------------------------------------------------------------------------
(* What a kernel may rely on. *)

\* Every shuffle gives a thread the value its source lane put into the same shuffle.
ShufflesTrade ==
    \A t \in BlockThreads : \A i \in DOMAIN kernel :
        (kernel[i] \in Shuffles /\ got[t][i] # Nothing)
            => got[t][i] = Value(Source(t, kernel[i]), i)

\* Whose meeting an operation is: the block's or the warp's of a thread.
BarrierOf(t, i) == IF kernel[i] = "sync" THEN Block ELSE Warp(t)

\* What a thread can do without raising: nothing holds it back but a barrier.
CanStep(t) ==
    \/ phase[t] = "ready" /\ (step[t] = Len(kernel) + 1 \/ Doing(t, Shuffles))
    \/ phase[t] = "ready" /\ Doing(t, {"sync"}) /\ barrier[Block].state # "draining"
    \/ phase[t] \in {"first", "last"} /\ barrier[Warp(t)].state # "draining"
    \/ phase[t] \in {"waiting", "leaving"} /\ barrier[BarrierOf(t, step[t])].state # "filling"
    \/ phase[t] = "trade"
    \/ phase[t] = "failing" /\ breaking[t] # {}

\* Nobody waits for a thread that failed: until the launch has ended something moves, and a
\* thread moves when `CanStep` says so.
NoneLeftWaiting ==
    /\ outcome = "running" => ENABLED GpuNext
    /\ \A t \in BlockThreads : CanStep(t) => ENABLED GpuStep(t)

=============================================================================
