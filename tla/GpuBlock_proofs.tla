--------------------------- MODULE GpuBlock_proofs ---------------------------
(***************************************************************************)
(* Proofs about GpuBlock, for any width of a warp, size of a block, grid,  *)
(* kernels and number of failures.                                         *)
(***************************************************************************)
EXTENDS GpuBlock, FiniteSetTheorems, WellFoundedInduction, TLAPS

(* The inductive invariant, in parts. *)

\* The operations at which threads meet: a `syncthreads` once, a shuffle twice.  A
\* meeting is named by its operation and the phase in which a thread waits for it.
Meeting(i, inside) ==
    /\ i \in DOMAIN kernel
    /\ inside = "waiting" \/ (inside = "leaving" /\ kernel[i] \in Shuffles)

\* A thread has left a meeting behind; waits in it; was thrown out of it, or left the
\* kernel before it with the value of its shuffle in the table; or has yet to come.
Halfway(t) == phase[t] \in {"trade", "last", "leaving"}
Passed(t, i, inside) ==
    step[t] > i \/ (inside = "waiting" /\ step[t] = i /\ Halfway(t))
Inside(t, i, inside) == step[t] = i /\ phase[t] = inside
ThrownOut(t, i) ==
    /\ step[t] = i /\ phase[t] = "out"
    /\ kernel[i] \in Shuffles => table[t] = Value(t, i)
Came(t, i, inside) == Passed(t, i, inside) \/ Inside(t, i, inside) \/ ThrownOut(t, i)

\* Where a phase belongs.
Placed(t) ==
    /\ phase[t] = "waiting" => step[t] \in DOMAIN kernel
    /\ phase[t] \in {"first", "trade", "last", "leaving"} =>
            step[t] \in DOMAIN kernel /\ kernel[step[t]] \in Shuffles

\* From its put to its second barrier a thread's value is in the table.
InTable(t) ==
    (phase[t] \in {"first", "waiting", "trade", "last", "leaving"} /\ kernel[step[t]] \in Shuffles)
        => table[t] = Value(t, step[t])

\* Nobody leaves a meeting behind before everyone it is for has come.
Together ==
    \A i \in DOMAIN kernel, inside \in {"waiting", "leaving"}, t, u \in BlockThreads :
        Meeting(i, inside) /\ BarrierOf(t, i) = BarrierOf(u, i) /\ Passed(u, i, inside)
            => Came(t, i, inside)

\* Who is in a barrier, and the barrier's own account of it.
In(b) == {t \in Parties(b) : /\ phase[t] \in {"waiting", "leaving"}
                             /\ BarrierOf(t, step[t]) = b}
Accounted(b) ==
    /\ barrier[b].count = Cardinality(In(b))
    /\ barrier[b].state = "filling" =>
            /\ In(b) # Parties(b)
            /\ \A t \in In(b), u \in Parties(b) : ~Passed(u, step[t], phase[t])
    /\ barrier[b].state = "draining" =>
            \E i \in DOMAIN kernel, inside \in {"waiting", "leaving"} :
                /\ Meeting(i, inside)
                /\ In(b) # {}
                /\ \A t \in In(b) : Inside(t, i, inside)
                /\ \A t \in Parties(b) \ In(b) : Passed(t, i, inside)

GpuInv ==
    /\ GpuTypeOK /\ Together /\ ShufflesTrade
    /\ \A t \in BlockThreads : Placed(t) /\ InTable(t)
    /\ \A b \in Barriers : Accounted(b)

-----------------------------------------------------------------------------
(* Threads, warps and barriers. *)

LEMMA Division ==
    ASSUME NEW n \in Nat, NEW d \in Nat \ {0}, NEW w \in Nat
    PROVE  /\ n \div d \in Nat /\ n % d \in Nat /\ w * d \in Nat
           /\ n \div d = w <=> (w * d <= n /\ n < w * d + d)
  OBVIOUS

\* A warp's lanes follow one another.
LEMMA LanesFollow ==
    ASSUME NEW w \in Warps
    PROVE  \E high \in Nat : /\ w \in Nat /\ w * Width \in Nat /\ w * Width <= high
                            /\ Lanes(w) = (w * Width) .. high
  <1> USE GpuAssumption DEF BlockThreads
  <1>1. PICK t \in BlockThreads : w = WarpOf(t)
    BY DEF Warps
  <1>2. w \in Nat /\ w * Width \in Nat /\ w * Width <= t
    BY <1>1, Division DEF WarpOf
  <1>3. \A u \in BlockThreads : WarpOf(u) = w <=> (w * Width <= u /\ u < w * Width + Width)
    BY <1>2, Division DEF WarpOf
  <1>4. CASE w * Width + Width <= BlockSize
    <2>1. Lanes(w) = (w * Width) .. (w * Width + Width - 1)
      BY <1>2, <1>3, <1>4 DEF Lanes
    <2>q. QED
      BY <2>1, <1>2
  <1>5. CASE ~(w * Width + Width <= BlockSize)
    <2>1. Lanes(w) = (w * Width) .. (BlockSize - 1)
      BY <1>2, <1>3, <1>5 DEF Lanes
    <2>q. QED
      BY <2>1, <1>2
  <1>q. QED
    BY <1>4, <1>5

\* The thread a shuffle reads from is a lane of the same warp.
LEMMA SourceInWarp ==
    ASSUME NEW t \in BlockThreads, NEW op \in Shuffles
    PROVE  Source(t, op) \in BlockThreads /\ WarpOf(Source(t, op)) = WarpOf(t)
  <1>1. WarpOf(t) \in Warps
    BY DEF Warps
  <1>2. PICK high \in Nat : /\ WarpOf(t) \in Nat /\ WarpOf(t) * Width \in Nat
                           /\ WarpOf(t) * Width <= high
                           /\ Lanes(WarpOf(t)) = (WarpOf(t) * Width) .. high
    BY <1>1, LanesFollow
  <1>3. Cardinality(Lanes(WarpOf(t))) = high - WarpOf(t) * Width + 1
    BY <1>2, FS_Interval
  <1>4. \A from \in 0 .. (Cardinality(Lanes(WarpOf(t))) - 1) :
            WarpOf(t) * Width + from \in Lanes(WarpOf(t))
    BY <1>2, <1>3
  <1>5. Source(t, op) = t \/ Source(t, op) \in Lanes(WarpOf(t))
    BY <1>4 DEF Source
  <1>q. QED
    BY <1>5 DEF Lanes

LEMMA Companies ==
    /\ Block \in Barriers
    /\ \A b \in Barriers : /\ Parties(b) \subseteq BlockThreads /\ Parties(b) # {}
                           /\ IsFiniteSet(Parties(b)) /\ Cardinality(Parties(b)) \in Nat
                           /\ Cardinality(Parties(b)) <= BlockSize
    /\ \A t \in BlockThreads : /\ Warp(t) \in Barriers /\ Warp(t) # Block
                              /\ t \in Parties(Block) /\ t \in Parties(Warp(t))
    /\ \A t, u \in BlockThreads : u \in Parties(Warp(t)) <=> Warp(u) = Warp(t)
  <1> USE GpuAssumption
  <1>1. IsFiniteSet(BlockThreads) /\ Cardinality(BlockThreads) = BlockSize /\ 0 \in BlockThreads
    BY FS_Interval DEF BlockThreads
  <1>2. \A w : <<"warp", w>> # Block /\ <<"warp", w>>[2] = w
    BY DEF Block
  <1>3. \A t, u \in BlockThreads : Warp(u) = Warp(t) <=> WarpOf(u) = WarpOf(t)
    BY DEF Warp
  <1>4. \A t \in BlockThreads : Parties(Warp(t)) = Lanes(WarpOf(t)) /\ Warp(t) # Block
    BY <1>2 DEF Parties, Warp, Block
  <1>5. Parties(Block) = BlockThreads
    BY DEF Parties, Block
  <1>6. \A b \in Barriers : b = Block \/ \E t \in BlockThreads : b = Warp(t)
    BY DEF Barriers, Warps, Warp, Block
  <1>7. \A b \in Barriers : Parties(b) \subseteq BlockThreads /\ Parties(b) # {}
    BY <1>1, <1>4, <1>5, <1>6 DEF Lanes
  <1>8. ASSUME NEW b \in Barriers
        PROVE  /\ IsFiniteSet(Parties(b)) /\ Cardinality(Parties(b)) \in Nat
               /\ Cardinality(Parties(b)) <= BlockSize
    BY <1>1, <1>7, FS_Subset, FS_CardinalityType
  <1>9. Block \in Barriers /\ \A t \in BlockThreads : Warp(t) \in Barriers
    BY DEF Barriers, Warps, Warp, Block
  <1>q. QED
    BY <1>3, <1>4, <1>5, <1>7, <1>8, <1>9 DEF Lanes

LEMMA KernelFacts ==
    ASSUME GpuTypeOK
    PROVE  /\ Len(kernel) \in Nat /\ DOMAIN kernel = 1 .. Len(kernel)
           /\ \A i \in DOMAIN kernel :
                kernel[i] \in Operations /\ (kernel[i] # "sync" <=> kernel[i] \in Shuffles)
  <1>1. kernel \in Seq(Operations)
    BY GpuAssumption DEF GpuTypeOK
  <1>q. QED
    BY <1>1 DEF Operations, Shuffles

\* A barrier's parties are those for whom a meeting it is used for is held there.
LEMMA Companions ==
    /\ \A t \in BlockThreads, i \in DOMAIN kernel :
            BarrierOf(t, i) \in Barriers /\ t \in Parties(BarrierOf(t, i))
    /\ \A t, u \in BlockThreads, i \in DOMAIN kernel :
            u \in Parties(BarrierOf(t, i)) <=> BarrierOf(u, i) = BarrierOf(t, i)
  <1>1. Parties(Block) = BlockThreads
    BY DEF Parties, Block
  <1>q. QED
    BY <1>1, Companies DEF BarrierOf

LEMMA InFinite ==
    ASSUME NEW b \in Barriers
    PROVE  /\ In(b) \subseteq Parties(b) /\ IsFiniteSet(In(b)) /\ Cardinality(In(b)) \in Nat
           /\ Cardinality(In(b)) <= Cardinality(Parties(b))
           /\ In(b) = {} <=> Cardinality(In(b)) = 0
  <1>1. In(b) \in SUBSET Parties(b) /\ IsFiniteSet(Parties(b))
    BY Companies DEF In
  <1>q. QED
    BY <1>1, FS_Subset, FS_CardinalityType, FS_EmptySet

\* A barrier with all but one of its parties in it has them all but that one.
LEMMA EveryoneElse ==
    ASSUME NEW b \in Barriers, NEW t \in Parties(b), t \notin In(b),
           ~(Cardinality(In(b)) < Cardinality(Parties(b)) - 1)
    PROVE  In(b) = Parties(b) \ {t}
  <1>1. /\ In(b) \in SUBSET (Parties(b) \ {t}) /\ Cardinality(In(b)) \in Nat
        /\ IsFiniteSet(Parties(b)) /\ Cardinality(Parties(b)) \in Nat
    BY InFinite, Companies
  <1>2. /\ IsFiniteSet(Parties(b) \ {t})
        /\ Cardinality(Parties(b) \ {t}) = Cardinality(Parties(b)) - 1
    BY <1>1, FS_RemoveElement
  <1>3. Cardinality(In(b)) <= Cardinality(Parties(b) \ {t})
    BY <1>1, <1>2, FS_Subset
  <1>4. Cardinality(In(b)) = Cardinality(Parties(b) \ {t})
    BY <1>1, <1>2, <1>3
  <1>q. QED
    BY <1>1, <1>2, <1>4, FS_Subset

\* Who is in a barrier waits there for a meeting it is used for.
LEMMA InMeets ==
    ASSUME GpuInv, NEW b \in Barriers, NEW t \in In(b)
    PROVE  /\ t \in BlockThreads /\ t \in Parties(b) /\ step[t] \in DOMAIN kernel
           /\ phase[t] \in {"waiting", "leaving"}
           /\ Meeting(step[t], phase[t]) /\ BarrierOf(t, step[t]) = b
  BY Companies DEF GpuInv, Placed, In, Meeting

-----------------------------------------------------------------------------
(* What a step of one thread leaves of the invariant. *)

OnlyMoved(t) ==
    /\ kernel' = kernel
    /\ \A u \in BlockThreads \ {t} :
            step'[u] = step[u] /\ phase'[u] = phase[u] /\ table'[u] = table[u]

\* Threads stay together if nobody is undone and who moves on was waited with.
LEMMA TogetherStep ==
    ASSUME Together, NEW t \in BlockThreads, OnlyMoved(t),
           \A i \in DOMAIN kernel, inside \in {"waiting", "leaving"} :
              Meeting(i, inside) =>
                /\ Came(t, i, inside) => Came(t, i, inside)'
                /\ Passed(t, i, inside)' /\ ~Passed(t, i, inside) =>
                      \A u \in BlockThreads \ {t} :
                          BarrierOf(u, i) = BarrierOf(t, i) => Came(u, i, inside)
    PROVE  Together'
  <1> SUFFICES ASSUME NEW i \in DOMAIN kernel, NEW inside \in {"waiting", "leaving"},
                      NEW v \in BlockThreads, NEW u \in BlockThreads,
                      Meeting(i, inside), BarrierOf(v, i) = BarrierOf(u, i),
                      Passed(u, i, inside)'
               PROVE  Came(v, i, inside)'
    BY DEF Together, OnlyMoved, Meeting, BarrierOf
  <1>1. \A x \in BlockThreads \ {t} :
            /\ Passed(x, i, inside)' <=> Passed(x, i, inside)
            /\ Came(x, i, inside)' <=> Came(x, i, inside)
    BY DEF OnlyMoved, Passed, Came, Inside, ThrownOut, Halfway
  <1>2. CASE u = v
    BY <1>2 DEF Came
  <1>3. CASE u # v /\ Passed(u, i, inside)
    <2>1. Came(v, i, inside)
      BY <1>3 DEF Together
    <2>q. QED
      BY <2>1, <1>1
  <1>4. CASE u # v /\ ~Passed(u, i, inside)
    <2>1. u = t
      BY <1>1, <1>4
    <2>2. Came(v, i, inside)
      BY <2>1, <1>4
    <2>q. QED
      BY <2>1, <2>2, <1>1, <1>4
  <1>q. QED
    BY <1>2, <1>3, <1>4

\* A barrier that a thread neither enters nor leaves, and whose meetings it does not pass,
\* keeps its account, even if it is broken.
LEMMA AccountStep ==
    ASSUME GpuInv, NEW t \in BlockThreads, OnlyMoved(t), NEW b \in Barriers,
           \/ barrier'[b] = barrier[b]
           \/ barrier'[b].state = "broken" /\ barrier'[b].count = barrier[b].count,
           t \notin In(b), t \notin In(b)',
           \A i \in DOMAIN kernel, inside \in {"waiting", "leaving"} :
              BarrierOf(t, i) = b => (Passed(t, i, inside)' <=> Passed(t, i, inside))
    PROVE  Accounted(b)'
  <1>1. In(b)' = In(b)
    <2>1. \A u \in BlockThreads \ {t} : u \in In(b)' <=> u \in In(b)
      BY DEF OnlyMoved, In, BarrierOf
    <2>2. In(b) \subseteq BlockThreads /\ In(b)' \subseteq BlockThreads
      BY Companies DEF In
    <2>q. QED
      BY <2>1, <2>2
  <1>2. Accounted(b) /\ kernel' = kernel
    BY DEF GpuInv, OnlyMoved
  <1>3. \A i \in DOMAIN kernel, inside \in {"waiting", "leaving"}, u \in BlockThreads :
            BarrierOf(u, i) = b => (Passed(u, i, inside)' <=> Passed(u, i, inside))
    BY DEF OnlyMoved, Passed, Halfway
  <1>4. CASE barrier'[b].state = "filling"
    <2>1. barrier'[b] = barrier[b]
      BY <1>4
    <2>2. ASSUME NEW v \in In(b), NEW u \in Parties(b)
          PROVE  (~Passed(u, step[v], phase[v]))'
      <3>1. /\ step[v] \in DOMAIN kernel /\ phase[v] \in {"waiting", "leaving"}
            /\ v \in BlockThreads /\ u \in BlockThreads /\ BarrierOf(v, step[v]) = b
        BY InMeets, Companies
      <3>2. BarrierOf(u, step[v]) = b
        BY <3>1, Companions
      <3>3. ~Passed(u, step[v], phase[v])
        BY <2>1, <1>2, <1>4 DEF Accounted
      <3>4. step'[v] = step[v] /\ phase'[v] = phase[v]
        BY <3>1 DEF OnlyMoved
      <3>q. QED
        BY <3>1, <3>2, <3>3, <3>4, <1>3 DEF Passed, Halfway
    <2>q. QED
      BY <2>1, <2>2, <1>1, <1>2, <1>4 DEF Accounted, Passed, Halfway
  <1>5. CASE barrier'[b].state = "draining"
    <2>1. barrier'[b] = barrier[b]
      BY <1>5
    <2>2. PICK i \in DOMAIN kernel, inside \in {"waiting", "leaving"} :
                /\ Meeting(i, inside)
                /\ In(b) # {}
                /\ \A v \in In(b) : Inside(v, i, inside)
                /\ \A v \in Parties(b) \ In(b) : Passed(v, i, inside)
      BY <2>1, <1>2, <1>5 DEF Accounted
    <2>3. PICK v \in In(b) : v \in BlockThreads /\ BarrierOf(v, step[v]) = b /\ step[v] = i
      BY <2>2, InMeets DEF Inside
    <2>4. \A u \in Parties(b) : u \in BlockThreads /\ BarrierOf(u, i) = b
      BY <2>3, Companions, Companies
    <2>5. \A u \in Parties(b) \ In(b) : Passed(u, i, inside)'
      BY <2>2, <2>4, <1>3
    <2>6. \A u \in In(b) : Inside(u, i, inside)'
      BY <2>2, <2>4 DEF OnlyMoved, Inside, In
    <2>7. Meeting(i, inside)'
      BY <2>2, <1>2 DEF Meeting
    <2>q. QED
      BY <2>1, <2>2, <2>5, <2>6, <2>7, <1>1, <1>2, <1>5
         DEF Accounted, Meeting, Inside, Passed, Halfway
  <1>q. QED
    BY <1>1, <1>2, <1>4, <1>5 DEF Accounted

-----------------------------------------------------------------------------
(* A thread at a barrier. *)

\* A thread comes to a meeting and waits; comes last and does not; leaves it; or is
\* thrown out as the barrier is broken.
Coming(t, inside) ==
    \/ inside = "waiting" /\ phase[t] = "ready" /\ kernel[step[t]] = "sync"
    \/ inside = "waiting" /\ phase[t] = "first"
    \/ inside = "leaving" /\ phase[t] = "last"
Beyond(t, inside) ==
    IF inside = "waiting" /\ kernel[step[t]] \in Shuffles THEN Between(t) ELSE Advance(t)
Its(t) == BarrierOf(t, step[t])
Waits(t, inside) ==
    /\ Coming(t, inside) /\ GoTo(t, inside) /\ UNCHANGED step
    /\ barrier[Its(t)].state = "filling"
    /\ barrier[Its(t)].count < Cardinality(Parties(Its(t))) - 1
    /\ barrier' = [barrier EXCEPT ![Its(t)].count = @ + 1]
ComesLast(t, inside) ==
    /\ Coming(t, inside) /\ Beyond(t, inside)
    /\ barrier[Its(t)].state = "filling"
    /\ ~(barrier[Its(t)].count < Cardinality(Parties(Its(t))) - 1)
    /\ barrier' = IF Cardinality(Parties(Its(t))) - 1 = 0 THEN barrier
                  ELSE [barrier EXCEPT ![Its(t)].state = "draining"]
Withdraw(t) ==
    barrier' = [barrier EXCEPT ![Its(t)] =
        [state |-> IF barrier[Its(t)].count = 1 /\ barrier[Its(t)].state = "draining"
                   THEN "filling" ELSE barrier[Its(t)].state,
         count |-> barrier[Its(t)].count - 1]]
GoesOn(t, inside) ==
    /\ phase[t] = inside /\ Beyond(t, inside)
    /\ barrier[Its(t)].state = "draining" /\ Withdraw(t)
IsThrownOut(t, inside) ==
    /\ barrier[Its(t)].state = "broken" /\ GoTo(t, "out") /\ UNCHANGED step
    /\ \/ Coming(t, inside) /\ UNCHANGED barrier
       \/ phase[t] = inside /\ Withdraw(t)
Meets(t, inside) ==
    /\ Meeting(step[t], inside)
    /\ \/ Waits(t, inside)
       \/ ComesLast(t, inside)
       \/ GoesOn(t, inside)
       \/ IsThrownOut(t, inside)
    /\ UNCHANGED <<kernel, block, outcome, table, failures, got, breaking>>

LEMMA BarrierSteps ==
    ASSUME GpuInv, NEW t \in BlockThreads, Sync(t) \/ FirstBarrier(t) \/ LastBarrier(t)
    PROVE  \E inside \in {"waiting", "leaving"} : Meets(t, inside)
  <1>1. /\ GpuTypeOK /\ Placed(t)
        /\ \A b \in Barriers : barrier[b].state \in {"filling", "draining", "broken"}
    BY DEF GpuInv, GpuTypeOK
  <1>2. Block \in Barriers /\ Warp(t) \in Barriers
    BY Companies
  <1>3. CASE Sync(t)
    <2>1. Its(t) = Block /\ Meeting(step[t], "waiting") /\ kernel[step[t]] \notin Shuffles
          /\ kernel[step[t]] = "sync"
      BY <1>3 DEF Sync, Doing, Its, BarrierOf, Meeting, Shuffles
    <2>2. Meets(t, "waiting")
      BY <1>1, <1>2, <1>3, <2>1
         DEF Sync, Arrives, Leaves, Meets, Waits, ComesLast, GoesOn, IsThrownOut, Coming,
             Beyond, Withdraw
    <2>q. QED
      BY <2>2
  <1>4. CASE FirstBarrier(t)
    <2>1. /\ step[t] \in DOMAIN kernel /\ kernel[step[t]] \in Shuffles
          /\ Its(t) = Warp(t) /\ Meeting(step[t], "waiting")
      BY <1>1, <1>4 DEF FirstBarrier, Doing, Placed, Its, BarrierOf, Meeting, Shuffles
    <2>2. Meets(t, "waiting")
      BY <1>1, <1>2, <1>4, <2>1
         DEF FirstBarrier, Arrives, Leaves, Meets, Waits, ComesLast, GoesOn, IsThrownOut, Coming,
             Beyond, Withdraw
    <2>q. QED
      BY <2>2
  <1>5. CASE LastBarrier(t)
    <2>1. /\ step[t] \in DOMAIN kernel /\ kernel[step[t]] \in Shuffles
          /\ Its(t) = Warp(t) /\ Meeting(step[t], "leaving")
      BY <1>1, <1>5 DEF LastBarrier, Doing, Placed, Its, BarrierOf, Meeting, Shuffles
    <2>2. Meets(t, "leaving")
      BY <1>1, <1>2, <1>5, <2>1
         DEF LastBarrier, Arrives, Leaves, Meets, Waits, ComesLast, GoesOn, IsThrownOut, Coming,
             Beyond, Withdraw
    <2>q. QED
      BY <2>2
  <1>q. QED
    BY <1>3, <1>4, <1>5

\* Going on from a meeting leaves that one behind, and no other.
LEMMA BeyondPasses ==
    ASSUME GpuInv, NEW t \in BlockThreads, NEW inside \in {"waiting", "leaving"},
           Meeting(step[t], inside), Coming(t, inside) \/ phase[t] = inside,
           Beyond(t, inside), UNCHANGED <<kernel, table>>
    PROVE  /\ OnlyMoved(t) /\ phase'[t] \in {"trade", "ready"}
           /\ \A i \in DOMAIN kernel, within \in {"waiting", "leaving"} :
                Meeting(i, within) =>
                    (Passed(t, i, within)' <=>
                        Passed(t, i, within) \/ (i = step[t] /\ within = inside))
           /\ \A b \in Barriers : t \notin In(b)'
  <1>1. /\ step \in [BlockThreads -> Nat] /\ phase \in [BlockThreads -> Phases]
        /\ DOMAIN kernel \subseteq Nat /\ step[t] \in DOMAIN kernel
    BY KernelFacts DEF GpuInv, GpuTypeOK, Meeting
  <1>2. kernel[step[t]] # "sync" <=> kernel[step[t]] \in Shuffles
    BY <1>1, KernelFacts DEF GpuInv
  <1>3. OnlyMoved(t) /\ phase'[t] \in {"trade", "ready"}
    BY <1>1 DEF Beyond, Between, Advance, GoTo, OnlyMoved
  <1>4. CASE inside = "waiting" /\ kernel[step[t]] \in Shuffles
    <2>1. step' = step /\ phase'[t] = "trade" /\ ~Halfway(t)
      BY <1>1, <1>4 DEF Beyond, Between, GoTo, Coming, Halfway
    <2>q. QED
      BY <1>1, <1>3, <1>4, <2>1 DEF Passed, Halfway, In
  <1>5. CASE ~(inside = "waiting" /\ kernel[step[t]] \in Shuffles)
    <2>1. step'[t] = step[t] + 1 /\ phase'[t] = "ready"
      BY <1>1, <1>5 DEF Beyond, Advance, GoTo
    <2>2. inside = "leaving" => kernel[step[t]] \in Shuffles /\ Halfway(t)
      BY <1>5 DEF Meeting, Coming, Halfway
    <2>3. inside = "waiting" => kernel[step[t]] \notin Shuffles /\ ~Halfway(t)
      BY <1>2, <1>5, InMeets DEF Coming, Halfway, GpuInv, Placed
    <2>4. \A i \in DOMAIN kernel, within \in {"waiting", "leaving"} :
              Passed(t, i, within)' <=> step[t] >= i
      BY <1>1, <2>1 DEF Passed, Halfway
    <2>5. ASSUME NEW i \in DOMAIN kernel, NEW within \in {"waiting", "leaving"},
                 Meeting(i, within), step[t] = i
          PROVE  within = inside \/ Passed(t, i, within)
      BY <2>2, <2>3, <2>5 DEF Passed, Meeting
    <2>6. \A i \in DOMAIN kernel, within \in {"waiting", "leaving"} :
              /\ step[t] > i => Passed(t, i, within)
              /\ Passed(t, i, within) => step[t] >= i
      BY <1>1 DEF Passed
    <2>7. \A b \in Barriers : t \notin In(b)'
      BY <2>1 DEF In
    <2>q. QED
      BY <1>1, <1>3, <2>4, <2>5, <2>6, <2>7
  <1>q. QED
    BY <1>4, <1>5

\* Who comes to a meeting finds that nobody has left it, and in a barrier that is open
\* only those who wait for the same one.
LEMMA SameMeeting ==
    ASSUME GpuInv, NEW t \in BlockThreads, NEW inside \in {"waiting", "leaving"},
           Meeting(step[t], inside), Coming(t, inside)
    PROVE  /\ \A b \in Barriers : t \notin In(b)
           /\ \A u \in Parties(Its(t)) : ~Passed(u, step[t], inside)
           /\ barrier[Its(t)].state = "filling" =>
                \A v \in In(Its(t)) : Inside(v, step[t], inside)
  <1>1. /\ step \in [BlockThreads -> Nat] /\ DOMAIN kernel \subseteq Nat
        /\ step[t] \in DOMAIN kernel
    BY KernelFacts DEF GpuInv, GpuTypeOK, Meeting
  <1>2. phase[t] \in {"ready", "first", "last"}
    BY DEF Coming
  <1>3. \A b \in Barriers : t \notin In(b)
    BY <1>2 DEF In
  <1>4. ASSUME NEW u \in Parties(Its(t)) PROVE ~Passed(u, step[t], inside)
    <2>1. u \in BlockThreads /\ BarrierOf(u, step[t]) = BarrierOf(t, step[t])
      BY <1>1, <1>4, Companions, Companies DEF Its
    <2>2. ~Came(t, step[t], inside)
      BY <1>1, <1>2 DEF Came, Passed, Inside, ThrownOut, Halfway, Coming
    <2>q. QED
      BY <1>1, <2>1, <2>2 DEF GpuInv, Together
  <1>5. ASSUME barrier[Its(t)].state = "filling", NEW v \in In(Its(t))
        PROVE  Inside(v, step[t], inside)
    <2>1. Its(t) \in Barriers /\ t \in Parties(Its(t))
      BY <1>1, Companions DEF Its
    <2>2. /\ v \in BlockThreads /\ v \in Parties(Its(t)) /\ step[v] \in DOMAIN kernel
          /\ phase[v] \in {"waiting", "leaving"}
      BY <2>1, InMeets
    <2>3. ~Passed(t, step[v], phase[v]) /\ ~Passed(v, step[t], inside)
      BY <1>4, <1>5, <2>1, <2>2 DEF GpuInv, Accounted
    <2>4. step[v] = step[t]
      BY <1>1, <2>2, <2>3 DEF Passed
    <2>5. phase[v] = inside
      BY <1>1, <2>2, <2>3, <2>4 DEF Passed, Halfway, Coming
    <2>q. QED
      BY <2>4, <2>5 DEF Inside
  <1>q. QED
    BY <1>3, <1>4, <1>5

\* Going on leaves the meeting behind when all others have come or gone.
LEMMA BeyondTogether ==
    ASSUME GpuInv, NEW t \in BlockThreads, NEW inside \in {"waiting", "leaving"},
           Meeting(step[t], inside), Coming(t, inside) \/ phase[t] = inside,
           Beyond(t, inside), UNCHANGED <<kernel, table>>,
           \A u \in Parties(Its(t)) \ {t} : Came(u, step[t], inside)
    PROVE  Together'
  <1>1. step[t] \in DOMAIN kernel /\ step \in [BlockThreads -> Nat]
        /\ phase \in [BlockThreads -> Phases]
    BY DEF GpuInv, GpuTypeOK, Meeting
  <1>2. \A i \in DOMAIN kernel, within \in {"waiting", "leaving"} :
            Meeting(i, within) =>
                (Passed(t, i, within)' <=>
                    Passed(t, i, within) \/ (i = step[t] /\ within = inside))
    BY BeyondPasses
  <1>3. ASSUME NEW i \in DOMAIN kernel, NEW within \in {"waiting", "leaving"},
               Meeting(i, within), Came(t, i, within)
        PROVE  Came(t, i, within)'
    <2>1. phase[t] # "out"
      BY DEF Coming
    <2>2. Inside(t, i, within) => i = step[t] /\ within = inside
      BY <1>3 DEF Inside, Coming
    <2>3. Passed(t, i, within)'
      BY <1>2, <1>3, <2>1, <2>2 DEF Came, ThrownOut
    <2>q. QED
      BY <2>3 DEF Came
  <1>4. ASSUME NEW u \in BlockThreads \ {t}, BarrierOf(u, step[t]) = BarrierOf(t, step[t])
        PROVE  Came(u, step[t], inside)
    BY <1>1, <1>4, Companions DEF Its
  <1>5. OnlyMoved(t)
    BY BeyondPasses
  <1>6. Together
    BY DEF GpuInv
  <1>7. ASSUME NEW i \in DOMAIN kernel, NEW within \in {"waiting", "leaving"},
               Meeting(i, within), Passed(t, i, within)', ~Passed(t, i, within),
               NEW u \in BlockThreads \ {t}, BarrierOf(u, i) = BarrierOf(t, i)
        PROVE  Came(u, i, within)
    BY <1>2, <1>4, <1>7
  <1>q. QED
    BY <1>3, <1>5, <1>6, <1>7, TogetherStep

\* Being thrown out undoes nothing.
LEMMA OutTogether ==
    ASSUME GpuInv, NEW t \in BlockThreads, GoTo(t, "out"),
           UNCHANGED <<kernel, step, table>>,
           \/ phase[t] # "ready"
           \/ kernel[step[t]] \notin Shuffles
    PROVE  Together'
  <1>1. step \in [BlockThreads -> Nat] /\ phase \in [BlockThreads -> Phases]
        /\ DOMAIN kernel \subseteq Nat
    BY KernelFacts DEF GpuInv, GpuTypeOK
  <1>2. OnlyMoved(t) /\ phase'[t] = "out"
    BY <1>1 DEF GoTo, OnlyMoved
  <1>3. ASSUME NEW i \in DOMAIN kernel, NEW within \in {"waiting", "leaving"},
               Came(t, i, within)
        PROVE  Came(t, i, within)'
    <2>1. CASE step[t] > i
      BY <2>1 DEF Came, Passed
    <2>2. CASE step[t] = i
      <3>1. phase[t] \in {"trade", "last", "leaving", "waiting", "out"}
        BY <1>1, <1>3, <2>2 DEF Came, Passed, Inside, ThrownOut, Halfway
      <3>2. CASE phase[t] = "out"
        <4>1. ThrownOut(t, i)
          BY <1>1, <1>3, <2>2, <3>2 DEF Came, Passed, Inside, Halfway
        <4>q. QED
          BY <1>2, <4>1 DEF Came, ThrownOut
      <3>3. CASE phase[t] # "out"
        <4>1. kernel[i] \in Shuffles => table[t] = Value(t, i)
          BY <2>2, <3>1, <3>3 DEF GpuInv, InTable
        <4>q. QED
          BY <1>2, <2>2, <4>1 DEF Came, ThrownOut
      <3>q. QED
        BY <3>2, <3>3
    <2>q. QED
      BY <1>1, <1>3, <2>1, <2>2 DEF Came, Passed, Inside, ThrownOut
  <1>4. ASSUME NEW i \in DOMAIN kernel, NEW within \in {"waiting", "leaving"}
        PROVE  Passed(t, i, within)' => Passed(t, i, within)
    BY <1>2 DEF Passed, Halfway
  <1>5. Together
    BY DEF GpuInv
  <1>q. QED
    BY <1>2, <1>3, <1>4, <1>5, TogetherStep

LEMMA MeetsTogether ==
    ASSUME GpuInv, NEW t \in BlockThreads, NEW inside \in {"waiting", "leaving"}, Meets(t, inside)
    PROVE  Together'
  <1>1. /\ Meeting(step[t], inside) /\ step[t] \in DOMAIN kernel
        /\ UNCHANGED <<kernel, table>> /\ Together
        /\ step \in [BlockThreads -> Nat] /\ phase \in [BlockThreads -> Phases]
    BY DEF Meets, Meeting, GpuInv, GpuTypeOK
  <1>2. Its(t) \in Barriers /\ t \in Parties(Its(t)) /\ Accounted(Its(t))
    BY <1>1, Companions DEF Its, GpuInv
  <1>3. CASE Waits(t, inside)
    <2>1. OnlyMoved(t) /\ step' = step /\ phase'[t] = inside
      BY <1>1, <1>3 DEF Waits, GoTo, OnlyMoved
    <2>2. phase[t] \in {"ready", "first", "last"} /\ (inside = "leaving" <=> phase[t] = "last")
      BY <1>3 DEF Waits, Coming
    <2>3. \A i \in DOMAIN kernel, within \in {"waiting", "leaving"} :
              Passed(t, i, within)' <=> Passed(t, i, within)
      BY <2>1, <2>2 DEF Passed, Halfway
    <2>4. \A i \in DOMAIN kernel, within \in {"waiting", "leaving"} :
              Came(t, i, within) => Came(t, i, within)'
      BY <2>2, <2>3 DEF Came, Inside, ThrownOut
    <2>q. QED
      BY <1>1, <2>1, <2>3, <2>4, TogetherStep
  <1>4. CASE ComesLast(t, inside)
    <2>1. /\ t \notin In(Its(t))
          /\ \A v \in In(Its(t)) : Inside(v, step[t], inside)
      BY <1>1, <1>2, <1>4, SameMeeting DEF ComesLast
    <2>2. In(Its(t)) = Parties(Its(t)) \ {t}
      BY <1>2, <1>4, <2>1, EveryoneElse DEF ComesLast, Accounted
    <2>3. \A u \in Parties(Its(t)) \ {t} : Came(u, step[t], inside)
      BY <2>1, <2>2 DEF Came
    <2>q. QED
      BY <1>1, <1>4, <2>3, BeyondTogether DEF ComesLast
  <1>5. CASE GoesOn(t, inside)
    <2>1. PICK i \in DOMAIN kernel, within \in {"waiting", "leaving"} :
                /\ \A v \in In(Its(t)) : Inside(v, i, within)
                /\ \A v \in Parties(Its(t)) \ In(Its(t)) : Passed(v, i, within)
      BY <1>2, <1>5 DEF GoesOn, Accounted
    <2>2. t \in In(Its(t))
      BY <1>2, <1>5 DEF GoesOn, In, Its
    <2>3. i = step[t] /\ within = inside
      BY <1>5, <2>1, <2>2 DEF GoesOn, Inside
    <2>4. \A u \in Parties(Its(t)) \ {t} : Came(u, step[t], inside)
      BY <2>1, <2>3 DEF Came
    <2>q. QED
      BY <1>1, <1>5, <2>4, BeyondTogether DEF GoesOn
  <1>6. CASE IsThrownOut(t, inside)
    <2>1. phase[t] # "ready" \/ kernel[step[t]] \notin Shuffles
      BY <1>6 DEF IsThrownOut, Coming, Shuffles
    <2>q. QED
      BY <1>1, <1>6, <2>1, OutTogether DEF IsThrownOut
  <1>q. QED
    BY <1>3, <1>4, <1>5, <1>6 DEF Meets

-----------------------------------------------------------------------------
(* The accounts of the barriers. *)

LEMMA InMoves ==
    ASSUME NEW t \in BlockThreads, OnlyMoved(t), NEW b \in Barriers
    PROVE  /\ In(b)' \ {t} = In(b) \ {t} /\ In(b)' \subseteq Parties(b)
           /\ \A u \in In(b) \ {t} : step'[u] = step[u] /\ phase'[u] = phase[u]
  <1>1. Parties(b) \subseteq BlockThreads
    BY Companies
  <1>2. \A u \in Parties(b) \ {t} : u \in In(b)' <=> u \in In(b)
    BY <1>1 DEF OnlyMoved, In, BarrierOf
  <1>q. QED
    BY <1>1, <1>2 DEF In, OnlyMoved

\* What the account of a barrier that lets a group leave comes to.
LEMMA Draining ==
    ASSUME NEW b \in Barriers, kernel' = kernel,
           barrier'[b].state = "draining", barrier'[b].count = Cardinality(In(b)'),
           In(b)' # {},
           NEW i \in DOMAIN kernel, NEW inside \in {"waiting", "leaving"},
           Meeting(i, inside),
           \A v \in In(b)' : Inside(v, i, inside)',
           \A v \in Parties(b) \ In(b)' : Passed(v, i, inside)'
    PROVE  Accounted(b)'
  BY DEF Accounted, Meeting, Inside, Passed, Halfway

\* A thread that waits is counted, and joins those who wait for the same meeting.
LEMMA WaitsAccount ==
    ASSUME GpuInv, NEW t \in BlockThreads, NEW inside \in {"waiting", "leaving"},
           Meeting(step[t], inside), Waits(t, inside), UNCHANGED <<kernel, table>>,
           NEW b \in Barriers, b = Its(t)
    PROVE  Accounted(b)'
  <1>1. /\ t \in Parties(b) /\ step[t] \in DOMAIN kernel
        /\ barrier \in [Barriers -> [state : {"filling", "draining", "broken"}, count : Nat]]
        /\ phase \in [BlockThreads -> Phases] /\ step \in [BlockThreads -> Nat]
    BY Companions DEF Meeting, Its, GpuInv, GpuTypeOK
  <1>2. /\ OnlyMoved(t) /\ phase'[t] = inside /\ step' = step
        /\ Coming(t, inside) /\ barrier[b].state = "filling"
        /\ barrier'[b].state = "filling" /\ barrier'[b].count = barrier[b].count + 1
        /\ barrier[b].count < Cardinality(Parties(b)) - 1
    BY <1>1 DEF Waits, OnlyMoved, GoTo
  <1>3. t \notin In(b) /\ (\A u \in Parties(b) : ~Passed(u, step[t], inside))
        /\ \A v \in In(b) : Inside(v, step[t], inside)
    BY <1>2, SameMeeting
  <1>4. t \in In(b)'
    BY <1>1, <1>2 DEF In, Its, BarrierOf, OnlyMoved
  <1>5. In(b)' = In(b) \cup {t}
    BY <1>2, <1>3, <1>4, InMoves
  <1>6. Cardinality(In(b)') = Cardinality(In(b)) + 1
    BY <1>3, <1>5, InFinite, FS_AddElement
  <1>7. /\ Cardinality(In(b)) \in Nat /\ Cardinality(Parties(b)) \in Nat
        /\ barrier[b].count = Cardinality(In(b))
    BY InFinite, Companies DEF GpuInv, Accounted
  <1>8. In(b)' # Parties(b)
    BY <1>2, <1>6, <1>7
  <1>9. \A v \in In(b)' : step'[v] = step[t] /\ phase'[v] = inside
    BY <1>2, <1>3, <1>5, InMoves DEF Inside
  <1>10. ASSUME NEW u \in Parties(b)
         PROVE  \A v \in In(b)' : ~(Passed(u, step[v], phase[v])')
    <2>1. ~Passed(u, step[t], inside) /\ u \in BlockThreads
      BY <1>3, Companies
    <2>2. Halfway(u)' <=> Halfway(u)
      BY <1>2, <2>1 DEF Halfway, Coming, OnlyMoved
    <2>q. QED
      BY <1>2, <1>9, <2>1, <2>2 DEF Passed
  <1>q. QED
    BY <1>2, <1>6, <1>7, <1>8, <1>10 DEF Accounted

\* The last to come finds the others in the barrier, and leaves the meeting to them.
LEMMA LastAccount ==
    ASSUME GpuInv, NEW t \in BlockThreads, NEW inside \in {"waiting", "leaving"},
           Meeting(step[t], inside), ComesLast(t, inside), UNCHANGED <<kernel, table>>,
           NEW b \in Barriers, b = Its(t)
    PROVE  Accounted(b)'
  <1>1. /\ t \in Parties(b) /\ step[t] \in DOMAIN kernel
        /\ barrier \in [Barriers -> [state : {"filling", "draining", "broken"}, count : Nat]]
    BY Companions DEF Meeting, Its, GpuInv, GpuTypeOK
  <1>2. t \notin In(b) /\ \A v \in In(b) : Inside(v, step[t], inside)
    BY SameMeeting DEF ComesLast
  <1>3. barrier[b].count = Cardinality(In(b)) /\ Cardinality(Parties(b)) \in Nat
    BY Companies DEF GpuInv, Accounted
  <1>4. In(b) = Parties(b) \ {t}
    BY <1>1, <1>2, <1>3, EveryoneElse DEF ComesLast
  <1>5. OnlyMoved(t) /\ t \notin In(b)'
    BY BeyondPasses DEF ComesLast
  <1>6. \A i \in DOMAIN kernel : i = step[t] => Passed(t, i, inside)'
    BY <1>1, BeyondPasses DEF ComesLast
  <1>7. In(b)' = In(b)
    <2>1. In(b)' \ {t} = In(b) \ {t}
      BY <1>5, InMoves
    <2>q. QED
      BY <1>2, <1>5, <2>1
  <1>8. CASE Cardinality(Parties(b)) - 1 = 0
    <2>1. barrier' = barrier /\ barrier[b].state = "filling"
      BY <1>8 DEF ComesLast
    <2>2. In(b) = {}
      <3>1. Cardinality(In(b)) = 0
        BY <1>1, <1>4, <1>8, Companies, FS_RemoveElement
      <3>q. QED
        BY <3>1, InFinite
    <2>q. QED
      BY <1>1, <1>3, <1>7, <2>1, <2>2 DEF Accounted
  <1>9. CASE Cardinality(Parties(b)) - 1 # 0
    <2>1. barrier'[b].state = "draining" /\ barrier'[b].count = barrier[b].count
      BY <1>1, <1>9 DEF ComesLast
    <2>2. In(b) # {}
      <3>1. IsFiniteSet(Parties(b)) /\ Cardinality(Parties(b) \ {t}) = Cardinality(Parties(b)) - 1
        BY <1>1, Companies, FS_RemoveElement
      <3>q. QED
        BY <1>4, <1>9, <3>1, FS_EmptySet
    <2>4. ASSUME NEW i \in DOMAIN kernel, i = step[t] PROVE Accounted(b)'
      <3>2. \A v \in In(b)' : Inside(v, i, inside)'
        BY <1>2, <1>5, <1>7, <2>4, InMoves DEF Inside
      <3>3. \A v \in Parties(b) \ In(b)' : Passed(v, i, inside)'
        BY <1>4, <1>6, <1>7, <2>4
      <3>4. barrier'[b].count = Cardinality(In(b)') /\ In(b)' # {} /\ Meeting(i, inside)
        BY <1>3, <1>7, <2>1, <2>2, <2>4
      <3>q. QED
        BY <2>1, <2>4, <3>2, <3>3, <3>4, Draining
    <2>q. QED
      BY <1>1, <2>4
  <1>q. QED
    BY <1>8, <1>9

\* Who leaves a barrier is taken off its count.
LEMMA Withdrawn ==
    ASSUME GpuInv, NEW t \in BlockThreads, NEW b \in Barriers, t \in In(b), OnlyMoved(t),
           t \notin In(b)', b = Its(t), Withdraw(t)
    PROVE  /\ In(b)' = In(b) \ {t} /\ Cardinality(In(b)') = Cardinality(In(b)) - 1
           /\ Cardinality(In(b)) \in Nat \ {0} /\ barrier[b].count = Cardinality(In(b))
           /\ barrier'[b].count = Cardinality(In(b)')
           /\ barrier'[b].state = IF barrier[b].count = 1 /\ barrier[b].state = "draining"
                                  THEN "filling" ELSE barrier[b].state
           /\ \A c \in Barriers \ {b} : barrier'[c] = barrier[c]
  <1>1. In(b)' = In(b) \ {t}
    <2>1. In(b)' \ {t} = In(b) \ {t}
      BY InMoves
    <2>q. QED
      BY <2>1
  <1>2. IsFiniteSet(In(b)) /\ Cardinality(In(b)) \in Nat /\ Cardinality(In(b)) # 0
    BY InFinite
  <1>3. Cardinality(In(b)') = Cardinality(In(b)) - 1
    BY <1>1, <1>2, FS_RemoveElement
  <1>4. barrier[b].count = Cardinality(In(b))
    BY DEF GpuInv, Accounted
  <1>5. /\ barrier'[b].count = barrier[b].count - 1
        /\ barrier'[b].state = IF barrier[b].count = 1 /\ barrier[b].state = "draining"
                               THEN "filling" ELSE barrier[b].state
        /\ \A c \in Barriers \ {b} : barrier'[c] = barrier[c]
    BY DEF Withdraw, GpuInv, GpuTypeOK
  <1>q. QED
    BY <1>1, <1>2, <1>3, <1>4, <1>5

\* The last to leave opens the barrier again; the others stay for the meeting they came to.
LEMMA GoesOnAccount ==
    ASSUME GpuInv, NEW t \in BlockThreads, NEW inside \in {"waiting", "leaving"},
           Meeting(step[t], inside), GoesOn(t, inside), UNCHANGED <<kernel, table>>,
           NEW b \in Barriers, b = Its(t)
    PROVE  Accounted(b)'
  <1>1. step[t] \in DOMAIN kernel /\ t \in Parties(b) /\ t \in In(b)
    BY Companions DEF Meeting, Its, GoesOn, In
  <1>2. OnlyMoved(t) /\ t \notin In(b)'
    BY BeyondPasses DEF GoesOn
  <1>3. \A i \in DOMAIN kernel : i = step[t] => Passed(t, i, inside)'
    BY <1>1, BeyondPasses DEF GoesOn
  <1>4. barrier[b].state = "draining" /\ Withdraw(t)
    BY DEF GoesOn
  <1>5. /\ In(b)' = In(b) \ {t} /\ Cardinality(In(b)') = Cardinality(In(b)) - 1
        /\ Cardinality(In(b)) \in Nat \ {0} /\ barrier[b].count = Cardinality(In(b))
        /\ barrier'[b].count = Cardinality(In(b)')
        /\ barrier'[b].state = IF barrier[b].count = 1 THEN "filling" ELSE "draining"
    BY <1>1, <1>2, <1>4, Withdrawn
  <1>6. IsFiniteSet(In(b)')
    <2>1. IsFiniteSet(In(b))
      BY InFinite
    <2>q. QED
      BY <1>5, <2>1, FS_RemoveElement
  <1>7. CASE barrier[b].count = 1
    <2>1. In(b)' = {}
      BY <1>5, <1>6, <1>7, FS_EmptySet
    <2>2. Parties(b) # {}
      BY <1>1
    <2>q. QED
      BY <1>5, <1>7, <2>1, <2>2 DEF Accounted
  <1>8. CASE barrier[b].count # 1
    <2>1. In(b)' # {}
      BY <1>5, <1>8, FS_EmptySet
    <2>2. PICK i \in DOMAIN kernel, within \in {"waiting", "leaving"} :
                /\ Meeting(i, within)
                /\ \A v \in In(b) : Inside(v, i, within)
                /\ \A v \in Parties(b) \ In(b) : Passed(v, i, within)
      BY <1>4 DEF GpuInv, Accounted
    <2>3. i = step[t] /\ within = inside
      BY <1>1, <2>2 DEF GoesOn, Inside
    <2>4. \A v \in In(b)' : Inside(v, i, within)'
      BY <1>2, <1>5, <2>2, InMoves DEF Inside
    <2>5. ASSUME NEW v \in Parties(b) \ In(b)' PROVE Passed(v, i, within)'
      <3>1. CASE v = t
        BY <1>3, <2>3, <3>1
      <3>2. CASE v # t
        <4>1. Passed(v, i, within) /\ v \in BlockThreads
          BY <1>5, <2>2, <2>5, <3>2, Companies
        <4>q. QED
          BY <1>2, <3>2, <4>1 DEF Passed, Halfway, OnlyMoved
      <3>q. QED
        BY <3>1, <3>2
    <2>6. barrier'[b].state = "draining" /\ kernel' = kernel
      BY <1>5, <1>8
    <2>q. QED
      BY <1>5, <2>1, <2>2, <2>4, <2>5, <2>6, Draining
  <1>q. QED
    BY <1>7, <1>8

LEMMA OutAccount ==
    ASSUME GpuInv, NEW t \in BlockThreads, NEW inside \in {"waiting", "leaving"},
           Meeting(step[t], inside), IsThrownOut(t, inside), UNCHANGED <<kernel, table>>,
           NEW b \in Barriers, b = Its(t)
    PROVE  Accounted(b)'
  <1>1. /\ step[t] \in DOMAIN kernel /\ t \in Parties(b)
        /\ phase \in [BlockThreads -> Phases]
    BY Companions DEF Meeting, Its, GpuInv, GpuTypeOK
  <1>2. OnlyMoved(t) /\ phase'[t] = "out"
    BY <1>1 DEF IsThrownOut, GoTo, OnlyMoved
  <1>3. t \notin In(b)'
    BY <1>2 DEF In
  <1>4. CASE Coming(t, inside) /\ UNCHANGED barrier
    <2>1. t \notin In(b)
      BY <1>4 DEF In, Coming
    <2>2. In(b)' = In(b)
      <3>1. In(b)' \ {t} = In(b) \ {t}
        BY <1>2, InMoves
      <3>q. QED
        BY <1>3, <2>1, <3>1
    <2>3. barrier[b].count = Cardinality(In(b)) /\ barrier[b].state = "broken"
      BY DEF GpuInv, Accounted, IsThrownOut
    <2>q. QED
      BY <1>4, <2>2, <2>3 DEF Accounted
  <1>5. CASE phase[t] = inside /\ Withdraw(t)
    <2>1. t \in In(b)
      BY <1>1, <1>5 DEF In, Its
    <2>2. barrier'[b].count = Cardinality(In(b)') /\ barrier'[b].state = "broken"
      BY <1>2, <1>3, <1>5, <2>1, Withdrawn DEF IsThrownOut
    <2>q. QED
      BY <2>2 DEF Accounted
  <1>q. QED
    BY <1>4, <1>5 DEF IsThrownOut

\* A step at one barrier is none of the others' business.
LEMMA ElsewhereAccount ==
    ASSUME GpuInv, NEW t \in BlockThreads, NEW inside \in {"waiting", "leaving"}, Meets(t, inside),
           NEW b \in Barriers, b # Its(t)
    PROVE  Accounted(b)'
  <1>1. /\ Meeting(step[t], inside) /\ step[t] \in DOMAIN kernel /\ Its(t) \in Barriers
        /\ UNCHANGED <<kernel, table>> /\ DOMAIN kernel \subseteq Nat
        /\ step \in [BlockThreads -> Nat] /\ phase \in [BlockThreads -> Phases]
        /\ barrier \in [Barriers -> [state : {"filling", "draining", "broken"}, count : Nat]]
    BY KernelFacts, Companions DEF Meets, Meeting, Its, GpuInv, GpuTypeOK
  <1>2. barrier'[b] = barrier[b]
    BY <1>1 DEF Meets, Waits, ComesLast, GoesOn, IsThrownOut, Withdraw
  <1>3. t \notin In(b)
    BY DEF In, Its
  <1>4. \A i \in DOMAIN kernel : BarrierOf(t, i) = b => i # step[t]
    BY DEF Its
  <1>5. CASE Waits(t, inside) \/ IsThrownOut(t, inside)
    <2>1. OnlyMoved(t) /\ step' = step /\ phase'[t] \in {inside, "out"}
      BY <1>1, <1>5 DEF Waits, IsThrownOut, GoTo, OnlyMoved
    <2>2. t \notin In(b)'
      BY <1>1, <2>1 DEF In, Its, BarrierOf
    <2>3. \A i \in DOMAIN kernel, within \in {"waiting", "leaving"} :
              BarrierOf(t, i) = b => (Passed(t, i, within)' <=> Passed(t, i, within))
      BY <1>4, <2>1 DEF Passed
    <2>q. QED
      BY <1>2, <1>3, <2>1, <2>2, <2>3, AccountStep
  <1>6. CASE ComesLast(t, inside) \/ GoesOn(t, inside)
    <2>1. Beyond(t, inside) /\ (Coming(t, inside) \/ phase[t] = inside)
      BY <1>6 DEF ComesLast, GoesOn
    <2>2. OnlyMoved(t) /\ t \notin In(b)'
      BY <1>1, <2>1, BeyondPasses
    <2>3. step'[t] = step[t] \/ step'[t] = step[t] + 1
      BY <1>1, <2>1 DEF Beyond, Between, Advance, GoTo
    <2>4. \A i \in DOMAIN kernel, within \in {"waiting", "leaving"} :
              BarrierOf(t, i) = b => (Passed(t, i, within)' <=> Passed(t, i, within))
      <3>1. ASSUME NEW i \in DOMAIN kernel, NEW within \in {"waiting", "leaving"},
                   BarrierOf(t, i) = b
            PROVE  Passed(t, i, within)' <=> Passed(t, i, within)
        <4>1. i # step[t] /\ i \in Nat /\ step[t] \in Nat
          BY <1>1, <1>4, <3>1
        <4>2. CASE step[t] > i
          BY <2>3, <4>1, <4>2 DEF Passed
        <4>3. CASE step[t] < i
          <5>1. ~Passed(t, i, within)
            BY <4>1, <4>3 DEF Passed
          <5>2. step'[t] = step[t] + 1 => phase'[t] = "ready"
            BY <1>1, <2>1 DEF Beyond, Between, Advance, GoTo
          <5>3. ~Passed(t, i, within)'
            BY <2>3, <4>1, <4>3, <5>2 DEF Passed, Halfway
          <5>q. QED
            BY <5>1, <5>3
        <4>q. QED
          BY <4>1, <4>2, <4>3
      <3>q. QED
        BY <3>1
    <2>q. QED
      BY <1>2, <1>3, <2>2, <2>4, AccountStep
  <1>q. QED
    BY <1>5, <1>6 DEF Meets

LEMMA MeetsAccount ==
    ASSUME GpuInv, NEW t \in BlockThreads, NEW inside \in {"waiting", "leaving"}, Meets(t, inside)
    PROVE  \A b \in Barriers : Accounted(b)'
  <1> SUFFICES ASSUME NEW b \in Barriers PROVE Accounted(b)'
    OBVIOUS
  <1>1. CASE b # Its(t)
    BY <1>1, ElsewhereAccount
  <1>2. CASE b = Its(t)
    BY <1>2, WaitsAccount, LastAccount, GoesOnAccount, OutAccount DEF Meets
  <1>q. QED
    BY <1>1, <1>2

-----------------------------------------------------------------------------
(* Types, places and the table. *)

\* Whoever waits is counted, so a count never goes below zero nor above the block.
LEMMA MeetsTypes ==
    ASSUME GpuInv, NEW t \in BlockThreads, NEW inside \in {"waiting", "leaving"}, Meets(t, inside)
    PROVE  GpuTypeOK'
  <1>1. /\ GpuTypeOK /\ step[t] \in DOMAIN kernel /\ Its(t) \in Barriers
        /\ DOMAIN kernel = 1 .. Len(kernel) /\ Len(kernel) \in Nat /\ BlockSize \in Nat
    BY KernelFacts, Companions, GpuAssumption DEF Meets, Meeting, Its, GpuInv
  <1>2. /\ barrier[Its(t)].count = Cardinality(In(Its(t)))
        /\ Cardinality(In(Its(t))) \in Nat /\ Cardinality(Parties(Its(t))) \in Nat
        /\ Cardinality(Parties(Its(t))) <= BlockSize
    BY <1>1, InFinite, Companies DEF GpuInv, Accounted
  <1>3. step' \in [BlockThreads -> 1 .. Len(kernel) + 1] /\ phase' \in [BlockThreads -> Phases]
    <2>1. CASE Waits(t, inside) \/ IsThrownOut(t, inside)
      BY <1>1, <2>1 DEF GpuTypeOK, Waits, IsThrownOut, GoTo, Phases
    <2>2. CASE ComesLast(t, inside) \/ GoesOn(t, inside)
      <3>1. /\ phase' = [phase EXCEPT ![t] = "trade"] \/ phase' = [phase EXCEPT ![t] = "ready"]
            /\ step' = step \/ step' = [step EXCEPT ![t] = step[t] + 1]
        BY <2>2 DEF ComesLast, GoesOn, Beyond, Between, Advance, GoTo
      <3>2. phase' \in [BlockThreads -> Phases]
        BY <1>1, <3>1 DEF GpuTypeOK, Phases
      <3>3. step[t] + 1 \in 1 .. Len(kernel) + 1
        BY <1>1
      <3>q. QED
        BY <1>1, <3>1, <3>2, <3>3 DEF GpuTypeOK
    <2>q. QED
      BY <2>1, <2>2 DEF Meets
  <1>4. barrier' \in [Barriers -> [state : {"filling", "draining", "broken"},
                                   count : 0 .. BlockSize]]
    <2>1. CASE Waits(t, inside)
      BY <1>1, <1>2, <2>1 DEF Waits, GpuTypeOK
    <2>2. CASE ComesLast(t, inside)
      BY <1>1, <1>2, <2>2 DEF ComesLast, GpuTypeOK
    <2>3. CASE GoesOn(t, inside) \/ IsThrownOut(t, inside)
      <3>1. CASE UNCHANGED barrier
        BY <1>1, <3>1 DEF GpuTypeOK
      <3>2. CASE phase[t] = inside /\ Withdraw(t)
        <4>1. t \in In(Its(t))
          BY <1>1, <3>2, Companions DEF In, Its
        <4>2. Cardinality(In(Its(t))) # 0
          BY <1>1, <4>1, InFinite
        <4>q. QED
          BY <1>1, <1>2, <3>2, <4>2 DEF Withdraw, GpuTypeOK
      <3>q. QED
        BY <2>3, <3>1, <3>2 DEF GoesOn, IsThrownOut
    <2>q. QED
      BY <2>1, <2>2, <2>3 DEF Meets
  <1>q. QED
    BY <1>1, <1>3, <1>4 DEF GpuTypeOK, Meets, ShuffleValues

LEMMA MeetsPlaces ==
    ASSUME GpuInv, NEW t \in BlockThreads, NEW inside \in {"waiting", "leaving"}, Meets(t, inside)
    PROVE  \A u \in BlockThreads : Placed(u)' /\ InTable(u)'
  <1>1. /\ GpuTypeOK /\ Meeting(step[t], inside)
        /\ UNCHANGED <<kernel, table>> /\ \A u \in BlockThreads : Placed(u) /\ InTable(u)
        /\ \A i \in DOMAIN kernel : kernel[i] # "sync" <=> kernel[i] \in Shuffles
    BY KernelFacts DEF Meets, GpuInv
  <1>2. ASSUME NEW u \in BlockThreads, u # t PROVE Placed(u)' /\ InTable(u)'
    <2>1. step'[u] = step[u] /\ phase'[u] = phase[u]
      BY <1>1, <1>2 DEF GpuTypeOK, Meets, Waits, ComesLast, GoesOn, IsThrownOut, Beyond, Between,
                        Advance, GoTo
    <2>q. QED
      BY <1>1, <2>1 DEF Placed, InTable
  <1>3. CASE Waits(t, inside)
    <2>1. step'[t] = step[t] /\ phase'[t] = inside
      BY <1>1, <1>3 DEF GpuTypeOK, Waits, GoTo
    <2>2. kernel[step[t]] \in Shuffles => phase[t] \in {"first", "last"}
      BY <1>3 DEF Waits, Coming, Shuffles
    <2>3. Placed(t)'
      BY <1>1, <2>1 DEF Placed, Meeting
    <2>4. InTable(t)'
      BY <1>1, <2>1, <2>2 DEF InTable
    <2>q. QED
      BY <1>2, <2>3, <2>4
  <1>4. CASE ComesLast(t, inside) \/ GoesOn(t, inside)
    <2>1. \/ phase'[t] = "ready"
          \/ /\ phase'[t] = "trade" /\ step'[t] = step[t] /\ kernel[step[t]] \in Shuffles
             /\ phase[t] \in {"first", "waiting"}
      BY <1>1, <1>4 DEF GpuTypeOK, ComesLast, GoesOn, Beyond, Between, Advance, GoTo, Coming,
                        Shuffles
    <2>2. Placed(t)' /\ InTable(t)'
      BY <1>1, <2>1 DEF Placed, InTable, Meeting
    <2>q. QED
      BY <1>2, <2>2
  <1>5. CASE IsThrownOut(t, inside)
    <2>1. phase'[t] = "out"
      BY <1>1, <1>5 DEF GpuTypeOK, IsThrownOut, GoTo
    <2>q. QED
      BY <1>2, <2>1 DEF Placed, InTable
  <1>q. QED
    BY <1>3, <1>4, <1>5 DEF Meets

LEMMA SameTrades ==
    ASSUME ShufflesTrade, UNCHANGED <<kernel, got>>
    PROVE  ShufflesTrade'
  BY DEF ShufflesTrade, Source

\* The step of a thread at a barrier, whatever it finds there.
LEMMA BarrierKeeps ==
    ASSUME GpuInv, NEW t \in BlockThreads, Sync(t) \/ FirstBarrier(t) \/ LastBarrier(t)
    PROVE  GpuInv'
  <1>1. PICK inside \in {"waiting", "leaving"} : Meets(t, inside)
    BY BarrierSteps
  <1>2. ShufflesTrade'
    BY <1>1, SameTrades DEF Meets, GpuInv
  <1>q. QED
    BY <1>1, <1>2, MeetsTogether, MeetsAccount, MeetsTypes, MeetsPlaces DEF GpuInv

-----------------------------------------------------------------------------
(* The other steps. *)

\* A step that passes no meeting, undoes nobody and moves nobody into or out of a barrier,
\* but may break one.
LEMMA AsideKeeps ==
    ASSUME GpuInv, NEW t \in BlockThreads, OnlyMoved(t), UNCHANGED step,
           Halfway(t)' <=> Halfway(t),
           phase[t] \notin {"waiting", "leaving", "out"}, phase'[t] \notin {"waiting", "leaving"},
           \A b \in Barriers :
              \/ barrier'[b] = barrier[b]
              \/ barrier'[b].state = "broken" /\ barrier'[b].count = barrier[b].count
    PROVE  Together' /\ \A b \in Barriers : Accounted(b)'
  <1>1. \A i \in DOMAIN kernel, within \in {"waiting", "leaving"} :
            Passed(t, i, within)' <=> Passed(t, i, within)
    BY DEF Passed
  <1>2. \A i \in DOMAIN kernel, within \in {"waiting", "leaving"} :
            Came(t, i, within) => Came(t, i, within)'
    BY <1>1 DEF Came, Inside, ThrownOut
  <1>3. Together'
    BY <1>1, <1>2, TogetherStep DEF GpuInv
  <1>4. \A b \in Barriers : t \notin In(b) /\ t \notin In(b)'
    BY DEF In
  <1>q. QED
    BY <1>1, <1>3, <1>4, AccountStep

LEMMA PutKeeps ==
    ASSUME GpuInv, NEW t \in BlockThreads, Put(t)
    PROVE  GpuInv'
  <1>1. GpuTypeOK /\ \A u \in BlockThreads : Placed(u) /\ InTable(u)
    BY DEF GpuInv
  <1>2. /\ OnlyMoved(t) /\ UNCHANGED <<step, barrier, kernel, got>>
        /\ phase[t] = "ready" /\ phase'[t] = "first"
        /\ step[t] \in DOMAIN kernel /\ kernel[step[t]] \in Shuffles
        /\ table'[t] = Value(t, step[t])
    BY <1>1 DEF GpuTypeOK, Put, GoTo, Doing, OnlyMoved
  <1>3. GpuTypeOK'
    BY <1>1, <1>2 DEF GpuTypeOK, Put, GoTo, Phases, ShuffleValues
  <1>4. \A u \in BlockThreads : Placed(u)' /\ InTable(u)'
    BY <1>1, <1>2 DEF OnlyMoved, Placed, InTable
  <1>5. Together' /\ \A b \in Barriers : Accounted(b)'
    BY <1>2, AsideKeeps DEF Halfway
  <1>6. ShufflesTrade'
    BY <1>2, SameTrades DEF GpuInv
  <1>q. QED
    BY <1>3, <1>4, <1>5, <1>6 DEF GpuInv

\* Between its barriers a shuffle reads what the source lane put into that very shuffle:
\* the lane has come, and has not left, as it would have to wait for the reader.
LEMMA TradeKeeps ==
    ASSUME GpuInv, NEW t \in BlockThreads, Trade(t)
    PROVE  GpuInv'
  <1>1. GpuTypeOK /\ Together /\ \A u \in BlockThreads : Placed(u) /\ InTable(u)
    BY DEF GpuInv
  <1>2. /\ OnlyMoved(t) /\ UNCHANGED <<step, barrier, kernel, table>>
        /\ phase[t] = "trade" /\ phase'[t] = "last"
        /\ step[t] \in DOMAIN kernel /\ kernel[step[t]] \in Shuffles
    BY <1>1 DEF GpuTypeOK, Trade, GoTo, OnlyMoved, Placed, blockVars
  <1>3. /\ step \in [BlockThreads -> Nat] /\ DOMAIN kernel \subseteq Nat
        /\ kernel[step[t]] # "sync"
    BY <1>1, <1>2, KernelFacts DEF GpuTypeOK
  <1> DEFINE u == Source(t, kernel[step[t]])
  <1>4. u \in BlockThreads /\ BarrierOf(u, step[t]) = BarrierOf(t, step[t])
    BY <1>2, SourceInWarp DEF BarrierOf, Warp
  <1>5. table[u] = Value(u, step[t])
    <2>1. Came(u, step[t], "waiting")
      <3>1. Passed(t, step[t], "waiting") /\ Meeting(step[t], "waiting")
        BY <1>2 DEF Passed, Halfway, Meeting
      <3>q. QED
        BY <1>1, <1>2, <1>4, <3>1 DEF Together
    <2>2. ~Passed(u, step[t], "leaving")
      <3>1. ~Came(t, step[t], "leaving") /\ Meeting(step[t], "leaving")
        BY <1>2, <1>3 DEF Came, Passed, Inside, ThrownOut, Meeting
      <3>q. QED
        BY <1>1, <1>2, <1>4, <3>1 DEF Together
    <2>3. step[u] = step[t]
      BY <1>3, <1>4, <2>1, <2>2 DEF Came, Passed, Inside, ThrownOut
    <2>4. CASE phase[u] = "out"
      BY <1>2, <2>1, <2>3, <2>4, <1>3 DEF Came, Passed, Halfway, Inside, ThrownOut
    <2>5. CASE phase[u] # "out"
      <3>1. phase[u] \in {"waiting", "trade", "last", "leaving"}
        BY <1>3, <2>1, <2>3, <2>5 DEF Came, Passed, Halfway, Inside, ThrownOut
      <3>q. QED
        BY <1>1, <1>2, <1>4, <2>3, <3>1 DEF InTable
    <2>q. QED
      BY <2>4, <2>5
  <1>6. got' = [got EXCEPT ![t] = [@ EXCEPT ![step[t]] = Value(u, step[t])]]
    BY <1>2, <1>5 DEF Trade, Give
  <1>7. ShufflesTrade'
    <2>1. ASSUME NEW v \in BlockThreads, NEW i \in DOMAIN kernel
          PROVE  got'[v][i] = got[v][i] \/ (v = t /\ i = step[t] /\ got'[v][i] = Value(u, i))
      BY <1>1, <1>2, <1>6 DEF GpuTypeOK
    <2>2. ShufflesTrade
      BY DEF GpuInv
    <2>3. ASSUME NEW v \in BlockThreads, NEW i \in DOMAIN kernel, kernel[i] \in Shuffles,
                 got'[v][i] # Nothing
          PROVE  got'[v][i] = Value(Source(v, kernel[i]), i)
      BY <2>1, <2>2, <2>3 DEF ShufflesTrade
    <2>q. QED
      BY <1>2, <2>3 DEF ShufflesTrade
  <1>8. GpuTypeOK'
    <2>1. Value(u, step[t]) \in ShuffleValues
      BY <1>2, <1>4 DEF ShuffleValues
    <2>2. got' \in [BlockThreads -> [DOMAIN kernel -> ShuffleValues]]
      BY <1>1, <1>2, <1>6, <2>1 DEF GpuTypeOK
    <2>q. QED
      BY <1>1, <1>2, <2>2 DEF GpuTypeOK, Trade, GoTo, Phases, ShuffleValues, blockVars
  <1>9. \A v \in BlockThreads : Placed(v)' /\ InTable(v)'
    BY <1>1, <1>2 DEF OnlyMoved, Placed, InTable
  <1>10. Together' /\ \A b \in Barriers : Accounted(b)'
    BY <1>2, AsideKeeps DEF Halfway
  <1>q. QED
    BY <1>7, <1>8, <1>9, <1>10 DEF GpuInv

LEMMA EndingKeeps ==
    ASSUME GpuInv, NEW t \in BlockThreads,
           EndKernel(t) \/ Raise(t) \/ (\E b \in Barriers : Break(t, b))
    PROVE  GpuInv'
  <1>1. GpuTypeOK /\ \A u \in BlockThreads : Placed(u) /\ InTable(u)
    BY DEF GpuInv
  <1>2. /\ OnlyMoved(t) /\ UNCHANGED <<step, kernel, got, table>>
        /\ phase[t] \in {"ready", "failing"} /\ phase'[t] \in {"out", "failing"}
    BY <1>1 DEF GpuTypeOK, EndKernel, Raise, Break, GoTo, OnlyMoved, blockVars
  <1>3. \A b \in Barriers :
            \/ barrier'[b] = barrier[b]
            \/ barrier'[b].state = "broken" /\ barrier'[b].count = barrier[b].count
    BY <1>1 DEF GpuTypeOK, EndKernel, Raise, Break, blockVars
  <1>4. GpuTypeOK'
    <2>1. phase' \in [BlockThreads -> Phases]
      BY <1>1 DEF GpuTypeOK, EndKernel, Raise, Break, GoTo, Phases
    <2>2. failures' \in Seq(BlockThreads) /\ UNCHANGED <<block, outcome>>
      <3>1. failures' = failures \/ failures' = Append(failures, t)
        BY DEF EndKernel, Raise, Break, blockVars
      <3>2. UNCHANGED <<block, outcome>>
        BY DEF EndKernel, Raise, Break
      <3>3. failures \in Seq(BlockThreads)
        BY <1>1 DEF GpuTypeOK
      <3>4. Append(failures, t) \in Seq(BlockThreads)
        BY <3>3
      <3>q. QED
        BY <3>1, <3>2, <3>3, <3>4
    <2>3. breaking' \in [BlockThreads -> SUBSET Barriers]
      BY <1>1 DEF GpuTypeOK, EndKernel, Raise, Break, blockVars
    <2>4. barrier' \in [Barriers -> [state : {"filling", "draining", "broken"},
                                     count : 0 .. BlockSize]]
      <3>1. CASE barrier' = barrier
        BY <1>1, <3>1 DEF GpuTypeOK
      <3>2. ASSUME NEW b \in Barriers, barrier' = [barrier EXCEPT ![b].state = "broken"]
            PROVE  barrier' \in [Barriers -> [state : {"filling", "draining", "broken"},
                                             count : 0 .. BlockSize]]
        BY <1>1, <3>2 DEF GpuTypeOK
      <3>q. QED
        BY <3>1, <3>2 DEF EndKernel, Raise, Break, blockVars
    <2>q. QED
      BY <1>1, <1>2, <2>1, <2>2, <2>3, <2>4 DEF GpuTypeOK, ShuffleValues
  <1>5. \A u \in BlockThreads : Placed(u)' /\ InTable(u)'
    BY <1>1, <1>2 DEF OnlyMoved, Placed, InTable
  <1>6. Together' /\ \A b \in Barriers : Accounted(b)'
    BY <1>2, <1>3, AsideKeeps DEF Halfway
  <1>7. ShufflesTrade'
    BY <1>2, SameTrades DEF GpuInv
  <1>q. QED
    BY <1>4, <1>5, <1>6, <1>7 DEF GpuInv

-----------------------------------------------------------------------------
(* A block begins. *)

\* The threads of a block that begins satisfy the invariant.
LEMMA Fresh ==
    (/\ GpuTypeOK /\ barrier = Unbroken /\ phase = Starting
     /\ step = [t \in BlockThreads |-> 1]
     /\ got = [t \in BlockThreads |-> [i \in DOMAIN kernel |-> Nothing]])
        => GpuInv
  <1> SUFFICES ASSUME GpuTypeOK, barrier = Unbroken, phase = Starting,
                      step = [t \in BlockThreads |-> 1],
                      got = [t \in BlockThreads |-> [i \in DOMAIN kernel |-> Nothing]]
               PROVE  GpuInv
    OBVIOUS
  <1>1. \A t \in BlockThreads : step[t] = 1 /\ phase[t] = "ready"
    BY DEF Starting
  <1>2. DOMAIN kernel = 1 .. Len(kernel) /\ Len(kernel) \in Nat
    BY KernelFacts
  <1>3. Together
    BY <1>1, <1>2 DEF Together, Passed, Halfway
  <1>4. ShufflesTrade
    BY DEF ShufflesTrade
  <1>5. \A t \in BlockThreads : Placed(t) /\ InTable(t)
    BY <1>1 DEF Placed, InTable
  <1>6. ASSUME NEW b \in Barriers PROVE Accounted(b)
    <2>1. In(b) = {}
      BY <1>1, Companies DEF In
    <2>2. barrier[b].state = "filling" /\ barrier[b].count = 0
      BY DEF Unbroken
    <2>q. QED
      BY <2>1, <2>2, Companies, FS_EmptySet DEF Accounted
  <1>q. QED
    BY <1>3, <1>4, <1>5, <1>6 DEF GpuInv

LEMMA FreshTypes ==
    /\ Unbroken \in [Barriers ->
            [state : {"filling", "draining", "broken"}, count : 0 .. BlockSize]]
    /\ NoValues \in [BlockThreads -> ShuffleValues] /\ Starting \in [BlockThreads -> Phases]
    /\ <<>> \in Seq(BlockThreads)
    /\ kernel \in Kernels => [t \in BlockThreads |-> 1] \in [BlockThreads -> 1 .. Len(kernel) + 1]
    /\ [t \in BlockThreads |-> [i \in DOMAIN kernel |-> Nothing]]
            \in [BlockThreads -> [DOMAIN kernel -> ShuffleValues]]
    /\ [t \in BlockThreads |-> {}] \in [BlockThreads -> SUBSET Barriers]
  <1>1. kernel \in Kernels => Len(kernel) \in Nat
    BY GpuAssumption
  <1>q. QED
    BY <1>1, GpuAssumption DEF Unbroken, NoValues, Starting, ShuffleValues, Phases

LEMMA GpuInitially == GpuInit => GpuInv
  <1> SUFFICES ASSUME GpuInit PROVE GpuInv
    OBVIOUS
  <1>1. GpuTypeOK
    BY FreshTypes, GpuAssumption DEF GpuInit, GpuTypeOK
  <1>q. QED
    BY <1>1, Fresh DEF GpuInit

LEMMA JoinKeeps ==
    ASSUME GpuInv, Join
    PROVE  GpuInv'
  <1>1. GpuTypeOK
    BY DEF GpuInv
  <1>2. CASE failures # <<>> \/ block = Grid
    <2>1. UNCHANGED <<kernel, barrier, table, failures, step, phase, got, breaking, block>>
          /\ outcome' \in {"returned", "raised"}
      BY <1>2 DEF Join, blockVars, laneVars
    <2>2. GpuTypeOK'
      BY <1>1, <2>1 DEF GpuTypeOK, ShuffleValues
    <2>3. (Together /\ \A b \in Barriers : Accounted(b))'
      BY <2>1 DEF GpuInv, Together, Accounted, In, Came, Passed, Inside, ThrownOut, Meeting,
                  BarrierOf, Halfway
    <2>4. (\A t \in BlockThreads : Placed(t) /\ InTable(t))'
      BY <2>1 DEF GpuInv, Placed, InTable
    <2>5. ShufflesTrade'
      BY <2>1, SameTrades DEF GpuInv
    <2>q. QED
      BY <2>2, <2>3, <2>4, <2>5 DEF GpuInv
  <1>3. CASE ~(failures # <<>> \/ block = Grid)
    <2>1. /\ barrier' = Unbroken /\ table' = NoValues /\ failures' = <<>>
          /\ step' = [t \in BlockThreads |-> 1] /\ phase' = Starting
          /\ got' = [t \in BlockThreads |-> [i \in DOMAIN kernel |-> Nothing]]
          /\ breaking' = [t \in BlockThreads |-> {}]
          /\ kernel' = kernel /\ block' = block + 1 /\ outcome' = outcome
      BY <1>3 DEF Join
    <2>2. block' \in 1 .. Grid
      BY <1>1, <1>3, <2>1, GpuAssumption DEF GpuTypeOK
    <2>3. GpuTypeOK'
      BY <1>1, <2>1, <2>2, FreshTypes DEF GpuTypeOK, ShuffleValues
    <2>4. (/\ GpuTypeOK /\ barrier = Unbroken /\ phase = Starting
           /\ step = [t \in BlockThreads |-> 1]
           /\ got = [t \in BlockThreads |-> [i \in DOMAIN kernel |-> Nothing]])'
      BY <2>1, <2>3 DEF Unbroken, Starting
    <2>q. QED
      BY <2>4, Fresh, PTL
  <1>q. QED
    BY <1>2, <1>3

LEMMA GpuInvStep == GpuInv /\ [GpuNext]_gpuVars => GpuInv'
  <1> SUFFICES ASSUME GpuInv, [GpuNext]_gpuVars PROVE GpuInv'
    OBVIOUS
  <1>1. ASSUME NEW t \in BlockThreads, GpuStep(t) PROVE GpuInv'
    BY <1>1, BarrierKeeps, PutKeeps, TradeKeeps, EndingKeeps DEF GpuStep
  <1>2. CASE Join
    BY <1>2, JoinKeeps
  <1>3. CASE UNCHANGED gpuVars
    <2>1. UNCHANGED <<kernel, barrier, table, failures, step, phase, got, breaking, block, outcome>>
      BY <1>3 DEF gpuVars, blockVars, laneVars
    <2>2. GpuTypeOK'
      BY <2>1 DEF GpuInv, GpuTypeOK, ShuffleValues
    <2>3. (Together /\ \A b \in Barriers : Accounted(b))'
      BY <2>1 DEF GpuInv, Together, Accounted, In, Came, Passed, Inside, ThrownOut, Meeting,
                  BarrierOf, Halfway
    <2>4. (\A t \in BlockThreads : Placed(t) /\ InTable(t))'
      BY <2>1 DEF GpuInv, Placed, InTable
    <2>5. ShufflesTrade'
      BY <2>1, SameTrades DEF GpuInv
    <2>q. QED
      BY <2>2, <2>3, <2>4, <2>5 DEF GpuInv
  <1>q. QED
    BY <1>1, <1>2, <1>3 DEF GpuNext

\* The invariant of the launch, of which the properties below are parts.
THEOREM GpuInvariance == GpuSpec => []GpuInv
  <1>1. GpuInit => GpuInv
    BY GpuInitially
  <1>2. GpuInv /\ [GpuNext]_gpuVars => GpuInv'
    BY GpuInvStep
  <1>q. QED
    BY <1>1, <1>2, PTL DEF GpuSpec

\* Every variable of the block keeps its type, whatever the kernel and whoever fails.
THEOREM GpuTyping == GpuSpec => []GpuTypeOK
  <1>1. GpuInv => GpuTypeOK
    BY DEF GpuInv
  <1>q. QED
    BY <1>1, GpuInvariance, PTL

\* `_shuffle`: every shuffle gives a thread what its source lane put into the same shuffle,
\* in warps of any width, full or not, and through failures.
THEOREM Trades == GpuSpec => []ShufflesTrade
  <1>1. GpuInv => ShufflesTrade
    BY DEF GpuInv
  <1>q. QED
    BY <1>1, GpuInvariance, PTL

\* `syncthreads` and both barriers of a shuffle: nobody goes on from one before everyone
\* it is for has come to it, however soon and often the barrier is used again.
THEOREM Barriered == GpuSpec => []Together
  <1>1. GpuInv => Together
    BY DEF GpuInv
  <1>q. QED
    BY <1>1, GpuInvariance, PTL

-----------------------------------------------------------------------------
(* Nobody is left waiting. *)

\* A thread that failed, or was thrown out of a kernel, ends no later meeting.
GaveUp(t) == phase[t] = "failing" \/ (phase[t] = "out" /\ step[t] \in DOMAIN kernel)
Broken(b) == barrier[b].state = "broken"

\* From the first failure on, every barrier is broken or about to be.
Breaks ==
    /\ \A t \in BlockThreads : breaking[t] # {} <=> phase[t] = "failing"
    /\ (\E t \in BlockThreads : GaveUp(t)) \/ (\E b \in Barriers : Broken(b))
            => \A b \in Barriers : Broken(b) \/ \E t \in BlockThreads : b \in breaking[t]

\* While the block runs a thread can go on, unless all are out and can be joined.
SomeoneGoesOn ==
    outcome = "running" =>
        \/ \A t \in BlockThreads : phase[t] = "out"
        \/ \E t \in BlockThreads : CanStep(t)

\* A step that leaves what is to be broken, and breaks nothing that was not.
LEMMA BreaksAside ==
    ASSUME Breaks, UNCHANGED <<kernel, breaking>>,
           \A t \in BlockThreads : phase'[t] = "failing" <=> phase[t] = "failing",
           \A b \in Barriers : Broken(b)' <=> Broken(b),
           \A t \in BlockThreads : GaveUp(t)' => GaveUp(t) \/ \E b \in Barriers : Broken(b)
    PROVE  Breaks'
  BY DEF Breaks

LEMMA BreaksMeets ==
    ASSUME GpuInv, Breaks, NEW t \in BlockThreads, NEW inside \in {"waiting", "leaving"},
           Meets(t, inside)
    PROVE  Breaks'
  <1>1. /\ step \in [BlockThreads -> 1 .. Len(kernel) + 1] /\ phase \in [BlockThreads -> Phases]
        /\ barrier \in [Barriers -> [state : {"filling", "draining", "broken"}, count : 0 .. BlockSize]]
    BY DEF GpuInv, GpuTypeOK
  <1>2. Its(t) \in Barriers /\ UNCHANGED <<kernel, breaking>> /\ phase[t] \notin {"failing", "out"}
    BY Companions DEF Meets, Meeting, Its, Waits, ComesLast, GoesOn, IsThrownOut, Coming
  <1>3. \A b \in Barriers : Broken(b)' <=> Broken(b)
    <2>1. CASE Waits(t, inside)
      BY <1>1, <1>2, <2>1 DEF Waits, Broken
    <2>2. CASE ComesLast(t, inside)
      BY <1>1, <1>2, <2>2 DEF ComesLast, Broken
    <2>3. CASE GoesOn(t, inside)
      BY <1>1, <1>2, <2>3 DEF GoesOn, Withdraw, Broken
    <2>4. CASE IsThrownOut(t, inside)
      BY <1>1, <1>2, <2>4 DEF IsThrownOut, Withdraw, Broken
    <2>q. QED
      BY <2>1, <2>2, <2>3, <2>4 DEF Meets
  <1>4. /\ \A u \in BlockThreads \ {t} : phase'[u] = phase[u] /\ step'[u] = step[u]
        /\ phase'[t] \in {"waiting", "leaving", "trade", "ready", "out"}
        /\ phase'[t] = "out" => Broken(Its(t))
    BY <1>1 DEF Meets, Waits, ComesLast, GoesOn, IsThrownOut, Beyond, Between, Advance, GoTo, Broken
  <1>q. QED
    BY <1>2, <1>3, <1>4, BreaksAside DEF GaveUp

LEMMA BreaksStep == GpuInv /\ Breaks /\ [GpuNext]_gpuVars => Breaks'
  <1> SUFFICES ASSUME GpuInv, Breaks, [GpuNext]_gpuVars PROVE Breaks'
    OBVIOUS
  <1>1. /\ step \in [BlockThreads -> 1 .. Len(kernel) + 1] /\ phase \in [BlockThreads -> Phases]
        /\ barrier \in [Barriers -> [state : {"filling", "draining", "broken"}, count : 0 .. BlockSize]]
        /\ breaking \in [BlockThreads -> SUBSET Barriers]
        /\ DOMAIN kernel = 1 .. Len(kernel) /\ Len(kernel) \in Nat
    BY KernelFacts DEF GpuInv, GpuTypeOK
  <1>2. ASSUME NEW t \in BlockThreads, Sync(t) \/ FirstBarrier(t) \/ LastBarrier(t)
        PROVE  Breaks'
    BY <1>2, BarrierSteps, BreaksMeets
  <1>3. ASSUME NEW t \in BlockThreads, Put(t) \/ Trade(t) \/ EndKernel(t)
        PROVE  Breaks'
    <2>1. /\ UNCHANGED <<kernel, breaking, barrier, step>>
          /\ \A u \in BlockThreads \ {t} : phase'[u] = phase[u]
          /\ phase[t] \in {"ready", "trade"} /\ phase'[t] \in {"first", "last", "out"}
          /\ phase'[t] = "out" => step[t] \notin DOMAIN kernel
      BY <1>1, <1>3 DEF Put, Trade, EndKernel, GoTo, blockVars
    <2>q. QED
      BY <2>1, BreaksAside DEF Broken, GaveUp
  <1>4. ASSUME NEW t \in BlockThreads, Raise(t)
        PROVE  Breaks'
    <2>1. /\ \A u \in BlockThreads \ {t} : phase'[u] = phase[u] /\ breaking'[u] = breaking[u]
          /\ phase'[t] = "failing" /\ breaking'[t] = Barriers
      BY <1>1, <1>4 DEF Raise, GoTo
    <2>q. QED
      BY <2>1, Companies DEF Breaks
  <1>5. ASSUME NEW t \in BlockThreads, NEW c \in Barriers, Break(t, c)
        PROVE  Breaks'
    <2>1. /\ \A u \in BlockThreads \ {t} : phase'[u] = phase[u] /\ breaking'[u] = breaking[u]
          /\ phase[t] = "failing" /\ breaking'[t] = breaking[t] \ {c} /\ c \in breaking[t]
          /\ phase'[t] = IF breaking[t] = {c} THEN "out" ELSE "failing"
          /\ \A b \in Barriers : Broken(b)' <=> b = c \/ Broken(b)
      BY <1>1, <1>5 DEF Break, GoTo, Broken
    <2>2. \A u \in BlockThreads : (breaking[u] # {} <=> phase[u] = "failing")'
      BY <2>1 DEF Breaks
    <2>3. \A b \in Barriers : Broken(b) \/ \E u \in BlockThreads : b \in breaking[u]
      BY <2>1 DEF Breaks, GaveUp
    <2>4. \A b \in Barriers : Broken(b)' \/ \E u \in BlockThreads : b \in breaking'[u]
      BY <2>1, <2>3
    <2>q. QED
      BY <2>2, <2>4 DEF Breaks
  <1>6. CASE Join
    <2>1. CASE UNCHANGED <<kernel, barrier, step, phase, breaking>>
      BY <2>1 DEF Breaks, GaveUp, Broken
    <2>2. CASE /\ barrier' = Unbroken /\ phase' = Starting
               /\ breaking' = [u \in BlockThreads |-> {}]
      BY <2>2 DEF Breaks, GaveUp, Broken, Unbroken, Starting
    <2>q. QED
      BY <1>6, <2>1, <2>2 DEF Join, blockVars, laneVars
  <1>7. CASE UNCHANGED gpuVars
    BY <1>7 DEF gpuVars, blockVars, laneVars, Breaks, GaveUp, Broken
  <1>q. QED
    BY <1>2, <1>3, <1>4, <1>5, <1>6, <1>7 DEF GpuNext, GpuStep

LEMMA LeastNat == ASSUME NEW S, S \subseteq Nat, S # {}
                  PROVE  \E n \in S : \A m \in S : n <= m
  <1>1. PICK n \in S : \A m \in S : ~(<<m, n>> \in OpToRel(<, Nat))
    BY WFMin, NatLessThanWellFounded
  <1>2. \A m \in S : ~(m < n)
    BY <1>1 DEF OpToRel
  <1>q. QED
    BY <1>2

\* Were nobody to go on, those who are not out would wait; whoever waits for the earliest
\* meeting waits for a thread that is out, so that failed, and would have broken the barrier.
LEMMA NobodyIsStuck == GpuInv /\ Breaks => SomeoneGoesOn
  <1> SUFFICES ASSUME GpuInv, Breaks,
                      NEW v \in BlockThreads, phase[v] # "out",
                      \A t \in BlockThreads : ~CanStep(t)
               PROVE  FALSE
    BY DEF SomeoneGoesOn
  <1>1. /\ step \in [BlockThreads -> 1 .. Len(kernel) + 1] /\ phase \in [BlockThreads -> Phases]
        /\ barrier \in [Barriers -> [state : {"filling", "draining", "broken"}, count : 0 .. BlockSize]]
        /\ breaking \in [BlockThreads -> SUBSET Barriers]
        /\ DOMAIN kernel = 1 .. Len(kernel) /\ Len(kernel) \in Nat
        /\ \A i \in DOMAIN kernel :
                kernel[i] \in Operations /\ (kernel[i] # "sync" <=> kernel[i] \in Shuffles)
        /\ \A t \in BlockThreads : Placed(t)
    BY KernelFacts DEF GpuInv, GpuTypeOK
  <1>2. \A b \in Barriers : barrier[b].state # "draining"
    <2> SUFFICES ASSUME NEW b \in Barriers, barrier[b].state = "draining" PROVE FALSE
      OBVIOUS
    <2>1. PICK t \in In(b) : TRUE
      BY DEF GpuInv, Accounted
    <2>2. /\ t \in BlockThreads /\ phase[t] \in {"waiting", "leaving"}
          /\ BarrierOf(t, step[t]) = b
      BY <2>1, InMeets
    <2>q. QED
      BY <2>2 DEF CanStep
  <1>3. \A t \in BlockThreads : phase[t] \in {"waiting", "leaving", "out"}
    <2> SUFFICES ASSUME NEW t \in BlockThreads, phase[t] \notin {"waiting", "leaving", "out"}
                 PROVE  FALSE
      OBVIOUS
    <2>1. Block \in Barriers /\ Warp(t) \in Barriers
      BY Companies
    <2>2. phase[t] = "ready" => step[t] = Len(kernel) + 1 \/ Doing(t, Shuffles) \/ Doing(t, {"sync"})
      BY <1>1 DEF Doing
    <2>q. QED
      BY <1>1, <1>2, <2>1, <2>2 DEF CanStep, Phases, Breaks
  <1> DEFINE Waiting == {t \in BlockThreads : phase[t] \in {"waiting", "leaving"}}
             Rank(t) == IF phase[t] = "waiting" THEN 2 * step[t] ELSE 2 * step[t] + 1
             Ranks == {Rank(t) : t \in Waiting}
  <1>4. PICK t \in Waiting : \A u \in Waiting : Rank(t) <= Rank(u)
    <2>1. \A u \in Waiting : Rank(u) \in Nat
      BY <1>1
    <2>2. Ranks \subseteq Nat /\ Ranks # {}
      BY <1>3, <2>1
    <2> HIDE DEF Rank
    <2>3. PICK n \in Ranks : \A m \in Ranks : n <= m
      BY <2>2, LeastNat
    <2>q. QED
      BY <2>3
  <1> DEFINE b == BarrierOf(t, step[t])
  <1>5. /\ t \in BlockThreads /\ step[t] \in DOMAIN kernel /\ b \in Barriers
        /\ t \in Parties(b) /\ t \in In(b)
        /\ phase[t] = "leaving" => kernel[step[t]] # "sync"
    BY <1>1, Companions DEF Placed, In
  <1>6. barrier[b].state = "filling"
    BY <1>5 DEF CanStep
  <1>7. PICK u \in Parties(b) : u \notin In(b) /\ ~Passed(u, step[t], phase[t])
    BY <1>5, <1>6, InFinite DEF GpuInv, Accounted
  <1>8. u \in BlockThreads /\ BarrierOf(u, step[t]) = b
    BY <1>5, <1>7, Companions, Companies
  <1>9. step[u] <= step[t] /\ step[u] \in DOMAIN kernel
    BY <1>1, <1>5, <1>7, <1>8 DEF Passed
  <1>10. CASE phase[u] = "out"
    <2>1. GaveUp(u)
      BY <1>9, <1>10 DEF GaveUp
    <2>2. PICK f \in BlockThreads : b \in breaking[f]
      BY <2>1, <1>5, <1>6, <1>8 DEF Breaks, Broken
    <2>q. QED
      BY <2>2, <1>3 DEF Breaks
  <1>11. CASE phase[u] # "out"
    <2>1. u \in Waiting
      BY <1>3, <1>8, <1>11
    <2>2. Rank(t) <= Rank(u)
      BY <2>1, <1>4
    <2>3. step[u] = step[t]
      BY <1>1, <1>5, <1>8, <1>9, <2>2
    <2>4. phase[u] \in {"waiting", "leaving"}
      BY <2>1
    <2>q. QED
      BY <1>7, <1>8, <2>3, <2>4 DEF In
  <1>q. QED
    BY <1>10, <1>11

\* `_Block` and `_run_block`: no thread waits for ever, at a `syncthreads` or in a shuffle,
\* however many others fail and wherever they do.
THEOREM NobodyWaitsForEver == GpuSpec => []SomeoneGoesOn
  <1>1. GpuInit => Breaks
    BY DEF GpuInit, Breaks, GaveUp, Broken, Unbroken, Starting
  <1>2. GpuInv /\ Breaks /\ [GpuNext]_gpuVars => Breaks'
    BY BreaksStep
  <1>3. GpuInv /\ Breaks => SomeoneGoesOn
    BY NobodyIsStuck
  <1>q. QED
    BY <1>1, <1>2, <1>3, GpuInvariance, PTL DEF GpuSpec

=============================================================================
