------------------------- MODULE Concurrent_proofs -------------------------
(***************************************************************************)
(* Proofs about Concurrent, for every set of threads and every bound.      *)
(*                                                                         *)
(* Each safety property of the module is a consequence of an inductive     *)
(* invariant stated here: the mutex is its own invariant, the condition    *)
(* needs what a thread read before it waits, the failures need what `join` *)
(* has collected so far, and the barrier needs where each thread stands    *)
(* relative to the generation, and that the count is the number of threads *)
(* that arrived at the round still closed.                                 *)
(***************************************************************************)
EXTENDS Concurrent, FiniteSetTheorems, TLAPS

-----------------------------------------------------------------------------
(* The inductive invariants. *)

\* The condition: what a waiter read is not ahead of the count, and it is behind
\* exactly when the waiter was notified; only waiters are.
CondInv == \A t \in Threads :
    /\ pc[t] \in InWait => seen[t] <= condition /\ (t \in notified <=> condition # seen[t])
    /\ pc[t] \notin InWait => t \notin notified

\* The failures: what is joined has ended, each failure of it is collected, and a
\* function that returned had joined everything without a failure.
ReturnInv ==
    /\ \A t \in joined : status[t] = "returned" \/ (status[t] = "failed" /\ failures)
    /\ frame = "returned" => joined = Spawned /\ ~failures

\* The barrier: the threads counted in the round that is still closed, but for the
\* one that closes it, and where each thread stands.
Waiting == {t \in Threads : pc[t] = "spinning" /\ seen[t] = generation}
Closers == {t \in Threads : pc[t] \in {"last", "opening"}}
Openers == {t \in Threads : pc[t] = "opening"}

Stands(t) ==
    /\ pc[t] \notin InBarrier => passed[t] = generation /\ arrived[t] = generation
    /\ pc[t] = "arriving" =>
        seen[t] = generation /\ passed[t] = generation /\ arrived[t] = generation
    /\ pc[t] \in {"last", "opening"} => passed[t] = generation /\ arrived[t] = generation + 1
    /\ pc[t] = "spinning" =>
        /\ passed[t] = seen[t] /\ arrived[t] = seen[t] + 1
        /\ seen[t] = generation \/ seen[t] + 1 = generation

BarrierInv ==
    /\ \A t \in Threads : Stands(t)
    /\ \A t \in Closers, u \in Threads : u # t => u \in Waiting
    /\ Closers = {} => arrivals = Cardinality(Waiting)
    /\ Openers # {} => arrivals = 0
    /\ Waiting # Threads

-----------------------------------------------------------------------------
(* Type correctness. *)

\* Every variable keeps its type whatever the threads do.
THEOREM Typing == Spec => []TypeOK
<1>1. Init => TypeOK
  <2> SUFFICES ASSUME Init PROVE TypeOK
    OBVIOUS
  <2>1. mutex \in {0, 1} /\ condition \in Nat /\ arrivals \in Nat /\ generation \in Nat
    BY DEF Init
  <2>2. pc \in [Threads -> PCs] /\ seen \in [Threads -> Nat]
    BY DEF Init, PCs
  <2>3. /\ frame \in {"live", "returned", "fellBack"} /\ failures \in BOOLEAN
        /\ status \in [Threads -> {"none", "running", "returned", "failed"}]
        /\ joined \subseteq Threads /\ notified \subseteq Threads
    BY DEF Init
  <2>4. arrived \in [Threads -> Nat] /\ passed \in [Threads -> Nat]
    BY DEF Init
  <2>q. QED
    BY <2>1, <2>2, <2>3, <2>4 DEF TypeOK
<1>2. TypeOK /\ [Next]_vars => TypeOK'
  <2> SUFFICES ASSUME TypeOK, [Next]_vars PROVE TypeOK'
    OBVIOUS
  <2> USE DEF TypeOK, Go, PCs, InWait, InBarrier, slots, threadVars, frameVars, history
  <2>1. ASSUME NEW t \in Threads, Lock(t) PROVE TypeOK'
    BY <2>1 DEF Lock
  <2>2. ASSUME NEW t \in Threads, Take(t) PROVE TypeOK'
    BY <2>2 DEF Take
  <2>3. ASSUME NEW t \in Threads, Unlock(t) PROVE TypeOK'
    BY <2>3 DEF Unlock
  <2>4. ASSUME NEW t \in Threads, WaitLoad(t) PROVE TypeOK'
    BY <2>4 DEF WaitLoad
  <2>5. ASSUME NEW t \in Threads, WaitRelease(t) PROVE TypeOK'
    BY <2>5 DEF WaitRelease
  <2>6. ASSUME NEW t \in Threads, WaitWake(t) PROVE TypeOK'
    BY <2>6 DEF WaitWake
  <2>7. ASSUME NEW t \in Threads, Notify(t) PROVE TypeOK'
    BY <2>7 DEF Notify
  <2>8. ASSUME NEW t \in Threads, BarrierLoad(t) PROVE TypeOK'
    BY <2>8 DEF BarrierLoad
  <2>9. ASSUME NEW t \in Threads, Arrive(t) PROVE TypeOK'
    BY <2>9 DEF Arrive
  <2>10. ASSUME NEW t \in Threads, Reset(t) PROVE TypeOK'
    BY <2>10 DEF Reset
  <2>11. ASSUME NEW t \in Threads, Open(t) PROVE TypeOK'
    BY <2>11 DEF Open
  <2>12. ASSUME NEW t \in Threads, Leave(t) PROVE TypeOK'
    BY <2>12 DEF Leave
  <2>13. ASSUME NEW t \in Threads, Spawn(t) \/ Finish(t) \/ Join(t) PROVE TypeOK'
    BY <2>13 DEF Spawn, Finish, Join
  <2>14. ASSUME Return \/ GuardFails PROVE TypeOK'
    BY <2>14 DEF Return, GuardFails
  <2>15. CASE UNCHANGED vars
    BY <2>15 DEF vars
  <2>q. QED
    BY <2>1, <2>2, <2>3, <2>4, <2>5, <2>6, <2>7, <2>8, <2>9, <2>10, <2>11, <2>12,
       <2>13, <2>14, <2>15 DEF Next, SyncStep
<1>q. QED
  BY <1>1, <1>2, PTL DEF Spec

-----------------------------------------------------------------------------
(* The mutex. *)

\* A step that moves no thread into or out of the mutex and leaves its slot alone
\* keeps MutualExclusion.
LEMMA SameHolders ==
    ASSUME MutualExclusion, Holders' = Holders, mutex' = mutex
    PROVE  MutualExclusion'
  BY DEF MutualExclusion

\* lock, unlock and the release inside wait exclude each other's holders, whatever
\* else the threads do: compare_exchange finds 0 only when nobody is inside.
THEOREM Exclusion == Spec => []MutualExclusion
<1>1. Init => MutualExclusion
  BY DEF Init, MutualExclusion, Holders
<1>2. TypeOK /\ MutualExclusion /\ [Next]_vars => MutualExclusion'
  <2> SUFFICES ASSUME TypeOK, MutualExclusion, [Next]_vars PROVE MutualExclusion'
    OBVIOUS
  <2> pc \in [Threads -> PCs]
    BY DEF TypeOK
  <2> USE DEF Go
  <2>1. ASSUME NEW t \in Threads, Take(t) PROVE MutualExclusion'
    <3>1. Holders = {}
      BY <2>1 DEF Take, MutualExclusion
    <3>2. Holders' = {t} /\ mutex' = 1
      BY <2>1, <3>1 DEF Take, Holders
    <3>q. QED
      BY <3>2 DEF MutualExclusion
  <2>2. ASSUME NEW t \in Threads, Unlock(t) \/ WaitRelease(t) PROVE MutualExclusion'
    <3>1. t \in Holders
      BY <2>2 DEF Unlock, WaitRelease, Holders
    <3>2. Holders = {t}
      BY <3>1 DEF MutualExclusion
    <3>3. Holders' = {} /\ mutex' = 0
      BY <2>2, <3>2 DEF Unlock, WaitRelease, Holders
    <3>q. QED
      BY <3>3 DEF MutualExclusion
  <2>3. ASSUME NEW t \in Threads,
               Lock(t) \/ WaitLoad(t) \/ WaitWake(t) \/ BarrierLoad(t) \/ Arrive(t)
                 \/ Reset(t) \/ Open(t) \/ Leave(t)
        PROVE  MutualExclusion'
    <3>1. Holders' = Holders /\ mutex' = mutex
      BY <2>3 DEF Lock, WaitLoad, WaitWake, BarrierLoad, Arrive, Reset, Open, Leave,
                  Holders, slots
    <3>q. QED
      BY <3>1, SameHolders
  <2>4. ASSUME UNCHANGED <<pc, mutex>> PROVE MutualExclusion'
    BY <2>4, SameHolders DEF Holders
  <2>q. QED
    BY <2>1, <2>2, <2>3, <2>4 DEF Next, SyncStep, Notify, Finish, Spawn, Join, Return,
       GuardFails, slots, threadVars, vars
<1>q. QED
  BY <1>1, <1>2, Typing, PTL DEF Spec

-----------------------------------------------------------------------------
(* The condition. *)

\* A step that leaves the count, what was read and what was notified alone, and
\* moves no thread into or out of `wait`, keeps CondInv.
LEMMA SameWaiters ==
    ASSUME CondInv, UNCHANGED <<condition, seen, notified>>,
           \A t \in Threads : pc'[t] \in InWait <=> pc[t] \in InWait
    PROVE  CondInv'
  BY DEF CondInv

\* A thread that waits is woken by the notifications made since it called `wait`,
\* all of them and no other, although it lets go of the mutex before it spins.
THEOREM Notified == Spec => []NoLostNotification
<1>1. Init => CondInv
  BY DEF Init, CondInv, InWait
<1>2. TypeOK /\ CondInv /\ [Next]_vars => CondInv'
  <2> SUFFICES ASSUME TypeOK, CondInv, [Next]_vars PROVE CondInv'
    OBVIOUS
  <2> pc \in [Threads -> PCs] /\ seen \in [Threads -> Nat] /\ condition \in Nat
    BY DEF TypeOK
  <2> USE DEF Go, InWait
  <2>1. ASSUME NEW t \in Threads, WaitLoad(t) PROVE CondInv'
    BY <2>1 DEF WaitLoad, CondInv, slots, history
  <2>2. ASSUME NEW t \in Threads, WaitWake(t) PROVE CondInv'
    BY <2>2 DEF WaitWake, CondInv, slots
  <2>3. ASSUME NEW t \in Threads, Notify(t) PROVE CondInv'
    <3> SUFFICES ASSUME NEW u \in Threads
                 PROVE  /\ pc[u] \in InWait =>
                             seen[u] <= condition + 1
                               /\ (u \in notified' <=> condition + 1 # seen[u])
                        /\ pc[u] \notin InWait => u \notin notified'
      BY <2>3 DEF Notify, CondInv, threadVars
    <3>1. u \in notified' <=> u \in notified \/ pc[u] \in InWait
      BY <2>3 DEF Notify
    <3>2. seen[u] \in Nat
      OBVIOUS
    <3>q. QED
      BY <3>1, <3>2 DEF CondInv
  <2>4. ASSUME NEW t \in Threads, BarrierLoad(t) PROVE CondInv'
    BY <2>4 DEF BarrierLoad, CondInv, slots, history
  <2>5. ASSUME NEW t \in Threads,
               Lock(t) \/ Take(t) \/ Unlock(t) \/ WaitRelease(t)
                 \/ Arrive(t) \/ Reset(t) \/ Open(t) \/ Leave(t)
        PROVE  CondInv'
    <3>1. UNCHANGED <<condition, seen, notified>>
      BY <2>5 DEF Lock, Take, Unlock, WaitRelease, Arrive, Reset, Open, Leave, slots, history
    <3>2. \A u \in Threads : pc'[u] \in InWait <=> pc[u] \in InWait
      BY <2>5 DEF Lock, Take, Unlock, WaitRelease, Arrive, Reset, Open, Leave
    <3>q. QED
      BY <3>1, <3>2, SameWaiters
  <2>6. ASSUME UNCHANGED <<pc, condition, seen, notified>> PROVE CondInv'
    BY <2>6, SameWaiters
  <2>q. QED
    BY <2>1, <2>2, <2>3, <2>4, <2>5, <2>6 DEF Next, SyncStep, Finish, Spawn, Join,
       Return, GuardFails, slots, threadVars, history, vars
<1>3. CondInv => NoLostNotification
  BY DEF CondInv, NoLostNotification
<1>q. QED
  BY <1>1, <1>2, <1>3, Typing, PTL DEF Spec

-----------------------------------------------------------------------------
(* The failures. *)

\* A native function that spawned threads returns its value only when every one of
\* them returned its own: the failures collected at the joins are all there are.
THEOREM CleanReturn == Spec => []ReturnsCleanly
<1>1. Init => ReturnInv
  BY DEF Init, ReturnInv
<1>2. TypeOK /\ ReturnInv /\ [Next]_vars => ReturnInv'
  <2> SUFFICES ASSUME TypeOK, ReturnInv, [Next]_vars PROVE ReturnInv'
    OBVIOUS
  <2> /\ status \in [Threads -> {"none", "running", "returned", "failed"}]
      /\ failures \in BOOLEAN /\ joined \subseteq Threads
    BY DEF TypeOK
  <2> USE DEF ReturnInv, Spawned
  <2>1. ASSUME NEW t \in Threads, Spawn(t) PROVE ReturnInv'
    BY <2>1 DEF Spawn
  <2>2. ASSUME NEW t \in Threads, Finish(t) PROVE ReturnInv'
    BY <2>2 DEF Finish
  <2>3. ASSUME NEW t \in Threads, Join(t) PROVE ReturnInv'
    BY <2>3 DEF Join
  <2>4. ASSUME Return \/ GuardFails PROVE ReturnInv'
    BY <2>4 DEF Return, GuardFails
  <2>5. ASSUME UNCHANGED frameVars PROVE ReturnInv'
    BY <2>5 DEF frameVars
  <2>q. QED
    BY <2>1, <2>2, <2>3, <2>4, <2>5 DEF Next, SyncStep, Lock, Take, Unlock, WaitLoad,
       WaitRelease, WaitWake, Notify, BarrierLoad, Arrive, Reset, Open, Leave, vars
<1>3. TypeOK /\ ReturnInv => ReturnsCleanly
  BY DEF TypeOK, ReturnInv, ReturnsCleanly, Spawned
<1>q. QED
  BY <1>1, <1>2, <1>3, Typing, PTL DEF Spec

-----------------------------------------------------------------------------
(* The barrier. *)

\* The threads are finitely many, so the waiting ones are, and counting every thread
\* is counting the parties.
LEMMA WaitingFinite ==
    /\ IsFiniteSet(Waiting) /\ Cardinality(Waiting) \in Nat
    /\ Cardinality(Waiting) = Parties => Waiting = Threads
<1>1. Waiting \in SUBSET Threads /\ IsFiniteSet(Threads)
  BY ThreadsAssumption DEF Waiting
<1>q. QED
  BY <1>1, FS_Subset, FS_CardinalityType DEF Parties

\* A step that moves no thread in the barrier keeps BarrierInv.
LEMMA SameBarrier ==
    ASSUME BarrierInv, UNCHANGED <<arrivals, generation, seen, arrived, passed>>,
           \A t \in Threads : pc'[t] = pc[t] \/ {pc[t], pc'[t]} \cap InBarrier = {}
    PROVE  BarrierInv'
<1>1. Waiting' = Waiting /\ Closers' = Closers /\ Openers' = Openers
  BY DEF Waiting, Closers, Openers, InBarrier
<1>2. \A t \in Threads : Stands(t)'
  <2> SUFFICES ASSUME NEW t \in Threads PROVE Stands(t)'
    OBVIOUS
  <2>1. Stands(t)
    BY DEF BarrierInv
  <2>2. CASE pc'[t] = pc[t]
    BY <2>1, <2>2 DEF Stands
  <2>3. CASE pc[t] \notin InBarrier /\ pc'[t] \notin InBarrier
    BY <2>1, <2>3 DEF Stands, InBarrier
  <2>q. QED
    BY <2>2, <2>3
<1>q. QED
  BY <1>1, <1>2 DEF BarrierInv

\* The last arrival is the only thread still on its way: the others all wait.
LEMMA LastArrival ==
    ASSUME BarrierInv, NEW t \in Threads, pc[t] = "arriving"
    PROVE  /\ Closers = {} /\ arrivals = Cardinality(Waiting) /\ t \notin Waiting
           /\ Cardinality(Waiting \cup {t}) = arrivals + 1
           /\ arrivals + 1 = Parties <=> Waiting \cup {t} = Threads
<1>1. t \notin Waiting /\ t \notin Closers
  BY DEF Waiting, Closers
<1>2. Closers = {}
  BY <1>1 DEF BarrierInv, Closers
<1>3. arrivals = Cardinality(Waiting)
  BY <1>2 DEF BarrierInv
<1>4. IsFiniteSet(Waiting) /\ Waiting \in SUBSET Threads
  BY WaitingFinite DEF Waiting
<1>5. Cardinality(Waiting \cup {t}) = arrivals + 1
  BY <1>1, <1>3, <1>4, FS_AddElement
<1>6. Waiting \cup {t} \in SUBSET Threads
  BY <1>4
<1>7. Cardinality(Waiting \cup {t}) = Parties => Waiting \cup {t} = Threads
  BY <1>6, FS_Subset, ThreadsAssumption DEF Parties
<1>q. QED
  BY <1>1, <1>2, <1>3, <1>5, <1>7 DEF Parties

\* The inductive step of the barrier, for each of its four moves.
LEMMA BarrierStep ==
    ASSUME TypeOK, BarrierInv, NEW t \in Threads,
           BarrierLoad(t) \/ Arrive(t) \/ Reset(t) \/ Open(t) \/ Leave(t)
    PROVE  BarrierInv'
<1> /\ pc \in [Threads -> PCs] /\ seen \in [Threads -> Nat]
    /\ arrived \in [Threads -> Nat] /\ passed \in [Threads -> Nat]
    /\ generation \in Nat /\ arrivals \in Nat
  BY DEF TypeOK
<1>s. \A u \in Threads : Stands(u)
  BY DEF BarrierInv
<1> USE DEF Go
<1>1. CASE BarrierLoad(t)
  <2>1. /\ Waiting' = Waiting /\ Closers' = Closers /\ Openers' = Openers
        /\ arrivals' = arrivals
    BY <1>1 DEF BarrierLoad, Waiting, Closers, Openers, slots
  <2>2. \A u \in Threads : Stands(u)'
    BY <1>1, <1>s DEF BarrierLoad, Stands, InBarrier, slots, history
  <2>q. QED
    BY <2>1, <2>2 DEF BarrierInv
<1>2. CASE Arrive(t)
  <2>1. \A u \in Threads : Stands(u)'
    BY <1>2, <1>s DEF Arrive, Stands, InBarrier
  <2>2. CASE arrivals + 1 = Parties
    <3>1. Waiting' = Waiting /\ Closers' = {t} /\ Openers' = {}
      BY <1>2, <2>2, LastArrival DEF Arrive, Waiting, Closers, Openers
    <3>2. \A u \in Threads : u # t => u \in Waiting
      BY <1>2, <2>2, LastArrival DEF Arrive
    <3>q. QED
      BY <2>1, <3>1, <3>2 DEF BarrierInv
  <2>3. CASE arrivals + 1 # Parties
    <3>1. seen[t] = generation
      BY <1>2, <1>s DEF Arrive, Stands
    <3>2. Waiting' = Waiting \cup {t} /\ Closers' = {} /\ Openers' = {}
      BY <1>2, <2>3, <3>1, LastArrival DEF Arrive, Waiting, Closers, Openers
    <3>3. arrivals' = Cardinality(Waiting')
      BY <1>2, <3>2, LastArrival DEF Arrive
    <3>4. Waiting' # Threads
      BY <1>2, <2>3, <3>2, LastArrival DEF Arrive
    <3>q. QED
      BY <2>1, <3>2, <3>3, <3>4 DEF BarrierInv
  <2>q. QED
    BY <2>2, <2>3
<1>3. CASE Reset(t)
  <2>1. /\ Waiting' = Waiting /\ Closers' = Closers /\ t \in Closers
        /\ arrivals' = 0
    BY <1>3 DEF Reset, Waiting, Closers
  <2>2. \A u \in Threads : Stands(u)'
    BY <1>3, <1>s DEF Reset, Stands, InBarrier, history
  <2>q. QED
    BY <2>1, <2>2 DEF BarrierInv
<1>4. CASE Open(t)
  <2>1. t \in Closers
    BY <1>4 DEF Open, Closers
  <2>2. \A u \in Threads : u # t => pc[u] = "spinning" /\ seen[u] = generation
    BY <2>1 DEF BarrierInv, Waiting
  <2>3. Waiting' = {} /\ Closers' = {} /\ Openers' = {}
    BY <1>4, <2>2 DEF Open, Waiting, Closers, Openers
  <2>4. arrivals' = 0
    BY <1>4 DEF Open, BarrierInv, Openers
  <2>5. \A u \in Threads : Stands(u)'
    BY <1>4, <1>s, <2>2 DEF Open, Stands, InBarrier
  <2>q. QED
    BY <2>3, <2>4, <2>5, FS_EmptySet, ThreadsAssumption DEF BarrierInv
<1>5. CASE Leave(t)
  <2>1. /\ Waiting' = Waiting /\ Closers' = Closers /\ Openers' = Openers
        /\ arrivals' = arrivals
    BY <1>5 DEF Leave, Waiting, Closers, Openers, slots
  <2>2. \A u \in Threads : Stands(u)'
    BY <1>5, <1>s DEF Leave, Stands, InBarrier, slots
  <2>q. QED
    BY <2>1, <2>2 DEF BarrierInv
<1>q. QED
  BY <1>1, <1>2, <1>3, <1>4, <1>5

\* What BarrierInv says holds of every reachable state.
LEMMA BarrierAlways == Spec => []BarrierInv
<1>1. Init => BarrierInv
  <2> SUFFICES ASSUME Init PROVE BarrierInv
    OBVIOUS
  <2>1. Waiting = {} /\ Closers = {} /\ Openers = {} /\ arrivals = 0
    BY DEF Init, Waiting, Closers, Openers
  <2>2. \A t \in Threads : Stands(t)
    BY DEF Init, Stands, InBarrier
  <2>q. QED
    BY <2>1, <2>2, FS_EmptySet, ThreadsAssumption DEF BarrierInv
<1>2. TypeOK /\ BarrierInv /\ [Next]_vars => BarrierInv'
  <2> SUFFICES ASSUME TypeOK, BarrierInv, [Next]_vars PROVE BarrierInv'
    OBVIOUS
  <2> pc \in [Threads -> PCs]
    BY DEF TypeOK
  <2>1. ASSUME NEW t \in Threads,
               BarrierLoad(t) \/ Arrive(t) \/ Reset(t) \/ Open(t) \/ Leave(t)
        PROVE  BarrierInv'
    BY <2>1, BarrierStep
  <2>2. ASSUME NEW t \in Threads,
               Lock(t) \/ Take(t) \/ Unlock(t) \/ WaitRelease(t) \/ WaitWake(t)
        PROVE  BarrierInv'
    <3>1. UNCHANGED <<arrivals, generation, seen, arrived, passed>>
      BY <2>2 DEF Lock, Take, Unlock, WaitRelease, WaitWake, slots, history
    <3>2. \A u \in Threads : pc'[u] = pc[u] \/ {pc[u], pc'[u]} \cap InBarrier = {}
      BY <2>2 DEF Lock, Take, Unlock, WaitRelease, WaitWake, Go, InBarrier
    <3>q. QED
      BY <3>1, <3>2, SameBarrier
  <2>3. ASSUME NEW t \in Threads, WaitLoad(t) PROVE BarrierInv'
    <3>1. /\ Waiting' = Waiting /\ Closers' = Closers /\ Openers' = Openers
          /\ arrivals' = arrivals
      BY <2>3 DEF WaitLoad, Go, Waiting, Closers, Openers, slots
    <3>2. \A u \in Threads : Stands(u)
      BY DEF BarrierInv
    <3>3. \A u \in Threads : Stands(u)'
      BY <2>3, <3>2 DEF WaitLoad, Go, Stands, InBarrier, slots, history, TypeOK
    <3>q. QED
      BY <3>1, <3>3 DEF BarrierInv
  <2>4. ASSUME UNCHANGED <<pc, arrivals, generation, seen, arrived, passed>>
        PROVE  BarrierInv'
    BY <2>4, SameBarrier
  <2>q. QED
    BY <2>1, <2>2, <2>3, <2>4 DEF Next, SyncStep, Notify, Finish, Spawn, Join, Return,
       GuardFails, slots, threadVars, history, vars
<1>q. QED
  BY <1>1, <1>2, Typing, PTL DEF Spec

\* No thread leaves a round that some party has not arrived at, for any number of
\* parties and rounds: the count and the generation are two slots, written apart.
THEOREM BarrierSafe == Spec => []BarrierHolds
<1>1. TypeOK /\ BarrierInv => BarrierHolds
  <2> SUFFICES ASSUME TypeOK, BarrierInv, NEW t \in Threads, NEW u \in Threads
               PROVE  passed[t] <= arrived[u]
    BY DEF BarrierHolds
  <2>1. passed[t] <= generation
    <3>1. Stands(t) /\ pc[t] \in PCs /\ generation \in Nat /\ seen[t] \in Nat
      BY DEF BarrierInv, TypeOK
    <3>q. QED
      BY <3>1 DEF Stands, PCs, InWait, InBarrier
  <2>2. generation <= arrived[u]
    <3>1. Stands(u) /\ pc[u] \in PCs /\ generation \in Nat /\ seen[u] \in Nat
      BY DEF BarrierInv, TypeOK
    <3>q. QED
      BY <3>1 DEF Stands, PCs, InWait, InBarrier
  <2>q. QED
    BY <2>1, <2>2 DEF TypeOK
<1>q. QED
  BY <1>1, Typing, BarrierAlways, PTL

\* The barrier never closes on everyone: with all the parties spinning, one of them
\* already sees another generation.
THEOREM BarrierAjar == Spec => []BarrierOpens
<1>1. BarrierInv => BarrierOpens
  BY DEF BarrierInv, BarrierOpens, Waiting
<1>q. QED
  BY <1>1, BarrierAlways, PTL

=============================================================================
