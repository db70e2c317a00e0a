----------------------------- MODULE Concurrent -----------------------------
(***************************************************************************)
(* ppy.concurrent: threads that share one mutex, one condition and one     *)
(* barrier, each a slot or two of memory spun on with atomic operations.   *)
(*                                                                         *)
(* The Python reference (ppy/concurrent.py over ppy/atomic.py, every       *)
(* operation under one lock) and the native lowering (`lower_concurrency`  *)
(* in backend/llvm/dialect_lowerings.py) take the same atomic steps, so    *)
(* one action here is one atomic operation of either.  The function that   *)
(* spawns the threads is the native one: a thread whose guard failed hands *)
(* its status to `join`, and the function falls back to Python.            *)
(***************************************************************************)
EXTENDS Integers, FiniteSets

CONSTANTS
    Threads,      \* the threads the function may spawn, all parties to the barrier
    MaxNotify,    \* bound: notifications
    MaxRounds     \* bound: rounds of the barrier

ASSUME ThreadsAssumption == IsFiniteSet(Threads) /\ Threads # {}
ASSUME BoundsAssumption == MaxNotify \in Nat /\ MaxRounds \in Nat

Parties == Cardinality(Threads)

VARIABLES
    \* the shared slots
    mutex, condition, arrivals, generation,
    \* each thread: where it is, and the generation it read before it waits
    pc, seen,
    \* the spawning function: its frame, the threads' states, the failures joined
    frame, status, joined, failures,
    \* history: rounds of the barrier each thread arrived at and passed, and the
    \* threads a notification was made for since their call of `wait`
    arrived, passed, notified

slots == <<mutex, condition, arrivals, generation>>
threadVars == <<pc, seen>>
frameVars == <<frame, status, joined, failures>>
history == <<arrived, passed, notified>>
vars == <<slots, threadVars, frameVars, history>>

InWait == {"loaded", "waiting"}
InBarrier == {"arriving", "last", "opening", "spinning"}
PCs == {"idle", "locking", "holding"} \cup InWait \cup InBarrier

TypeOK ==
    /\ mutex \in {0, 1}
    /\ condition \in Nat /\ arrivals \in Nat /\ generation \in Nat
    /\ pc \in [Threads -> PCs]
    /\ seen \in [Threads -> Nat]
    /\ frame \in {"live", "returned", "fellBack"}
    /\ status \in [Threads -> {"none", "running", "returned", "failed"}]
    /\ joined \subseteq Threads
    /\ failures \in BOOLEAN
    /\ arrived \in [Threads -> Nat] /\ passed \in [Threads -> Nat]
    /\ notified \subseteq Threads

Init ==
    /\ mutex = 0 /\ condition = 0 /\ arrivals = 0 /\ generation = 0
    /\ pc = [t \in Threads |-> "idle"]
    /\ seen = [t \in Threads |-> 0]
    /\ frame = "live" /\ status = [t \in Threads |-> "none"]
    /\ joined = {} /\ failures = FALSE
    /\ arrived = [t \in Threads |-> 0] /\ passed = [t \in Threads |-> 0]
    /\ notified = {}

\* The running thread t goes from one place of its code to another.
Go(t, from, to) ==
    /\ status[t] = "running" /\ pc[t] = from
    /\ pc' = [pc EXCEPT ![t] = to]

-----------------------------------------------------------------------------
(* The mutex: one slot, zero unlocked. *)

Lock(t) ==
    /\ Go(t, "idle", "locking")
    /\ UNCHANGED <<slots, seen, frameVars, history>>

\* Mutant of Take: the slot is added to, not compared and exchanged.
TakeUnchecked(t) ==
    /\ Go(t, "locking", "holding")
    /\ mutex' = mutex + 1
    /\ UNCHANGED <<condition, arrivals, generation, seen, frameVars, history>>

\* The compare_exchange that finds 0 and leaves 1; any other spins.
Take(t) ==
    /\ mutex = 0
    /\ Go(t, "locking", "holding")
    /\ mutex' = 1
    /\ UNCHANGED <<condition, arrivals, generation, seen, frameVars, history>>

\* `unlock`, by the thread that holds the mutex.
Unlock(t) ==
    /\ Go(t, "holding", "idle")
    /\ mutex' = 0
    /\ UNCHANGED <<condition, arrivals, generation, seen, frameVars, history>>

-----------------------------------------------------------------------------
(* The condition: one slot counting notifications. *)

\* `wait` reads the count while it still holds the mutex,
WaitLoad(t) ==
    /\ Go(t, "holding", "loaded")
    /\ seen' = [seen EXCEPT ![t] = condition]
    /\ UNCHANGED <<slots, frameVars, history>>

\* releases the mutex,
WaitRelease(t) ==
    /\ Go(t, "loaded", "waiting")
    /\ mutex' = 0
    /\ UNCHANGED <<condition, arrivals, generation, seen, frameVars, history>>

\* spins until the count is another, and takes the mutex back.
WaitWake(t) ==
    /\ condition # seen[t]
    /\ Go(t, "waiting", "locking")
    /\ notified' = notified \ {t}
    /\ UNCHANGED <<slots, seen, frameVars, arrived, passed>>

\* Mutant of Notify: the count goes back to zero at the bound of a small slot.
NotifyWraps(t) ==
    /\ status[t] = "running" /\ pc[t] \in {"idle", "holding"}
    /\ condition' = (condition + 1) % 2
    /\ notified' = notified \cup {u \in Threads : pc[u] \in InWait}
    /\ UNCHANGED <<mutex, arrivals, generation, threadVars, frameVars, arrived, passed>>

\* `notify` wakes every waiter; the notifier may hold the mutex or not.
Notify(t) ==
    /\ status[t] = "running" /\ pc[t] \in {"idle", "holding"}
    /\ condition < MaxNotify
    /\ condition' = condition + 1
    /\ notified' = notified \cup {u \in Threads : pc[u] \in InWait}
    /\ UNCHANGED <<mutex, arrivals, generation, threadVars, frameVars, arrived, passed>>

-----------------------------------------------------------------------------
(* The barrier: arrivals, then the generation. *)

\* The generation is read before arriving.
BarrierLoad(t) ==
    /\ passed[t] < MaxRounds
    /\ Go(t, "idle", "arriving")
    /\ seen' = [seen EXCEPT ![t] = generation]
    /\ UNCHANGED <<slots, frameVars, history>>

\* Mutant of Arrive: the count after the addition is compared with one less than the
\* parties, as the count before it would have to be.
ArriveLessOne(t) ==
    /\ Go(t, "arriving", IF arrivals + 1 = Parties - 1 THEN "last" ELSE "spinning")
    /\ arrivals' = arrivals + 1
    /\ arrived' = [arrived EXCEPT ![t] = @ + 1]
    /\ UNCHANGED <<mutex, condition, generation, seen, frameVars, passed, notified>>

\* fetch_add: the last of the parties goes on to open the barrier, the rest spin.
Arrive(t) ==
    /\ Go(t, "arriving", IF arrivals + 1 = Parties THEN "last" ELSE "spinning")
    /\ arrivals' = arrivals + 1
    /\ arrived' = [arrived EXCEPT ![t] = @ + 1]
    /\ UNCHANGED <<mutex, condition, generation, seen, frameVars, passed, notified>>

Reset(t) ==
    /\ Go(t, "last", "opening")
    /\ arrivals' = 0
    /\ UNCHANGED <<mutex, condition, generation, seen, frameVars, history>>

\* Mutant of Open: the generation is left as it is.
OpenNothing(t) ==
    /\ Go(t, "opening", "idle")
    /\ passed' = [passed EXCEPT ![t] = @ + 1]
    /\ UNCHANGED <<slots, seen, frameVars, arrived, notified>>

Open(t) ==
    /\ Go(t, "opening", "idle")
    /\ generation' = generation + 1
    /\ passed' = [passed EXCEPT ![t] = @ + 1]
    /\ UNCHANGED <<mutex, condition, arrivals, seen, frameVars, arrived, notified>>

\* Spin until the generation is another.
Leave(t) ==
    /\ generation # seen[t]
    /\ Go(t, "spinning", "idle")
    /\ passed' = [passed EXCEPT ![t] = @ + 1]
    /\ UNCHANGED <<slots, seen, frameVars, arrived, notified>>

-----------------------------------------------------------------------------
(* Threads, and the function that spawns and joins them. *)

Spawn(t) ==
    /\ frame = "live" /\ status[t] = "none"
    /\ status' = [status EXCEPT ![t] = "running"]
    /\ UNCHANGED <<slots, threadVars, frame, joined, failures, history>>

\* The thread's function returns, or a guard of it fails wherever it is running.
Finish(t) ==
    /\ status[t] = "running"
    /\ \/ pc[t] = "idle" /\ status' = [status EXCEPT ![t] = "returned"]
       \/ pc[t] \in {"idle", "holding"} /\ status' = [status EXCEPT ![t] = "failed"]
    /\ UNCHANGED <<slots, threadVars, frame, joined, failures, history>>

\* Mutant of Join: the last thread's status replaces what was collected.
JoinKeepsLast(t) ==
    /\ frame = "live" /\ t \notin joined /\ status[t] \in {"returned", "failed"}
    /\ joined' = joined \cup {t}
    /\ failures' = (status[t] = "failed")
    /\ UNCHANGED <<slots, threadVars, frame, status, history>>

\* `join` waits for the thread and collects its status.
Join(t) ==
    /\ frame = "live" /\ t \notin joined /\ status[t] \in {"returned", "failed"}
    /\ joined' = joined \cup {t}
    /\ failures' = (failures \/ status[t] = "failed")
    /\ UNCHANGED <<slots, threadVars, frame, status, history>>

Spawned == {t \in Threads : status[t] # "none"}

\* A return: a failure collected fails the function there.  That a program returns only
\* with every thread joined is taken of it; nothing in the code sees to it.
Return ==
    /\ frame = "live" /\ joined = Spawned
    /\ frame' = IF failures THEN "fellBack" ELSE "returned"
    /\ UNCHANGED <<slots, threadVars, status, joined, failures, history>>

\* Any other guard of the function, a spawn that fails among them, falls back at once.
GuardFails ==
    /\ frame = "live"
    /\ frame' = "fellBack"
    /\ UNCHANGED <<slots, threadVars, status, joined, failures, history>>

SyncStep(t) ==
    \/ Lock(t) \/ Take(t) \/ Unlock(t)
    \/ WaitLoad(t) \/ WaitRelease(t) \/ WaitWake(t) \/ Notify(t)
    \/ BarrierLoad(t) \/ Arrive(t) \/ Reset(t) \/ Open(t) \/ Leave(t)

Next ==
    \/ \E t \in Threads : SyncStep(t) \/ Finish(t) \/ Spawn(t) \/ Join(t)
    \/ Return \/ GuardFails

Spec == Init /\ [][Next]_vars

-----------------------------------------------------------------------------
(* Properties. *)

Holders == {t \in Threads : pc[t] \in {"holding", "loaded"}}

\* The mutex excludes: one thread at most is between its `lock` and its `unlock` or
\* the release inside `wait`, and the slot is 1 just then.
MutualExclusion ==
    /\ \A t, u \in Holders : t = u
    /\ mutex = 1 <=> Holders # {}

\* `wait` misses no notification made once it was called and invents none: the count
\* differs from what it read exactly when some thread notified since.
NoLostNotification ==
    \A t \in Threads : pc[t] \in InWait => (t \in notified <=> condition # seen[t])

\* No thread passes a round of the barrier before every party arrived at it, and no
\* thread is a round ahead of another that has not left.
BarrierHolds == \A t, u \in Threads : passed[t] <= arrived[u]

\* Whenever the parties are all waiting, one of them is about to open the barrier:
\* it never closes on everyone.
BarrierOpens ==
    (\A t \in Threads : pc[t] = "spinning") => \E t \in Threads : generation # seen[t]

\* A function that returned a value had no thread that failed a guard.
ReturnsCleanly ==
    frame = "returned" => \A t \in Threads : status[t] \in {"none", "returned"}

\* ast_to_ir.py:4817-4819: when Python takes over no spawned thread still runs on
\* the native frame.
NoThreadOnLeftFrame ==
    frame = "fellBack" => \A t \in Threads : status[t] # "running"

\* Each thread takes its next step inside `wait` and `barrier` (the scheduler is fair).
Fairness ==
    \A t \in Threads : WF_vars(Arrive(t) \/ Reset(t) \/ Open(t) \/ Leave(t) \/ WaitWake(t))
LiveSpec == Spec /\ Fairness

\* A round every party arrived at is passed by every party.
EveryoneLeaves == \A r \in 1 .. MaxRounds :
    (\A t \in Threads : arrived[t] >= r) ~> (\A t \in Threads : passed[t] >= r)

=============================================================================
