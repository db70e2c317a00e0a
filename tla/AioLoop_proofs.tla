--------------------------- MODULE AioLoop_proofs ---------------------------
(***************************************************************************)
(* Proofs about AioLoop, for every set of coroutines, operations and       *)
(* descriptors and every bound.                                            *)
(*                                                                         *)
(* The argument is one of ownership.  A future has one reader: the frame   *)
(* or the Python caller that holds its handle, and after an await nobody   *)
(* but the frame that awaits it.  So its waiters are none or one, a frame  *)
(* is in one place, and what is freed was read by its only reader.         *)
(***************************************************************************)
EXTENDS AioLoop, FiniteSetTheorems, TLAPS

-----------------------------------------------------------------------------
(* The inductive invariants. *)

\* The loop runs for a coroutine Python called and was not told the end of.
Driven == pc # "python" =>
    driver \in Coros /\ holder[driver] = Python /\ outcome[driver] = "none"
Held == \A f \in Futures : holder[f] # NoOne => state[f] # "none"

\* An operation is counted when it is watched; two on one descriptor count twice.
Pended == {d \in Fds : pending[d] # NoOne}
Counted == pendingCount >= Cardinality(Pended)

Typed == TypeOK /\ Driven /\ Held /\ Counted

\* Descriptors: what is pending is an operation on that very descriptor that waits,
\* and epoll has it armed or in the batch at hand.
Armed ==
    /\ events # {} => pc = "serve"
    /\ \A d \in Fds : pending[d] # NoOne =>
        /\ d \in open /\ state[pending[d]] = "pending"
        /\ fdOf[pending[d]] = d /\ kind[pending[d]] \in SocketKinds
        /\ armed[d] = Dir(kind[pending[d]]) \/ d \in events

\* Timers are of sleeps that wait, one each.
Timed ==
    /\ \A t \in timers : kind[t[1]] = "sleep" /\ state[t[1]] = "pending"
    /\ \A t, u \in timers : t[1] = u[1] => t = u

\* With one operation a descriptor, each that waits is the descriptor's pending one.
Watched == \A o \in Ops : state[o] = "pending" =>
    \/ kind[o] = "sleep" /\ \E t \in timers : t[1] = o
    \/ kind[o] \in SocketKinds /\ fdOf[o] \in Fds /\ pending[fdOf[o]] = o
Exact == pendingCount = Cardinality(Pended)

\* Frames: which there are, and what is known of those not started and of the one
\* that runs.
Framed ==
    /\ \A c \in Coros : c \in frames <=> state[c] = "pending"
    /\ \A c \in started : state[c] # "none"
    /\ \A c \in Coros \ started : ~Settled(c) /\ awaiting[c] = NoOne
    /\ running # NoOne => running \in frames \cap started /\ awaiting[running] = NoOne

\* A suspended frame is in one place: once in the ready queue, or the one waiter of
\* the pending future it awaits.
Suspended(c) == c \in frames \cap started /\ running # c
Queued(c) == \E i \in DOMAIN ready : ready[i] = c
Waits(c, f) == waiters[f] = <<c>> /\ awaiting[c] = f /\ state[f] = "pending"

Once == \A i, j \in DOMAIN ready : ready[i] = ready[j] => i = j
InQueue == \A c \in Coros : Queued(c) =>
    Suspended(c) /\ (awaiting[c] # NoOne => Settled(awaiting[c]))
InWaiting == \A f \in Futures : waiters[f] # <<>> =>
    \E c \in Coros : Suspended(c) /\ ~Queued(c) /\ Waits(c, f)
Somewhere == \A c \in Coros : Suspended(c) =>
    Queued(c) \/ \E f \in Futures : Waits(c, f)

\* Futures: one holder or, later, one frame that awaits it.
Owned ==
    /\ \A f \in Futures : holder[f] # f
    /\ \A c \in frames : awaiting[c] # NoOne =>
        holder[awaiting[c]] = NoOne /\ state[awaiting[c]] # "none"
    /\ \A c, d \in frames : awaiting[c] = awaiting[d] /\ awaiting[c] # NoOne => c = d

\* What is freed was read, by the frame that awaited it or by Python.
Freed ==
    /\ \A f \in released : Settled(f) /\ holder[f] \in {NoOne, Python}
    /\ \A f \in released : holder[f] = Python =>
        f \in Coros /\ outcome[f] \in {"value", "raised"}
    /\ \A c \in frames : awaiting[c] \notin released

Owns == Framed /\ Once /\ InQueue /\ InWaiting /\ Somewhere /\ Owned /\ Freed

-----------------------------------------------------------------------------
(* The calls the actions share. *)

LEMMA StartFacts ==
    ASSUME FrameTypes, NEW f \in Futures, Start(f)
    PROVE  /\ started' \subseteq Coros /\ ready' \in Seq(Coros)
           /\ f \in Coros \ started => started' = started \cup {f} /\ ready' = Append(ready, f)
           /\ f \notin Coros \ started => started' = started /\ ready' = ready
<1>1. CASE f \in Coros \ started
  BY <1>1 DEF Start, FrameTypes
<1>2. CASE f \notin Coros \ started
  BY <1>2 DEF Start, FrameTypes
<1>q. QED
  BY <1>1, <1>2

LEMMA SettleFacts ==
    ASSUME FutureTypes, FrameTypes, NEW f \in Futures, NEW s \in {"done", "failed"},
           Settle(f, s)
    PROVE  /\ state' \in [Futures -> {"none", "pending", "done", "failed"}]
           /\ waiters' \in [Futures -> Seq(Coros)] /\ ready' \in Seq(Coros)
           /\ \A g \in Futures : g # f => state'[g] = state[g] /\ waiters'[g] = waiters[g]
           /\ \A g \in Futures : state[g] # "none" <=> state'[g] # "none"
           /\ state[f] = "pending" =>
                state'[f] = s /\ waiters'[f] = <<>> /\ ready' = ready \o waiters[f]
           /\ state[f] # "pending" =>
                state' = state /\ waiters' = waiters /\ ready' = ready
<1>1. CASE state[f] = "pending"
  <2>1. /\ state' = [state EXCEPT ![f] = s] /\ ready' = ready \o waiters[f]
        /\ waiters' = [waiters EXCEPT ![f] = <<>>]
    BY <1>1 DEF Settle
  <2>q. QED
    BY <1>1, <2>1 DEF FutureTypes, FrameTypes
<1>2. CASE state[f] # "pending"
  BY <1>2 DEF Settle, FutureTypes, FrameTypes
<1>q. QED
  BY <1>1, <1>2

-----------------------------------------------------------------------------
(* Type correctness. *)

\* A step that leaves the descriptors' operations alone, or watches one, or takes one
\* off, keeps the count at least that of the descriptors with one.
LEMMA CountKept ==
    ASSUME FdTypes, Counted, UNCHANGED <<pending, pendingCount>>
    PROVE  Counted' /\ pendingCount' \in Nat
  BY DEF Counted, Pended, FdTypes
LEMMA PendedFinite == Cardinality(Pended) \in Nat /\ IsFiniteSet(Pended)
  BY SetsAssumption, FS_Subset, FS_CardinalityType DEF Pended
LEMMA CountUp ==
    ASSUME FdTypes, Counted, NEW d \in Fds, NEW o \in Ops, NEW k, Watch(d, o, k)
    PROVE  /\ Counted' /\ pendingCount' \in Nat
           /\ Exact /\ pending[d] = NoOne => Exact'
<1> DEFINE S == Pended
<1>1. Pended' = S \cup {d}
  BY SetsAssumption DEF Watch, Pended, FdTypes
<1>2. IsFiniteSet(S) /\ Cardinality(S) \in Nat /\ pendingCount \in Nat
      /\ pendingCount >= Cardinality(S) /\ pendingCount' = pendingCount + 1
  BY PendedFinite DEF FdTypes, Counted, Watch
<1> HIDE DEF S
<1>3. Cardinality(S \cup {d}) = IF d \in S THEN Cardinality(S) ELSE Cardinality(S) + 1
  BY <1>2, FS_AddElement
<1>4. Cardinality(Pended') <= pendingCount'
  BY <1>1, <1>2, <1>3
<1>5. Cardinality(Pended') \in Nat /\ pendingCount' \in Nat
  BY <1>1, <1>2, <1>3
<1>6. ASSUME Exact, pending[d] = NoOne PROVE Exact'
  <2>1. d \notin S
    BY <1>6 DEF Pended, S
  <2>q. QED
    BY <1>1, <1>2, <1>3, <1>6, <2>1 DEF Exact, S
<1>q. QED
  BY <1>4, <1>5, <1>6 DEF Counted
LEMMA CountDown ==
    ASSUME FdTypes, Counted, NEW d \in Fds, pending[d] # NoOne, Unwatch(d)
    PROVE  /\ Counted' /\ pendingCount' \in Nat
           /\ Exact => Exact'
<1> DEFINE S == Pended
<1>1. Pended' = S \ {d} /\ d \in S
  BY DEF Unwatch, Pended, FdTypes
<1>2. IsFiniteSet(S) /\ Cardinality(S) \in Nat /\ pendingCount \in Nat
      /\ pendingCount >= Cardinality(S) /\ pendingCount' = pendingCount - 1
  BY PendedFinite DEF FdTypes, Counted, Unwatch
<1> HIDE DEF S
<1>3. Cardinality(S \ {d}) = Cardinality(S) - 1
  BY <1>1, <1>2, FS_RemoveElement
<1>4. Cardinality(S) # 0
  BY <1>1, <1>2, FS_EmptySet
<1>5. Cardinality(Pended') <= pendingCount' /\ pendingCount' \in Nat
  BY <1>1, <1>2, <1>3, <1>4
<1>6. Cardinality(Pended') \in Nat
  BY <1>1, <1>2, <1>3, <1>4
<1>7. ASSUME Exact PROVE Exact'
  BY <1>1, <1>2, <1>3, <1>7 DEF Exact, S
<1>q. QED
  BY <1>5, <1>6, <1>7 DEF Counted

\* Every variable keeps its type: in particular the count of pending operations never
\* goes below zero, and the loop always runs for somebody.
THEOREM Typing == Spec => [](TypeOK /\ Typed)
<1> USE DEF Futures, Directions, SocketKinds
<1>1. Init => Typed
  <2> SUFFICES ASSUME Init PROVE Typed
    OBVIOUS
  <2>1. TypeOK
    BY SetsAssumption, BoundsAssumption
    DEF Init, TypeOK, FutureTypes, FrameTypes, OpTypes, FdTypes, LoopTypes, WorldTypes, Forever
  <2>2. Pended = {}
    BY DEF Init, Pended
  <2>3. Counted
    BY <2>2, FS_EmptySet DEF Init, Counted
  <2>q. QED
    BY <2>1, <2>3 DEF Init, Typed, Driven, Held
<1>2. Typed /\ [Next]_vars => Typed'
  <2> SUFFICES ASSUME Typed, [Next]_vars PROVE Typed'
    OBVIOUS
  <2>a. ASSUME NEW f \in Futures, Start(f)
        PROVE  started' \subseteq Coros /\ ready' \in Seq(Coros)
    BY <2>a, StartFacts DEF Typed, TypeOK
  <2>b. ASSUME NEW f \in Futures, NEW s \in {"done", "failed"}, Settle(f, s)
        PROVE  /\ state' \in [Futures -> {"none", "pending", "done", "failed"}]
               /\ waiters' \in [Futures -> Seq(Coros)] /\ ready' \in Seq(Coros)
               /\ \A g \in Futures : state[g] # "none" => state'[g] # "none"
    BY <2>b, SettleFacts DEF Typed, TypeOK
  <2>c. ASSUME UNCHANGED <<pending, pendingCount>> PROVE Counted' /\ pendingCount' \in Nat
    BY <2>c, CountKept DEF Typed, TypeOK
  <2>d. ASSUME NEW d \in Fds, NEW o \in Ops, NEW k, Watch(d, o, k)
        PROVE  Counted' /\ pendingCount' \in Nat
    BY <2>d, CountUp DEF Typed, TypeOK
  <2>e. ASSUME NEW d \in Fds, pending[d] # NoOne, Unwatch(d)
        PROVE  Counted' /\ pendingCount' \in Nat
    BY <2>e, CountDown DEF Typed, TypeOK
  <2> USE SetsAssumption, BoundsAssumption, PythonAssumption
  <2> USE DEF TypeOK, FutureTypes, FrameTypes, OpTypes, FdTypes, LoopTypes, WorldTypes
  <2> USE DEF Typed, Driven, Held
  <2> USE DEF vars, futureVars, frameVars, opVars, fdVars, loopVars, worldVars
  <2>1. ASSUME NEW c \in Coros, NEW d \in Coros, CreateChild(c, d) PROVE Typed'
    BY <2>1, <2>c DEF CreateChild, Spawn, NewFuture
  <2>2. ASSUME NEW c \in Coros, NEW d \in Coros, StartChild(c, d) PROVE Typed'
    BY <2>2, <2>a, <2>c DEF StartChild, Holds
  <2>3. ASSUME NEW c \in Coros, NEW f \in Futures, Await(c, f) PROVE Typed'
    <3>1. CASE Settled(f)
      <4>1. ready' = Append(ready, c) /\ waiters' = waiters /\ started' = started
        BY <2>3, <3>1 DEF Await
      <4>q. QED
        BY <2>3, <4>1, <2>c DEF Await, Holds
    <3>2. CASE ~Settled(f)
      <4>1. waiters' = [waiters EXCEPT ![f] = Append(@, c)] /\ Start(f)
        BY <2>3, <3>2 DEF Await
      <4>2. waiters' \in [Futures -> Seq(Coros)]
        BY <4>1
      <4>q. QED
        BY <2>3, <4>1, <4>2, <2>a, <2>c DEF Await, Holds
    <3>q. QED
      BY <3>1, <3>2
  <2>4. ASSUME NEW c \in Coros, Complete(c) \/ Fail(c) PROVE Typed'
    <3>1. CASE Complete(c)
      BY <3>1, <2>b, <2>c DEF Complete, Finish
    <3>2. CASE Fail(c)
      BY <3>2, <2>b, <2>c DEF Fail, Finish
    <3>q. QED
      BY <2>4, <3>1, <3>2
  <2>5. ASSUME NEW c \in Coros, NEW o \in Ops, Sleep(c, o) PROVE Typed'
    BY <2>5, <2>c DEF Sleep, NewFuture
  <2>6. ASSUME NEW c \in Coros, NEW o \in Ops, Connect(c, o) PROVE Typed'
    <3>1. CASE NewFuture(o, c, "done") /\ UNCHANGED <<fdOf, fdVars>>
      BY <2>6, <3>1, <2>c DEF Connect, NewFuture
    <3>2. ASSUME NEW d \in Fds, NewFuture(o, c, "pending"), Watch(d, o, "connect"),
                 fdOf' = [fdOf EXCEPT ![o] = d], open' = open \cup {d}
          PROVE  Typed'
      <4>1. Counted' /\ pendingCount' \in Nat
        BY <3>2, <2>d
      <4>q. QED
        BY <2>6, <3>2, <4>1 DEF Connect, NewFuture, Watch, Dir
    <3>q. QED
      BY <2>6, <3>1, <3>2 DEF Connect
  <2>7. ASSUME NEW c \in Coros, NEW o \in Ops, NEW d \in Fds, 
               NEW k \in {"accept", "read", "write"}, Begin(c, o, d, k)
        PROVE  Typed'
    <3>1. left' \in [Ops -> 0 .. MaxChunks]
      BY <2>7 DEF Begin, Remaining
    <3>2. able' \subseteq able /\ kind' \in [Ops -> SocketKinds \cup {"none", "sleep"}]
          /\ fdOf' \in [Ops -> Fds \cup {NoOne}]
      BY <2>7 DEF Begin, Consume
    <3>3. CASE NewFuture(o, c, "pending") /\ Watch(d, o, k) /\ UNCHANGED open
      <4>1. Counted' /\ pendingCount' \in Nat
        BY <3>3, <2>d
      <4>q. QED
        BY <2>7, <3>1, <3>2, <3>3, <4>1 DEF Begin, NewFuture, Watch, Dir
    <3>4. ASSUME NEW answer, NewFuture(o, c, "done"), OpensOn(k, answer),
                 UNCHANGED <<pending, pendingCount, armed>>
          PROVE  Typed'
      <4>1. open' \subseteq Fds
        BY <3>4 DEF OpensOn
      <4>q. QED
        BY <2>7, <3>1, <3>2, <3>4, <4>1, <2>c DEF Begin, NewFuture
    <3>q. QED
      BY <2>7, <3>3, <3>4 DEF Begin
  <2>8. ASSUME NEW c \in Coros, NEW d \in Fds, Close(c, d) PROVE Typed'
    BY <2>8, <2>b, <2>c, <2>e DEF Close, Unwatch, Shut
  <2>9. ASSUME Resume PROVE Typed'
    BY <2>9, <2>c DEF Resume, Release
  <2>10. ASSUME Prepare PROVE Typed'
    <3>1. ASSUME NEW deadline \in 0 .. MaxClock
          PROVE  clock + Until(deadline) \in 0 .. MaxClock
      BY <3>1 DEF Until, Milli
    <3>2. \A t \in timers : t[2] \in 0 .. MaxClock
      OBVIOUS
    <3>3. CASE wakeAt' = wakeAt \/ wakeAt' = clock \/ wakeAt' = Forever
      BY <2>10, <3>3, <2>c DEF Prepare
    <3>4. ASSUME NEW t \in timers, wakeAt' = clock + Until(t[2]) PROVE Typed'
      <4>1. wakeAt' \in 0 .. MaxClock
        BY <3>1, <3>2, <3>4
      <4>q. QED
        BY <2>10, <4>1, <2>c DEF Prepare
    <3>q. QED
      BY <2>10, <3>3, <3>4 DEF Prepare, Earliest
  <2>11. ASSUME Wait PROVE Typed'
    BY <2>11, <2>c DEF Wait
  <2>12. ASSUME NEW d \in Fds, Serve(d) PROVE Typed'
    <3>1. CASE pending[d] = NoOne
      BY <2>12, <3>1, <2>c DEF Serve
    <3>2. CASE pending[d] # NoOne
      <4> DEFINE o == pending[d]
      <4>1. o \in Ops /\ o \in Futures
        BY <3>2
      <4>2. left' \in [Ops -> 0 .. MaxChunks]
        <5>1. PICK answer, rest : left' = [left EXCEPT ![o] = rest]
                /\ rest \in {0} \cup Remaining(d, kind[o], left[o], answer)
          BY <2>12, <3>2 DEF Serve
        <5>2. left[o] \in 0 .. MaxChunks
          BY <4>1
        <5>3. rest \in 0 .. MaxChunks
          BY <5>1, <5>2 DEF Remaining
        <5>q. QED
          BY <4>1, <5>1, <5>3
      <4>3. CASE Rearm(d, kind[o]) /\ Consume(d, kind[o]) /\ UNCHANGED <<state, waiters, ready, open>>
        BY <2>12, <4>2, <4>3, <2>c DEF Serve, Rearm, Consume, Dir
      <4>4. ASSUME NEW answer, Unwatch(d), Settle(o, "done"),
                   Shut(d) \/ (OpensOn(kind[o], answer) /\ Consume(d, kind[o]))
            PROVE  Typed'
        <5>1. Counted' /\ pendingCount' \in Nat
          BY <3>2, <4>4, <2>e
        <5>2. /\ state' \in [Futures -> {"none", "pending", "done", "failed"}]
              /\ waiters' \in [Futures -> Seq(Coros)] /\ ready' \in Seq(Coros)
              /\ \A g \in Futures : state[g] # "none" => state'[g] # "none"
          BY <4>1, <4>4, <2>b
        <5>3. open' \subseteq Fds /\ able' \subseteq able
          BY <4>4 DEF Shut, OpensOn, Consume
        <5>q. QED
          BY <2>12, <4>2, <4>4, <5>1, <5>2, <5>3 DEF Serve, Unwatch
      <4>q. QED
        BY <2>12, <3>2, <4>3, <4>4 DEF Serve
    <3>q. QED
      BY <3>1, <3>2
  <2>13. ASSUME Expire PROVE Typed'
    BY <2>13, <2>b, <2>c DEF Expire
  <2>14. ASSUME EndExpire \/ EndStep PROVE Typed'
    BY <2>14, <2>c DEF EndExpire, EndStep
  <2>15. ASSUME NEW c \in Coros, Call(c) PROVE Typed'
    BY <2>15, <2>c DEF Call, Spawn, NewFuture
  <2>16. ASSUME NEW c \in Coros, StartHanded(c) PROVE Typed'
    BY <2>16, <2>a, <2>c DEF StartHanded
  <2>17. ASSUME NEW c \in Coros, Run(c) \/ Poll(c) PROVE Typed'
    BY <2>17, <2>a, <2>c DEF Run, Poll
  <2>18. ASSUME NEW c \in Coros, Collect(c) PROVE Typed'
    BY <2>18, <2>c DEF Collect, Answer, Release
  <2>19. ASSUME Decide PROVE Typed'
    BY <2>19, <2>c DEF Decide, Answer, Release
  <2>20. ASSUME Tick PROVE Typed'
    BY <2>20, <2>c DEF Tick
  <2>22. ASSUME NEW d \in Fds, NEW way \in {"in", "out"}, Supply(d, way) \/ Drain(d, way)
         PROVE  Typed'
    BY <2>22, <2>c DEF Supply, Drain
  <2>21. CASE UNCHANGED vars
    BY <2>21, <2>c
  <2> HIDE DEF Typed, vars
  <2>q. QED
    BY <2>1, <2>2, <2>3, <2>4, <2>5, <2>6, <2>7, <2>8, <2>9, <2>10, <2>11, <2>12, <2>13,
       <2>14, <2>15, <2>16, <2>17, <2>18, <2>19, <2>20, <2>21, <2>22
    DEF Next, Uncontended, FrameStep, LoopStep, PythonStep, World, Contention
<1>3. Typed => TypeOK
  BY DEF Typed
<1>q. QED
  BY <1>1, <1>2, <1>3, PTL DEF Spec

-----------------------------------------------------------------------------
(* Descriptors and timers. *)

LEMMA SettleOne ==
    ASSUME FutureTypes, FrameTypes, NEW f \in Futures, NEW s \in {"done", "failed"},
           Settle(f, s)
    PROVE  \A g \in Futures : g # f => state'[g] = state[g]
  BY SettleFacts

\* The steps that touch neither descriptors nor timers.
LEMMA DescriptorsKept ==
    ASSUME Typed, Armed, Timed, UNCHANGED <<kind, fdOf, timers, fdVars>>,
           \A o \in Ops : state'[o] = state[o],
           UNCHANGED <<pc, events>> \/ (pc # "serve" /\ UNCHANGED events)
    PROVE  Armed' /\ Timed'
  BY DEF Typed, TypeOK, FdTypes, OpTypes, LoopTypes, Armed, Timed, fdVars

LEMMA DescriptorStep ==
    ASSUME Typed, Armed, Timed, [Next]_vars
    PROVE  Armed' /\ Timed'
<1> USE SetsAssumption DEF Futures
<1> DEFINE Kept == UNCHANGED <<kind, fdOf, timers, fdVars>>
<1>a. ASSUME NEW f \in Futures, NEW s \in {"done", "failed"}, Settle(f, s)
      PROVE  \A g \in Futures : g # f => state'[g] = state[g]
  BY <1>a, SettleOne DEF Typed, TypeOK
<1>b. ASSUME Kept, UNCHANGED <<state, pc, events>> PROVE Armed' /\ Timed'
  BY <1>b, DescriptorsKept
<1>c. ASSUME Kept, UNCHANGED <<state, events>>, pc # "serve" PROVE Armed' /\ Timed'
  BY <1>c, DescriptorsKept
<1>d. ASSUME Kept, UNCHANGED <<pc, events>>, \A o \in Ops : state'[o] = state[o]
      PROVE  Armed' /\ Timed'
  BY <1>d, DescriptorsKept
<1> USE DEF fdVars, loopVars, opVars, frameVars, futureVars, worldVars
<1>1. ASSUME NEW c \in Coros, NEW d \in Coros, CreateChild(c, d) PROVE Armed' /\ Timed'
  <2>1. \A o \in Ops : state'[o] = state[o]
    BY <1>1 DEF CreateChild, Spawn, NewFuture, Typed, TypeOK, FutureTypes
  <2>q. QED
    BY <1>1, <1>d, <2>1 DEF CreateChild, Spawn
<1>2. ASSUME NEW c \in Coros, NEW d \in Coros, StartChild(c, d) PROVE Armed' /\ Timed'
  BY <1>2, <1>b DEF StartChild
<1>3. ASSUME NEW c \in Coros, NEW f \in Futures, Await(c, f) PROVE Armed' /\ Timed'
  BY <1>3, <1>b DEF Await
<1>4. ASSUME NEW c \in Coros, Complete(c) \/ Fail(c) PROVE Armed' /\ Timed'
  <2>1. \A o \in Ops : state'[o] = state[o]
    BY <1>4, <1>a DEF Complete, Fail, Finish
  <2>q. QED
    BY <1>4, <1>d, <2>1 DEF Complete, Fail, Finish
<1>5. ASSUME NEW c \in Coros, NEW o \in Ops, Sleep(c, o) PROVE Armed' /\ Timed'
  <2>1. PICK deadline \in Int : timers' = timers \cup {<<o, deadline>>}
    BY <1>5, BoundsAssumption DEF Sleep, Typed, TypeOK, WorldTypes
  <2>2. \A t \in timers : t[1] \in Ops \ {o}
    BY <1>5 DEF Sleep, NewFuture, Typed, TypeOK, OpTypes, Timed
  <2>3. state'[o] = "pending" /\ kind'[o] = "sleep"
        /\ \A x \in Ops \ {o} : state'[x] = state[x] /\ kind'[x] = kind[x]
    BY <1>5 DEF Sleep, NewFuture, Typed, TypeOK, FutureTypes, OpTypes
  <2>4. Timed'
    BY <2>1, <2>2, <2>3 DEF Timed
  <2>5. Armed'
    BY <1>5, <2>3 DEF Sleep, NewFuture, Typed, TypeOK, FdTypes, Armed
  <2>q. QED
    BY <2>4, <2>5
<1>6. ASSUME NEW c \in Coros, NEW o \in Ops, Connect(c, o) PROVE Armed' /\ Timed'
  BY <1>6 DEF Connect, NewFuture, Watch, SocketKinds, Typed, TypeOK, FutureTypes, OpTypes,
              FdTypes, Armed, Timed
<1>7. ASSUME NEW c \in Coros, NEW o \in Ops, NEW d \in Fds,
             NEW k \in {"accept", "read", "write"}, Begin(c, o, d, k)
      PROVE  Armed' /\ Timed'
  <2>1. /\ state[o] = "none" /\ UNCHANGED <<timers, pc, events>>
        /\ kind' = [kind EXCEPT ![o] = k] /\ fdOf' = [fdOf EXCEPT ![o] = d]
    BY <1>7 DEF Begin
  <2>2. /\ kind'[o] = k /\ k \in SocketKinds /\ fdOf'[o] = d
        /\ \A x \in Ops \ {o} : kind'[x] = kind[x] /\ fdOf'[x] = fdOf[x]
    BY <2>1 DEF Typed, TypeOK, OpTypes, SocketKinds
  <2>3. \A x \in Ops \ {o} : state'[x] = state[x]
    BY <1>7 DEF Begin, NewFuture, Typed, TypeOK, FutureTypes
  <2>4. Timed'
    BY <2>1, <2>2, <2>3 DEF Timed, Typed, TypeOK, OpTypes
  <2>5. CASE d \in open /\ Watch(d, o, k) /\ UNCHANGED open /\ NewFuture(o, c, "pending")
    <3>1. state'[o] = "pending"
      BY <2>5 DEF NewFuture, Typed, TypeOK, FutureTypes
    <3>q. QED
      BY <2>1, <2>2, <2>3, <2>4, <2>5, <3>1 DEF Watch, Typed, TypeOK, FdTypes, Armed
  <2>6. ASSUME NEW answer, OpensOn(k, answer), UNCHANGED <<pending, pendingCount, armed>>
        PROVE  Armed'
    <3>1. open \subseteq open'
      BY <2>6 DEF OpensOn
    <3>q. QED
      BY <2>1, <2>2, <2>3, <2>6, <3>1 DEF Typed, TypeOK, FdTypes, Armed
  <2>q. QED
    BY <1>7, <2>4, <2>5, <2>6 DEF Begin, Answers
<1>8. ASSUME NEW c \in Coros, NEW d \in Fds, Close(c, d) PROVE Armed' /\ Timed'
  BY <1>8, <1>a DEF Close, Unwatch, Shut, SocketKinds, Typed, TypeOK, OpTypes, FdTypes, Armed, Timed
<1>9. ASSUME Resume PROVE Armed' /\ Timed'
  BY <1>9, <1>b DEF Resume
<1>10. ASSUME Prepare PROVE Armed' /\ Timed'
  BY <1>10, <1>c DEF Prepare
<1>11. ASSUME Wait PROVE Armed' /\ Timed'
  BY <1>11 DEF Wait, Typed, TypeOK, FdTypes, Armed, Timed
<1>12. ASSUME NEW d \in Fds, Serve(d) PROVE Armed' /\ Timed'
  BY <1>12, <1>a DEF Serve, Unwatch, Rearm, Shut, OpensOn, SocketKinds, Typed, TypeOK, OpTypes, FdTypes,
                     Armed, Timed
<1>13. ASSUME Expire PROVE Armed' /\ Timed'
  BY <1>13, <1>a DEF Expire, SocketKinds, Typed, TypeOK, OpTypes, FdTypes, Armed, Timed
<1>14. ASSUME EndExpire \/ EndStep \/ Decide PROVE Armed' /\ Timed'
  BY <1>14, <1>c DEF EndExpire, EndStep, Decide
<1>15. ASSUME NEW c \in Coros, Call(c) PROVE Armed' /\ Timed'
  <2>1. \A o \in Ops : state'[o] = state[o]
    BY <1>15 DEF Call, Spawn, NewFuture, Typed, TypeOK, FutureTypes
  <2>q. QED
    BY <1>15, <1>d, <2>1 DEF Call, Spawn
<1>16. ASSUME NEW c \in Coros, StartHanded(c) \/ Collect(c) PROVE Armed' /\ Timed'
  BY <1>16, <1>b DEF StartHanded, Collect
<1>17. ASSUME NEW c \in Coros, Run(c) \/ Poll(c) PROVE Armed' /\ Timed'
  BY <1>17, <1>c DEF Run, Poll
<1>18. ASSUME World \/ Contention PROVE Armed' /\ Timed'
  BY <1>18, <1>b DEF World, Contention, Tick, Supply, Drain
<1>19. CASE UNCHANGED vars
  BY <1>19, <1>b DEF vars
<1>q. QED
  BY <1>1, <1>2, <1>3, <1>4, <1>5, <1>6, <1>7, <1>8, <1>9, <1>10, <1>11, <1>12, <1>13,
     <1>14, <1>15, <1>16, <1>17, <1>18, <1>19
  DEF Next, Uncontended, FrameStep, LoopStep, PythonStep

\* No wakeup is lost at epoll: an operation a descriptor holds is of that open
\* descriptor, and epoll waits for it or has just reported it.
THEOREM Arming == Spec => [](WatchedIsArmed /\ Armed /\ Timed)
<1>1. Init => Armed /\ Timed
  BY DEF Init, Armed, Timed
<1>2. Typed /\ Armed /\ Timed /\ [Next]_vars => (Armed /\ Timed)'
  BY DescriptorStep
<1>3. Armed => WatchedIsArmed
  BY DEF Armed, WatchedIsArmed
<1>q. QED
  BY <1>1, <1>2, <1>3, Typing, PTL DEF Spec

-----------------------------------------------------------------------------
(* One operation a descriptor. *)

LEMMA WatchedStep ==
    ASSUME ~Duplex, Typed, Armed, Timed, Watched, Exact, [Next]_vars
    PROVE  Watched' /\ Exact'
<1> USE SetsAssumption DEF Futures
<1> DEFINE Kept == UNCHANGED <<kind, fdOf, timers, fdVars>>
<1>a. ASSUME NEW f \in Futures, NEW s \in {"done", "failed"}, Settle(f, s)
      PROVE  /\ \A g \in Futures : g # f => state'[g] = state[g]
             /\ state[f] = "pending" => state'[f] = s
  BY <1>a, SettleFacts DEF Typed, TypeOK
<1>b. ASSUME Kept, \A o \in Ops : state'[o] = state[o] PROVE Watched' /\ Exact'
  BY <1>b DEF Watched, Exact, Pended, fdVars
<1>c. ASSUME UNCHANGED <<pending, pendingCount>> PROVE Exact'
  BY <1>c DEF Exact, Pended
<1>d. ASSUME NEW d \in Fds, NEW o \in Ops, NEW k, Watch(d, o, k), pending[d] = NoOne
      PROVE  Exact'
  BY <1>d, CountUp DEF Typed, TypeOK
<1>e. ASSUME NEW d \in Fds, pending[d] # NoOne, Unwatch(d) PROVE Exact'
  BY <1>e, CountDown DEF Typed, TypeOK
<1> USE DEF fdVars, loopVars, opVars, frameVars, futureVars, worldVars
<1>1. ASSUME NEW c \in Coros, NEW d \in Coros, CreateChild(c, d) PROVE Watched' /\ Exact'
  <2>1. \A o \in Ops : state'[o] = state[o]
    BY <1>1 DEF CreateChild, Spawn, NewFuture, Typed, TypeOK, FutureTypes
  <2>q. QED
    BY <1>1, <1>b, <2>1 DEF CreateChild
<1>2. ASSUME NEW c \in Coros, NEW d \in Coros, StartChild(c, d) PROVE Watched' /\ Exact'
  BY <1>2, <1>b DEF StartChild
<1>3. ASSUME NEW c \in Coros, NEW f \in Futures, Await(c, f) PROVE Watched' /\ Exact'
  BY <1>3, <1>b DEF Await
<1>4. ASSUME NEW c \in Coros, Complete(c) \/ Fail(c) PROVE Watched' /\ Exact'
  <2>1. \A o \in Ops : state'[o] = state[o]
    BY <1>4, <1>a DEF Complete, Fail, Finish
  <2>q. QED
    BY <1>4, <1>b, <2>1 DEF Complete, Fail, Finish
<1>5. ASSUME NEW c \in Coros, NEW o \in Ops, Sleep(c, o) PROVE Watched' /\ Exact'
  <2>1. PICK deadline \in Int : timers' = timers \cup {<<o, deadline>>}
    BY <1>5, BoundsAssumption DEF Sleep, Typed, TypeOK, WorldTypes
  <2>2. kind'[o] = "sleep" /\ \A x \in Ops \ {o} : state'[x] = state[x] /\ kind'[x] = kind[x]
    BY <1>5 DEF Sleep, NewFuture, Typed, TypeOK, FutureTypes, OpTypes
  <2>3. <<o, deadline>> \in timers' /\ <<o, deadline>>[1] = o /\ timers \subseteq timers'
    BY <2>1
  <2>4. Watched'
    BY <1>5, <2>2, <2>3 DEF Sleep, Watched
  <2>q. QED
    BY <1>5, <1>c, <2>4 DEF Sleep
<1>6. ASSUME NEW c \in Coros, NEW o \in Ops, Connect(c, o) PROVE Watched' /\ Exact'
  <2>1. kind'[o] = "connect" /\ \A x \in Ops \ {o} : state'[x] = state[x] /\ kind'[x] = kind[x]
    BY <1>6 DEF Connect, NewFuture, Typed, TypeOK, FutureTypes, OpTypes
  <2>2. CASE NewFuture(o, c, "done") /\ UNCHANGED <<fdOf, fdVars>>
    <3>1. state'[o] = "done"
      BY <2>2 DEF NewFuture, Typed, TypeOK, FutureTypes
    <3>q. QED
      BY <1>6, <1>c, <2>1, <2>2, <3>1 DEF Connect, Watched
  <2>3. ASSUME NEW d \in Fds \ open, fdOf' = [fdOf EXCEPT ![o] = d], Watch(d, o, "connect")
        PROVE  Watched' /\ Exact'
    <3>1. pending[d] = NoOne
      BY <2>3 DEF Armed
    <3>2. fdOf'[o] = d /\ pending'[d] = o
          /\ \A x \in Ops \ {o} : fdOf'[x] = fdOf[x]
          /\ \A e \in Fds \ {d} : pending'[e] = pending[e]
      BY <2>3 DEF Watch, Typed, TypeOK, OpTypes, FdTypes
    <3>3. Watched'
      BY <1>6, <2>1, <3>1, <3>2 DEF Connect, Watched, SocketKinds
    <3>q. QED
      BY <1>d, <2>3, <3>1, <3>3
  <2>q. QED
    BY <1>6, <2>2, <2>3 DEF Connect
<1>7. ASSUME NEW c \in Coros, NEW o \in Ops, NEW d \in Fds,
             NEW k \in {"accept", "read", "write"}, Begin(c, o, d, k)
      PROVE  Watched' /\ Exact'
  <2>1. kind'[o] = k /\ fdOf'[o] = d
        /\ \A x \in Ops \ {o} : state'[x] = state[x] /\ kind'[x] = kind[x] /\ fdOf'[x] = fdOf[x]
    BY <1>7 DEF Begin, NewFuture, Typed, TypeOK, FutureTypes, OpTypes
  <2>2. Outstanding(d) = {}
    BY <1>7 DEF Begin, MayUse
  <2>3. CASE Watch(d, o, k)
    <3>1. pending[d] = NoOne
      BY <2>2 DEF Outstanding, Armed, Typed, TypeOK, FdTypes
    <3>2. pending'[d] = o /\ \A e \in Fds \ {d} : pending'[e] = pending[e]
      BY <2>3 DEF Watch, Typed, TypeOK, FdTypes
    <3>3. Watched'
      BY <1>7, <2>1, <3>1, <3>2 DEF Begin, Watched, SocketKinds
    <3>q. QED
      BY <1>d, <2>3, <3>1, <3>3
  <2>4. CASE NewFuture(o, c, "done") /\ UNCHANGED <<pending, pendingCount, armed>>
    <3>1. state'[o] = "done"
      BY <2>4 DEF NewFuture, Typed, TypeOK, FutureTypes
    <3>q. QED
      BY <1>7, <1>c, <2>1, <2>4, <3>1 DEF Begin, Watched
  <2>q. QED
    BY <1>7, <2>3, <2>4 DEF Begin
<1>8. ASSUME NEW c \in Coros, NEW d \in Fds, Close(c, d) PROVE Watched' /\ Exact'
  <2>1. CASE pending[d] = NoOne
    BY <1>8, <1>b, <2>1 DEF Close, Watched, Exact, Pended
  <2>2. CASE pending[d] # NoOne
    <3>1. /\ Unwatch(d) /\ pending[d] \in Ops /\ state'[pending[d]] = "done"
          /\ \A x \in Ops \ {pending[d]} : state'[x] = state[x]
          /\ UNCHANGED <<kind, fdOf, timers>>
      BY <1>8, <1>a, <2>2 DEF Close, Armed, Typed, TypeOK, FdTypes
    <3>2. \A e \in Fds \ {d} : pending'[e] = pending[e]
      BY <3>1 DEF Unwatch, Typed, TypeOK, FdTypes
    <3>q. QED
      BY <1>e, <2>2, <3>1, <3>2 DEF Watched
  <2>q. QED
    BY <2>1, <2>2
<1>9. ASSUME Resume \/ Prepare \/ EndExpire \/ EndStep \/ Decide PROVE Watched' /\ Exact'
  BY <1>9, <1>b DEF Resume, Prepare, EndExpire, EndStep, Decide
<1>10. ASSUME Wait PROVE Watched' /\ Exact'
  BY <1>10, <1>c DEF Wait, Watched
<1>11. ASSUME NEW d \in Fds, Serve(d) PROVE Watched' /\ Exact'
  <2>1. CASE UNCHANGED <<pending, pendingCount, state>>
    BY <1>11, <1>c, <2>1 DEF Serve, Watched
  <2>2. CASE pending[d] # NoOne /\ Unwatch(d) /\ Settle(pending[d], "done")
    <3>1. /\ pending[d] \in Ops /\ state'[pending[d]] = "done"
          /\ \A x \in Ops \ {pending[d]} : state'[x] = state[x]
          /\ UNCHANGED <<kind, fdOf, timers>>
      BY <1>11, <1>a, <2>2 DEF Serve, Armed, Typed, TypeOK, FdTypes
    <3>2. \A e \in Fds \ {d} : pending'[e] = pending[e]
      BY <2>2 DEF Unwatch, Typed, TypeOK, FdTypes
    <3>q. QED
      BY <1>e, <2>2, <3>1, <3>2 DEF Watched
  <2>q. QED
    BY <1>11, <2>1, <2>2 DEF Serve, Rearm
<1>12. ASSUME Expire PROVE Watched' /\ Exact'
  <2>1. PICK t \in timers : timers' = timers \ {t} /\ Settle(t[1], "done")
    BY <1>12 DEF Expire
  <2>2. t[1] \in Ops /\ state'[t[1]] = "done" /\ \A x \in Ops \ {t[1]} : state'[x] = state[x]
    BY <1>a, <2>1 DEF Timed, Typed, TypeOK, OpTypes
  <2>q. QED
    BY <1>12, <1>c, <2>1, <2>2 DEF Expire, Watched
<1>13. ASSUME NEW c \in Coros, Call(c) PROVE Watched' /\ Exact'
  <2>1. \A o \in Ops : state'[o] = state[o]
    BY <1>13 DEF Call, Spawn, NewFuture, Typed, TypeOK, FutureTypes
  <2>q. QED
    BY <1>13, <1>b, <2>1 DEF Call
<1>14. ASSUME NEW c \in Coros, StartHanded(c) \/ Run(c) \/ Poll(c) \/ Collect(c)
       PROVE  Watched' /\ Exact'
  BY <1>14, <1>b DEF StartHanded, Run, Poll, Collect
<1>15. ASSUME World \/ Contention PROVE Watched' /\ Exact'
  BY <1>15, <1>b DEF World, Contention, Tick, Supply, Drain
<1>16. CASE UNCHANGED vars
  BY <1>16, <1>b DEF vars
<1>q. QED
  BY <1>1, <1>2, <1>3, <1>4, <1>5, <1>6, <1>7, <1>8, <1>9, <1>10, <1>11, <1>12, <1>13,
     <1>14, <1>15, <1>16
  DEF Next, Uncontended, FrameStep, LoopStep, PythonStep

\* A program that has one operation a descriptor: pending_count, which tells the loop
\* whether anything can come, is the number of descriptors with an operation.
THEOREM Counting == ASSUME ~Duplex PROVE Spec => [](PendingCountExact /\ Watched /\ Exact)
<1>1. Init => Watched /\ Exact
  <2> SUFFICES ASSUME Init PROVE Watched /\ Exact
    OBVIOUS
  <2>1. Pended = {}
    BY DEF Init, Pended
  <2>q. QED
    BY <2>1, FS_EmptySet DEF Init, Watched, Exact, Futures
<1>2. Typed /\ Armed /\ Timed /\ Watched /\ Exact /\ [Next]_vars => (Watched /\ Exact)'
  BY WatchedStep
<1>3. Exact => PendingCountExact
  BY DEF Exact, Pended, PendingCountExact
<1>q. QED
  BY <1>1, <1>2, <1>3, Typing, Arming, PTL DEF Spec

-----------------------------------------------------------------------------
(* Frames and the futures they hold, await or free. *)

LEMMA AppendOnce ==
    ASSUME ready \in Seq(Coros), NEW c \in Coros, Once, ~Queued(c), ready' = Append(ready, c)
    PROVE  Once' /\ \A x \in Coros : Queued(x)' <=> Queued(x) \/ x = c
<1>1. Len(ready') = Len(ready) + 1 /\ ready'[Len(ready) + 1] = c
      /\ DOMAIN ready' = 1 .. Len(ready) + 1 /\ DOMAIN ready = 1 .. Len(ready)
      /\ \A i \in 1 .. Len(ready) : ready'[i] = ready[i]
  OBVIOUS
<1>2. Len(ready) \in Nat
  OBVIOUS
<1>3. Once'
  BY <1>1, <1>2 DEF Once, Queued
<1>4. ASSUME NEW x \in Coros PROVE Queued(x)' <=> Queued(x) \/ x = c
  BY <1>1, <1>2 DEF Queued
<1>q. QED
  BY <1>3, <1>4

LEMMA TailOnce ==
    ASSUME ready \in Seq(Coros), ready # <<>>, Once, ready' = Tail(ready)
    PROVE  /\ Once' /\ Head(ready) \in Coros /\ Queued(Head(ready))
           /\ \A x \in Coros : Queued(x)' <=> Queued(x) /\ x # Head(ready)
<1>1. /\ Len(ready) \in Nat \ {0} /\ Head(ready) = ready[1] /\ DOMAIN ready = 1 .. Len(ready)
      /\ Len(ready') = Len(ready) - 1 /\ DOMAIN ready' = 1 .. Len(ready) - 1
      /\ \A i \in 1 .. Len(ready) - 1 : ready'[i] = ready[i + 1]
  OBVIOUS
<1>2. Head(ready) \in Coros /\ Queued(Head(ready))
  BY <1>1 DEF Queued
<1>3. Once'
  BY <1>1 DEF Once
<1>4. ASSUME NEW x \in Coros PROVE Queued(x)' <=> Queued(x) /\ x # Head(ready)
  <2>1. ASSUME NEW i \in 1 .. Len(ready) - 1, ready'[i] = x
        PROVE  ready[i + 1] = x /\ i + 1 \in DOMAIN ready /\ x # ready[1]
    BY <1>1, <2>1 DEF Once
  <2>2. ASSUME NEW i \in 1 .. Len(ready), ready[i] = x, x # ready[1]
        PROVE  i - 1 \in 1 .. Len(ready) - 1 /\ ready'[i - 1] = x
    BY <1>1, <2>2
  <2>q. QED
    BY <1>1, <2>1, <2>2 DEF Queued
<1>q. QED
  BY <1>2, <1>3, <1>4

\* A future comes to be: an operation's, or that of a frame just made.
LEMMA MadeOne ==
    ASSUME Typed, Owns, NEW f \in Futures, NEW who \in Coros \cup {Python}, NEW s,
           NewFuture(f, who, s), who # f, f \in Ops \/ s = "pending",
           frames' = IF f \in Coros THEN frames \cup {f} ELSE frames,
           UNCHANGED <<waiters, released, started, awaiting, ready, running, outcome>>
    PROVE  Owns'
<1> USE SetsAssumption DEF Futures, Typed, TypeOK, FutureTypes, FrameTypes, Owns
<1>1. /\ state[f] = "none" /\ state'[f] = s /\ holder'[f] = who
      /\ \A g \in Futures \ {f} : state'[g] = state[g] /\ holder'[g] = holder[g]
  BY DEF NewFuture
<1>2. Framed'
  BY <1>1 DEF Framed, Settled
<1>3. f \notin started /\ \A c \in Coros : Suspended(c)' <=> Suspended(c)
  <2>1. f \notin started
    BY ONLY <1>1, Framed DEF Framed
  <2>2. ASSUME NEW c \in Coros PROVE (c \in frames' \cap started) <=> (c \in frames \cap started)
    BY ONLY <2>1, frames' = IF f \in Coros THEN frames \cup {f} ELSE frames
  <2>q. QED
    BY ONLY <2>1, <2>2, UNCHANGED <<started, running>> DEF Suspended
<1>4. Once' /\ InQueue'
  BY <1>1, <1>3 DEF Once, InQueue, Queued, Settled
<1>5. \A c \in Coros, g \in Futures : Waits(c, g) => Waits(c, g)'
  BY <1>1 DEF Waits
<1>6. \A c \in Coros : Queued(c)' <=> Queued(c)
  BY DEF Queued
<1>7. InWaiting' /\ Somewhere'
  BY <1>3, <1>5, <1>6 DEF InWaiting, Somewhere
<1>8. \A c \in frames' : awaiting[c] # NoOne =>
        c \in frames /\ awaiting[c] \in Futures \ {f}
  <2>1. f \in Coros => awaiting[f] = NoOne
    BY <1>3 DEF Framed
  <2>q. QED
    BY <1>1, <2>1 DEF Owned
<1>9. Owned'
  BY <1>1, <1>8 DEF Owned
<1>10. f \notin released /\ NoOne \notin released
  BY <1>1 DEF Freed, Settled
<1>11. Freed'
  <2>1. \A g \in released : g \in Futures \ {f}
    BY <1>10
  <2>2. \A c \in frames' : awaiting[c] \notin released
    BY <1>8, <1>10 DEF Freed
  <2>q. QED
    BY <1>1, <2>1, <2>2 DEF Freed, Settled
<1>q. QED
  BY <1>2, <1>4, <1>7, <1>9, <1>11

\* A frame is scheduled for the first time.
LEMMA StartedOne ==
    ASSUME Typed, Owns, NEW f \in Futures, Start(f), state[f] # "none",
           UNCHANGED <<futureVars, frames, awaiting, running, outcome>>
    PROVE  Owns'
<1> USE DEF Typed, TypeOK, FutureTypes, FrameTypes, Owns, futureVars
<1>1. CASE f \in Coros \ started
  <2>1. started' = started \cup {f} /\ ready' = Append(ready, f)
    BY <1>1 DEF Start
  <2>2. f \in frames /\ awaiting[f] = NoOne /\ running # f
    <3>1. state[f] \in {"none", "pending", "done", "failed"} /\ ~Settled(f)
      BY <1>1 DEF Framed
    <3>2. state[f] = "pending" /\ awaiting[f] = NoOne /\ f \in Coros /\ f \notin started
      BY <1>1, <3>1 DEF Settled, Framed
    <3>3. f # NoOne
      BY SetsAssumption, <1>1
    <3>q. QED
      BY <3>2, <3>3 DEF Framed
  <2>3. ~Suspended(f) /\ ~Queued(f)
    BY <1>1 DEF Suspended, InQueue
  <2>4. Once' /\ \A x \in Coros : Queued(x)' <=> Queued(x) \/ x = f
    BY <1>1, <2>1, <2>3, AppendOnce
  <2>5. \A c \in Coros : Suspended(c)' <=> Suspended(c) \/ c = f
    BY <1>1, <2>1, <2>2 DEF Suspended
  <2>6. Framed' /\ InQueue'
    BY <1>1, <2>1, <2>2, <2>4, <2>5 DEF Framed, InQueue, Settled
  <2>7. InWaiting' /\ Somewhere'
    BY <2>3, <2>4, <2>5 DEF InWaiting, Somewhere, Waits
  <2>q. QED
    BY <2>4, <2>6, <2>7 DEF Owned, Freed, Settled
<1>2. CASE f \notin Coros \ started
  <2>1. UNCHANGED <<started, ready>>
    BY <1>2 DEF Start
  <2>q. QED
    BY <2>1 DEF Framed, Once, InQueue, InWaiting, Somewhere, Owned, Freed, Suspended, Queued,
                Waits, Settled
<1>q. QED
  BY <1>1, <1>2

\* A future settles and the frame that waits for it, if any, is scheduled: the future
\* of an operation, or that of the running frame, which is freed.
LEMMA WokenOne ==
    ASSUME Typed, Owns, NEW f \in Futures, NEW s \in {"done", "failed"}, Settle(f, s),
           state[f] = "pending",
           \/ f \in Ops /\ UNCHANGED <<frames, running>>
           \/ f \in Coros /\ running = f /\ frames' = frames \ {f} /\ running' = NoOne,
           UNCHANGED <<holder, released, started, awaiting, outcome>>
    PROVE  Owns'
<1> USE SetsAssumption DEF Futures, Owns
<1> USE DEF Typed, TypeOK, FutureTypes, FrameTypes
<1>1. /\ state'[f] = s /\ waiters'[f] = <<>> /\ ready' = ready \o waiters[f]
      /\ \A g \in Futures \ {f} : state'[g] = state[g] /\ waiters'[g] = waiters[g]
  BY DEF Settle
<1>2. Framed'
  <2>1. CASE f \in Ops /\ UNCHANGED <<frames, running>>
    <3>1. \A c \in Coros : state'[c] = state[c]
      BY <1>1, <2>1
    <3>q. QED
      BY <2>1, <3>1 DEF Framed, Settled
  <2>2. CASE f \in Coros /\ running = f /\ frames' = frames \ {f} /\ running' = NoOne
    <3>1. f \in started
      BY <2>2 DEF Framed
    <3>2. \A c \in Coros \ {f} : state'[c] = state[c]
      BY <1>1
    <3>q. QED
      BY <1>1, <2>2, <3>1, <3>2 DEF Framed, Settled
  <2>q. QED
    BY <2>1, <2>2
<1>3. \A c \in Coros : Suspended(c)' <=> Suspended(c)
  BY DEF Suspended, Framed
<1>4. \A g \in Futures : Settled(g) => Settled(g)'
  BY <1>1 DEF Settled
<1>5. Owned' /\ Freed'
  <2>1. frames' \subseteq frames /\ \A g \in Futures : state[g] # "none" => state'[g] # "none"
    BY <1>1
  <2>2. Owned'
    BY <2>1 DEF Owned
  <2>3. Freed'
    BY <1>4, <2>1 DEF Freed
  <2>q. QED
    BY <2>2, <2>3
<1>6. CASE waiters[f] = <<>>
  <2>1. ready' = ready
    BY <1>1, <1>6
  <2>2. \A c \in Coros : Queued(c)' <=> Queued(c)
    BY <2>1 DEF Queued
  <2>3. \A c \in Coros, g \in Futures : Waits(c, g) => g # f /\ Waits(c, g)'
    <3>1. \A c \in Coros : <<c>> # <<>>
      OBVIOUS
    <3>q. QED
      BY <1>1, <1>6, <3>1 DEF Waits
  <2>4. InQueue' /\ Once'
    BY <1>3, <1>4, <2>1, <2>2 DEF InQueue, Once
  <2>5. InWaiting' /\ Somewhere'
    BY <1>1, <1>3, <2>2, <2>3 DEF InWaiting, Somewhere
  <2>q. QED
    BY <1>2, <1>5, <2>4, <2>5
<1>7. CASE waiters[f] # <<>>
  <2>1. PICK x \in Coros : Suspended(x) /\ ~Queued(x) /\ Waits(x, f)
    BY <1>7 DEF InWaiting
  <2>2. ready' = Append(ready, x)
    BY <1>1, <2>1 DEF Waits
  <2>3. Once' /\ \A c \in Coros : Queued(c)' <=> Queued(c) \/ c = x
    BY <2>1, <2>2, AppendOnce
  <2>4. \A c \in Coros, g \in Futures \ {f} : Waits(c, g) => c # x /\ Waits(c, g)'
    BY <1>1, <2>1 DEF Waits
  <2>5. InQueue'
    BY <1>1, <1>3, <1>4, <2>1, <2>3 DEF InQueue, Waits, Settled
  <2>6. InWaiting'
    BY <1>1, <1>3, <2>3, <2>4 DEF InWaiting
  <2>7. \A c \in Coros : Waits(c, f) => c = x
    BY <2>1 DEF Waits
  <2>8. Somewhere'
    BY <1>3, <2>3, <2>4, <2>7 DEF Somewhere
  <2>q. QED
    BY <1>2, <1>5, <2>3, <2>5, <2>6, <2>8
<1>q. QED
  BY <1>6, <1>7

\* The running frame awaits a future only it holds, so nobody else waits for it.
LEMMA AwaitStep ==
    ASSUME Typed, Owns, NEW c \in Coros, NEW f \in Futures, Await(c, f)
    PROVE  Owns'
<1> USE SetsAssumption DEF Futures, Owns
<1> USE DEF Typed, TypeOK, FutureTypes, FrameTypes
<1>1. /\ running = c /\ holder[f] = c /\ c \in frames /\ c \in started /\ f # c
      /\ state[f] # "none" /\ c # Python /\ c # NoOne
  BY PythonAssumption DEF Await, Holds, Framed, Owned, Held
<1>2. /\ awaiting'[c] = f /\ holder'[f] = NoOne /\ running' = NoOne
      /\ \A d \in Coros \ {c} : awaiting'[d] = awaiting[d]
      /\ \A g \in Futures \ {f} : holder'[g] = holder[g]
      /\ UNCHANGED <<state, released, frames, outcome>>
  BY DEF Await
<1>3. ~Suspended(c) /\ ~Queued(c) /\ awaiting[c] = NoOne
  BY <1>1 DEF Suspended, InQueue, Framed
<1>4. \A d \in frames : awaiting[d] # f
  BY <1>1 DEF Owned
<1>5. waiters[f] = <<>>
  <2>1. ASSUME NEW d \in Coros, Suspended(d), Waits(d, f) PROVE FALSE
    BY <1>4, <2>1 DEF Suspended, Waits
  <2>q. QED
    BY <2>1 DEF InWaiting
<1>6. Owned'
  <2>1. \A g \in Futures : holder'[g] # g
    BY <1>2 DEF Owned
  <2>2. \A d \in frames \ {c} : awaiting[d] # NoOne =>
          holder'[awaiting[d]] = NoOne /\ awaiting[d] \in Futures \ {f}
    BY <1>2, <1>4 DEF Owned
  <2>3. \A d \in frames \ {c} : d \in Coros /\ awaiting'[d] = awaiting[d]
    BY <1>2
  <2>4. \A d \in frames : awaiting'[d] # NoOne =>
          holder'[awaiting'[d]] = NoOne /\ state'[awaiting'[d]] # "none"
    <3>1. holder'[awaiting'[c]] = NoOne /\ state'[awaiting'[c]] # "none"
      BY <1>1, <1>2
    <3>2. \A d \in frames \ {c} : awaiting[d] # NoOne => state[awaiting[d]] # "none"
      BY DEF Owned
    <3>q. QED
      BY <1>2, <2>2, <2>3, <3>1, <3>2
  <2>5. \A d, e \in frames : awaiting'[d] = awaiting'[e] /\ awaiting'[d] # NoOne => d = e
    <3> SUFFICES ASSUME NEW d \in frames, NEW e \in frames, awaiting'[d] = awaiting'[e],
                        awaiting'[d] # NoOne
                 PROVE  d = e
      OBVIOUS
    <3>1. CASE d # c /\ e # c
      BY <2>3, <3>1 DEF Owned
    <3>2. CASE d = c \/ e = c
      BY <1>2, <1>4, <2>3, <3>2
    <3>q. QED
      BY <3>1, <3>2
  <2>q. QED
    BY <1>2, <2>1, <2>4, <2>5 DEF Owned
<1>7. Freed'
  <2>1. f \notin released
    BY <1>1 DEF Freed
  <2>q. QED
    BY <1>2, <2>1 DEF Freed, Settled
<1>8. CASE Settled(f)
  <2>1. ready' = Append(ready, c) /\ UNCHANGED <<waiters, started>>
    BY <1>8 DEF Await
  <2>2. Once' /\ \A x \in Coros : Queued(x)' <=> Queued(x) \/ x = c
    BY <1>3, <2>1, AppendOnce
  <2>3. \A x \in Coros : Suspended(x)' <=> Suspended(x) \/ x = c
    BY <1>1, <1>2, <2>1 DEF Suspended
  <2>4. Framed'
    BY <1>1, <1>2, <2>1 DEF Framed, Settled
  <2>5. InQueue'
    BY <1>2, <1>3, <1>8, <2>2, <2>3 DEF InQueue, Settled
  <2>6. \A x \in Coros \ {c}, g \in Futures : Waits(x, g) => Waits(x, g)'
    BY <1>2, <2>1 DEF Waits
  <2>7. InWaiting'
    <3> SUFFICES ASSUME NEW g \in Futures, waiters'[g] # <<>>
                 PROVE  \E x \in Coros : Suspended(x)' /\ ~Queued(x)' /\ Waits(x, g)'
      BY DEF InWaiting
    <3>1. PICK x \in Coros : Suspended(x) /\ ~Queued(x) /\ Waits(x, g)
      BY <2>1 DEF InWaiting
    <3>q. QED
      BY <1>3, <2>2, <2>3, <2>6, <3>1
  <2>8. Somewhere'
    <3> SUFFICES ASSUME NEW x \in Coros, Suspended(x)', ~Queued(x)'
                 PROVE  \E g \in Futures : Waits(x, g)'
      BY DEF Somewhere
    <3>1. x # c /\ \E g \in Futures : Waits(x, g)
      BY <2>2, <2>3 DEF Somewhere
    <3>q. QED
      BY <2>6, <3>1
  <2>q. QED
    BY <1>6, <1>7, <2>2, <2>4, <2>5, <2>7, <2>8
<1>9. CASE ~Settled(f)
  <2>1. state[f] = "pending"
    BY <1>1, <1>9 DEF Settled
  <2>2. waiters' = [waiters EXCEPT ![f] = Append(@, c)] /\ Start(f)
    BY <1>9 DEF Await
  <2>3. waiters'[f] = <<c>> /\ \A g \in Futures \ {f} : waiters'[g] = waiters[g]
    BY <1>5, <2>2
  <2>4. Waits(c, f)' /\ \A x \in Coros \ {c}, g \in Futures \ {f} : Waits(x, g) => Waits(x, g)'
    BY <1>2, <2>1, <2>3 DEF Waits
  <2>5. \A x \in Coros \ {c} : Suspended(x) => ~Waits(x, f)
    BY <1>4 DEF Suspended, Waits
  <2>6. CASE f \in Coros \ started
    <3>1. started' = started \cup {f} /\ ready' = Append(ready, f)
      BY <2>2, <2>6 DEF Start
    <3>2. ~Suspended(f) /\ ~Queued(f) /\ awaiting[f] = NoOne /\ f \in frames
      BY <2>1, <2>6 DEF Suspended, InQueue, Framed
    <3>3. Once' /\ \A x \in Coros : Queued(x)' <=> Queued(x) \/ x = f
      BY <2>6, <3>1, <3>2, AppendOnce
    <3>4. \A x \in Coros : Suspended(x)' <=> Suspended(x) \/ x = c \/ x = f
      BY <1>1, <1>2, <2>6, <3>1, <3>2 DEF Suspended
    <3>5. Framed'
      BY <1>1, <1>2, <2>1, <2>6, <3>1 DEF Framed, Settled
    <3>6. InQueue'
      BY <1>1, <1>2, <1>3, <2>6, <3>2, <3>3, <3>4 DEF InQueue, Settled
    <3>7. InWaiting'
      <4> SUFFICES ASSUME NEW g \in Futures, waiters'[g] # <<>>
                   PROVE  \E x \in Coros : Suspended(x)' /\ ~Queued(x)' /\ Waits(x, g)'
        BY DEF InWaiting
      <4>1. CASE g = f
        BY <1>1, <1>3, <2>4, <3>3, <3>4, <4>1
      <4>2. CASE g # f
        <5>1. PICK x \in Coros : Suspended(x) /\ ~Queued(x) /\ Waits(x, g)
          BY <2>3, <4>2 DEF InWaiting
        <5>q. QED
          BY <1>3, <2>4, <3>2, <3>3, <3>4, <4>2, <5>1
      <4>q. QED
        BY <4>1, <4>2
    <3>8. Somewhere'
      <4> SUFFICES ASSUME NEW x \in Coros, Suspended(x)', ~Queued(x)'
                   PROVE  \E g \in Futures : Waits(x, g)'
        BY DEF Somewhere
      <4>1. CASE x = c
        BY <2>4, <4>1
      <4>2. CASE x # c
        <5>1. Suspended(x) /\ \E g \in Futures : Waits(x, g)
          BY <4>2, <3>3, <3>4 DEF Somewhere
        <5>q. QED
          BY <2>4, <2>5, <4>2, <5>1
      <4>q. QED
        BY <4>1, <4>2
    <3>q. QED
      BY <1>6, <1>7, <3>3, <3>5, <3>6, <3>7, <3>8
  <2>7. CASE f \notin Coros \ started
    <3>1. UNCHANGED <<started, ready>>
      BY <2>2, <2>7 DEF Start
    <3>2. \A x \in Coros : Queued(x)' <=> Queued(x)
      BY <3>1 DEF Queued
    <3>3. \A x \in Coros : Suspended(x)' <=> Suspended(x) \/ x = c
      BY <1>1, <1>2, <3>1 DEF Suspended
    <3>4. Framed' /\ Once'
      BY <1>1, <1>2, <3>1 DEF Framed, Once, Settled
    <3>5. InQueue'
      BY <1>2, <1>3, <3>2, <3>3 DEF InQueue, Settled
    <3>6. InWaiting'
      <4> SUFFICES ASSUME NEW g \in Futures, waiters'[g] # <<>>
                   PROVE  \E x \in Coros : Suspended(x)' /\ ~Queued(x)' /\ Waits(x, g)'
        BY DEF InWaiting
      <4>1. CASE g = f
        BY <1>3, <2>4, <3>2, <3>3, <4>1
      <4>2. CASE g # f
        <5>1. PICK x \in Coros : Suspended(x) /\ ~Queued(x) /\ Waits(x, g)
          BY <2>3, <4>2 DEF InWaiting
        <5>q. QED
          BY <1>3, <2>4, <3>2, <3>3, <4>2, <5>1
      <4>q. QED
        BY <4>1, <4>2
    <3>7. Somewhere'
      <4> SUFFICES ASSUME NEW x \in Coros, Suspended(x)', ~Queued(x)'
                   PROVE  \E g \in Futures : Waits(x, g)'
        BY DEF Somewhere
      <4>1. CASE x = c
        BY <2>4, <4>1
      <4>2. CASE x # c
        <5>1. Suspended(x) /\ \E g \in Futures : Waits(x, g)
          BY <4>2, <3>2, <3>3 DEF Somewhere
        <5>q. QED
          BY <2>4, <2>5, <4>2, <5>1
      <4>q. QED
        BY <4>1, <4>2
    <3>q. QED
      BY <1>6, <1>7, <3>4, <3>5, <3>6, <3>7
  <2>q. QED
    BY <2>6, <2>7
<1>q. QED
  BY <1>8, <1>9

\* The head of the ready queue runs and frees the future it awaited, which is its own.
LEMMA ResumeStep ==
    ASSUME Typed, Owns, Resume
    PROVE  Owns'
<1> USE SetsAssumption DEF Futures, Owns
<1> USE DEF Typed, TypeOK, FutureTypes, FrameTypes
<1> DEFINE c == Head(ready)
<1>1. /\ Once' /\ c \in Coros /\ Queued(c)
      /\ \A x \in Coros : Queued(x)' <=> Queued(x) /\ x # c
  BY TailOnce DEF Resume
<1>2. /\ running' = c /\ awaiting' = [awaiting EXCEPT ![c] = NoOne] /\ running = NoOne
      /\ released' = released \/ (awaiting[c] # NoOne /\ released' = released \cup {awaiting[c]})
      /\ UNCHANGED <<state, holder, waiters, frames, started, outcome>>
  BY DEF Resume, Release
<1> HIDE DEF c
<1>3. Suspended(c) /\ c \in frames /\ c \in started /\ (awaiting[c] # NoOne => Settled(awaiting[c]))
  BY <1>1 DEF InQueue, Suspended
<1>4. awaiting'[c] = NoOne /\ \A x \in Coros \ {c} : awaiting'[x] = awaiting[x]
  BY <1>1, <1>2
<1>5. \A x \in Coros : Suspended(x)' <=> Suspended(x) /\ x # c
  BY <1>1, <1>2 DEF Suspended
<1>6. Framed'
  BY <1>2, <1>3, <1>4 DEF Framed, Settled
<1>7. InQueue'
  BY <1>1, <1>2, <1>4, <1>5 DEF InQueue, Settled
<1>8. \A x \in Coros \ {c}, g \in Futures : Waits(x, g) => Waits(x, g)'
  BY <1>2, <1>4 DEF Waits
<1>9. InWaiting' /\ Somewhere'
  <2>1. ASSUME NEW g \in Futures, waiters'[g] # <<>>
        PROVE  \E x \in Coros : Suspended(x)' /\ ~Queued(x)' /\ Waits(x, g)'
    <3>1. PICK x \in Coros : Suspended(x) /\ ~Queued(x) /\ Waits(x, g)
      BY <1>2, <2>1 DEF InWaiting
    <3>q. QED
      BY <1>1, <1>5, <1>8, <3>1
  <2>2. ASSUME NEW x \in Coros, Suspended(x)', ~Queued(x)'
        PROVE  \E g \in Futures : Waits(x, g)'
    <3>1. x # c /\ \E g \in Futures : Waits(x, g)
      BY <1>1, <1>5, <2>2 DEF Somewhere
    <3>q. QED
      BY <1>8, <3>1
  <2>q. QED
    BY <2>1, <2>2 DEF InWaiting, Somewhere
<1>10. Owned'
  BY <1>2, <1>4 DEF Owned
<1>11. Freed'
  <2>1. CASE released' = released
    BY <1>2, <1>4, <2>1 DEF Freed, Settled
  <2>2. CASE awaiting[c] # NoOne /\ released' = released \cup {awaiting[c]}
    <3>1. Settled(awaiting[c]) /\ holder[awaiting[c]] = NoOne
          /\ \A x \in frames \ {c} : awaiting[x] # awaiting[c]
      BY <1>3, <2>2 DEF Owned
    <3>q. QED
      BY PythonAssumption, <1>2, <1>4, <2>2, <3>1 DEF Freed, Settled
  <2>q. QED
    BY <1>2, <2>1, <2>2
<1>q. QED
  BY <1>1, <1>6, <1>7, <1>9, <1>10, <1>11

\* Python is told of a future it holds, and frees it when there is a value.
LEMMA AnswerStep ==
    ASSUME Typed, Owns, NEW f \in Coros, holder[f] = Python, outcome[f] = "none",
           \/ Settled(f) /\ Answer(f)
           \/ UNCHANGED released /\ outcome' = [outcome EXCEPT ![f] = "stuck"],
           UNCHANGED <<state, holder, waiters, frameVars>>
    PROVE  Owns'
<1> USE SetsAssumption, PythonAssumption DEF Futures, Owns
<1> USE DEF Typed, TypeOK, FutureTypes, FrameTypes, WorldTypes
<1>1. f \notin released /\ \A x \in frames : awaiting[x] # f
  BY DEF Freed, Owned
<1>2. \A x \in Coros \ {f} : outcome'[x] = outcome[x]
  BY DEF Answer
<1>3. Freed'
  <2>1. CASE Settled(f) /\ Answer(f)
    <3>1. released' = released \cup {f} /\ outcome'[f] \in {"value", "raised"}
      BY <2>1 DEF Answer, Release
    <3>2. \A g \in released' : Settled(g) /\ holder[g] \in {NoOne, Python}
          /\ (holder[g] = Python => outcome'[g] \in {"value", "raised"})
      <4>1. ASSUME NEW g \in released, holder[g] = Python PROVE outcome'[g] = outcome[g]
        BY <1>1, <1>2, <4>1 DEF Freed
      <4>q. QED
        BY <2>1, <3>1, <4>1 DEF Freed
    <3>q. QED
      BY <1>1, <3>1, <3>2 DEF Freed, Settled, frameVars
  <2>2. CASE UNCHANGED released
    <3>1. \A g \in released : holder[g] = Python => outcome'[g] = outcome[g]
      BY <1>1, <1>2 DEF Freed
    <3>q. QED
      BY <2>2, <3>1 DEF Freed, Settled, frameVars
  <2>q. QED
    BY <2>1, <2>2
<1>q. QED
  BY <1>3 DEF Framed, Once, InQueue, InWaiting, Somewhere, Owned, Suspended, Queued, Waits,
              Settled, frameVars

LEMMA OwnsStep ==
    ASSUME Typed, Armed, Timed, Owns, [Next]_vars
    PROVE  Owns'
<1> USE SetsAssumption, PythonAssumption DEF Futures
<1> USE DEF futureVars, frameVars, opVars, fdVars, loopVars, worldVars
<1>a. ASSUME UNCHANGED <<futureVars, frameVars, outcome>> PROVE Owns'
  BY <1>a DEF Owns, Framed, Once, InQueue, InWaiting, Somewhere, Owned, Freed, Suspended, Queued,
              Waits, Settled
<1>b. ASSUME NEW c \in Coros, running = c PROVE c \in frames /\ state[c] = "pending"
  BY <1>b DEF Owns, Framed
<1>c. ASSUME NEW o \in Ops, state[o] = "pending", Settle(o, "done"),
             UNCHANGED <<holder, released, frames, started, awaiting, running, outcome>>
      PROVE  Owns'
  BY <1>c, WokenOne
<1>d. ASSUME NEW c \in Coros, NEW o \in Ops, NEW s, running = c, NewFuture(o, c, s),
             UNCHANGED <<waiters, released, frameVars, outcome>>
      PROVE  Owns'
  BY <1>d, MadeOne
<1>e. ASSUME NEW c \in Coros, holder[c] = Python \/ holder[c] \in Coros, Start(c),
             UNCHANGED <<futureVars, frames, awaiting, running, outcome>>
      PROVE  Owns'
  <2>1. state[c] # "none"
    BY <1>e DEF Typed, Held
  <2>q. QED
    BY <1>e, <2>1, StartedOne
<1>1. ASSUME NEW c \in Coros, NEW d \in Coros, CreateChild(c, d) PROVE Owns'
  <2>1. NewFuture(d, c, "pending") /\ running = c /\ c # d
    BY <1>1, <1>b DEF CreateChild, Spawn, NewFuture
  <2>q. QED
    BY <1>1, <2>1, MadeOne DEF CreateChild, Spawn
<1>2. ASSUME NEW c \in Coros, NEW d \in Coros, StartChild(c, d) PROVE Owns'
  BY <1>2, <1>e DEF StartChild, Holds
<1>3. ASSUME NEW c \in Coros, NEW f \in Futures, Await(c, f) PROVE Owns'
  BY <1>3, AwaitStep
<1>4. ASSUME NEW c \in Coros, Complete(c) \/ Fail(c) PROVE Owns'
  <2>1. PICK s \in {"done", "failed"} : Finish(c, s)
    BY <1>4 DEF Complete, Fail
  <2>2. running = c /\ state[c] = "pending"
    BY <1>b, <2>1 DEF Finish
  <2>q. QED
    BY <2>1, <2>2, WokenOne DEF Finish
<1>5. ASSUME NEW c \in Coros, NEW o \in Ops, Sleep(c, o) PROVE Owns'
  BY <1>5, <1>d DEF Sleep
<1>6. ASSUME NEW c \in Coros, NEW o \in Ops, Connect(c, o) PROVE Owns'
  BY <1>6, <1>d DEF Connect
<1>7. ASSUME NEW c \in Coros, NEW o \in Ops, NEW d \in Fds,
             NEW k \in {"accept", "read", "write"}, Begin(c, o, d, k)
      PROVE  Owns'
  BY <1>7, <1>d DEF Begin
<1>8. ASSUME NEW c \in Coros, NEW d \in Fds, Close(c, d) PROVE Owns'
  <2>1. CASE pending[d] = NoOne
    BY <1>8, <1>a, <2>1 DEF Close
  <2>2. CASE pending[d] # NoOne
    <3>1. pending[d] \in Ops /\ state[pending[d]] = "pending"
      BY <2>2 DEF Armed, Typed, TypeOK, FdTypes
    <3>q. QED
      BY <1>8, <1>c, <2>2, <3>1 DEF Close
  <2>q. QED
    BY <2>1, <2>2
<1>9. ASSUME Resume PROVE Owns'
  BY <1>9, ResumeStep
<1>10. ASSUME Prepare \/ Wait \/ EndExpire \/ EndStep PROVE Owns'
  BY <1>10, <1>a DEF Prepare, Wait, EndExpire, EndStep
<1>11. ASSUME NEW d \in Fds, Serve(d) PROVE Owns'
  <2>1. CASE UNCHANGED <<state, waiters, ready>>
    BY <1>11, <1>a, <2>1 DEF Serve
  <2>2. CASE pending[d] # NoOne /\ Settle(pending[d], "done")
    <3>1. pending[d] \in Ops /\ state[pending[d]] = "pending"
      BY <2>2 DEF Armed, Typed, TypeOK, FdTypes
    <3>q. QED
      BY <1>11, <1>c, <2>2, <3>1 DEF Serve
  <2>q. QED
    BY <1>11, <2>1, <2>2 DEF Serve
<1>12. ASSUME Expire PROVE Owns'
  <2>1. PICK t \in timers : Settle(t[1], "done")
    BY <1>12 DEF Expire
  <2>2. t[1] \in Ops /\ state[t[1]] = "pending"
    BY <2>1 DEF Timed, Typed, TypeOK, OpTypes
  <2>q. QED
    BY <1>12, <1>c, <2>1, <2>2 DEF Expire
<1>13. ASSUME NEW c \in Coros, Call(c) PROVE Owns'
  <2>1. NewFuture(c, Python, "pending") /\ c # Python
    BY <1>13 DEF Call, Spawn
  <2>q. QED
    BY <1>13, <2>1, MadeOne DEF Call, Spawn
<1>14. ASSUME NEW c \in Coros, StartHanded(c) \/ Run(c) \/ Poll(c) PROVE Owns'
  BY <1>14, <1>e DEF StartHanded, Run, Poll
<1>15. ASSUME NEW c \in Coros, Collect(c) PROVE Owns'
  BY <1>15, AnswerStep DEF Collect
<1>16. ASSUME Decide PROVE Owns'
  <2>1. driver \in Coros /\ holder[driver] = Python /\ outcome[driver] = "none"
    BY <1>16 DEF Decide, Typed, Driven
  <2>2. CASE Settled(driver) /\ Answer(driver)
    BY <1>16, <2>1, <2>2, AnswerStep DEF Decide
  <2>3. CASE outcome' = [outcome EXCEPT ![driver] = "stuck"] /\ UNCHANGED released
    BY <1>16, <2>1, <2>3, AnswerStep DEF Decide
  <2>4. CASE UNCHANGED <<outcome, released>>
    BY <1>16, <1>a, <2>4 DEF Decide
  <2>q. QED
    BY <1>16, <2>2, <2>3, <2>4 DEF Decide
<1>17. ASSUME World \/ Contention PROVE Owns'
  BY <1>17, <1>a DEF World, Contention, Tick, Supply, Drain
<1>18. CASE UNCHANGED vars
  BY <1>18, <1>a DEF vars
<1>q. QED
  BY <1>1, <1>2, <1>3, <1>4, <1>5, <1>6, <1>7, <1>8, <1>9, <1>10, <1>11, <1>12, <1>13,
     <1>14, <1>15, <1>16, <1>17, <1>18
  DEF Next, Uncontended, FrameStep, LoopStep, PythonStep

LEMMA Ownership == Spec => []Owns
<1>1. Init => Owns
  BY SetsAssumption
  DEF Init, Owns, Framed, Once, InQueue, InWaiting, Somewhere, Owned, Freed, Suspended, Queued,
      Settled, Futures
<1>2. Typed /\ Armed /\ Timed /\ Owns /\ [Next]_vars => Owns'
  BY OwnsStep
<1>q. QED
  BY <1>1, <1>2, Typing, Arming, PTL DEF Spec

\* A frame that gave control up is in the ready queue once, or waits once for the one
\* future it awaits; any other frame is nowhere, so none is resumed twice or after it
\* was freed.
THEOREM ResumesOnce == Spec => []ResumedOnce
<1>1. ASSUME TypeOK, Owns PROVE ResumedOnce
  <2> SUFFICES ASSUME NEW c \in Coros
               PROVE  LET queued == Cardinality(Occurrences(c, ready))
                          waiting == {f \in Futures : Occurrences(c, waiters[f]) # {}}
                      IN  IF c \in frames \cap started /\ running # c
                          THEN \/ queued = 1 /\ waiting = {}
                               \/ /\ queued = 0 /\ waiting = {awaiting[c]}
                                  /\ Cardinality(Occurrences(c, waiters[awaiting[c]])) = 1
                                  /\ state[awaiting[c]] = "pending"
                          ELSE queued = 0 /\ waiting = {}
    BY DEF ResumedOnce
  <2> USE <1>1 DEF Owns
  <2> DEFINE queued == Cardinality(Occurrences(c, ready))
             waiting == {f \in Futures : Occurrences(c, waiters[f]) # {}}
  <2>1. ASSUME NEW f \in Futures, NEW x \in Coros, waiters[f] = <<x>>
        PROVE  Occurrences(c, waiters[f]) = IF x = c THEN {1} ELSE {}
    BY <2>1 DEF Occurrences
  <2>2. ASSUME NEW f \in Futures, waiters[f] = <<>> PROVE Occurrences(c, waiters[f]) = {}
    BY <2>2 DEF Occurrences
  <2>3. \A f \in waiting : Suspended(c) /\ ~Queued(c) /\ Waits(c, f)
    <3> SUFFICES ASSUME NEW f \in waiting
                 PROVE  Suspended(c) /\ ~Queued(c) /\ Waits(c, f)
      OBVIOUS
    <3>1. PICK x \in Coros : Suspended(x) /\ ~Queued(x) /\ Waits(x, f)
      BY <2>2 DEF InWaiting
    <3>q. QED
      BY <2>1, <3>1 DEF Waits
  <2>4. ~Queued(c) => queued = 0
    <3>1. ~Queued(c) => Occurrences(c, ready) = {}
      BY DEF Queued, Occurrences
    <3>q. QED
      BY <3>1, FS_EmptySet
  <2>5. Queued(c) => queued = 1
    <3>1. ASSUME Queued(c) PROVE \E i : Occurrences(c, ready) = {i}
      BY <3>1 DEF Queued, Occurrences, Once
    <3>q. QED
      BY <3>1, FS_Singleton
  <2>6. CASE Queued(c)
    <3>1. Suspended(c) /\ waiting = {}
      BY <2>3, <2>6 DEF InQueue
    <3>q. QED
      BY <2>5, <2>6, <3>1 DEF Suspended
  <2>7. CASE ~Queued(c) /\ Suspended(c)
    <3>1. PICK f \in Futures : Waits(c, f)
      BY <2>7 DEF Somewhere
    <3>2. awaiting[c] = f /\ state[f] = "pending" /\ Occurrences(c, waiters[f]) = {1}
      BY <2>1, <3>1 DEF Waits
    <3>3. waiting = {f}
      BY <2>3, <3>2 DEF Waits
    <3>4. Cardinality(Occurrences(c, waiters[f])) = 1
      BY <3>2, FS_Singleton
    <3>q. QED
      BY <2>4, <2>7, <3>2, <3>3, <3>4 DEF Suspended
  <2>8. CASE ~Queued(c) /\ ~Suspended(c)
    BY <2>3, <2>4, <2>8 DEF Suspended
  <2>q. QED
    BY <2>6, <2>7, <2>8
<1>q. QED
  BY <1>1, Typing, Ownership, PTL

\* No future is freed that a live frame, a timer, a descriptor or Python still has.
THEOREM NothingDangles == Spec => []NoDanglingFuture
<1>1. ASSUME Typed, Armed, Timed, Owns PROVE NoDanglingFuture
  <2>1. \A f \in released : f \in Futures /\ state[f] # "pending"
    BY <1>1 DEF Typed, TypeOK, FutureTypes, Owns, Freed, Settled
  <2>2. \A d \in Fds : pending[d] \notin released
    BY SetsAssumption, <1>1, <2>1 DEF Armed, Futures
  <2>q. QED
    BY <1>1, <2>1, <2>2 DEF Owns, Freed, Timed, NoDanglingFuture
<1>q. QED
  BY <1>1, Typing, Arming, Ownership, PTL

\* A program that has one operation a descriptor: whatever is waited for has the frame,
\* the timer or the descriptor that will settle it.
THEOREM Causes == ASSUME ~Duplex PROVE Spec => []EveryWaitHasACause
<1>1. Owns /\ Watched => EveryWaitHasACause
  BY DEF Owns, Framed, Watched, EveryWaitHasACause, Futures
<1>q. QED
  BY <1>1, Ownership, Counting, PTL

-----------------------------------------------------------------------------
(* The loop gives up on nobody. *)

\* What the loop runs for was started, as is every coroutine that is awaited; and
\* where it says that nothing can come, nothing is ready, timed or counted.
Led ==
    /\ IsFiniteSet(frames)
    /\ ~more => /\ pc = "while" /\ running = NoOne /\ ready = <<>>
                /\ timers = {} /\ pendingCount = 0
    /\ pc # "python" => driver \in started
    /\ \A c \in frames : awaiting[c] \in Coros => awaiting[c] \in started

\* Were the loop at its end and a coroutine suspended, it would wait for another
\* that is suspended: no sleep and no descriptor is left to wait for.
LEMMA AwaitsAnother ==
    ASSUME Typed, Armed, Timed, Watched, Exact, Owns, Led, ~more,
           NEW c \in frames \cap started
    PROVE  awaiting[c] \in frames \cap started
<1>1. c \in Coros /\ Suspended(c) /\ ~Queued(c)
  BY SetsAssumption DEF Typed, TypeOK, FrameTypes, Led, Suspended, Queued
<1>2. PICK f \in Futures : Waits(c, f)
  BY <1>1 DEF Owns, Somewhere
<1>3. awaiting[c] = f /\ state[f] = "pending"
  BY <1>2 DEF Waits
<1>4. Pended = {}
  <2>1. Cardinality(Pended) = 0
    BY DEF Led, Exact
  <2>q. QED
    BY <2>1, PendedFinite, FS_EmptySet
<1>5. f \notin Ops
  <2> SUFFICES ASSUME f \in Ops PROVE FALSE
    OBVIOUS
  <2>1. fdOf[f] \in Fds /\ pending[fdOf[f]] = f
    BY <1>3 DEF Watched, Led
  <2>q. QED
    BY <1>4, <2>1, SetsAssumption DEF Pended
<1>6. f \in Coros
  BY <1>5 DEF Futures
<1>q. QED
  BY <1>3, <1>6 DEF Owns, Framed, Led

\* The suspended ones await one another, no two the same one, so each would be awaited,
\* and the one the loop runs for is awaited by nobody.
LEMMA LastNotPending ==
    ASSUME Typed, Armed, Timed, Watched, Exact, Owns, Led, ~more
    PROVE  state[driver] # "pending"
<1> SUFFICES ASSUME state[driver] = "pending" PROVE FALSE
  OBVIOUS
<1> DEFINE S == frames \cap started
           g == [c \in S |-> awaiting[c]]
<1>1. driver \in Coros /\ holder[driver] = Python /\ driver \in S
  BY DEF Led, Typed, Driven, Owns, Framed
<1>2. IsFiniteSet(S)
  BY FS_Subset DEF Led
<1>3. \A c \in S : awaiting[c] \in S
  BY AwaitsAnother
<1>4. \A c \in S : awaiting[c] # driver
  BY <1>1, <1>3, SetsAssumption, PythonAssumption DEF Owns, Owned, Typed, TypeOK, FrameTypes
<1>5. \A c, d \in S : awaiting[c] = awaiting[d] => c = d
  BY <1>3, SetsAssumption DEF Owns, Owned, Typed, TypeOK, FrameTypes
<1>6. g \in Injection(S, S \ {driver})
  BY <1>3, <1>4, <1>5 DEF Injection, IsInjective
<1> HIDE DEF S, g
<1>7. IsFiniteSet(S \ {driver}) /\ Cardinality(S \ {driver}) = Cardinality(S) - 1
      /\ Cardinality(S) \in Nat
  BY <1>1, <1>2, FS_RemoveElement, FS_CardinalityType
<1>8. Cardinality(S) <= Cardinality(S \ {driver})
  BY <1>6, <1>7, FS_Injection
<1>q. QED
  BY <1>7, <1>8

LEMMA LedStep ==
    ASSUME Typed, Owns, Led, [Next]_vars
    PROVE  Led'
<1> USE SetsAssumption, PythonAssumption DEF Futures
<1> USE DEF futureVars, frameVars, opVars, fdVars, loopVars, worldVars
<1>a. Typed /\ Owns /\ Led /\ Framed
  BY DEF Owns
\* A step of the running frame, or of Python while it has the loop: there is more.
<1>b. running # NoOne \/ pc # "while" => more
  BY DEF Led
<1>c. \A c \in frames : IsFiniteSet(frames \ {c})
  BY FS_RemoveElement DEF Led
<1>d. \A c : IsFiniteSet(frames \cup {c})
  BY FS_AddElement DEF Led
\* A step that leaves the frames where they are, and starts some at most.
<1>e. ASSUME UNCHANGED <<frames, awaiting, driver, pc, more>>, started \subseteq started', more
      PROVE  Led'
  BY <1>e DEF Led
<1>f. ASSUME NEW c \in Coros, Start(c) PROVE started \subseteq started' /\ c \in started'
  BY <1>f DEF Start
<1>1. ASSUME NEW c \in Coros, NEW d \in Coros, CreateChild(c, d) PROVE Led'
  <2>1. frames' = frames \cup {d} /\ awaiting[d] = NoOne /\ running # NoOne
    BY <1>1, <1>a DEF CreateChild, Spawn, NewFuture, Framed
  <2>q. QED
    BY <1>1, <1>b, <1>d, <2>1 DEF CreateChild, Spawn, Led
<1>2. ASSUME NEW c \in Coros, NEW d \in Coros, StartChild(c, d) PROVE Led'
  BY <1>2, <1>b, <1>e, <1>f DEF StartChild, Holds
<1>3. ASSUME NEW c \in Coros, NEW f \in Futures, Await(c, f) PROVE Led'
  <2>1. running = c /\ awaiting' = [awaiting EXCEPT ![c] = f] /\ more
        /\ UNCHANGED <<frames, pc, driver, more, timers, pendingCount>>
    BY <1>3, <1>b DEF Await, Holds
  <2>2. started \subseteq started' /\ (f \in Coros => f \in started')
    <3>1. CASE Settled(f)
      BY <1>3, <1>a, <3>1 DEF Await, Framed
    <3>2. CASE ~Settled(f)
      BY <1>3, <3>2 DEF Await, Start
    <3>q. QED
      BY <3>1, <3>2
  <2>q. QED
    BY <2>1, <2>2 DEF Led, Typed, TypeOK, FrameTypes
<1>4. ASSUME NEW c \in Coros, Complete(c) \/ Fail(c) PROVE Led'
  <2>1. running = c /\ frames' = frames \ {c} /\ more
        /\ UNCHANGED <<started, awaiting, driver, pc, more>>
    BY <1>4, <1>b DEF Complete, Fail, Finish
  <2>2. IsFiniteSet(frames')
    BY <1>c, <2>1, <1>a DEF Framed
  <2>q. QED
    BY <2>1, <2>2 DEF Led
<1>5. ASSUME NEW c \in Coros, NEW o \in Ops, Sleep(c, o) \/ Connect(c, o) PROVE Led'
  BY <1>5, <1>b, <1>e DEF Sleep, Connect
<1>6. ASSUME NEW c \in Coros, NEW o \in Ops, NEW d \in Fds,
             NEW k \in {"accept", "read", "write"}, Begin(c, o, d, k)
      PROVE  Led'
  BY <1>6, <1>b, <1>e DEF Begin
<1>7. ASSUME NEW c \in Coros, NEW d \in Fds, Close(c, d) PROVE Led'
  BY <1>7, <1>b, <1>e DEF Close
<1>8. ASSUME Resume PROVE Led'
  <2>1. awaiting' = [awaiting EXCEPT ![Head(ready)] = NoOne] /\ more /\ more' = more
        /\ UNCHANGED <<frames, started, driver, pc>>
    BY <1>8, <1>b DEF Resume
  <2>q. QED
    BY <2>1 DEF Led, Typed, TypeOK, FrameTypes
<1>9. ASSUME Prepare PROVE Led'
  <2>1. Idle /\ more /\ UNCHANGED <<frameVars, timers, pendingCount, driver>> /\ pc = "ready"
    BY <1>9, <1>b DEF Prepare
  <2>2. CASE timers = {} /\ pendingCount = 0
    BY <1>9, <2>1, <2>2 DEF Prepare, Led, Idle
  <2>3. CASE ~(timers = {} /\ pendingCount = 0)
    <3>1. pc' = "wait" /\ more' = more
      BY <1>9, <2>3 DEF Prepare
    <3>q. QED
      BY <2>1, <3>1 DEF Led
  <2>q. QED
    BY <2>2, <2>3
<1>10. ASSUME Wait \/ EndExpire PROVE Led'
  BY <1>10 DEF Wait, EndExpire, Led
<1>11. ASSUME EndStep PROVE Led'
  <2>1. Idle /\ pc' = "while" /\ (~more' => timers = {} /\ ~(pendingCount > 0))
        /\ UNCHANGED <<frameVars, timers, pendingCount, driver>> /\ pc = "again"
    BY <1>11 DEF EndStep
  <2>2. ~more' => pendingCount = 0
    BY <2>1 DEF Typed, TypeOK, FdTypes
  <2>q. QED
    BY <2>1, <2>2 DEF Led, Idle
<1>12. ASSUME NEW d \in Fds, Serve(d) PROVE Led'
  BY <1>12 DEF Serve, Led
<1>13. ASSUME Expire PROVE Led'
  BY <1>13 DEF Expire, Led
<1>14. ASSUME NEW c \in Coros, Call(c) PROVE Led'
  <2>1. frames' = frames \cup {c} /\ awaiting[c] = NoOne /\ pc = "python"
    BY <1>14, <1>a DEF Call, Spawn, NewFuture, Framed
  <2>q. QED
    BY <1>14, <1>d, <2>1 DEF Call, Spawn, Led
<1>15. ASSUME NEW c \in Coros, StartHanded(c) \/ Run(c) \/ Poll(c) \/ Collect(c) PROVE Led'
  BY <1>15, <1>f DEF StartHanded, Run, Poll, Collect, Led
<1>16. ASSUME Decide PROVE Led'
  BY <1>16 DEF Decide, Led
<1>17. ASSUME World \/ Contention PROVE Led'
  BY <1>17 DEF World, Contention, Tick, Supply, Drain, Led
<1>18. CASE UNCHANGED vars
  BY <1>18 DEF vars, Led
<1>q. QED
  BY <1>1, <1>2, <1>3, <1>4, <1>5, <1>6, <1>7, <1>8, <1>9, <1>10, <1>11, <1>12, <1>13,
     <1>14, <1>15, <1>16, <1>17, <1>18
  DEF Next, Uncontended, FrameStep, LoopStep, PythonStep

\* A program that has one operation a descriptor: the loop never says of a coroutine
\* that it waits for something nothing will complete.
THEOREM GivesUpOnNobody == ASSUME ~Duplex PROVE Spec => []NeverStuck
<1>1. Init => Led /\ NeverStuck
  BY FS_EmptySet DEF Init, Led, NeverStuck
<1>2. Typed /\ Owns /\ Led /\ [Next]_vars => Led'
  BY LedStep
<1>3. ASSUME Typed, Armed, Timed, Watched, Exact, Owns, Led, NeverStuck, [Next]_vars
      PROVE  NeverStuck'
  <2> USE <1>3 DEF futureVars, frameVars, opVars, fdVars, loopVars, worldVars
  <2>1. CASE Decide
    <3>1. CASE state[driver] = "pending" /\ ~more
      BY <3>1, LastNotPending
    <3>2. CASE Answer(driver)
      BY <3>2 DEF Answer, NeverStuck, Typed, TypeOK, WorldTypes
    <3>3. CASE UNCHANGED outcome
      BY <3>3 DEF NeverStuck
    <3>q. QED
      BY <2>1, <3>1, <3>2, <3>3 DEF Decide
  <2>2. ASSUME NEW c \in Coros, Collect(c) PROVE NeverStuck'
    BY <2>2 DEF Collect, Answer, NeverStuck, Typed, TypeOK, WorldTypes
  <2>3. CASE UNCHANGED outcome
    BY <2>3 DEF NeverStuck
  <2>4. ASSUME NEW c \in Coros, FrameStep(c) PROVE UNCHANGED outcome
    BY <2>4 DEF FrameStep, CreateChild, StartChild, Await, Complete, Fail, Finish, Sleep,
                Connect, Begin, Close
  <2>5. ASSUME NEW c \in Coros, PythonStep(c), ~Collect(c) PROVE UNCHANGED outcome
    BY <2>5 DEF PythonStep, Call, StartHanded, Run, Poll
  <2>6. ASSUME LoopStep \/ World \/ Contention \/ UNCHANGED vars PROVE UNCHANGED outcome
    BY <2>6 DEF LoopStep, Resume, Prepare, Wait, Serve, Expire, EndExpire, EndStep,
                World, Contention, Tick, Supply, Drain, vars
  <2>q. QED
    BY <2>1, <2>2, <2>3, <2>4, <2>5, <2>6 DEF Next, Uncontended
<1>q. QED
  BY <1>1, <1>2, <1>3, Typing, Arming, Counting, Ownership, PTL DEF Spec

=============================================================================
