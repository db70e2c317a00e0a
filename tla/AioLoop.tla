------------------------------ MODULE AioLoop ------------------------------
(***************************************************************************)
(* The native async runtime: ppy_runtime/aio/ppy_aio.c, driven from Python *)
(* by NativeFuture (ppy_runtime/aio/__init__.py) and running the resume    *)
(* functions the pass `lower-async` makes of coroutines.                   *)
(*                                                                         *)
(* One process, one thread, one loop.  What interleaves is everything a    *)
(* compiled program may do between two suspensions, the order in which     *)
(* frames, descriptors and timers are served, the peers behind the         *)
(* descriptors, the clock, and the Python code that drives the loop for    *)
(* several futures in turn.  A program is not written down: a running      *)
(* frame may take any step its resume function could take, as long as it   *)
(* keeps to the discipline of `Holds` and `MayUse` below.                  *)
(*                                                                         *)
(* A coroutine instance stands for its frame and the future of that frame; *)
(* an operation stands for the future `sleep`, `accept`, `connect`, `read` *)
(* or `write` hands out.                                                   *)
(***************************************************************************)
EXTENDS Integers, Sequences, FiniteSets

CONSTANTS
    Coros,      \* coroutine instances the program may create
    Ops,        \* sleeps and socket operations the program may begin
    Fds,        \* descriptors
    MaxClock,   \* bound: ticks of the clock (half a millisecond each)
    MaxChunks,  \* bound: the pieces in which the kernel takes one write
    Duplex,     \* may one descriptor have an operation in each direction?
    NoOne       \* no coroutine, operation or future

ASSUME SetsAssumption ==
    /\ Coros \cap Ops = {} /\ IsFiniteSet(Fds)
    /\ NoOne \notin Coros \cup Ops \cup Fds
ASSUME BoundsAssumption ==
    /\ MaxClock \in Nat /\ MaxChunks \in Nat \ {0}
    /\ Duplex \in BOOLEAN

Futures == Coros \cup Ops
Python == "python"            \* the holder of a future a Python caller was handed
ASSUME PythonAssumption == Python \notin Coros \cup {NoOne}
SocketKinds == {"accept", "connect", "read", "write"}
Directions == {"in", "out"}
Dir(k) == IF k \in {"connect", "write"} THEN "out" ELSE "in"
Milli == 2                    \* ticks in a millisecond, what epoll_wait counts in
Forever == -1

VARIABLES
    \* futures: state ("none" before it exists), who holds the handle, the frames
    \* waiting, and the futures whose value was read and memory released
    state, holder, waiters, released,
    \* frames: registered ones, started ones, SLOT_AWAITING, the ready queue
    frames, started, awaiting, ready, running,
    \* operations: kind, descriptor, pieces left to write
    kind, fdOf, left,
    \* timers not yet expired, with their deadlines
    timers,
    \* descriptors: open ones, pending[fd], pending_count, epoll's interest
    open, pending, pendingCount, armed,
    \* the loop: where ppy_aio_step is, the batch epoll_wait returned, when the
    \* wait ends, what the step answered, the future and call that drive it
    pc, events, wakeAt, more, driver, mode,
    \* the world: directions a descriptor would not block in, the clock
    able, clock,
    \* what the Python caller of a coroutine was told
    outcome

futureVars == <<state, holder, waiters, released>>
frameVars  == <<frames, started, awaiting, ready, running>>
opVars     == <<kind, fdOf, left>>
fdVars     == <<open, pending, pendingCount, armed>>
loopVars   == <<pc, events, wakeAt, more, driver, mode>>
worldVars  == <<able, clock>>
vars == <<futureVars, frameVars, opVars, timers, fdVars, loopVars, worldVars, outcome>>

FutureTypes ==
    /\ state \in [Futures -> {"none", "pending", "done", "failed"}]
    /\ holder \in [Futures -> Coros \cup {Python, NoOne}]
    /\ waiters \in [Futures -> Seq(Coros)]
    /\ released \subseteq Futures
FrameTypes ==
    /\ frames \subseteq Coros /\ started \subseteq Coros
    /\ awaiting \in [Coros -> Futures \cup {NoOne}]
    /\ ready \in Seq(Coros)
    /\ running \in Coros \cup {NoOne}
OpTypes ==
    /\ kind \in [Ops -> SocketKinds \cup {"none", "sleep"}]
    /\ fdOf \in [Ops -> Fds \cup {NoOne}]
    /\ left \in [Ops -> 0 .. MaxChunks]
    /\ timers \subseteq Ops \X (0 .. MaxClock)
FdTypes ==
    /\ open \subseteq Fds
    /\ pending \in [Fds -> Ops \cup {NoOne}]
    /\ pendingCount \in Nat
    /\ armed \in [Fds -> Directions \cup {"off"}]
LoopTypes ==
    /\ pc \in {"python", "while", "ready", "wait", "serve", "expire", "again"}
    /\ events \subseteq Fds
    /\ wakeAt \in {Forever} \cup 0 .. MaxClock
    /\ more \in BOOLEAN
    /\ driver \in Coros \cup {NoOne}
    /\ mode \in {"run", "poll"}
WorldTypes ==
    /\ able \subseteq Fds \X Directions
    /\ clock \in 0 .. MaxClock
    /\ outcome \in [Coros -> {"none", "value", "raised", "stuck"}]
TypeOK == FutureTypes /\ FrameTypes /\ OpTypes /\ FdTypes /\ LoopTypes /\ WorldTypes

Init ==
    /\ state = [f \in Futures |-> "none"]
    /\ holder = [f \in Futures |-> NoOne]
    /\ waiters = [f \in Futures |-> <<>>]
    /\ released = {}
    /\ frames = {} /\ started = {} /\ ready = <<>> /\ running = NoOne
    /\ awaiting = [c \in Coros |-> NoOne]
    /\ kind = [o \in Ops |-> "none"]
    /\ fdOf = [o \in Ops |-> NoOne]
    /\ left = [o \in Ops |-> 0]
    /\ timers = {}
    /\ open \in SUBSET Fds            \* sockets `listen` opened before the run
    /\ pending = [d \in Fds |-> NoOne]
    /\ pendingCount = 0
    /\ armed = [d \in Fds |-> "off"]
    /\ pc = "python" /\ events = {} /\ wakeAt = Forever /\ more = TRUE
    /\ driver = NoOne /\ mode = "run"
    /\ able = {} /\ clock = 0
    /\ outcome = [c \in Coros |-> "none"]

-----------------------------------------------------------------------------
(* Futures and frames.  The bits a future carries are left out but for one thing:
   whether its coroutine returned ("done") or a guard of it failed ("failed"). *)

Settled(f) == state[f] \in {"done", "failed"}

\* settle: a pending future takes its state and wakes its waiters.
Settle(f, s) ==
    IF state[f] # "pending" THEN UNCHANGED <<state, waiters, ready>>
    ELSE /\ state' = [state EXCEPT ![f] = s]
         /\ ready' = ready \o waiters[f]
         /\ waiters' = [waiters EXCEPT ![f] = <<>>]

\* future_new for `who`; the call that makes it may settle it at once.
NewFuture(f, who, s) ==
    /\ state[f] = "none"
    /\ state' = [state EXCEPT ![f] = s]
    /\ holder' = [holder EXCEPT ![f] = who]

\* A starter: ppy_aio_frame_new, then ppy_aio_spawn.
Spawn(c, who) ==
    /\ NewFuture(c, who, "pending")
    /\ frames' = frames \cup {c}
    /\ UNCHANGED <<waiters, released, started, awaiting, ready, running>>

\* Mutant of Start: the `started` flag is not looked at.
StartAgain(f) ==
    IF f \in Coros
    THEN started' = started \cup {f} /\ ready' = Append(ready, f)
    ELSE UNCHANGED <<started, ready>>

\* start: the frame of a coroutine not yet started is scheduled, once.
Start(f) ==
    IF f \in Coros \ started
    THEN started' = started \cup {f} /\ ready' = Append(ready, f)
    ELSE UNCHANGED <<started, ready>>

\* ppy_aio_result and ppy_aio_take: the bits are read and the future freed.
Release(f) == released' = released \cup {f}

-----------------------------------------------------------------------------
(* What a running frame may do before it suspends (its resume function). *)

Holds(c, f) == running = c /\ holder[f] = c

CreateChild(c, d) ==                                        \* async.create
    /\ running = c
    /\ Spawn(d, c)
    /\ UNCHANGED <<opVars, timers, fdVars, loopVars, worldVars, outcome>>

StartChild(c, d) ==                                         \* aio.spawn
    /\ Holds(c, d) /\ d \in Coros \ started
    /\ Start(d)
    /\ UNCHANGED <<futureVars, frames, awaiting, running, opVars, timers, fdVars,
                   loopVars, worldVars, outcome>>

\* Mutant of Await: a coroutine awaited is not started.
AwaitUnstarted(c, f) ==
    /\ Holds(c, f)
    /\ awaiting' = [awaiting EXCEPT ![c] = f]
    /\ IF Settled(f)
       THEN ready' = Append(ready, c) /\ UNCHANGED waiters
       ELSE waiters' = [waiters EXCEPT ![f] = Append(@, c)] /\ UNCHANGED ready
    /\ holder' = [holder EXCEPT ![f] = NoOne]
    /\ running' = NoOne
    /\ UNCHANGED <<state, released, frames, started, opVars, timers, fdVars,
                   loopVars, worldVars, outcome>>

\* ppy_aio_await: start it, then wait for it, or be scheduled when it is settled.
\* A handle lives in one coroutine, which awaits it once.
Await(c, f) ==
    /\ Holds(c, f)
    /\ awaiting' = [awaiting EXCEPT ![c] = f]
    /\ IF Settled(f)
       THEN ready' = Append(ready, c) /\ UNCHANGED <<waiters, started>>
       ELSE waiters' = [waiters EXCEPT ![f] = Append(@, c)] /\ Start(f)
    /\ holder' = [holder EXCEPT ![f] = NoOne]
    /\ running' = NoOne
    /\ UNCHANGED <<state, released, frames, opVars, timers, fdVars,
                   loopVars, worldVars, outcome>>

\* Mutant of Finish: a failed guard frees the frame and leaves its future pending.
FinishSilently(c, s) ==
    /\ running = c
    /\ IF s = "done" THEN Settle(c, s) ELSE UNCHANGED <<state, waiters, ready>>
    /\ frames' = frames \ {c}
    /\ running' = NoOne
    /\ UNCHANGED <<holder, released, started, awaiting, opVars, timers, fdVars,
                   loopVars, worldVars, outcome>>

\* ppy_aio_complete and ppy_aio_fail: the future settles, the frame is freed.
Finish(c, s) ==
    /\ running = c
    /\ Settle(c, s)
    /\ frames' = frames \ {c}
    /\ running' = NoOne
    /\ UNCHANGED <<holder, released, started, awaiting, opVars, timers, fdVars,
                   loopVars, worldVars, outcome>>
Complete(c) == Finish(c, "done")
Fail(c)     == Finish(c, "failed")                  \* a guard failed

-----------------------------------------------------------------------------
(* Timers and descriptors. *)

Sleep(c, o) ==
    /\ running = c
    /\ NewFuture(o, c, "pending")
    /\ kind' = [kind EXCEPT ![o] = "sleep"]
    /\ \E deadline \in clock .. MaxClock : timers' = timers \cup {<<o, deadline>>}
    /\ UNCHANGED <<waiters, released, frameVars, fdOf, left, fdVars, loopVars,
                   worldVars, outcome>>

\* watch: the operation becomes the descriptor's pending one; epoll is armed
\* for its direction, replacing what it was armed for.
Watch(d, o, k) ==
    /\ pending' = [pending EXCEPT ![d] = o]
    /\ pendingCount' = pendingCount + 1
    /\ armed' = [armed EXCEPT ![d] = Dir(k)]

\* Mutants of Unwatch: the slot of the descriptor, or the count, is left as it was.
UnwatchKeepsSlot(d) ==
    /\ pendingCount' = pendingCount - 1
    /\ armed' = [armed EXCEPT ![d] = "off"]
    /\ UNCHANGED pending
UnwatchKeepsCount(d) ==
    /\ pending' = [pending EXCEPT ![d] = NoOne]
    /\ armed' = [armed EXCEPT ![d] = "off"]
    /\ UNCHANGED pendingCount

Unwatch(d) ==
    /\ pending' = [pending EXCEPT ![d] = NoOne]
    /\ pendingCount' = pendingCount - 1
    /\ armed' = [armed EXCEPT ![d] = "off"]

\* Mutant of Rearm: the one-shot interest is not renewed after EAGAIN.
RearmForgotten(d, k) == UNCHANGED <<armed, pending, pendingCount>>

Rearm(d, k) ==
    /\ armed' = [armed EXCEPT ![d] = Dir(k)]
    /\ UNCHANGED <<pending, pendingCount>>

\* What the system call may answer: bytes or a connection, an error, EAGAIN;
\* a write may take some pieces and then answer EAGAIN.  An error may come at any time; a
\* poller that cannot be made (`watch` at the first EAGAIN) is one.
Answers(d, k) ==
    IF d \notin open THEN {"errno"}
    ELSE IF <<d, Dir(k)>> \notin able THEN {"again", "errno"}
    ELSE IF k = "write" THEN {"value", "errno", "again"} ELSE {"value", "errno"}
\* The pieces of a write of n that are left after that answer.
Remaining(d, k, n, answer) ==
    IF answer # "again" THEN {0}
    ELSE IF k = "write" /\ <<d, Dir(k)>> \in able THEN 1 .. n - 1 ELSE {n}
Consume(d, k) == able' = able \ {<<d, Dir(k)>>}

\* An accepted connection opens a descriptor (there is an error when none is left).
OpensOn(k, answer) ==
    IF k = "accept" /\ answer = "value"
    THEN \E fresh \in Fds \ open : open' = open \cup {fresh}
    ELSE UNCHANGED open

Outstanding(d) == {o \in Ops : fdOf[o] = d /\ state[o] = "pending"}
\* The discipline a program keeps to on one descriptor: an assumption on the program,
\* which nothing in the compiler or the loop enforces.
MayUse(d, k) == \A o \in Outstanding(d) : Duplex /\ Dir(kind[o]) # Dir(k)

\* ppy_aio_accept, ppy_aio_read, ppy_aio_write: tried at once, watched on EAGAIN.
Begin(c, o, d, k) ==
    /\ running = c /\ state[o] = "none" /\ MayUse(d, k)
    /\ kind' = [kind EXCEPT ![o] = k]
    /\ fdOf' = [fdOf EXCEPT ![o] = d]
    /\ \E answer \in Answers(d, k), n \in (IF k = "write" THEN 1 .. MaxChunks ELSE {0}) :
       \E rest \in Remaining(d, k, n, answer) :
        /\ left' = [left EXCEPT ![o] = rest]
        /\ Consume(d, k)
        /\ IF answer = "again"
           THEN /\ NewFuture(o, c, "pending")
                /\ Watch(d, o, k) /\ UNCHANGED open
           ELSE /\ NewFuture(o, c, "done")
                /\ OpensOn(k, answer) /\ UNCHANGED <<pending, pendingCount, armed>>
    /\ UNCHANGED <<waiters, released, frameVars, timers, loopVars, clock, outcome>>

\* ppy_aio_connect: a descriptor of its own, watched until it is connected.
Connect(c, o) ==
    /\ running = c /\ state[o] = "none"
    /\ kind' = [kind EXCEPT ![o] = "connect"]
    /\ \/ /\ NewFuture(o, c, "done")
          /\ UNCHANGED <<fdOf, fdVars>>
       \/ \E d \in Fds \ open :
            /\ NewFuture(o, c, "pending")
            /\ fdOf' = [fdOf EXCEPT ![o] = d]
            /\ open' = open \cup {d}
            /\ Watch(d, o, "connect")
    /\ UNCHANGED <<waiters, released, frameVars, left, timers, loopVars, worldVars,
                   outcome>>

\* close(2): nothing of the descriptor stays ready.
Shut(d) ==
    /\ open' = open \ {d}
    /\ able' = able \ ({d} \X Directions)

\* Mutant of Close: unwatches without looking whether anything is pending.
CloseUnguarded(c, d) ==
    /\ running = c /\ d \in open
    /\ IF pending[d] # NoOne
       THEN Settle(pending[d], "done") ELSE UNCHANGED <<state, waiters, ready>>
    /\ Unwatch(d)
    /\ Shut(d)
    /\ UNCHANGED <<holder, released, frames, started, awaiting, running, opVars, timers,
                   loopVars, clock, outcome>>

\* ppy_aio_close: the pending operation answers -ECANCELED.
Close(c, d) ==
    /\ running = c /\ d \in open
    /\ IF pending[d] # NoOne
       THEN Settle(pending[d], "done") /\ Unwatch(d)
       ELSE UNCHANGED <<state, waiters, ready, pending, pendingCount, armed>>
    /\ Shut(d)
    /\ UNCHANGED <<holder, released, frames, started, awaiting, running, opVars, timers,
                   loopVars, clock, outcome>>

FrameStep(c) ==
    \/ \E d \in Coros : CreateChild(c, d) \/ StartChild(c, d)
    \/ \E f \in Futures : Await(c, f)
    \/ Complete(c) \/ Fail(c)
    \/ \E o \in Ops : Sleep(c, o) \/ Connect(c, o)
    \/ \E o \in Ops, d \in Fds, k \in {"accept", "read", "write"} : Begin(c, o, d, k)
    \/ \E d \in Fds : Close(c, d)

-----------------------------------------------------------------------------
(* The loop: ppy_aio_step, and run_ready twice inside it. *)

\* run_ready takes the head and calls its resume function; a segment after an
\* await first reads the value awaited, unless the awaited future carries none.
Resume ==
    /\ pc \in {"ready", "again"} /\ running = NoOne /\ ready # <<>>
    /\ LET c == Head(ready)
           f == awaiting[c]
           reads == f # NoOne /\ (f \in Coros \/ kind[f] # "sleep")
       IN  /\ running' = c
           /\ awaiting' = [awaiting EXCEPT ![c] = NoOne]
           /\ IF reads THEN Release(f) ELSE UNCHANGED released
    /\ ready' = Tail(ready)
    /\ UNCHANGED <<state, holder, waiters, frames, started, opVars, timers, fdVars,
                   loopVars, worldVars, outcome>>

Idle == running = NoOne /\ ready = <<>>

Earliest(t) == t \in timers /\ \A u \in timers : t[2] <= u[2]
\* The whole milliseconds until a deadline: the rest is cut off.
Until(deadline) == IF deadline <= clock THEN 0 ELSE ((deadline - clock) \div Milli) * Milli

\* Nothing ready: leave when nothing can come, else settle how long to wait.
Prepare ==
    /\ pc = "ready" /\ Idle
    /\ IF timers = {} /\ pendingCount = 0
       THEN pc' = "while" /\ more' = FALSE /\ UNCHANGED wakeAt
       ELSE /\ pc' = "wait" /\ UNCHANGED more
            /\ \/ mode = "poll" /\ wakeAt' = clock
               \/ mode = "run" /\ timers = {} /\ wakeAt' = Forever
               \/ /\ mode = "run"
                  /\ \E t \in timers : Earliest(t) /\ wakeAt' = clock + Until(t[2])
    /\ UNCHANGED <<futureVars, frameVars, opVars, timers, fdVars, events, driver, mode,
                   worldVars, outcome>>

\* epoll_wait, or nanosleep when no descriptor is watched.
Wait ==
    /\ pc = "wait"
    /\ LET signalled == {d \in Fds : armed[d] # "off" /\ <<d, armed[d]>> \in able}
           got == IF pendingCount > 0 THEN signalled ELSE {}
       IN  /\ got # {} \/ (wakeAt # Forever /\ wakeAt <= clock)
           /\ events' = got
           /\ armed' = [d \in Fds |-> IF d \in got THEN "off" ELSE armed[d]]
           /\ pc' = IF got = {} THEN "expire" ELSE "serve"
    /\ wakeAt' = Forever
    /\ UNCHANGED <<futureVars, frameVars, opVars, timers, open, pending, pendingCount,
                   more, driver, mode, worldVars, outcome>>

\* serve_event: the pending operation is tried again; EAGAIN arms it again.
Serve(d) ==
    /\ pc = "serve" /\ d \in events
    /\ events' = events \ {d}
    /\ pc' = IF events = {d} THEN "expire" ELSE "serve"
    /\ LET o == pending[d]
           k == kind[o]
       IN  IF o = NoOne
           THEN UNCHANGED <<state, waiters, ready, left, fdVars, able>>
           ELSE \E answer \in IF k = "connect" THEN {"value", "errno"} ELSE Answers(d, k) :
                \E rest \in IF k = "connect" THEN {0} ELSE Remaining(d, k, left[o], answer) :
                  /\ left' = [left EXCEPT ![o] = rest]
                  /\ IF answer = "again"
                     THEN /\ Rearm(d, k) /\ Consume(d, k)
                          /\ UNCHANGED <<state, waiters, ready, open>>
                     ELSE /\ Unwatch(d) /\ Settle(o, "done")
                          /\ IF k = "connect" /\ answer = "errno"
                             THEN Shut(d)
                             ELSE OpensOn(k, answer) /\ Consume(d, k)
    /\ UNCHANGED <<holder, released, frames, started, awaiting, running, kind, fdOf, timers,
                   wakeAt, more, driver, mode, clock, outcome>>

\* expire_timers, one timer at a time, in any order; a tick meanwhile only brings
\* an expiry forward from the next pass.
Expire ==
    /\ pc = "expire"
    /\ \E t \in timers :
        /\ t[2] <= clock
        /\ timers' = timers \ {t}
        /\ Settle(t[1], "done")
    /\ UNCHANGED <<holder, released, frames, started, awaiting, running, opVars, fdVars,
                   loopVars, worldVars, outcome>>

EndExpire ==
    /\ pc = "expire" /\ \A t \in timers : t[2] > clock
    /\ pc' = "again"
    /\ UNCHANGED <<futureVars, frameVars, opVars, timers, fdVars, events, wakeAt, more,
                   driver, mode, worldVars, outcome>>

\* Mutant of EndStep: a step with only timers left says there is nothing left.
EndStepForgetsTimers ==
    /\ pc = "again" /\ Idle
    /\ pc' = "while"
    /\ more' = (pendingCount > 0)
    /\ UNCHANGED <<futureVars, frameVars, opVars, timers, fdVars, events, wakeAt, driver,
                   mode, worldVars, outcome>>

\* The second run_ready is done: what ppy_aio_step answers.
EndStep ==
    /\ pc = "again" /\ Idle
    /\ pc' = "while"
    /\ more' = (timers # {} \/ pendingCount > 0)
    /\ UNCHANGED <<futureVars, frameVars, opVars, timers, fdVars, events, wakeAt, driver,
                   mode, worldVars, outcome>>

LoopStep == Resume \/ Prepare \/ Wait \/ (\E d \in Fds : Serve(d)) \/ Expire \/ EndExpire
            \/ EndStep

-----------------------------------------------------------------------------
(* Python drives the loop: NativeFuture. *)

\* A coroutine called from Python: its starter runs and a NativeFuture is handed out.
Call(c) ==
    /\ pc = "python"
    /\ Spawn(c, Python)
    /\ UNCHANGED <<opVars, timers, fdVars, loopVars, worldVars, outcome>>

\* NativeFuture.start
StartHanded(c) ==
    /\ pc = "python" /\ holder[c] = Python /\ outcome[c] = "none" /\ c \notin started
    /\ Start(c)
    /\ UNCHANGED <<futureVars, frames, awaiting, running, opVars, timers, fdVars, loopVars,
                   worldVars, outcome>>

\* NativeFuture.result: start, and `while pending` of ppy_aio_run.
Run(c) ==
    /\ pc = "python" /\ holder[c] = Python /\ outcome[c] = "none"
    /\ Start(c)
    /\ pc' = "while" /\ driver' = c /\ mode' = "run"
    /\ UNCHANGED <<futureVars, frames, awaiting, running, opVars, timers, fdVars, events,
                   wakeAt, more, worldVars, outcome>>

\* One turn of NativeFuture.__await__: ppy_aio_step_started, which waits for nothing.
Poll(c) ==
    /\ pc = "python" /\ holder[c] = Python /\ outcome[c] = "none" /\ state[c] = "pending"
    /\ Start(c)
    /\ pc' = "ready" /\ driver' = c /\ mode' = "poll"
    /\ UNCHANGED <<futureVars, frames, awaiting, running, opVars, timers, fdVars, events,
                   wakeAt, more, worldVars, outcome>>

\* NativeFuture._finish: a failed future raises, a done one gives its value.
Answer(c) ==
    /\ Release(c)
    /\ outcome' = [outcome EXCEPT ![c] = IF state[c] = "failed" THEN "raised" ELSE "value"]

Collect(c) ==
    /\ pc = "python" /\ holder[c] = Python /\ outcome[c] = "none" /\ Settled(c)
    /\ Answer(c)
    /\ UNCHANGED <<state, holder, waiters, frameVars, opVars, timers, fdVars, loopVars,
                   worldVars>>

\* After a step: answer when settled, give up when nothing is left to wait for,
\* step again (`run`), or let other Python code run (`__await__`).
Decide ==
    /\ pc = "while" /\ more' = TRUE
    /\ \/ /\ mode = "run" /\ Settled(driver)
          /\ Answer(driver) /\ pc' = "python"
       \/ /\ state[driver] = "pending" /\ ~more
          /\ outcome' = [outcome EXCEPT ![driver] = "stuck"] /\ pc' = "python"
          /\ UNCHANGED released
       \/ /\ mode = "run" /\ state[driver] = "pending" /\ more
          /\ pc' = "ready" /\ UNCHANGED <<outcome, released>>
       \/ /\ mode = "poll" /\ (Settled(driver) \/ more)
          /\ pc' = "python" /\ UNCHANGED <<outcome, released>>
    /\ IF pc' = "python" THEN driver' = NoOne /\ mode' = "run" ELSE UNCHANGED <<driver, mode>>
    /\ UNCHANGED <<state, holder, waiters, frameVars, opVars, timers, fdVars, events,
                   wakeAt, worldVars>>

PythonStep(c) == Call(c) \/ StartHanded(c) \/ Run(c) \/ Poll(c) \/ Collect(c)

-----------------------------------------------------------------------------
(* The world outside. *)

Tick ==
    /\ clock < MaxClock
    /\ clock' = clock + 1
    /\ UNCHANGED <<futureVars, frameVars, opVars, timers, fdVars, loopVars, able, outcome>>

\* A peer connects, sends, reads or goes away; another process takes the connection.
Supply(d, way) ==
    /\ d \in open /\ <<d, way>> \notin able
    /\ able' = able \cup {<<d, way>>}
    /\ UNCHANGED <<futureVars, frameVars, opVars, timers, fdVars, loopVars, clock, outcome>>

Drain(d, way) ==
    /\ <<d, way>> \in able
    /\ able' = able \ {<<d, way>>}
    /\ UNCHANGED <<futureVars, frameVars, opVars, timers, fdVars, loopVars, clock, outcome>>

World == Tick \/ \E d \in Fds, way \in Directions : Supply(d, way)
Contention == \E d \in Fds, way \in Directions : Drain(d, way)

Uncontended ==
    \/ \E c \in Coros : PythonStep(c) \/ FrameStep(c)
    \/ LoopStep \/ Decide
    \/ World
Next == Uncontended \/ Contention

Spec == Init /\ [][Next]_vars

-----------------------------------------------------------------------------
(* Properties. *)

Occurrences(c, s) == {i \in DOMAIN s : s[i] = c}

\* A started frame that is not running is resumed exactly once: it is in the
\* ready queue or among the waiters of the one pending future it awaits, and in
\* only one place; a frame that is running, freed or not started is in none.
\* (A second entry would resume a freed frame; none would leave it suspended.)
ResumedOnce ==
    \A c \in Coros :
        LET queued == Cardinality(Occurrences(c, ready))
            waiting == {f \in Futures : Occurrences(c, waiters[f]) # {}}
        IN  IF c \in frames \cap started /\ running # c
            THEN \/ queued = 1 /\ waiting = {}
                 \/ /\ queued = 0 /\ waiting = {awaiting[c]}
                    /\ Cardinality(Occurrences(c, waiters[awaiting[c]])) = 1
                    /\ state[awaiting[c]] = "pending"
            ELSE queued = 0 /\ waiting = {}

\* Whatever is waited for can still come: a started coroutine's frame is live, a
\* sleep has its timer, a socket operation is the pending one of its descriptor.
EveryWaitHasACause ==
    \A f \in Futures : state[f] = "pending" =>
        \/ f \in Coros /\ f \in frames
        \/ f \in Ops /\ kind[f] = "sleep" /\ \E t \in timers : t[1] = f
        \/ f \in Ops /\ kind[f] \in SocketKinds /\ pending[fdOf[f]] = f

\* No wakeup is lost at epoll: a descriptor with a pending operation is open, and
\* armed in that operation's direction or in the batch being served.
WatchedIsArmed ==
    \A d \in Fds : pending[d] # NoOne =>
        /\ d \in open /\ state[pending[d]] = "pending"
        /\ armed[d] = Dir(kind[pending[d]]) \/ d \in events

\* pending_count, which decides whether the loop has anything to wait for, is the
\* number of descriptors with a pending operation.
PendingCountExact == pendingCount = Cardinality({d \in Fds : pending[d] # NoOne})

\* Nothing reachable is freed: a future a live frame awaits or holds, or Python has
\* not read yet, or a timer or a descriptor will settle, is not released.
NoDanglingFuture ==
    /\ \A c \in frames : awaiting[c] \notin released
    /\ \A f \in released : holder[f] \in {NoOne, Python}
    /\ \A f \in released : holder[f] = Python => outcome[f] \in {"value", "raised"}
    /\ \A t \in timers : t[1] \notin released
    /\ \A d \in Fds : pending[d] \notin released

\* The loop never gives up on a coroutine: "waits for something nothing will
\* complete" is never raised at a program that keeps to the discipline.
NeverStuck == \A c \in Coros : outcome[c] # "stuck"

\* ppy_aio.c:8, "one pending operation per direction": the read and the write a
\* program leaves outstanding on one descriptor are both kept.
KeptPerDirection ==
    \A o \in Ops : state[o] = "pending" /\ kind[o] \in {"accept", "read", "write"}
        => pending[fdOf[o]] = o

\* docs/guide/aio.md:66-68: a guard failing inside a running native coroutine
\* cannot fall back, the future fails and the run raises.  So no run gives a value
\* after the future of a failed coroutine was read without raising.
GuardFailureIsRaised ==
    (\E c \in Coros : outcome[c] = "value") =>
        \A d \in Coros : state[d] = "failed" /\ d \in released => outcome[d] = "raised"

-----------------------------------------------------------------------------
(* Liveness. *)

\* The loop and a resumed frame keep going; time passes; peers do their part; and
\* Python drives each future it was handed until it answers, as `await` does.
Fairness ==
    /\ WF_vars(LoopStep \/ Decide)
    /\ WF_vars(\E c \in Coros : FrameStep(c))
    /\ WF_vars(Tick)
    /\ \A d \in Fds, way \in Directions : WF_vars(Supply(d, way))
    /\ \A c \in Coros : SF_vars(Run(c) \/ Poll(c) \/ Collect(c))
LiveSpec == Init /\ [][Uncontended]_vars /\ Fairness

\* A coroutine Python called is answered, however its turns interleave with others'.
EveryCallAnswers == \A c \in Coros :
    (holder[c] = Python) ~> (outcome[c] \in {"value", "raised"})

=============================================================================
