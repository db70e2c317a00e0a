# PPy: verification project

PPy compiles typed Python ahead of time and keeps CPython's behaviour: what cannot be
said natively falls back to Python. This directory holds TLA+ models of the parts of it
that keep state and interleave, TLC runs over small instances of them, and proofs,
checked by TLAPS, of the properties that matter most for instances of any size.

| module | what it models | proofs |
|---|---|---|
| `AioLoop` | the native async runtime, its coroutines and the Python code that drives it | `AioLoop_proofs` |
| `Concurrent` | mutex, condition, barrier, spawn and join of `ppy.concurrent` | `Concurrent_proofs` |
| `CacheStore` | the artifact store between processes, under builds, `cache gc` and `cache clean` | `OnDisk_proofs` |
| `HandleHeap` | reference counts, worklist, cycle collector and sweep of the collections runtime | `HandleHeap_proofs` |
| `Effects` | the barrier rule, the held output, and the boundary of native calls with effects | `Effects_proofs` |
| `WarmRun` | `ppy run` and native imports over what earlier runs left on disk, while files are edited | `OnDisk_proofs` |
| `MemoTable` | the native table of a cached function under the entry that fills it | `Native_proofs` |
| `LruCache` | what that table promises: `functools.lru_cache` | (the same, by refinement) |
| `GpuBlock` | the reference launch of a GPU kernel: threads of a block, its barrier, warp shuffles | `GpuBlock_proofs` |
| `Resident` | objects that stay native between calls, kept the same as their Python objects | `Resident_proofs` |

`MC<Module>` instantiates a module for TLC, and `MC<Module>_<run>.cfg` is one run.
`MCOnDisk`, `MCNative` and `MCCalls` (`Effects` and `HandleHeap`) instantiate several modules
that share no state; a behaviour of theirs is a behaviour of one of these, chosen at the
start, while the others stand still, so that one run asks the questions of all of them and
costs the sum of their states. That such a behaviour is one of each follows from how these
modules put them together; `OnDisk_proofs` and `Native_proofs` have it as lemmas
(`EachOnItsOwn`, `EachOfThem`) by which their theorems reach the runs.
`PROJECT.json` maps each definition to the lines it translates, lists the runs, a mutant
for each checked property, the hazards and the theorems. Run one with
`tlc -config MCAioLoop_loop.cfg MCAioLoop.tla`, check proofs with
`tlapm AioLoop_proofs.tla`. Paths of code below are relative
to `src/src/` (or are the tail of one there), those of `docs/` to `src/`.

## 1. Inventory

### Parts that keep state

| part | code | state | operations | hard behaviour |
|---|---|---|---|---|
| Native async runtime | `ppy_runtime/aio/ppy_aio.c`, `aio/__init__.py`, `ppy_compiler/ir/transforms/lower_async.py` | futures, frames, ready queue, timers, one pending operation a descriptor, the count of them, epoll's interest | create, spawn, await, complete, fail; sleep, accept, connect, read, write, close; step, run; `NativeFuture` start, result, `__await__` | order of readiness, one-shot epoll, closing under a wait, ownership of futures and frames, several asyncio tasks that step one loop |
| Concurrency primitives | `ppy/concurrent.py`, `ppy/atomic.py`, `backend/llvm/dialect_lowerings.py` | one slot for a mutex, a counter for a condition, count and generation of a barrier; status of each thread | lock, unlock, wait, notify, barrier, spawn, join | every interleaving of the atomic operations, reuse of the barrier, guards that fail inside threads |
| Artifact cache | `ppy_compiler/cache/store.py`, `driver/pipeline.py`, `backend/python/emit.py` | objects by content, SQLite index of artifacts, dependencies and roots | get, read, put, mark_root, gc, clean, recovery of the index | processes that share the directory, crash between file and row, busy and damaged index, gc racing a build |
| Collections memory | `ppy_runtime/collections.c`, `lowering/collections.py` | handles, counts, worklist of dying handles, list of holders, table of the collector | make, retain, release, store, remove, collect, sweep after failure | releases inside releases, cycles half broken, collection started by an allocation, calls that fail midway |
| Effects | `lowering/effects.py`, `ppy_runtime/pyio.c`, `ppy_runtime/effects.py`, `ppy_runtime/binding.py` | held output of a thread, the mark that a barrier was crossed, the stack of calls | print, flush, barrier, enter, leave, commit, discard, fall back, raise | a fallback reruns from the start; nesting of native and Python calls; a write that raises midway |
| Boundary crossing and resident objects | `backend/llvm/crossing.c`, `backend/llvm/wrapper.py`, `ppy_runtime/collections.c` | native records of Python objects, which of them are stale, the list of those native code wrote | admit, mark stale, refresh, touch, copy back, scrap, purge, disable | two images of one object; addresses taken over by new objects; lists that cannot grow; threads of a call that append to one list; a call that fails midway |
| Memoised functions | `ppy_runtime/stdlib.c`, `lowering/memo.py` | an open-addressed table, a stamp for each use, a bound | look up, store, evict, grow, each around a body that calls the function again | order of eviction, removed slots, keys no key equals, recursion between lookup and store, who holds the GIL |
| Warm run | `driver/fastrun.py`, `driver/warm.py`, `driver/native_import.py`, `ppy_runtime/launch.py` | the record of times and contents, run directories by key, light plans | look at the record, key, build, publish, remember, run | edits between any two reads, a coarse clock, several processes |
| Staging, dispatch | `driver/staging.py`, `ppy_runtime/launch.py`, `ppy_runtime/dispatch.py`, `ppy_runtime/binding.py`, `backend/llvm/specialize.py` | bound functions, observed argument kinds, counts of fallbacks | bind, observe, select, give up | observations by concurrent callers |
| Pass manager | `ppy_compiler/ir/passes.py`, `ir/analysis.py` | cached analyses and what each pass keeps valid | request, run, invalidate | an analysis that outlives the change it should have died of |
| Parallel loops, GPU reference | `ir/transforms/lower_parallel.py`, `ppy/_gpu.py`, `ppy_runtime/cuda.py` | chunks over OS threads; one Python thread a GPU thread, barriers of the block and of each warp, the table of values a warp trades | split, run, join; sync, shuffle, fail | failure in one chunk or thread while others wait, a barrier used again at once |
| Language server | `ppy_compiler/lsp` | documents, the analysis at hand, its stamp | edit, request | an answer from an analysis of older text |

### Parts that are functions of their input

Front end, analysis and checker, Python optimizer, IR and its transforms, linker, code
generators, plugins, migration and formatting, diagnostics, header binding, the data
structures of the collections runtime (ring, list, map, treap, heap, strings), scanner,
random numbers. What makes them right is that the program they give means what the
program they got means, which is what the repository's differential tests check. The
data structures are algorithms small enough to be checked against reference definitions
and are in the plan; the rest is out of a model checker's reach. `PROJECT.json` names
each part with its files and the reason.

### How they interact

A **build** (driver) asks the *artifact cache* for each module's code and line map,
compiles what is missing and marks its code as a root. A **run** loads the package; the
wrapper of a native function crosses the *boundary*: arguments go in, a guard that fails
abandons the call and Python runs the function from its start. If the function has
*effects* the boundary holds its output until a barrier. Native code allocates from the
*collections memory*, whose sweep is how the next call cleans up after one that was
abandoned. A native **coroutine** is a frame of the *async runtime*, driven by
`NativeFuture` from Python; a guard that fails in it fails its future instead. A function
that **spawns** runs native threads over its own frame and must join them before Python
may take over. An argument that crosses again is a *resident object*: the boundary
refreshes what Python changed since and copies back what native code wrote. A **cached**
function's callers share one *table*, native or not. Before all of it, `ppy run` and a
native import ask the *warm run* whether what an earlier process published is still what
the files say, and build through the artifact cache when it is not.

### What makes each part right

* *Async runtime*: a suspended frame is resumed exactly once; whatever is waited for has a
  cause that can still happen; nothing reachable is freed; the loop stops only when
  nothing can come; every call from Python is answered.
* *Concurrency*: exclusion; no notification lost; the barrier lets nobody through early and
  never closes on everybody; a function whose thread failed does not return.
* *Cache*: a build delivers its module whatever others do; an index never names an object
  that was not written; contention loses nothing.
* *Memory*: counts are exact, nothing reachable is freed, what no one holds is freed at
  once, a collection frees exactly the unreachable.
* *Effects*: each piece of output is shown once and in program order, and after a barrier
  nothing falls back.
* *Warm run*: what runs is what the files said at some moment of the run.
* *Memo table*: it answers as an LRU cache would, however keys collide and calls nest.
* *GPU block*: a shuffle gives what the source lane put into that very shuffle, and nobody
  waits for a thread that failed.
* *Resident objects*: native code reads what Python last wrote, Python reads what native code
  last wrote, and nothing freed is named.

## 2. The modules and the code

### AioLoop

One process, one thread, one loop. A coroutine stands for its frame and its future, an
operation for the future `sleep`, `accept`, `connect`, `read` or `write` gives. The
program is not written down: the running frame may take any step a resume function could
(`FrameStep`), so TLC and the proofs range over every program.

| model | code |
|---|---|
| `Spawn`, `Start`, `Await`, `Finish` | `ppy_aio_frame_new` and `ppy_aio_spawn`, `start`, `ppy_aio_await`, `ppy_aio_complete`/`fail` |
| `Settle`, `Release` | `settle`, the free in `ppy_aio_result` and `ppy_aio_take` |
| `Sleep`, `Begin`, `Connect`, `Close` | `ppy_aio_sleep`, `accept`/`read`/`write`, `connect`, `close` |
| `Watch`, `Unwatch`, `Rearm` | `watch`, `unwatch`, `rearm` |
| `Resume`, `Prepare`, `Wait`, `Serve`, `Expire`, `EndStep` | `run_ready`, the parts of `ppy_aio_step` in their order, `serve_event`, `expire_timers` |
| `Call`, `StartHanded`, `Run`, `Poll`, `Collect`, `Decide` | a starter called from Python, and `NativeFuture` |
| `Tick`, `Supply`, `Drain` | the clock; peers; another process that takes what a descriptor had |

Two rules a program keeps to are guards of the model and not theorems about it. `holder`: a
future is awaited once, by the coroutine that made it, or read once by the Python code
that called it. `MayUse`: a descriptor has one operation outstanding, or with `Duplex` one
in each direction. What breaks the first reads freed memory by design of the runtime
("an awaiter is its only reader"); what the second permits is the subject of a finding.
Section 4 lists all such assumptions about the program. The bits of a value, the buffers, `listen` and `port` are left out.

### Concurrent

One action is one atomic operation, of the Python reference or of the native lowering:
they take the same ones. The mutex is a compare-and-exchange loop (`Lock`, `Take`), `wait`
is a load, a release and a spin (`WaitLoad`, `WaitRelease`, `WaitWake`), the barrier is an
addition, and for the last arrival a reset and then a new generation (`BarrierLoad`,
`Arrive`, `Reset`, `Open`, `Leave`). The spawning function's `Spawn`, `Join`, `Return` and
`GuardFails` are the native lowering's, with the status each join collects. Memory is
taken as sequentially consistent; that acquire and release orders give this on these
slots is assumed.

### CacheStore

A step is one statement of the index or one call of the file system. A build goes through
`Select`, `Check`, `Touch` or `Forget`, `Load` (hit) or `Write`, `Replace`, `Record`, `Retry` (put), `Root` and
`Deliver`; a gc through `Reach`, `Candidates`, `Delete` and `Undepend`, `Refer`, `Visit`; a clean through
`Wipe` and `Unlink`; each of them opens the index (`Open`, `Quarantine`, `Reopen`) and may
find it busy or damaged, the disk full, or crash. A key stands for the content it
determines. `answer` and the flags `struck`, `collected`, `cleaned`, `dropped` and
`disabled` say what befell the store, for the properties that hold only until it does.
Retries of opening are merged into its outcome; the second read of the line
map and of the object after a hit are not modelled.

### HandleHeap

The program copies, drops, reads and stores references it can name (`Copy`, `Drop`, `Read`,
`Store`, `StoreKey`); the runtime's loops are steps, so what they leave half done is visible
to every property.

| model | code |
|---|---|
| `Release`, `LetGo` | `ppy_coll_release`: the count, and a handle nobody holds any more onto the worklist |
| `Destroy`, `Destroyed` | `destroy` and the loop that drains the worklist: one reference of the dying handle (`freeing`) let go of, the handle freed, the last of `dying` next |
| `Make`, `Sweep`, `Track` | `make`: the sweep after a failed call, the collection it may start, the new handle |
| `Mark`, `Break`, `Broken`, `FreeKey`, `Free`, `Freed`, `EndCollect` | the collector: trial counts and what they leave as garbage, the garbage cut apart, its keys let go of, the garbage freed |

A record is a function of places, `KeyPlace` and the value `Words`. A release that the
program or the collector asks for is over when the worklist is empty (`At`), as its call
returns only then. The order in which the collector takes the garbage apart is left open. A
handle is an allocation. A map has one key in the model, enough to tell the collector's
treatment of keys from that of values. Resident handles, a `defaultdict`'s factory and
several threads are left out.

### Effects

A program is data here: for every small program of two functions the module computes which
functions the rule lets go native (`Violates`, `Native`) and then runs it: prints into the
held buffer, barriers that commit it, calls in both directions, guards that fail,
exceptions, writes and flushes that raise. Native code calls Python in two ways. An ordinary
call is a barrier (`ReachBarrier`, `CallPython`): what is held is written first. A call of a
function whose rerun would be the same (`PureCall`, `PureReturn`, `PureRaise`:
`ppy_io_call_pure`) is none: the output stays held while that Python code runs, and a fallback
may run it again. Such a callee, with all it calls, is one run of Python that enters
no native call with effects; which functions are such (`_rerunnable`,
`lowering/effects.py:643-658`) is taken as given. `HeldOnlyByNative` says where output may be
held, these calls included. `printed` counts what CPython would have
printed, so the streams must show 1, 2, 3, ... A rerun may take other branches than the
native run took, which only adds behaviours; an exception caught goes on at the next
operation; rethrow, file and input operations are left out.

### WarmRun

A program is one source, `text`, and its configuration, `conf`; every edit keeps the size, so
only times tell two contents apart, the hardest case. A step is one call of the file
system.

| model | code |
|---|---|
| `BeginRun`, `LoadRecord`, `Compare`, `Digest` | `try_warm` and `current`: the record, its times, and for a racy source its digest |
| `Locate` | `warm.locate` with `_key`, over the contents of that moment |
| `OpenProject`, `ReadSources`, `Publish` | the build, which reads again, and `compile_for_run` with `_publish_directory` |
| `DraftLight`, `ReplaceLight` | `write_light`: a draft of one fixed name, then the move |
| `CheckDigest`, `MarkRacy`, `Sign` | `remember`: the content still that of the key, the time of day, the times recorded |
| `Launch`, `Analyze`, `InProcess`, `ServePython` | what a run or an import does with what it found |
| `Edit`, `Tick` | an editor that stamps the file with the coarse time; the clock |

An edit inside one of the windows the code leaves open makes a run execute what no file holds, and
`Unguarded` names the windows in which an edit may come all the same: `key` (between the
key and the build's own read), `stat` (an edit between the racy check and the taking of the times; for
the configuration, which no digest covers, all the way from the build's read of it), `tick` (a
configuration edited twice within one granule, for nothing marks it racy) and `pause` (time that
passes between the check of the content and the racy check). The run `shared` and the
theorems have none; `revert` has `key`. Section 5 says what each of the others would show.

### MemoTable and LruCache

`Lookup`, `Return` and the store (`Ignore`, `StoreAgain`, `StoreNew`, `Evict`, `Grow`,
`LayOut`, `Swap`, `Place`) are `ppy_memo_find`, the body, and the parts of `ppy_memo_store` in
their order; `ppy_memo_grow` makes a fresh table (`Grow`), puts the entries in use there, a
slot of the old table a step (`LayOut`), and takes it for the table (`Swap`), after which the store finds
the place of its key anew. The body may call the entry again (`Recurse`), so a key may be there
by the time it is stored; with `SameKey` that holds of a bounded function too. `Hash` chooses collisions, `NaNKeys` the keys that equal nothing,
themselves included. A walk of `ppy_memo_probe` is not taken slot by slot: `Steps` is how far a
slot is on the way of a hash, `Probed` the slots no empty one comes before, `FirstFree` the
nearest not in use. Growing is four times below `Small` slots and twice from there; any number
of slots will do at first, where the code's powers of two make the remainder a mask.

`LruCache` is CPython's `functools.lru_cache`, written from what that does and not from this
code: results by their keys, and which was used before which. A result computed again while a
call inside kept one replaces that one when there is no bound, and changes nothing, the order
included, when there is (`Again`). The table counts it as used instead, for the probe of its
store stamps what it finds: the run `again` shows that difference, on a bounded function whose
body calls for the key it is called for, and `SameKey = FALSE` keeps it out of `runtime` and of
the theorem. `AnswersAsLru` is its specification under the mapping that takes the results from
the slots in use and the order from their stamps; a table in the middle of a store, or being
laid out, is a cache about to keep a result.

### GpuBlock

A kernel is a sequence of operations every thread does. `Arrives` and `Leaves` are
`threading.Barrier.wait`, which lets nobody in while the last group leaves; `Put`,
`FirstBarrier`, `Trade`, `LastBarrier` are `_shuffle`; `Raise` and `Break` the thread that
keeps its error and then breaks the barriers one after another; `Join` the end of
a block and the beginning of the next. A value is named by the thread and the operation
it comes from. Kernels that branch by thread are left out: CUDA leaves a barrier not
reached by all undefined, and so does the reference (it waits). `syncwarp` is left out: it is the
barrier of a shuffle without the table.

### Resident

| model | code |
|---|---|
| `Write`, `Die`, `Make`, `ChangeClass` | the Python program: fields set, objects that die and whose addresses are taken, a class changed |
| `MarkStale` | the watcher of dictionaries, with its list that may not grow |
| `Cross` (`Begins`, `Purge`, `Refresh`, `RefreshRefused`, `Disable`) | the beginning of a resident call |
| `Instance`, `StoreField`, `Check`, `Spin`, `AddTouched`, `Ends` | native code, by several threads, and `ppy_coll_touch` under its spin lock |
| `Drain`, `DrainFails`, `CallFails` | the end of the call: copy back, or scrap what was made |

An object has a number and a reference. A resident call keeps the GIL to its end
(`docs/guide/classes.md:466`), so Python runs between calls and what the GIL makes one
piece is one step. `PurgeAt` stands for the 64 dead objects after which
records are let go of. Left out: the copies of a first crossing, assignment of `__dict__` and
`__class__` (which keeps a class copied, `classes.md:456`), the table of
entries when memory runs out in it, and the free-threaded build, which has no world.

## 3. The runs

| run | instance | distinct states | question |
|---|---|---|---|
| `loop` | 3 coroutines, 1 operation, 1 descriptor; or 1 coroutine, 2 operations, 2 descriptors, writes in 2 pieces | 786449 | Are frames resumed exactly once, causes kept, nothing freed early, epoll's interest and the count of pending operations right under every order of events, closes and failures, and does the loop never give up? |
| `live` | 2 coroutines, 1 operation, 1 descriptor, 1 tick | 166264 | Is every coroutine called from Python answered? |
| `sync` | 3 threads, 1 notification, 2 rounds | 38129 | Mutex, condition, barrier and joins, safety and progress |
| `shared` | cache: 2 processes, 1 module, 2 index files, 2 commands, every fault; warm: a runner and an importer, 3 sources, 2 configurations, time to 4, granule and racy window 2, 2 runs, 2 edits | 1225229 | What do processes leave each other on disk? |
| `native` | effects: programs of two functions over two blocks, 2 prints, depth 4, 1 failing write; heap: 3 holders (1 map), 1 string, a collection after 2 | 2473543 | Output, fallback and nesting; counts, worklist, collector and sweep |
| `runtime` | table: 2 threads, 4 keys that collide, one a NaN, bounds none, 0 and 2, 1 slot at first, depth 2, 6 lookups; GPU: warps of 2, blocks of 3, 2 blocks, 3 kernels, 2 failures; resident: 2 addresses, 3 records, 2 workers, 2 numbers, 2 Python steps, 2 stores, 2 calls, memory and odd fields failing | 872732 | Is the table an LRU cache, do shuffles trade and failures free the others, are both images of an object the same? |
| `duplex`, `guard`, `frame`, `revert`, `gil`, `again` | the smallest instance each | | the findings of section 5 |

Why the bounds are enough. *loop*: three coroutines give a chain and two that wait for
one, with the third driving; one operation is enough to be a sleep in one behaviour and a
socket operation in another. Two descriptors give a batch of two, with one closing the
other; the constraint `FewAtOnce` keeps these two instances apart. The clock does not move,
so a deadline is at once; `live` has the one that lies ahead, with the half millisecond
that rounding cuts off. *sync*: with three threads
and two rounds, one can be two steps late when the barrier is used again. *shared*: two
processes, each through one command and crashes, with an index file to be damaged and one
to replace it; a runner that builds and an importer that uses what it built, or the
reverse, with two edits, there and back, and a clock that passes a granule and a racy
window twice. *native*: a loop needs two blocks, a barrier in a callee two functions,
and a nested native call a depth of four (Python, native, Python, native); three holders
give a cycle with something hanging from it, and reused addresses. *runtime*: six
lookups fill a table, remove from it, grow it and meet a removed slot; a block of three has a
full warp and a short one; two objects make a cycle, and one dies while the other takes its
address. Bounds are guards in
the modules (`MaxClock`, `MaxChunks`, `MaxNotify`, `MaxRounds`, `MaxCommands`, `Files`,
`MaxNames`, `MaxPrinted`, `MaxDepth`, `MaxFaults`, `MaxTime`, `MaxRuns`, `MaxEdits`,
`MaxUses`, `MaxFails`, `MaxPython`, `MaxStores`, `MaxCalls`); coroutines, operations,
threads and handles are bounded by their sets. Symmetry is used in runs of safety
properties only.

The runs of programs that end do without the deadlock check. `native` keeps it: the
memory's runtime always has a next step, and the output may stand still at its bounds.
`NoneLeftWaiting` asks the question of `GpuBlock`, where
only a launch that ended may stand still; it also checks that a thread for which `CanStep` holds
has a step.

**Fairness.** `EveryCallAnswers` assumes that the loop and a resumed frame go on (one
thread, weak fairness), that time passes, that a peer does its part in the end, and
strong fairness for Python driving each future it was handed (`Run`, `Poll`, `Collect`):
asyncio takes turns among tasks, and a turn is not always possible, as another task may
be in the loop. Nobody competes for a descriptor there (`LiveSpec` leaves `Contention`
out): another process could take every connection for ever. `EveryoneLeaves` assumes
weak fairness for each thread inside `wait` and `barrier`, a scheduler that does not
starve a spinning thread; nothing is assumed of a thread that holds the mutex or has not
arrived. The other modules claim safety only.

Every property has a mutant, the code with one plausible mistake (a flag not looked at,
a count left as it was, the interest not renewed, the barrier's count compared with one party too few, a
retry without its second half, a release without its retain, a place found before
the table was laid out again, a failed call that forgets to scrap), under which the same run
finds it violated.

## 4. What is proved

For every set of coroutines and operations, every finite set of descriptors and of
threads, and every bound:

| theorem | says | from |
|---|---|---|
| `AioLoop_proofs!Typing` | types; `pending_count` never below zero; a step has somebody to answer | `Driven`, `Held`, `Counted` |
| `Arming` | an operation a descriptor holds is of that open descriptor and armed, or reported | `Armed`, `Timed` |
| `Counting` (one operation a descriptor) | `pending_count` is exact | `Watched`, `Exact` |
| `ResumesOnce` | a suspended frame is in one place, once; any other is in none | `Owns` |
| `NothingDangles` | nothing freed is still held, awaited, timed or pending | `Owns`, `Armed`, `Timed` |
| `Causes` (one operation a descriptor) | whatever is pending has what will settle it | `Owns`, `Watched` |
| `GivesUpOnNobody` (one operation a descriptor) | the loop never says it will never complete | `Led`, `Owns`, `Watched`, `Exact` |
| `Concurrent_proofs!Typing`, `Exclusion`, `Notified`, `CleanReturn`, `BarrierSafe`, `BarrierAjar` | the six safety properties of `sync` | `CondInv`, `ReturnInv`, `BarrierInv` |
| `OnDisk_proofs!RunsTruth`, `IndexTruth` (`Unguarded = {}`) | what runs, and what the record calls current, is what the files held | `NotFromTheFuture`, `Truthful`, `Ways` |
| `OnDiskTyping` (of `CacheTyping`, `WarmTyping`) | types of both: a file is always left for a new index; what is launched is an artifact, at whatever moments edits come | `Connected`, `Equipped`, `EntryThere` |
| `Whole` | a build delivers a whole module | `Connected`, `Answered` |
| `Backed` | a row of an index names an object that is there, until gc or clean | `ObjectFirst` |
| `Shared`, `KeptEntry` | processes share one index, and a put that ended is in it, until damage, gc or clean | `Where`, `RowsIn` |
| `Effects_proofs!NeverBack` | the barrier rule is sound: no native call past a barrier meets what must fall back | `Stacked`, `PastBarrier` |
| `Unheld` | output is held only while native code, or a pure call it made, runs | `Writing`, `HeldByNative` |
| `MarksTold` | a native call whose doing was seen stays marked as crossed | `Told` |
| `ShownOnce` | output is shown once and in order, whatever falls back, raises or nests | `Ordered`, `FirstKept`, `Under` |
| `OutputTyping` | types; native calls stand only in functions that went native | `Bounded` |
| `HandleHeap_proofs!TypeCorrect` (`HeapTypeOK`), `ExactCounts` | types; until a call fails, a count is exactly the references there are, in every half-done state | `Counted` |
| `NothingDangling`, `NothingKept` | no name, place or worklist entry is of a freed handle, none is freed twice; at rest what is live is held | `Holding`, `Naming`, `Dying`, `Staged`, `Counted` |
| `CollectsGarbage` (an action property) | a collection takes for garbage exactly what names and keys do not reach | `Counted`, `Holding` |
| `Resident_proofs!ResidentTyping`, `Coherence` | types; between calls a record says what its object does, or the next call reads it again | `InSync`, `Crossed`, `Native` |
| `NativeSees` | native code reads what Python would, but for what this call wrote and has listed | `Crossed`, `Working` |
| `NothingFreed` | between calls no record names a freed handle | `Kept`, `Native` |
| `GpuBlock_proofs!Trades` | a shuffle gives every thread the value of the lane it names, of this operation | `Together`, `Accounted`, `InTable` |
| `Barriered` | no thread is past a meeting that one it is for has not come to | `Together`, `Accounted` |
| `NobodyWaitsForEver` | while a block runs, a thread can go on, or all are out and can be joined | `Accounted`, `Breaks` |
| `Native_proofs!Finds` (`"loop" \notin Callers`, as the next two) | a probe ends and finds what is there, whatever collides, was removed or laid out again | `Laid`, `Stores`, `Lays`, `Alone` |
| `Counts` | the entries counted are those in use, and the removed no fewer than there are | `TableInv`, `Lays` |
| `IsLruCache` (a refinement; `~SameKey` too) | the table answers, keeps and lets go as `functools.lru_cache` | `Laid`, `Stores`, `Absent` |
| `NativeTyping` (of `MemoTyping`, `GpuTyping`, `ResidentTyping`) | types of the three | their invariants |

*AioLoop.* No property is inductive alone. `Counted` says the count is at least the number
of descriptors with an operation, so taking one off cannot make it negative, even when
two operations of one descriptor were counted. `Armed` adds that what a descriptor holds
is an operation on that very descriptor, so serving or closing one leaves the others
alone; `Timed`, that each sleep has one timer, so expiring it does not leave another for a
freed future. `Owns` is the heart: a future has one holder or, later, one frame that awaits
it (`Owned`); so the waiters of a pending future are empty when it is awaited and one after
(`InWaiting`); so settling it puts one frame in the queue, which was not there (`InQueue`,
`Once`); so the head of the queue is a live frame whose awaited future is settled and its
own to free (`Freed`). The shared calls have a lemma each (`MadeOne`, `StartedOne`,
`WokenOne`, `AwaitStep`, `ResumeStep`, `AnswerStep`), and `OwnsStep` dispatches every action
to one of them. The loop gives up with no ready frame, timer or counted operation left
while a driver's future is pending (`NeverStuck`): then each pending future of a frame is the
future of a frame suspended in turn, each of another (`AwaitsAnother`), and nobody awaits
the driver's, so finitely many frames would await one more than there are (`LastNotPending`):
counting, where following the chain to its end would be an induction. The assumption
`~Duplex` of three theorems is needed: with two operations a descriptor they fail, as the
run `duplex` shows for one.

*Concurrent.* `CondInv` ties the count a waiter read to the notifications since; `BarrierInv`
counts the parties on each side of the current round (`Stands`, `Waiting`, `Closers`, `Openers`),
which relates `arrivals` to who is where; the safety of the barrier is the arithmetic of
those sets.

*MemoTable.* A table is `Laid` when each entry is on the way of a probe for its key (no empty slot
comes before it) and no two have a key or a stamp in common. An entry put at the first free slot
of its key's way keeps that (`PutLaid`), as does one removed, which leaves its slot not empty
(`RemoveKeeps`), and one used (`TouchKeeps`). `TableInv` adds that entries and removed slots, as
counted, are half of the table at most, hence an empty slot where a probe ends (`RoomLeft`, a
matter of cardinalities), and that its count is exact and within its bound. Between two steps of
a store, `Stores` says what it relies on: its key is not there, the slot it found open is still
on the way of the key and free, and an entry has left if the table was full. While the entries are
laid out again, `Lays` says that the fresh table is laid out well and has the entries
before `next` and no others, as many; so at the end it has all of them, and since it is at most half full
with the new one, a place is left. No probe or rehash is an induction this way: `Steps` is arithmetic
on the remainder (`StepsTaken`), the first free slot is the least of a set of numbers (`LeastNat`),
and the loop of the rehash is a loop of the model. `Alone` is where the assumption comes
in: with every caller holding the GIL, one thread is in a call at a time. Without it `gil` has
two in a store, and `Counts` fails. For `IsLruCache` a key held has one slot (`SlotFound`), so results and order are functions of
the slots in use: a step that changes neither these nor whether a result is being kept is not seen
(`Unseen`; `SwapRefines` shows it of a new layout), one that stamps a slot makes its key the
newest, as no stamp is above the counter (`NowNewest`), and the entry let go is older than all others
since stamps differ (`EvictRefines`). A store that finds its key there stamps it, which
`LruCache` does only without a bound: `Absent` says that under `~SameKey` the keys of the calls a
thread is in are different and, with a bound, none of them is in the table, so no such store
happens (`AbsentAlways`, `StoreAgainUnbounded`). `HeldCounted` is the bijection of slots and keys behind the bound.

*WarmRun.* `IndexTruthful` says nothing of a process halfway through `remember`, so `Ways` says
for each place of a run what its `key`, `read` and recorded times have to do with the files.
No time lies in the future (`NotFromTheFuture`); so an edit after a record was taken has a time
of at least the granule of now, and since `RacyWindow >= Granule` a record that is not racy
is of times further back than that: the edit changes them. A racy one is compared by content.
Each directory was built from the contents its key names (`KeyedByContents`), which is what the
window `key` breaks. Granules are the one piece of arithmetic (`Granules`, `RoundedDown`).

`WarmTyping` needs none of that: `Equipped` has what a process holds at each place, and an
artifact stays (`ArtifactsStay`).

*CacheStore.* `Known(p)` is what a process may rely on where it is: which index it has open
(`Connected`), what its build found or wrote (`Answered`), that its object is on disk once
it records the row (`ObjectFirst`), and which rows are already in (`RowsIn`). A step of one
process changes the files and rows others rely on only by adding, or raises a flag
(`StoreGrows`), so `OthersKnow` is one lemma for every action and `OwnKnows` the case by
case. `UnbornExists` counts index files, as `Quarantine` must find an unused name.

*HandleHeap.* `Counted` is the centre: also halfway through a release, a count is what the names
keep plus the places of live handles that hold the handle (`HeldBy`). One place changes at a
time, so a step adds or takes one pair of a finite set and `Release` one count with it; after a
failed call the counts may only be too high. `Dying` says that what waits on the worklist is
there once and has a count of zero, hence no name and no place holds it, so nothing lets go of it
again; and that a count of zero is on the worklist or garbage, which is `FreedAtOnce` once the
worklist is empty. `Garbage` says that what a collection frees is held only by values of what
it frees, so breaking those touches no other count. `GarbageExact` needs no induction: `ReachedFrom`
and `Reachable` are least closed sets, so each inclusion is one closed set exhibited, and a holder
with more references than its inner ones has one from a name or a key, by `Counted` again.

*Resident.* Between calls `InSync` is `Coherent` with one thing more: a record that is not stale is
marked, so that a native write to it is noticed. Within a call `Crossed` says that a record and
its object differ only where a thread wrote (`Touching`), and `Native` that a record marked as
written is on the list or in the hands of a thread that will put it there (`Listed`); `Working`
gives the list to one thread, which read its whole length, so no entry is written over. At the
end of a call the threads are idle, and what is not on the list matches (`AtEnd`): `Drain`
copies back the list and what it links to, `CallFails` flags it. Native code reaches living
records and its own new ones only, no other record names those (`Native`), and so the sweep
of a failed call leaves no name of a freed handle behind, nor does a purge, as what has an entry is
kept with all it names (`Kept`). Admission is one lemma for the two places where objects are read
(`Admission`), on the closure `Met`; `Reach` is the least closed set, which needs no induction. That
there is room for what native code made is the pigeonhole `Places`.

*GpuBlock.* A meeting is named by the operation and the phase a thread waits in. `Accounted` relates
the count of a barrier to who is inside: while it fills, those wait for one meeting that nobody has
passed, and while it drains, the rest of the group has passed it. So the last to come finds
all others at its own meeting, and `Together` holds: who passed a meeting leaves nobody behind who
has not come. A reader stands between the two meetings of a shuffle, hence all of its
warp have written for this operation and none for the next (`InTable`).

`NobodyWaitsForEver` is `NoneLeftWaiting` without `ENABLED`: `CanStep` writes out the guards, and the run
checks that where it holds the step is possible. Were nobody to go on, no barrier would be draining
(who is in it could leave), so whoever is not out waits in one that is filling. Take one at
the earliest meeting (`LeastNat`). By `Accounted` somebody it is for neither passed it nor waits there; he waits
for no earlier one, so he is out before the end of the kernel. But then every barrier is broken or is
about to be by a thread that is failing, which can go on (`Breaks`).

*Effects.* The rule is about one function, the property about a stack of calls, so the proof
is about the places `at` where the functions of one native call stand (`NativeAts`): each calls
the next, so each reaches the innermost, and has a call that may fall back, or that crosses,
whenever the innermost may (`NothingFallsBack`, from the closure `WithCallers`). Were one of them past a
barrier (`LateAts`) while the innermost is at what falls back, it would break the rule and
not be native. `PastBarrier` says that a call marked as crossed has such a place, or is at a
barrier whose callee runs: a function that returned after it crossed leaves its caller at a
crossing call. A loop past a barrier is in `After`, closed under successors (`AfterStays`).
`Stacked` says every native call but the innermost waits at a `python` barrier, so the one
that is the innermost again has crossed. Marks move between frames (`Leave` and `Enter`), so
`Told` relates each native call to the next one above it, and an action is one of a few
moves of that chain (`SwapTold`, `PushTold`, `PopTold`, `LeaveTold`, `TouchTold`).

*Output.* `InOrder` says the records hold what follows the output shown, up to `printed`; a print opens a
record or goes on in the last (`OpenedInOrder`, `GoneOnInOrder`) and a write takes the first
(`WrittenInOrder`). A fallback drops what is held, which is right only when the call began
with all output shown (`FirstKept`). That is lost once something is written during the
call, so the call must be marked by then; a native caller that becomes the innermost again is, by `Under` and
`Told`. No induction over records is needed, as `InOrder` also bounds each piece by the last.

Assumptions: those named in the modules, all about constants: sets disjoint or
finite, bounds natural numbers, programs of `Effects` made of its operations. TLC evaluates each of them in a run.

`"loop" \notin Callers`, `~SameKey` and `Unguarded = {}` are assumptions of theorems, about who calls
a cached function, what its body calls for, and when files are edited; the code does not see to any of
them, as the runs `gil`, `again` and `revert` show. Neither does it see to what the modules take of the program in
their guards: `holder` (a future is awaited or read once, by who made it), `MayUse` (the
operations outstanding on a descriptor), and the guard of `Return` in `Concurrent` (a function
that spawns joins every thread before it returns).

Model-checked only. `EveryCallAnswers` and `EveryoneLeaves`: liveness under fairness is outside the
prover. `NoneLeftWaiting`: it says what is enabled; `NobodyWaitsForEver` is what can be proved of it. Every other property of the runs that pass
is a theorem.

## 5. Where code and documents disagree

Each is a run whose one property states what the document says, and fails.

* `duplex`: `ppy_aio.c:7-8` promises one pending operation per direction; `watch` has one slot
  a descriptor, so the second direction replaces the first, which is never completed.
* `guard`: `docs/guide/aio.md:66-69` says a guard failing in a native coroutine makes
  `aio.run` raise; when that coroutine is awaited by another, the awaiter reads the number
  of the guard's site as its value and goes on.
* `frame`: the comment at `ast_to_ir.py:4817-4819` says no thread runs on a frame Python
  has taken over; a guard that fails between a spawn and its join leaves one running.
* `revert`: `warm.py:15-16` keys a run directory by content because "a stale artifact would be
  a wrong answer"; the key is of one reading of the sources and the artifact of a later one,
  so a source edited between the two and put back leaves the edit's program under the
  key of the source as it is, for every later run.
* `again`: `memo.py:13-16` says the table lets go of the entry used longest ago, as `lru_cache` does, and
  `stdlib.c:1276-1278` that a bounded one keeps what a call inside stored; with a bound of 2, f(1) whose body calls f(1) and then f(2), followed by
  f(3), lets go of 2 where `lru_cache` lets go of 1: the probe of the outer store (1180-1182)
  gave 1 a new stamp.
* `gil`: `lowering.py:1426-1428` says the GIL is held for a cached function's table; a function
  that loops and calls it releases the GIL, and two threads store at once.

Met while modelling, and not shown by a run:

* `docs/reference/compatibility.md:44` says that deleting any part of the cache costs a
  rebuild and nothing else; gc deletes line maps, which no root reaches, and later builds
  deliver the cached code without one.
* `docs/guide/collections.md:393-395` says cycles are collected; one through an object
  used as a key is not.
* `native_import.py:9-11` says it never raises for the caller's sake; two processes that
  write the light plan of one directory share the draft's name, and the second move raises
  `FileNotFoundError` (`ReplaceLight`, to `raised`).
* `fastrun.py:22-24` and `141-144`: a configuration edited during a build is recorded as the one
  built (`stat`); one edited twice within a granule of the clock is never racy (`tick`); time
  that passes between the check of a source's content and the racy check makes a source
  edited meanwhile look old enough (`pause`).
* `_gpu.py:370`: the flag that the mirror of device memory is old is cleared outside the lock
  and after the copy, so a launch between the two is forgotten.

## 6. Plan

In order, the behaviour that matters most first. 1 to 9 are done.

1. `AioLoop`, with proofs. 2. `Concurrent`, with proofs. 3. `CacheStore`, with proofs.
   4. `HandleHeap`, with proofs. 5. `Effects`, with proofs. 6. `Resident`, with proofs. 7. `WarmRun`, with proofs. 8. `MemoTable`, a
   refinement of `LruCache`, with proofs. 9. `GpuBlock`, with proofs.
10. Algorithms of `collections.c` against reference definitions over bounded inputs: open
   addressing with deletions, the ring buffer, the treap.
11. `PassManager` (analyses kept valid), `Stamp` (language server), `DeviceMirror` (`_gpu.py`).

Abstract specifications worth stating: a one-slot future with single consumption, which
`AioLoop` implements for each coroutine; an atomic mutex, condition and cyclic barrier for
`Concurrent`; a map from keys to contents that may forget but never lie for `CacheStore`;
a garbage-collected heap where exactly the reachable exists for `HandleHeap`; CPython's own
output order for `Effects`. Each becomes a module and a `PROPERTY` of the run of its
component. Runs that share an instance are merged as the project grows.

Theorems planned: refinement of the abstract barrier and mutex.

## 7. Not modelled, and why

Within the modules, steps and outcomes that are merged or left out:

* `AioLoop.Answers`: a poller that cannot be made (`ppy_aio.c:269`) is one of the errors an
  operation may answer; the descriptor a failing `connect` then leaves open is not kept. An interrupted `epoll_wait` (539) is a wait with no event.
* `WarmRun.Locate`: the configuration, the sources and the run directory (`warm.py:79-90`) are read in one step;
  an edit amid them is taken for one in the window `key`.
* `Resident.Ends`: a call ends when its workers are idle; the code waits for none
  (`crossing.c:1893-1908`), and what a thread left running can do is the finding `frame`.
  `DrainFails`: of the record at which memory ran out the number may have been set; the objects
  made for it, which nothing names, are left out (1861-1883). A purge that cannot index what it kept gives
  the world up (1294-1299) and is left out; one without memory at all does nothing, as in the model.

Code generators, transforms and the checker: their correctness is equivalence of programs.
The front end, formatter, plugins, diagnostics and header binding: pure functions of text.
The XLA runtime: a binding of a library. Weak memory: TLA+ interleavings are sequentially
consistent. Values and buffers of coroutines, and the ownership of the native pointers in
them. Shared memory, atomics and masks of GPU kernels, and kernels on a device. Copies of
containers, strings and tuples at the boundary. A future awaited twice: the runtime asks the program not to, and the hazard list
records that nothing enforces it.
