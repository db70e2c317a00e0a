------------------------------ MODULE Effects ------------------------------
(***************************************************************************)
(* Effects of native code under `ppy run`: the rule the compiler holds a   *)
(* function to (check_effects, ppy_compiler/lowering/effects.py), the held *)
(* output of the runtime (ppy_runtime/pyio.c) and the boundary around each *)
(* native call (Effects, ppy_runtime/effects.py).                          *)
(*                                                                         *)
(* One thread.  Python calls native functions, native functions call into  *)
(* Python at barriers, and so on down: a stack of frames.  A native frame  *)
(* may end in four ways, and a call that fell back runs again as Python    *)
(* from its start.  A printed piece is the number of the print: `printed`  *)
(* counts what CPython would have printed by now, and the streams must     *)
(* show 1, 2, 3, ... whatever ran natively, fell back or raised.           *)
(***************************************************************************)
EXTENDS Integers, Sequences, FiniteSets, SequencesExt

CONSTANTS
    Functions,    \* the functions of the module being compiled
    Blocks,       \* the basic blocks of each, 1 the entry
    Programs,     \* what the functions may be: [ops : their blocks, next : successors]
    Streams,
    MaxPrinted,   \* bound on prints
    MaxDepth,     \* bound on frames
    MaxFaults     \* bound on writes that raise

ASSUME BlocksAssumption == 1 \in Blocks
ASSUME BoundsAssumption == MaxPrinted \in Nat /\ MaxDepth \in Nat \ {0} /\ MaxFaults \in Nat

\* An operation is <<kind, argument>>:
\*   "print" to a stream, "flush" of a stream and "python", the two barriers,
\*   "pure", a call of Python code that a second run of could not be told from the
\*   first, which is no barrier; where the kind of its result is not promised, or
\*   what it raises is not caught natively, a "check" comes after it,
\*   "check", which falls back (an integer past 64 bits, a result of another kind),
\*   "sanitize", a check of --sanitize,
\*   "raise", a builtin exception with CPython's text, "odd", any other exception,
\*   "call" of a function.
Operations == ({"print", "flush"} \X Streams) \cup ({"call"} \X Functions)
              \cup ({"python", "pure", "check", "sanitize", "raise", "odd"} \X {""})

ASSUME ProgramsAssumption ==
    /\ "" \notin Functions
    /\ \A p \in Programs : p \in [ops : [Functions -> [Blocks -> Seq(Operations)]],
                                next : [Functions -> [Blocks -> SUBSET Blocks]]]

VARIABLES
    program,      \* the program compiled
    native,       \* its functions that went native
    stack,        \* frames, the innermost last
    held,         \* the thread's buffer: records of a stream and what it is to get
    crossed,      \* has the innermost native call crossed a barrier?
    writing,      \* the records a commit has still to write
    after,        \* what follows that commit, or "none"
    raising,      \* an exception is on its way to the innermost frame
    inPure,       \* does Python run a pure call the innermost frame made?
    out,          \* what the streams got
    printed, wrong, faults

ioVars == <<held, crossed, writing, after, out>>
vars == <<program, native, stack, ioVars, raising, inPure, printed, wrong, faults>>

-----------------------------------------------------------------------------
(* The rule: nothing that falls back can follow a barrier. *)

Ops(f, b) == program.ops[f][b]
OpsOf(f) == UNION {{Ops(f, b)[i] : i \in DOMAIN Ops(f, b)} : b \in Blocks}
Calls(f, g) == <<"call", g>> \in OpsOf(f)

\* The functions of S, and those that call one of them, through any others.
WithCallers(S) ==
    LET calls == [g \in Functions |-> {h \in Functions : Calls(g, h)}]
    IN  {f \in Functions : \A T \in SUBSET Functions :
            S \subseteq T /\ (\A g \in Functions : calls[g] \cap T # {} => g \in T) => f \in T}
Having(kinds) == {f \in Functions : \E o \in OpsOf(f) : o[1] \in kinds}

Barriers == {"python", "flush"}
Backs == {"check", "odd"}

\* Mutant of FallingBack: calls are taken not to fall back.
FallingBackItself == {<<kind, "">> : kind \in Backs}

\* classify: what may fall back, or raise what only Python can say, itself or in a call.
FallingBack == {<<kind, "">> : kind \in Backs}
               \cup {<<"call", f>> : f \in WithCallers(Having(Backs))}

Crossing == ({"python"} \X {""}) \cup ({"flush"} \X Streams)
            \cup {<<"call", f>> : f \in WithCallers(Having(Barriers))}

CrossingBlocks(f) ==
    LET crossing == Crossing
    IN  {b \in Blocks : \E i \in DOMAIN Ops(f, b) : Ops(f, b)[i] \in crossing}

\* The blocks entered after a barrier ran.
After(f) ==
    LET crossing == CrossingBlocks(f)
    IN  {b \in Blocks : \A T \in SUBSET Blocks :
            (\A c \in crossing \cup T : program.next[f][c] \subseteq T) => b \in T}

\* What may happen after a barrier in f must not fall back.
Violates(f) ==
    LET back == FallingBack
        crossing == Crossing
        later == After(f)
    IN  \E b \in Blocks : \E i \in DOMAIN Ops(f, b) :
            /\ Ops(f, b)[i] \in back
            /\ b \in later \/ \E j \in 1 .. i - 1 : Ops(f, b)[j] \in crossing

\* Mutant of Native: a function stays in Python, and its callers do not.
NativeAlone == {f \in Functions : ~Violates(f)}

\* A function that breaks the rule stays in Python, with whatever calls it.
Native == Functions \ WithCallers({f \in Functions : Violates(f)})

-----------------------------------------------------------------------------
(* Frames. *)

\* fn is "" for Python code that is not a function of the module: it may do anything.
\* at is where the frame is in fn and, for a native call, in the native functions that
\* fn called.  first is `printed` when it began, outer what ppy_io_enter answered, and
\* touched whether its doing has been seen outside since it began.
Frame(fn, mode, outer) ==
    [fn |-> fn, mode |-> mode, at |-> IF fn = "" THEN <<>> ELSE <<<<fn, 1, 1>>>>,
     first |-> printed, outer |-> outer, touched |-> FALSE]

Top == Last(stack)
Below == Front(stack)
Replace(frame) == stack' = Append(Below, frame)
Touch(frame) == [frame EXCEPT !.touched = TRUE]

Ready == after = "none" /\ ~raising /\ ~inPure
Runs(mode) == Ready /\ Top.mode = mode
Place == Last(Top.at)
Op == Ops(Place[1], Place[2])[Place[3]]
AtOp(mode) == Runs(mode) /\ Top.at # <<>> /\ Place[3] <= Len(Ops(Place[1], Place[2]))
AtEnd(mode) == Runs(mode) /\ Top.at # <<>> /\ Place[3] > Len(Ops(Place[1], Place[2]))
Moved(at) == [at EXCEPT ![Len(at)][3] = @ + 1]
Advance == Replace([Top EXCEPT !.at = Moved(@)])
Outside == Runs("python") /\ Top.fn = ""
\* The frames once the innermost gave its answer to the one that called it.
Returned == LET caller == Last(Below)
            IN  IF caller.at = <<>> THEN Below
                ELSE Append(Front(Below), [caller EXCEPT !.at = Moved(@)])

Init ==
    /\ program \in Programs /\ native = Native
    /\ printed = 0
    /\ stack = <<Frame("", "python", FALSE)>>
    /\ held = <<>> /\ crossed = FALSE /\ writing = <<>> /\ after = "none"
    /\ raising = FALSE /\ inPure = FALSE /\ out = <<>> /\ wrong = FALSE /\ faults = 0

-----------------------------------------------------------------------------
(* The held output: ppy_io_put, ppy_io_commit, ppy_io_barrier. *)

\* A record is open for the stream printed to last.
Put(stream) ==
    held' = IF held # <<>> /\ Last(held)[1] = stream
            THEN Append(Front(held), <<stream, Append(Last(held)[2], printed + 1)>>)
            ELSE Append(held, <<stream, <<printed + 1>>>>)

\* Mutant of Commit: the buffer is not taken off the thread.
CommitKeepsHeld(then) ==
    writing' = held /\ after' = then /\ UNCHANGED <<held, out>>

\* The buffer is taken off the thread, to be written.
Commit(then) ==
    writing' = held /\ held' = <<>> /\ after' = then /\ UNCHANGED out

\* Mutant of CallPython: the barrier is left to a call that holds output.
CallPythonUnwritten(then) ==
    /\ crossed' = TRUE
    /\ after' = then
    /\ UNCHANGED <<held, writing, out>>

\* A barrier: from here on the call cannot be run again, so what it held is written.
CallPython(then) ==
    /\ crossed' = TRUE
    /\ Commit(then)

\* One record is written, as one write.
Write ==
    /\ after # "none" /\ writing # <<>>
    /\ out' = out \o Head(writing)[2]
    /\ writing' = Tail(writing)
    /\ stack' = IF after \in {"python", "flush"} THEN Append(Below, Touch(Top)) ELSE stack
    /\ UNCHANGED <<program, native, held, crossed, after, raising, inPure, printed, wrong, faults>>

\* The write raises: what followed is dropped, as what a raising print came before
\* never ran.  At a barrier that is native code's to catch, at the end the caller's.
WriteRaises ==
    /\ after # "none" /\ writing # <<>> /\ faults < MaxFaults
    /\ faults' = faults + 1
    /\ writing' = <<>> /\ after' = "none"
    /\ raising' = TRUE
    /\ printed' = Len(out)
    /\ stack' = IF after \in {"python", "flush"} THEN stack ELSE Below
    /\ UNCHANGED <<program, native, held, crossed, inPure, out, wrong>>

-----------------------------------------------------------------------------
(* Native code. *)

Quiet == UNCHANGED <<program, native, faults, wrong, inPure>>

Prints ==
    /\ printed < MaxPrinted
    /\ printed' = printed + 1

NativePrint ==
    /\ AtOp("native") /\ Op[1] = "print" /\ Prints
    /\ Put(Op[2]) /\ Advance
    /\ Quiet /\ UNCHANGED <<crossed, writing, after, out, raising>>

\* A check that holds; a call of a native function; a return to its caller; a branch.
Pass ==
    /\ AtOp("native") /\ Op[1] \in {"check", "sanitize"}
    /\ Advance
    /\ Quiet /\ UNCHANGED <<ioVars, raising, printed>>

NativeCall ==
    /\ AtOp("native") /\ Op[1] = "call" /\ Len(Top.at) < MaxDepth
    /\ Replace([Top EXCEPT !.at = Append(@, <<Op[2], 1, 1>>)])
    /\ Quiet /\ UNCHANGED <<ioVars, raising, printed>>

NativeReturn ==
    /\ AtEnd("native") /\ Len(Top.at) > 1
    /\ program.next[Place[1]][Place[2]] = {}
    /\ Replace([Top EXCEPT !.at = Moved(Front(@))])
    /\ Quiet /\ UNCHANGED <<ioVars, raising, printed>>

Branch ==
    /\ AtEnd("native") \/ AtEnd("python")
    /\ \E b \in program.next[Place[1]][Place[2]] :
        Replace([Top EXCEPT !.at = Append(Front(@), <<Place[1], b, 1>>)])
    /\ Quiet /\ UNCHANGED <<ioVars, raising, printed>>

\* ppy_io_call and ppy_io_flush.
ReachBarrier ==
    /\ AtOp("native") /\ Op[1] \in Barriers /\ Len(stack) < MaxDepth
    /\ CallPython(Op[1])
    /\ Quiet /\ UNCHANGED <<stack, raising, printed>>

\* What was held is written: the callee runs, or the stream is flushed.
EnterPython ==
    /\ after = "python" /\ writing = <<>>
    /\ after' = "none"
    /\ stack' = Append(Append(Below, Touch(Top)), Frame("", "python", FALSE))
    /\ Quiet /\ UNCHANGED <<held, crossed, writing, out, raising, printed>>

Flush ==
    /\ after = "flush" /\ writing = <<>>
    /\ after' = "none"
    /\ stack' = Append(Below, [Touch(Top) EXCEPT !.at = Moved(@)])
    /\ Quiet /\ UNCHANGED <<held, crossed, writing, out, raising, printed>>

FlushRaises ==
    /\ after = "flush" /\ writing = <<>> /\ faults < MaxFaults
    /\ faults' = faults + 1
    /\ after' = "none" /\ raising' = TRUE
    /\ stack' = Append(Below, Touch(Top))
    /\ UNCHANGED <<program, native, held, crossed, writing, inPure, out, printed, wrong>>

Raise ==
    /\ AtOp(Top.mode) /\ Op[1] \in {"raise", "odd"}
    /\ raising' = TRUE
    /\ wrong' = (wrong \/ (Op[1] = "odd" /\ Top.mode = "native" /\ crossed))
    /\ UNCHANGED <<program, native, stack, ioVars, inPure, printed, faults>>

\* ppy_io_call_pure: Python runs with the output still held, and the call is not marked.
\* The functions such code calls have no effects of their own, so that no call of them
\* enters or leaves anything here: the callee with all it calls is one run of Python.
PureCall ==
    /\ AtOp(Top.mode) /\ Op[1] = "pure" /\ inPure' = TRUE
    /\ UNCHANGED <<program, native, stack, ioVars, raising, printed, wrong, faults>>

PureReturn ==
    /\ inPure /\ inPure' = FALSE /\ Advance
    /\ UNCHANGED <<program, native, ioVars, raising, printed, wrong, faults>>

\* Python's exception, which becomes the native one.
PureRaise ==
    /\ inPure /\ inPure' = FALSE /\ raising' = TRUE
    /\ UNCHANGED <<program, native, stack, ioVars, printed, wrong, faults>>

\* A `try` around it catches it, or it leaves the function.
Catch ==
    /\ raising /\ after = "none" /\ raising' = FALSE
    /\ stack' = IF Top.at = <<>> THEN stack ELSE Append(Below, [Top EXCEPT !.at = Moved(@)])
    /\ Quiet /\ UNCHANGED <<ioVars, printed>>

Unwind ==
    /\ raising /\ after = "none" /\ Len(Top.at) > 1
    /\ Replace([Top EXCEPT !.at = Front(@)])
    /\ Quiet /\ UNCHANGED <<ioVars, raising, printed>>

-----------------------------------------------------------------------------
(* The end of a native call at the boundary. *)

\* Mutant of Leave: the caller's own mark is lost.
LeaveUnmarked == crossed' = FALSE

\* ppy_io_leave puts back what ppy_io_enter answered.
Leave == crossed' = Top.outer

\* It answered: what it printed is written once its result is read.
Answer ==
    /\ AtEnd("native") /\ Len(Top.at) = 1
    /\ program.next[Place[1]][Place[2]] = {}
    /\ Leave /\ Commit("answer")
    /\ Quiet /\ UNCHANGED <<stack, raising, printed>>

\* What it printed is dropped, and Python runs the call again.
FallBack ==
    /\ Leave /\ held' = <<>>
    /\ Replace([Frame(Top.fn, "python", FALSE) EXCEPT !.first = Top.first])
    /\ printed' = Top.first

\* A check failed: a fallback, or after a barrier the EffectError that is never to be.
CheckFails ==
    /\ AtOp("native") /\ Op[1] = "check"
    /\ IF ~crossed THEN FallBack /\ UNCHANGED <<raising, wrong>>
       ELSE /\ Leave /\ held' = <<>> /\ stack' = Below
            /\ raising' = TRUE /\ wrong' = TRUE /\ printed' = Len(out)
    /\ UNCHANGED <<program, native, writing, after, inPure, out, faults>>

\* An exception left the call: before a barrier Python runs the call again and raises
\* it itself, after one it is raised as it is, what is held written first.
Leaves ==
    /\ raising /\ after = "none" /\ Top.mode = "native" /\ Len(Top.at) = 1
    /\ raising' = FALSE
    /\ IF ~crossed THEN FallBack /\ UNCHANGED <<writing, after, out>>
       ELSE Leave /\ Commit("raise") /\ UNCHANGED <<stack, printed>>
    /\ Quiet

\* A sanitizer's check failed: raised as it is, the output dropped.
Abandon ==
    /\ AtOp("native") /\ Op[1] = "sanitize"
    /\ Leave /\ held' = <<>> /\ stack' = Below
    /\ raising' = TRUE /\ printed' = Len(out)
    /\ Quiet /\ UNCHANGED <<writing, after, out>>

\* All is written: the caller has the answer, or the exception.
Done ==
    /\ after \in {"answer", "raise"} /\ writing = <<>>
    /\ after' = "none"
    /\ stack' = IF after = "raise" THEN Below ELSE Returned
    /\ raising' = (after = "raise")
    /\ Quiet /\ UNCHANGED <<held, crossed, writing, out, printed>>

-----------------------------------------------------------------------------
(* Python: any code, and the bodies of the module's functions. *)

\* ppy_io_enter
Enter == crossed' = FALSE

PythonPrint(stream) ==
    /\ Outside \/ (AtOp("python") /\ Op = <<"print", stream>>)
    /\ Prints /\ out' = Append(out, printed + 1)
    /\ stack' = IF Outside THEN stack ELSE Append(Below, [Top EXCEPT !.at = Moved(@)])
    /\ Quiet /\ UNCHANGED <<held, crossed, writing, after, raising>>

PythonPass ==
    /\ AtOp("python") /\ Op[1] \in {"check", "sanitize", "flush"}
    /\ Advance
    /\ Quiet /\ UNCHANGED <<ioVars, raising, printed>>

\* A call of one of the module's functions: the native one where there is one.
PythonCall(f) ==
    /\ Outside \/ (AtOp("python") /\ Op = <<"call", f>>)
    /\ Len(stack) < MaxDepth
    /\ IF f \in native
       THEN Enter /\ stack' = Append(stack, Frame(f, "native", crossed))
       ELSE UNCHANGED crossed /\ stack' = Append(stack, Frame(f, "python", FALSE))
    /\ Quiet /\ UNCHANGED <<held, writing, after, out, raising, printed>>

PythonCallsOut ==
    /\ AtOp("python") /\ Op[1] = "python" /\ Len(stack) < MaxDepth
    /\ stack' = Append(stack, Frame("", "python", FALSE))
    /\ Quiet /\ UNCHANGED <<ioVars, raising, printed>>

PythonReturn ==
    /\ Len(stack) > 1
    /\ Outside \/ (AtEnd("python") /\ program.next[Place[1]][Place[2]] = {})
    /\ stack' = Returned
    /\ Quiet /\ UNCHANGED <<ioVars, raising, printed>>

\* A callee raises, and an exception that is not caught leaves Python code.
PythonRaise ==
    /\ Outside /\ Len(stack) > 1
    /\ raising' = TRUE /\ stack' = Below
    /\ Quiet /\ UNCHANGED <<ioVars, printed>>

PythonLeaves ==
    /\ raising /\ after = "none" /\ Top.mode = "python" /\ Len(stack) > 1
    /\ stack' = Below
    /\ Quiet /\ UNCHANGED <<ioVars, raising, printed>>

Output == Write \/ WriteRaises \/ EnterPython \/ Flush \/ FlushRaises \/ Done
NativeStep == \/ NativePrint \/ Pass \/ NativeCall \/ NativeReturn \/ Branch
              \/ ReachBarrier \/ PureCall \/ PureReturn \/ PureRaise
              \/ Raise \/ Catch \/ Unwind
              \/ Answer \/ CheckFails \/ Leaves \/ Abandon
PythonStep == \/ \E s \in Streams : PythonPrint(s)
              \/ \E f \in Functions : PythonCall(f)
              \/ PythonPass \/ PythonCallsOut \/ PythonReturn
              \/ PythonRaise \/ PythonLeaves

Next == Output \/ NativeStep \/ PythonStep
Spec == Init /\ [][Next]_vars

-----------------------------------------------------------------------------
(* Properties. *)

Records == Seq(Streams \X Seq(Nat))
\* Among the types: native code calls only functions that went native themselves.
TypeOK ==
    /\ native \subseteq Functions
    /\ Len(stack) \in 1 .. MaxDepth /\ stack[1].fn = ""
    /\ \A i \in DOMAIN stack :
        /\ stack[i].fn \in Functions \cup {""} /\ stack[i].mode \in {"native", "python"}
        /\ stack[i].mode = "native" => stack[i].at # <<>>
        /\ \A p \in DOMAIN stack[i].at :
            /\ stack[i].at[p] \in Functions \X Blocks \X Nat
            /\ stack[i].mode = "native" => stack[i].at[p][1] \in native
    /\ held \in Records /\ writing \in Records
    /\ {crossed, raising, inPure, wrong} \subseteq BOOLEAN
    /\ after \in {"none", "python", "flush", "answer", "raise"}
    /\ after # "none" => Top.mode = "native"
    /\ inPure => after = "none" /\ ~raising /\ Top.at # <<>> /\ Op[1] = "pure"
    /\ out \in Seq(Nat) /\ printed \in 0 .. MaxPrinted /\ faults \in 0 .. MaxFaults

\* The pieces of the records go on from n, one after another; LastPiece, the last of the first r.
LastPiece(n, records, r) == IF r = 0 THEN n ELSE Last(records[r][2])
GoOn(n, records) == \A r \in DOMAIN records :
    /\ records[r][2] # <<>>
    /\ \A k \in DOMAIN records[r][2] : records[r][2][k] = LastPiece(n, records, r - 1) + k

\* What the program printed so far is shown or waits to be, once and in the order of
\* the program, over both streams, whichever calls fell back, raised or were nested.
OutputOnce ==
    LET waiting == writing \o held IN
    /\ out = [i \in 1 .. Len(out) |-> i]
    /\ GoOn(Len(out), waiting)
    /\ LastPiece(Len(out), waiting, Len(waiting)) = printed

\* What Python prints comes after what native code printed before it: output is held
\* only while native code runs, or the pure calls it makes, which print nothing.  Other
\* Python code, and the pure calls made from it, find nothing held.
HeldOnlyByNative == held # <<>> => Top.mode = "native" /\ after = "none"

Entered == {i \in DOMAIN stack :
    stack[i].mode = "native" /\ ~(i = Len(stack) /\ after \in {"answer", "raise"})}
\* The mark of a native call in progress is with the call made meanwhile, if there is one.
Marked(i) == LET inner == {j \in Entered : j > i}
             IN  /\ inner = {} => crossed
                 /\ \A j \in inner : (\A k \in inner : j <= k) => stack[j].outer

\* A native call whose doing was seen, output written or Python called, is marked as
\* crossed until it ends, through all the native calls Python makes meanwhile.
CrossedTold == \A i \in Entered : stack[i].touched => Marked(i)

\* lowering/effects.py:18-24: from a barrier on a call never falls back, and raises
\* nothing that only Python could raise.
NeverBackAfterBarrier == ~wrong

=============================================================================
