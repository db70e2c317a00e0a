----------------------------- MODULE HandleHeap -----------------------------
(***************************************************************************)
(* The memory of the collections runtime (ppy_runtime/collections.c): one  *)
(* thread's handles, their reference counts, the worklist that frees what  *)
(* a freed handle held, the collector of cycles, and the sweep after a     *)
(* native call that failed.                                                *)
(*                                                                         *)
(* The compiled program is what it may do to the handles it can name: copy *)
(* a name, drop one, read a value word, store in one, insert or remove a   *)
(* key.  The runtime runs on the same thread; its loops are steps here, so *)
(* that what it leaves half done between two of them is seen.              *)
(*                                                                         *)
(* A handle is an allocation: an address used again is another handle,     *)
(* until none is left and the addresses that are free are used again.      *)
(***************************************************************************)
EXTENDS Integers, Sequences, FiniteSets, SequencesExt

CONSTANTS
    Handles,      \* the addresses
    Holders,      \* those made for values that may be handles other than strings
    Maps,         \* those made for maps whose keys are objects
    Width,        \* value words of a record
    Threshold,    \* holders made after which `make` collects (700)
    MaxNames,     \* bound: references names and frames keep to one handle
    Null

ASSUME HandlesAssumption ==
    /\ Maps \subseteq Holders /\ Holders \subseteq Handles /\ Null \notin Handles
    /\ IsFiniteSet(Handles)
ASSUME HeapBoundsAssumption ==
    Width \in Nat \ {0} /\ Threshold \in Nat \ {0} /\ MaxNames \in Nat \ {0}

\* A handle's one record: the word of its key, then the words of its values.
KeyPlace == 0
Words == 1 .. Width
Places == 0 .. Width

VARIABLES
    \* the handles in use, what their records hold, their counts
    live, record, refs,
    \* references that names and native frames keep
    names,
    \* the handle being destroyed, and those no one holds that wait for it
    freeing, dying,
    \* holders made since the last collection, and live after it; a call failed since
    made, survived, failed,
    \* what the runtime is at, the handle being made, and the garbage of a collection
    pc, making, toFree

content == <<live, record, refs>>
worklist == <<freeing, dying>>
heapVars == <<content, names, worklist, made, survived, failed, pc, making, toFree>>

Empty == [p \in Places |-> Null]

HeapInit ==
    /\ live = {} /\ record = [h \in Handles |-> Empty]
    /\ refs = [h \in Handles |-> 0] /\ names = [h \in Handles |-> 0]
    /\ freeing = Null /\ dying = <<>>
    /\ made = 0 /\ survived = 0 /\ failed = FALSE
    /\ pc = "run" /\ making = Null /\ toFree = {}

HeapTypeOK ==
    /\ live \subseteq Handles
    /\ record \in [Handles -> [Places -> Handles \cup {Null}]]
    /\ refs \in [Handles -> Nat] /\ names \in [Handles -> 0 .. MaxNames]
    /\ freeing \in Handles \cup {Null} /\ dying \in Seq(Handles)
    /\ made \in Nat /\ survived \in Nat /\ failed \in BOOLEAN
    /\ pc \in {"run", "sweep", "mark", "break", "free", "end", "track"}
    /\ making \in Handles \cup {Null} /\ toFree \subseteq Handles

\* The release that destroys a handle returns once the worklist is drained.
At(place) == pc = place /\ freeing = Null

-----------------------------------------------------------------------------
(* Retain, release and the worklist. *)

\* One reference to h let go of, of the counts there are: one not held any more is
\* destroyed now, or once the handle that is being destroyed is.
Release(counts, h) ==
    /\ refs' = [counts EXCEPT ![h] = @ - 1]
    /\ \/ counts[h] > 1 /\ UNCHANGED worklist
       \/ counts[h] <= 1 /\ freeing = Null /\ freeing' = h /\ UNCHANGED dying
       \/ counts[h] <= 1 /\ freeing # Null /\ dying' = Append(dying, h) /\ UNCHANGED freeing

\* What a place holds is let go of.
LetGo(h, p) ==
    /\ record' = [record EXCEPT ![h][p] = Null]
    /\ Release(refs, record[h][p])

\* Mutant of Held: a destroyed map forgets to let go of its keys.
HeldWithoutKeys(h) == {p \in Words : record[h][p] # Null}

\* The places of h that hold something.
Held(h) == {p \in Places : record[h][p] # Null}

\* The handle being destroyed lets go of its key, then of its values,
Destroy ==
    /\ freeing # Null
    /\ \E p \in Held(freeing) : (\A q \in Held(freeing) : p <= q) /\ LetGo(freeing, p)
    /\ UNCHANGED <<live, names, made, survived, failed, pc, making, toFree>>

\* and is freed; the one that died last is next.
Destroyed ==
    /\ freeing # Null /\ Held(freeing) = {}
    /\ live' = live \ {freeing}
    /\ \/ dying = <<>> /\ freeing' = Null /\ UNCHANGED dying
       \/ dying # <<>> /\ freeing' = Last(dying) /\ dying' = Front(dying)
    /\ UNCHANGED <<record, refs, names, made, survived, failed, pc, making, toFree>>

-----------------------------------------------------------------------------
(* The program. *)

Names == {h \in Handles : names[h] > 0}
Named(h) == At("run") /\ h \in Names

\* Another name for a handle the program has.
Copy(h) ==
    /\ Named(h) /\ names[h] < MaxNames
    /\ names' = [names EXCEPT ![h] = @ + 1]
    /\ refs' = [refs EXCEPT ![h] = @ + 1]
    /\ UNCHANGED <<live, record, worklist, made, survived, failed, pc, making, toFree>>

\* A value read from a record into a name.
Read(h, w) ==
    LET c == record[h][w] IN
    /\ Named(h) /\ c # Null /\ names[c] < MaxNames
    /\ names' = [names EXCEPT ![c] = @ + 1]
    /\ refs' = [refs EXCEPT ![c] = @ + 1]
    /\ UNCHANGED <<live, record, worklist, made, survived, failed, pc, making, toFree>>

\* A name that is rebound, or whose function returns.
Drop(h) ==
    /\ Named(h)
    /\ names' = [names EXCEPT ![h] = @ - 1]
    /\ Release(refs, h)
    /\ UNCHANGED <<live, record, made, survived, failed, pc, making, toFree>>

\* Mutant of Replaced: what is stored is borrowed, not retained.
ReplacedUnretained(h, p, c) ==
    /\ record' = [record EXCEPT ![h][p] = c]
    /\ \/ record[h][p] = Null /\ UNCHANGED <<refs, worklist>>
       \/ record[h][p] # Null /\ Release(refs, record[h][p])

Retained(c) == IF c = Null THEN refs ELSE [refs EXCEPT ![c] = @ + 1]

\* What a place held is let go of after what it holds now was retained.
Replaced(h, p, c) ==
    /\ record' = [record EXCEPT ![h][p] = c]
    /\ \/ record[h][p] = Null /\ refs' = Retained(c) /\ UNCHANGED worklist
       \/ record[h][p] # Null /\ Release(Retained(c), record[h][p])

\* A name's handle, or nothing, stored in a value word.
Store(h, w, c) ==
    /\ Named(h) /\ h \in Holders
    /\ c \in Names \cup {Null}
    /\ Replaced(h, w, c)
    /\ UNCHANGED <<live, names, made, survived, failed, pc, making, toFree>>

\* An object or a string inserted as the key of a map, or the key removed.
StoreKey(h, c) ==
    /\ Named(h) /\ h \in Maps
    /\ c \in (Names \ Maps) \cup {Null}
    /\ Replaced(h, KeyPlace, c)
    /\ UNCHANGED <<live, names, made, survived, failed, pc, making, toFree>>

\* A guard fails and the call falls back: its frames go without letting go of anything.
Fail ==
    /\ At("run") /\ ~failed
    /\ names' = [h \in Handles |-> 0]
    /\ failed' = TRUE
    /\ UNCHANGED <<content, worklist, made, survived, pc, making, toFree>>

-----------------------------------------------------------------------------
(* make, and the sweep it starts with after a failed call. *)

Due(h) == h \in Holders /\ made >= Threshold + survived

Make(h) ==
    /\ At("run") /\ h \notin live
    /\ making' = h
    /\ pc' = IF failed THEN "sweep" ELSE IF Due(h) THEN "mark" ELSE "track"
    /\ UNCHANGED <<content, names, worklist, made, survived, failed, toFree>>

\* Mutant of Sweep: only the handles that may hold handles are freed.
SweepHolders ==
    /\ At("sweep")
    /\ live' = live \ Holders
    /\ record' = [h \in Handles |-> Empty] /\ refs' = [h \in Handles |-> 0]
    /\ made' = 0 /\ survived' = 0 /\ failed' = FALSE
    /\ pc' = "track"
    /\ UNCHANGED <<names, worklist, making, toFree>>

\* Every handle of the thread is freed, whatever its count.
Sweep ==
    /\ At("sweep")
    /\ live' = {}
    /\ record' = [h \in Handles |-> Empty] /\ refs' = [h \in Handles |-> 0]
    /\ made' = 0 /\ survived' = 0 /\ failed' = FALSE
    /\ pc' = "track"
    /\ UNCHANGED <<names, worklist, making, toFree>>

\* The new handle, with the reference of the name it gets.
Track ==
    /\ At("track")
    /\ live' = live \cup {making}
    /\ refs' = [refs EXCEPT ![making] = 1] /\ names' = [names EXCEPT ![making] = 1]
    /\ made' = IF making \in Holders THEN made + 1 ELSE made
    /\ pc' = "run" /\ making' = Null
    /\ UNCHANGED <<record, worklist, survived, failed, toFree>>

-----------------------------------------------------------------------------
(* The collector: trial deletion over the holders. *)

\* gc.collect()
Collect ==
    /\ At("run")
    /\ pc' = "mark"
    /\ UNCHANGED <<content, names, worklist, made, survived, failed, making, toFree>>

Walked == live \cap Holders

\* Mutant of Inner: the references of keys count as a holder's own too.
InnerWithKeys(h) == Cardinality({e \in Walked \X Places : record[e[1]][e[2]] = h})

\* The references h gets from values of the holders walked.
Inner(h) == Cardinality({e \in Walked \X Words : record[e[1]][e[2]] = h})

\* The smallest set with S in it and, with a holder, its values.
ReachedFrom(S) == {h \in Walked : \A T \in SUBSET Walked :
    S \subseteq T /\ (\A g \in T, w \in Words : record[g][w] \in Walked => record[g][w] \in T)
      => h \in T}

\* What is not reached from a holder with a reference from outside is garbage.
Mark ==
    /\ At("mark")
    /\ toFree' = Walked \ ReachedFrom({h \in Walked : refs[h] > Inner(h)})
    /\ pc' = "break"
    /\ UNCHANGED <<content, names, worklist, made, survived, failed, making>>

\* Mutant of Break: a value that is garbage too is released as any other.
BreakReleases(h, w) ==
    /\ At("break") /\ h \in toFree /\ record[h][w] # Null
    /\ LetGo(h, w)
    /\ UNCHANGED <<live, names, made, survived, failed, pc, making, toFree>>

\* A value is taken from a garbage holder: one that is garbage too only loses the
\* reference, any other is released.
Break(h, w) ==
    /\ At("break") /\ h \in toFree /\ record[h][w] # Null
    /\ LET c == record[h][w] IN
        \/ c \notin toFree /\ LetGo(h, w)
        \/ /\ c \in toFree
           /\ record' = [record EXCEPT ![h][w] = Null]
           /\ refs' = [refs EXCEPT ![c] = @ - 1]
           /\ UNCHANGED worklist
    /\ UNCHANGED <<live, names, made, survived, failed, pc, making, toFree>>

Broken ==
    /\ At("break") /\ \A h \in toFree, w \in Words : record[h][w] = Null
    /\ pc' = "free"
    /\ UNCHANGED <<content, names, worklist, made, survived, failed, making, toFree>>

\* Its key is released as usual,
FreeKey(h) ==
    /\ At("free") /\ h \in toFree /\ record[h][KeyPlace] # Null
    /\ LetGo(h, KeyPlace)
    /\ UNCHANGED <<live, names, made, survived, failed, pc, making, toFree>>

\* and it is freed.
Free(h) ==
    /\ At("free") /\ h \in toFree /\ record[h][KeyPlace] = Null
    /\ live' = live \ {h}
    /\ toFree' = toFree \ {h}
    /\ UNCHANGED <<record, refs, names, worklist, made, survived, failed, pc, making>>

Freed ==
    /\ At("free") /\ toFree = {}
    /\ pc' = "end"
    /\ UNCHANGED <<content, names, worklist, made, survived, failed, making, toFree>>

EndCollect ==
    /\ At("end")
    /\ made' = 0 /\ survived' = Cardinality(Walked)
    /\ pc' = IF making = Null THEN "run" ELSE "track"
    /\ UNCHANGED <<content, names, worklist, failed, making, toFree>>

Program ==
    \/ \E h \in Handles : Copy(h) \/ Drop(h) \/ Make(h)
    \/ \E h \in Handles, w \in Words : Read(h, w)
    \/ \E h \in Handles, w \in Words, c \in Handles \cup {Null} : Store(h, w, c)
    \/ \E h \in Handles, c \in Handles \cup {Null} : StoreKey(h, c)
    \/ Fail \/ Collect
Runtime ==
    \/ Destroy \/ Destroyed \/ Sweep \/ Track \/ Mark \/ Broken \/ Freed \/ EndCollect
    \/ \E h \in Handles, w \in Words : Break(h, w)
    \/ \E h \in Handles : FreeKey(h) \/ Free(h)

HeapNext == Program \/ Runtime
HeapSpec == HeapInit /\ [][HeapNext]_heapVars

-----------------------------------------------------------------------------
(* Properties. *)

\* The places where live handles hold h.
HeldBy(h) == Cardinality({e \in live \X Places : record[e[1]][e[2]] = h})

\* While no call has failed, a count is exactly the references there are: from names,
\* and from words and keys of handles not freed, half done releases included.
CountsExact == ~failed => \A h \in live : refs[h] = names[h] + HeldBy(h)

\* Nothing the program or a live handle can reach is freed: no name, word or key is
\* the address of a freed handle, and what waits to be freed is still there, once, so
\* that nothing is freed twice.
NothingDangles ==
    /\ \A h \in Handles : names[h] > 0 => h \in live
    /\ \A h \in live, p \in Places : record[h][p] \in live \cup {Null}
    /\ \A i \in DOMAIN dying : dying[i] \in live \ {freeing} /\ names[dying[i]] = 0
    /\ \A i, j \in DOMAIN dying : dying[i] = dying[j] => i = j
    /\ freeing # Null => freeing \in live \ toFree /\ names[freeing] = 0
    /\ toFree \subseteq live

\* Counting frees at once: at rest each live handle has a reference.
FreedAtOnce == At("run") /\ ~failed => \A h \in live : names[h] > 0 \/ HeldBy(h) > 0

\* What live handles are reachable from S, through values and keys.
Reachable(S) == {h \in live : \A T \in SUBSET live :
    S \subseteq T
      /\ (\A g \in T, p \in Places : record[g][p] # Null => record[g][p] \in T)
      => h \in T}

KeysHeld == {record[m][KeyPlace] : m \in live} \ {Null}

\* What a collection takes for garbage is what nothing can reach any more, from the
\* names and from the keys of maps, and only that.
GarbageExact ==
    [][pc = "mark" /\ pc' = "break" /\ ~failed =>
         toFree' = Walked \ Reachable(Names \cup KeysHeld)]_heapVars

=============================================================================
