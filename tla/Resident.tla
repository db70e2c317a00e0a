------------------------------- MODULE Resident ------------------------------
(***************************************************************************)
(* Resident objects (backend/llvm/crossing.c, with `ppy_coll_touch` of     *)
(* ppy_runtime/collections.c and the wrapper of backend/llvm/wrapper.py):  *)
(* an object that crosses into native code again keeps its native record,  *)
(* and the two are kept the same from outside: Python's writes mark the    *)
(* record stale, native writes put it on a list that is copied back when   *)
(* the call answers.                                                       *)
(*                                                                         *)
(* An object has a number and a reference to another object.  A name of    *)
(* Objects is an address, which a new object may take over from a dead     *)
(* one.  All of this runs with the GIL, save the threads of a native call; *)
(* what the GIL makes one piece is one step.                               *)
(***************************************************************************)
EXTENDS Integers, Sequences, FiniteSets, SequencesExt

CONSTANTS
    Objects,    \* the addresses of Python objects
    Handles,    \* the native records there may be
    Workers,    \* the threads of a native call
    Numbers,    \* what a number may be
    PurgeAt,    \* how many objects die before their records are let go of (64)
    Faults,     \* what may go wrong: "memory", and "odd" fields
    MaxPython,  \* bound: the steps of the Python program, before the last call
    MaxStores,  \* bound: the native stores of a call
    MaxCalls,   \* bound: the resident calls
    Odd,        \* a field deleted, or of another type
    Null

ASSUME ResidentAssumption ==
    /\ Null \notin Objects \cup Handles \cup Numbers \cup Workers \cup {Odd}
    /\ Numbers # {} /\ Odd \notin Numbers
    /\ IsFiniteSet(Objects) /\ IsFiniteSet(Handles)
    /\ PurgeAt \in Nat \ {0} /\ Faults \subseteq {"memory", "odd"}
    /\ MaxPython \in Nat /\ MaxStores \in Nat /\ MaxCalls \in Nat

VARIABLES
    \* Python: the living objects, their fields, whether their class is still plain
    alive, py, plain,
    \* the world: is it on, has a class changed, must every entry be looked at, the
    \* entries by handle, the list of stale ones, how many died
    enabled, changed, rescan, entry, staleList, dead,
    \* native memory: the handles there are, their records, word 19 of their headers,
    \* the list of touched ones, who holds its lock
    heap, rec, mark, touched, lock,
    \* the call: the object it is being made with, that one's handle, the handles it made
    crossing, arg, made,
    \* each thread: what it is work, to which handle, the list's length it read
    work, at, length,
    \* the steps taken of what is bounded
    pythons, stores, calls

pythonVars == <<alive, py, plain>>
worldVars  == <<enabled, changed, rescan, entry, staleList, dead>>
nativeVars == <<heap, rec, mark, touched, lock>>
callVars   == <<crossing, arg, made>>
workerVars == <<work, at, length>>
boundVars  == <<pythons, stores, calls>>
residentVars == <<pythonVars, worldVars, nativeVars, callVars, workerVars, boundVars>>

NoEntry == [obj |-> Null, live |-> FALSE, stale |-> FALSE]
Zero == [number |-> Null, next |-> Null]
Live == {h \in Handles : entry[h].live}

Fields == [number : Numbers \cup {Odd, Null}, next : Objects \cup {Null}]
Entries == [Handles -> {NoEntry} \cup [obj : Objects, live : BOOLEAN, stale : BOOLEAN]]
Records == [Handles -> [number : Numbers \cup {Null}, next : Handles \cup {Null}]]
PythonTypes ==
    alive \subseteq Objects /\ plain \in BOOLEAN /\ py \in [Objects -> Fields]
WorldTypes ==
    /\ enabled \in BOOLEAN /\ changed \in BOOLEAN /\ rescan \in BOOLEAN
    /\ entry \in Entries /\ staleList \subseteq Handles /\ dead \in Nat
NativeTypes ==
    /\ heap \subseteq Handles /\ rec \in Records /\ mark \in [Handles -> {"none", "clean", "dirty"}]
    /\ touched \in Seq(Handles) /\ lock \in Workers \cup {Null}
CallTypes ==
    /\ crossing \in Objects \cup {Null} /\ arg \in Handles \cup {Null} /\ made \subseteq heap
    /\ calls \in 0 .. MaxCalls /\ pythons \in 0 .. MaxPython /\ stores \in 0 .. MaxStores
WorkerTypes ==
    /\ work \in [Workers -> {"idle", "check", "spin", "append"}]
    /\ at \in [Workers -> Handles \cup {Null}] /\ length \in [Workers -> Nat]
ResidentTypeOK == PythonTypes /\ WorldTypes /\ NativeTypes /\ CallTypes /\ WorkerTypes

ResidentInit ==
    /\ alive = Objects /\ plain = TRUE
    /\ py \in [Objects -> [number : {CHOOSE n \in Numbers : TRUE}, next : Objects \cup {Null}]]
    /\ enabled = TRUE /\ changed = FALSE /\ rescan = FALSE
    /\ entry = [h \in Handles |-> NoEntry] /\ staleList = {} /\ dead = 0
    /\ heap = {} /\ rec = [h \in Handles |-> Zero] /\ mark = [h \in Handles |-> "none"]
    /\ touched = <<>> /\ lock = Null
    /\ crossing = Null /\ arg = Null /\ made = {}
    /\ work = [t \in Workers |-> "idle"] /\ at = [t \in Workers |-> Null]
    /\ length = [t \in Workers |-> 0]
    /\ pythons = 0 /\ stores = 0 /\ calls = 0

-----------------------------------------------------------------------------
(* Handles, entries and what they stand for. *)

\* The smallest set with `from` in it and, with x, what x refers to.
Reach(from, to) == {x \in DOMAIN to : \A T \in SUBSET DOMAIN to :
    from \subseteq T /\ (\A y \in T : to[y] \in T \cup {Null}) => x \in T}
NextOf(records) == [x \in DOMAIN records |-> records[x].next]

\* `px_res_by_obj`: the entry of an object, while it lives.
EntryOf(entries, o) == {h \in Handles : entries[h].obj = o /\ entries[h].live}
HandleOf(entries, o) == IF o = Null THEN Null ELSE CHOOSE h \in EntryOf(entries, o) : TRUE

\* A record's words, read from its object; every object it names has an entry.
Read(entries, o) == [number |-> py[o].number, next |-> HandleOf(entries, py[o].next)]

\* The objects of `place` entered, each with its handle.
Entered(place, entries) ==
    [h \in Handles |-> IF \E p \in DOMAIN place : place[p] = h
                       THEN [obj |-> CHOOSE p \in DOMAIN place : place[p] = h,
                             live |-> TRUE, stale |-> FALSE]
                       ELSE entries[h]]

\* The handles held: by the world, by the call, and by the records of those.
Held(entries, records, others) ==
    Reach({h \in Handles : entries[h] # NoEntry} \cup others, NextOf(records))

\* Mutant of MarkStale: without memory for the list there is only the flag.
MarkStaleUnlisted(hs) ==
    /\ entry' = [h \in Handles |-> IF h \in hs THEN [entry[h] EXCEPT !.stale = TRUE]
                                   ELSE entry[h]]
    /\ LET fresh == {h \in hs : ~entry[h].stale} IN
       \/ staleList' = staleList \cup fresh /\ UNCHANGED rescan
       \/ fresh # {} /\ "memory" \in Faults /\ UNCHANGED <<rescan, staleList>>

\* `px_res_stale`: the flag, and the list, one of many short of room: without memory
\* for it, every entry is looked at again.
MarkStale(hs) ==
    /\ entry' = [h \in Handles |-> IF h \in hs THEN [entry[h] EXCEPT !.stale = TRUE]
                                   ELSE entry[h]]
    /\ LET fresh == {h \in hs : ~entry[h].stale} IN
       \/ staleList' = staleList \cup fresh /\ UNCHANGED rescan
       \/ fresh # {} /\ "memory" \in Faults /\ rescan' = TRUE /\ UNCHANGED staleList

-----------------------------------------------------------------------------
(* The Python program, between calls: a resident call keeps the GIL. *)

PythonRuns ==
    /\ crossing = Null /\ calls < MaxCalls /\ pythons < MaxPython /\ pythons' = pythons + 1
    /\ UNCHANGED <<nativeVars, callVars, workerVars, stores, calls>>

\* An attribute set or deleted, by Python or by a call that copied: the dict is watched.
Write(o, fields) ==
    /\ PythonRuns /\ o \in alive
    /\ fields # py[o] /\ fields.next \in alive \cup {Null}
    /\ fields.number = Odd => "odd" \in Faults
    /\ py' = [py EXCEPT ![o] = fields]
    /\ MarkStale(EntryOf(entry, o))
    /\ UNCHANGED <<alive, plain, enabled, changed, dead>>

\* Objects nothing refers to die: their weak references say so.
Die(os) ==
    /\ PythonRuns /\ os # {}
    /\ \A p \in alive \ os : py[p].next \notin os
    /\ alive' = alive \ os
    /\ py' = [o \in Objects |-> IF o \in os THEN Zero ELSE py[o]]
    /\ entry' = [h \in Handles |-> IF entry[h].obj \in os THEN [entry[h] EXCEPT !.live = FALSE]
                                   ELSE entry[h]]
    /\ dead' = dead + Cardinality({h \in Live : entry[h].obj \in os})
    /\ UNCHANGED <<plain, enabled, changed, rescan, staleList>>

\* A new object, at an address a dead one left.
Make(o, fields) ==
    /\ PythonRuns /\ o \notin alive
    /\ fields.number # Odd /\ fields.next \in alive \cup {o, Null}
    /\ alive' = alive \cup {o} /\ py' = [py EXCEPT ![o] = fields]
    /\ UNCHANGED <<plain, worldVars>>

\* A class changes; it may get a data descriptor named like a field.
ChangeClass ==
    /\ PythonRuns
    /\ changed' = TRUE /\ plain' \in {plain, FALSE}
    /\ UNCHANGED <<alive, py, enabled, rescan, entry, staleList, dead>>

-----------------------------------------------------------------------------
(* The beginning of a resident call: `px_world_ready`, then the argument. *)

\* The objects read when `from` is: those without an entry are admitted on the way, each
\* found in a field of the one before, as far as a field that is refused.
Met(entries, from) ==
    Reach(from, [p \in alive |-> IF py[p].number = Odd \/ EntryOf(entries, py[p].next) # {}
                                 THEN Null ELSE py[p].next])

\* `px_res_add`: an entry, and a handle of no one else's, for each of them.
New(entries, objs) == {p \in objs : EntryOf(entries, p) = {}}
Spare(entries) == Handles \ Held(entries, rec, {})
Room(entries, objs) == Cardinality(New(entries, objs)) <= Cardinality(Spare(entries))
Admitted(entries, objs) ==
    LET new   == New(entries, objs)
        spare == Spare(entries)
        place == CHOOSE f \in [new -> spare] : \A p, q \in new : f[p] = f[q] => p = q
    IN Entered(place, entries)

\* The entries dropped, the records of `hs` read again, the rest of them empty.
Settle(entries, hs, odd) ==
    LET words == [h \in Handles |->
                    IF h \in hs THEN Read(entries, entries[h].obj)
                    ELSE IF entries[h] = NoEntry \/ h \in odd THEN Zero ELSE rec[h]]
    IN /\ rec' = words
       /\ heap' = Held(entries, words, {})
       /\ mark' = [h \in Handles |-> IF h \in hs THEN "clean"
                                     ELSE IF entries[h] = NoEntry \/ h \in odd THEN "none"
                                     ELSE mark[h]]

\* `px_world_clear`: the records emptied, and let go of.
Cleared == [h \in Handles |-> NoEntry]
LetGo ==
    /\ entry' = Cleared /\ staleList' = {} /\ rescan' = FALSE /\ dead' = 0
    /\ heap' = {} /\ rec' = [h \in Handles |-> Zero] /\ mark' = [h \in Handles |-> "none"]

\* A resident call with an argument; the first call with one copies (`Write` is what such
\* a call does), and which that was is left out.
Begins(o) ==
    /\ crossing = Null /\ calls < MaxCalls /\ enabled
    /\ o \in alive
    /\ calls' = calls + 1 /\ changed' = FALSE
    /\ UNCHANGED <<pythonVars, touched, lock, arg, made, workerVars, pythons, stores>>

\* A class is plain no more: nothing is resident from then on, and the call copies.
Disable(o) ==
    /\ Begins(o) /\ changed /\ ~plain
    /\ enabled' = FALSE
    /\ LetGo
    /\ UNCHANGED crossing

\* The entries looked at again: those on the list, or every one.
ToRefresh == {h \in Handles : entry[h].stale /\ (rescan \/ h \in staleList)}
Again == {entry[h].obj : h \in ToRefresh \cap Live}
Refused == \E p \in Met(entry, Again) : py[p].number = Odd

\* `px_refresh`: every stale record read again.
Refresh(o) ==
    /\ Begins(o) /\ (changed => plain) /\ ~Refused /\ Room(entry, Met(entry, Again))
    /\ crossing' = o
    /\ LET met  == Met(entry, Again)
           full == Admitted([h \in Handles |-> IF h \in ToRefresh
                                               THEN [entry[h] EXCEPT !.stale = FALSE]
                                               ELSE entry[h]], met)
       IN /\ entry' = full
          /\ Settle(full, {h \in Handles : full[h].live /\ full[h].obj \in met}, {})
    /\ staleList' = {} /\ rescan' = FALSE
    /\ UNCHANGED <<enabled, dead>>

\* A field refused there lets the whole world go; the argument is admitted afresh.
RefreshRefused(o) ==
    /\ Begins(o) /\ (changed => plain) /\ Refused
    /\ crossing' = o
    /\ LetGo
    /\ UNCHANGED enabled

Crosses ==
    /\ crossing # Null /\ arg = Null
    /\ UNCHANGED <<pythonVars, enabled, changed, touched, lock, made, workerVars,
                   pythons, calls>>

\* `px_world_purge`: the records of the dead let go of, once there are many.  A stale
\* entry goes on a new list; right after `px_refresh` none of the living has one.
Purgeable == dead >= PurgeAt /\ dead * 2 >= Cardinality({h \in Handles : entry[h] # NoEntry})
Purge ==
    /\ Crosses /\ Purgeable
    /\ LET kept == [h \in Handles |-> IF entry[h].live THEN entry[h] ELSE NoEntry]
       IN entry' = kept /\ Settle(kept, {}, {})
    /\ staleList' = {h \in Live : entry[h].stale} /\ rescan' = FALSE /\ dead' = 0
    /\ UNCHANGED <<crossing, arg, stores>>

\* `px_resident_in`: the argument is read where it has no record, and native code runs; or
\* a field of another type is met, the call is refused, and what was not read stays stale.
\* Without memory a purge does nothing, and without room on the list every entry is looked
\* at again.
Cross ==
    /\ Crosses /\ (Purgeable => "memory" \in Faults)
    /\ LET met  == IF EntryOf(entry, crossing) # {} THEN {} ELSE Met(entry, {crossing})
           full == Admitted(entry, met)
           mine == {h \in Handles : full[h].live /\ full[h].obj \in met}
           odd  == {h \in mine : py[full[h].obj].number = Odd}
       IN /\ Room(entry, met)
          /\ entry' = [h \in Handles |-> IF h \in odd THEN [full[h] EXCEPT !.stale = TRUE]
                                         ELSE full[h]]
          /\ \/ staleList' = staleList \cup odd /\ UNCHANGED rescan
             \/ odd # {} /\ "memory" \in Faults /\ rescan' = TRUE /\ UNCHANGED staleList
          /\ Settle(full, mine \ odd, odd)
          /\ IF odd = {} THEN arg' = HandleOf(full, crossing) /\ UNCHANGED crossing
                         ELSE crossing' = Null /\ UNCHANGED arg
    /\ stores' = 0
    /\ UNCHANGED dead

-----------------------------------------------------------------------------
(* Native code, on its threads. *)

NativeRuns ==
    /\ arg # Null
    /\ UNCHANGED <<pythonVars, worldVars, crossing, arg, pythons, calls>>

Reached == Reach({arg} \cup made, NextOf(rec))

\* An object made by native code; Python will need an address for it.
Instance ==
    /\ NativeRuns
    /\ Cardinality(made) < Cardinality(Objects \ alive) /\ heap # Handles
    /\ LET h == CHOOSE g \in Handles : g \notin heap IN
        /\ heap' = heap \cup {h} /\ made' = made \cup {h}
        /\ rec' = [rec EXCEPT ![h] = [number |-> CHOOSE n \in Numbers : TRUE, next |-> Null]]
        /\ mark' = [mark EXCEPT ![h] = "none"]
    /\ UNCHANGED <<touched, lock, workerVars, stores>>

\* `_field_store`: the field first, the mark after it.
StoreField(t, h, fields) ==
    /\ NativeRuns /\ work[t] = "idle" /\ h \in Reached
    /\ stores < MaxStores /\ stores' = stores + 1
    /\ fields # rec[h] /\ fields.next \in Reached \cup {Null}
    /\ rec' = [rec EXCEPT ![h] = fields]
    /\ work' = [work EXCEPT ![t] = "check"] /\ at' = [at EXCEPT ![t] = h]
    /\ UNCHANGED <<heap, mark, touched, lock, made, length>>

\* `_touch`, and the exchange of `ppy_coll_touch`: the first to write a record adds it.
Check(t) ==
    /\ NativeRuns /\ work[t] = "check"
    /\ IF mark[at[t]] = "clean"
       THEN /\ mark' = [mark EXCEPT ![at[t]] = "dirty"]
            /\ work' = [work EXCEPT ![t] = "spin"] /\ UNCHANGED at
       ELSE /\ work' = [work EXCEPT ![t] = "idle"] /\ at' = [at EXCEPT ![t] = Null]
            /\ UNCHANGED mark
    /\ UNCHANGED <<heap, rec, touched, lock, made, length, stores>>

\* Mutant of Spin: the lock is not waited for.
SpinNotAtAll(t) ==
    /\ NativeRuns /\ work[t] = "spin"
    /\ lock' = t /\ length' = [length EXCEPT ![t] = Len(touched)]
    /\ work' = [work EXCEPT ![t] = "append"]
    /\ UNCHANGED <<heap, rec, mark, touched, made, at, stores>>

\* The lock is taken and the list read; the list is written and the lock let go of.
Spin(t) ==
    /\ NativeRuns /\ work[t] = "spin" /\ lock = Null
    /\ lock' = t /\ length' = [length EXCEPT ![t] = Len(touched)]
    /\ work' = [work EXCEPT ![t] = "append"]
    /\ UNCHANGED <<heap, rec, mark, touched, made, at, stores>>

AddTouched(t) ==
    /\ NativeRuns /\ work[t] = "append"
    /\ touched' = Append(SubSeq(touched, 1, length[t]), at[t])
    /\ lock' = Null /\ length' = [length EXCEPT ![t] = 0]
    /\ work' = [work EXCEPT ![t] = "idle"] /\ at' = [at EXCEPT ![t] = Null]
    /\ UNCHANGED <<heap, rec, mark, made, stores>>

-----------------------------------------------------------------------------
(* The end of the call: every thread is done, its threads joined. *)

Ends ==
    /\ arg # Null /\ \A t \in Workers : work[t] = "idle"
    /\ crossing' = Null /\ arg' = Null /\ made' = {} /\ touched' = <<>>
    /\ UNCHANGED <<plain, enabled, changed, lock, workerVars, boundVars>>

\* What native code made and linked into what is copied back, and where Python makes it.
Linked(written) == Reach(written, NextOf(rec)) \cap made
Address == CHOOSE f \in [made -> Objects \ alive] : \A g, h \in made : f[g] = f[h] => g = h
ObjectOf(h) == IF h = Null THEN Null
               ELSE IF h \in made THEN Address[h] ELSE entry[h].obj
Copied(h) == [number |-> rec[h].number, next |-> ObjectOf(rec[h].next)]

\* `px_drain`: the fields of each touched record set on its object, what native code made
\* and linked in made in Python too, and admitted.
Drain ==
    /\ Ends
    /\ LET written == Range(touched) \cap Live
           linked  == Linked(written)
           full    == Entered([o \in {Address[h] : h \in linked} |->
                                 CHOOSE h \in linked : Address[h] = o], entry)
           out     == written \cup linked
       IN /\ alive' = alive \cup {Address[h] : h \in linked}
          /\ py' = [o \in Objects |-> IF \E h \in out : full[h].obj = o
                                      THEN Copied(CHOOSE h \in out : full[h].obj = o)
                                      ELSE py[o]]
          /\ entry' = full
          /\ heap' = Held(full, rec, {})
          /\ rec' = [h \in Handles |-> IF h \in heap' THEN rec[h] ELSE Zero]
          /\ mark' = [h \in Handles |-> IF h \in out THEN "clean" ELSE mark[h]]
    /\ UNCHANGED <<rescan, staleList, dead>>

\* Out of memory after some of them, and perhaps after the number of the next: the rest is
\* scrapped, and the world goes.
DrainFails ==
    /\ Ends /\ "memory" \in Faults
    /\ \E n \in 0 .. Len(touched) - 1, half \in BOOLEAN :
        LET written == Range(SubSeq(touched, 1, n)) \cap Live
            linked  == Linked(written)
        IN /\ alive' = alive \cup {Address[h] : h \in linked}
           /\ py' = [o \in Objects |->
                IF \E h \in written : entry[h].obj = o
                THEN Copied(CHOOSE h \in written : entry[h].obj = o)
                ELSE IF \E h \in linked : Address[h] = o
                THEN Copied(CHOOSE h \in linked : Address[h] = o)
                ELSE IF half /\ o \in alive /\ touched[n + 1] \in EntryOf(entry, o)
                THEN [py[o] EXCEPT !.number = rec[touched[n + 1]].number]
                ELSE py[o]]
    /\ LetGo

\* Mutant of Scrapped: the record is only to be read again.
ScrappedWhole(h) == rec[h]

\* `px_scrap`: a written record lets go of what the failed call made, and is stale.
Scrapped(h) ==
    IF h \in Range(touched) /\ rec[h].next \in made THEN [rec[h] EXCEPT !.next = Null]
    ELSE rec[h]

\* `px_resident_end` after a call that did not answer: the sweep frees what it made.
CallFails ==
    /\ Ends
    /\ heap' = heap \ made
    /\ rec' = [h \in Handles |-> IF h \in made THEN Zero ELSE Scrapped(h)]
    /\ mark' = [h \in Handles |-> IF h \in Range(touched) THEN "clean" ELSE mark[h]]
    /\ MarkStale(Range(touched) \cap Live)
    /\ UNCHANGED <<alive, py, dead>>

-----------------------------------------------------------------------------
ResidentNext ==
    \/ \E o \in Objects, n \in Numbers \cup {Odd}, p \in Objects \cup {Null} :
        \/ Write(o, [number |-> n, next |-> p])
        \/ Make(o, [number |-> n, next |-> p])
    \/ \E os \in SUBSET alive : Die(os)
    \/ \E o \in Objects : Disable(o) \/ Refresh(o) \/ RefreshRefused(o)
    \/ ChangeClass \/ Purge \/ Cross
    \/ Instance
    \/ \E t \in Workers, h \in Handles, n \in Numbers, g \in Handles \cup {Null} :
        StoreField(t, h, [number |-> n, next |-> g])
    \/ \E t \in Workers : Check(t) \/ Spin(t) \/ AddTouched(t)
    \/ Drain \/ DrainFails \/ CallFails

ResidentSpec == ResidentInit /\ [][ResidentNext]_residentVars

-----------------------------------------------------------------------------
(* The record says what the object says. *)
Matches(h) ==
    LET o == entry[h].obj IN
    /\ rec[h].number = py[o].number
    /\ IF py[o].next = Null THEN rec[h].next = Null
       ELSE rec[h].next \in EntryOf(entry, py[o].next)

\* Between calls every record says what its object says, unless the next call knows to
\* read it again: whatever Python wrote, whatever native code wrote, and after a call
\* that failed half way ("Python stays the truth", crossing.c 846-848).
Coherent ==
    crossing = Null => \A h \in Live : IF entry[h].stale THEN rescan \/ h \in staleList
                                  ELSE Matches(h)

\* What native code reads is what Python would: each record it can reach is its own or a
\* living object's, and differs from the object only where this call wrote it, when it is,
\* or is about to be, on the list of those to copy back, whichever threads write at once.
NativeSeesPython ==
    arg # Null => \A h \in Reached \ made :
        /\ h \in Live /\ ~entry[h].stale
        /\ \/ Matches(h) \/ h \in Range(touched)
           \/ \E t \in Workers : at[t] = h

\* Between calls a record names no handle that was freed: neither what a failed call made,
\* which its sweep frees, nor the record of a dead object, which a purge lets go of.
NothingFreedIsNamed ==
    crossing = Null => \A h \in heap : rec[h].next \in heap \cup {Null}
=============================================================================
