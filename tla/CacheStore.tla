----------------------------- MODULE CacheStore -----------------------------
(***************************************************************************)
(* The build cache: the artifact store (ppy_compiler/cache/store.py) under *)
(* the builds that use it (`build_python` of driver/pipeline.py, `emit` of *)
(* backend/python/emit.py) and the commands `ppy cache gc` and `clean`.    *)
(*                                                                         *)
(* Several processes share one directory: objects named by their content,  *)
(* and an SQLite index of which key has which object.  A step is one       *)
(* statement of the index or one call of the file system; processes        *)
(* interleave between steps, crash, and find the index busy or damaged.    *)
(*                                                                         *)
(* A module has two artifacts, its code and its line map; their keys stand *)
(* for their contents too, which the keys determine.                       *)
(***************************************************************************)
EXTENDS Integers, FiniteSets

CONSTANTS
    Procs,        \* the processes
    Modules,      \* the modules they build
    Imports,      \* Imports[m]: the project's modules m imports
    Files,        \* bound: the index files there will ever be
    MaxCommands,  \* bound: the commands begun
    Attempts,     \* _ATTEMPTS
    Aging,        \* may an artifact expire, or be over the budget, at a gc?
    Faults,       \* what may go wrong around the processes
    None

ASSUME SetsAssumption ==
    /\ Procs \cap Files = {} /\ None \notin Procs \cup Files
    /\ Imports \in [Modules -> SUBSET Modules]
    /\ IsFiniteSet(Procs) /\ IsFiniteSet(Files) /\ Cardinality(Files) >= Cardinality(Procs)
ASSUME BoundsAssumption == Attempts \in Nat \ {0} /\ MaxCommands \in Nat /\ Aging \in BOOLEAN
ASSUME FaultsAssumption == Faults \subseteq {"busy", "full", "damage", "crash"}

Artifacts == {"code", "map"}
Keys == Modules \X Artifacts
\* What `build_python` records as the key of an import: computed without the fusion
\* plan that is part of every stored key, so no artifact has it.
ImportKeys == Modules \X {"import"}
DependsOn(k) == IF k[2] = "code" THEN Imports[k[1]] \X {"import"} ELSE {}

VARIABLES
    \* the directory: objects, each process's unfinished one, index.sqlite
    disk, draft, current,
    \* the index files (and each process's in-memory one), and the damaged ones
    index, damaged,
    \* each process: where it is and goes on after opening the index, its
    \* connection, whether its store is disabled, the try of the put at hand
    pc, then, conn, disabled, attempt,
    \* a build: its module, the artifact at hand, what it delivers; a gc: the keys
    \* it keeps, deletes and takes for referenced, those it is at or has yet to visit
    job, part, answer, keep, doomed, referenced, toVisit,
    \* whether a put of the build gave up after its last try
    dropped,
    \* history: the commands begun, whether a gc or a clean was, or an index damaged
    begun, collected, cleaned, struck

dirVars   == <<disk, draft, current>>
indexVars == <<index, damaged>>
storeVars == <<conn, disabled, attempt, dropped>>
buildVars == <<job, part, answer>>
gcVars    == <<keep, doomed, referenced, toVisit>>
history   == <<begun, collected, cleaned, struck>>
vars == <<dirVars, indexVars, pc, then, storeVars, buildVars, gcVars, history>>

BuildPCs == {"select", "check", "touch", "forget", "load", "write", "replace", "record",
             "retry", "root", "deliver"}
GcPCs == {"reach", "candidates", "delete", "undepend", "visit"}
PCs == {"idle", "open", "quarantine", "reopen", "wipe", "unlink"} \cup BuildPCs \cup GcPCs

Empty == [rows |-> {}, deps |-> {}, roots |-> {}]

TypeOK ==
    /\ disk \subseteq Keys
    /\ draft \in [Procs -> Keys \cup {None}]
    /\ current \in Files \cup {None} /\ damaged \subseteq Files
    /\ index \in [Files \cup Procs -> [rows  : SUBSET Keys,
                                       deps  : SUBSET (Keys \X ImportKeys),
                                       roots : SUBSET Keys]]
    /\ pc \in [Procs -> PCs] /\ then \in [Procs -> PCs]
    /\ conn \in [Procs -> Files \cup Procs \cup {None}]
    /\ \A p \in Procs : conn[p] \in Procs => conn[p] = p
    /\ disabled \in [Procs -> BOOLEAN] /\ attempt \in [Procs -> 1 .. Attempts]
    /\ dropped \in [Procs -> BOOLEAN]
    /\ job \in [Procs -> Modules] /\ part \in [Procs -> Artifacts]
    /\ answer \in [Procs -> {"none", "whole"}]
    /\ keep \in [Procs -> SUBSET (Keys \cup ImportKeys)]
    /\ \A v \in {doomed, referenced, toVisit} : v \in [Procs -> SUBSET Keys]
    /\ begun \in 0 .. MaxCommands
    /\ collected \in BOOLEAN /\ cleaned \in BOOLEAN /\ struck \in BOOLEAN

\* A process starts with nothing of an earlier one.
Fresh(p) ==
    /\ conn' = [conn EXCEPT ![p] = None]
    /\ disabled' = [disabled EXCEPT ![p] = FALSE]
    /\ attempt' = [attempt EXCEPT ![p] = 1] /\ dropped' = [dropped EXCEPT ![p] = FALSE]
    /\ draft' = [draft EXCEPT ![p] = None]
    /\ index' = [index EXCEPT ![p] = Empty]
    /\ part' = [part EXCEPT ![p] = "code"]
    /\ answer' = [answer EXCEPT ![p] = "none"]
    /\ keep' = [keep EXCEPT ![p] = {}] /\ doomed' = [doomed EXCEPT ![p] = {}]
    /\ referenced' = [referenced EXCEPT ![p] = {}] /\ toVisit' = [toVisit EXCEPT ![p] = {}]

\* The index an earlier build of the modules `built` leaves.
Built(built) == [rows  |-> built \X Artifacts,
                 deps  |-> UNION {{<<m, "code">>} \X DependsOn(<<m, "code">>) : m \in built},
                 roots |-> built \X {"code"}]

\* An empty cache, or what an earlier build left.
Init ==
    /\ \E built \in {{}, Modules}, f \in Files :
        /\ disk = built \X Artifacts
        /\ current = IF built = {} THEN None ELSE f
        /\ index = [i \in Files \cup Procs |-> IF i = f THEN Built(built) ELSE Empty]
    /\ draft = [p \in Procs |-> None] /\ damaged = {}
    /\ pc = [p \in Procs |-> "idle"] /\ then = [p \in Procs |-> "idle"]
    /\ conn = [p \in Procs |-> None]
    /\ disabled = [p \in Procs |-> FALSE] /\ attempt = [p \in Procs |-> 1]
    /\ dropped = [p \in Procs |-> FALSE]
    /\ job \in [Procs -> Modules] /\ part = [p \in Procs |-> "code"]
    /\ answer = [p \in Procs |-> "none"]
    /\ keep = [p \in Procs |-> {}] /\ doomed = [p \in Procs |-> {}]
    /\ referenced = [p \in Procs |-> {}] /\ toVisit = [p \in Procs |-> {}]
    /\ begun = 0 /\ collected = FALSE /\ cleaned = FALSE /\ struck = FALSE

At(p, place) == pc[p] = place
Go(p, place) == pc' = [pc EXCEPT ![p] = place] /\ UNCHANGED then
Quit(p) ==
    /\ pc' = [pc EXCEPT ![p] = "idle"] /\ then' = [then EXCEPT ![p] = "idle"]
    /\ Fresh(p)
    /\ UNCHANGED <<disk, current, damaged, job, history>>
Key(p) == <<job[p], part[p]>>

-----------------------------------------------------------------------------
(* Opening the index, and what an error of a statement leads to. *)

\* An undamaged database may be written; the one in memory always.
Works(p) == conn[p] = p \/ conn[p] \in Files \ damaged

Connect(p, i) == conn' = [conn EXCEPT ![p] = i]
\* A file nobody can reach any more stands for one that does not exist yet.
Unborn == {f \in Files : f # current /\ \A q \in Procs : conn[q] # f}

\* _open: the file at the path, or a new one.
OpenFile(p) ==
    /\ \/ /\ current # None /\ current \notin damaged
          /\ Connect(p, current) /\ UNCHANGED <<current, indexVars>>
       \/ /\ current = None
          /\ LET f == CHOOSE f \in Unborn : TRUE
             IN  /\ Connect(p, f) /\ current' = f
                 /\ index' = [index EXCEPT ![f] = Empty] /\ damaged' = damaged \ {f}
    /\ pc' = [pc EXCEPT ![p] = then[p]] /\ then' = [then EXCEPT ![p] = "idle"]
    /\ UNCHANGED disabled

\* _in_memory, when the file stays busy or cannot be had.
OpenMemory(p) ==
    /\ current \in damaged \/ Faults \cap {"busy", "full"} # {}
    /\ Connect(p, p)
    /\ index' = [index EXCEPT ![p] = Empty]
    /\ disabled' = [disabled EXCEPT ![p] = TRUE]
    /\ pc' = [pc EXCEPT ![p] = then[p]] /\ then' = [then EXCEPT ![p] = "idle"]
    /\ UNCHANGED <<current, damaged>>

\* _opened: a damaged file is recovered, one that stays busy is done without.
Open(p) ==
    /\ At(p, "open")
    /\ \/ OpenFile(p)
       \/ current \notin damaged /\ OpenMemory(p)
       \/ /\ current \in damaged
          /\ pc' = [pc EXCEPT ![p] = "quarantine"]
          /\ UNCHANGED <<conn, current, indexVars, disabled, then>>
    /\ UNCHANGED <<disk, draft, attempt, dropped, buildVars, gcVars, history>>

\* _quarantine: whatever index is at the path is moved aside.
Quarantine(p) ==
    /\ At(p, "quarantine")
    /\ Go(p, "reopen")
    /\ current' = None
    /\ UNCHANGED <<disk, draft, indexVars, storeVars, buildVars, gcVars, history>>

\* _recover opens once more, and has no index if that fails.
Reopen(p) ==
    /\ At(p, "reopen")
    /\ OpenFile(p) \/ OpenMemory(p)
    /\ UNCHANGED <<disk, draft, attempt, dropped, buildVars, gcVars, history>>

\* Mutant of Recovery: any error of the index is taken for damage.
AlwaysQuarantine(why) == "quarantine"

\* _after: damage earns a rebuild, anything else a new connection.
Recovery(why) == IF why = "damage" THEN "quarantine" ELSE "open"

\* A statement of p fails, its connection is closed, and p goes on at `next` with another.
Fails(p, next) ==
    /\ conn[p] \in Files
    /\ \E why \in (Faults \cap {"busy"}) \cup (IF conn[p] \in damaged THEN {"damage"} ELSE {}) :
         pc' = [pc EXCEPT ![p] = Recovery(why)]
    /\ then' = [then EXCEPT ![p] = next]
    /\ conn' = [conn EXCEPT ![p] = None]

-----------------------------------------------------------------------------
(* get and read. *)

Missed(p) == IF part[p] = "code" THEN "write" ELSE "deliver"

Select(p) ==
    /\ At(p, "select")
    /\ \/ /\ Works(p) /\ UNCHANGED conn
          /\ Go(p, IF Key(p) \in index[conn[p]].rows THEN "check" ELSE Missed(p))
       \/ Fails(p, Missed(p))
    /\ UNCHANGED <<dirVars, indexVars, disabled, attempt, dropped, buildVars, gcVars, history>>

\* path.exists(), and the statement that follows: a row whose object is gone is deleted,
\* the access to another is recorded.
Check(p) ==
    /\ At(p, "check")
    /\ Go(p, IF Key(p) \in disk THEN "touch" ELSE "forget")
    /\ UNCHANGED <<dirVars, indexVars, storeVars, buildVars, gcVars, history>>

Touch(p) ==
    /\ At(p, "touch")
    /\ \/ Works(p) /\ Go(p, "load") /\ UNCHANGED conn
       \/ Fails(p, Missed(p))
    /\ UNCHANGED <<dirVars, indexVars, disabled, attempt, dropped, buildVars, gcVars, history>>

Forget(p) ==
    /\ At(p, "forget")
    /\ \/ /\ Works(p) /\ UNCHANGED conn
          /\ Go(p, Missed(p)) /\ index' = [index EXCEPT ![conn[p]].rows = @ \ {Key(p)}]
       \/ Fails(p, Missed(p)) /\ UNCHANGED index
    /\ UNCHANGED <<dirVars, damaged, disabled, attempt, dropped, buildVars, gcVars, history>>

\* Mutant of Load: the object is there, for the check found it.
LoadUnguarded(p) ==
    /\ At(p, "load")
    /\ answer' = [answer EXCEPT ![p] = IF Key(p) \in disk THEN "whole" ELSE "none"]
    /\ part' = [part EXCEPT ![p] = "map"]
    /\ Go(p, IF part[p] = "code" THEN "select" ELSE "deliver") /\ UNCHANGED job
    /\ UNCHANGED <<dirVars, indexVars, storeVars, gcVars, history>>

\* read_bytes, which misses when the object went meanwhile.  The code read, its
\* line map is looked up; a map that is not there reads as no lines.
Load(p) ==
    /\ At(p, "load")
    /\ \/ Key(p) \notin disk /\ Go(p, Missed(p)) /\ UNCHANGED buildVars
       \/ /\ Key(p) \in disk /\ part[p] = "code"
          /\ answer' = [answer EXCEPT ![p] = "whole"]
          /\ part' = [part EXCEPT ![p] = "map"]
          /\ Go(p, "select") /\ UNCHANGED job
       \/ /\ Key(p) \in disk /\ part[p] = "map"
          /\ Go(p, "deliver") /\ UNCHANGED buildVars
    /\ UNCHANGED <<dirVars, indexVars, storeVars, gcVars, history>>

-----------------------------------------------------------------------------
(* put and mark_root. *)

\* A put ended, with the artifact recorded or without: what `emit` does next.
AfterPut(p) ==
    /\ attempt' = [attempt EXCEPT ![p] = 1]
    /\ IF part[p] = "code"
       THEN part' = [part EXCEPT ![p] = "map"] /\ Go(p, "write")
       ELSE part' = [part EXCEPT ![p] = "code"] /\ Go(p, "root")
    /\ UNCHANGED <<job, answer>>

\* Mutant of Write: with nowhere to write, the row is recorded all the same.
WriteIgnoresErrors(p) ==
    /\ At(p, "write")
    /\ \/ Key(p) \notin disk /\ Go(p, "replace") /\ draft' = [draft EXCEPT ![p] = Key(p)]
       \/ Go(p, "record") /\ UNCHANGED draft
    /\ UNCHANGED <<disk, current, indexVars, storeVars, buildVars, gcVars, history>>

\* An object that is there is taken as it is; else a draft of it is written beside
\* its place.  With nowhere to write, the store is disabled and the put is over.
Write(p) ==
    /\ At(p, "write")
    /\ \/ /\ Key(p) \in disk /\ Go(p, "record")
          /\ UNCHANGED <<draft, disabled, attempt, buildVars>>
       \/ /\ Key(p) \notin disk /\ Go(p, "replace")
          /\ draft' = [draft EXCEPT ![p] = Key(p)]
          /\ UNCHANGED <<disabled, attempt, buildVars>>
       \/ /\ "full" \in Faults
          /\ disabled' = [disabled EXCEPT ![p] = TRUE]
          /\ AfterPut(p) /\ UNCHANGED draft
    /\ UNCHANGED <<disk, current, indexVars, conn, dropped, gcVars, history>>

\* os.replace: the draft becomes the object, unless a gc took it for an orphan.
Replace(p) ==
    /\ At(p, "replace")
    /\ draft' = [draft EXCEPT ![p] = None]
    /\ IF draft[p] # None
       THEN /\ disk' = disk \cup {draft[p]}
            /\ Go(p, "record") /\ UNCHANGED <<disabled, attempt, buildVars>>
       ELSE /\ disabled' = [disabled EXCEPT ![p] = TRUE]
            /\ AfterPut(p) /\ UNCHANGED disk
    /\ UNCHANGED <<current, indexVars, conn, dropped, gcVars, history>>

\* The transaction: the row and what it depends on.
Record(p) ==
    /\ At(p, "record")
    /\ \/ /\ Works(p) /\ UNCHANGED conn
          /\ index' = [index EXCEPT ![conn[p]].rows = @ \cup {Key(p)},
                                    ![conn[p]].deps = @ \cup {Key(p)} \X DependsOn(Key(p))]
          /\ AfterPut(p)
       \/ Fails(p, "retry") /\ UNCHANGED <<index, attempt, buildVars>>
    /\ UNCHANGED <<dirVars, damaged, disabled, dropped, gcVars, history>>

\* Mutant of Retry: with the connection renewed, the put counts as done.
RetryOnlyReopens(p) ==
    /\ At(p, "retry")
    /\ AfterPut(p)
    /\ UNCHANGED <<dirVars, indexVars, conn, disabled, dropped, gcVars, history>>

\* Mutant of Retry: one try more than there are.
RetryOnceMore(p) ==
    /\ At(p, "retry")
    /\ IF disabled[p] \/ attempt[p] > Attempts
       THEN AfterPut(p) /\ dropped' = [dropped EXCEPT ![p] = TRUE]
       ELSE /\ attempt' = [attempt EXCEPT ![p] = @ + 1]
            /\ Go(p, "write") /\ UNCHANGED <<buildVars, dropped>>
    /\ UNCHANGED <<dirVars, indexVars, conn, disabled, gcVars, history>>

\* The whole put is tried again, unless the store is disabled or the tries used up.
Retry(p) ==
    /\ At(p, "retry")
    /\ IF disabled[p] \/ attempt[p] = Attempts
       THEN AfterPut(p) /\ dropped' = [dropped EXCEPT ![p] = TRUE]
       ELSE /\ attempt' = [attempt EXCEPT ![p] = @ + 1]
            /\ Go(p, "write") /\ UNCHANGED <<buildVars, dropped>>
    /\ UNCHANGED <<dirVars, indexVars, conn, disabled, gcVars, history>>

\* mark_root of the code, and of nothing else; a failure of it is not retried.
Root(p) ==
    /\ At(p, "root")
    /\ \/ /\ Works(p) /\ UNCHANGED conn
          /\ index' = [index EXCEPT ![conn[p]].roots = @ \cup {<<job[p], "code">>}]
          /\ Go(p, "deliver")
       \/ Fails(p, "deliver") /\ UNCHANGED index
    /\ answer' = [answer EXCEPT ![p] = "whole"]
    /\ UNCHANGED <<dirVars, damaged, disabled, attempt, dropped, job, part, gcVars, history>>

-----------------------------------------------------------------------------
(* gc and clean. *)

\* _reachable, from the roots along the recorded dependencies.
Closure(roots, deps) == {k \in Keys \cup ImportKeys :
    \A S \in SUBSET (Keys \cup ImportKeys) :
        roots \subseteq S /\ (\A d \in deps : d[1] \in S => d[2] \in S) => k \in S}

Reach(p) ==
    /\ At(p, "reach") /\ Works(p)
    /\ keep' = [keep EXCEPT ![p] = Closure(index[conn[p]].roots, index[conn[p]].deps)]
    /\ Go(p, "candidates")
    /\ UNCHANGED <<dirVars, indexVars, storeVars, buildVars, doomed, referenced, toVisit,
                   history>>

\* The rows to delete: the unreachable, the expired and those over the budget.
Candidates(p) ==
    /\ At(p, "candidates") /\ Works(p)
    /\ LET rows == index[conn[p]].rows
       IN  \E aged \in (IF Aging THEN SUBSET rows ELSE {{}}) :
             doomed' = [doomed EXCEPT ![p] = {k \in rows : k \notin keep[p] \/ k \in aged}]
    /\ keep' = [keep EXCEPT ![p] = {}]
    /\ Go(p, "delete")
    /\ UNCHANGED <<dirVars, indexVars, storeVars, buildVars, referenced, toVisit, history>>

\* Each of them loses its row, and then what it depends on.
Delete(p) ==
    /\ At(p, "delete") /\ Works(p)
    /\ \E k \in doomed[p] :
        /\ index' = [index EXCEPT ![conn[p]].rows = @ \ {k}]
        /\ toVisit' = [toVisit EXCEPT ![p] = {k}]
    /\ Go(p, "undepend")
    /\ UNCHANGED <<dirVars, damaged, storeVars, buildVars, keep, doomed, referenced, history>>

Undepend(p) ==
    /\ At(p, "undepend") /\ Works(p)
    /\ index' = [index EXCEPT ![conn[p]].deps = {d \in @ : d[1] \notin toVisit[p]}]
    /\ doomed' = [doomed EXCEPT ![p] = @ \ toVisit[p]]
    /\ toVisit' = [toVisit EXCEPT ![p] = {}]
    /\ Go(p, "delete")
    /\ UNCHANGED <<dirVars, damaged, storeVars, buildVars, keep, referenced, history>>

\* _collect_orphans: what the index references now, and then every name there is.
Refer(p) ==
    /\ At(p, "delete") /\ doomed[p] = {} /\ Works(p)
    /\ referenced' = [referenced EXCEPT ![p] = index[conn[p]].rows]
    /\ toVisit' = [toVisit EXCEPT ![p] = Keys]
    /\ Go(p, "visit")
    /\ UNCHANGED <<dirVars, indexVars, storeVars, buildVars, keep, doomed, history>>

\* A name is unlinked unless referenced, and so is any draft met beside it.
Visit(p) ==
    /\ At(p, "visit")
    /\ \E k \in toVisit[p], met \in SUBSET {q \in Procs : draft[q] # None} :
        /\ \A q \in met : draft[q] = k
        /\ toVisit' = [toVisit EXCEPT ![p] = @ \ {k}]
        /\ disk' = IF k \in referenced[p] THEN disk ELSE disk \ {k}
        /\ draft' = [q \in Procs |-> IF q \in met THEN None ELSE draft[q]]
    /\ UNCHANGED <<current, indexVars, pc, then, storeVars, buildVars, keep, doomed,
                   referenced, history>>

\* The end of the command, or an error of a statement that ends it.
EndGc(p) ==
    /\ \/ At(p, "visit") /\ toVisit[p] = {}
       \/ /\ pc[p] \in {"reach", "candidates", "delete", "undepend"} /\ conn[p] \in Files
          /\ "busy" \in Faults \/ conn[p] \in damaged
    /\ Quit(p)

\* clean: the objects first, the index after them.
Wipe(p) ==
    /\ At(p, "wipe")
    /\ disk' = {} /\ draft' = [q \in Procs |-> None]
    /\ Go(p, "unlink")
    /\ UNCHANGED <<current, indexVars, storeVars, buildVars, gcVars, history>>

Unlink(p) ==
    /\ At(p, "unlink")
    /\ current' = None
    /\ Go(p, "idle")
    /\ UNCHANGED <<disk, draft, indexVars, storeVars, buildVars, gcVars, history>>

-----------------------------------------------------------------------------
(* The processes. *)

Begin(p) ==
    /\ At(p, "idle") /\ begun < MaxCommands
    /\ begun' = begun + 1

\* The build of a module opens the cache and looks its code up.
StartBuild(p, m) ==
    /\ Begin(p)
    /\ pc' = [pc EXCEPT ![p] = "open"] /\ then' = [then EXCEPT ![p] = "select"]
    /\ job' = [job EXCEPT ![p] = m]
    /\ UNCHANGED <<dirVars, indexVars, storeVars, part, answer, gcVars, collected, cleaned, struck>>

StartGc(p) ==
    /\ Begin(p) /\ current # None
    /\ pc' = [pc EXCEPT ![p] = "open"] /\ then' = [then EXCEPT ![p] = "reach"]
    /\ collected' = TRUE
    /\ UNCHANGED <<dirVars, indexVars, storeVars, buildVars, gcVars, cleaned, struck>>

StartClean(p) ==
    /\ Begin(p)
    /\ Go(p, "wipe")
    /\ cleaned' = TRUE
    /\ UNCHANGED <<dirVars, indexVars, storeVars, buildVars, gcVars, collected, struck>>

\* The module is delivered and the process ends.
Deliver(p) == At(p, "deliver") /\ Quit(p)

\* A crash leaves at most a draft behind, which nothing reads.
Crash(p) == "crash" \in Faults /\ pc[p] # "idle" /\ Quit(p)

Damage ==
    /\ "damage" \in Faults /\ current \in Files \ damaged
    /\ damaged' = damaged \cup {current}
    /\ struck' = TRUE
    /\ UNCHANGED <<dirVars, index, pc, then, storeVars, buildVars, gcVars, begun, collected,
                   cleaned>>

Step(p) ==
    \/ Open(p) \/ Quarantine(p) \/ Reopen(p)
    \/ Select(p) \/ Check(p) \/ Touch(p) \/ Forget(p) \/ Load(p)
    \/ Write(p) \/ Replace(p) \/ Record(p) \/ Retry(p) \/ Root(p) \/ Deliver(p)
    \/ Reach(p) \/ Candidates(p) \/ Delete(p) \/ Undepend(p)
    \/ Refer(p) \/ Visit(p) \/ EndGc(p) \/ Wipe(p) \/ Unlink(p)

Next ==
    \/ \E p \in Procs : Step(p) \/ StartGc(p) \/ StartClean(p) \/ Crash(p)
    \/ \E p \in Procs, m \in Modules : StartBuild(p, m)
    \/ Damage

Spec == Init /\ [][Next]_vars

-----------------------------------------------------------------------------
(* Properties. *)

\* Whatever two builds, a gc, a clean, a crash and an index that fails do to each
\* other, a build delivers its module, from an object it could read or compiled anew.
WholeAnswers == \A p \in Procs : At(p, "deliver") => answer[p] = "whole"

\* A row is committed only after its object: until a gc or a clean deletes objects,
\* no index, crashed writers' ones included, names an object that is not there.
RowsBacked ==
    ~collected /\ ~cleaned =>
        \A i \in Files \cup Procs : index[i].rows \subseteq disk

\* A busy index is stepped around, never destroyed: without damage every process
\* that has the index on disk has the same one.
SharedIndex ==
    ~struck /\ ~cleaned => \A p \in Procs : conn[p] \in Files => conn[p] = current

\* tests/test_cache.py:679-700: contention costs a put a retry and not the entry.  A
\* build that is enabled and used up no tries has both artifacts in its index.
EntryKept ==
    ~struck /\ ~collected /\ ~cleaned =>
        \A p \in Procs : At(p, "root") /\ ~disabled[p] /\ ~dropped[p] =>
            {job[p]} \X Artifacts \subseteq index[conn[p]].rows

=============================================================================
