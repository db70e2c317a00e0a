---------------------------- MODULE OnDisk_proofs ----------------------------
(***************************************************************************)
(* Proofs about what processes leave each other on disk.                   *)
(*                                                                         *)
(* CacheStore, for any finite set of processes and of index files, any     *)
(* modules and imports, any number of tries and any faults.                *)
(*                                                                         *)
(* WarmRun, for any number of processes, any contents, any granularity of  *)
(* the file system and any racy window at least as long: what a run        *)
(* executes was there, and the fast path answers as the key would, when no *)
(* edit comes at the moments `Unguarded` would name.                       *)
(***************************************************************************)
EXTENDS MCOnDisk, FiniteSetTheorems, TLAPS

(***************************************************************************)
(* The artifact cache.                                                     *)
(***************************************************************************)

(* The inductive invariant, in parts. *)

\* Where a process is, or goes on once it has opened the index.
Opening == {"open", "quarantine", "reopen"}
Where(p) == IF pc[p] \in Opening THEN then[p] ELSE pc[p]

\* Nothing has been deleted, nor has an index been damaged.
Undeleted == ~collected /\ ~cleaned
Untouched == Undeleted /\ ~struck

\* Only damage moves an index aside.
Undamaged == ~struck => damaged = {} /\ \A p \in Procs : pc[p] \notin {"quarantine", "reopen"}

\* A process opens the index to go on with something, and holds no connection
\* meanwhile; one to the index in memory means the store is disabled.
Connected(p) ==
    /\ then[p] \in {"idle", "select", "reach", "write", "deliver", "retry"}
    /\ pc[p] \in Opening => then[p] # "idle"
    /\ pc[p] \in Opening \cup {"idle", "wipe", "unlink"} => conn[p] = None
    /\ conn[p] = p => disabled[p]

\* Who deletes is on record.
Recorded(p) ==
    /\ Where(p) \in GcPCs => collected
    /\ Where(p) \in {"wipe", "unlink"} => cleaned

\* Once the code is at hand what follows is about the line map, without which the module
\* is delivered all the same.
Answered(p) ==
    /\ Where(p) \in {"idle", "wipe", "unlink"} => part[p] = "code"
    /\ Where(p) \in {"select", "check", "touch", "forget", "load"} /\ part[p] = "map" =>
            answer[p] = "whole"
    /\ Where(p) = "deliver" => answer[p] = "whole"

\* A put writes the object first, under its own name; and a row that is there has its object.
ObjectFirst(p) ==
    /\ pc[p] = "check" /\ Undeleted => Key(p) \in disk
    /\ pc[p] = "forget" => ~Undeleted
    /\ pc[p] = "replace" => draft[p] \in {Key(p), None}
    /\ pc[p] = "record" /\ Undeleted => Key(p) \in disk

\* With the put of the code behind, its row is in the index everybody has, unless the
\* store is disabled or the put used up its tries; and after the put of the map, both.
RowsIn(p) ==
    Untouched /\ ~disabled[p] /\ ~dropped[p] =>
        /\ Where(p) \in {"write", "replace", "record", "retry"} /\ part[p] = "map" =>
                current # None /\ <<job[p], "code">> \in index[current].rows
        /\ Where(p) = "root" =>
                conn[p] \in Files /\ {job[p]} \X Artifacts \subseteq index[conn[p]].rows

Known(p) == Connected(p) /\ Recorded(p) /\ Answered(p) /\ ObjectFirst(p) /\ RowsIn(p)

CacheInv == TypeOK /\ Undamaged /\ RowsBacked /\ SharedIndex /\ \A p \in Procs : Known(p)

-----------------------------------------------------------------------------
(* Types. *)

\* There is always a file for a new index: there are as many as processes, and the one
\* that opens holds none.
LEMMA UnbornExists ==
    ASSUME TypeOK, NEW p \in Procs, conn[p] = None, current = None
    PROVE  (CHOOSE f \in Unborn : TRUE) \in Unborn
  <1> DEFINE others == Procs \ {p}
             taken   == {conn[q] : q \in others}
             g      == [q \in others |-> conn[q]]
  <1>1. /\ IsFiniteSet(others) /\ Cardinality(others) = Cardinality(Procs) - 1
        /\ Cardinality(Procs) \in Nat /\ Cardinality(Files) \in Nat
    BY SetsAssumption, FS_RemoveElement, FS_CardinalityType
  <1>2. g \in Surjection(others, taken)
    BY DEF Surjection
  <1>3. IsFiniteSet(taken) /\ Cardinality(taken) <= Cardinality(others)
    BY <1>1, <1>2, FS_Surjection
  <1>4. Cardinality(taken) \in Nat
    BY <1>3, FS_CardinalityType
  <1>5. ~(Files \subseteq taken)
    <2> SUFFICES ASSUME Files \subseteq taken PROVE FALSE
      OBVIOUS
    <2>1. Cardinality(Files) <= Cardinality(taken)
      BY <1>3, FS_Subset
    <2>q. QED
      BY <1>1, <1>3, <1>4, <2>1, SetsAssumption
  <1>6. PICK f \in Files : f \notin taken
    BY <1>5
  <1>7. f \in Unborn
    BY <1>6, SetsAssumption DEF Unborn
  <1>q. QED
    BY <1>7

LEMMA BuiltType ==
    ASSUME NEW built \in SUBSET Modules
    PROVE  Built(built) \in [rows  : SUBSET Keys, deps : SUBSET (Keys \X ImportKeys),
                             roots : SUBSET Keys]
  BY SetsAssumption DEF Built, Keys, Artifacts, ImportKeys, DependsOn

\* An index as `index` holds it.
Indexes == [rows  : SUBSET Keys, deps : SUBSET (Keys \X ImportKeys), roots : SUBSET Keys]

LEMMA KeyType ==
    ASSUME TypeOK, NEW p \in Procs
    PROVE  /\ Key(p) \in Keys /\ DependsOn(Key(p)) \subseteq ImportKeys
           /\ <<job[p], "code">> \in Keys
  BY SetsAssumption DEF TypeOK, Key, Keys, Artifacts, DependsOn, ImportKeys

\* A process that starts again with nothing.
LEMMA FreshTypes ==
    ASSUME TypeOK, NEW p \in Procs, Fresh(p)
    PROVE  /\ conn' \in [Procs -> Files \cup Procs \cup {None}]
           /\ \A q \in Procs : conn'[q] \in Procs => conn'[q] = q
           /\ disabled' \in [Procs -> BOOLEAN] /\ attempt' \in [Procs -> 1 .. Attempts]
           /\ dropped' \in [Procs -> BOOLEAN] /\ draft' \in [Procs -> Keys \cup {None}]
           /\ index' \in [Files \cup Procs -> Indexes]
           /\ part' \in [Procs -> Artifacts] /\ answer' \in [Procs -> {"none", "whole"}]
           /\ keep' \in [Procs -> SUBSET (Keys \cup ImportKeys)]
           /\ doomed' \in [Procs -> SUBSET Keys] /\ referenced' \in [Procs -> SUBSET Keys]
           /\ toVisit' \in [Procs -> SUBSET Keys]
  BY SetsAssumption, BoundsAssumption DEF TypeOK, Fresh, Empty, Artifacts, Indexes

LEMMA OpenTypes ==
    ASSUME TypeOK, NEW p \in Procs, Connected(p), pc[p] \in Opening, OpenFile(p) \/ OpenMemory(p)
    PROVE  /\ conn' \in [Procs -> Files \cup Procs \cup {None}]
           /\ \A q \in Procs : conn'[q] \in Procs => conn'[q] = q
           /\ disabled' \in [Procs -> BOOLEAN] /\ index' \in [Files \cup Procs -> Indexes]
           /\ pc' \in [Procs -> PCs] /\ then' \in [Procs -> PCs]
           /\ current' \in Files \cup {None} /\ damaged' \subseteq Files
  <1>1. Empty \in Indexes
    BY DEF Empty, Indexes
  <1>2. conn[p] = None
    BY DEF Connected
  <1>3. CASE OpenMemory(p)
    BY <1>1, <1>3, SetsAssumption DEF TypeOK, OpenMemory, Connect, PCs, Indexes
  <1>4. CASE OpenFile(p) /\ current # None
    <2>1. /\ conn' = [conn EXCEPT ![p] = current] /\ UNCHANGED <<current, index, damaged>>
          /\ pc' = [pc EXCEPT ![p] = then[p]] /\ then' = [then EXCEPT ![p] = "idle"]
          /\ UNCHANGED disabled
      BY <1>4 DEF OpenFile, Connect, indexVars
    <2>q. QED
      BY <1>4, <2>1, SetsAssumption DEF TypeOK, PCs, Indexes
  <1>5. CASE OpenFile(p) /\ current = None
    <2> DEFINE f == CHOOSE x \in Unborn : TRUE
    <2>1. f \in Files
      BY <1>2, <1>5, UnbornExists DEF Unborn
    <2>2. /\ conn' = [conn EXCEPT ![p] = f] /\ current' = f
          /\ index' = [index EXCEPT ![f] = Empty] /\ damaged' = damaged \ {f}
          /\ pc' = [pc EXCEPT ![p] = then[p]] /\ then' = [then EXCEPT ![p] = "idle"]
          /\ UNCHANGED disabled
      BY <1>5 DEF OpenFile, Connect
    <2> HIDE DEF f
    <2>q. QED
      BY <1>1, <2>1, <2>2, SetsAssumption DEF TypeOK, PCs, Indexes
  <1>q. QED
    BY <1>3, <1>4, <1>5

\* The disjuncts of a step that leave the connections and the types to chance alone.
LEMMA FailTypes ==
    ASSUME TypeOK, NEW p \in Procs, NEW next \in PCs, Fails(p, next)
    PROVE  /\ pc' \in [Procs -> PCs] /\ then' \in [Procs -> PCs]
           /\ conn' \in [Procs -> Files \cup Procs \cup {None}]
           /\ \A q \in Procs : conn'[q] \in Procs => conn'[q] = q
  BY SetsAssumption DEF TypeOK, Fails, Recovery, PCs

LEMMA GoTypes ==
    ASSUME TypeOK, NEW p \in Procs, NEW there \in PCs, Go(p, there)
    PROVE  pc' \in [Procs -> PCs] /\ then' \in [Procs -> PCs]
  BY DEF TypeOK, Go

LEMMA AfterPutTypes ==
    ASSUME TypeOK, NEW p \in Procs, AfterPut(p)
    PROVE  /\ pc' \in [Procs -> PCs] /\ then' \in [Procs -> PCs]
           /\ attempt' \in [Procs -> 1 .. Attempts] /\ part' \in [Procs -> Artifacts]
           /\ UNCHANGED <<job, answer>>
  <1>1. attempt' = [attempt EXCEPT ![p] = 1] /\ UNCHANGED <<job, answer>>
    BY DEF AfterPut
  <1>2. attempt' \in [Procs -> 1 .. Attempts]
    BY <1>1, BoundsAssumption DEF TypeOK
  <1>3. /\ pc' \in [Procs -> PCs] /\ then' \in [Procs -> PCs]
        /\ part' \in [Procs -> Artifacts]
    <2>1. CASE part[p] = "code"
      BY <2>1 DEF TypeOK, AfterPut, Go, PCs, BuildPCs, Artifacts
    <2>2. CASE part[p] # "code"
      BY <2>2 DEF TypeOK, AfterPut, Go, PCs, BuildPCs, Artifacts
    <2>q. QED
      BY <2>1, <2>2
  <1>q. QED
    BY <1>1, <1>2, <1>3

LEMMA QuitTypes ==
    ASSUME TypeOK, NEW p \in Procs, Quit(p)
    PROVE  TypeOK'
  <1>1. pc' \in [Procs -> PCs] /\ then' \in [Procs -> PCs]
    BY DEF TypeOK, Quit, PCs
  <1>2. Fresh(p) /\ UNCHANGED <<disk, current, damaged, job, begun, collected, cleaned, struck>>
    BY DEF Quit, history
  <1>q. QED
    BY <1>1, <1>2, FreshTypes DEF TypeOK, Indexes

\* The rows, the dependencies and the roots a statement writes.
LEMMA RowTypes ==
    ASSUME TypeOK, NEW p \in Procs, NEW i \in Files \cup Procs, NEW x \in Indexes,
           index' = [index EXCEPT ![i] = x]
    PROVE  index' \in [Files \cup Procs -> Indexes]
  BY DEF TypeOK, Indexes

LEMMA CacheTypesStep ==
    ASSUME TypeOK, \A p \in Procs : Connected(p), [Next]_vars
    PROVE  TypeOK'
  <1>1. CASE UNCHANGED vars
    BY <1>1 DEF TypeOK, vars, dirVars, indexVars, storeVars, buildVars, gcVars, history
  <1>2. CASE Damage
    BY <1>2 DEF TypeOK, Damage, dirVars, storeVars, buildVars, gcVars
  <1>3. ASSUME NEW p \in Procs, NEW m \in Modules, StartBuild(p, m)
        PROVE  TypeOK'
    BY <1>3, BoundsAssumption
    DEF TypeOK, StartBuild, Begin, PCs, BuildPCs, dirVars, indexVars, storeVars, gcVars
  <1>4. ASSUME NEW p \in Procs, StartGc(p)
        PROVE  TypeOK'
    BY <1>4, BoundsAssumption
    DEF TypeOK, StartGc, Begin, PCs, GcPCs, dirVars, indexVars, storeVars, buildVars, gcVars
  <1>5. ASSUME NEW p \in Procs, StartClean(p)
        PROVE  TypeOK'
    BY <1>5, BoundsAssumption
    DEF TypeOK, StartClean, Begin, Go, PCs, dirVars, indexVars, storeVars, buildVars, gcVars
  <1>6. ASSUME NEW p \in Procs, Crash(p) \/ Deliver(p) \/ EndGc(p)
        PROVE  TypeOK'
    BY <1>6, QuitTypes DEF Crash, Deliver, EndGc
  <1>7. ASSUME NEW p \in Procs, Step(p)
        PROVE  TypeOK'
    <2> USE DEF dirVars, indexVars, storeVars, buildVars, gcVars, history, At
    <2>0. /\ {"open", "quarantine", "reopen", "write", "deliver", "check", "touch", "forget",
              "load", "select", "replace", "record", "retry", "root", "candidates", "delete",
              "undepend", "visit", "unlink", "idle"} \subseteq PCs
          /\ Missed(p) \in PCs /\ pc[p] \in PCs
          /\ Key(p) \in Keys /\ DependsOn(Key(p)) \subseteq ImportKeys
          /\ <<job[p], "code">> \in Keys
      BY KeyType DEF PCs, BuildPCs, GcPCs, Missed, TypeOK
    <2>01. Works(p) => /\ conn[p] \in Files \cup Procs /\ index[conn[p]] \in Indexes
      BY DEF Works, TypeOK, Indexes
    <2>1. CASE Open(p)
      <3>1. CASE OpenFile(p) \/ OpenMemory(p)
        BY <2>1, <3>1, OpenTypes DEF Open, TypeOK, Indexes, Opening
      <3>2. CASE /\ pc' = [pc EXCEPT ![p] = "quarantine"]
                 /\ UNCHANGED <<conn, current, index, damaged, disabled, then>>
        BY <2>0, <2>1, <3>2 DEF Open, TypeOK
      <3>q. QED
        BY <2>1, <3>1, <3>2 DEF Open
    <2>2. CASE Quarantine(p)
      BY <2>0, <2>2, GoTypes DEF Quarantine, TypeOK
    <2>3. CASE Reopen(p)
      BY <2>3, OpenTypes DEF Reopen, TypeOK, Indexes, Opening
    <2>4. CASE Select(p)
      <3>1. CASE Fails(p, Missed(p))
        BY <2>0, <2>4, <3>1, FailTypes DEF Select, TypeOK
      <3>q. QED
        BY <2>0, <2>4, <3>1, GoTypes DEF Select, TypeOK
    <2>5. CASE Check(p)
      BY <2>0, <2>5, GoTypes DEF Check, TypeOK
    <2>51. CASE Touch(p)
      <3>1. CASE Fails(p, Missed(p))
        BY <2>0, <2>51, <3>1, FailTypes DEF Touch, TypeOK
      <3>q. QED
        BY <2>0, <2>51, <3>1, GoTypes DEF Touch, TypeOK
    <2>52. CASE Forget(p)
      <3>1. CASE Fails(p, Missed(p)) /\ UNCHANGED index
        BY <2>0, <2>52, <3>1, FailTypes DEF Forget, TypeOK
      <3>2. CASE Works(p) /\ UNCHANGED conn /\ Go(p, Missed(p))
                 /\ index' = [index EXCEPT ![conn[p]].rows = @ \ {Key(p)}]
        <4>1. index' \in [Files \cup Procs -> Indexes]
          BY <2>01, <3>2 DEF TypeOK, Indexes
        <4>q. QED
          BY <2>0, <2>52, <3>2, <4>1, GoTypes DEF Forget, TypeOK, Indexes
      <3>q. QED
        BY <2>52, <3>1, <3>2 DEF Forget
    <2>6. CASE Load(p)
      BY <2>0, <2>6, GoTypes DEF Load, TypeOK, Artifacts
    <2>7. CASE Write(p)
      <3>1. CASE AfterPut(p) /\ disabled' = [disabled EXCEPT ![p] = TRUE] /\ UNCHANGED draft
        BY <2>7, <3>1, AfterPutTypes DEF Write, TypeOK
      <3>2. CASE Go(p, "record") /\ UNCHANGED <<draft, disabled, attempt, job, part, answer>>
        BY <2>0, <2>7, <3>2, GoTypes DEF Write, TypeOK
      <3>3. CASE /\ Go(p, "replace") /\ draft' = [draft EXCEPT ![p] = Key(p)]
                 /\ UNCHANGED <<disabled, attempt, job, part, answer>>
        BY <2>0, <2>7, <3>3, GoTypes DEF Write, TypeOK
      <3>q. QED
        BY <2>7, <3>1, <3>2, <3>3 DEF Write
    <2>8. CASE Replace(p)
      <3>1. CASE draft[p] = None
        BY <2>8, <3>1, AfterPutTypes DEF Replace, TypeOK
      <3>q. QED
        BY <2>0, <2>8, <3>1, GoTypes DEF Replace, TypeOK
    <2>9. CASE Record(p)
      <3>1. CASE Fails(p, "retry") /\ UNCHANGED <<index, attempt, job, part, answer>>
        BY <2>0, <2>9, <3>1, FailTypes DEF Record, TypeOK
      <3>2. CASE Works(p) /\ UNCHANGED conn /\ AfterPut(p)
                 /\ index' = [index EXCEPT ![conn[p]].rows = @ \cup {Key(p)},
                         ![conn[p]].deps = @ \cup {Key(p)} \X DependsOn(Key(p))]
        <4>1. index' \in [Files \cup Procs -> Indexes]
          <5> DEFINE k == Key(p)
                     d == DependsOn(Key(p))
          <5>1. /\ k \in Keys /\ d \subseteq ImportKeys
                /\ index' = [index EXCEPT ![conn[p]].rows = @ \cup {k},
                                          ![conn[p]].deps = @ \cup {k} \X d]
            BY <2>0, <3>2
          <5>2. index \in [Files \cup Procs -> Indexes]
            BY DEF TypeOK, Indexes
          <5> HIDE DEF k, d
          <5>q. QED
            BY ONLY <2>01, <5>1, <5>2 DEF Indexes
        <4>q. QED
          BY <2>9, <3>2, <4>1, AfterPutTypes DEF Record, TypeOK, Indexes
      <3>q. QED
        BY <2>9, <3>1, <3>2 DEF Record
    <2>10. CASE Retry(p)
      <3>1. CASE AfterPut(p) /\ dropped' = [dropped EXCEPT ![p] = TRUE]
        BY <2>10, <3>1, AfterPutTypes DEF Retry, TypeOK
      <3>2. CASE /\ attempt[p] # Attempts /\ attempt' = [attempt EXCEPT ![p] = @ + 1]
                 /\ Go(p, "write") /\ UNCHANGED <<job, part, answer, dropped>>
        <4>1. attempt' \in [Procs -> 1 .. Attempts]
          <5>1. attempt[p] + 1 \in 1 .. Attempts
            <6>1. attempt[p] \in 1 .. Attempts /\ attempt[p] # Attempts
              BY <3>2 DEF TypeOK
            <6>2. Attempts \in Nat
              BY BoundsAssumption
            <6>q. QED
              BY <6>1, <6>2
          <5>q. QED
            BY <3>2, <5>1 DEF TypeOK
        <4>q. QED
          BY <2>0, <2>10, <3>2, <4>1, GoTypes DEF Retry, TypeOK
      <3>q. QED
        BY <2>10, <3>1, <3>2 DEF Retry
    <2>11. CASE Root(p)
      <3>1. CASE Fails(p, "deliver") /\ UNCHANGED index
        BY <2>0, <2>11, <3>1, FailTypes DEF Root, TypeOK
      <3>2. CASE Works(p) /\ UNCHANGED conn /\ Go(p, "deliver")
                 /\ index' = [index EXCEPT ![conn[p]].roots = @ \cup {<<job[p], "code">>}]
        <4>1. index' \in [Files \cup Procs -> Indexes]
          <5> DEFINE k == <<job[p], "code">>
          <5>1. k \in Keys /\ index' = [index EXCEPT ![conn[p]].roots = @ \cup {k}]
            BY <2>0, <3>2
          <5> HIDE DEF k
          <5>2. [index[conn[p]] EXCEPT !.roots = @ \cup {k}] \in Indexes
            BY <2>01, <3>2, <5>1 DEF Indexes
          <5>q. QED
            BY <2>01, <3>2, <5>1, <5>2, RowTypes
        <4>q. QED
          BY <2>0, <2>11, <3>2, <4>1, GoTypes DEF Root, TypeOK, Indexes
      <3>q. QED
        BY <2>11, <3>1, <3>2 DEF Root
    <2>13. CASE Reach(p)
      <3>1. Closure(index[conn[p]].roots, index[conn[p]].deps) \subseteq Keys \cup ImportKeys
        BY DEF Closure
      <3>q. QED
        BY <2>0, <2>13, <3>1, GoTypes DEF Reach, TypeOK
    <2>14. CASE Candidates(p)
      <3>1. index[conn[p]].rows \subseteq Keys
        BY <2>01, <2>14 DEF Candidates, Indexes
      <3>q. QED
        BY <2>0, <2>14, <3>1, GoTypes DEF Candidates, TypeOK
    <2>15. CASE Delete(p)
      <3>1. PICK k \in doomed[p] :
                /\ index' = [index EXCEPT ![conn[p]].rows = @ \ {k}]
                /\ toVisit' = [toVisit EXCEPT ![p] = {k}]
        BY <2>15 DEF Delete
      <3>2. index' \in [Files \cup Procs -> Indexes]
        BY <2>01, <2>15, <3>1 DEF Delete, TypeOK, Indexes
      <3>3. toVisit' \in [Procs -> SUBSET Keys]
        BY <3>1 DEF TypeOK
      <3>4. Go(p, "undepend") /\ UNCHANGED <<dirVars, damaged, storeVars, buildVars, keep,
                                            doomed, referenced, history>>
        BY <2>15 DEF Delete
      <3>q. QED
        BY <2>0, <3>2, <3>3, <3>4, GoTypes DEF TypeOK, Indexes
    <2>151. CASE Undepend(p)
      <3> DEFINE rest == {d \in index[conn[p]].deps : d[1] \notin toVisit[p]}
      <3>1. conn[p] \in Files \cup Procs /\ index[conn[p]] \in Indexes
        BY <2>01, <2>151 DEF Undepend
      <3>2. rest \subseteq Keys \X ImportKeys
        BY <3>1 DEF Indexes
      <3>3. index' = [index EXCEPT ![conn[p]].deps = rest]
        BY <2>151, <3>1 DEF Undepend, TypeOK
      <3> HIDE DEF rest
      <3>4. index' \in [Files \cup Procs -> Indexes]
        BY <3>1, <3>2, <3>3 DEF TypeOK, Indexes
      <3>5. doomed' \in [Procs -> SUBSET Keys] /\ toVisit' \in [Procs -> SUBSET Keys]
        BY <2>151 DEF Undepend, TypeOK
      <3>6. Go(p, "delete") /\ UNCHANGED <<dirVars, damaged, storeVars, buildVars, keep,
                                          referenced, history>>
        BY <2>151 DEF Undepend
      <3>q. QED
        BY <2>0, <3>4, <3>5, <3>6, GoTypes DEF TypeOK, Indexes
    <2>16. CASE Refer(p)
      <3>1. index[conn[p]].rows \subseteq Keys
        BY <2>01, <2>16 DEF Refer, Indexes
      <3>q. QED
        BY <2>0, <2>16, <3>1, GoTypes DEF Refer, TypeOK
    <2>17. CASE Visit(p)
      BY <2>17 DEF Visit, TypeOK
    <2>18. CASE Wipe(p)
      BY <2>0, <2>18, GoTypes DEF Wipe, TypeOK
    <2>19. CASE Unlink(p)
      BY <2>0, <2>19, GoTypes DEF Unlink, TypeOK
    <2>q. QED
      BY <1>6, <1>7, <2>1, <2>2, <2>3, <2>4, <2>5, <2>51, <2>52, <2>6, <2>7, <2>8, <2>9,
         <2>10, <2>11, <2>13, <2>14, <2>15, <2>151, <2>16, <2>17, <2>18, <2>19 DEF Step
  <1>q. QED
    BY <1>1, <1>2, <1>3, <1>4, <1>5, <1>6, <1>7 DEF Next

-----------------------------------------------------------------------------
(* What a step of one process does to what the others know. *)

ProcessStep(p) ==
    \/ Step(p) \/ StartGc(p) \/ StartClean(p) \/ Crash(p)
    \/ \E m \in Modules : StartBuild(p, m)

\* The history is kept, objects stay unless something deletes, and so do the index at the
\* path and its rows.
StoreGrows ==
    /\ collected => collected'
    /\ cleaned => cleaned'
    /\ struck' = struck
    /\ Undeleted' => disk \subseteq disk'
    /\ ~cleaned' /\ ~struck' /\ current # None => current' = current
    /\ Untouched' /\ current # None => index[current].rows \subseteq index'[current].rows

OthersStand(p) ==
    \A q \in Procs \ {p} :
        /\ pc'[q] = pc[q] /\ then'[q] = then[q] /\ conn'[q] = conn[q]
        /\ disabled'[q] = disabled[q] /\ dropped'[q] = dropped[q]
        /\ job'[q] = job[q] /\ part'[q] = part[q] /\ answer'[q] = answer[q]
        /\ draft'[q] \in {draft[q], None}

LEMMA QuitStands ==
    ASSUME TypeOK, NEW p \in Procs, Quit(p)
    PROVE  StoreGrows /\ OthersStand(p)
  BY SetsAssumption DEF TypeOK, Quit, Fresh, history, StoreGrows, OthersStand, Untouched,
     Undeleted

LEMMA OpenStands ==
    ASSUME TypeOK, NEW p \in Procs, OpenFile(p) \/ OpenMemory(p),
           UNCHANGED <<disk, draft, attempt, dropped, buildVars, gcVars, history>>
    PROVE  StoreGrows /\ OthersStand(p)
  <1> USE DEF buildVars, history, StoreGrows, OthersStand, Untouched, Undeleted, TypeOK,
              Connect
  <1>1. CASE OpenMemory(p)
    BY <1>1, SetsAssumption DEF OpenMemory
  <1>2. CASE OpenFile(p) /\ current # None
    BY <1>2 DEF OpenFile, indexVars
  <1>3. CASE OpenFile(p) /\ current = None
    BY <1>3 DEF OpenFile
  <1>q. QED
    BY <1>1, <1>2, <1>3

\* A statement that adds rows, or only removes some of none, leaves those there were.
LEMMA RowsStay ==
    ASSUME TypeOK, NEW c \in Files \cup Procs, NEW x, index[c].rows \subseteq x,
           \/ index' = [index EXCEPT ![c].rows = x]
           \/ \E y : index' = [index EXCEPT ![c].rows = x, ![c].deps = y]
           \/ x = index[c].rows /\ \E y : index' = [index EXCEPT ![c].roots = y]
    PROVE  \A i \in Files \cup Procs : index[i].rows \subseteq index'[i].rows
  <1>1. DOMAIN index[c] = {"rows", "deps", "roots"} /\ DOMAIN index = Files \cup Procs
    BY DEF TypeOK
  <1>2. \A i \in (Files \cup Procs) \ {c} : index'[i] = index[i]
    BY <1>1
  <1>3. index'[c].rows = x
    BY <1>1
  <1>q. QED
    BY <1>2, <1>3

LEMMA StepStands ==
    ASSUME CacheInv, NEW p \in Procs, ProcessStep(p)
    PROVE  StoreGrows /\ OthersStand(p)
  <1>0. TypeOK /\ RowsBacked /\ Known(p)
    BY DEF CacheInv
  <1>1. CASE StartGc(p) \/ StartClean(p) \/ \E m \in Modules : StartBuild(p, m)
    BY <1>0, <1>1
    DEF StartGc, StartClean, StartBuild, Begin, Go, TypeOK, dirVars, indexVars, storeVars,
        buildVars, gcVars, StoreGrows, OthersStand, Untouched, Undeleted
  <1>2. CASE Crash(p) \/ Deliver(p) \/ EndGc(p)
    BY <1>0, <1>2, QuitStands DEF Crash, Deliver, EndGc
  <1>3. CASE (Open(p) \/ Reopen(p)) /\ (OpenFile(p) \/ OpenMemory(p))
    BY <1>0, <1>3, OpenStands DEF Open, Reopen
  <1> USE DEF At, Go, Fails, TypeOK, dirVars, indexVars, storeVars, buildVars, gcVars, history,
              StoreGrows, OthersStand, Untouched, Undeleted
  <1>4. CASE Open(p) /\ pc' = [pc EXCEPT ![p] = "quarantine"]
             /\ UNCHANGED <<conn, current, indexVars, disabled, then>>
    BY <1>0, <1>4 DEF Open
  <1>5. CASE Quarantine(p)
    <2>1. struck
      BY <1>5 DEF CacheInv, Undamaged, Quarantine
    <2>q. QED
      BY <1>0, <1>5, <2>1 DEF Quarantine
  <1>6. CASE Select(p) \/ Check(p) \/ Touch(p) \/ Load(p)
    BY <1>0, <1>6 DEF Select, Check, Touch, Load
  <1>7. CASE Forget(p)
    <2>1. ~Undeleted
      BY <1>0, <1>7 DEF Known, ObjectFirst, Forget
    <2>2. UNCHANGED <<disk, draft, current, collected, cleaned, struck>> /\ OthersStand(p)
      BY <1>0, <1>7 DEF Forget
    <2>q. QED
      BY <1>0, <2>1, <2>2
  <1>8. CASE Write(p) \/ Replace(p) \/ Retry(p)
    BY <1>0, <1>8 DEF Write, Replace, Retry, AfterPut
  <1>9. CASE Record(p)
    <2>1. \A i \in Files \cup Procs : index[i].rows \subseteq index'[i].rows
      <3>1. CASE index' = index
        BY <3>1
      <3>2. CASE index' # index
        <4>1. /\ conn[p] \in Files \cup Procs
              /\ index' = [index EXCEPT
                    ![conn[p]].rows = index[conn[p]].rows \cup {Key(p)},
                    ![conn[p]].deps = index[conn[p]].deps \cup {Key(p)} \X DependsOn(Key(p))]
          BY <1>0, <1>9, <3>2 DEF Record, Works
        <4>q. QED
          BY <1>0, <4>1, RowsStay
      <3>q. QED
        BY <3>1, <3>2
    <2>2. UNCHANGED <<disk, draft, current, collected, cleaned, struck>> /\ OthersStand(p)
      BY <1>0, <1>9 DEF Record, AfterPut
    <2>q. QED
      BY <1>0, <2>1, <2>2
  <1>10. CASE Root(p)
    <2>1. \A i \in Files \cup Procs : index[i].rows \subseteq index'[i].rows
      <3>1. CASE index' = index
        BY <3>1
      <3>2. CASE index' # index
        <4>1. /\ conn[p] \in Files \cup Procs
              /\ index' = [index EXCEPT
                    ![conn[p]].roots = index[conn[p]].roots \cup {<<job[p], "code">>}]
          BY <1>0, <1>10, <3>2 DEF Root, Works
        <4>q. QED
          BY <1>0, <4>1, RowsStay
      <3>q. QED
        BY <3>1, <3>2
    <2>2. UNCHANGED <<disk, draft, current, collected, cleaned, struck>> /\ OthersStand(p)
      BY <1>0, <1>10 DEF Root
    <2>q. QED
      BY <1>0, <2>1, <2>2
  <1>11. CASE Reach(p) \/ Candidates(p) \/ Refer(p)
    BY <1>0, <1>11 DEF Reach, Candidates, Refer
  <1>12. CASE Delete(p) \/ Undepend(p) \/ Visit(p)
    <2>1. collected
      BY <1>0, <1>12 DEF Known, Recorded, Where, Opening, GcPCs, Delete, Undepend, Visit
    <2>2. CASE Delete(p)
      BY <1>0, <2>1, <2>2 DEF Delete
    <2>3. CASE Undepend(p)
      BY <1>0, <2>1, <2>3 DEF Undepend
    <2>4. CASE Visit(p)
      BY <1>0, <2>1, <2>4 DEF Visit
    <2>q. QED
      BY <1>12, <2>2, <2>3, <2>4
  <1>13. CASE Wipe(p) \/ Unlink(p)
    <2>1. cleaned
      BY <1>0, <1>13 DEF Known, Recorded, Where, Opening, Wipe, Unlink
    <2>q. QED
      BY <1>0, <1>13, <2>1 DEF Wipe, Unlink
  <1>q. QED
    BY <1>1, <1>2, <1>3, <1>4, <1>5, <1>6, <1>7, <1>8, <1>9, <1>10, <1>11, <1>12, <1>13
    DEF ProcessStep, Step, Open, Reopen

\* What another process knows stays true.
LEMMA OthersKnow ==
    ASSUME CacheInv, NEW p \in Procs, ProcessStep(p), NEW q \in Procs \ {p}
    PROVE  Known(q)'
  <1>1. StoreGrows /\ OthersStand(p) /\ Known(q) /\ TypeOK /\ SharedIndex
    BY StepStands DEF CacheInv
  <1> USE <1>1 DEF OthersStand, StoreGrows, Known
  <1>2. Where(q)' = Where(q) /\ Key(q)' = Key(q)
    BY DEF Where, Key
  <1>3. Connected(q)'
    BY DEF Connected
  <1>4. Recorded(q)'
    BY <1>2 DEF Recorded
  <1>5. Answered(q)'
    BY <1>2 DEF Answered
  <1>6. ObjectFirst(q)'
    BY <1>2 DEF ObjectFirst, Undeleted
  <1>7. RowsIn(q)'
    <2>1. Untouched' => Untouched
      BY DEF Untouched, Undeleted
    <2>2. Untouched /\ conn[q] \in Files => conn[q] = current /\ current # None
      BY SetsAssumption DEF SharedIndex, Untouched, Undeleted
    <2>3. Untouched' /\ current # None =>
              current' = current /\ index[current].rows \subseteq index'[current].rows
      BY DEF Untouched, Undeleted
    <2>q. QED
      BY <1>2, <2>1, <2>2, <2>3 DEF RowsIn
  <1>q. QED
    BY <1>3, <1>4, <1>5, <1>6, <1>7

-----------------------------------------------------------------------------
(* What a process knows after a step of its own. *)

\* Of a process that has ended nothing is asked but that it is ready to start again.
LEMMA QuitKnows ==
    ASSUME TypeOK, NEW p \in Procs, Quit(p)
    PROVE  Known(p)'
  <1>1. /\ pc'[p] = "idle" /\ then'[p] = "idle" /\ conn'[p] = None /\ part'[p] = "code"
    BY DEF TypeOK, Quit, Fresh
  <1>2. Where(p)' = "idle"
    BY <1>1 DEF Where, Opening
  <1>q. QED
    BY <1>1, <1>2, SetsAssumption
    DEF Known, Connected, Recorded, Answered, ObjectFirst, RowsIn, Opening, GcPCs

\* Having opened the index a process goes on where it meant to.
LEMMA OpenKnows ==
    ASSUME CacheInv, NEW p \in Procs, pc[p] \in Opening, OpenFile(p) \/ OpenMemory(p),
           UNCHANGED <<disk, draft, attempt, dropped, buildVars, gcVars, history>>
    PROVE  Known(p)'
  <1>0. TypeOK /\ Known(p) /\ conn[p] = None /\ SharedIndex
    BY DEF CacheInv, Known, Connected
  <1>1. /\ pc'[p] = then[p] /\ then'[p] = "idle"
        /\ conn'[p] \in Files \/ (conn'[p] = p /\ disabled'[p])
        /\ disabled'[p] \/ (disabled'[p] <=> disabled[p])
    <2>1. CASE OpenMemory(p)
      BY <1>0, <2>1 DEF OpenMemory, Connect, TypeOK
    <2>2. CASE OpenFile(p)
      <3>1. current = None => (CHOOSE f \in Unborn : TRUE) \in Files
        BY <1>0, UnbornExists DEF Unborn
      <3>2. \E f \in Files : conn' = [conn EXCEPT ![p] = f]
        BY <1>0, <2>2, <3>1 DEF OpenFile, Connect, TypeOK
      <3>3. /\ pc' = [pc EXCEPT ![p] = then[p]] /\ then' = [then EXCEPT ![p] = "idle"]
            /\ disabled' = disabled
        BY <2>2 DEF OpenFile
      <3>4. conn'[p] \in Files /\ pc'[p] = then[p] /\ then'[p] = "idle"
        BY <1>0, <3>2, <3>3 DEF TypeOK
      <3>5. disabled'[p] <=> disabled[p]
        BY <3>3
      <3>q. QED
        BY <3>4, <3>5
    <2>q. QED
      BY <2>1, <2>2
  <1>2. Where(p)' = Where(p) /\ then[p] \in {"select", "reach", "write", "deliver", "retry"}
    BY <1>0, <1>1 DEF Where, Opening, Known, Connected
  <1>3. StoreGrows /\ UNCHANGED <<job, part, answer, draft, dropped>>
    BY <1>0, OpenStands DEF buildVars
  <1>4. Connected(p)'
    BY <1>1, <1>2, SetsAssumption DEF Connected, Opening
  <1>5. Recorded(p)' /\ Answered(p)'
    BY <1>0, <1>2, <1>3 DEF Known, Recorded, Answered, StoreGrows, GcPCs
  <1>6. ObjectFirst(p)'
    BY <1>1, <1>2 DEF ObjectFirst
  <1>7. RowsIn(p)'
    <2>1. Untouched' => Untouched
      BY <1>3 DEF StoreGrows, Untouched, Undeleted
    <2>2. Where(p)' # "root"
      BY <1>1, <1>2 DEF Where, Opening
    <2>3. Untouched' /\ current # None =>
              current' = current /\ index[current].rows \subseteq index'[current].rows
      BY <1>3 DEF StoreGrows, Untouched, Undeleted
    <2>q. QED
      BY <1>0, <1>1, <1>2, <1>3, <2>1, <2>2, <2>3 DEF Known, RowsIn, Where, Opening
  <1>q. QED
    BY <1>4, <1>5, <1>6, <1>7 DEF Known

\* With its put ended, recorded or not, a build goes on as it should if the put of the code
\* left its row in the index everybody has, and that of the map both.
LEMMA AfterPutKnows ==
    ASSUME TypeOK, NEW p \in Procs, Known(p), pc[p] \in BuildPCs, AfterPut(p), UNCHANGED conn,
           conn[p] = p => disabled'[p],
           Untouched' /\ ~disabled'[p] /\ ~dropped'[p] =>
               IF part[p] = "code"
               THEN current' # None /\ <<job[p], "code">> \in index'[current'].rows
               ELSE conn[p] \in Files /\ {job[p]} \X Artifacts \subseteq index'[conn[p]].rows
    PROVE  Known(p)'
  <1>1. then'[p] = then[p] /\ job'[p] = job[p] /\ answer'[p] = answer[p] /\ conn'[p] = conn[p]
    BY DEF AfterPut, Go
  <1>2. CASE part[p] = "code"
    <2>1. pc'[p] = "write" /\ part'[p] = "map" /\ Where(p)' = "write"
      BY <1>2 DEF AfterPut, Go, TypeOK, Where, Opening
    <2>q. QED
      BY <1>1, <1>2, <2>1
      DEF Known, Connected, Recorded, Answered, ObjectFirst, RowsIn, Opening, GcPCs
  <1>3. CASE part[p] # "code"
    <2>1. pc'[p] = "root" /\ part'[p] = "code" /\ Where(p)' = "root"
      BY <1>3 DEF AfterPut, Go, TypeOK, Where, Opening
    <2>q. QED
      BY <1>1, <1>3, <2>1
      DEF Known, Connected, Recorded, Answered, ObjectFirst, RowsIn, Opening, GcPCs
  <1>q. QED
    BY <1>2, <1>3

\* A process that goes on within its put, or from there to open the index again.
LEMMA WithinPut ==
    ASSUME TypeOK, NEW p \in Procs, Known(p), StoreGrows,
           pc[p] \in {"write", "replace", "record", "retry"},
           UNCHANGED <<job, part, answer, disabled, dropped>>,
           \/ /\ pc'[p] \in {"write", "replace", "record"} /\ then'[p] = then[p]
              /\ conn'[p] = conn[p]
              /\ pc'[p] = "replace" => draft'[p] = Key(p)
              /\ pc'[p] = "record" => Key(p) \in disk'
           \/ pc'[p] \in {"open", "quarantine"} /\ then'[p] = "retry" /\ conn'[p] = None
    PROVE  Known(p)'
  <1>1. /\ Where(p) \in {"write", "replace", "record", "retry"}
        /\ Where(p)' \in {"write", "replace", "record", "retry"} /\ Key(p)' = Key(p)
    BY DEF Where, Opening, Key
  <1>2. Connected(p)'
    BY SetsAssumption DEF Known, Connected, Opening
  <1>3. Recorded(p)' /\ Answered(p)' /\ ObjectFirst(p)'
    BY <1>1 DEF Recorded, Answered, ObjectFirst, GcPCs
  <1>4. RowsIn(p)'
    BY <1>1 DEF Known, RowsIn, StoreGrows, Untouched, Undeleted
  <1>q. QED
    BY <1>2, <1>3, <1>4 DEF Known

LEMMA PutKnows ==
    ASSUME CacheInv, NEW p \in Procs, Write(p) \/ Replace(p) \/ Record(p) \/ Retry(p)
    PROVE  Known(p)'
  <1>0. TypeOK /\ Known(p) /\ SharedIndex
    BY DEF CacheInv
  <1>1. StoreGrows
    BY StepStands DEF ProcessStep, Step
  <1>2. pc[p] \in {"write", "replace", "record", "retry"}
    BY DEF Write, Replace, Record, Retry, At
  <1>3. pc[p] \in BuildPCs /\ (conn[p] = p => disabled[p])
    BY <1>0, <1>2 DEF BuildPCs, Known, Connected
  <1>4. CASE Write(p)
    <2>1. CASE AfterPut(p) /\ disabled' = [disabled EXCEPT ![p] = TRUE]
      <3>1. disabled'[p] /\ UNCHANGED conn
        BY <1>0, <1>4, <2>1 DEF Write, TypeOK
      <3>q. QED
        BY <1>0, <1>3, <2>1, <3>1, AfterPutKnows
    <2>2. CASE UNCHANGED <<disabled, attempt, buildVars>>
      <3>1. /\ pc'[p] \in {"record", "replace"} /\ then' = then /\ conn' = conn
            /\ UNCHANGED <<job, part, answer, disabled, dropped>>
            /\ pc'[p] = "replace" => draft'[p] = Key(p)
            /\ pc'[p] = "record" => Key(p) \in disk'
        <4>1. CASE Key(p) \in disk /\ Go(p, "record") /\ UNCHANGED draft
          BY <1>0, <1>4, <2>2, <4>1 DEF Write, Go, TypeOK, buildVars
        <4>2. CASE Key(p) \notin disk /\ Go(p, "replace") /\ draft' = [draft EXCEPT ![p] = Key(p)]
          BY <1>0, <1>4, <2>2, <4>2 DEF Write, Go, TypeOK, buildVars
        <4>3. CASE AfterPut(p)
          BY <1>0, <2>2, <4>3 DEF AfterPut, TypeOK, buildVars, Artifacts
        <4>q. QED
          BY <1>4, <4>1, <4>2, <4>3 DEF Write
      <3>q. QED
        BY <1>0, <1>1, <1>2, <3>1, WithinPut
    <2>q. QED
      BY <1>4, <2>1, <2>2 DEF Write
  <1>5. CASE Replace(p)
    <2>1. CASE draft[p] = None
      <3>1. disabled'[p] /\ UNCHANGED conn /\ AfterPut(p)
        BY <1>0, <1>5, <2>1 DEF Replace, TypeOK
      <3>q. QED
        BY <1>0, <1>3, <3>1, AfterPutKnows
    <2>2. CASE draft[p] # None
      <3>1. draft[p] = Key(p)
        BY <1>0, <1>5, <2>2 DEF Known, ObjectFirst, Replace, At
      <3>2. /\ pc'[p] = "record" /\ then' = then /\ conn' = conn /\ Key(p) \in disk'
            /\ UNCHANGED <<job, part, answer, disabled, dropped>>
        BY <1>0, <1>5, <2>2, <3>1 DEF Replace, Go, TypeOK, buildVars
      <3>q. QED
        BY <1>0, <1>1, <1>2, <3>2, WithinPut
    <2>q. QED
      BY <2>1, <2>2
  <1>6. CASE Record(p)
    <2>1. CASE Fails(p, "retry") /\ UNCHANGED <<index, attempt, buildVars>>
      <3>1. /\ pc'[p] \in {"open", "quarantine"} /\ then'[p] = "retry" /\ conn'[p] = None
            /\ UNCHANGED <<job, part, answer, disabled, dropped>>
        BY <1>0, <1>6, <2>1 DEF Record, Fails, Recovery, TypeOK, buildVars
      <3>q. QED
        BY <1>0, <1>1, <1>2, <3>1, WithinPut
    <2>2. CASE /\ Works(p) /\ UNCHANGED conn /\ AfterPut(p)
               /\ index' = [index EXCEPT ![conn[p]].rows = @ \cup {Key(p)},
                       ![conn[p]].deps = @ \cup {Key(p)} \X DependsOn(Key(p))]
      <3>1. /\ conn[p] \in Files \cup Procs /\ Key(p) \in index'[conn[p]].rows
            /\ index[conn[p]].rows \subseteq index'[conn[p]].rows
        BY <1>0, <2>2 DEF Works, TypeOK
      <3>2. UNCHANGED <<current, disabled, dropped, job, collected, cleaned, struck>>
        BY <1>6, <2>2 DEF Record, AfterPut, history, dirVars
      <3>3. Untouched /\ ~disabled[p] => conn[p] \in Files /\ conn[p] = current
        BY <1>0, <1>3, <2>2 DEF Works, SharedIndex, Untouched, Undeleted
      <3>4. part[p] \in Artifacts /\ (part[p] = "code" => Key(p) = <<job[p], "code">>)
            /\ (part[p] = "map" => Key(p) = <<job[p], "map">>)
        BY <1>0 DEF TypeOK, Key
      <3>5. Untouched /\ ~disabled[p] /\ ~dropped[p] /\ part[p] = "map" =>
                <<job[p], "code">> \in index[conn[p]].rows
        BY <1>0, <1>6, <3>3 DEF Known, RowsIn, Where, Opening, Record, At
      <3>6. Untouched' /\ ~disabled'[p] /\ ~dropped'[p] =>
               IF part[p] = "code"
               THEN current' # None /\ <<job[p], "code">> \in index'[current'].rows
               ELSE conn[p] \in Files /\ {job[p]} \X Artifacts \subseteq index'[conn[p]].rows
        BY <3>1, <3>2, <3>3, <3>4, <3>5, SetsAssumption DEF Untouched, Undeleted, Artifacts
      <3>7. conn[p] = p => disabled'[p]
        BY <1>3, <3>2
      <3>q. QED
        BY <1>0, <1>3, <2>2, <3>6, <3>7, AfterPutKnows
    <2>q. QED
      BY <1>6, <2>1, <2>2 DEF Record
  <1>7. CASE Retry(p)
    <2>1. CASE AfterPut(p) /\ dropped' = [dropped EXCEPT ![p] = TRUE]
      <3>1. dropped'[p] /\ UNCHANGED <<conn, disabled>>
        BY <1>0, <1>7, <2>1 DEF Retry, TypeOK
      <3>q. QED
        BY <1>0, <1>3, <2>1, <3>1, AfterPutKnows
    <2>2. CASE Go(p, "write") /\ UNCHANGED <<buildVars, dropped>>
      <3>1. /\ pc'[p] = "write" /\ then' = then /\ conn' = conn
            /\ UNCHANGED <<job, part, answer, disabled, dropped>>
        BY <1>0, <1>7, <2>2 DEF Retry, Go, TypeOK, buildVars
      <3>q. QED
        BY <1>0, <1>1, <1>2, <3>1, WithinPut
    <2>q. QED
      BY <1>7, <2>1, <2>2 DEF Retry
  <1>q. QED
    BY <1>4, <1>5, <1>6, <1>7

LEMMA OwnKnows ==
    ASSUME CacheInv, NEW p \in Procs, ProcessStep(p)
    PROVE  Known(p)'
  <1>0. TypeOK /\ Known(p) /\ SharedIndex /\ RowsBacked /\ TypeOK' /\ StoreGrows
    BY CacheTypesStep, StepStands DEF CacheInv, Known, ProcessStep, Next
  <1>01. Untouched' => Untouched
    BY <1>0 DEF StoreGrows, Untouched, Undeleted
  <1>1. CASE Crash(p) \/ Deliver(p) \/ EndGc(p)
    BY <1>0, <1>1, QuitKnows DEF Crash, Deliver, EndGc
  <1>2. CASE (Open(p) \/ Reopen(p)) /\ (OpenFile(p) \/ OpenMemory(p))
    BY <1>0, <1>2, OpenKnows DEF Open, Reopen, At, Opening
  <1> USE DEF At, Go, TypeOK, dirVars, indexVars, storeVars, buildVars, gcVars, history,
              Known, Connected, Recorded, Answered, ObjectFirst, RowsIn, Where, Opening,
              Untouched, Undeleted, BuildPCs, GcPCs, Key
  <1>3. CASE StartGc(p) \/ StartClean(p)
    BY <1>0, <1>3 DEF StartGc, StartClean, Begin
  <1>4. ASSUME NEW m \in Modules, StartBuild(p, m)
        PROVE  Known(p)'
    BY <1>0, <1>4 DEF StartBuild, Begin
  <1>5. CASE Open(p) /\ pc' = [pc EXCEPT ![p] = "quarantine"]
             /\ UNCHANGED <<conn, current, indexVars, disabled, then>>
    BY <1>0, <1>5 DEF Open
  <1>6. CASE Quarantine(p)
    BY <1>0, <1>6 DEF Quarantine, StoreGrows
  <1>7. CASE Select(p)
    <2>1. Undeleted /\ Works(p) /\ Key(p) \in index[conn[p]].rows => Key(p) \in disk
      BY <1>0 DEF RowsBacked, Works
    <2>q. QED
      BY <1>0, <1>7, <2>1, SetsAssumption DEF Select, Fails, Recovery, Missed, Artifacts
  <1>8. CASE Check(p)
    BY <1>0, <1>8 DEF Check
  <1>81. CASE Touch(p) \/ Forget(p)
    BY <1>0, <1>81, SetsAssumption DEF Touch, Forget, Fails, Recovery, Missed, Artifacts
  <1>9. CASE Load(p)
    BY <1>0, <1>9 DEF Load, Missed, Artifacts
  <1>10. CASE Write(p) \/ Replace(p) \/ Record(p) \/ Retry(p)
    BY <1>10, PutKnows
  <1>14. CASE Root(p)
    BY <1>0, <1>14, SetsAssumption DEF Root, Fails, Recovery
  <1>15. CASE Reach(p) \/ Candidates(p) \/ Refer(p)
    BY <1>0, <1>15 DEF Reach, Candidates, Refer
  <1>16. CASE Delete(p) \/ Undepend(p)
    BY <1>0, <1>16 DEF Delete, Undepend
  <1>17. CASE Visit(p)
    BY <1>0, <1>17 DEF Visit
  <1>18. CASE Wipe(p) \/ Unlink(p)
    BY <1>0, <1>18 DEF Wipe, Unlink
  <1>q. QED
    BY <1>1, <1>2, <1>3, <1>4, <1>5, <1>6, <1>7, <1>8, <1>81, <1>9, <1>10,
       <1>14, <1>15, <1>16, <1>17, <1>18
    DEF ProcessStep, Step, Open, Reopen

-----------------------------------------------------------------------------
(* What the processes share. *)

LEMMA UndamagedStep ==
    ASSUME CacheInv, NEW p \in Procs, ProcessStep(p)
    PROVE  Undamaged'
  <1> SUFFICES ASSUME ~struck'
               PROVE  damaged' = {} /\ \A q \in Procs : pc'[q] \notin {"quarantine", "reopen"}
    BY DEF Undamaged
  <1>1. ~struck /\ damaged = {} /\ \A q \in Procs : pc[q] \notin {"quarantine", "reopen"}
    BY StepStands DEF StoreGrows, CacheInv, Undamaged
  <1>2. \A q \in Procs \ {p} : pc'[q] = pc[q]
    BY StepStands DEF OthersStand
  <1>3. Known(p)' /\ TypeOK /\ Known(p)
    BY OwnKnows DEF CacheInv
  <1>4. damaged' = {}
    <2> USE <1>1 DEF dirVars, indexVars, Quit
    <2>1. CASE Open(p) \/ Reopen(p)
      BY <2>1 DEF Open, Reopen, OpenFile, OpenMemory
    <2>2. CASE Check(p) \/ Touch(p) \/ Forget(p) \/ Record(p) \/ Root(p) \/ Delete(p)
               \/ Undepend(p)
      BY <2>2 DEF Check, Touch, Forget, Record, Root, Delete, Undepend
    <2>3. CASE Quarantine(p) \/ Select(p) \/ Load(p) \/ Write(p) \/ Replace(p) \/ Retry(p)
               \/ Deliver(p)
      BY <2>3 DEF Quarantine, Select, Load, Write, Replace, Retry, Deliver
    <2>4. CASE Reach(p) \/ Candidates(p) \/ Refer(p) \/ Visit(p) \/ EndGc(p) \/ Wipe(p)
               \/ Unlink(p)
      BY <2>4 DEF Reach, Candidates, Refer, Visit, EndGc, Wipe, Unlink
    <2>5. CASE StartGc(p) \/ StartClean(p) \/ Crash(p) \/ \E m \in Modules : StartBuild(p, m)
      BY <2>5 DEF StartGc, StartClean, Crash, StartBuild
    <2>q. QED
      BY <2>1, <2>2, <2>3, <2>4, <2>5 DEF ProcessStep, Step
  <1>5. pc'[p] \notin {"quarantine", "reopen"}
    <2> USE <1>1, <1>3 DEF TypeOK, Go, At, Fails, Recovery, Missed, AfterPut, Quit, Known,
                          Connected
    <2>1. CASE Open(p) \/ Reopen(p)
      BY <2>1, SetsAssumption DEF Open, Reopen, OpenFile, OpenMemory
    <2>2. CASE Check(p) \/ Touch(p) \/ Forget(p) \/ Record(p) \/ Root(p) \/ Delete(p)
               \/ Undepend(p)
      BY <2>2 DEF Check, Touch, Forget, Record, Root, Delete, Undepend, storeVars
    <2>3. CASE Quarantine(p) \/ Select(p) \/ Load(p) \/ Write(p) \/ Replace(p) \/ Retry(p)
               \/ Deliver(p)
      BY <2>3 DEF Quarantine, Select, Load, Write, Replace, Retry, Deliver
    <2>4. CASE Reach(p) \/ Candidates(p) \/ Refer(p) \/ Visit(p) \/ EndGc(p) \/ Wipe(p)
               \/ Unlink(p)
      BY <2>4 DEF Reach, Candidates, Refer, Visit, EndGc, Wipe, Unlink
    <2>5. CASE StartGc(p) \/ StartClean(p) \/ Crash(p) \/ \E m \in Modules : StartBuild(p, m)
      BY <2>5 DEF StartGc, StartClean, Crash, StartBuild
    <2>q. QED
      BY <2>1, <2>2, <2>3, <2>4, <2>5 DEF ProcessStep, Step
  <1>q. QED
    BY <1>1, <1>2, <1>4, <1>5

\* Only `Record` adds a row, and the object is there.
LEMMA RowsStep ==
    ASSUME CacheInv, NEW p \in Procs, ProcessStep(p)
    PROVE  RowsBacked'
  <1>1. TypeOK /\ RowsBacked /\ Known(p) /\ StoreGrows
    BY StepStands DEF CacheInv
  <1> SUFFICES ASSUME Undeleted', NEW i \in Files \cup Procs
               PROVE  index'[i].rows \subseteq disk'
    BY DEF RowsBacked, Undeleted
  <1>2. index[i].rows \subseteq disk /\ disk \subseteq disk' /\ Undeleted
    BY <1>1 DEF RowsBacked, StoreGrows, Undeleted
  <1>3. CASE index'[i].rows \subseteq index[i].rows
    BY <1>2, <1>3
  <1>4. CASE Record(p)
    <2>1. Key(p) \in disk /\ disk' = disk
      BY <1>1, <1>2, <1>4 DEF Record, At, Known, ObjectFirst, dirVars
    <2>2. index'[i].rows \subseteq index[i].rows \cup {Key(p)}
      BY <1>1, <1>4 DEF Record, TypeOK, Works
    <2>q. QED
      BY <1>2, <2>1, <2>2
  <1>5. CASE ~Record(p)
    <2> USE <1>1 DEF TypeOK, indexVars, Quit, Fresh, Empty, Connect, Works
    <2>1. CASE Open(p) \/ Reopen(p)
      <3>1. index' = index \/ \E x : index' = [index EXCEPT ![x] = Empty]
        BY <2>1 DEF Open, Reopen, OpenFile, OpenMemory
      <3>2. CASE index' = index
        BY <1>2, <3>2
      <3>3. ASSUME NEW x, index' = [index EXCEPT ![x] = Empty]
            PROVE  index'[i].rows \subseteq disk'
        BY <1>2, <3>3
      <3>q. QED
        BY <3>1, <3>2, <3>3
    <2>2. CASE Check(p) \/ Touch(p) \/ Forget(p)
      <3>1. CASE Check(p) \/ Touch(p)
        BY <1>2, <3>1 DEF Check, Touch
      <3>2. CASE Forget(p)
        <4>1. disk' = disk
          BY <3>2 DEF Forget, dirVars
        <4>2. CASE index' = index
          BY <1>2, <4>1, <4>2
        <4>3. CASE \E c, k : index' = [index EXCEPT ![c].rows = index[c].rows \ {k}]
          <5>1. i \in DOMAIN index /\ DOMAIN index[i] = {"rows", "deps", "roots"}
            OBVIOUS
          <5>2. index'[i].rows \subseteq index[i].rows
            BY <4>3, <5>1
          <5>q. QED
            BY <1>2, <4>1, <5>2
        <4>q. QED
          BY <3>2, <4>2, <4>3 DEF Forget
      <3>q. QED
        BY <2>2, <3>1, <3>2
    <2>3. CASE Root(p)
      <3>1. index' = index \/ \E x, y : index' = [index EXCEPT ![x].roots = y]
        BY <2>3 DEF Root
      <3>2. CASE index' = index
        BY <1>2, <3>2
      <3>3. ASSUME NEW x, NEW y, index' = [index EXCEPT ![x].roots = y]
            PROVE  index'[i].rows = index[i].rows
        <4>1. i \in DOMAIN index /\ DOMAIN index[i] = {"rows", "deps", "roots"}
          OBVIOUS
        <4>q. QED
          BY <3>3, <4>1
      <3>q. QED
        BY <1>2, <3>1, <3>2, <3>3
    <2>4. CASE Delete(p) \/ Undepend(p)
      <3>1. CASE Delete(p)
        BY <1>2, <3>1 DEF Delete
      <3>2. CASE Undepend(p)
        <4>1. \E x, y : index' = [index EXCEPT ![x].deps = y]
          BY <3>2 DEF Undepend
        <4>2. i \in DOMAIN index /\ DOMAIN index[i] = {"rows", "deps", "roots"}
          OBVIOUS
        <4>3. index'[i].rows = index[i].rows
          BY <4>1, <4>2
        <4>4. disk' = disk
          BY <3>2 DEF Undepend, dirVars
        <4>q. QED
          BY <1>2, <4>3, <4>4
      <3>q. QED
        BY <2>4, <3>1, <3>2
    <2>5. CASE Quarantine(p) \/ Select(p) \/ Load(p) \/ Write(p) \/ Replace(p) \/ Retry(p)
               \/ Deliver(p) \/ EndGc(p)
      BY <1>2, <2>5 DEF Quarantine, Select, Load, Write, Replace, Retry, Deliver, EndGc
    <2>6. CASE Reach(p) \/ Candidates(p) \/ Refer(p) \/ Visit(p) \/ Wipe(p)
               \/ Unlink(p)
      BY <1>2, <2>6 DEF Reach, Candidates, Refer, Visit, Wipe, Unlink
    <2>7. CASE StartGc(p) \/ StartClean(p) \/ Crash(p) \/ \E m \in Modules : StartBuild(p, m)
      BY <1>2, <2>7 DEF StartGc, StartClean, Crash, StartBuild
    <2>q. QED
      BY <1>5, <2>1, <2>2, <2>3, <2>4, <2>5, <2>6, <2>7 DEF ProcessStep, Step
  <1>q. QED
    BY <1>4, <1>5

\* The index at the path is replaced only by one for which there was none.
LEMMA SharedStep ==
    ASSUME CacheInv, NEW p \in Procs, ProcessStep(p)
    PROVE  SharedIndex'
  <1>1. /\ TypeOK /\ SharedIndex /\ Known(p) /\ StoreGrows /\ OthersStand(p)
        /\ None \notin Files
    BY StepStands, SetsAssumption DEF CacheInv
  <1> SUFFICES ASSUME ~struck', ~cleaned', NEW q \in Procs, conn'[q] \in Files
               PROVE  conn'[q] = current'
    BY DEF SharedIndex
  <1>2. ~struck /\ ~cleaned /\ (current # None => current' = current)
    BY <1>1 DEF StoreGrows
  <1>3. conn[q] \in Files => conn[q] = current /\ current' = current
    BY <1>1, <1>2 DEF SharedIndex
  <1>4. CASE conn'[q] = conn[q]
    BY <1>3, <1>4
  <1>5. CASE q = p /\ conn'[q] # conn[q]
    <2> USE <1>1 DEF TypeOK, storeVars, Quit, Fresh, Connect, Fails
    <2>1. CASE Open(p) \/ Reopen(p)
      <3>1. CASE OpenFile(p) /\ current = None
        <4> DEFINE f == CHOOSE x \in Unborn : TRUE
        <4>1. conn' = [conn EXCEPT ![p] = f] /\ current' = f
          BY <3>1 DEF OpenFile
        <4> HIDE DEF f
        <4>q. QED
          BY <1>5, <4>1
      <3>2. CASE OpenFile(p) /\ current # None
        <4>1. conn' = [conn EXCEPT ![p] = current] /\ current' = current
          BY <3>2 DEF OpenFile
        <4>q. QED
          BY <1>5, <4>1
      <3>3. CASE OpenMemory(p)
        BY <1>5, <3>3, SetsAssumption DEF OpenMemory
      <3>4. CASE UNCHANGED conn
        BY <1>5, <3>4
      <3>q. QED
        BY <2>1, <3>1, <3>2, <3>3, <3>4 DEF Open, Reopen
    <2>2. CASE Select(p) \/ Check(p) \/ Touch(p) \/ Forget(p) \/ Record(p) \/ Root(p)
      BY <1>5, <2>2 DEF Select, Check, Touch, Forget, Record, Root
    <2>3. CASE Quarantine(p) \/ Load(p) \/ Write(p) \/ Replace(p) \/ Retry(p)
      BY <1>5, <2>3 DEF Quarantine, Load, Write, Replace, Retry
    <2>4. CASE Deliver(p) \/ EndGc(p) \/ Crash(p)
      BY <1>5, <2>4 DEF Deliver, EndGc, Crash
    <2>5. CASE Reach(p) \/ Candidates(p) \/ Delete(p) \/ Undepend(p) \/ Refer(p)
               \/ Visit(p) \/ Wipe(p) \/ Unlink(p)
      BY <1>5, <2>5 DEF Reach, Candidates, Delete, Undepend, Refer, Visit, Wipe, Unlink
    <2>6. CASE StartGc(p) \/ StartClean(p) \/ \E m \in Modules : StartBuild(p, m)
      BY <1>5, <2>6 DEF StartGc, StartClean, StartBuild
    <2>q. QED
      BY <2>1, <2>2, <2>3, <2>4, <2>5, <2>6 DEF ProcessStep, Step
  <1>6. q # p => conn'[q] = conn[q]
    BY <1>1 DEF OthersStand
  <1>q. QED
    BY <1>4, <1>5, <1>6

-----------------------------------------------------------------------------
(* The theorems. *)

LEMMA CacheInitially ==
    ASSUME Init
    PROVE  CacheInv
  <1>1. PICK built \in {{}, Modules}, f \in Files :
            /\ disk = built \X Artifacts
            /\ current = IF built = {} THEN None ELSE f
            /\ index = [i \in Files \cup Procs |-> IF i = f THEN Built(built) ELSE Empty]
    BY DEF Init
  <1>2. built \subseteq Modules
    BY <1>1
  <1>3. TypeOK
    <2>1. disk \subseteq Keys /\ current \in Files \cup {None}
      BY <1>1, <1>2 DEF Keys
    <2>2. index \in [Files \cup Procs -> Indexes]
      BY <1>1, <1>2, BuiltType DEF Indexes, Empty
    <2>3. /\ attempt \in [Procs -> 1 .. Attempts] /\ begun \in 0 .. MaxCommands
          /\ conn \in [Procs -> Files \cup Procs \cup {None}]
          /\ \A p \in Procs : conn[p] \in Procs => conn[p] = p
      BY SetsAssumption, BoundsAssumption DEF Init
    <2>4. /\ draft \in [Procs -> Keys \cup {None}] /\ damaged \subseteq Files
          /\ pc \in [Procs -> PCs] /\ then \in [Procs -> PCs]
          /\ disabled \in [Procs -> BOOLEAN] /\ dropped \in [Procs -> BOOLEAN]
          /\ job \in [Procs -> Modules] /\ part \in [Procs -> Artifacts]
          /\ answer \in [Procs -> {"none", "whole"}]
          /\ keep \in [Procs -> SUBSET (Keys \cup ImportKeys)]
          /\ \A v \in {doomed, referenced, toVisit} : v \in [Procs -> SUBSET Keys]
          /\ collected \in BOOLEAN /\ cleaned \in BOOLEAN /\ struck \in BOOLEAN
      BY DEF Init, PCs, Artifacts
    <2>q. QED
      BY <2>1, <2>2, <2>3, <2>4 DEF TypeOK, Indexes
  <1>4. RowsBacked
    BY <1>1 DEF RowsBacked, Built, Empty
  <1>5. Undamaged /\ SharedIndex
    BY SetsAssumption DEF Init, Undamaged, SharedIndex
  <1>6. \A p \in Procs : Known(p)
    BY SetsAssumption
    DEF Init, Known, Connected, Recorded, Answered, ObjectFirst, RowsIn, Where, Opening, GcPCs
  <1>q. QED
    BY <1>3, <1>4, <1>5, <1>6 DEF CacheInv

LEMMA CacheInvStep ==
    ASSUME CacheInv, [Next]_vars
    PROVE  CacheInv'
  <1>1. TypeOK'
    BY CacheTypesStep DEF CacheInv, Known
  <1>2. CASE UNCHANGED vars
    <2> USE <1>1, <1>2 DEF CacheInv, vars, dirVars, indexVars, storeVars, buildVars, gcVars, history
    <2>1. Undamaged' /\ RowsBacked' /\ SharedIndex'
      BY DEF Undamaged, RowsBacked, SharedIndex
    <2>2. \A p \in Procs : Known(p)'
      BY DEF Known, Connected, Recorded, Answered, ObjectFirst, RowsIn, Where, Key, Untouched,
             Undeleted
    <2>q. QED
      BY <2>1, <2>2
  <1>3. CASE Damage
    <2> USE <1>1, <1>3 DEF CacheInv, Damage, dirVars, storeVars, buildVars, gcVars
    <2>1. Undamaged' /\ RowsBacked' /\ SharedIndex'
      BY DEF Undamaged, RowsBacked, SharedIndex
    <2>2. \A p \in Procs : Known(p)'
      BY DEF Known, Connected, Recorded, Answered, ObjectFirst, RowsIn, Where, Key, Untouched,
             Undeleted
    <2>q. QED
      BY <2>1, <2>2
  <1>4. ASSUME NEW p \in Procs, ProcessStep(p)
        PROVE  CacheInv'
    <2>1. Undamaged' /\ RowsBacked' /\ SharedIndex'
      BY <1>4, UndamagedStep, RowsStep, SharedStep
    <2>2. \A q \in Procs : Known(q)'
      BY <1>4, OwnKnows, OthersKnow
    <2>q. QED
      BY <1>1, <2>1, <2>2 DEF CacheInv
  <1>q. QED
    BY <1>2, <1>3, <1>4 DEF Next, ProcessStep

\* The invariant of every behaviour of the store, whatever faults it meets.
THEOREM CacheInvariance == Spec => []CacheInv
  <1>1. Init => CacheInv
    BY CacheInitially
  <1>2. CacheInv /\ [Next]_vars => CacheInv'
    BY CacheInvStep
  <1>q. QED
    BY <1>1, <1>2, PTL DEF Spec

\* Every reachable state of the store is well typed, and a new index always finds a file.
THEOREM CacheTyping == Spec => []TypeOK
  <1>1. CacheInv => TypeOK
    BY DEF CacheInv
  <1>q. QED
    BY <1>1, CacheInvariance, PTL

\* A build delivers its module whole, whatever other builds, collections, crashes, damage
\* and a busy or full disk do to it (`build_python` over cache/store.py).
THEOREM Whole == Spec => []WholeAnswers
  <1>1. CacheInv => WholeAnswers
    BY DEF CacheInv, Known, Answered, Where, Opening, WholeAnswers, At
  <1>q. QED
    BY <1>1, CacheInvariance, PTL

\* Until something deletes objects, no index names one that is not there: `put` writes the
\* object, and then its row.
THEOREM Backed == Spec => []RowsBacked
  <1>1. CacheInv => RowsBacked
    BY DEF CacheInv
  <1>q. QED
    BY <1>1, CacheInvariance, PTL

\* Without damage and without a clean, all who have the index on disk have the same one:
\* an error that is not damage moves nothing aside (`_after`, `_recover`).
THEOREM Shared == Spec => []SharedIndex
  <1>1. CacheInv => SharedIndex
    BY DEF CacheInv
  <1>q. QED
    BY <1>1, CacheInvariance, PTL

\* A build that was not disabled and used up no tries finds both its artifacts in its index,
\* as long as nothing was deleted or damaged (`_retry`).
THEOREM KeptEntry == Spec => []EntryKept
  <1>1. CacheInv => EntryKept
    BY DEF CacheInv, Known, RowsIn, Where, Opening, Untouched, Undeleted, EntryKept, At
  <1>q. QED
    BY <1>1, CacheInvariance, PTL

(***************************************************************************)
(* Warm runs.                                                              *)
(***************************************************************************)

(* The inductive invariant, in parts. *)

\* The time the file system would give a file written now.
Stamped == (now \div Granule) * Granule

\* No file is younger than that.
NotFromTheFuture == mtime.text <= Stamped /\ mtime.conf <= Stamped

\* An artifact under a key is of what the key stands for.
KeyedByContents == \A k \in Contents : IsArtifact(k) => directory[k].of = k

\* A record whose times match still says what the files hold, the source of a racy one
\* excepted: a later edit of the source gets a later time because the record was taken a
\* racy window after the last one, and a later edit of the configuration by the "tick"
\* guard.
Truthful(e) ==
    e # NoEntry =>
        /\ e.digest = e.manifest.text /\ IsArtifact(e.manifest)
        /\ e.taken.text <= mtime.text /\ e.taken.conf <= mtime.conf
        /\ e.taken.conf = mtime.conf => e.manifest.conf = held.conf
        /\ ~e.racy => /\ e.taken.text + RacyWindow < now
                      /\ e.taken.text = mtime.text => e.manifest.text = held.text

Records == Truthful(remembered) /\ \A p \in Runners : Truthful(entry[p])

\* The places where a process has a key of its own.
Keyed == {"open", "sources", "publish", "draft", "replace", "check", "racy", "sign", "launch"}

\* What a process knows, at each place, of the files and of what it will run.
Way(p) ==
    /\ place[p] # "out" => {held.text, held.conf} \subseteq seen[p]
    /\ place[p] \in {"compare", "digest"} => entry[p] # NoEntry
    /\ place[p] = "digest" => key[p] = entry[p].manifest /\ key[p].conf \in seen[p]
    /\ place[p] \in Keyed => key[p] \in Contents /\ {key[p].text, key[p].conf} \subseteq seen[p]
    /\ place[p] \in Keyed \ {"launch"} => key[p].conf = held.conf
    /\ place[p] \in Keyed \ {"open", "sources", "publish"} => IsArtifact(key[p])
    /\ place[p] \in KeyWindow => key[p].text = held.text
    /\ place[p] = "sources" => read[p].conf = key[p].conf
    /\ place[p] = "publish" => read[p] = key[p]
    /\ place[p] = "in-process" /\ p \notin Importers =>
            {read[p].text, read[p].conf} \subseteq seen[p]
    /\ place[p] = "racy" => held.text = key[p].text \/ mtime.text = Stamped
    /\ place[p] = "sign" /\ ~racy[p] =>
            held.text = key[p].text /\ mtime.text + RacyWindow < now
    /\ ran[p] # Nothing => place[p] = "done" /\ {ran[p].text, ran[p].conf} \subseteq seen[p]

Ways == \A p \in Runners : Way(p)

WarmInv == WarmTypeOK /\ NotFromTheFuture /\ KeyedByContents /\ Records /\ Ways

-----------------------------------------------------------------------------
(* The times. *)

LEMMA RoundedDown ==
    ASSUME NEW n \in Nat, NEW g \in Nat \ {0}
    PROVE  /\ n \div g \in Nat /\ (n \div g) * g \in Nat
           /\ (n \div g) * g <= n /\ n < (n \div g) * g + g
           /\ (n \div g) * g <= ((n + 1) \div g) * g
  OBVIOUS

\* What the granularity does to the clock: it rounds it down, by less than a granule, and
\* keeps its order.
LEMMA Granules ==
    ASSUME WarmTypeOK
    PROVE  /\ Stamped \in 0 .. MaxTime /\ Stamped <= now /\ now < Stamped + Granule
           /\ Stamped <= ((now + 1) \div Granule) * Granule
  <1>1. now \in Nat /\ now <= MaxTime /\ MaxTime \in Nat /\ Granule \in Nat \ {0}
    BY WarmTimesAssumption DEF WarmTypeOK
  <1>2. Stamped \in Nat /\ Stamped <= now /\ now < Stamped + Granule
    BY <1>1, RoundedDown DEF Stamped
  <1>3. Stamped <= ((now + 1) \div Granule) * Granule
    BY <1>1, RoundedDown DEF Stamped
  <1>q. QED
    BY <1>1, <1>2, <1>3

\* What an edit of the source does to the files and their times, and what one of the
\* configuration does.
LEMMA TextEdit ==
    ASSUME WarmTypeOK, Unguarded = {}, Edit("text")
    PROVE  /\ held' \in Contents /\ held'.conf = held.conf
           /\ mtime' \in Stats /\ mtime'.conf = mtime.conf /\ mtime'.text = Stamped
           /\ \A p \in Runners : place[p] \notin {"open", "sources", "sign"}
           /\ UNCHANGED <<now, dirsVars, remembered, place, runVars, runs>>
           /\ edits' \in 0 .. MaxEdits
           /\ seen' \in [Runners -> SUBSET (Texts \cup Confs)]
           /\ \A p \in Runners :
                /\ place[p] = "out" => seen'[p] = seen[p]
                /\ place[p] # "out" => seen'[p] = seen[p] \cup {held'.text}
  <1>1. Stamped \in 0 .. MaxTime
    BY Granules
  <1>2. PICK content \in Texts \cup Confs :
            /\ [held EXCEPT !["text"] = content] \in Contents
            /\ held' = [held EXCEPT !["text"] = content]
            /\ seen' = [p \in Runners |-> IF place[p] = "out" THEN seen[p]
                                          ELSE seen[p] \cup {content}]
    BY DEF Edit
  <1>3. /\ held'.text = content /\ held'.conf = held.conf /\ held' \in Contents
    BY <1>2 DEF WarmTypeOK, Contents
  <1>4. /\ mtime'.text = Stamped /\ mtime'.conf = mtime.conf /\ mtime' \in Stats
    BY <1>1 DEF Edit, WarmTypeOK, Stats, Stamped
  <1>5. seen' \in [Runners -> SUBSET (Texts \cup Confs)]
    BY <1>2 DEF WarmTypeOK
  <1>6. edits' \in 0 .. MaxEdits
    BY WarmTimesAssumption DEF Edit, WarmTypeOK
  <1>7. \A p \in Runners : place[p] \notin {"open", "sources", "sign"}
    BY DEF Edit, Kept, KeyWindow, StatWindow, Keyed
  <1>q. QED
    BY <1>2, <1>3, <1>4, <1>5, <1>6, <1>7 DEF Edit

LEMMA ConfEdit ==
    ASSUME WarmTypeOK, Unguarded = {}, Edit("conf")
    PROVE  /\ held' \in Contents /\ held'.text = held.text
           /\ mtime' \in Stats /\ mtime'.text = mtime.text /\ mtime'.conf = Stamped
           /\ mtime'.conf # mtime.conf
           /\ \A p \in Runners : place[p] \notin Keyed \ {"launch"}
           /\ UNCHANGED <<now, dirsVars, remembered, place, runVars, runs>>
           /\ edits' \in 0 .. MaxEdits
           /\ seen' \in [Runners -> SUBSET (Texts \cup Confs)]
           /\ \A p \in Runners :
                /\ place[p] = "out" => seen'[p] = seen[p]
                /\ place[p] # "out" => seen'[p] = seen[p] \cup {held'.conf}
  <1>1. Stamped \in 0 .. MaxTime
    BY Granules
  <1>2. PICK content \in Texts \cup Confs :
            /\ [held EXCEPT !["conf"] = content] \in Contents
            /\ held' = [held EXCEPT !["conf"] = content]
            /\ seen' = [p \in Runners |-> IF place[p] = "out" THEN seen[p]
                                          ELSE seen[p] \cup {content}]
    BY DEF Edit
  <1>3. /\ held'.conf = content /\ held'.text = held.text /\ held' \in Contents
    BY <1>2 DEF WarmTypeOK, Contents
  <1>4. /\ mtime'.conf = Stamped /\ mtime'.text = mtime.text /\ mtime' \in Stats
    BY <1>1 DEF Edit, WarmTypeOK, Stats, Stamped
  <1>5. seen' \in [Runners -> SUBSET (Texts \cup Confs)]
    BY <1>2 DEF WarmTypeOK
  <1>6. edits' \in 0 .. MaxEdits
    BY WarmTimesAssumption DEF Edit, WarmTypeOK
  <1>7. \A p \in Runners : place[p] \notin Keyed \ {"launch"}
    BY DEF Edit, Kept, KeyWindow, StatWindow, Keyed
  <1>q. QED
    BY <1>2, <1>3, <1>4, <1>5, <1>6, <1>7 DEF Edit

-----------------------------------------------------------------------------
(* Types. *)

\* The types of what an action of a process leaves to the editor and the clock.
LEMMA FilesKeepTypes ==
    ASSUME WarmTypeOK, UNCHANGED <<fileVars, edits>>
    PROVE  held' \in Contents /\ mtime' \in Stats /\ now' \in 0 .. MaxTime
           /\ edits' \in 0 .. MaxEdits
  BY DEF WarmTypeOK, fileVars

\* What an edit, at any moment, does to the types of the files.
LEMMA EditTypes ==
    ASSUME WarmTypeOK, NEW name \in Names, Edit(name)
    PROVE  /\ held' \in Contents /\ mtime' \in Stats /\ edits' \in 0 .. MaxEdits
           /\ seen' \in [Runners -> SUBSET (Texts \cup Confs)]
           /\ UNCHANGED <<now, dirsVars, remembered, place, runVars, runs>>
  <1>1. Stamped \in 0 .. MaxTime
    BY Granules
  <1>2. held' \in Contents
    BY DEF Edit
  <1>3. mtime' \in Stats
    BY <1>1 DEF Edit, WarmTypeOK, Stats, Stamped, Names
  <1>4. seen' \in [Runners -> SUBSET (Texts \cup Confs)]
    BY DEF Edit, WarmTypeOK
  <1>5. edits' \in 0 .. MaxEdits
    BY WarmTimesAssumption DEF Edit, WarmTypeOK
  <1>q. QED
    BY <1>2, <1>3, <1>4, <1>5 DEF Edit

\* What a process has in hand at each place, whenever edits come: a key, an artifact, what
\* it read, a record.
Equipped(p) ==
    /\ place[p] \in {"compare", "digest"} => entry[p] # NoEntry
    /\ place[p] = "digest" => key[p] = entry[p].manifest
    /\ place[p] \in Keyed => key[p] \in Contents
    /\ place[p] \in Keyed \ {"open", "sources", "publish"} => IsArtifact(key[p])
    /\ place[p] = "sources" => read[p].conf \in Confs
    /\ place[p] = "publish" => read[p] \in Contents
    /\ place[p] = "in-process" /\ p \notin Importers => read[p] \in Contents

LEMMA WayEquips ==
    ASSUME WarmTypeOK, Ways, NEW p \in Runners
    PROVE  Equipped(p)
  <1>1. Way(p) /\ seen[p] \subseteq Texts \cup Confs
    BY DEF Ways, WarmTypeOK
  <1>2. /\ place[p] \in Keyed => key[p] \in Contents
        /\ place[p] \in {"compare", "digest"} => entry[p] # NoEntry
        /\ place[p] = "digest" => key[p] = entry[p].manifest
        /\ place[p] \in Keyed \ {"open", "sources", "publish"} => IsArtifact(key[p])
    BY <1>1 DEF Way
  <1>3. place[p] = "sources" => read[p].conf \in Confs
    BY <1>1, <1>2 DEF Way, Keyed, Contents
  <1>4. place[p] = "publish" => read[p] \in Contents
    BY <1>1, <1>2 DEF Way, Keyed
  <1>5. place[p] = "in-process" /\ p \notin Importers => read[p] \in Contents
    <2>1. place[p] = "in-process" /\ p \notin Importers =>
            {read[p].text, read[p].conf} \subseteq Texts \cup Confs
      BY <1>1 DEF Way
    <2>2. read[p] \in [text : Texts \cup {Unset}, conf : Confs \cup {Unset}]
      BY DEF WarmTypeOK
    <2>q. QED
      BY <2>1, <2>2, WarmSetsAssumption DEF Contents
  <1>q. QED
    BY <1>2, <1>3, <1>4, <1>5 DEF Equipped

LEMMA WarmTypesStep ==
    ASSUME WarmTypeOK, \A p \in Runners : Equipped(p), [WarmNext]_warmVars
    PROVE  WarmTypeOK'
  <1> USE DEF WarmTypeOK
  <1>1. CASE UNCHANGED warmVars
    BY <1>1 DEF warmVars, fileVars, dirsVars, runVars
  <1>2. CASE Tick
    BY <1>2, WarmTimesAssumption DEF Tick, dirsVars, runVars
  <1>3. ASSUME NEW name \in Names, Edit(name) PROVE WarmTypeOK'
    BY <1>3, EditTypes DEF dirsVars, runVars
  <1>5. ASSUME NEW p \in Runners, WarmStep(p)
        PROVE  WarmTypeOK'
    <2> USE DEF From, Places, fileVars, dirsVars, runVars
    <2>0. Equipped(p)
      OBVIOUS
    <2>1. CASE BeginRun(p)
      BY <2>1, WarmTimesAssumption DEF BeginRun, Contents
    <2>2. CASE LoadRecord(p)
      BY <2>2 DEF LoadRecord
    <2>3. CASE Compare(p)
      <3>1. place[p] = "compare" => entry[p].manifest \in Contents
        BY <2>0 DEF Equipped, Entries
      <3>q. QED
        BY <2>3, <3>1 DEF Compare
    <2>4. CASE Digest(p)
      BY <2>4 DEF Digest
    <2>5. CASE Locate(p)
      BY <2>5 DEF Locate
    <2>6. CASE OpenProject(p)
      BY <2>6 DEF OpenProject, Contents
    <2>7. CASE ReadSources(p)
      BY <2>7 DEF ReadSources, Contents
    <2>8. CASE Publish(p)
      <3>1. key[p] \in Contents /\ read[p] \in Contents
        BY <2>0, <2>8 DEF Equipped, Publish, Keyed
      <3>2. [kind |-> "artifact", of |-> read[p]] \in Directories
        BY <3>1 DEF Directories
      <3>3. directory' \in [Contents -> Directories]
        BY <2>8, <3>1, <3>2 DEF Publish, Directories
      <3>q. QED
        BY <2>8, <3>3 DEF Publish
    <2>9. CASE DraftLight(p)
      BY <2>0, <2>9 DEF DraftLight, Equipped, Keyed
    <2>10. CASE ReplaceLight(p)
      BY <2>10 DEF ReplaceLight
    <2>11. CASE CheckDigest(p)
      BY <2>11 DEF CheckDigest
    <2>12. CASE MarkRacy(p)
      BY <2>12 DEF MarkRacy
    <2>13. CASE Sign(p)
      <3>1. key[p] \in Contents /\ directory[key[p]].kind = "artifact"
        BY <2>0, <2>13 DEF Equipped, Sign, Keyed, IsArtifact
      <3>2. directory[key[p]].of \in Contents
        BY <3>1 DEF Directories, Absent, Marker
      <3>3. remembered' \in Entries
        <4>1. directory[key[p]].of.text \in Texts
          BY <3>2 DEF Contents
        <4>q. QED
          BY <2>13, <3>1, <4>1 DEF Sign, Entries
      <3>q. QED
        BY <2>13, <3>3 DEF Sign
    <2>14. CASE Launch(p)
      <3>1. key[p] \in Contents /\ directory[key[p]].kind = "artifact"
        BY <2>0, <2>14 DEF Equipped, Launch, Keyed, IsArtifact
      <3>2. directory[key[p]].of \in Contents
        BY <3>1 DEF Directories, Absent, Marker
      <3>q. QED
        BY <2>14, <3>2 DEF Launch
    <2>15. CASE Analyze(p)
      BY <2>15 DEF Analyze, Contents
    <2>16. CASE InProcess(p)
      <3>1. p \notin Importers => read[p] \in Contents
        BY <2>0, <2>16 DEF Equipped, InProcess
      <3>q. QED
        BY <2>16, <3>1 DEF InProcess
    <2>17. CASE ServePython(p)
      BY <2>17 DEF ServePython
    <2>18. CASE End(p)
      BY <2>18 DEF End, Nothing
    <2>q. QED
      BY <1>5, <2>1, <2>2, <2>3, <2>4, <2>5, <2>6, <2>7, <2>8, <2>9, <2>10, <2>11,
         <2>12, <2>13, <2>14, <2>15, <2>16, <2>17, <2>18 DEF WarmStep
  <1>q. QED
    BY <1>1, <1>2, <1>3, <1>5 DEF WarmNext

LEMMA WarmTypesKept ==
    ASSUME WarmTypeOK, Ways, [WarmNext]_warmVars
    PROVE  WarmTypeOK'
  BY WayEquips, WarmTypesStep

\* An artifact stays.
LEMMA ArtifactsStay ==
    ASSUME WarmTypeOK, \A p \in Runners : Equipped(p), [WarmNext]_warmVars,
           NEW k \in Contents, IsArtifact(k)
    PROVE  IsArtifact(k)'
  <1>1. ASSUME NEW p \in Runners, Publish(p) PROVE directory'[k] = directory[k]
    <2>1. key[p] \in Contents
      BY <1>1 DEF Equipped, Publish, From, Keyed
    <2>2. CASE k = key[p]
      <3>1. directory[k] # Absent
        BY DEF IsArtifact, Absent
      <3>q. QED
        BY <1>1, <2>1, <2>2, <3>1 DEF Publish, WarmTypeOK
    <2>3. CASE k # key[p]
      BY <1>1, <2>1, <2>3 DEF Publish, WarmTypeOK
    <2>q. QED
      BY <2>2, <2>3
  <1>2. ASSUME NEW p \in Runners, WarmStep(p), ~Publish(p) PROVE directory' = directory
    BY <1>2 DEF WarmStep, BeginRun, LoadRecord, Compare, Digest, Locate, OpenProject,
       ReadSources, DraftLight, ReplaceLight, CheckDigest, MarkRacy, Sign, Launch, Analyze,
       InProcess, ServePython, End, dirsVars
  <1>3. ASSUME NEW name \in Names, Edit(name) PROVE directory' = directory
    BY <1>3 DEF Edit, dirsVars
  <1>q. QED
    BY <1>1, <1>2, <1>3 DEF WarmNext, Tick, warmVars, dirsVars, IsArtifact

\* The record a process compares names an artifact.
EntryThere(p) == place[p] \in {"compare", "digest"} => IsArtifact(entry[p].manifest)

WarmTypesInv == WarmTypeOK /\ \A p \in Runners : Equipped(p) /\ EntryThere(p)

\* Who is not the one that steps has in hand what it had.
LEMMA StaysEquipped ==
    ASSUME WarmTypesInv, [WarmNext]_warmVars, NEW p \in Runners,
           place'[p] = place[p], key'[p] = key[p], read'[p] = read[p], entry'[p] = entry[p]
    PROVE  Equipped(p)' /\ EntryThere(p)'
  <1>1. Equipped(p) /\ EntryThere(p)
    BY DEF WarmTypesInv
  <1>2. place[p] \in Keyed \ {"open", "sources", "publish"} => IsArtifact(key[p])'
    <2>1. \A k \in Contents : IsArtifact(k) => IsArtifact(k)'
      BY ArtifactsStay DEF WarmTypesInv
    <2>2. place[p] \in Keyed \ {"open", "sources", "publish"} =>
            key[p] \in Contents /\ IsArtifact(key[p])
      BY <1>1 DEF Equipped
    <2>q. QED
      BY <2>1, <2>2 DEF IsArtifact
  <1>3. place[p] \in {"compare", "digest"} => IsArtifact(entry[p].manifest)'
    <2>1. \A k \in Contents : IsArtifact(k) => IsArtifact(k)'
      BY ArtifactsStay DEF WarmTypesInv
    <2>2. place[p] \in {"compare", "digest"} =>
            entry[p].manifest \in Contents /\ IsArtifact(entry[p].manifest)
      BY <1>1 DEF Equipped, EntryThere, WarmTypesInv, WarmTypeOK, Entries
    <2>q. QED
      BY <2>1, <2>2 DEF IsArtifact
  <1>q. QED
    BY <1>1, <1>2, <1>3 DEF Equipped, EntryThere

\* And the one that steps has what the place it comes to takes.
LEMMA OwnEquipped ==
    ASSUME WarmTypesInv, NEW p \in Runners, WarmStep(p)
    PROVE  Equipped(p)' /\ EntryThere(p)'
  <1>0. /\ WarmTypeOK /\ Equipped(p) /\ EntryThere(p)
        /\ \A k \in Contents : IsArtifact(k) => IsArtifact(k)'
        /\ place \in [Runners -> Places] /\ entry \in [Runners -> Entries \cup {NoEntry}]
        /\ key \in [Runners -> Contents \cup {Nothing}] /\ held \in Contents
        /\ read \in [Runners -> [text : Texts \cup {Unset}, conf : Confs \cup {Unset}]]
    BY ArtifactsStay DEF WarmTypesInv, WarmTypeOK, WarmNext
  <1> USE DEF From, Keyed, fileVars, dirsVars, runVars
  <1>1. CASE BeginRun(p)
    BY <1>0, <1>1 DEF BeginRun, Equipped, EntryThere
  <1>2. CASE LoadRecord(p)
    BY <1>0, <1>2 DEF LoadRecord, Equipped, EntryThere, IsArtifact
  <1>3. CASE Compare(p)
    <2>1. entry[p] # NoEntry /\ entry[p].manifest \in Contents /\ IsArtifact(entry[p].manifest)
      BY <1>0, <1>3 DEF Compare, Equipped, EntryThere, Entries
    <2>2. /\ entry' = entry /\ directory' = directory
          /\ \/ place'[p] = "locate"
             \/ place'[p] \in {"digest", "launch"} /\ key'[p] = entry[p].manifest
      BY <1>0, <1>3 DEF Compare
    <2>q. QED
      BY <2>1, <2>2 DEF Equipped, EntryThere, IsArtifact
  <1>4. CASE Digest(p)
    <2>1. /\ entry[p] # NoEntry /\ entry[p].manifest \in Contents /\ IsArtifact(entry[p].manifest)
          /\ key[p] = entry[p].manifest
      BY <1>0, <1>4 DEF Digest, Equipped, EntryThere, Entries
    <2>2. key' = key /\ directory' = directory /\ place'[p] \in {"launch", "locate"}
      BY <1>0, <1>4 DEF Digest
    <2>q. QED
      BY <2>1, <2>2 DEF Equipped, EntryThere, IsArtifact
  <1>5. CASE Locate(p)
    BY <1>0, <1>5 DEF Locate, Equipped, EntryThere, IsArtifact
  <1>6. CASE OpenProject(p)
    <2>1. key[p] \in Contents /\ held.conf \in Confs
      BY <1>0, <1>6 DEF OpenProject, Equipped, Contents
    <2>2. key' = key /\ place'[p] = "sources" /\ read'[p].conf = held.conf
      BY <1>0, <1>6 DEF OpenProject
    <2>q. QED
      BY <2>1, <2>2 DEF Equipped, EntryThere
  <1>7. CASE ReadSources(p)
    <2>1. key[p] \in Contents /\ held.text \in Texts /\ read[p].conf \in Confs
      BY <1>0, <1>7 DEF ReadSources, Equipped, Contents
    <2>2. key' = key /\ place'[p] = "publish" /\ read'[p] = [read[p] EXCEPT !.text = held.text]
      BY <1>0, <1>7 DEF ReadSources
    <2>3. read'[p] \in Contents
      BY <1>0, <2>1, <2>2 DEF Contents
    <2>q. QED
      BY <2>1, <2>2, <2>3 DEF Equipped, EntryThere
  <1>8. CASE Publish(p)
    <2> DEFINE made  == IF read[p].text \in JitTexts THEN Marker
                        ELSE [kind |-> "artifact", of |-> read[p]]
               there == IF directory[key[p]] = Absent THEN made ELSE directory[key[p]]
    <2>1. key[p] \in Contents /\ read[p] \in Contents
      BY <1>0, <1>8 DEF Publish, Equipped
    <2>2. directory'[key[p]] = there /\ key' = key /\ read' = read
      BY <1>0, <1>8, <2>1 DEF Publish, WarmTypeOK
    <2>3. /\ there = Marker => place'[p] = "in-process"
          /\ place'[p] \in {"in-process", "draft", "launch", "check"}
      BY <1>0, <1>8 DEF Publish
    <2>4. there # Marker => there.kind = "artifact"
      <3>1. directory[key[p]] \in Directories
        BY <1>0, <2>1 DEF WarmTypeOK
      <3>q. QED
        BY <3>1 DEF Directories
    <2> HIDE DEF there
    <2>q. QED
      BY <2>1, <2>2, <2>3, <2>4 DEF Equipped, EntryThere, IsArtifact
  <1>9. CASE DraftLight(p)
    BY <1>0, <1>9 DEF DraftLight, Equipped, EntryThere, IsArtifact
  <1>10. CASE ReplaceLight(p)
    BY <1>0, <1>10 DEF ReplaceLight, Equipped, EntryThere, IsArtifact
  <1>11. CASE CheckDigest(p)
    BY <1>0, <1>11 DEF CheckDigest, Equipped, EntryThere, IsArtifact
  <1>12. CASE MarkRacy(p)
    BY <1>0, <1>12 DEF MarkRacy, Equipped, EntryThere, IsArtifact
  <1>13. CASE Sign(p)
    BY <1>0, <1>13 DEF Sign, Equipped, EntryThere, IsArtifact
  <1>14. CASE Launch(p)
    BY <1>0, <1>14 DEF Launch, Equipped, EntryThere
  <1>15. CASE Analyze(p)
    BY <1>0, <1>15 DEF Analyze, Equipped, EntryThere
  <1>16. CASE InProcess(p)
    BY <1>0, <1>16 DEF InProcess, Equipped, EntryThere
  <1>17. CASE ServePython(p)
    BY <1>0, <1>17 DEF ServePython, Equipped, EntryThere
  <1>18. CASE End(p)
    BY <1>0, <1>18 DEF End, Equipped, EntryThere
  <1>q. QED
    BY <1>1, <1>2, <1>3, <1>4, <1>5, <1>6, <1>7, <1>8, <1>9, <1>10, <1>11, <1>12, <1>13,
       <1>14, <1>15, <1>16, <1>17, <1>18 DEF WarmStep

LEMMA OthersEquipped ==
    ASSUME WarmTypesInv, NEW p \in Runners, NEW q \in Runners, p # q, WarmStep(p)
    PROVE  Equipped(q)' /\ EntryThere(q)'
  <1>1. /\ place \in [Runners -> Places] /\ DOMAIN entry = Runners /\ DOMAIN key = Runners
        /\ DOMAIN read = Runners
    BY DEF WarmTypesInv, WarmTypeOK
  <1>2. place'[q] = place[q] /\ key'[q] = key[q] /\ read'[q] = read[q] /\ entry'[q] = entry[q]
    BY <1>1 DEF WarmStep, BeginRun, LoadRecord, Compare, Digest, Locate, OpenProject,
       ReadSources, Publish, DraftLight, ReplaceLight, CheckDigest, MarkRacy, Sign, Launch,
       Analyze, InProcess, ServePython, End, From, runVars
  <1>q. QED
    BY <1>2, StaysEquipped DEF WarmNext

LEMMA WarmTypesInvStep ==
    ASSUME WarmTypesInv, [WarmNext]_warmVars
    PROVE  WarmTypesInv'
  <1>1. WarmTypeOK'
    BY WarmTypesStep DEF WarmTypesInv
  <1>2. ASSUME NEW q \in Runners PROVE Equipped(q)' /\ EntryThere(q)'
    <2>1. CASE UNCHANGED <<place, runVars>>
      BY <2>1, StaysEquipped DEF runVars
    <2>2. ASSUME NEW p \in Runners, WarmStep(p) PROVE Equipped(q)' /\ EntryThere(q)'
      BY <2>2, OwnEquipped, OthersEquipped
    <2>q. QED
      BY <2>1, <2>2 DEF WarmNext, Tick, Edit, warmVars
  <1>q. QED
    BY <1>1, <1>2 DEF WarmTypesInv

-----------------------------------------------------------------------------
(* The files, the directories and the records. *)

\* What the actions of processes leave to the editor and the clock.
LEMMA FilesStand ==
    ASSUME NEW p \in Runners, WarmStep(p)
    PROVE  UNCHANGED <<held, mtime, now>>
  BY DEF WarmStep, BeginRun, LoadRecord, Compare, Digest, Locate, OpenProject, ReadSources,
     Publish, DraftLight, ReplaceLight, CheckDigest, MarkRacy, Sign, Launch, Analyze,
     InProcess, ServePython, End, fileVars

LEMMA TimesStep ==
    ASSUME WarmTypeOK, Unguarded = {}, NotFromTheFuture, [WarmNext]_warmVars
    PROVE  NotFromTheFuture' /\ mtime.text <= mtime'.text /\ mtime.conf <= mtime'.conf
           /\ now <= now'
  <1>0. /\ mtime.text \in Int /\ mtime.conf \in Int /\ now \in Int
        /\ Stamped \in Int /\ ((now + 1) \div Granule) * Granule \in Int
    BY Granules, RoundedDown, WarmTimesAssumption DEF WarmTypeOK, Stats
  <1>1. CASE UNCHANGED <<mtime, now>>
    BY <1>0, <1>1 DEF NotFromTheFuture, Stamped
  <1>2. CASE Tick
    BY <1>0, <1>2, Granules DEF Tick, NotFromTheFuture, Stamped
  <1>3. CASE Edit("text")
    BY <1>0, <1>3, TextEdit DEF NotFromTheFuture, Stamped
  <1>4. CASE Edit("conf")
    BY <1>0, <1>4, ConfEdit DEF NotFromTheFuture, Stamped
  <1>q. QED
    BY <1>1, <1>2, <1>3, <1>4, FilesStand DEF WarmNext, Names, warmVars, fileVars

\* A directory is of what its key stands for, and stays: only `compile_for_run` makes one,
\* from what the build read, and what it read is the key.
LEMMA DirectoriesStep ==
    ASSUME WarmTypeOK, Unguarded = {}, KeyedByContents, Ways, [WarmNext]_warmVars
    PROVE  KeyedByContents' /\ \A k \in Contents : IsArtifact(k) => directory'[k] = directory[k]
  <1>1. CASE UNCHANGED directory
    BY <1>1 DEF KeyedByContents, IsArtifact
  <1>2. ASSUME NEW p \in Runners, Publish(p)
        PROVE  KeyedByContents'
               /\ \A k \in Contents : IsArtifact(k) => directory'[k] = directory[k]
    <2>1. key[p] \in Contents /\ read[p] = key[p]
      BY <1>2 DEF Ways, Way, Publish, From, Keyed
    <2>2. /\ directory[key[p]] # Absent => directory' = directory
          /\ directory[key[p]] = Absent =>
                directory' = [directory EXCEPT ![key[p]] =
                    IF read[p].text \in JitTexts THEN Marker
                    ELSE [kind |-> "artifact", of |-> read[p]]]
      BY <1>2, <2>1 DEF Publish, WarmTypeOK
    <2>3. CASE directory[key[p]] # Absent
      BY <2>2, <2>3 DEF KeyedByContents, IsArtifact
    <2>4. CASE directory[key[p]] = Absent
      <3>1. \A k \in Contents \ {key[p]} : directory'[k] = directory[k]
        BY <2>2, <2>4 DEF WarmTypeOK
      <3>2. directory'[key[p]].kind = "artifact" => directory'[key[p]].of = key[p]
        BY <2>1, <2>2, <2>4 DEF WarmTypeOK, Marker
      <3>3. ~IsArtifact(key[p])
        BY <2>4 DEF IsArtifact, Absent
      <3>q. QED
        BY <3>1, <3>2, <3>3 DEF KeyedByContents, IsArtifact
    <2>q. QED
      BY <2>3, <2>4
  <1>3. ASSUME NEW p \in Runners, WarmStep(p), ~Publish(p)
        PROVE  UNCHANGED directory
    BY <1>3 DEF WarmStep, BeginRun, LoadRecord, Compare, Digest, Locate, OpenProject,
       ReadSources, DraftLight, ReplaceLight, CheckDigest, MarkRacy, Sign, Launch, Analyze,
       InProcess, ServePython, End, dirsVars
  <1>4. \A name \in Names : Edit(name) => UNCHANGED directory
    BY DEF Edit, dirsVars
  <1>q. QED
    BY <1>1, <1>2, <1>3, <1>4 DEF WarmNext, Tick, warmVars, dirsVars

\* What is truthful stays so, whatever happens to the files, the clock and the directories.
LEMMA TruthStays ==
    ASSUME WarmTypeOK, Unguarded = {}, NotFromTheFuture, KeyedByContents, Ways,
           [WarmNext]_warmVars, NEW e \in Entries \cup {NoEntry}, Truthful(e)
    PROVE  Truthful(e)'
  <1> SUFFICES ASSUME e # NoEntry
               PROVE  Truthful(e)'
    BY DEF Truthful
  <1>0. /\ e.taken.text \in Int /\ e.taken.conf \in Int /\ e.manifest \in Contents
        /\ mtime.text \in Int /\ mtime.conf \in Int /\ now \in Int /\ Stamped \in Int
        /\ mtime'.text \in Int /\ mtime'.conf \in Int /\ now' \in Int /\ RacyWindow \in Int
        /\ Granule \in Int /\ Granule <= RacyWindow
    BY Granules, WarmTypesKept, WarmTimesAssumption DEF WarmTypeOK, Stats, Entries
  <1>1. IsArtifact(e.manifest)'
    BY <1>0, DirectoriesStep DEF Truthful, IsArtifact
  <1>2. /\ e.taken.text <= mtime'.text /\ e.taken.conf <= mtime'.conf
        /\ ~e.racy => e.taken.text + RacyWindow < now'
    BY <1>0, TimesStep DEF Truthful
  <1>3. CASE UNCHANGED <<held, mtime>>
    BY <1>1, <1>2, <1>3 DEF Truthful
  <1>4. CASE Edit("text")
    <2>1. ~e.racy => e.taken.text # mtime'.text
      BY <1>0, <1>4, TextEdit, Granules DEF Truthful
    <2>q. QED
      BY <1>1, <1>2, <1>4, <2>1, TextEdit DEF Truthful
  <1>5. CASE Edit("conf")
    <2>1. e.taken.conf # mtime'.conf
      BY <1>0, <1>5, ConfEdit DEF Truthful, NotFromTheFuture
    <2>q. QED
      BY <1>1, <1>2, <1>5, <2>1, ConfEdit DEF Truthful
  <1>q. QED
    BY <1>3, <1>4, <1>5, FilesStand DEF WarmNext, Names, Tick, warmVars, fileVars

\* `remember` writes only what is true: the source was looked at after the times that
\* count, and what was edited since the racy check would have been racy.
LEMMA RecordsStep ==
    ASSUME WarmTypeOK, Unguarded = {}, NotFromTheFuture, KeyedByContents, Records, Ways,
           [WarmNext]_warmVars
    PROVE  Records'
  <1> USE DEF Records
  <1>1. ASSUME NEW e \in Entries \cup {NoEntry}, Truthful(e)
        PROVE  Truthful(e)'
    BY <1>1, TruthStays
  <1>2. /\ remembered \in Entries \cup {NoEntry}
        /\ \A p \in Runners : entry[p] \in Entries \cup {NoEntry}
        /\ entry \in [Runners -> Entries \cup {NoEntry}]
    BY DEF WarmTypeOK
  <1>3. CASE UNCHANGED <<remembered, entry>>
    BY <1>1, <1>2, <1>3 DEF Truthful, IsArtifact
  <1>4. ASSUME NEW p \in Runners, LoadRecord(p) \/ End(p)
        PROVE  Records'
    <2>1. UNCHANGED remembered
      BY <1>4 DEF LoadRecord, End, dirsVars
    <2>2. /\ entry'[p] \in {remembered, NoEntry}
          /\ \A q \in Runners \ {p} : entry'[q] = entry[q]
      BY <1>2, <1>4 DEF LoadRecord, End
    <2>q. QED
      BY <1>1, <1>2, <2>1, <2>2 DEF Truthful, IsArtifact
  <1>5. ASSUME NEW p \in Runners, Sign(p)
        PROVE  Records'
    <2>1. /\ key[p] \in Contents /\ key[p].conf = held.conf /\ IsArtifact(key[p])
          /\ ~racy[p] => held.text = key[p].text /\ mtime.text + RacyWindow < now
      BY <1>5 DEF Ways, Way, Sign, From, Keyed
    <2>2. directory[key[p]].of = key[p]
      BY <2>1 DEF KeyedByContents
    <2>3. /\ remembered' = [taken |-> mtime, manifest |-> key[p], racy |-> racy[p],
                            digest |-> key[p].text]
          /\ UNCHANGED <<held, mtime, now, directory, entry>>
      BY <1>5, <2>2 DEF Sign, fileVars, dirsVars, runVars
    <2>4. mtime.text \in Int /\ mtime.conf \in Int
      BY DEF WarmTypeOK, Stats
    <2>5. Truthful(remembered)'
      BY <2>1, <2>3, <2>4 DEF Truthful, IsArtifact
    <2>q. QED
      BY <1>1, <1>2, <2>3, <2>5 DEF Truthful, IsArtifact
  <1>6. ASSUME NEW p \in Runners, WarmStep(p), ~LoadRecord(p), ~End(p), ~Sign(p)
        PROVE  UNCHANGED <<remembered, entry>>
    BY <1>6 DEF WarmStep, BeginRun, Compare, Digest, Locate, OpenProject, ReadSources,
       Publish, DraftLight, ReplaceLight, CheckDigest, MarkRacy, Launch, Analyze,
       InProcess, ServePython, runVars
  <1>7. \A name \in Names : Edit(name) => UNCHANGED <<remembered, entry>>
    BY DEF Edit, runVars
  <1>q. QED
    BY <1>3, <1>4, <1>5, <1>6, <1>7 DEF WarmNext, Tick, warmVars, runVars

-----------------------------------------------------------------------------
(* What each process knows. *)

\* A step of one process leaves what the others know.
LEMMA OthersWay ==
    ASSUME WarmTypeOK, Unguarded = {}, KeyedByContents, Ways,
           NEW p \in Runners, WarmStep(p), NEW q \in Runners \ {p}
    PROVE  Way(q)'
  <1>1. /\ place'[q] = place[q] /\ entry'[q] = entry[q] /\ key'[q] = key[q]
        /\ read'[q] = read[q] /\ racy'[q] = racy[q] /\ ran'[q] = ran[q] /\ seen'[q] = seen[q]
    <2> USE DEF WarmTypeOK, From, runVars
    <2>1. CASE BeginRun(p) \/ LoadRecord(p) \/ Compare(p) \/ Digest(p) \/ Locate(p)
      BY <2>1 DEF BeginRun, LoadRecord, Compare, Digest, Locate
    <2>2. CASE OpenProject(p) \/ ReadSources(p) \/ Publish(p) \/ DraftLight(p)
               \/ ReplaceLight(p)
      BY <2>2 DEF OpenProject, ReadSources, Publish, DraftLight, ReplaceLight
    <2>3. CASE CheckDigest(p) \/ MarkRacy(p) \/ Sign(p) \/ Launch(p)
      BY <2>3 DEF CheckDigest, MarkRacy, Sign, Launch
    <2>4. CASE Analyze(p) \/ InProcess(p) \/ ServePython(p) \/ End(p)
      BY <2>4 DEF Analyze, InProcess, ServePython, End
    <2>q. QED
      BY <2>1, <2>2, <2>3, <2>4 DEF WarmStep
  <1>2. UNCHANGED <<held, mtime, now>>
    BY FilesStand
  <1>3. \A k \in Contents : IsArtifact(k) => IsArtifact(k)'
    BY DirectoriesStep DEF WarmNext, IsArtifact
  <1>4. Way(q)
    BY DEF Ways
  <1>5. /\ place[q] \in Keyed => key[q] \in Contents
        /\ place[q] \in Keyed \ {"open", "sources", "publish"} =>
                directory'[key[q]].kind = "artifact"
    BY <1>3, <1>4 DEF Way, Keyed, IsArtifact
  <1>q. QED
    BY <1>1, <1>2, <1>4, <1>5 DEF Way, Stamped, IsArtifact

\* The clock and the editor leave what it knows, or spoil what is not relied on.
LEMMA WayAmidEdits ==
    ASSUME WarmTypeOK, Unguarded = {}, Ways, NEW q \in Runners,
           Tick \/ Edit("text") \/ Edit("conf")
    PROVE  Way(q)'
  <1>1. Way(q)
    BY DEF Ways
  <1>2. CASE Tick
    <2>1. /\ UNCHANGED <<held, mtime, directory, place, entry, key, read, racy, ran, seen>>
          /\ now' = now + 1 /\ place[q] # "racy"
      BY <1>2 DEF Tick, dirsVars, runVars
    <2>2. mtime.text \in Int /\ RacyWindow \in Int /\ now \in Int
      BY WarmTimesAssumption DEF WarmTypeOK, Stats
    <2>q. QED
      BY <1>1, <2>1, <2>2 DEF Way, IsArtifact
  <1>3. CASE Edit("text")
    <2>1. /\ held'.conf = held.conf /\ mtime'.text = Stamped'
          /\ place[q] \notin {"open", "sources", "sign"}
          /\ UNCHANGED <<directory, place, entry, key, read, racy, ran>>
          /\ place[q] = "out" => seen'[q] = seen[q]
          /\ place[q] # "out" => seen'[q] = seen[q] \cup {held'.text}
      BY <1>3, TextEdit DEF Stamped, dirsVars, runVars
    <2>q. QED
      BY <1>1, <2>1 DEF Way, IsArtifact, KeyWindow
  <1>4. CASE Edit("conf")
    <2>1. /\ held'.text = held.text /\ mtime'.text = mtime.text /\ Stamped' = Stamped
          /\ place[q] \notin Keyed \ {"launch"}
          /\ UNCHANGED <<directory, place, entry, key, read, racy, ran>>
          /\ place[q] = "out" => seen'[q] = seen[q]
          /\ place[q] # "out" => seen'[q] = seen[q] \cup {held'.conf}
      BY <1>4, ConfEdit DEF Stamped, dirsVars, runVars
    <2>q. QED
      BY <1>1, <2>1 DEF Way, IsArtifact, KeyWindow, Keyed
  <1>q. QED
    BY <1>2, <1>3, <1>4

\* A step of a process carries what it knows to its next place.
LEMMA OwnWay ==
    ASSUME WarmInv, Unguarded = {}, NEW p \in Runners, WarmStep(p)
    PROVE  Way(p)'
  <1>0. /\ Way(p) /\ UNCHANGED <<held, mtime, now>>
        /\ held \in Contents /\ place \in [Runners -> Places]
        /\ entry \in [Runners -> Entries \cup {NoEntry}]
        /\ key \in [Runners -> Contents \cup {Nothing}]
        /\ read \in [Runners -> [text : Texts \cup {Unset}, conf : Confs \cup {Unset}]]
        /\ racy \in [Runners -> BOOLEAN] /\ ran \in [Runners -> Contents \cup {Nothing}]
        /\ seen \in [Runners -> SUBSET (Texts \cup Confs)]
    BY FilesStand DEF WarmInv, Ways, WarmTypeOK
  <1> USE <1>0 DEF Way, From, Keyed, KeyWindow, fileVars, dirsVars, runVars
  <1>1. CASE BeginRun(p)
    BY <1>1 DEF BeginRun
  <1>2. CASE LoadRecord(p)
    BY <1>2 DEF LoadRecord
  <1>3. CASE Compare(p)
    <2>1. /\ entry[p] \in Entries /\ Truthful(entry[p])
          /\ UNCHANGED <<directory, entry, read, racy, ran, seen>>
      BY <1>3 DEF Compare, WarmInv, Records
    <2>2. CASE entry[p].taken # mtime
      BY <1>3, <2>1, <2>2 DEF Compare
    <2>3. CASE entry[p].taken = mtime
      <3>1. /\ key'[p] = entry[p].manifest /\ entry[p].manifest \in Contents
            /\ place'[p] = IF entry[p].racy THEN "digest" ELSE "launch"
        BY <1>3, <2>1, <2>3 DEF Compare, Entries
      <3>2. /\ entry[p].manifest.conf = held.conf /\ IsArtifact(entry[p].manifest)
            /\ ~entry[p].racy => entry[p].manifest.text = held.text
        BY <1>3, <2>1, <2>3 DEF Compare, Truthful
      <3>q. QED
        BY <1>3, <2>1, <3>1, <3>2 DEF Compare, IsArtifact
    <2>q. QED
      BY <2>2, <2>3
  <1>4. CASE Digest(p)
    BY <1>4 DEF Digest, WarmInv, Records, Truthful, IsArtifact, Entries, Contents
  <1>5. CASE Locate(p)
    BY <1>5 DEF Locate, IsArtifact
  <1>6. CASE OpenProject(p)
    BY <1>6 DEF OpenProject
  <1>7. CASE ReadSources(p)
    BY <1>7 DEF ReadSources, Contents
  <1>8. CASE Publish(p)
    <2>1. /\ key[p] \in Contents /\ {key[p].text, key[p].conf} \subseteq seen[p]
          /\ key[p].conf = held.conf /\ read[p] = key[p]
          /\ UNCHANGED <<entry, key, read, racy, ran, seen>>
      BY <1>8 DEF Publish
    <2>2. CASE place'[p] = "in-process"
      BY <2>1, <2>2, <1>8 DEF Publish
    <2>3. CASE place'[p] # "in-process"
      <3>1. /\ directory'[key[p]] # Marker /\ directory'[key[p]] # Absent
            /\ place'[p] \in {"draft", "launch", "check"}
        BY <2>1, <2>3, <1>8 DEF Publish, WarmTypeOK, WarmInv, Absent, Marker
      <3>2. directory'[key[p]].kind = "artifact"
        BY <1>0, <2>1, <3>1, WarmTypesKept DEF WarmNext, WarmInv, WarmTypeOK, Directories
      <3>q. QED
        BY <2>1, <3>1, <3>2, <1>8 DEF Publish, IsArtifact
    <2>q. QED
      BY <2>2, <2>3
  <1>9. CASE DraftLight(p)
    BY <1>9 DEF DraftLight, IsArtifact
  <1>10. CASE ReplaceLight(p)
    BY <1>10 DEF ReplaceLight, IsArtifact
  <1>11. CASE CheckDigest(p)
    BY <1>11 DEF CheckDigest, IsArtifact, WarmInv, KeyedByContents
  <1>12. CASE MarkRacy(p)
    <2>1. /\ mtime.text \in Int /\ now \in Int /\ RacyWindow \in Int /\ Stamped \in Int
          /\ now < Stamped + RacyWindow
      BY Granules, WarmTimesAssumption DEF WarmInv, WarmTypeOK, Stats
    <2>2. /\ racy'[p] = (mtime.text >= now - RacyWindow)
          /\ place[p] = "racy" /\ place'[p] = "sign"
          /\ UNCHANGED <<directory, entry, key, read, ran, seen>>
      BY <1>12 DEF MarkRacy
    <2>3. ~racy'[p] => held.text = key[p].text /\ mtime.text + RacyWindow < now
      <3>1. held.text = key[p].text \/ mtime.text = Stamped
        BY <2>2
      <3>2. ~(mtime.text >= now - RacyWindow) =>
                held.text = key[p].text /\ mtime.text + RacyWindow < now
        BY <2>1, <3>1
      <3>q. QED
        BY <2>2, <3>2, Zenon
    <2>q. QED
      BY <2>2, <2>3 DEF IsArtifact
  <1>13. CASE Sign(p)
    BY <1>13 DEF Sign, IsArtifact
  <1>14. CASE Launch(p)
    BY <1>14 DEF Launch, WarmInv, KeyedByContents
  <1>15. CASE Analyze(p)
    BY <1>15 DEF Analyze
  <1>16. CASE InProcess(p)
    BY <1>16 DEF InProcess
  <1>17. CASE ServePython(p)
    BY <1>17 DEF ServePython
  <1>18. CASE End(p)
    BY <1>18 DEF End
  <1>q. QED
    BY <1>1, <1>2, <1>3, <1>4, <1>5, <1>6, <1>7, <1>8, <1>9, <1>10, <1>11, <1>12, <1>13,
       <1>14, <1>15, <1>16, <1>17, <1>18 DEF WarmStep

LEMMA WaysStep ==
    ASSUME WarmInv, Unguarded = {}, [WarmNext]_warmVars
    PROVE  Ways'
  <1> USE DEF WarmInv
  <1>1. CASE UNCHANGED warmVars
    BY <1>1 DEF Ways, Way, Stamped, IsArtifact, warmVars, fileVars, dirsVars, runVars
  <1>2. CASE Tick \/ Edit("text") \/ Edit("conf")
    BY <1>2, WayAmidEdits DEF Ways
  <1>3. ASSUME NEW p \in Runners, WarmStep(p)
        PROVE  Ways'
    BY <1>3, OwnWay, OthersWay DEF Ways
  <1>q. QED
    BY <1>1, <1>2, <1>3 DEF WarmNext, Names

-----------------------------------------------------------------------------
(* The theorems. *)

LEMMA WarmInitially ==
    ASSUME WarmInit
    PROVE  WarmInv
  <1>1. WarmTypeOK
    BY WarmTimesAssumption
    DEF WarmInit, WarmTypeOK, Stats, Names, Contents, Places, Directories, Absent, Marker,
        Nothing, NoEntry, Entries
  <1>2. NotFromTheFuture
    BY WarmTimesAssumption DEF WarmInit, NotFromTheFuture, Stamped, Names
  <1>3. KeyedByContents /\ Records
    BY DEF WarmInit, KeyedByContents, IsArtifact, Absent, Records, Truthful
  <1>4. Ways
    BY DEF WarmInit, Ways, Way, Keyed, KeyWindow
  <1>q. QED
    BY <1>1, <1>2, <1>3, <1>4 DEF WarmInv

LEMMA WarmInvStep ==
    ASSUME Unguarded = {}, WarmInv, [WarmNext]_warmVars
    PROVE  WarmInv'
  <1>1. WarmTypeOK'
    BY WarmTypesKept DEF WarmInv
  <1>2. NotFromTheFuture'
    BY TimesStep DEF WarmInv
  <1>3. KeyedByContents'
    BY DirectoriesStep DEF WarmInv
  <1>4. Records'
    BY RecordsStep DEF WarmInv
  <1>5. Ways'
    BY WaysStep
  <1>q. QED
    BY <1>1, <1>2, <1>3, <1>4, <1>5 DEF WarmInv

\* Whatever number of processes run and import the program while its files are edited, the
\* inductive invariant holds, when no edit comes at a moment `Unguarded` would name.
THEOREM WarmInvariance == ASSUME Unguarded = {} PROVE WarmSpec => []WarmInv
  <1>1. WarmInit => WarmInv
    BY WarmInitially
  <1>2. WarmInv /\ [WarmNext]_warmVars => WarmInv'
    BY WarmInvStep
  <1>q. QED
    BY <1>1, <1>2, PTL DEF WarmSpec

\* A run, or a native import, executes a program whose source and configuration are ones
\* the files held between its beginning and its end (driver/warm.py, driver/fastrun.py).
THEOREM RunsTruth == ASSUME Unguarded = {} PROVE WarmSpec => []RunsWhatIsThere
  <1>1. WarmInv => RunsWhatIsThere
    BY DEF WarmInv, Ways, Way, RunsWhatIsThere
  <1>q. QED
    BY <1>1, WarmInvariance, PTL

\* A record whose times match, and whose source hashes the same when it is racy, names the
\* artifact of what the files hold now (`current` of driver/fastrun.py).
THEOREM IndexTruth == ASSUME Unguarded = {} PROVE WarmSpec => []IndexTruthful
  <1>1. WarmInv => IndexTruthful
    <2> SUFFICES ASSUME WarmInv, Believed
                 PROVE  directory[remembered.manifest].of = held
      BY DEF IndexTruthful
    <2>1. /\ remembered \in Entries /\ remembered.manifest \in Contents /\ held \in Contents
          /\ Truthful(remembered)
      BY DEF WarmInv, Believed, WarmTypeOK, Records, Entries
    <2>2. remembered.manifest.conf = held.conf /\ remembered.manifest.text = held.text
      BY <2>1 DEF Truthful, Believed
    <2>3. remembered.manifest = held
      BY <2>1, <2>2 DEF Contents
    <2>q. QED
      BY <2>1, <2>3 DEF WarmInv, KeyedByContents, Truthful, Believed
  <1>q. QED
    BY <1>1, WarmInvariance, PTL

\* At whatever moments edits come, every reachable state of a warm run is well typed: what a
\* process launches is an artifact, and what it runs in process a program it read.
THEOREM WarmTyping == WarmSpec => []WarmTypeOK
  <1>1. WarmInit => WarmTypesInv
    BY WarmInitially
    DEF WarmInv, WarmInit, WarmTypesInv, Equipped, EntryThere, Keyed
  <1>2. WarmTypesInv /\ [WarmNext]_warmVars => WarmTypesInv'
    BY WarmTypesInvStep
  <1>3. WarmTypesInv => WarmTypeOK
    BY DEF WarmTypesInv
  <1>q. QED
    BY <1>1, <1>2, <1>3, PTL DEF WarmSpec

(***************************************************************************)
(* Both.                                                                   *)
(***************************************************************************)

\* A behaviour of the two is one of each: they share nothing, and what is proved of either
\* holds of them together.
LEMMA EachOnItsOwn == OnDiskSpec => Spec /\ WarmSpec
  <1>1. OnDiskInit => Init /\ WarmInit
    BY DEF OnDiskInit
  <1>2. [OnDiskNext]_OnDiskVars => [Next]_vars /\ [WarmNext]_warmVars
    BY DEF OnDiskNext, OnDiskVars
  <1>q. QED
    BY <1>1, <1>2, PTL DEF OnDiskSpec, Spec, WarmSpec

\* The types of the cache and of warm runs, in every reachable state of the two.
THEOREM OnDiskTyping == OnDiskSpec => []OnDiskTypeOK
  <1>1. TypeOK /\ WarmTypeOK => OnDiskTypeOK
    BY DEF OnDiskTypeOK
  <1>q. QED
    BY <1>1, EachOnItsOwn, CacheTyping, WarmTyping, PTL

=============================================================================
