------------------------------- MODULE WarmRun -------------------------------
(***************************************************************************)
(* `ppy run FILE` over what earlier runs left: the fast path that trusts   *)
(* file times (driver/fastrun.py), the run directories named by a key over *)
(* contents (driver/warm.py, `compile_for_run` of backend/llvm), the light *)
(* plan beside a manifest (ppy_runtime/launch.py) and the native `import`  *)
(* of a module (driver/native_import.py), while the files are edited.      *)
(*                                                                         *)
(* A program is one source and its configuration file.  Every edit keeps   *)
(* the size, so that times alone tell two contents apart.  A step is one   *)
(* call of the file system; an editor and the processes interleave.        *)
(***************************************************************************)
EXTENDS Integers, FiniteSets

CONSTANTS
    Runners,    \* the processes
    Importers,  \* those that import the module natively; the others are `ppy run FILE`
    Texts,      \* the contents the source may have
    Confs,      \* the contents the configuration file may have
    JitTexts,   \* the sources only the in-process path can run
    LightTexts, \* the sources whose native code Python never calls
    Granule,    \* how fine the file system keeps a modification time
    RacyWindow, \* _RACY_NS
    Unguarded,  \* the moments at which an edit may come all the same (see Tick and Edit)
    MaxTime,    \* bound: the clock
    MaxRuns,    \* bound: the runs begun
    MaxEdits,   \* bound: the edits
    Unset

ASSUME WarmSetsAssumption ==
    /\ Importers \subseteq Runners /\ Texts \cap Confs = {} /\ Unset \notin Texts \cup Confs
    /\ JitTexts \subseteq Texts /\ LightTexts \subseteq Texts \ JitTexts
ASSUME WarmTimesAssumption ==
    /\ Granule \in Nat \ {0} /\ RacyWindow \in Nat /\ RacyWindow >= Granule
    /\ MaxTime \in Nat /\ MaxRuns \in Nat /\ MaxEdits \in Nat
ASSUME WarmEditsAssumption == Unguarded \subseteq {"key", "stat", "tick", "pause"}

Names == {"text", "conf"}
Contents == [text : Texts, conf : Confs]
Stats == [text : 0 .. MaxTime, conf : 0 .. MaxTime]

VARIABLES
    \* the files and their modification times, and the time of day
    held, mtime, now,
    \* the run directories by key: absent, the marker of the in-process path, or the
    \* contents the artifact was built from; the drafts of light plans in them
    directory, plans,
    \* what `remember` recorded of FILE
    remembered,
    \* each process: where it is, what it loaded of the record, its key, what its
    \* build read, whether the racy check of its `remember` found the source racy
    place, entry, key, read, racy,
    \* what each process ran, and what the files held since it began
    ran, seen,
    \* the runs begun and the edits made
    runs, edits

fileVars == <<held, mtime, now>>
dirsVars == <<directory, plans>>
runVars  == <<entry, key, read, racy, ran>>
warmVars == <<fileVars, dirsVars, remembered, place, runVars, seen, runs, edits>>

Places == {"out", "load", "compare", "digest", "locate", "open", "sources", "publish",
           "draft", "replace", "check", "racy", "sign", "launch", "analyze", "in-process",
           "done", "raised"}
Nothing == [text |-> Unset, conf |-> Unset]
Absent == [kind |-> "absent", of |-> Nothing]
Marker == [kind |-> "marker", of |-> Nothing]
Directories == {Absent, Marker} \cup [kind : {"artifact"}, of : Contents]
NoEntry == [taken |-> Unset, manifest |-> Unset, racy |-> FALSE, digest |-> Unset]
Entries == [taken : Stats, manifest : Contents, racy : BOOLEAN, digest : Texts]

WarmTypeOK ==
    /\ held \in Contents /\ mtime \in Stats /\ now \in 0 .. MaxTime
    /\ directory \in [Contents -> Directories]
    /\ plans \subseteq Contents
    /\ remembered \in Entries \cup {NoEntry}
    /\ place \in [Runners -> Places]
    /\ entry \in [Runners -> Entries \cup {NoEntry}]
    /\ key \in [Runners -> Contents \cup {Nothing}]
    /\ read \in [Runners -> [text : Texts \cup {Unset}, conf : Confs \cup {Unset}]]
    /\ racy \in [Runners -> BOOLEAN]
    /\ ran \in [Runners -> Contents \cup {Nothing}]
    /\ seen \in [Runners -> SUBSET (Texts \cup Confs)]
    /\ runs \in 0 .. MaxRuns /\ edits \in 0 .. MaxEdits

WarmInit ==
    /\ held \in Contents /\ mtime = [n \in Names |-> 0] /\ now = 0
    /\ directory = [k \in Contents |-> Absent] /\ plans = {}
    /\ remembered = NoEntry
    /\ place = [p \in Runners |-> "out"] /\ entry = [p \in Runners |-> NoEntry]
    /\ key = [p \in Runners |-> Nothing] /\ read = [p \in Runners |-> Nothing]
    /\ racy = [p \in Runners |-> FALSE]
    /\ ran = [p \in Runners |-> Nothing] /\ seen = [p \in Runners |-> {}]
    /\ runs = 0 /\ edits = 0

From(p, here, there) == place[p] = here /\ place' = [place EXCEPT ![p] = there]
IsArtifact(k) == directory[k].kind = "artifact"

-----------------------------------------------------------------------------
(* The clock and the editor. *)

\* "pause", if Unguarded names it: the clock moves while a `remember` is between its check
\* of the contents and its look at the times.
Tick ==
    /\ "pause" \in Unguarded \/ \A p \in Runners : place[p] # "racy"
    /\ now < MaxTime /\ now' = now + 1
    /\ UNCHANGED <<held, mtime, dirsVars, remembered, place, runVars, seen, runs, edits>>

\* The moments this specification keeps edits out of, unless Unguarded names them.
\* "key": the key is computed, the build has yet to read what it stands for.
\* "stat": the racy check is done, the times of the record are yet to be taken; and,
\* for the configuration, which no digest covers, all the way from the key to there.
\* "tick": the configuration was written at a time the file system cannot tell from now,
\* and only a source is ever marked racy.
KeyWindow == {"open", "sources"}
StatWindow(name) ==
    {"sign"} \cup (IF name = "conf" THEN {"publish", "draft", "replace", "check", "racy"}
                   ELSE {})
Kept(name) ==
    (IF "key" \in Unguarded THEN {} ELSE KeyWindow)
        \cup (IF "stat" \in Unguarded THEN {} ELSE StatWindow(name))

\* A file gets another content of the same size, and the time the file system keeps.
Edit(name) ==
    /\ edits < MaxEdits /\ edits' = edits + 1
    /\ \A p \in Runners : place[p] \notin Kept(name)
    /\ \E content \in Texts \cup Confs :
        /\ [held EXCEPT ![name] = content] \in Contents \ {held}
        /\ held' = [held EXCEPT ![name] = content]
        /\ seen' = [p \in Runners |-> IF place[p] = "out" THEN seen[p]
                                    ELSE seen[p] \cup {content}]
    /\ mtime' = [mtime EXCEPT ![name] = (now \div Granule) * Granule]
    /\ (name = "conf" /\ "tick" \notin Unguarded) => mtime'.conf # mtime.conf
    /\ UNCHANGED <<now, dirsVars, remembered, place, runVars, runs>>

-----------------------------------------------------------------------------
(* `try_warm`: the record of the last run, believed if the times still match. *)

BeginRun(p) ==
    /\ runs < MaxRuns /\ runs' = runs + 1
    /\ From(p, "out", IF p \in Importers THEN "locate" ELSE "load")
    /\ seen' = [seen EXCEPT ![p] = {held.text, held.conf}]
    /\ UNCHANGED <<fileVars, dirsVars, remembered, runVars, edits>>

\* The record is loaded whole, and its manifest must be there.
LoadRecord(p) ==
    /\ LET there == remembered # NoEntry /\ IsArtifact(remembered.manifest) IN
        /\ From(p, "load", IF there THEN "compare" ELSE "locate")
        /\ entry' = [entry EXCEPT ![p] = IF there THEN remembered ELSE NoEntry]
    /\ UNCHANGED <<fileVars, dirsVars, remembered, key, read, racy, ran, seen, runs, edits>>

\* Mutant of Compare: the times are enough.
CompareTimes(p) ==
    /\ From(p, "compare", IF entry[p].taken # mtime THEN "locate" ELSE "launch")
    /\ key' = [key EXCEPT ![p] = IF entry[p].taken = mtime THEN entry[p].manifest ELSE @]
    /\ UNCHANGED <<fileVars, dirsVars, remembered, entry, read, racy, ran, seen, runs, edits>>

\* `current`: the times; then, of a source marked racy, the content.
Compare(p) ==
    /\ From(p, "compare", IF entry[p].taken # mtime THEN "locate"
                          ELSE IF entry[p].racy THEN "digest" ELSE "launch")
    /\ key' = [key EXCEPT ![p] = IF entry[p].taken = mtime THEN entry[p].manifest ELSE @]
    /\ UNCHANGED <<fileVars, dirsVars, remembered, entry, read, racy, ran, seen, runs, edits>>

Digest(p) ==
    /\ From(p, "digest", IF entry[p].digest = held.text THEN "launch" ELSE "locate")
    /\ UNCHANGED <<fileVars, dirsVars, remembered, runVars, seen, runs, edits>>

-----------------------------------------------------------------------------
(* The full path: find the artifact by its key, or build it. *)

\* `locate` hashes what the files hold.  A hit is remembered, by `ppy run`, and
\* launched; a marker sends the run in process; a miss builds.  It is one step: an edit
\* amid it is as one in the "key" window after it.
Locate(p) ==
    /\ LET found == directory[held].kind
           hit   == IF p \in Importers THEN "launch" ELSE "check"
       IN From(p, "locate", IF found = "absent" THEN "open"
                            ELSE IF found = "artifact" THEN hit
                            ELSE IF p \in Importers THEN "in-process" ELSE "analyze")
    /\ key' = [key EXCEPT ![p] = held]
    /\ UNCHANGED <<fileVars, dirsVars, remembered, entry, read, racy, ran, seen, runs, edits>>

\* The build opens the project, and reads its sources, a second time.
OpenProject(p) ==
    /\ From(p, "open", "sources")
    /\ read' = [read EXCEPT ![p].conf = held.conf]
    /\ UNCHANGED <<fileVars, dirsVars, remembered, entry, key, racy, ran, seen, runs, edits>>

ReadSources(p) ==
    /\ From(p, "sources", "publish")
    /\ read' = [read EXCEPT ![p].text = held.text]
    /\ UNCHANGED <<fileVars, dirsVars, remembered, entry, key, racy, ran, seen, runs, edits>>

\* `compile_for_run`: a marker or an artifact, moved whole onto the directory of the
\* key; the first one there stays.
Publish(p) ==
    /\ LET k     == key[p]
           made  == IF read[p].text \in JitTexts THEN Marker
                    ELSE [kind |-> "artifact", of |-> read[p]]
           there == IF directory[k] = Absent THEN made ELSE directory[k]
       IN
        /\ From(p, "publish", IF Marker \in {made, there} THEN "in-process"
                              ELSE IF there.of.text \in LightTexts THEN "draft"
                              ELSE IF p \in Importers THEN "launch" ELSE "check")
        /\ directory' = [directory EXCEPT ![k] = there]
    /\ UNCHANGED <<fileVars, plans, remembered, runVars, seen, runs, edits>>

\* `write_light`: the draft of the plan has one name, whoever writes it.
DraftLight(p) ==
    /\ From(p, "draft", "replace")
    /\ plans' = plans \cup {key[p]}
    /\ UNCHANGED <<fileVars, directory, remembered, runVars, seen, runs, edits>>

\* Moving it fails when another process has moved it already, and nothing catches
\* that but an import.
ReplaceLight(p) ==
    /\ From(p, "replace", IF key[p] \notin plans THEN "raised"
                          ELSE IF p \in Importers THEN "launch" ELSE "check")
    /\ plans' = plans \ {key[p]}
    /\ UNCHANGED <<fileVars, directory, remembered, runVars, seen, runs, edits>>

-----------------------------------------------------------------------------
(* `remember`, best effort, and what runs in the end. *)

\* The source must still be what the artifact was built from.
CheckDigest(p) ==
    /\ From(p, "check", IF directory[key[p]].of.text = held.text THEN "racy" ELSE "launch")
    /\ UNCHANGED <<fileVars, dirsVars, remembered, runVars, seen, runs, edits>>

\* Mutant of MarkRacy: a source is never too young.
NeverRacy(p) ==
    /\ From(p, "racy", "sign")
    /\ racy' = [racy EXCEPT ![p] = FALSE]
    /\ UNCHANGED <<fileVars, dirsVars, remembered, entry, key, read, ran, seen, runs, edits>>

\* A source modified too close to now is marked racy.
MarkRacy(p) ==
    /\ From(p, "racy", "sign")
    /\ racy' = [racy EXCEPT ![p] = mtime.text >= now - RacyWindow]
    /\ UNCHANGED <<fileVars, dirsVars, remembered, entry, key, read, ran, seen, runs, edits>>

\* The times are taken and the record replaced.
Sign(p) ==
    /\ From(p, "sign", "launch")
    /\ remembered' = [taken  |-> mtime, manifest |-> key[p], racy |-> racy[p],
                      digest |-> directory[key[p]].of.text]
    /\ UNCHANGED <<fileVars, dirsVars, runVars, seen, runs, edits>>

Launch(p) ==
    /\ From(p, "launch", "done")
    /\ ran' = [ran EXCEPT ![p] = directory[key[p]].of]
    /\ UNCHANGED <<fileVars, dirsVars, remembered, entry, key, read, racy, seen, runs, edits>>

\* A run that found the marker only reads the program.
Analyze(p) ==
    /\ From(p, "analyze", "in-process")
    /\ read' = [read EXCEPT ![p] = held]
    /\ UNCHANGED <<fileVars, dirsVars, remembered, entry, key, racy, ran, seen, runs, edits>>

\* In process, a run executes what its analysis read; an import loads the file.
InProcess(p) ==
    /\ From(p, "in-process", "done")
    /\ ran' = [ran EXCEPT ![p] = IF p \in Importers THEN held ELSE read[p]]
    /\ UNCHANGED <<fileVars, dirsVars, remembered, entry, key, read, racy, seen, runs, edits>>

\* An import that raised loads the file as Python.
ServePython(p) ==
    /\ p \in Importers /\ From(p, "raised", "done")
    /\ ran' = [ran EXCEPT ![p] = held]
    /\ UNCHANGED <<fileVars, dirsVars, remembered, entry, key, read, racy, seen, runs, edits>>

End(p) ==
    /\ place[p] \in IF p \in Importers THEN {"done"} ELSE {"done", "raised"}
    /\ place' = [place EXCEPT ![p] = "out"]
    /\ entry' = [entry EXCEPT ![p] = NoEntry] /\ key' = [key EXCEPT ![p] = Nothing]
    /\ read' = [read EXCEPT ![p] = Nothing] /\ racy' = [racy EXCEPT ![p] = FALSE]
    /\ ran' = [ran EXCEPT ![p] = Nothing] /\ seen' = [seen EXCEPT ![p] = {}]
    /\ UNCHANGED <<fileVars, dirsVars, remembered, runs, edits>>

WarmStep(p) ==
    \/ BeginRun(p) \/ LoadRecord(p) \/ Compare(p) \/ Digest(p)
    \/ Locate(p) \/ OpenProject(p) \/ ReadSources(p) \/ Publish(p)
    \/ DraftLight(p) \/ ReplaceLight(p)
    \/ CheckDigest(p) \/ MarkRacy(p) \/ Sign(p)
    \/ Launch(p) \/ Analyze(p) \/ InProcess(p) \/ ServePython(p) \/ End(p)

WarmNext == Tick \/ (\E name \in Names : Edit(name)) \/ (\E p \in Runners : WarmStep(p))

WarmSpec == WarmInit /\ [][WarmNext]_warmVars

-----------------------------------------------------------------------------
(* What a run promises. *)

\* A run executes a program that was there: its source, and its configuration, are ones
\* the files held between the beginning of the run and its end.  (warm.py: "a stale
\* artifact would be a wrong answer".)
RunsWhatIsThere ==
    \A p \in Runners : ran[p] # Nothing => {ran[p].text, ran[p].conf} \subseteq seen[p]

\* A record that would be believed now names an artifact of what the files hold now:
\* the fast path, which hashes nothing, answers as the key would.
Believed == remembered # NoEntry /\ remembered.taken = mtime
                /\ (remembered.racy => remembered.digest = held.text)
IndexTruthful == Believed => directory[remembered.manifest].of = held

=============================================================================
