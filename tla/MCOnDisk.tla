------------------------------- MODULE MCOnDisk ------------------------------
(* An instance for TLC of what processes leave each other on disk: the       *)
(* artifact cache, and the directories and the record of warm runs.  They    *)
(* share nothing: a behaviour is of one of them, and the other stands still. *)
EXTENDS CacheStore, WarmRun, TLC

VARIABLE subject

OnDiskVars == <<vars, warmVars, subject>>

NoImports == [m \in Modules |-> {}]
Symmetric == Permutations(Procs)

OnDiskInit ==
    /\ subject \in {"cache", "warm"}
    /\ Init /\ (subject # "cache" => disk = {})
    /\ WarmInit /\ (subject # "warm" => held = CHOOSE c \in Contents : TRUE)

OnDiskNext ==
    \/ subject = "cache" /\ Next /\ UNCHANGED <<warmVars, subject>>
    \/ subject = "warm" /\ WarmNext /\ UNCHANGED <<vars, subject>>

\* The types of what the two keep.
OnDiskTypeOK == TypeOK /\ WarmTypeOK

OnDiskSpec == OnDiskInit /\ [][OnDiskNext]_OnDiskVars
=============================================================================
