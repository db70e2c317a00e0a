------------------------------ MODULE MCNative -------------------------------
(* An instance for TLC of what native code leans on: the table of a cached  *)
(* function, the threads of a GPU block, and resident objects.  They share  *)
(* nothing: a behaviour is of one of them, and the others stand still.      *)
EXTENDS MemoTable, GpuBlock, Resident, TLC

CONSTANTS k1, k2, k3, k4

VARIABLE subject

NativeVars == <<memoVars, gpuVars, residentVars, subject>>

TableBounds == {-1, 0, 2}
Collide == (k1 :> 0) @@ (k2 :> 0) @@ (k3 :> 5) @@ (k4 :> 0)
KernelsRun == {<<"shfl_down", "shfl_up">>,
               <<"sync", "sync">>,
               <<"shfl_xor", "sync", "shfl">>}

NativeInit ==
    /\ subject \in {"memo", "gpu", "resident"}
    /\ MemoInit /\ (subject # "memo" => bound = 0)
    /\ GpuInit /\ (subject # "gpu" => kernel = <<"shfl_down", "shfl_up">>)
    /\ ResidentInit /\ (subject # "resident" => \A o \in Objects : py[o].next = Null)

NativeNext ==
    \/ subject = "memo" /\ MemoNext /\ UNCHANGED <<gpuVars, residentVars, subject>>
    \/ subject = "gpu" /\ GpuNext /\ UNCHANGED <<memoVars, residentVars, subject>>
    \/ subject = "resident" /\ ResidentNext /\ UNCHANGED <<memoVars, gpuVars, subject>>

\* The types of what the three keep.
NativeTypeOK == MemoTypeOK /\ GpuTypeOK /\ ResidentTypeOK

NativeSpec == NativeInit /\ [][NativeNext]_NativeVars
=============================================================================
