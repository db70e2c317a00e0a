---------------------------- MODULE MCConcurrent ----------------------------
(* Instances of Concurrent for TLC. *)
EXTENDS Concurrent, TLC

Symmetric == Permutations(Threads)

=============================================================================
