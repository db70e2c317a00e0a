----------------------------- MODULE MCAioLoop -----------------------------
(* Instances of AioLoop for TLC. *)
EXTENDS AioLoop, TLC

Symmetric == Permutations(Coros) \cup Permutations(Ops) \cup Permutations(Fds)

AtMostOne(S) == \A x, y \in S : x = y

\* What one run covers: any coroutines over one operation, one descriptor and whole
\* writes, and one coroutine over all operations and descriptors, with writes in pieces.
FewAtOnce ==
    \/ AtMostOne({c \in Coros : state[c] # "none"})
    \/ /\ AtMostOne({o \in Ops : state[o] # "none"})
       /\ AtMostOne(open \cup {d \in Fds : armed[d] # "off"})
       /\ \A o \in Ops : left[o] <= 1

=============================================================================
