------------------------------- MODULE LruCache -------------------------------
(***************************************************************************)
(* What CPython's `functools.lru_cache` does, which lowering/memo.py says  *)
(* the native table does: a cached function answers from its cache, which  *)
(* keeps everything when it has no bound, and otherwise at most `bound`    *)
(* results, letting go of the one used longest ago; a hit is a use.        *)
(***************************************************************************)
EXTENDS Integers, FiniteSets

CONSTANTS Keys, Values, Bounds

VARIABLES
    bound,    \* the most results kept, -1 for no bound
    results,  \* the results kept, by their keys
    older,    \* <<j, k>>: the result of j was used last before that of k was
    keeping,  \* is a result about to be kept
    answered  \* the last answer given from the cache

vars == <<bound, results, older, keeping, answered>>

Held == DOMAIN results
WithoutKey(k) == {p \in older : p[1] # k /\ p[2] # k}
UsedNow(k) == WithoutKey(k) \cup ((Held \ {k}) \X {k})

Init ==
    /\ bound \in Bounds /\ results = [k \in {} |-> {}] /\ older = {}
    /\ keeping = FALSE /\ answered = <<>>

Hit == \E k \in Held :
    /\ ~keeping
    /\ answered' = <<[key |-> k, value |-> results[k]]>>
    /\ older' = IF bound > 0 THEN UsedNow(k) ELSE older
    /\ UNCHANGED <<bound, results, keeping>>

\* The body of a call that missed has answered.
Compute == ~keeping /\ keeping' = TRUE /\ UNCHANGED <<bound, results, older, answered>>

Evict == \E k \in Held :
    /\ keeping /\ bound > 0 /\ Cardinality(Held) = bound
    /\ \A j \in Held \ {k} : <<k, j>> \in older
    /\ results' = [j \in Held \ {k} |-> results[j]] /\ older' = WithoutKey(k)
    /\ UNCHANGED <<bound, keeping, answered>>

Keep == \E k \in Keys \ Held, v \in Values :
    /\ keeping /\ keeping' = FALSE
    /\ bound = -1 \/ Cardinality(Held) < bound
    /\ results' = [j \in Held \cup {k} |-> IF j = k THEN v ELSE results[j]]
    /\ older' = UsedNow(k)
    /\ UNCHANGED <<bound, answered>>

\* A result computed again while a call inside kept one: without a bound it replaces
\* that one.  With a bound that one stays, in its place in the order: the wrapper finds
\* the key and returns, which changes nothing here.
Again == \E k \in Held, v \in Values :
    /\ ~keeping /\ bound = -1
    /\ results' = [results EXCEPT ![k] = v]
    /\ UNCHANGED <<bound, older, keeping, answered>>

Next == Hit \/ Compute \/ Evict \/ Keep \/ Again

Spec == Init /\ [][Next]_vars

=============================================================================
