------------------------------ MODULE MemoTable ------------------------------
(***************************************************************************)
(* The native table of a cached function (`ppy_memo_*` of ppy_runtime/     *)
(* stdlib.c) under the entry every caller calls (`memo_run` of lowering/   *)
(* memo.py): open addressing with removed slots, a stamp on every use, and *)
(* a bound.  The body runs between the lookup and the store, and may call  *)
(* the entry itself.                                                       *)
(*                                                                         *)
(* Python's threads share the table.  A call of the cached function keeps  *)
(* the GIL from its beginning to its end; a looping function that calls it *)
(* runs without the GIL (`_releases_gil` of backend/llvm/lowering.py).     *)
(***************************************************************************)
EXTENDS Integers, FiniteSets, SequencesExt

CONSTANTS
    Threads, Keys, Values,
    NaNKeys,  \* the keys that hold a NaN, which no key equals
    Hash,     \* Hash[k]: the hash of a key
    Bounds,   \* the bounds a table may be made with: -1 none, 0 keeps nothing
    Start,    \* the slots a table is made with (16)
    Small,    \* below this many slots a table that grows is four times as large (1024)
    Callers,  \* who calls the entry: "entry" Python itself, "loop" a native loop
    SameKey,  \* may a bounded function's body call for a key it is being called for?
    MaxDepth, \* bound: calls of the entry inside one another
    MaxUses,  \* bound: lookups
    None

ASSUME MemoSetsAssumption ==
    /\ NaNKeys \subseteq Keys /\ Hash \in [Keys -> Nat] /\ Bounds \subseteq {-1} \cup Nat
    /\ Callers \subseteq {"entry", "loop"} /\ SameKey \in BOOLEAN /\ None \notin Threads
ASSUME MemoSizesAssumption ==
    /\ Start \in Nat \ {0} /\ Small \in Nat
    /\ MaxDepth \in Nat \ {0} /\ MaxUses \in Nat

VARIABLES
    \* the table: its slots, entries in use, removed since they were laid out, next
    \* stamp, bound
    slots, used, removed, stamp, bound,
    \* the GIL's holder
    gil,
    \* each thread: how it called, the keys of the calls it is in, where its
    \* store is, the value it keeps and the slot it found open, and the slots it
    \* lays the entries out in and the next one to go there
    caller, stack, doing, value, open, fresh, next,
    \* history: the last answer from the table, the lookups made
    answered, uses

tableVars  == <<slots, used, removed, stamp>>
layVars    == <<fresh, next>>
threadVars == <<caller, stack, doing, value, open, layVars>>
memoVars   == <<tableVars, bound, gil, threadVars, answered, uses>>

SizeOf(table) == Cardinality(DOMAIN table)
Size == SizeOf(slots)
NoSlots == [s \in {} |-> {}]
Empty == [state |-> "empty", stamp |-> 0, key |-> None, value |-> None]
UsedIn(table) == {s \in DOMAIN table : table[s].state = "used"}
InUse == UsedIn(slots)

Slots ==
    [state : {"empty", "used", "removed"}, stamp : Nat,
     key : Keys \cup {None}, value : Values \cup {None}]
IsTable(table) == SizeOf(table) \in Nat /\ table \in [0 .. SizeOf(table) - 1 -> Slots]

MemoTypeOK ==
    /\ IsTable(slots) /\ Size > 0
    /\ \A s \in InUse :
        slots[s].stamp <= stamp /\ slots[s].key \in Keys /\ slots[s].value \in Values
    /\ used \in Nat /\ removed \in Nat /\ stamp \in Nat /\ bound \in Bounds
    /\ gil \in Threads \cup {None}
    /\ caller \in [Threads -> Callers \cup {None}]
    /\ stack \in [Threads -> Seq(Keys)] /\ \A t \in Threads : Len(stack[t]) <= MaxDepth
    /\ doing \in [Threads -> {"out", "call", "body", "probe", "evict", "grow", "lay", "place"}]
    /\ value \in [Threads -> Values \cup {None}] /\ open \in [Threads -> Int]
    /\ fresh = [t \in Threads |-> fresh[t]] /\ \A t \in Threads : IsTable(fresh[t])
    /\ next \in [Threads -> Nat]
    /\ uses \in 0 .. MaxUses

MemoInit ==
    /\ slots = [s \in 0 .. Start - 1 |-> Empty]
    /\ used = 0 /\ removed = 0 /\ stamp = 0 /\ bound \in Bounds
    /\ gil = None
    /\ caller = [t \in Threads |-> None] /\ stack = [t \in Threads |-> <<>>]
    /\ doing = [t \in Threads |-> "out"] /\ value = [t \in Threads |-> None]
    /\ open = [t \in Threads |-> -1]
    /\ fresh = [t \in Threads |-> NoSlots] /\ next = [t \in Threads |-> 0]
    /\ answered = <<>> /\ uses = 0

-----------------------------------------------------------------------------
(* `ppy_memo_probe`: from the slot a hash names on, around the table, up to the first  *)
(* empty one.                                                                           *)

Steps(table, h, s) ==
    LET first == h % SizeOf(table)
    IN IF s >= first THEN s - first ELSE s + SizeOf(table) - first

Probed(table, h) ==
    {s \in DOMAIN table :
        \A r \in DOMAIN table : Steps(table, h, r) < Steps(table, h, s) => table[r].state # "empty"}

\* The slot that holds the key, and where a key would go: the first slot not in use.
Holding(k) == {s \in Probed(slots, Hash[k]) \cap InUse : slots[s].key = k}
FirstFree(table, h) ==
    CHOOSE s \in DOMAIN table :
        /\ s \notin UsedIn(table)
        /\ \A r \in DOMAIN table : Steps(table, h, r) < Steps(table, h, s) => r \in UsedIn(table)

\* Mutant of Used: a hit is no use.
Unused(table, s) == table

\* Mutant of Counted: the next use gets the same stamp.
NotCounted == stamp

\* A hit is a use, which only a bounded table counts.
Used(table, s) == IF bound > 0 THEN [table EXCEPT ![s].stamp = stamp + 1] ELSE table

\* The stamp that leaves.
Counted == IF bound > 0 THEN stamp + 1 ELSE stamp

-----------------------------------------------------------------------------
(* A call of the entry. *)

Key(t) == Last(stack[t])
Go(t, there) == doing' = [doing EXCEPT ![t] = there]
Answer(t) ==
    /\ stack' = [stack EXCEPT ![t] = Front(@)]
    /\ Go(t, IF Len(stack[t]) = 1 THEN "out" ELSE "body")
    /\ gil' = IF Len(stack[t]) = 1 /\ gil = t THEN None ELSE gil
    /\ caller' = IF Len(stack[t]) = 1 THEN [caller EXCEPT ![t] = None] ELSE caller
    /\ value' = [value EXCEPT ![t] = None] /\ open' = [open EXCEPT ![t] = -1]

\* Python calls with the GIL, and the entry keeps it; a loop has given it back.
Enter(t, how, k) ==
    /\ doing[t] = "out" /\ uses < MaxUses /\ uses' = uses + 1
    /\ how = "entry" => gil = None
    /\ gil' = IF how = "entry" THEN t ELSE gil
    /\ caller' = [caller EXCEPT ![t] = how] /\ stack' = [stack EXCEPT ![t] = <<k>>]
    /\ Go(t, "call")
    /\ UNCHANGED <<tableVars, bound, value, open, layVars, answered>>

\* `ppy_memo_find`, and the value of a hit.
Lookup(t) ==
    /\ doing[t] = "call"
    /\ LET k == Key(t)
           found == IF used = 0 \/ k \in NaNKeys THEN {} ELSE Holding(k)
       IN \/ /\ found = {}
             /\ Go(t, "body")
             /\ UNCHANGED <<tableVars, bound, gil, caller, stack, value, open, layVars, answered, uses>>
          \/ \E s \in found :
             /\ slots' = Used(slots, s) /\ stamp' = Counted
             /\ answered' = <<[key |-> k, value |-> slots[s].value]>>
             /\ Answer(t)
             /\ UNCHANGED <<used, removed, bound, layVars, uses>>

\* The body calls the entry, or answers.  One whose doing depends on its arguments alone
\* never calls for a key it is being called for: it would do so for ever.
Recurse(t, k) ==
    /\ doing[t] = "body" /\ Len(stack[t]) < MaxDepth
    /\ bound > 0 /\ ~SameKey => \A i \in DOMAIN stack[t] : stack[t][i] # k
    /\ uses < MaxUses /\ uses' = uses + 1
    /\ stack' = [stack EXCEPT ![t] = Append(@, k)] /\ Go(t, "call")
    /\ UNCHANGED <<tableVars, bound, gil, caller, value, open, layVars, answered>>

Return(t, v) ==
    /\ doing[t] = "body" /\ value' = [value EXCEPT ![t] = v] /\ Go(t, "probe")
    /\ UNCHANGED <<tableVars, bound, gil, caller, stack, open, layVars, answered, uses>>

\* The body raised, or a guard of it failed: nothing is kept, all the way out.
Fail(t) ==
    /\ doing[t] = "body" /\ stack' = [stack EXCEPT ![t] = <<>>] /\ Go(t, "out")
    /\ gil' = IF gil = t THEN None ELSE gil
    /\ caller' = [caller EXCEPT ![t] = None]
    /\ UNCHANGED <<tableVars, bound, value, open, layVars, answered, uses>>

-----------------------------------------------------------------------------
(* `ppy_memo_store`, a step for each of its parts. *)

\* Nothing is kept of a key with a NaN, nor with a bound of 0.
Ignore(t) ==
    /\ doing[t] = "probe" /\ (bound = 0 \/ Key(t) \in NaNKeys)
    /\ Answer(t)
    /\ UNCHANGED <<tableVars, bound, layVars, answered, uses>>

\* The key was put meanwhile: it counts as used, and an unbounded table takes the value.
StoreAgain(t) ==
    /\ doing[t] = "probe" /\ bound # 0 /\ Key(t) \notin NaNKeys
    /\ \E s \in Holding(Key(t)) :
        /\ slots' = IF bound > 0 THEN Used(slots, s)
                    ELSE [slots EXCEPT ![s].value = value[t]]
        /\ stamp' = Counted
    /\ Answer(t)
    /\ UNCHANGED <<used, removed, bound, layVars, answered, uses>>

StoreNew(t) ==
    /\ doing[t] = "probe" /\ bound # 0 /\ Key(t) \notin NaNKeys
    /\ Holding(Key(t)) = {}
    /\ open' = [open EXCEPT ![t] = FirstFree(slots, Hash[Key(t)])]
    /\ Go(t, IF bound > 0 /\ used >= bound THEN "evict" ELSE "grow")
    /\ UNCHANGED <<tableVars, bound, gil, caller, stack, value, layVars, answered, uses>>

\* `ppy_memo_drop` of the entry used longest ago.
Oldest(s) == s \in InUse /\ \A r \in InUse : slots[s].stamp <= slots[r].stamp
Evict(t) ==
    /\ doing[t] = "evict"
    /\ \E s \in InUse :
        /\ Oldest(s)
        /\ slots' = [slots EXCEPT ![s].state = "removed"]
        /\ used' = used - 1 /\ removed' = removed + 1
    /\ Go(t, "grow")
    /\ UNCHANGED <<stamp, bound, gil, caller, stack, value, open, layVars, answered, uses>>

NewSize == IF 4 * (used + 1) <= Size THEN Size
           ELSE IF Size < Small THEN 4 * Size ELSE 2 * Size

\* Over half full, counting the removed.
Crowded == 2 * (used + removed + 1) > Size

Grow(t) ==
    /\ doing[t] = "grow"
    /\ IF Crowded
       THEN /\ fresh' = [fresh EXCEPT ![t] = [s \in 0 .. NewSize - 1 |-> Empty]]
            /\ next' = [next EXCEPT ![t] = 0] /\ Go(t, "lay")
       ELSE Go(t, "place") /\ UNCHANGED layVars
    /\ UNCHANGED <<tableVars, bound, gil, caller, stack, value, open, answered, uses>>

\* `ppy_memo_grow`, a slot of the old table a step: the entries in use laid out again.
LayOut(t) ==
    /\ doing[t] = "lay" /\ next[t] < Size /\ next' = [next EXCEPT ![t] = @ + 1]
    /\ LET entry == slots[next[t]] IN
       fresh' = IF entry.state = "used"
                THEN [fresh EXCEPT ![t][FirstFree(fresh[t], Hash[entry.key])] = entry]
                ELSE fresh
    /\ UNCHANGED <<tableVars, bound, gil, caller, stack, doing, value, open, answered, uses>>

\* The rest of a store after its table grew: the key's place is found anew.
LaidOut(t, place) ==
    /\ doing[t] = "lay" /\ next[t] >= Size
    /\ slots' = fresh[t] /\ removed' = 0
    /\ fresh' = [fresh EXCEPT ![t] = NoSlots] /\ next' = [next EXCEPT ![t] = 0]
    /\ open' = [open EXCEPT ![t] = place]
    /\ Go(t, "place")
    /\ UNCHANGED <<used, stamp, bound, gil, caller, stack, value, answered, uses>>

\* Mutant of Swap: the place found before it is kept.
SwapKeepsPlace(t) == LaidOut(t, open[t])

Swap(t) == LaidOut(t, FirstFree(fresh[t], Hash[Key(t)]))

Place(t) ==
    /\ doing[t] = "place"
    /\ slots' = [slots EXCEPT ![open[t]] =
            [state |-> "used", stamp |-> stamp + 1, key |-> Key(t), value |-> value[t]]]
    /\ used' = used + 1 /\ stamp' = stamp + 1
    /\ Answer(t)
    /\ UNCHANGED <<removed, bound, layVars, answered, uses>>

MemoStep(t) ==
    \/ \E how \in Callers, k \in Keys : Enter(t, how, k)
    \/ \E k \in Keys : Recurse(t, k)
    \/ \E v \in Values : Return(t, v)
    \/ Lookup(t) \/ Fail(t)
    \/ Ignore(t) \/ StoreAgain(t) \/ StoreNew(t) \/ Evict(t)
    \/ Grow(t) \/ LayOut(t) \/ Swap(t) \/ Place(t)

MemoNext == \E t \in Threads : MemoStep(t)

MemoSpec == MemoInit /\ [][MemoNext]_memoVars

-----------------------------------------------------------------------------
(* What the table promises. *)

\* A probe ends, at an empty slot, whatever was removed and put back; and every entry is
\* where a probe for its key finds it, and no key has two.
Findable ==
    /\ \E s \in DOMAIN slots : slots[s].state = "empty"
    /\ \A s \in InUse : Holding(slots[s].key) = {s}

\* The counts the table decides by: what is in use exactly, and at least what was removed.
CountsRight ==
    /\ used = Cardinality(InUse)
    /\ removed >= Cardinality({s \in DOMAIN slots : slots[s].state = "removed"})

\* The table as a cache: the results by their keys, and which was used before which.
KeysHeld == {slots[s].key : s \in InUse}
SlotOf(k) == slots[CHOOSE s \in InUse : slots[s].key = k]
Results == [k \in KeysHeld |-> SlotOf(k).value]
Older == {p \in KeysHeld \X KeysHeld : SlotOf(p[1]).stamp < SlotOf(p[2]).stamp}
Keeping == \E t \in Threads : doing[t] \in {"evict", "grow", "lay", "place"}

\* memo.py:13-17, stdlib.c:1276-1278: the table is an `lru_cache`, which is LruCache.
Lru == INSTANCE LruCache WITH results <- Results, older <- Older, keeping <- Keeping
AnswersAsLru == Lru!Spec

=============================================================================
