---------------------------- MODULE Native_proofs ----------------------------
(***************************************************************************)
(* Proofs about what native code leans on.                                 *)
(*                                                                         *)
(* MemoTable, for any threads, keys, hashes, bounds and sizes: a probe     *)
(* finds what is there and the counts are right, when every caller holds   *)
(* the GIL; and the table is an LRU cache, when moreover no bounded body   *)
(* calls for the key it is called for.                                     *)
(*                                                                         *)
(* And the three of MCNative together: the block and the resident objects  *)
(* have proofs of their own.                                               *)
(***************************************************************************)
EXTENDS MCNative, GpuBlock_proofs, Resident_proofs, SequenceTheorems, WellFoundedInduction

(* The inductive invariant, in parts. *)

\* A table is laid out well when each of its entries is on the way of a probe for its key,
\* and no two have a key, or a stamp, in common.
Laid(T) ==
    /\ \A s \in UsedIn(T) : s \in Probed(T, Hash[T[s].key])
    /\ \A r, s \in UsedIn(T) :
        r # s => T[r].key # T[s].key /\ T[r].stamp # T[s].stamp

\* The table: typed, well laid out, at most half full counting the removed, and within its
\* bound; and it knows how many entries it has.
TableInv ==
    /\ IsTable(slots) /\ Size > 0
    /\ \A s \in InUse :
        slots[s].stamp <= stamp /\ slots[s].key \in Keys /\ slots[s].value \in Values
    /\ used \in Nat /\ removed \in Nat /\ stamp \in Nat /\ bound \in Bounds
    /\ Laid(slots) /\ CountsRight
    /\ 2 * (used + removed) <= Size
    /\ bound > 0 => used <= bound

ThreadTypes ==
    /\ gil \in Threads \cup {None}
    /\ caller \in [Threads -> Callers \cup {None}]
    /\ stack \in [Threads -> Seq(Keys)] /\ \A t \in Threads : Len(stack[t]) <= MaxDepth
    /\ doing \in [Threads -> {"out", "call", "body", "probe", "evict", "grow", "lay", "place"}]
    /\ value \in [Threads -> Values \cup {None}] /\ open \in [Threads -> Int]
    /\ fresh = [t \in Threads |-> fresh[t]] /\ \A t \in Threads : IsTable(fresh[t])
    /\ next \in [Threads -> Nat]
    /\ uses \in 0 .. MaxUses

\* One call at a time is under way, that of the holder of the GIL.
Alone == \A t \in Threads :
    /\ doing[t] = "out" <=> stack[t] = <<>>
    /\ doing[t] # "out" => gil = t

\* What a store knows: its key is not in the table, a probe for it meets the slot found
\* open, and there is room for it, once an entry left for it.
Storing == {"evict", "grow", "lay", "place"}
Stores(t) ==
    /\ doing[t] \in Storing \cup {"probe"} => value[t] \in Values
    /\ doing[t] \in Storing =>
        /\ bound # 0
        /\ \A s \in InUse : slots[s].key # Key(t)
        /\ open[t] \in Probed(slots, Hash[Key(t)]) /\ open[t] \notin InUse
        /\ bound > 0 => IF doing[t] = "evict" THEN used = bound ELSE used < bound
    /\ doing[t] = "evict" => bound > 0
    /\ doing[t] = "place" => ~Crowded

\* While the entries are laid out again: those before the next are in the fresh table, which
\* has no others and is at most half full, the new one included.
Moved(t) == {s \in InUse : s < next[t]}
EntriesIn(T, S) == {T[s] : s \in S}
Lays(t) == doing[t] = "lay" =>
    /\ next[t] <= Size
    /\ 2 * (used + 1) <= SizeOf(fresh[t])
    /\ Laid(fresh[t])
    /\ \A s \in DOMAIN fresh[t] : fresh[t][s].state # "removed"
    /\ EntriesIn(fresh[t], UsedIn(fresh[t])) = EntriesIn(slots, Moved(t))
    /\ Cardinality(UsedIn(fresh[t])) = Cardinality(Moved(t))

MemoInv == TableInv /\ ThreadTypes /\ Alone /\ \A t \in Threads : Stores(t) /\ Lays(t)

-----------------------------------------------------------------------------
(* Tables. *)

LEMMA Sized == ASSUME NEW n \in Nat, NEW T, DOMAIN T = 0 .. n - 1
               PROVE  SizeOf(T) = n
  <1>1. Cardinality(0 .. n - 1) = n
    BY FS_Interval
  <1>q. QED
    BY <1>1 DEF SizeOf

LEMMA Domain == ASSUME NEW T, IsTable(T)
                PROVE  /\ SizeOf(T) \in Nat /\ DOMAIN T = 0 .. SizeOf(T) - 1
                       /\ IsFiniteSet(DOMAIN T) /\ Cardinality(DOMAIN T) = SizeOf(T)
                       /\ \A s \in DOMAIN T : T[s] \in Slots
  <1>1. SizeOf(T) \in Nat /\ DOMAIN T = 0 .. SizeOf(T) - 1 /\ \A s \in DOMAIN T : T[s] \in Slots
    BY DEF IsTable
  <1>2. IsFiniteSet(0 .. SizeOf(T) - 1)
    BY <1>1, FS_Interval
  <1>3. IsFiniteSet(DOMAIN T) /\ Cardinality(DOMAIN T) = SizeOf(T)
    BY <1>1, <1>2 DEF SizeOf
  <1>q. QED
    BY <1>1, <1>3

LEMMA Modulo == ASSUME NEW n \in Nat, n > 0, NEW h \in Nat
                PROVE  h % n \in 0 .. n - 1
  BY Z3

\* A probe comes to every slot, after a number of steps of its own.
LEMMA StepsTaken ==
    ASSUME NEW T, IsTable(T), NEW h \in Nat, NEW s \in DOMAIN T
    PROVE  /\ Steps(T, h, s) \in Nat
           /\ \A r \in DOMAIN T : Steps(T, h, r) = Steps(T, h, s) => r = s
  <1>1. SizeOf(T) \in Nat /\ DOMAIN T = 0 .. SizeOf(T) - 1 /\ SizeOf(T) > 0
    BY Domain
  <1>2. h % SizeOf(T) \in 0 .. SizeOf(T) - 1
    BY <1>1, Modulo
  <1>3. /\ Steps(T, h, s) \in Nat
        /\ \A r \in 0 .. SizeOf(T) - 1 : Steps(T, h, r) = Steps(T, h, s) => r = s
    <2> DEFINE n == SizeOf(T)
               first == h % SizeOf(T)
    <2>1. n \in Nat /\ first \in 0 .. n - 1 /\ s \in 0 .. n - 1
      BY <1>1, <1>2
    <2> HIDE DEF n, first
    <2>2. \A r : Steps(T, h, r) = IF r >= first THEN r - first ELSE r + n - first
      BY DEF Steps, n, first
    <2>3. \A r \in 0 .. n - 1 : Steps(T, h, r) = Steps(T, h, s) => r = s
      BY <2>1, <2>2
    <2>4. Steps(T, h, s) \in Nat
      BY <2>1, <2>2
    <2>q. QED
      BY <2>3, <2>4 DEF n
  <1>q. QED
    BY <1>1, <1>3

\* A table that is not full has a first free slot, which a probe meets after used ones only.
LEMMA FreeFound ==
    ASSUME NEW T, IsTable(T), NEW h \in Nat, UsedIn(T) # DOMAIN T
    PROVE  /\ FirstFree(T, h) \in DOMAIN T /\ FirstFree(T, h) \notin UsedIn(T)
           /\ \A r \in DOMAIN T : Steps(T, h, r) < Steps(T, h, FirstFree(T, h)) => r \in UsedIn(T)
           /\ FirstFree(T, h) \in Probed(T, h)
  <1> DEFINE Free == DOMAIN T \ UsedIn(T)
             First(s) == /\ s \notin UsedIn(T)
                         /\ \A r \in DOMAIN T : Steps(T, h, r) < Steps(T, h, s) => r \in UsedIn(T)
  <1>1. Free # {}
    BY DEF UsedIn
  <1>2. \A s \in DOMAIN T : Steps(T, h, s) \in Nat
    BY StepsTaken
  <1>3. {Steps(T, h, s) : s \in Free} \subseteq Nat /\ {Steps(T, h, s) : s \in Free} # {}
    BY <1>1, <1>2
  <1>4. PICK n \in {Steps(T, h, s) : s \in Free} : \A m \in {Steps(T, h, s) : s \in Free} : n <= m
    BY <1>3, LeastNat
  <1>5. PICK s \in Free : Steps(T, h, s) = n
    BY <1>4
  <1>6. First(s)
    BY <1>2, <1>4, <1>5
  <1>7. First(FirstFree(T, h)) /\ FirstFree(T, h) \in DOMAIN T
    <2>1. \E x \in DOMAIN T : First(x)
      BY <1>6
    <2> HIDE DEF First
    <2>2. First(CHOOSE x \in DOMAIN T : First(x)) /\ (CHOOSE x \in DOMAIN T : First(x)) \in DOMAIN T
      BY <2>1
    <2>3. FirstFree(T, h) = (CHOOSE x \in DOMAIN T : First(x))
      BY DEF FirstFree, First
    <2>q. QED
      BY <2>2, <2>3
  <1>8. FirstFree(T, h) \in Probed(T, h)
    BY <1>7 DEF Probed, UsedIn
  <1>q. QED
    BY <1>7, <1>8

\* An entry put on its probe's way, in a slot that is not in use, leaves the table well
\* laid out.
LEMMA PutLaid ==
    ASSUME NEW T, IsTable(T), Laid(T),
           NEW f \in DOMAIN T, f \notin UsedIn(T),
           NEW e \in Slots, e.state = "used", f \in Probed(T, Hash[e.key]),
           \A s \in UsedIn(T) : T[s].key # e.key /\ T[s].stamp # e.stamp
    PROVE  LET U == [T EXCEPT ![f] = e]
           IN  /\ IsTable(U) /\ SizeOf(U) = SizeOf(T) /\ Laid(U)
               /\ UsedIn(U) = UsedIn(T) \cup {f}
               /\ Cardinality(UsedIn(U)) = Cardinality(UsedIn(T)) + 1
               /\ Cardinality(UsedIn(T)) \in Nat
  <1> DEFINE U == [T EXCEPT ![f] = e]
  <1>1. /\ DOMAIN U = DOMAIN T /\ U[f] = e
        /\ \A s \in DOMAIN T : s # f => U[s] = T[s]
    BY DEF IsTable
  <1>2. SizeOf(U) = SizeOf(T)
    BY <1>1 DEF SizeOf
  <1>3. IsTable(U)
    BY <1>2 DEF IsTable
  <1>4. UsedIn(U) = UsedIn(T) \cup {f}
    BY <1>1 DEF UsedIn
  <1>5. \A h : Probed(T, h) \subseteq Probed(U, h)
    <2> SUFFICES ASSUME NEW h, NEW s \in Probed(T, h), NEW r \in DOMAIN U,
                        Steps(U, h, r) < Steps(U, h, s)
                 PROVE  U[r].state # "empty"
      BY <1>1 DEF Probed
    <2>1. Steps(T, h, r) < Steps(T, h, s)
      BY <1>2 DEF Steps
    <2>q. QED
      BY <1>1, <2>1 DEF Probed
  <1>6. Laid(U)
    <2>1. \A s \in UsedIn(U) : s \in Probed(U, Hash[U[s].key])
      BY <1>1, <1>4, <1>5 DEF Laid, UsedIn
    <2>2. ASSUME NEW r \in UsedIn(U), NEW s \in UsedIn(U), r # s
          PROVE  U[r].key # U[s].key /\ U[r].stamp # U[s].stamp
      BY <1>1, <1>4, <2>2 DEF Laid, UsedIn
    <2>q. QED
      BY <2>1, <2>2 DEF Laid
  <1>7. IsFiniteSet(UsedIn(T))
    BY Domain, FS_Subset DEF UsedIn
  <1>8. Cardinality(UsedIn(U)) = Cardinality(UsedIn(T)) + 1 /\ Cardinality(UsedIn(T)) \in Nat
    BY <1>4, <1>7, FS_AddElement, FS_CardinalityType
  <1>q. QED
    BY <1>2, <1>3, <1>4, <1>6, <1>8

\* In a table well laid out, a probe for a key meets its entry.
LEMMA ProbeFinds ==
    ASSUME Laid(slots), NEW k
    PROVE  Holding(k) = {s \in InUse : slots[s].key = k}
  BY DEF Laid, Holding, InUse, UsedIn

-----------------------------------------------------------------------------
(* Calls. *)

Called == {"call", "body", "probe"} \cup Storing

LEMMA Typed == ASSUME MemoInv PROVE MemoTypeOK
  BY MemoSetsAssumption, MemoSizesAssumption DEF MemoInv, TableInv, ThreadTypes, MemoTypeOK

\* A thread in a call has the key of it, and no other thread is in one.
LEMMA InCall ==
    ASSUME MemoInv, NEW t \in Threads, doing[t] # "out"
    PROVE  /\ stack[t] \in Seq(Keys) /\ Len(stack[t]) > 0 /\ Key(t) \in Keys
           /\ Hash[Key(t)] \in Nat
           /\ doing[t] \in Called /\ gil = t
           /\ \A u \in Threads : u # t => doing[u] = "out"
  <1>1. stack[t] \in Seq(Keys) /\ stack[t] # <<>>
    BY DEF MemoInv, ThreadTypes, Alone
  <1>2. Len(stack[t]) > 0 /\ Key(t) \in Keys
    BY <1>1 DEF Key, Last
  <1>3. Hash[Key(t)] \in Nat
    BY <1>2, MemoSetsAssumption
  <1>4. doing[t] \in Called
    BY DEF MemoInv, ThreadTypes, Called, Storing
  <1>5. gil = t /\ \A u \in Threads : u # t => doing[u] = "out"
    BY DEF MemoInv, Alone
  <1>q. QED
    BY <1>1, <1>2, <1>3, <1>4, <1>5

\* What is there to show of a step of one thread while the others are out.
LEMMA OneStep ==
    ASSUME NEW t \in Threads, TableInv', ThreadTypes',
           \A u \in Threads : u # t => doing'[u] = "out" /\ stack'[u] = <<>>,
           doing'[t] = "out" <=> stack'[t] = <<>>,
           doing'[t] # "out" => gil' = t,
           Stores(t)', Lays(t)'
    PROVE  MemoInv'
  <1>1. Alone'
    BY DEF Alone
  <1>2. ASSUME NEW u \in Threads PROVE Stores(u)' /\ Lays(u)'
    BY DEF Stores, Lays, Storing
  <1>q. QED
    BY <1>1, <1>2 DEF MemoInv

\* An answer leaves the call: the thread is out, or in the body that called.
LEMMA AnswerStep ==
    ASSUME MemoInv, NEW t \in Threads, doing[t] # "out", Answer(t), UNCHANGED <<layVars, uses>>,
           TableInv'
    PROVE  MemoInv'
  <1> USE InCall
  <1>1. /\ Front(stack[t]) \in Seq(Keys) /\ Len(Front(stack[t])) = Len(stack[t]) - 1
        /\ Len(stack[t]) = 1 <=> Front(stack[t]) = <<>>
    <2>1. stack[t] \in Seq(Keys) /\ Len(stack[t]) \in Nat /\ Len(stack[t]) > 0
      OBVIOUS
    <2>2. \A i \in 1 .. Len(stack[t]) - 1 : stack[t][i] \in Keys
      BY <2>1
    <2>3. SubSeq(stack[t], 1, Len(stack[t]) - 1) \in Seq(Keys)
      BY <2>1, <2>2, SubSeqProperties
    <2>4. Len(SubSeq(stack[t], 1, Len(stack[t]) - 1)) = Len(stack[t]) - 1
      BY <2>1, <2>2, SubSeqProperties
    <2>5. Front(stack[t]) = SubSeq(stack[t], 1, Len(stack[t]) - 1)
      BY DEF Front
    <2>6. Front(stack[t]) \in Seq(Keys) /\ Len(Front(stack[t])) = Len(stack[t]) - 1
      BY <2>3, <2>4, <2>5
    <2>7. Len(Front(stack[t])) = 0 <=> Front(stack[t]) = <<>>
      BY <2>6, EmptySeq
    <2>q. QED
      BY <2>1, <2>6, <2>7
  <1>2. doing'[t] \in {"out", "body"} /\ (doing'[t] = "out" <=> stack'[t] = <<>>)
    BY <1>1 DEF MemoInv, ThreadTypes, Answer, Go
  <1>3. ThreadTypes'
    <2>1. /\ gil' \in Threads \cup {None} /\ caller' \in [Threads -> Callers \cup {None}]
          /\ value' \in [Threads -> Values \cup {None}] /\ open' \in [Threads -> Int]
      BY DEF MemoInv, ThreadTypes, Answer
    <2>2. doing' \in [Threads -> {"out", "call", "body", "probe", "evict", "grow", "lay", "place"}]
      BY DEF MemoInv, ThreadTypes, Answer, Go
    <2>3. stack' \in [Threads -> Seq(Keys)]
      BY <1>1 DEF MemoInv, ThreadTypes, Answer
    <2>4. \A u \in Threads : Len(stack'[u]) <= MaxDepth
      BY <1>1, MemoSizesAssumption DEF MemoInv, ThreadTypes, Answer
    <2>5. /\ fresh' = [u \in Threads |-> fresh'[u]] /\ \A u \in Threads : IsTable(fresh'[u])
          /\ next' \in [Threads -> Nat] /\ uses' \in 0 .. MaxUses
      BY DEF MemoInv, ThreadTypes, layVars
    <2>q. QED
      BY <2>1, <2>2, <2>3, <2>4, <2>5 DEF ThreadTypes
  <1>4. \A u \in Threads : u # t => doing'[u] = "out" /\ stack'[u] = <<>>
    BY DEF MemoInv, ThreadTypes, Alone, Answer, Go
  <1>5. doing'[t] # "out" => gil' = t
    BY <1>1 DEF MemoInv, ThreadTypes, Answer, Go
  <1>6. Stores(t)' /\ Lays(t)'
    BY <1>2 DEF Stores, Lays, Storing
  <1>q. QED
    BY <1>2, <1>3, <1>4, <1>5, <1>6, OneStep

-----------------------------------------------------------------------------
(* The invariant, step by step. *)

\* The table as it was.
LEMMA TableKept == ASSUME TableInv, UNCHANGED <<tableVars, bound>> PROVE TableInv'
  <1>1. slots' = slots /\ used' = used /\ removed' = removed /\ stamp' = stamp /\ bound' = bound
    BY DEF tableVars
  <1>q. QED
    BY <1>1 DEF TableInv, IsTable, Size, SizeOf, InUse, UsedIn, Laid, Probed, Steps, CountsRight

LEMMA MemoInitially == MemoInit => MemoInv
  <1> SUFFICES ASSUME MemoInit PROVE MemoInv
    OBVIOUS
  <1> DEFINE blank == [s \in 0 .. Start - 1 |-> Empty]
  <1>1. Start \in Nat /\ Start > 0 /\ slots = blank /\ DOMAIN blank = 0 .. Start - 1
    BY MemoSizesAssumption DEF MemoInit
  <1>2. SizeOf(slots) = Start
    BY <1>1, Sized
  <1>3. IsTable(slots) /\ \A s \in DOMAIN slots : slots[s].state = "empty"
    BY <1>1, <1>2 DEF IsTable, Slots, Empty
  <1>4. InUse = {} /\ {s \in DOMAIN slots : slots[s].state = "removed"} = {}
    BY <1>3 DEF InUse, UsedIn
  <1>5. CountsRight
    <2>1. Cardinality({}) = 0
      BY FS_EmptySet
    <2>2. used = 0 /\ removed = 0
      BY DEF MemoInit
    <2>3. Cardinality(InUse) = 0 /\ Cardinality({s \in DOMAIN slots : slots[s].state = "removed"}) = 0
      BY <1>4, <2>1
    <2>q. QED
      BY <2>2, <2>3 DEF CountsRight
  <1>6. TableInv
    <2>1. Laid(slots) /\ bound \in Bounds /\ used = 0 /\ removed = 0 /\ stamp = 0
      BY <1>4 DEF Laid, InUse, MemoInit
    <2>q. QED
      BY <1>1, <1>2, <1>3, <1>4, <1>5, <2>1, MemoSetsAssumption DEF TableInv, Size
  <1>7. IsTable(NoSlots)
    <2>1. SizeOf(NoSlots) = 0 /\ DOMAIN NoSlots = {}
      BY FS_EmptySet DEF SizeOf, NoSlots
    <2>2. 0 .. 0 - 1 = {}
      OBVIOUS
    <2>q. QED
      BY <2>1, <2>2 DEF IsTable, NoSlots
  <1>8. ThreadTypes
    BY <1>7, EmptySeq, MemoSizesAssumption DEF ThreadTypes, MemoInit
  <1>9. Alone /\ \A t \in Threads : Stores(t) /\ Lays(t)
    BY DEF MemoInit, Alone, Stores, Lays, Storing
  <1>q. QED
    BY <1>6, <1>8, <1>9 DEF MemoInv

LEMMA EnterStep ==
    ASSUME MemoInv, NEW t \in Threads, NEW k \in Keys, "entry" \in Callers, Enter(t, "entry", k)
    PROVE  MemoInv'
  <1>1. doing[t] = "out" /\ gil = None
    BY DEF Enter
  <1>2. \A u \in Threads : doing[u] = "out" /\ stack[u] = <<>>
    BY <1>1, MemoSetsAssumption DEF MemoInv, Alone
  <1>3. TableInv'
    BY TableKept DEF MemoInv, Enter
  <1>4. ThreadTypes'
    <2>1. <<k>> \in Seq(Keys) /\ Len(<<k>>) = 1
      OBVIOUS
    <2>2. stack' \in [Threads -> Seq(Keys)] /\ \A u \in Threads : Len(stack'[u]) <= MaxDepth
      BY <2>1, MemoSizesAssumption DEF Enter, MemoInv, ThreadTypes
    <2>q. QED
      BY <2>2, MemoSizesAssumption DEF Enter, Go, MemoInv, ThreadTypes, layVars
  <1>5. /\ \A u \in Threads : u # t => doing'[u] = "out" /\ stack'[u] = <<>>
        /\ doing'[t] = "call" /\ stack'[t] # <<>> /\ gil' = t
    BY <1>2 DEF Enter, Go, MemoInv, ThreadTypes
  <1>6. Stores(t)' /\ Lays(t)'
    BY <1>5 DEF Stores, Lays, Storing
  <1>q. QED
    BY <1>3, <1>4, <1>5, <1>6, OneStep

\* A call that finds nothing, and the body's steps, change nothing of the table.
LEMMA MissStep ==
    ASSUME MemoInv, NEW t \in Threads, doing[t] = "call", Go(t, "body"),
           UNCHANGED <<tableVars, bound, gil, caller, stack, value, open, layVars, answered, uses>>
    PROVE  MemoInv'
  <1>1. TableInv'
    BY TableKept DEF MemoInv
  <1>2. ThreadTypes'
    BY DEF Go, MemoInv, ThreadTypes, layVars
  <1>3. /\ \A u \in Threads : u # t => doing'[u] = "out" /\ stack'[u] = <<>>
        /\ doing'[t] = "body" /\ stack'[t] # <<>> /\ gil' = t
    BY InCall DEF Go, MemoInv, ThreadTypes, Alone
  <1>4. Stores(t)' /\ Lays(t)'
    BY <1>3 DEF Stores, Lays, Storing
  <1>q. QED
    BY <1>1, <1>2, <1>3, <1>4, OneStep

LEMMA RecurseStep ==
    ASSUME MemoInv, NEW t \in Threads, NEW k \in Keys, Recurse(t, k)
    PROVE  MemoInv'
  <1>1. TableInv'
    BY TableKept DEF MemoInv, Recurse
  <1>2. Append(stack[t], k) \in Seq(Keys) /\ Len(Append(stack[t], k)) = Len(stack[t]) + 1
    BY DEF MemoInv, ThreadTypes
  <1>3. ThreadTypes'
    <2>1. stack' \in [Threads -> Seq(Keys)]
      BY <1>2 DEF Recurse, MemoInv, ThreadTypes
    <2>2. Len(stack[t]) \in Nat /\ \A u \in Threads : Len(stack'[u]) <= MaxDepth
      BY <1>2, MemoSizesAssumption DEF Recurse, MemoInv, ThreadTypes
    <2>q. QED
      BY <2>1, <2>2, MemoSizesAssumption DEF Recurse, Go, MemoInv, ThreadTypes, layVars
  <1>4. /\ \A u \in Threads : u # t => doing'[u] = "out" /\ stack'[u] = <<>>
        /\ doing'[t] = "call" /\ gil' = t
    BY InCall DEF Recurse, Go, MemoInv, ThreadTypes, Alone
  <1>5. stack'[t] # <<>>
    BY <1>2, EmptySeq DEF Recurse, MemoInv, ThreadTypes
  <1>6. Stores(t)' /\ Lays(t)'
    BY <1>4 DEF Stores, Lays, Storing
  <1>q. QED
    BY <1>1, <1>3, <1>4, <1>5, <1>6, OneStep

LEMMA ReturnStep ==
    ASSUME MemoInv, NEW t \in Threads, NEW v \in Values, Return(t, v)
    PROVE  MemoInv'
  <1>1. TableInv'
    BY TableKept DEF MemoInv, Return
  <1>2. ThreadTypes'
    BY DEF Return, Go, MemoInv, ThreadTypes, layVars
  <1>3. /\ \A u \in Threads : u # t => doing'[u] = "out" /\ stack'[u] = <<>>
        /\ doing'[t] = "probe" /\ stack'[t] # <<>> /\ gil' = t
    BY InCall DEF Return, Go, MemoInv, ThreadTypes, Alone
  <1>4. value'[t] = v
    BY DEF Return, MemoInv, ThreadTypes
  <1>5. Stores(t)' /\ Lays(t)'
    BY <1>3, <1>4 DEF Stores, Lays, Storing
  <1>q. QED
    BY <1>1, <1>2, <1>3, <1>5, OneStep

LEMMA FailStep ==
    ASSUME MemoInv, NEW t \in Threads, Fail(t)
    PROVE  MemoInv'
  <1>1. TableInv'
    BY TableKept DEF MemoInv, Fail
  <1>2. ThreadTypes'
    BY EmptySeq, MemoSizesAssumption DEF Fail, Go, MemoInv, ThreadTypes, layVars
  <1>3. /\ \A u \in Threads : u # t => doing'[u] = "out" /\ stack'[u] = <<>>
        /\ doing'[t] = "out" /\ stack'[t] = <<>>
    BY InCall DEF Fail, Go, MemoInv, ThreadTypes, Alone
  <1>4. Stores(t)' /\ Lays(t)'
    BY <1>3 DEF Stores, Lays, Storing
  <1>q. QED
    BY <1>1, <1>2, <1>3, <1>4, OneStep

-----------------------------------------------------------------------------
(* Steps that change the table. *)

\* There is room: a table within half its size has a slot neither used nor removed.
LEMMA RoomLeft ==
    ASSUME TableInv
    PROVE  /\ \E s \in DOMAIN slots : slots[s].state = "empty"
           /\ IsFiniteSet(InUse) /\ Cardinality(InUse) = used /\ InUse \subseteq DOMAIN slots
           /\ InUse # DOMAIN slots
  <1> DEFINE Removed == {s \in DOMAIN slots : slots[s].state = "removed"}
  <1>1. IsFiniteSet(DOMAIN slots) /\ Cardinality(DOMAIN slots) = Size /\ Size \in Nat
    BY Domain DEF TableInv, Size
  <1>2. InUse \subseteq DOMAIN slots /\ Removed \subseteq DOMAIN slots
    BY DEF InUse, UsedIn
  <1>3. /\ IsFiniteSet(InUse) /\ IsFiniteSet(Removed)
        /\ Cardinality(InUse) \in Nat /\ Cardinality(Removed) \in Nat
    BY <1>1, <1>2, FS_Subset, FS_CardinalityType
  <1>4. Cardinality(InUse) = used /\ Cardinality(Removed) <= removed
    BY <1>3 DEF TableInv, CountsRight
  <1>5. /\ IsFiniteSet(InUse \cup Removed) /\ Cardinality(InUse \cap Removed) \in Nat
        /\ Cardinality(InUse \cup Removed)
            = Cardinality(InUse) + Cardinality(Removed) - Cardinality(InUse \cap Removed)
    <2>1. IsFiniteSet(InUse \cap Removed)
      BY <1>3, FS_Subset
    <2>q. QED
      BY <1>3, <2>1, FS_Union, FS_CardinalityType
  <1>6. Cardinality(InUse \cup Removed) < Size
    BY <1>1, <1>3, <1>4, <1>5 DEF TableInv
  <1>7. InUse \cup Removed # DOMAIN slots
    BY <1>1, <1>6
  <1>8. PICK s \in DOMAIN slots : s \notin InUse \cup Removed
    BY <1>2, <1>7
  <1>9. slots[s].state = "empty"
    BY <1>8, Domain DEF InUse, UsedIn, TableInv, Slots
  <1>q. QED
    BY <1>2, <1>3, <1>4, <1>8, <1>9

\* Who is in a store that is about to begin finds where a key would go.
LEMMA StoreNewStep ==
    ASSUME MemoInv, NEW t \in Threads, StoreNew(t)
    PROVE  MemoInv'
  <1> DEFINE k == Key(t)
             f == FirstFree(slots, Hash[k])
  <1>1. /\ doing[t] = "probe" /\ bound # 0 /\ Holding(k) = {} /\ value[t] \in Values
        /\ Hash[k] \in Nat
    BY InCall DEF StoreNew, MemoInv, Stores
  <1>2. f \in DOMAIN slots /\ f \notin InUse /\ f \in Probed(slots, Hash[k]) /\ f \in Int
    <2>1. TableInv /\ IsTable(slots) /\ UsedIn(slots) # DOMAIN slots /\ InUse = UsedIn(slots)
      BY RoomLeft DEF MemoInv, TableInv, InUse
    <2>2. f \in DOMAIN slots /\ f \notin UsedIn(slots) /\ f \in Probed(slots, Hash[k])
      BY <1>1, <2>1, FreeFound
    <2>q. QED
      BY <2>1, <2>2, Domain
  <1>3. \A s \in InUse : slots[s].key # k
    BY <1>1, ProbeFinds DEF MemoInv, TableInv
  <1>4. TableInv'
    BY TableKept DEF MemoInv, StoreNew
  <1>5. ThreadTypes'
    BY <1>2 DEF StoreNew, Go, MemoInv, ThreadTypes, layVars
  <1>6. /\ \A u \in Threads : u # t => doing'[u] = "out" /\ stack'[u] = <<>>
        /\ doing'[t] = IF bound > 0 /\ used >= bound THEN "evict" ELSE "grow"
        /\ stack'[t] # <<>> /\ gil' = t
    BY <1>1, InCall DEF StoreNew, Go, MemoInv, ThreadTypes, Alone
  <1>7. Stores(t)'
    <2>1. slots' = slots /\ used' = used /\ bound' = bound /\ stack' = stack /\ value' = value
      BY DEF StoreNew, tableVars
    <2>2. open'[t] = f
      BY <1>2 DEF StoreNew, MemoInv, ThreadTypes
    <2>3. Key(t)' = k /\ InUse' = InUse
      BY <2>1 DEF Key, InUse
    <2>4. Probed(slots, Hash[Key(t)])' = Probed(slots, Hash[k])
      BY <2>1, <2>3
    <2>5. bound > 0 => IF doing'[t] = "evict" THEN used = bound ELSE used < bound
      BY <1>6, MemoSetsAssumption DEF MemoInv, TableInv
    <2>6. doing'[t] = "evict" => bound > 0
      BY <1>6
    <2>q. QED
      BY <1>1, <1>2, <1>3, <1>6, <2>1, <2>2, <2>3, <2>4, <2>5, <2>6 DEF Stores, Storing
  <1>8. Lays(t)'
    BY <1>6 DEF Lays
  <1>q. QED
    BY <1>4, <1>5, <1>6, <1>7, <1>8, OneStep

\* A use of an entry, or another value of it, moves nothing.
LEMMA TouchKeeps ==
    ASSUME TableInv, NEW s \in InUse, NEW e \in Slots, e.state = "used", e.key = slots[s].key,
           e.value \in Values,
           slots' = [slots EXCEPT ![s] = e],
           \/ e.stamp = slots[s].stamp /\ stamp' = stamp
           \/ e.stamp = stamp + 1 /\ stamp' = stamp + 1,
           UNCHANGED <<used, removed, bound>>
    PROVE  TableInv' /\ InUse' = InUse
  <1>1. /\ DOMAIN slots' = DOMAIN slots /\ slots'[s] = e
        /\ \A r \in DOMAIN slots : r # s => slots'[r] = slots[r]
    BY DEF TableInv, IsTable, InUse, UsedIn
  <1>2. \A r \in DOMAIN slots : slots'[r].state = slots[r].state /\ slots'[r].key = slots[r].key
    BY <1>1 DEF InUse, UsedIn
  <1>3. InUse' = InUse /\ Size' = Size /\ SizeOf(slots') = SizeOf(slots)
    BY <1>1, <1>2 DEF InUse, UsedIn, Size, SizeOf
  <1>4. IsTable(slots')
    BY <1>1, <1>3 DEF IsTable, TableInv
  <1>5. /\ stamp \in Nat /\ stamp' \in Nat /\ stamp <= stamp'
        /\ \A r \in InUse : slots[r].stamp \in Nat /\ slots[r].stamp <= stamp
    BY Domain DEF TableInv, InUse, UsedIn, Slots
  <1>6. \A r \in InUse' :
            slots'[r].stamp <= stamp' /\ slots'[r].key \in Keys /\ slots'[r].value \in Values
    <2> SUFFICES ASSUME NEW r \in InUse
                 PROVE  slots'[r].stamp <= stamp' /\ slots'[r].key \in Keys
                        /\ slots'[r].value \in Values
      BY <1>3
    <2>1. CASE r = s
      BY <1>1, <1>5, <2>1 DEF TableInv
    <2>2. CASE r # s
      BY <1>1, <1>5, <2>2 DEF TableInv, InUse, UsedIn
    <2>q. QED
      BY <2>1, <2>2
  <1>7. \A h : Probed(slots', h) = Probed(slots, h)
    BY <1>1, <1>2, <1>3 DEF Probed, Steps
  <1>8. Laid(slots)'
    <2>1. \A r \in InUse : r \in Probed(slots', Hash[slots'[r].key])
      BY <1>2, <1>7 DEF TableInv, Laid, InUse, UsedIn
    <2>2. ASSUME NEW r \in InUse, r # s
          PROVE  slots'[r].key # slots'[s].key /\ slots'[r].stamp # slots'[s].stamp
      BY <1>1, <1>5, <2>2 DEF TableInv, Laid, InUse, UsedIn
    <2>3. ASSUME NEW r \in InUse, NEW q \in InUse, r # q
          PROVE  slots'[r].key # slots'[q].key /\ slots'[r].stamp # slots'[q].stamp
      <3>1. CASE r # s /\ q # s
        BY <1>1, <2>3, <3>1 DEF TableInv, Laid, InUse, UsedIn
      <3>q. QED
        BY <2>2, <2>3, <3>1
    <2>q. QED
      BY <1>3, <2>1, <2>3 DEF Laid, InUse
  <1>9. CountsRight'
    <2>1. {r \in DOMAIN slots' : slots'[r].state = "removed"}
            = {r \in DOMAIN slots : slots[r].state = "removed"}
      BY <1>1, <1>2
    <2>q. QED
      BY <1>3, <2>1 DEF CountsRight, TableInv
  <1>q. QED
    BY <1>3, <1>4, <1>5, <1>6, <1>8, <1>9 DEF TableInv

LEMMA UseKeeps ==
    ASSUME TableInv, NEW s \in InUse, slots' = Used(slots, s), stamp' = Counted,
           UNCHANGED <<used, removed, bound>>
    PROVE  TableInv' /\ InUse' = InUse
  <1>1. slots \in [DOMAIN slots -> Slots] /\ s \in DOMAIN slots /\ slots[s].state = "used"
        /\ slots[s].value \in Values /\ stamp \in Nat
    BY DEF TableInv, IsTable, InUse, UsedIn
  <1>2. CASE bound > 0
    <2> DEFINE e == [slots[s] EXCEPT !.stamp = stamp + 1]
    <2>1. /\ e \in Slots /\ e.state = "used" /\ e.key = slots[s].key /\ e.value \in Values
          /\ e.stamp = stamp + 1
      BY <1>1 DEF Slots
    <2>2. slots' = [slots EXCEPT ![s] = e] /\ stamp' = stamp + 1
      BY <1>2 DEF Used, Counted
    <2> HIDE DEF e
    <2>q. QED
      BY <2>1, <2>2, TouchKeeps
  <1>3. CASE ~(bound > 0)
    <2>1. slots' = [slots EXCEPT ![s] = slots[s]] /\ stamp' = stamp
      BY <1>1, <1>3 DEF Used, Counted
    <2>2. slots[s] \in Slots
      BY <1>1
    <2>q. QED
      BY <1>1, <2>1, <2>2, TouchKeeps
  <1>q. QED
    BY <1>2, <1>3

LEMMA LookupStep ==
    ASSUME MemoInv, NEW t \in Threads, Lookup(t)
    PROVE  MemoInv'
  <1> DEFINE found == IF used = 0 \/ Key(t) \in NaNKeys THEN {} ELSE Holding(Key(t))
  <1>1. CASE /\ doing[t] = "call" /\ Go(t, "body")
             /\ UNCHANGED <<tableVars, bound, gil, caller, stack, value, open, layVars,
                            answered, uses>>
    BY <1>1, MissStep
  <1>2. CASE \E s \in found :
                /\ doing[t] = "call"
                /\ slots' = Used(slots, s) /\ stamp' = Counted /\ Answer(t)
                /\ UNCHANGED <<used, removed, bound, layVars, uses>>
    <2>1. PICK s \in InUse :
                /\ doing[t] = "call"
                /\ slots' = Used(slots, s) /\ stamp' = Counted /\ Answer(t)
                /\ UNCHANGED <<used, removed, bound, layVars, uses>>
      BY <1>2 DEF Holding
    <2>2. TableInv'
      BY <2>1, UseKeeps DEF MemoInv
    <2>q. QED
      BY <2>1, <2>2, AnswerStep
  <1>q. QED
    BY <1>1, <1>2 DEF Lookup

LEMMA IgnoreStep ==
    ASSUME MemoInv, NEW t \in Threads, Ignore(t)
    PROVE  MemoInv'
  <1>1. TableInv'
    BY TableKept DEF MemoInv, Ignore
  <1>q. QED
    BY <1>1, AnswerStep DEF Ignore

LEMMA StoreAgainStep ==
    ASSUME MemoInv, NEW t \in Threads, StoreAgain(t)
    PROVE  MemoInv'
  <1>1. PICK s \in InUse :
            /\ slots' = IF bound > 0 THEN Used(slots, s) ELSE [slots EXCEPT ![s].value = value[t]]
            /\ stamp' = Counted
    BY DEF StoreAgain, Holding
  <1>2. /\ doing[t] = "probe" /\ value[t] \in Values /\ TableInv
        /\ UNCHANGED <<used, removed, bound, layVars, uses>> /\ Answer(t)
    BY DEF StoreAgain, MemoInv, Stores
  <1>3. TableInv'
    <2>1. CASE bound > 0
      BY <1>1, <1>2, <2>1, UseKeeps
    <2>2. CASE ~(bound > 0)
      <3> DEFINE e == [slots[s] EXCEPT !.value = value[t]]
      <3>1. slots \in [DOMAIN slots -> Slots] /\ s \in DOMAIN slots /\ slots[s].state = "used"
        BY <1>2 DEF TableInv, IsTable, InUse, UsedIn
      <3>2. /\ e \in Slots /\ e.state = "used" /\ e.key = slots[s].key /\ e.value \in Values
            /\ e.stamp = slots[s].stamp
        BY <1>2, <3>1 DEF Slots
      <3>3. slots' = [slots EXCEPT ![s] = e] /\ stamp' = stamp
        BY <1>1, <2>2 DEF Counted
      <3> HIDE DEF e
      <3>q. QED
        BY <1>2, <3>2, <3>3, TouchKeeps
    <2>q. QED
      BY <2>1, <2>2
  <1>q. QED
    BY <1>2, <1>3, AnswerStep

\* The entry that leaves makes no probe end earlier.
LEMMA RemoveKeeps ==
    ASSUME TableInv, NEW s \in InUse, slots' = [slots EXCEPT ![s].state = "removed"],
           used' = used - 1, removed' = removed + 1, UNCHANGED <<stamp, bound>>
    PROVE  /\ TableInv' /\ InUse' = InUse \ {s} /\ Size' = Size
           /\ \A h : Probed(slots, h) \subseteq Probed(slots', h)
           /\ \A r \in InUse' : slots'[r] = slots[r]
  <1> DEFINE Removed == {r \in DOMAIN slots : slots[r].state = "removed"}
             Removed2 == {r \in DOMAIN slots' : slots'[r].state = "removed"}
  <1>1. slots \in [DOMAIN slots -> Slots] /\ s \in DOMAIN slots /\ slots[s].state = "used"
    BY DEF TableInv, IsTable, InUse, UsedIn
  <1>2. /\ DOMAIN slots' = DOMAIN slots
        /\ slots'[s] \in Slots /\ slots'[s].state = "removed"
        /\ \A r \in DOMAIN slots : r # s => slots'[r] = slots[r]
    BY <1>1 DEF Slots
  <1>3. InUse' = InUse \ {s} /\ Size' = Size /\ SizeOf(slots') = SizeOf(slots)
    BY <1>2 DEF InUse, UsedIn, Size, SizeOf
  <1>4. Removed2 = Removed \cup {s} /\ s \notin Removed
    BY <1>1, <1>2
  <1>5. IsTable(slots')
    BY <1>1, <1>2, <1>3 DEF IsTable, TableInv
  <1>6. \A h : Probed(slots, h) \subseteq Probed(slots', h)
    <2> SUFFICES ASSUME NEW h, NEW r \in Probed(slots, h), NEW q \in DOMAIN slots,
                        Steps(slots', h, q) < Steps(slots', h, r)
                 PROVE  slots'[q].state # "empty"
      BY <1>2 DEF Probed
    <2>1. Steps(slots, h, q) < Steps(slots, h, r)
      BY <1>3 DEF Steps
    <2>q. QED
      BY <1>2, <2>1 DEF Probed
  <1>7. \A r \in InUse' : slots'[r] = slots[r]
    BY <1>2, <1>3 DEF InUse, UsedIn
  <1>8. Laid(slots)'
    <2>1. \A r \in InUse' : r \in Probed(slots', Hash[slots'[r].key])
      <3> SUFFICES ASSUME NEW r \in InUse'
                   PROVE  r \in Probed(slots', Hash[slots'[r].key])
        OBVIOUS
      <3>1. r \in InUse /\ slots'[r] = slots[r] /\ r \in Probed(slots, Hash[slots[r].key])
        BY <1>3, <1>7 DEF TableInv, Laid, InUse
      <3>q. QED
        BY <1>6, <3>1
    <2>2. \A r, q \in InUse' :
            r # q => slots'[r].key # slots'[q].key /\ slots'[r].stamp # slots'[q].stamp
      BY <1>3, <1>7 DEF TableInv, Laid, InUse
    <2>q. QED
      BY <2>1, <2>2 DEF Laid, InUse
  <1>9. CountsRight' /\ used' \in Nat /\ removed' \in Nat
    <2>1. IsFiniteSet(InUse) /\ IsFiniteSet(Removed)
      BY Domain, FS_Subset DEF TableInv, InUse, UsedIn
    <2>2. Cardinality(InUse \ {s}) = Cardinality(InUse) - 1 /\ Cardinality(InUse) \in Nat
          /\ Cardinality(InUse \ {s}) \in Nat
      BY <2>1, FS_RemoveElement, FS_CardinalityType
    <2>3. Cardinality(Removed \cup {s}) = Cardinality(Removed) + 1 /\ Cardinality(Removed) \in Nat
      BY <1>4, <2>1, FS_AddElement, FS_CardinalityType
    <2>4. used = Cardinality(InUse) /\ removed >= Cardinality(Removed)
          /\ used \in Nat /\ removed \in Nat
      BY DEF TableInv, CountsRight
    <2>5. used' = Cardinality(InUse') /\ removed' >= Cardinality(Removed2)
      <3>1. Cardinality(InUse') = Cardinality(InUse) - 1
        BY <1>3, <2>2
      <3>2. Cardinality(Removed2) = Cardinality(Removed) + 1
        BY <1>4, <2>3
      <3> HIDE DEF Removed, Removed2
      <3>q. QED
        BY <2>2, <2>3, <2>4, <3>1, <3>2
    <2>6. used' \in Nat /\ removed' \in Nat
      BY <1>3, <2>2, <2>4, <2>5
    <2>q. QED
      BY <2>5, <2>6 DEF CountsRight
  <1>10. \A r \in InUse' :
            slots'[r].stamp <= stamp' /\ slots'[r].key \in Keys /\ slots'[r].value \in Values
    BY <1>3, <1>7 DEF TableInv
  <1>11. 2 * (used' + removed') <= Size' /\ (bound' > 0 => used' <= bound')
    BY <1>3, MemoSetsAssumption DEF TableInv
  <1>q. QED
    BY <1>3, <1>5, <1>6, <1>7, <1>8, <1>9, <1>10, <1>11 DEF TableInv

LEMMA EvictStep ==
    ASSUME MemoInv, NEW t \in Threads, Evict(t)
    PROVE  MemoInv'
  <1>1. PICK s \in InUse : slots' = [slots EXCEPT ![s].state = "removed"]
                           /\ used' = used - 1 /\ removed' = removed + 1
    BY DEF Evict
  <1>2. /\ doing[t] = "evict" /\ stamp' = stamp /\ bound' = bound /\ stack' = stack
        /\ open' = open /\ value' = value
    BY DEF Evict
  <1>3. /\ TableInv' /\ InUse' = InUse \ {s} /\ Size' = Size
        /\ \A h : Probed(slots, h) \subseteq Probed(slots', h)
        /\ \A r \in InUse' : slots'[r] = slots[r]
    BY <1>1, <1>2, RemoveKeeps DEF MemoInv
  <1>4. ThreadTypes'
    BY DEF Evict, Go, MemoInv, ThreadTypes, layVars
  <1>5. /\ \A u \in Threads : u # t => doing'[u] = "out" /\ stack'[u] = <<>>
        /\ doing'[t] = "grow" /\ stack'[t] # <<>> /\ gil' = t
    BY <1>2, InCall DEF Evict, Go, MemoInv, ThreadTypes, Alone
  <1>6. Stores(t)'
    <2>1. /\ bound > 0 /\ used = bound /\ value[t] \in Values
          /\ \A r \in InUse : slots[r].key # Key(t)
          /\ open[t] \in Probed(slots, Hash[Key(t)]) /\ open[t] \notin InUse
      BY <1>2 DEF MemoInv, Stores, Storing
    <2>2. Key(t)' = Key(t)
      BY <1>2 DEF Key
    <2>3. open[t] \in Probed(slots', Hash[Key(t)])
      BY <1>3, <2>1
    <2>4. used' < bound'
      BY <1>1, <1>2, <2>1 DEF MemoInv, TableInv
    <2>q. QED
      BY <1>2, <1>3, <1>5, <2>1, <2>2, <2>3, <2>4 DEF Stores, Storing
  <1>7. Lays(t)'
    BY <1>5 DEF Lays
  <1>q. QED
    BY <1>3, <1>4, <1>5, <1>6, <1>7, OneStep

-----------------------------------------------------------------------------
(* The table laid out again. *)

\* The fresh table has room for all entries and the new one twice over.
LEMMA NewSizeHasRoom ==
    ASSUME TableInv
    PROVE  NewSize \in Nat /\ 2 * (used + 1) <= NewSize
  BY Domain DEF TableInv, NewSize, Size

LEMMA GrowStep ==
    ASSUME MemoInv, NEW t \in Threads, Grow(t)
    PROVE  MemoInv'
  <1>1. /\ doing[t] = "grow" /\ slots' = slots /\ used' = used /\ removed' = removed
        /\ stamp' = stamp /\ bound' = bound /\ stack' = stack /\ open' = open /\ value' = value
    BY DEF Grow, tableVars
  <1>2. TableInv'
    BY TableKept DEF MemoInv, Grow
  <1>3. doing' = [doing EXCEPT ![t] = IF Crowded THEN "lay" ELSE "place"]
    BY DEF Grow, Go
  <1>4. /\ \A u \in Threads : u # t => doing'[u] = "out" /\ stack'[u] = <<>>
        /\ doing'[t] = (IF Crowded THEN "lay" ELSE "place") /\ stack'[t] # <<>> /\ gil' = t
    BY <1>1, <1>3, InCall DEF Grow, MemoInv, ThreadTypes, Alone
  <1>5. Stores(t)'
    <2>1. Key(t)' = Key(t) /\ InUse' = InUse /\ Crowded' = Crowded
      BY <1>1 DEF Key, InUse, Crowded, Size
    <2>2. Probed(slots, Hash[Key(t)])' = Probed(slots, Hash[Key(t)])
      BY <1>1, <2>1
    <2>q. QED
      BY <1>1, <1>4, <2>1, <2>2 DEF MemoInv, Stores, Storing
  <1>6. CASE ~Crowded
    <2>1. fresh' = fresh /\ next' = next
      BY <1>6 DEF Grow, layVars
    <2>2. ThreadTypes'
      BY <1>1, <1>3, <1>6, <2>1 DEF Grow, MemoInv, ThreadTypes
    <2>3. Lays(t)'
      BY <1>4, <1>6 DEF Lays
    <2>q. QED
      BY <1>2, <1>4, <1>5, <2>2, <2>3, OneStep
  <1>7. CASE Crowded
    <2> DEFINE blank == [s \in 0 .. NewSize - 1 |-> Empty]
    <2>1. fresh' = [fresh EXCEPT ![t] = blank] /\ next' = [next EXCEPT ![t] = 0]
      BY <1>7 DEF Grow
    <2>2. NewSize \in Nat /\ 2 * (used + 1) <= NewSize
      BY NewSizeHasRoom DEF MemoInv
    <2>3. SizeOf(blank) = NewSize
      BY <2>2, Sized
    <2>4. IsTable(blank)
      BY <2>2, <2>3 DEF IsTable, Empty, Slots
    <2>5. UsedIn(blank) = {} /\ \A s \in DOMAIN blank : blank[s].state # "removed"
      BY DEF UsedIn, Empty
    <2> HIDE DEF blank
    <2>6. ThreadTypes'
      <3>1. fresh' = [u \in Threads |-> fresh'[u]] /\ \A u \in Threads : IsTable(fresh'[u])
        BY <2>1, <2>4 DEF MemoInv, ThreadTypes
      <3>2. next' \in [Threads -> Nat]
        BY <2>1 DEF MemoInv, ThreadTypes
      <3>q. QED
        BY <1>1, <1>3, <3>1, <3>2 DEF Grow, MemoInv, ThreadTypes
    <2>7. fresh'[t] = blank /\ next'[t] = 0
      BY <2>1 DEF MemoInv, ThreadTypes
    <2>8. Moved(t)' = {}
      <3>1. \A s \in InUse' : s \in Nat
        BY <1>1, Domain DEF MemoInv, TableInv, InUse, UsedIn
      <3>q. QED
        BY <2>7, <3>1 DEF Moved
    <2>9. Lays(t)'
      <3>1. Laid(fresh[t])' /\ \A s \in DOMAIN fresh'[t] : fresh'[t][s].state # "removed"
        BY <2>5, <2>7 DEF Laid
      <3>2. /\ EntriesIn(fresh[t], UsedIn(fresh[t]))' = EntriesIn(slots, Moved(t))'
            /\ Cardinality(UsedIn(fresh[t]))' = Cardinality(Moved(t))'
        BY <2>5, <2>7, <2>8 DEF EntriesIn
      <3>3. next'[t] <= Size' /\ 2 * (used' + 1) <= SizeOf(fresh'[t])
        BY <1>1, <1>2, <2>2, <2>3, <2>7, Domain DEF TableInv, Size
      <3>q. QED
        BY <3>1, <3>2, <3>3 DEF Lays
    <2>q. QED
      BY <1>2, <1>4, <1>5, <2>6, <2>9, OneStep
  <1>q. QED
    BY <1>6, <1>7

\* What a table being laid out is, spelled out.
LEMMA Laying ==
    ASSUME MemoInv, NEW t \in Threads, doing[t] = "lay"
    PROVE  /\ next[t] \in Nat /\ next[t] <= Size /\ Size \in Nat /\ used \in Nat
           /\ IsTable(fresh[t]) /\ Laid(fresh[t])
           /\ 2 * (used + 1) <= SizeOf(fresh[t]) /\ SizeOf(fresh[t]) \in Nat
           /\ \A s \in DOMAIN fresh[t] : fresh[t][s].state # "removed"
           /\ \A s \in UsedIn(fresh[t]) : \E r \in Moved(t) : fresh[t][s] = slots[r]
           /\ \A r \in Moved(t) : \E s \in UsedIn(fresh[t]) : fresh[t][s] = slots[r]
           /\ IsFiniteSet(Moved(t)) /\ Moved(t) \subseteq InUse
           /\ Cardinality(UsedIn(fresh[t])) = Cardinality(Moved(t))
           /\ UsedIn(fresh[t]) # DOMAIN fresh[t]
  <1>1. Lays(t) /\ IsTable(fresh[t]) /\ next[t] \in Nat /\ TableInv
    BY DEF MemoInv, ThreadTypes
  <1>2. IsFiniteSet(InUse) /\ Cardinality(InUse) = used
    BY <1>1, RoomLeft
  <1>3. Moved(t) \subseteq InUse
    BY DEF Moved
  <1>4. IsFiniteSet(Moved(t)) /\ Cardinality(Moved(t)) <= used /\ Cardinality(Moved(t)) \in Nat
    BY <1>2, <1>3, FS_Subset, FS_CardinalityType
  <1>5. /\ \A s \in UsedIn(fresh[t]) : \E r \in Moved(t) : fresh[t][s] = slots[r]
        /\ \A r \in Moved(t) : \E s \in UsedIn(fresh[t]) : fresh[t][s] = slots[r]
    <2> DEFINE E == EntriesIn(fresh[t], UsedIn(fresh[t]))
               F == EntriesIn(slots, Moved(t))
    <2>1. E = F
      BY <1>1 DEF Lays
    <2>2. \A s \in UsedIn(fresh[t]) : fresh[t][s] \in E
      BY DEF EntriesIn
    <2>3. \A r \in Moved(t) : slots[r] \in F
      BY DEF EntriesIn
    <2>4. /\ \A x \in F : \E r \in Moved(t) : x = slots[r]
          /\ \A x \in E : \E s \in UsedIn(fresh[t]) : x = fresh[t][s]
      BY DEF EntriesIn
    <2> HIDE DEF E, F
    <2>q. QED
      BY <2>1, <2>2, <2>3, <2>4
  <1>6. SizeOf(fresh[t]) \in Nat /\ Cardinality(DOMAIN fresh[t]) = SizeOf(fresh[t]) /\ Size \in Nat
    BY <1>1, Domain DEF TableInv, Size
  <1>7. used \in Nat /\ 2 * (used + 1) <= SizeOf(fresh[t])
        /\ Cardinality(UsedIn(fresh[t])) = Cardinality(Moved(t))
    BY <1>1 DEF Lays, TableInv
  <1>8. UsedIn(fresh[t]) # DOMAIN fresh[t]
    BY <1>4, <1>6, <1>7
  <1>q. QED
    BY <1>1, <1>3, <1>4, <1>5, <1>6, <1>7, <1>8 DEF Lays

LEMMA LayOutStep ==
    ASSUME MemoInv, NEW t \in Threads, LayOut(t)
    PROVE  MemoInv'
  <1> DEFINE T == fresh[t]
             n == next[t]
             e == slots[n]
             f == FirstFree(T, Hash[e.key])
             U == [T EXCEPT ![f] = e]
  <1>1. /\ doing[t] = "lay" /\ n < Size /\ next' = [next EXCEPT ![t] = n + 1]
        /\ slots' = slots /\ used' = used /\ removed' = removed /\ stamp' = stamp /\ bound' = bound
        /\ gil' = gil /\ caller' = caller /\ stack' = stack /\ doing' = doing
        /\ value' = value /\ open' = open /\ uses' = uses
    BY DEF LayOut, tableVars
  <1>2. /\ n \in Nat /\ Size \in Nat /\ used \in Nat
        /\ IsTable(T) /\ Laid(T)
        /\ 2 * (used + 1) <= SizeOf(T) /\ SizeOf(T) \in Nat
        /\ \A s \in DOMAIN T : T[s].state # "removed"
        /\ \A s \in UsedIn(T) : \E r \in Moved(t) : T[s] = slots[r]
        /\ \A r \in Moved(t) : \E s \in UsedIn(T) : T[s] = slots[r]
        /\ IsFiniteSet(Moved(t)) /\ Moved(t) \subseteq InUse
        /\ Cardinality(UsedIn(T)) = Cardinality(Moved(t))
        /\ UsedIn(T) # DOMAIN T
    BY <1>1, Laying
  <1>3. TableInv /\ DOMAIN slots = 0 .. Size - 1 /\ n \in DOMAIN slots /\ e \in Slots
    BY <1>1, <1>2, Domain DEF MemoInv, TableInv, Size
  <1>4. next'[t] = n + 1 /\ n + 1 <= Size /\ InUse' = InUse /\ Size' = Size
    BY <1>1, <1>2 DEF MemoInv, ThreadTypes, InUse, Size
  <1>5. TableInv'
    BY <1>1, TableKept DEF MemoInv, tableVars
  <1>6. /\ \A u \in Threads : u # t => doing'[u] = "out" /\ stack'[u] = <<>>
        /\ doing'[t] = "lay" /\ stack'[t] # <<>> /\ gil' = t
    BY <1>1, InCall DEF MemoInv, ThreadTypes, Alone
  <1>7. Stores(t)'
    BY <1>1, <1>4 DEF MemoInv, Stores, Storing, Key, Crowded
  <1>8. CASE e.state = "used"
    <2>1. fresh' = [fresh EXCEPT ![t] = U]
      BY <1>8 DEF LayOut
    <2>2. n \in InUse /\ n \notin Moved(t) /\ e.key \in Keys /\ Hash[e.key] \in Nat
      BY <1>2, <1>3, <1>8, MemoSetsAssumption DEF InUse, UsedIn, Moved, TableInv
    <2>3. f \in DOMAIN T /\ f \notin UsedIn(T) /\ f \in Probed(T, Hash[e.key])
      BY <1>2, <2>2, FreeFound
    <2>4. \A s \in UsedIn(T) : T[s].key # e.key /\ T[s].stamp # e.stamp
      <3> SUFFICES ASSUME NEW s \in UsedIn(T)
                   PROVE  T[s].key # e.key /\ T[s].stamp # e.stamp
        OBVIOUS
      <3>1. PICK r \in Moved(t) : T[s] = slots[r]
        BY <1>2
      <3>2. r \in InUse /\ r # n
        BY <1>2, <2>2
      <3>q. QED
        BY <1>3, <2>2, <3>1, <3>2 DEF TableInv, Laid, InUse
    <2>5. /\ IsTable(U) /\ SizeOf(U) = SizeOf(T) /\ Laid(U)
          /\ UsedIn(U) = UsedIn(T) \cup {f}
          /\ Cardinality(UsedIn(U)) = Cardinality(UsedIn(T)) + 1
      BY <1>2, <1>3, <1>8, <2>3, <2>4, PutLaid
    <2>6. DOMAIN U = DOMAIN T /\ U[f] = e /\ \A s \in DOMAIN T : s # f => U[s] = T[s]
      BY <1>2, <2>3 DEF IsTable
    <2>7. \A s \in DOMAIN U : U[s].state # "removed"
      BY <1>2, <1>8, <2>6
    <2>8. fresh'[t] = U
      BY <2>1 DEF MemoInv, ThreadTypes
    <2> HIDE DEF U, f
    <2>9. Moved(t)' = Moved(t) \cup {n}
      <3>1. \A s \in InUse : s \in Int
        BY <1>3 DEF InUse, UsedIn
      <3>q. QED
        BY <1>2, <1>4, <2>2, <3>1 DEF Moved
    <2>10. Cardinality(Moved(t)') = Cardinality(Moved(t)) + 1
      <3>1. Cardinality(Moved(t) \cup {n}) = Cardinality(Moved(t)) + 1
        BY <1>2, <2>2, FS_AddElement
      <3>q. QED
        BY <2>9, <3>1
    <2>11. EntriesIn(U, UsedIn(U)) = EntriesIn(slots, Moved(t)')
      <3>1. ASSUME NEW s \in UsedIn(U) PROVE \E r \in Moved(t)' : U[s] = slots[r]
        BY <1>2, <2>5, <2>6, <2>9 DEF UsedIn
      <3>2. ASSUME NEW r \in Moved(t)' PROVE \E s \in UsedIn(U) : U[s] = slots[r]
        <4>1. CASE r = n
          BY <2>5, <2>6, <4>1
        <4>2. CASE r # n
          <5>1. PICK s \in UsedIn(T) : T[s] = slots[r]
            BY <1>2, <2>9, <4>2
          <5>q. QED
            BY <2>3, <2>5, <2>6, <5>1 DEF UsedIn
        <4>q. QED
          BY <4>1, <4>2
      <3>q. QED
        BY <3>1, <3>2 DEF EntriesIn
    <2>12. Lays(t)'
      <3>1. EntriesIn(fresh[t], UsedIn(fresh[t]))' = EntriesIn(slots, Moved(t))'
        BY <1>1, <2>8, <2>11 DEF EntriesIn
      <3>2. Cardinality(UsedIn(fresh[t]))' = Cardinality(Moved(t))'
        BY <1>2, <2>5, <2>8, <2>10
      <3>q. QED
        BY <1>1, <1>2, <1>4, <2>5, <2>7, <2>8, <3>1, <3>2 DEF Lays
    <2>13. ThreadTypes'
      <3>1. fresh' = [u \in Threads |-> fresh'[u]] /\ \A u \in Threads : IsTable(fresh'[u])
        BY <2>1, <2>5 DEF MemoInv, ThreadTypes
      <3>2. next' \in [Threads -> Nat]
        BY <1>1, <1>2 DEF MemoInv, ThreadTypes
      <3>q. QED
        BY <1>1, <3>1, <3>2 DEF MemoInv, ThreadTypes
    <2>q. QED
      BY <1>5, <1>6, <1>7, <2>12, <2>13, OneStep
  <1>9. CASE e.state # "used"
    <2>1. fresh' = fresh
      BY <1>9 DEF LayOut
    <2>2. Moved(t)' = Moved(t)
      <3>1. \A s \in InUse : s \in Int
        BY <1>3 DEF InUse, UsedIn
      <3>2. n \notin InUse
        BY <1>9 DEF InUse, UsedIn
      <3>q. QED
        BY <1>2, <1>4, <3>1, <3>2 DEF Moved
    <2>3. Lays(t)'
      <3>1. Lays(t)
        BY DEF MemoInv
      <3>q. QED
        BY <1>1, <1>4, <2>1, <2>2, <3>1 DEF Lays
    <2>4. ThreadTypes'
      <3>1. next' \in [Threads -> Nat]
        BY <1>1, <1>2 DEF MemoInv, ThreadTypes
      <3>q. QED
        BY <1>1, <2>1, <3>1 DEF MemoInv, ThreadTypes
    <2>q. QED
      BY <1>5, <1>6, <1>7, <2>3, <2>4, OneStep
  <1>q. QED
    BY <1>8, <1>9

LEMMA SwapStep ==
    ASSUME MemoInv, NEW t \in Threads, Swap(t)
    PROVE  MemoInv'
  <1> DEFINE T == fresh[t]
             k == Key(t)
             f == FirstFree(T, Hash[k])
  <1>1. /\ doing[t] = "lay" /\ next[t] >= Size /\ slots' = T /\ removed' = 0
        /\ fresh' = [fresh EXCEPT ![t] = NoSlots] /\ next' = [next EXCEPT ![t] = 0]
        /\ open' = [open EXCEPT ![t] = f] /\ doing' = [doing EXCEPT ![t] = "place"]
        /\ used' = used /\ stamp' = stamp /\ bound' = bound /\ gil' = gil /\ caller' = caller
        /\ stack' = stack /\ value' = value /\ uses' = uses
    BY DEF Swap, LaidOut, Go
  <1>2. /\ next[t] \in Nat /\ next[t] <= Size /\ Size \in Nat /\ used \in Nat
        /\ IsTable(T) /\ Laid(T)
        /\ 2 * (used + 1) <= SizeOf(T) /\ SizeOf(T) \in Nat
        /\ \A s \in DOMAIN T : T[s].state # "removed"
        /\ \A s \in UsedIn(T) : \E r \in Moved(t) : T[s] = slots[r]
        /\ Moved(t) \subseteq InUse
        /\ Cardinality(UsedIn(T)) = Cardinality(Moved(t))
        /\ UsedIn(T) # DOMAIN T
    BY <1>1, Laying
  <1>3. Moved(t) = InUse
    <2>1. \A s \in InUse : s \in 0 .. Size - 1
      BY Domain DEF MemoInv, TableInv, InUse, UsedIn, Size
    <2>q. QED
      BY <1>1, <1>2, <2>1 DEF Moved
  <1>4. \A s \in UsedIn(T) : \E r \in InUse : T[s] = slots[r]
    BY <1>2, <1>3
  <1>5. InUse' = UsedIn(T) /\ Size' = SizeOf(T)
    BY <1>1 DEF InUse, Size
  <1>6. CountsRight'
    <2>1. {s \in DOMAIN slots' : slots'[s].state = "removed"} = {}
      BY <1>1, <1>2
    <2>2. Cardinality({}) = 0
      BY FS_EmptySet
    <2>3. used = Cardinality(UsedIn(T))
      BY <1>2, <1>3 DEF MemoInv, TableInv, CountsRight
    <2>4. Cardinality({s \in DOMAIN slots' : slots'[s].state = "removed"}) = 0
      BY <2>1, <2>2
    <2>5. used' = Cardinality(InUse')
      BY <1>1, <1>5, <2>3
    <2>6. removed' = 0
      BY <1>1
    <2>q. QED
      BY <2>4, <2>5, <2>6 DEF CountsRight
  <1>7. TableInv'
    <2>1. \A s \in InUse' :
            slots'[s].stamp <= stamp' /\ slots'[s].key \in Keys /\ slots'[s].value \in Values
      BY <1>1, <1>4, <1>5 DEF MemoInv, TableInv
    <2>2. /\ used' \in Nat /\ removed' \in Nat /\ stamp' \in Nat /\ bound' \in Bounds
          /\ bound' > 0 => used' <= bound'
      BY <1>1 DEF MemoInv, TableInv
    <2>3. IsTable(slots') /\ Size' > 0 /\ Laid(slots') /\ 2 * (used' + removed') <= Size'
      BY <1>1, <1>2, <1>5
    <2>q. QED
      BY <1>6, <2>1, <2>2, <2>3 DEF TableInv
  <1>8. Hash[k] \in Nat /\ k \in Keys
    BY <1>1, InCall
  <1>9. f \in DOMAIN T /\ f \notin UsedIn(T) /\ f \in Probed(T, Hash[k]) /\ f \in Int
    <2>1. f \in DOMAIN T /\ f \notin UsedIn(T) /\ f \in Probed(T, Hash[k])
      BY <1>2, <1>8, FreeFound
    <2>q. QED
      BY <1>2, <2>1, Domain
  <1>10. IsTable(NoSlots)
    <2>1. SizeOf(NoSlots) = 0 /\ DOMAIN NoSlots = {}
      BY FS_EmptySet DEF SizeOf, NoSlots
    <2>2. 0 .. 0 - 1 = {}
      OBVIOUS
    <2>q. QED
      BY <2>1, <2>2 DEF IsTable, NoSlots
  <1>11. ThreadTypes'
    <2>1. fresh' = [u \in Threads |-> fresh'[u]] /\ \A u \in Threads : IsTable(fresh'[u])
      BY <1>1, <1>10 DEF MemoInv, ThreadTypes
    <2>2. open' \in [Threads -> Int] /\ next' \in [Threads -> Nat]
      BY <1>1, <1>9 DEF MemoInv, ThreadTypes
    <2>3. doing' \in [Threads -> {"out", "call", "body", "probe", "evict", "grow", "lay", "place"}]
      BY <1>1 DEF MemoInv, ThreadTypes
    <2>q. QED
      BY <1>1, <2>1, <2>2, <2>3 DEF MemoInv, ThreadTypes
  <1>12. /\ \A u \in Threads : u # t => doing'[u] = "out" /\ stack'[u] = <<>>
         /\ doing'[t] = "place" /\ stack'[t] # <<>> /\ gil' = t
    BY <1>1, InCall DEF MemoInv, ThreadTypes, Alone
  <1>13. Stores(t)'
    <2>1. /\ bound # 0 /\ value[t] \in Values /\ (bound > 0 => used < bound)
          /\ \A s \in InUse : slots[s].key # k
      BY <1>1 DEF MemoInv, Stores, Storing
    <2>2. Key(t)' = k
      BY <1>1 DEF Key
    <2>3. open'[t] = f
      BY <1>1 DEF MemoInv, ThreadTypes
    <2>4. \A s \in InUse' : slots'[s].key # k
      BY <1>1, <1>4, <1>5, <2>1
    <2>5. ~Crowded'
      BY <1>1, <1>2, <1>5 DEF Crowded
    <2> HIDE DEF f, k, T
    <2>6. open'[t] \in Probed(slots', Hash[Key(t)']) /\ open'[t] \notin InUse'
      BY <1>1, <1>5, <1>9, <2>2, <2>3
    <2>q. QED
      BY <1>1, <1>12, <2>1, <2>2, <2>4, <2>5, <2>6 DEF Stores, Storing
  <1>14. Lays(t)'
    BY <1>12 DEF Lays
  <1>q. QED
    BY <1>7, <1>11, <1>12, <1>13, <1>14, OneStep

LEMMA PlaceStep ==
    ASSUME MemoInv, NEW t \in Threads, Place(t)
    PROVE  MemoInv'
  <1> DEFINE k == Key(t)
             f == open[t]
             e == [state |-> "used", stamp |-> stamp + 1, key |-> k, value |-> value[t]]
             Removed == {s \in DOMAIN slots : slots[s].state = "removed"}
             Removed2 == {s \in DOMAIN slots' : slots'[s].state = "removed"}
  <1>1. /\ doing[t] = "place" /\ slots' = [slots EXCEPT ![f] = e]
        /\ used' = used + 1 /\ stamp' = stamp + 1 /\ removed' = removed /\ bound' = bound
        /\ Answer(t) /\ UNCHANGED <<layVars, uses>>
    BY DEF Place
  <1>2. TableInv /\ IsTable(slots) /\ Laid(slots) /\ InUse = UsedIn(slots)
        /\ used \in Nat /\ removed \in Nat /\ stamp \in Nat /\ bound \in Bounds
    BY DEF MemoInv, TableInv, InUse
  <1>3. /\ value[t] \in Values /\ bound # 0 /\ (bound > 0 => used < bound) /\ ~Crowded
        /\ \A s \in InUse : slots[s].key # k
        /\ f \in Probed(slots, Hash[k]) /\ f \notin InUse /\ f \in DOMAIN slots /\ k \in Keys
    BY <1>1, InCall DEF MemoInv, Stores, Storing, Probed
  <1>4. e \in Slots /\ e.state = "used" /\ e.key = k /\ e.stamp = stamp + 1 /\ e.value = value[t]
    BY <1>2, <1>3 DEF Slots
  <1>5. \A s \in InUse : slots[s].stamp \in Nat /\ slots[s].stamp <= stamp
    BY <1>2, Domain DEF TableInv, UsedIn, Slots
  <1>6. \A s \in UsedIn(slots) : slots[s].key # e.key /\ slots[s].stamp # e.stamp
    BY <1>2, <1>3, <1>4, <1>5
  <1> HIDE DEF e, f, k
  <1>7. /\ IsTable(slots') /\ SizeOf(slots') = SizeOf(slots) /\ Laid(slots')
        /\ UsedIn(slots') = InUse \cup {f}
        /\ Cardinality(UsedIn(slots')) = Cardinality(InUse) + 1
    BY <1>1, <1>2, <1>3, <1>4, <1>6, PutLaid
  <1>8. /\ DOMAIN slots' = DOMAIN slots /\ slots'[f] = e
        /\ \A s \in DOMAIN slots : s # f => slots'[s] = slots[s]
    BY <1>1, <1>2, <1>3 DEF IsTable
  <1>9. CountsRight'
    <2>1. Removed2 \subseteq Removed /\ Removed \subseteq DOMAIN slots
      BY <1>4, <1>8
    <2>2. IsFiniteSet(Removed) /\ Cardinality(Removed) \in Nat
      BY <1>2, <2>1, Domain, FS_Subset, FS_CardinalityType
    <2>3. Cardinality(Removed2) <= Cardinality(Removed) /\ Cardinality(Removed2) \in Nat
      BY <2>1, <2>2, FS_Subset, FS_CardinalityType
    <2>4. used = Cardinality(InUse) /\ removed >= Cardinality(Removed)
      BY <1>2 DEF TableInv, CountsRight
    <2>5. used' = Cardinality(InUse')
      BY <1>1, <1>7, <2>4 DEF InUse
    <2>6. removed' >= Cardinality(Removed2)
      <3> HIDE DEF Removed, Removed2
      <3>q. QED
        BY <1>1, <1>2, <2>2, <2>3, <2>4
    <2>q. QED
      BY <2>5, <2>6 DEF CountsRight
  <1>10. TableInv'
    <2>1. InUse' = InUse \cup {f} /\ Size' = Size /\ Size \in Nat
      BY <1>2, <1>7, Domain DEF InUse, Size
    <2>2. \A s \in InUse' :
            slots'[s].stamp <= stamp' /\ slots'[s].key \in Keys /\ slots'[s].value \in Values
      <3> SUFFICES ASSUME NEW s \in InUse'
                   PROVE  slots'[s].stamp <= stamp' /\ slots'[s].key \in Keys
                          /\ slots'[s].value \in Values
        OBVIOUS
      <3>1. CASE s = f
        BY <1>1, <1>2, <1>3, <1>4, <1>8, <3>1
      <3>2. CASE s # f
        <4>1. s \in InUse /\ slots'[s] = slots[s]
          BY <1>8, <2>1, <3>2 DEF InUse, UsedIn
        <4>q. QED
          BY <1>1, <1>2, <1>5, <4>1 DEF TableInv
      <3>q. QED
        BY <3>1, <3>2
    <2>3. 2 * (used' + removed') <= Size'
      BY <1>1, <1>2, <1>3, <2>1 DEF Crowded
    <2>4. bound' > 0 => used' <= bound'
      BY <1>1, <1>2, <1>3, MemoSetsAssumption
    <2>5. Size' > 0 /\ used' \in Nat /\ removed' \in Nat /\ stamp' \in Nat /\ bound' \in Bounds
      BY <1>1, <1>2, <2>1 DEF TableInv
    <2>q. QED
      BY <1>7, <1>9, <2>2, <2>3, <2>4, <2>5 DEF TableInv
  <1>q. QED
    BY <1>1, <1>10, AnswerStep

LEMMA MemoInvStep ==
    ASSUME "loop" \notin Callers
    PROVE  MemoInv /\ [MemoNext]_memoVars => MemoInv'
  <1> SUFFICES ASSUME MemoInv, [MemoNext]_memoVars PROVE MemoInv'
    OBVIOUS
  <1>1. CASE UNCHANGED memoVars
    <2>1. /\ slots' = slots /\ used' = used /\ removed' = removed /\ bound' = bound
          /\ UNCHANGED <<tableVars, bound, gil, caller, uses>>
          /\ stack' = stack /\ doing' = doing /\ value' = value /\ open' = open
          /\ fresh' = fresh /\ next' = next
      BY <1>1 DEF memoVars, tableVars, threadVars, layVars
    <2>2. TableInv'
      BY <2>1, TableKept DEF MemoInv
    <2>3. ThreadTypes' /\ Alone'
      BY <2>1 DEF MemoInv, ThreadTypes, Alone
    <2>4. ASSUME NEW t \in Threads PROVE Stores(t)' /\ Lays(t)'
      <3>1. InUse' = InUse /\ Size' = Size /\ Key(t)' = Key(t) /\ Moved(t)' = Moved(t)
        BY <2>1 DEF InUse, Size, Key, Moved
      <3>2. Stores(t) /\ Lays(t)
        BY DEF MemoInv
      <3>3. Stores(t)'
        BY <2>1, <3>1, <3>2 DEF Stores, Crowded
      <3>4. Lays(t)'
        BY <2>1, <3>1, <3>2 DEF Lays
      <3>q. QED
        BY <3>3, <3>4
    <2>q. QED
      BY <2>2, <2>3, <2>4 DEF MemoInv
  <1>2. ASSUME NEW t \in Threads, MemoStep(t) PROVE MemoInv'
    <2>1. ASSUME NEW how \in Callers, NEW k \in Keys, Enter(t, how, k) PROVE MemoInv'
      <3>1. how = "entry"
        BY MemoSetsAssumption
      <3>q. QED
        BY <2>1, <3>1, EnterStep
    <2>2. ASSUME NEW k \in Keys, Recurse(t, k) PROVE MemoInv'
      BY <2>2, RecurseStep
    <2>3. ASSUME NEW v \in Values, Return(t, v) PROVE MemoInv'
      BY <2>3, ReturnStep
    <2>q. QED
      BY <1>2, <2>1, <2>2, <2>3, LookupStep, FailStep, IgnoreStep, StoreAgainStep, StoreNewStep,
         EvictStep, GrowStep, LayOutStep, SwapStep, PlaceStep DEF MemoStep
  <1>q. QED
    BY <1>1, <1>2 DEF MemoNext

\* With every caller holding the GIL, the invariant of every behaviour of the table.
THEOREM MemoInvariance == ASSUME "loop" \notin Callers PROVE MemoSpec => []MemoInv
  <1>1. MemoInit => MemoInv
    BY MemoInitially
  <1>2. MemoInv /\ [MemoNext]_memoVars => MemoInv'
    BY MemoInvStep
  <1>q. QED
    BY <1>1, <1>2, PTL DEF MemoSpec

THEOREM MemoTyping == ASSUME "loop" \notin Callers PROVE MemoSpec => []MemoTypeOK
  <1>1. MemoInv => MemoTypeOK
    BY Typed
  <1>q. QED
    BY <1>1, MemoInvariance, PTL

\* However the keys collide and whatever is removed and put back, a probe ends, an entry is
\* where a probe for its key finds it, and no key has two (`ppy_memo_probe`, `ppy_memo_grow`).
THEOREM Finds == ASSUME "loop" \notin Callers PROVE MemoSpec => []Findable
  <1>1. MemoInv => Findable
    <2> SUFFICES ASSUME MemoInv PROVE Findable
      OBVIOUS
    <2>1. \E s \in DOMAIN slots : slots[s].state = "empty"
      BY RoomLeft DEF MemoInv
    <2>2. \A s \in InUse : Holding(slots[s].key) = {s}
      BY ProbeFinds DEF MemoInv, TableInv, Laid, InUse
    <2>q. QED
      BY <2>1, <2>2 DEF Findable
  <1>q. QED
    BY <1>1, MemoInvariance, PTL

\* The counts by which the table grows and lets go are right, which the run `gil` refutes
\* for a caller without the GIL.
THEOREM Counts == ASSUME "loop" \notin Callers PROVE MemoSpec => []CountsRight
  <1>1. MemoInv => CountsRight
    BY DEF MemoInv, TableInv
  <1>q. QED
    BY <1>1, MemoInvariance, PTL

-----------------------------------------------------------------------------
(* The table as an LRU cache. *)

\* The slot of a key that is held is the one that holds it.
LEMMA SlotFound ==
    TableInv => /\ \A s \in InUse : \A k : slots[s].key = k => k \in KeysHeld /\ SlotOf(k) = slots[s]
                /\ \A k \in KeysHeld : \E s \in InUse : slots[s].key = k /\ SlotOf(k) = slots[s]
  <1> SUFFICES ASSUME TableInv
               PROVE  /\ \A s \in InUse : \A k : slots[s].key = k =>
                                                   k \in KeysHeld /\ SlotOf(k) = slots[s]
                      /\ \A k \in KeysHeld : \E s \in InUse : slots[s].key = k /\ SlotOf(k) = slots[s]
    OBVIOUS
  <1>1. ASSUME NEW s \in InUse PROVE SlotOf(slots[s].key) = slots[s]
    <2> DEFINE k == slots[s].key
               c == CHOOSE r \in InUse : slots[r].key = k
    <2>1. c \in InUse /\ slots[c].key = k
      OBVIOUS
    <2>2. c = s
      BY <2>1 DEF TableInv, Laid, InUse
    <2>q. QED
      BY <2>2 DEF SlotOf
  <1>q. QED
    BY <1>1 DEF KeysHeld

LEMMA SlotFoundNext ==
    TableInv' =>
        /\ \A s \in InUse' : \A k : slots'[s].key = k => k \in KeysHeld' /\ SlotOf(k)' = slots'[s]
        /\ \A k \in KeysHeld' : \E s \in InUse' : slots'[s].key = k /\ SlotOf(k)' = slots'[s]
  <1>1. TableInv' =>
            (/\ \A s \in InUse : \A k : slots[s].key = k => k \in KeysHeld /\ SlotOf(k) = slots[s]
             /\ \A k \in KeysHeld : \E s \in InUse : slots[s].key = k /\ SlotOf(k) = slots[s])'
    BY SlotFound, PTL
  <1>q. QED
    BY <1>1

LEMMA HeldTyped ==
    ASSUME TableInv
    PROVE  /\ DOMAIN Results = KeysHeld /\ KeysHeld \subseteq Keys /\ stamp \in Nat
           /\ \A k \in KeysHeld : /\ SlotOf(k).stamp \in Nat /\ SlotOf(k).stamp <= stamp
                                  /\ SlotOf(k).key = k
           /\ \A j, k \in KeysHeld : SlotOf(j).stamp = SlotOf(k).stamp => j = k
  <1>1. \A s \in InUse : /\ slots[s].stamp \in Nat /\ slots[s].stamp <= stamp
                         /\ slots[s].key \in Keys
    BY Domain DEF TableInv, InUse, UsedIn, Slots
  <1>2. \A r, s \in InUse : slots[r].stamp = slots[s].stamp => r = s
    BY DEF TableInv, Laid, InUse
  <1>3. \A k \in KeysHeld : \E s \in InUse : slots[s].key = k /\ SlotOf(k) = slots[s]
    BY SlotFound
  <1>4. DOMAIN Results = KeysHeld /\ stamp \in Nat
    BY DEF Results, TableInv
  <1>5. KeysHeld \subseteq Keys
    BY <1>1 DEF KeysHeld
  <1>q. QED
    BY <1>1, <1>2, <1>3, <1>4, <1>5

\* As many keys as entries.
LEMMA HeldCounted ==
    ASSUME TableInv
    PROVE  Cardinality(KeysHeld) = used
  <1> DEFINE g == [s \in InUse |-> slots[s].key]
  <1>1. IsFiniteSet(InUse) /\ Cardinality(InUse) = used
    BY RoomLeft
  <1>2. g \in [InUse -> KeysHeld]
    BY DEF KeysHeld
  <1>3. \A r, s \in InUse : g[r] = g[s] => r = s
    BY DEF TableInv, Laid, InUse
  <1>4. \A k \in KeysHeld : \E s \in InUse : g[s] = k
    BY DEF KeysHeld
  <1>5. g \in Bijection(InUse, KeysHeld)
    BY <1>2, <1>3, <1>4 DEF Bijection, Injection, Surjection, IsInjective
  <1>6. ExistsBijection(InUse, KeysHeld)
    BY <1>5 DEF ExistsBijection
  <1>q. QED
    BY <1>1, <1>6, FS_Bijection

\* What the cache is after a step, from the keys it holds then and their slots.
LEMMA SameCache ==
    ASSUME KeysHeld' = KeysHeld, \A k \in KeysHeld : SlotOf(k)' = SlotOf(k)
    PROVE  Results' = Results /\ Older' = Older
  BY DEF Results, Older

LEMMA SameSlots ==
    ASSUME slots' = slots
    PROVE  Results' = Results /\ Older' = Older
  BY DEF Results, Older, KeysHeld, SlotOf, InUse

LEMMA NowNewest ==
    ASSUME TableInv, TableInv', NEW k, KeysHeld' = KeysHeld \cup {k},
           \A j \in KeysHeld \ {k} : SlotOf(j)' = SlotOf(j),
           SlotOf(k)'.stamp = stamp + 1
    PROVE  Older' = Lru!UsedNow(k)
  <1>1. \A j \in KeysHeld : SlotOf(j).stamp \in Nat /\ SlotOf(j).stamp <= stamp /\ stamp \in Nat
    BY HeldTyped
  <1>2. Older' = {p \in KeysHeld' \X KeysHeld' : SlotOf(p[1])'.stamp < SlotOf(p[2])'.stamp}
    BY DEF Older
  <1>3. Lru!UsedNow(k) = {p \in Older : p[1] # k /\ p[2] # k} \cup ((KeysHeld \ {k}) \X {k})
    BY DEF Lru!UsedNow, Lru!WithoutKey, Lru!Held, Results
  <1>4. ASSUME NEW i \in KeysHeld', NEW j \in KeysHeld'
        PROVE  SlotOf(i)'.stamp < SlotOf(j)'.stamp <=>
                 \/ i # k /\ j # k /\ SlotOf(i).stamp < SlotOf(j).stamp
                 \/ i # k /\ j = k
    <2>1. CASE i # k /\ j # k
      BY <2>1
    <2>2. CASE i # k /\ j = k
      BY <1>1, <2>2
    <2>3. CASE i = k /\ j # k
      BY <1>1, <2>3
    <2>4. CASE i = k /\ j = k
      <3>1. stamp \in Nat /\ ~(stamp + 1 < stamp + 1)
        BY DEF TableInv
      <3>q. QED
        BY <2>4, <3>1
    <2>q. QED
      BY <2>1, <2>2, <2>3, <2>4
  <1>5. \A p : p \in Older' <=> p \in Lru!UsedNow(k)
    <2> SUFFICES ASSUME NEW p PROVE p \in Older' <=> p \in Lru!UsedNow(k)
      OBVIOUS
    <2>1. p \in Older' <=> /\ p \in KeysHeld' \X KeysHeld'
                           /\ \/ p[1] # k /\ p[2] # k /\ SlotOf(p[1]).stamp < SlotOf(p[2]).stamp
                              \/ p[1] # k /\ p[2] = k
      BY <1>2, <1>4
    <2>2. p \in Lru!UsedNow(k) <=>
            \/ /\ p \in KeysHeld \X KeysHeld /\ SlotOf(p[1]).stamp < SlotOf(p[2]).stamp
               /\ p[1] # k /\ p[2] # k
            \/ p \in (KeysHeld \ {k}) \X {k}
      BY <1>3 DEF Older
    <2>q. QED
      BY <2>1, <2>2
  <1>q. QED
    BY <1>5

\* Where there is a bound and no body calls for a key it is being called for, the keys of
\* the calls under way are not in the table: each was looked up and missed, but for the
\* innermost, which may have its lookup still before it.
Distinct(keys) == \A i, j \in 1 .. Len(keys) : keys[i] = keys[j] => i = j
Misses(t) == \A i \in 1 .. Len(stack[t]) :
    i < Len(stack[t]) \/ doing[t] # "call" =>
        stack[t][i] \in NaNKeys \/ stack[t][i] \notin KeysHeld
Absent == bound > 0 => \A t \in Threads : Distinct(stack[t]) /\ Misses(t)

\* Whether something is being kept is up to the one thread in a call.
LEMMA KeepingIs ==
    ASSUME NEW t \in Threads, \A u \in Threads : u # t => doing[u] = "out"
    PROVE  Keeping <=> doing[t] \in Storing
  BY DEF Keeping, Storing

\* The steps a cache does not see.
LEMMA Unseen ==
    ASSUME Results' = Results, Older' = Older, Keeping' <=> Keeping,
           UNCHANGED <<bound, answered>>
    PROVE  [Lru!Next]_(Lru!vars)
  <1>1. Keeping' = Keeping
    BY DEF Keeping
  <1>q. QED
    BY <1>1 DEF Lru!vars

LEMMA HitRefines ==
    ASSUME MemoInv, NEW s \in InUse, NEW k, k = slots[s].key,
           slots' = Used(slots, s), stamp' = Counted, UNCHANGED <<used, removed, bound>>
    PROVE  /\ k \in KeysHeld /\ SlotOf(k) = slots[s]
           /\ Older' = (IF bound > 0 THEN Lru!UsedNow(k) ELSE Older)
           /\ Results' = Results
  <1>1. TableInv /\ TableInv' /\ InUse' = InUse /\ bound \in Int
    BY UseKeeps, MemoSetsAssumption DEF MemoInv, TableInv
  <1>2. k \in KeysHeld /\ SlotOf(k) = slots[s] /\ stamp \in Nat
    BY <1>1, SlotFound DEF TableInv
  <1>3. CASE ~(bound > 0)
    <2>1. slots' = slots
      BY <1>3 DEF Used
    <2>q. QED
      BY <1>2, <1>3, <2>1, SameSlots
  <1>4. CASE bound > 0
    <2>1. /\ slots' = [slots EXCEPT ![s].stamp = stamp + 1] /\ slots \in [DOMAIN slots -> Slots]
          /\ InUse \subseteq DOMAIN slots
      BY <1>1, <1>4 DEF Used, TableInv, IsTable, InUse, UsedIn
    <2>2. /\ \A r \in InUse : r # s => slots'[r] = slots[r]
          /\ slots'[s].stamp = stamp + 1 /\ slots'[s].key = k /\ slots'[s].value = slots[s].value
      BY <2>1 DEF Slots
    <2>3. \A r \in InUse : \A j : slots[r].key = j => j \in KeysHeld' /\ SlotOf(j)' = slots'[r]
      BY <1>1, <2>2, SlotFoundNext
    <2>4. \A j \in KeysHeld : \E r \in InUse : slots[r].key = j /\ SlotOf(j) = slots[r]
      BY <1>1, SlotFound
    <2>5. KeysHeld' = KeysHeld
      <3>1. \A r \in InUse : slots'[r].key = slots[r].key
        BY <2>2
      <3>q. QED
        BY <1>1, <3>1 DEF KeysHeld
    <2>6. \A j \in KeysHeld \ {k} : SlotOf(j)' = SlotOf(j)
      BY <2>2, <2>3, <2>4
    <2>7. SlotOf(k)' = slots'[s]
      BY <2>3
    <2>8. SlotOf(k)'.stamp = stamp + 1 /\ SlotOf(k)'.value = SlotOf(k).value
      BY <1>2, <2>2, <2>7
    <2>9. KeysHeld' = KeysHeld \cup {k}
      BY <1>2, <2>5
    <2>10. Older' = Lru!UsedNow(k)
      BY <1>1, <2>6, <2>8, <2>9, NowNewest
    <2>11. \A j \in KeysHeld : SlotOf(j)'.value = SlotOf(j).value
      BY <2>6, <2>8
    <2>12. Results' = Results
      BY <2>5, <2>11 DEF Results
    <2>q. QED
      BY <1>2, <1>4, <2>10, <2>12
  <1>q. QED
    BY <1>3, <1>4

\* An entry used again, or given another value, is a hit or a result computed again.
LEMMA TouchedAlone ==
    ASSUME TableInv, TableInv', InUse' = InUse, NEW s \in InUse, NEW v, NEW k, k = slots[s].key,
           slots' = [slots EXCEPT ![s].value = v]
    PROVE  /\ k \in KeysHeld /\ Results' = [Results EXCEPT ![k] = v] /\ Older' = Older
  <1>1. slots \in [DOMAIN slots -> Slots] /\ InUse \subseteq DOMAIN slots
    BY DEF TableInv, IsTable, InUse, UsedIn
  <1>2. /\ \A r \in InUse : r # s => slots'[r] = slots[r]
        /\ slots'[s].stamp = slots[s].stamp /\ slots'[s].key = k /\ slots'[s].value = v
    BY <1>1 DEF Slots
  <1>3. \A r \in InUse : \A j : slots[r].key = j => j \in KeysHeld' /\ SlotOf(j)' = slots'[r]
    BY <1>2, SlotFoundNext
  <1>4. \A j \in KeysHeld : \E r \in InUse : slots[r].key = j /\ SlotOf(j) = slots[r]
    BY SlotFound
  <1>5. k \in KeysHeld /\ SlotOf(k) = slots[s]
    BY SlotFound
  <1>6. KeysHeld' = KeysHeld
    <2>1. \A r \in InUse : slots'[r].key = slots[r].key
      BY <1>2
    <2>q. QED
      BY <2>1 DEF KeysHeld
  <1>7. \A j \in KeysHeld \ {k} : SlotOf(j)' = SlotOf(j)
    BY <1>2, <1>3, <1>4
  <1>8. SlotOf(k)' = slots'[s]
    BY <1>3
  <1>9. \A j \in KeysHeld : SlotOf(j)'.stamp = SlotOf(j).stamp
    BY <1>2, <1>5, <1>7, <1>8
  <1>10. Older' = Older
    BY <1>6, <1>9 DEF Older
  <1>11. Results' = [Results EXCEPT ![k] = v]
    <2>1. Results' = [j \in KeysHeld |-> SlotOf(j)'.value]
      BY <1>6 DEF Results
    <2>2. [Results EXCEPT ![k] = v] = [j \in KeysHeld |-> IF j = k THEN v ELSE SlotOf(j).value]
      BY DEF Results
    <2>3. \A j \in KeysHeld : SlotOf(j)'.value = IF j = k THEN v ELSE SlotOf(j).value
      BY <1>2, <1>7, <1>8
    <2>q. QED
      BY <2>1, <2>2, <2>3
  <1>q. QED
    BY <1>5, <1>10, <1>11

\* A call that is answered keeps nothing any longer.
LEMMA NotKeeping ==
    ASSUME MemoInv, NEW t \in Threads, doing[t] # "out", Answer(t)
    PROVE  Keeping' = FALSE
  <1>1. \A u \in Threads : u # t => doing'[u] = "out"
    BY InCall DEF Answer, Go, MemoInv, ThreadTypes
  <1>2. doing'[t] \in {"out", "body"}
    BY DEF Answer, Go, MemoInv, ThreadTypes
  <1>q. QED
    BY <1>1, <1>2 DEF Keeping

LEMMA KeepingNow ==
    ASSUME MemoInv, NEW t \in Threads, doing[t] # "out"
    PROVE  /\ doing[t] \in Storing => Keeping = TRUE
           /\ doing[t] \notin Storing => Keeping = FALSE
  <1>1. Keeping <=> doing[t] \in Storing
    BY InCall, KeepingIs
  <1>2. Keeping = TRUE \/ Keeping = FALSE
    BY DEF Keeping
  <1>q. QED
    BY <1>1, <1>2

LEMMA LookupRefines ==
    ASSUME MemoInv, NEW t \in Threads, Lookup(t)
    PROVE  [Lru!Next]_(Lru!vars)
  <1>1. doing[t] = "call" /\ Keeping = FALSE
    <2>1. doing[t] = "call"
      BY DEF Lookup
    <2>q. QED
      BY <2>1, KeepingNow DEF Storing
  <1>2. CASE Go(t, "body") /\ UNCHANGED <<tableVars, bound, answered>>
    <2>1. Keeping' = FALSE
      BY <1>1, <1>2, InCall DEF Keeping, Go, MemoInv, ThreadTypes
    <2>2. slots' = slots
      BY <1>2 DEF tableVars
    <2>q. QED
      BY <1>1, <1>2, <2>1, <2>2, SameSlots, Unseen
  <1>3. CASE \E s \in InUse :
                /\ slots' = Used(slots, s) /\ stamp' = Counted
                /\ slots[s].key = Key(t)
                /\ answered' = <<[key |-> Key(t), value |-> slots[s].value]>>
                /\ Answer(t)
                /\ UNCHANGED <<used, removed, bound>>
    <2>1. PICK s \in InUse :
                /\ slots' = Used(slots, s) /\ stamp' = Counted
                /\ slots[s].key = Key(t)
                /\ answered' = <<[key |-> Key(t), value |-> slots[s].value]>>
                /\ Answer(t)
                /\ UNCHANGED <<used, removed, bound>>
      BY <1>3
    <2>2. PICK k : k = slots[s].key
      OBVIOUS
    <2>3. /\ k \in KeysHeld /\ SlotOf(k) = slots[s] /\ Results' = Results
          /\ Older' = (IF bound > 0 THEN Lru!UsedNow(k) ELSE Older)
      BY <2>1, <2>2, HitRefines
    <2>4. Keeping' = FALSE
      BY <1>1, <2>1, NotKeeping
    <2>5. k \in DOMAIN Results /\ Results[k] = slots[s].value
      BY <2>3 DEF Results
    <2>6. Lru!Hit
      BY <1>1, <2>1, <2>2, <2>3, <2>4, <2>5 DEF Lru!Hit, Lru!Held
    <2>q. QED
      BY <2>6 DEF Lru!Next
  <1>q. QED
    BY <1>2, <1>3 DEF Lookup, Holding

\* The key of a call that missed was put meanwhile only where there is no bound.
LEMMA StoreAgainUnbounded ==
    ASSUME MemoInv, Absent, NEW t \in Threads, StoreAgain(t)
    PROVE  bound = -1
  <1>1. /\ doing[t] = "probe" /\ Key(t) \notin NaNKeys /\ bound # 0
        /\ \E s \in InUse : slots[s].key = Key(t)
    BY DEF StoreAgain, Holding
  <1>2. Key(t) \in KeysHeld
    BY <1>1 DEF KeysHeld
  <1>3. Len(stack[t]) \in 1 .. Len(stack[t]) /\ stack[t][Len(stack[t])] = Key(t)
    BY <1>1, InCall DEF Key, Last
  <1>4. ~(bound > 0)
    BY <1>1, <1>2, <1>3 DEF Absent, Misses
  <1>q. QED
    BY <1>1, <1>4, MemoSetsAssumption DEF MemoInv, TableInv

LEMMA StoreAgainRefines ==
    ASSUME MemoInv, Absent, MemoInv', NEW t \in Threads, StoreAgain(t)
    PROVE  Lru!Again
  <1>1. /\ doing[t] = "probe" /\ Keeping = FALSE /\ value[t] \in Values /\ bound # 0
        /\ Answer(t) /\ UNCHANGED <<used, removed, bound, answered>>
    <2>1. /\ doing[t] = "probe" /\ bound # 0
          /\ Answer(t) /\ UNCHANGED <<used, removed, bound, answered>>
      BY DEF StoreAgain
    <2>2. Keeping = FALSE
      BY <2>1, KeepingNow DEF Storing
    <2>q. QED
      BY <2>1, <2>2 DEF MemoInv, Stores
  <1>2. PICK s \in InUse :
            /\ slots[s].key = Key(t)
            /\ slots' = IF bound > 0 THEN Used(slots, s)
                        ELSE [slots EXCEPT ![s].value = value[t]]
            /\ stamp' = Counted
    BY DEF StoreAgain, Holding
  <1>3. PICK k : k = slots[s].key
    OBVIOUS
  <1>4. Keeping' = FALSE
    BY <1>1, NotKeeping
  <1>5. bound = -1 /\ slots' = [slots EXCEPT ![s].value = value[t]]
    BY <1>2, StoreAgainUnbounded
  <1>6. InUse' = InUse
    <2>1. slots \in [DOMAIN slots -> Slots]
      BY DEF MemoInv, TableInv, IsTable
    <2>2. DOMAIN slots' = DOMAIN slots /\ \A r \in DOMAIN slots : slots'[r].state = slots[r].state
      BY <1>5, <2>1 DEF Slots
    <2>q. QED
      BY <2>2 DEF InUse, UsedIn
  <1>7. /\ k \in KeysHeld /\ Results' = [Results EXCEPT ![k] = value[t]] /\ Older' = Older
    BY <1>3, <1>5, <1>6, TouchedAlone DEF MemoInv
  <1>8. k \in DOMAIN Results
    BY <1>7 DEF Results
  <1>q. QED
    BY <1>1, <1>4, <1>5, <1>7, <1>8 DEF Lru!Again, Lru!Held

LEMMA StoreNewRefines ==
    ASSUME MemoInv, NEW t \in Threads, StoreNew(t)
    PROVE  Lru!Compute
  <1>1. doing[t] = "probe" /\ Keeping = FALSE /\ UNCHANGED <<tableVars, bound, answered>>
    <2>1. doing[t] = "probe" /\ UNCHANGED <<tableVars, bound, answered>>
      BY DEF StoreNew
    <2>q. QED
      BY <2>1, KeepingNow DEF Storing
  <1>2. Keeping' = TRUE
    <2>1. doing'[t] \in {"evict", "grow"}
      BY DEF StoreNew, Go, MemoInv, ThreadTypes
    <2>q. QED
      BY <2>1 DEF Keeping
  <1>3. Results' = Results /\ Older' = Older
    BY <1>1, SameSlots DEF tableVars
  <1>q. QED
    BY <1>1, <1>2, <1>3 DEF Lru!Compute

LEMMA SameCount == \A S : Lru!Cardinality(S) = Cardinality(S)
  BY DEF Lru!Cardinality, Cardinality

\* The entry dropped is the one whose key was used before all others held.
LEMMA EvictRefines ==
    ASSUME MemoInv, NEW t \in Threads, Evict(t)
    PROVE  Lru!Evict /\ KeysHeld' \subseteq KeysHeld
  <1>1. PICK s \in InUse :
            /\ Oldest(s) /\ slots' = [slots EXCEPT ![s].state = "removed"]
            /\ used' = used - 1 /\ removed' = removed + 1
    BY DEF Evict
  <1>2. doing[t] = "evict" /\ UNCHANGED <<stamp, bound, answered>>
    BY DEF Evict
  <1>3. TableInv /\ TableInv' /\ InUse' = InUse \ {s} /\ \A r \in InUse' : slots'[r] = slots[r]
    BY <1>1, <1>2, RemoveKeeps DEF MemoInv
  <1>4. bound > 0 /\ used = bound
    BY <1>2 DEF MemoInv, Stores, Storing
  <1>5. PICK k : k = slots[s].key
    OBVIOUS
  <1>6. /\ k \in KeysHeld /\ SlotOf(k) = slots[s]
        /\ \A j \in KeysHeld : \E r \in InUse : slots[r].key = j /\ SlotOf(j) = slots[r]
        /\ \A r \in InUse : \A j : slots[r].key = j => j \in KeysHeld /\ SlotOf(j) = slots[r]
    BY <1>3, <1>5, SlotFound
  <1>7. \A r \in InUse : r # s => slots[r].key # k /\ slots[r].stamp # slots[s].stamp
    BY <1>3, <1>5 DEF TableInv, Laid, InUse
  <1>8. KeysHeld' = KeysHeld \ {k}
    <2>1. KeysHeld' = {slots[r].key : r \in InUse \ {s}}
      BY <1>3 DEF KeysHeld
    <2>q. QED
      BY <1>5, <1>7, <2>1 DEF KeysHeld
  <1>9. \A j \in KeysHeld \ {k} : SlotOf(j)' = SlotOf(j)
    <2>1. \A r \in InUse' : \A j : slots[r].key = j => SlotOf(j)' = slots[r]
      BY <1>3, SlotFoundNext
    <2>q. QED
      BY <1>3, <1>5, <1>6, <2>1
  <1>10. Results' = [j \in KeysHeld \ {k} |-> Results[j]]
    <2>1. Results' = [j \in KeysHeld \ {k} |-> SlotOf(j)'.value]
      BY <1>8 DEF Results
    <2>2. \A j \in KeysHeld \ {k} : SlotOf(j)'.value = Results[j]
      BY <1>9 DEF Results
    <2>q. QED
      BY <2>1, <2>2
  <1>11. Older' = Lru!WithoutKey(k)
    <2>1. Older' = {p \in (KeysHeld \ {k}) \X (KeysHeld \ {k}) :
                        SlotOf(p[1])'.stamp < SlotOf(p[2])'.stamp}
      BY <1>8 DEF Older
    <2>2. Older' = {p \in (KeysHeld \ {k}) \X (KeysHeld \ {k}) :
                        SlotOf(p[1]).stamp < SlotOf(p[2]).stamp}
      BY <1>9, <2>1
    <2>q. QED
      BY <2>2 DEF Lru!WithoutKey, Older
  <1>12. \A j \in KeysHeld \ {k} : <<k, j>> \in Older
    <2> SUFFICES ASSUME NEW j \in KeysHeld \ {k} PROVE <<k, j>> \in Older
      OBVIOUS
    <2>1. PICK r \in InUse : slots[r].key = j /\ SlotOf(j) = slots[r]
      BY <1>6
    <2>2. slots[s].stamp <= slots[r].stamp /\ slots[s].stamp # slots[r].stamp
      BY <1>1, <1>5, <1>7, <2>1 DEF Oldest
    <2>3. slots[s].stamp \in Nat /\ slots[r].stamp \in Nat
      BY <1>3, Domain DEF TableInv, InUse, UsedIn, Slots
    <2>4. SlotOf(k).stamp < SlotOf(j).stamp
      BY <1>6, <2>1, <2>2, <2>3
    <2>q. QED
      BY <1>6, <2>4 DEF Older
  <1>13. Keeping = TRUE /\ Keeping' = TRUE
    <2>1. Keeping = TRUE
      BY <1>2, KeepingNow DEF Storing
    <2>2. doing'[t] = "grow"
      BY DEF Evict, Go, MemoInv, ThreadTypes
    <2>q. QED
      BY <2>1, <2>2 DEF Keeping
  <1>14. DOMAIN Results = KeysHeld /\ Cardinality(KeysHeld) = bound
    BY <1>3, <1>4, HeldCounted DEF Results
  <1>q. QED
    BY <1>2, <1>4, <1>6, <1>8, <1>10, <1>11, <1>12, <1>13, <1>14, SameCount DEF Lru!Evict, Lru!Held

\* A table laid out again has the entries it had.
LEMMA SwapRefines ==
    ASSUME MemoInv, NEW t \in Threads, Swap(t)
    PROVE  [Lru!Next]_(Lru!vars) /\ KeysHeld' = KeysHeld
  <1>1. /\ doing[t] = "lay" /\ next[t] >= Size /\ slots' = fresh[t]
        /\ UNCHANGED <<bound, answered>> /\ doing' = [doing EXCEPT ![t] = "place"]
    BY DEF Swap, LaidOut, Go
  <1>2. TableInv /\ TableInv'
    BY SwapStep DEF MemoInv
  <1>3. Moved(t) = InUse
    <2>1. \A s \in InUse : s \in 0 .. Size - 1
      BY Domain DEF MemoInv, TableInv, InUse, UsedIn, Size
    <2>2. next[t] \in Nat /\ Size \in Nat
      BY <1>1, Laying
    <2>q. QED
      BY <1>1, <2>1, <2>2 DEF Moved
  <1>4. /\ \A s \in InUse' : \E r \in InUse : slots'[s] = slots[r]
        /\ \A r \in InUse : \E s \in InUse' : slots'[s] = slots[r]
    <2>1. InUse' = UsedIn(fresh[t])
      BY <1>1 DEF InUse
    <2>q. QED
      BY <1>1, <1>3, <2>1, Laying
  <1>5. /\ \A j \in KeysHeld : \E r \in InUse : slots[r].key = j /\ SlotOf(j) = slots[r]
        /\ \A r \in InUse : \A j : slots[r].key = j => j \in KeysHeld
    BY <1>2, SlotFound
  <1>6. /\ \A j \in KeysHeld' : \E r \in InUse' : slots'[r].key = j
        /\ \A r \in InUse' : \A j : slots'[r].key = j => j \in KeysHeld' /\ SlotOf(j)' = slots'[r]
    BY <1>2, SlotFoundNext
  <1>7. KeysHeld' = KeysHeld
    <2>1. \A j : j \in KeysHeld' => j \in KeysHeld
      BY <1>4, <1>5, <1>6
    <2>2. \A j : j \in KeysHeld => j \in KeysHeld'
      BY <1>4, <1>5, <1>6
    <2>q. QED
      BY <2>1, <2>2
  <1>8. \A j \in KeysHeld : SlotOf(j)' = SlotOf(j)
    BY <1>4, <1>5, <1>6
  <1>9. Keeping' <=> Keeping
    <2>1. Keeping = TRUE
      BY <1>1, KeepingNow DEF Storing
    <2>2. doing'[t] = "place"
      BY <1>1 DEF MemoInv, ThreadTypes
    <2>q. QED
      BY <2>1, <2>2 DEF Keeping
  <1>q. QED
    BY <1>1, <1>7, <1>8, <1>9, SameCache, Unseen

\* The new entry is the last used, and the bound keeps.
LEMMA PlaceRefines ==
    ASSUME MemoInv, NEW t \in Threads, Place(t)
    PROVE  Lru!Keep /\ KeysHeld' = KeysHeld \cup {Key(t)}
  <1>1. PICK k : k = Key(t)
    OBVIOUS
  <1>2. PICK f : f = open[t]
    OBVIOUS
  <1>3. /\ doing[t] = "place"
        /\ slots' = [slots EXCEPT ![f] =
              [state |-> "used", stamp |-> stamp + 1, key |-> k, value |-> value[t]]]
        /\ Answer(t) /\ UNCHANGED <<bound, answered>>
    BY <1>1, <1>2 DEF Place
  <1>4. TableInv /\ TableInv' /\ k \in Keys
    BY <1>1, <1>3, PlaceStep, InCall DEF MemoInv
  <1>5. /\ value[t] \in Values /\ bound # 0 /\ (bound > 0 => used < bound)
        /\ \A s \in InUse : slots[s].key # k
        /\ f \notin InUse /\ f \in DOMAIN slots
    BY <1>1, <1>2, <1>3 DEF MemoInv, Stores, Storing, Probed
  <1>6. /\ InUse' = InUse \cup {f}
        /\ slots'[f].key = k /\ slots'[f].stamp = stamp + 1 /\ slots'[f].value = value[t]
        /\ \A s \in InUse : slots'[s] = slots[s]
    <2>1. slots \in [DOMAIN slots -> Slots] /\ InUse \subseteq DOMAIN slots
      BY <1>4 DEF TableInv, IsTable, InUse, UsedIn
    <2>2. /\ DOMAIN slots' = DOMAIN slots
          /\ slots'[f] = [state |-> "used", stamp |-> stamp + 1, key |-> k, value |-> value[t]]
          /\ \A s \in DOMAIN slots : s # f => slots'[s] = slots[s]
      BY <1>3, <1>5, <2>1
    <2>3. InUse' = InUse \cup {f}
      BY <1>5, <2>2 DEF InUse, UsedIn
    <2>q. QED
      BY <1>5, <2>1, <2>2, <2>3
  <1>7. \A j \in KeysHeld : \E r \in InUse : slots[r].key = j /\ SlotOf(j) = slots[r]
    BY <1>4, SlotFound
  <1>8. \A r \in InUse' : \A j : slots'[r].key = j => j \in KeysHeld' /\ SlotOf(j)' = slots'[r]
    BY <1>4, SlotFoundNext
  <1>9. k \notin KeysHeld
    BY <1>5, <1>7
  <1>10. KeysHeld' = KeysHeld \cup {k}
    <2>1. KeysHeld' = {slots'[r].key : r \in InUse \cup {f}}
      BY <1>6 DEF KeysHeld
    <2>2. KeysHeld = {slots[r].key : r \in InUse}
      BY DEF KeysHeld
    <2>3. \A j : j \in KeysHeld' <=> j \in KeysHeld \cup {k}
      BY <1>6, <2>1, <2>2
    <2>q. QED
      BY <2>3
  <1>11. \A j \in KeysHeld : j # k /\ SlotOf(j)' = SlotOf(j)
    BY <1>6, <1>7, <1>8, <1>9
  <1>12. SlotOf(k)' = slots'[f]
    BY <1>6, <1>8
  <1>13. Older' = Lru!UsedNow(k)
    <2>1. SlotOf(k)'.stamp = stamp + 1
      BY <1>6, <1>12
    <2>q. QED
      BY <1>4, <1>10, <1>11, <2>1, NowNewest
  <1>14. Results' = [j \in KeysHeld \cup {k} |-> IF j = k THEN value[t] ELSE Results[j]]
    <2>1. Results' = [j \in KeysHeld \cup {k} |-> SlotOf(j)'.value]
      BY <1>10 DEF Results
    <2>2. \A j \in KeysHeld \cup {k} :
            SlotOf(j)'.value = IF j = k THEN value[t] ELSE Results[j]
      BY <1>6, <1>11, <1>12 DEF Results
    <2>q. QED
      BY <2>1, <2>2
  <1>15. DOMAIN Results = KeysHeld /\ (bound = -1 \/ Cardinality(KeysHeld) < bound)
    <2>1. bound \in {-1} \cup Nat
      BY <1>4, MemoSetsAssumption DEF TableInv
    <2>q. QED
      BY <1>4, <1>5, <2>1, HeldCounted DEF Results
  <1>16. Keeping = TRUE /\ Keeping' = FALSE
    <2>1. Keeping = TRUE
      BY <1>3, KeepingNow DEF Storing
    <2>2. Keeping' = FALSE
      BY <1>3, NotKeeping
    <2>q. QED
      BY <2>1, <2>2
  <1>q. QED
    BY <1>1, <1>3, <1>4, <1>5, <1>9, <1>10, <1>13, <1>14, <1>15, <1>16, SameCount
    DEF Lru!Keep, Lru!Held

\* What a step that is no lookup and changes no slot leaves of the cache.
LEMMA QuietRefines ==
    ASSUME slots' = slots, Keeping' = Keeping, UNCHANGED <<bound, answered>>
    PROVE  [Lru!Next]_(Lru!vars)
  BY SameSlots, Unseen

\* The call's own key is the last of its stack, the rest of which an answer leaves.
LEMMA FrontOfStack ==
    ASSUME MemoInv, NEW t \in Threads, doing[t] # "out"
    PROVE  /\ stack[t][Len(stack[t])] = Key(t) /\ Len(Front(stack[t])) = Len(stack[t]) - 1
           /\ \A i \in 1 .. Len(stack[t]) - 1 : Front(stack[t])[i] = stack[t][i]
  <1>1. stack[t] \in Seq(Keys) /\ Len(stack[t]) \in Nat /\ Len(stack[t]) > 0
    BY InCall
  <1>2. /\ Len(SubSeq(stack[t], 1, Len(stack[t]) - 1)) = Len(stack[t]) - 1
        /\ \A i \in 1 .. Len(stack[t]) - 1 :
                SubSeq(stack[t], 1, Len(stack[t]) - 1)[i] = stack[t][i]
    BY <1>1
  <1>q. QED
    BY <1>2 DEF Front, Key, Last

\* What a step of one thread shows of the keys under way, while the others are in no call.
LEMMA AbsentOf ==
    ASSUME NEW t \in Threads, \A u \in Threads : u # t => stack'[u] = <<>>,
           bound' > 0 => Distinct(stack'[t]) /\ Misses(t)'
    PROVE  Absent'
  <1>1. Len(<<>>) = 0 /\ 1 .. 0 = {}
    OBVIOUS
  <1>2. \A u \in Threads : u # t => Distinct(stack'[u]) /\ Misses(u)'
    BY <1>1 DEF Distinct, Misses
  <1>q. QED
    BY <1>2 DEF Absent

\* A step between a lookup and the answer puts no key.
LEMMA StayAbsent ==
    ASSUME MemoInv, Absent, NEW t \in Threads, doing[t] \notin {"out", "call"},
           stack' = stack, bound' = bound, KeysHeld' \subseteq KeysHeld
    PROVE  Absent'
  <1>1. \A u \in Threads : u # t => stack'[u] = <<>>
    BY InCall DEF MemoInv, Alone
  <1>2. bound > 0 => Distinct(stack'[t]) /\ Misses(t)'
    BY DEF Absent, Misses
  <1>q. QED
    BY <1>1, <1>2, AbsentOf

\* An answer puts the key of its own call at most, which no call around it is for.
LEMMA AnswerAbsent ==
    ASSUME MemoInv, Absent, NEW t \in Threads, doing[t] # "out", Answer(t),
           bound' = bound, KeysHeld' \subseteq KeysHeld \cup {Key(t)}
    PROVE  Absent'
  <1>1. /\ stack[t] \in Seq(Keys) /\ Len(stack[t]) \in Nat /\ Len(stack[t]) > 0
        /\ \A u \in Threads : u # t => stack'[u] = <<>>
    BY InCall DEF MemoInv, Alone, ThreadTypes, Answer
  <1>2. /\ Len(stack'[t]) = Len(stack[t]) - 1
        /\ \A i \in 1 .. Len(stack[t]) - 1 : stack'[t][i] = stack[t][i]
        /\ stack[t][Len(stack[t])] = Key(t)
    BY FrontOfStack DEF Answer, MemoInv, ThreadTypes
  <1>3. ASSUME bound > 0 PROVE Distinct(stack'[t]) /\ Misses(t)'
    <2>1. Distinct(stack[t]) /\ Misses(t)
      BY <1>3 DEF Absent
    <2>2. Distinct(stack'[t])
      BY <1>1, <1>2, <2>1 DEF Distinct
    <2>3. ASSUME NEW i \in 1 .. Len(stack[t]) - 1, stack[t][i] \notin NaNKeys
          PROVE  stack[t][i] \notin KeysHeld'
      <3>1. stack[t][i] \notin KeysHeld
        BY <1>1, <2>1, <2>3 DEF Misses
      <3>2. stack[t][i] # Key(t)
        BY <1>1, <1>2, <2>1 DEF Distinct
      <3>q. QED
        BY <3>1, <3>2
    <2>4. Misses(t)'
      BY <1>1, <1>2, <2>3 DEF Misses
    <2>q. QED
      BY <2>2, <2>4
  <1>q. QED
    BY <1>1, <1>3, AbsentOf

\* A lookup that finds nothing shows the key is not there.
LEMMA LookupAbsent ==
    ASSUME MemoInv, Absent, NEW t \in Threads, Lookup(t)
    PROVE  Absent'
  <1>1. doing[t] = "call" /\ bound' = bound
    BY DEF Lookup
  <1>2. CASE /\ used = 0 \/ Key(t) \in NaNKeys \/ Holding(Key(t)) = {}
             /\ Go(t, "body") /\ UNCHANGED <<tableVars, stack>>
    <2>1. Key(t) \in NaNKeys \/ Key(t) \notin KeysHeld
      <3>1. CASE used = 0
        <4>1. IsFiniteSet(InUse) /\ Cardinality(InUse) = 0
          BY <3>1, RoomLeft DEF MemoInv
        <4>2. InUse = {}
          BY <4>1, FS_EmptySet
        <4>q. QED
          BY <4>2 DEF KeysHeld
      <3>2. CASE Holding(Key(t)) = {}
        BY <3>2, ProbeFinds DEF KeysHeld, MemoInv, TableInv
      <3>q. QED
        BY <1>2, <3>1, <3>2
    <2>2. KeysHeld' = KeysHeld /\ stack' = stack
      BY <1>2 DEF KeysHeld, InUse, tableVars
    <2>3. \A u \in Threads : u # t => stack'[u] = <<>>
      BY <1>1, <2>2, InCall DEF MemoInv, Alone
    <2>4. ASSUME bound > 0 PROVE Distinct(stack'[t]) /\ Misses(t)'
      <3>1. Distinct(stack[t]) /\ Misses(t)
        BY <2>4 DEF Absent
      <3>2. stack[t][Len(stack[t])] = Key(t) /\ Len(stack[t]) \in Nat
        BY <1>1, FrontOfStack, InCall
      <3>3. \A i \in 1 .. Len(stack[t]) : stack[t][i] \in NaNKeys \/ stack[t][i] \notin KeysHeld
        BY <2>1, <3>1, <3>2 DEF Misses
      <3>q. QED
        BY <2>2, <3>1, <3>3 DEF Misses
    <2>q. QED
      BY <1>1, <2>3, <2>4, AbsentOf
  <1>3. CASE \E s \in InUse :
                /\ slots' = Used(slots, s) /\ stamp' = Counted /\ Answer(t)
                /\ UNCHANGED <<used, removed, bound>>
    <2>1. PICK s \in InUse :
                /\ slots' = Used(slots, s) /\ stamp' = Counted /\ Answer(t)
                /\ UNCHANGED <<used, removed, bound>>
      BY <1>3
    <2>2. PICK k : k = slots[s].key
      OBVIOUS
    <2>3. Results' = Results
      BY <2>1, <2>2, HitRefines
    <2>4. KeysHeld' = KeysHeld
      <3>1. DOMAIN Results = KeysHeld /\ DOMAIN Results' = KeysHeld'
        BY DEF Results
      <3>q. QED
        BY <2>3, <3>1
    <2>q. QED
      BY <1>1, <2>1, <2>4, AnswerAbsent
  <1>q. QED
    BY <1>1, <1>2, <1>3 DEF Lookup, Holding

\* While a call is under way, with a bound, nobody puts its key.
LEMMA AbsentStep ==
    ASSUME "loop" \notin Callers, ~SameKey, MemoInv, Absent, NEW t \in Threads, MemoStep(t)
    PROVE  Absent'
  <1>1. ASSUME slots' = slots PROVE KeysHeld' = KeysHeld
    BY <1>1 DEF KeysHeld, InUse
  <1>2. ASSUME NEW how \in Callers, NEW k \in Keys, Enter(t, how, k) PROVE Absent'
    <2>1. gil = None /\ stack' = [stack EXCEPT ![t] = <<k>>] /\ doing' = [doing EXCEPT ![t] = "call"]
      BY <1>2, MemoSetsAssumption DEF Enter, Go
    <2>2. \A u \in Threads : stack[u] = <<>>
      BY <2>1, MemoSetsAssumption DEF MemoInv, Alone
    <2>3. /\ \A u \in Threads : u # t => stack'[u] = <<>>
          /\ stack'[t] = <<k>> /\ doing'[t] = "call" /\ Len(<<k>>) = 1
      BY <2>1, <2>2 DEF MemoInv, ThreadTypes
    <2>4. Distinct(stack'[t]) /\ Misses(t)'
      BY <2>3 DEF Distinct, Misses
    <2>q. QED
      BY <2>3, <2>4, AbsentOf
  <1>3. ASSUME NEW k \in Keys, Recurse(t, k) PROVE Absent'
    <2>1. /\ doing[t] = "body" /\ slots' = slots /\ bound' = bound
          /\ doing' = [doing EXCEPT ![t] = "call"]
          /\ stack' = [stack EXCEPT ![t] = Append(@, k)]
          /\ bound > 0 => \A i \in DOMAIN stack[t] : stack[t][i] # k
      BY <1>3 DEF Recurse, Go, tableVars
    <2>2. /\ stack[t] \in Seq(Keys) /\ Len(stack[t]) \in Nat
          /\ \A u \in Threads : u # t => stack'[u] = <<>>
      BY <2>1, InCall DEF MemoInv, Alone, ThreadTypes
    <2>3. /\ DOMAIN stack[t] = 1 .. Len(stack[t]) /\ Len(stack'[t]) = Len(stack[t]) + 1
          /\ \A i \in 1 .. Len(stack[t]) : stack'[t][i] = stack[t][i]
          /\ stack'[t][Len(stack[t]) + 1] = k
      BY <2>1, <2>2 DEF MemoInv, ThreadTypes
    <2>4. ASSUME bound > 0 PROVE Distinct(stack'[t]) /\ Misses(t)'
      <3>1. Distinct(stack[t]) /\ Misses(t)
        BY <2>4 DEF Absent
      <3>2. Distinct(stack'[t])
        BY <2>1, <2>2, <2>3, <2>4, <3>1 DEF Distinct
      <3>3. doing'[t] = "call" /\ KeysHeld' = KeysHeld
        BY <1>1, <2>1 DEF MemoInv, ThreadTypes
      <3>4. Misses(t)'
        BY <2>1, <2>2, <2>3, <3>1, <3>3 DEF Misses
      <3>q. QED
        BY <3>2, <3>4
    <2>q. QED
      BY <2>1, <2>2, <2>4, AbsentOf
  <1>4. ASSUME NEW v \in Values, Return(t, v) PROVE Absent'
    BY <1>1, <1>4, StayAbsent DEF Return, tableVars
  <1>5. CASE Fail(t)
    <2>1. \A u \in Threads : stack'[u] = <<>>
      BY <1>5, InCall DEF Fail, MemoInv, Alone, ThreadTypes
    <2>2. Distinct(stack'[t]) /\ Misses(t)'
      BY <2>1 DEF Distinct, Misses
    <2>q. QED
      BY <2>1, <2>2, AbsentOf
  <1>6. CASE Ignore(t)
    BY <1>1, <1>6, AnswerAbsent DEF Ignore, tableVars
  <1>7. CASE StoreAgain(t)
    <2>1. bound = -1 /\ bound' = bound
      BY <1>7, StoreAgainUnbounded DEF StoreAgain
    <2>q. QED
      BY <2>1 DEF Absent
  <1>8. CASE StoreNew(t) \/ Grow(t) \/ LayOut(t)
    <2>1. doing[t] \in {"probe", "grow", "lay"} /\ UNCHANGED <<slots, stack, bound>>
      BY <1>8 DEF StoreNew, Grow, LayOut, tableVars
    <2>q. QED
      BY <1>1, <2>1, StayAbsent
  <1>9. CASE Evict(t)
    BY <1>9, EvictRefines, StayAbsent DEF Evict
  <1>10. CASE Swap(t)
    BY <1>10, SwapRefines, StayAbsent DEF Swap, LaidOut
  <1>11. CASE Place(t)
    BY <1>11, PlaceRefines, AnswerAbsent DEF Place
  <1>q. QED
    BY <1>2, <1>3, <1>4, <1>5, <1>6, <1>7, <1>8, <1>9, <1>10, <1>11, LookupAbsent DEF MemoStep

LEMMA AbsentAlways ==
    ASSUME "loop" \notin Callers, ~SameKey
    PROVE  MemoSpec => []Absent
  <1>1. MemoInit => Absent
    <2> SUFFICES ASSUME MemoInit PROVE Absent
      OBVIOUS
    <2>1. \A t \in Threads : stack[t] = <<>>
      BY DEF MemoInit
    <2>q. QED
      BY <2>1 DEF Absent, Distinct, Misses
  <1>2. MemoInv /\ Absent /\ [MemoNext]_memoVars => Absent'
    <2> SUFFICES ASSUME MemoInv, Absent, [MemoNext]_memoVars PROVE Absent'
      OBVIOUS
    <2>1. CASE UNCHANGED memoVars
      BY <2>1 DEF memoVars, tableVars, threadVars, Absent, Misses, KeysHeld, InUse
    <2>2. CASE MemoNext
      BY <2>2, AbsentStep DEF MemoNext
    <2>q. QED
      BY <2>1, <2>2
  <1>q. QED
    BY <1>1, <1>2, MemoInvariance, PTL DEF MemoSpec

\* Every step of a call, of the table as a cache.
LEMMA CallRefines ==
    ASSUME "loop" \notin Callers, MemoInv, Absent, NEW t \in Threads, MemoStep(t)
    PROVE  [Lru!Next]_(Lru!vars)
  <1>1. ASSUME NEW how \in Callers, NEW k \in Keys, Enter(t, how, k)
        PROVE  [Lru!Next]_(Lru!vars)
    <2>1. \A u \in Threads : doing'[u] \in Storing <=> doing[u] \in Storing
      BY <1>1 DEF Enter, Go, Storing, MemoInv, ThreadTypes
    <2>2. Keeping' = Keeping
      BY <2>1 DEF Keeping, Storing
    <2>q. QED
      BY <1>1, <2>2, QuietRefines DEF Enter, tableVars
  <1>2. ASSUME NEW k \in Keys, Recurse(t, k) PROVE [Lru!Next]_(Lru!vars)
    <2>1. \A u \in Threads : doing'[u] \in Storing <=> doing[u] \in Storing
      BY <1>2 DEF Recurse, Go, Storing, MemoInv, ThreadTypes
    <2>2. Keeping' = Keeping
      BY <2>1 DEF Keeping, Storing
    <2>q. QED
      BY <1>2, <2>2, QuietRefines DEF Recurse, tableVars
  <1>3. ASSUME NEW v \in Values, Return(t, v) PROVE [Lru!Next]_(Lru!vars)
    <2>1. \A u \in Threads : doing'[u] \in Storing <=> doing[u] \in Storing
      BY <1>3 DEF Return, Go, Storing, MemoInv, ThreadTypes
    <2>2. Keeping' = Keeping
      BY <2>1 DEF Keeping, Storing
    <2>q. QED
      BY <1>3, <2>2, QuietRefines DEF Return, tableVars
  <1>4. CASE Fail(t)
    <2>1. \A u \in Threads : doing'[u] \in Storing <=> doing[u] \in Storing
      BY <1>4 DEF Fail, Go, Storing, MemoInv, ThreadTypes
    <2>2. Keeping' = Keeping
      BY <2>1 DEF Keeping, Storing
    <2>q. QED
      BY <1>4, <2>2, QuietRefines DEF Fail, tableVars
  <1>5. CASE Ignore(t)
    <2>1. doing[t] = "probe" /\ Answer(t) /\ slots' = slots /\ UNCHANGED <<bound, answered>>
      BY <1>5 DEF Ignore, tableVars
    <2>2. Keeping = FALSE
      BY <2>1, KeepingNow DEF Storing
    <2>3. Keeping' = FALSE
      BY <2>1, NotKeeping
    <2>q. QED
      BY <2>1, <2>2, <2>3, QuietRefines
  <1>6. CASE Grow(t)
    <2>1. \A u \in Threads : doing'[u] \in Storing <=> doing[u] \in Storing
      BY <1>6 DEF Grow, Go, Storing, MemoInv, ThreadTypes
    <2>2. Keeping' = Keeping
      BY <2>1 DEF Keeping, Storing
    <2>q. QED
      BY <1>6, <2>2, QuietRefines DEF Grow, tableVars
  <1>7. CASE LayOut(t)
    <2>1. Keeping' = Keeping
      BY <1>7 DEF LayOut, Keeping
    <2>q. QED
      BY <1>7, <2>1, QuietRefines DEF LayOut, tableVars
  <1>8. CASE Lookup(t)
    BY <1>8, LookupRefines
  <1>9. CASE StoreAgain(t)
    BY <1>9, StoreAgainStep, StoreAgainRefines DEF Lru!Next
  <1>10. CASE StoreNew(t)
    BY <1>10, StoreNewRefines DEF Lru!Next
  <1>11. CASE Evict(t)
    BY <1>11, EvictRefines DEF Lru!Next
  <1>12. CASE Swap(t)
    BY <1>12, SwapRefines
  <1>13. CASE Place(t)
    BY <1>13, PlaceRefines DEF Lru!Next
  <1>q. QED
    BY <1>1, <1>2, <1>3, <1>4, <1>5, <1>6, <1>7, <1>8, <1>9, <1>10, <1>11, <1>12, <1>13
    DEF MemoStep

\* The table is an LRU cache: it answers what was kept last for a key, keeps everything
\* without a bound, and otherwise lets go of the result used longest ago, at the bound only;
\* but for a body that calls for the key it is called for, which the run `again` refutes.
THEOREM IsLruCache ==
    ASSUME "loop" \notin Callers, ~SameKey
    PROVE  MemoSpec => AnswersAsLru
  <1>1. MemoInit => Lru!Init
    <2> SUFFICES ASSUME MemoInit PROVE Lru!Init
      OBVIOUS
    <2>1. KeysHeld = {} /\ Keeping = FALSE
      BY DEF MemoInit, KeysHeld, InUse, UsedIn, Empty, Keeping
    <2>2. Results = [k \in {} |-> {}] /\ Older = {}
      BY <2>1 DEF Results, Older
    <2>q. QED
      BY <2>1, <2>2 DEF MemoInit, Lru!Init
  <1>2. MemoInv /\ Absent /\ [MemoNext]_memoVars => [Lru!Next]_(Lru!vars)
    <2> SUFFICES ASSUME MemoInv, Absent, [MemoNext]_memoVars PROVE [Lru!Next]_(Lru!vars)
      OBVIOUS
    <2>1. CASE UNCHANGED memoVars
      <3>1. slots' = slots /\ doing' = doing /\ UNCHANGED <<bound, answered>>
        BY <2>1 DEF memoVars, tableVars, threadVars
      <3>2. Keeping' = Keeping
        BY <3>1 DEF Keeping
      <3>q. QED
        BY <3>1, <3>2, QuietRefines
    <2>2. CASE MemoNext
      BY <2>2, CallRefines DEF MemoNext
    <2>q. QED
      BY <2>1, <2>2
  <1>q. QED
    BY <1>1, <1>2, MemoInvariance, AbsentAlways, PTL DEF MemoSpec, AnswersAsLru, Lru!Spec

-----------------------------------------------------------------------------
(* The three together. *)

\* A behaviour of the three is one of each: they share nothing, and what is proved of one
\* holds of them together.
LEMMA EachOfThem == NativeSpec => MemoSpec /\ GpuSpec /\ ResidentSpec
  <1>1. NativeInit => MemoInit /\ GpuInit /\ ResidentInit
    BY DEF NativeInit
  <1>2. [NativeNext]_NativeVars =>
            [MemoNext]_memoVars /\ [GpuNext]_gpuVars /\ [ResidentNext]_residentVars
    BY DEF NativeNext, NativeVars
  <1>q. QED
    BY <1>1, <1>2, PTL DEF NativeSpec, MemoSpec, GpuSpec, ResidentSpec

\* The types of the table, the block and the resident objects, in every reachable state.
THEOREM NativeTyping == ASSUME "loop" \notin Callers PROVE NativeSpec => []NativeTypeOK
  <1>1. MemoTypeOK /\ GpuTypeOK /\ ResidentTypeOK => NativeTypeOK
    BY DEF NativeTypeOK
  <1>q. QED
    BY <1>1, EachOfThem, MemoTyping, GpuTyping, ResidentTyping, PTL

=============================================================================
