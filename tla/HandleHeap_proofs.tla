-------------------------- MODULE HandleHeap_proofs --------------------------
(***************************************************************************)
(* Proofs about HandleHeap, for every finite set of handles, every width   *)
(* of a record and every bound.                                            *)
(*                                                                         *)
(* The argument is one of counting.  A step that changes a place of a      *)
(* record changes the references of two handles by one each, and their     *)
(* counts with them; so a handle whose count is zero is named nowhere and  *)
(* held nowhere, and freeing it leaves nothing behind.  A holder is        *)
(* garbage when the collector finds each of its references in a holder     *)
(* that is garbage too: what is left to free is held only from there.      *)
(***************************************************************************)
EXTENDS HandleHeap, FiniteSetTheorems, SequenceTheorems, TLAPS

-----------------------------------------------------------------------------
(* The inductive invariant. *)

\* What a record holds is live, and so is the record, a holder's.
Holding ==
    \A h \in Handles, p \in Places : record[h][p] # Null =>
        h \in live \cap Holders /\ record[h][p] \in live

\* What is named is live; a failed call leaves no name.
Naming ==
    /\ \A h \in Handles : names[h] > 0 => h \in live
    /\ failed => \A h \in Handles : names[h] = 0

\* A count is at least the references there are: after a failed call it may be more.
Counted == \A h \in live :
    /\ refs[h] >= names[h] + HeldBy(h)
    /\ ~failed => refs[h] = names[h] + HeldBy(h)

\* The handles of the worklist, each there once, are those without a reference,
\* but for the garbage of a collection, which is freed by other means.
Elements(s) == {s[i] : i \in DOMAIN s}
Once(s) == \A i, j \in DOMAIN s : s[i] = s[j] => i = j

Dead == Elements(dying) \cup ({freeing} \ {Null})
Dying ==
    /\ freeing = Null => dying = <<>>
    /\ Once(dying) /\ freeing \notin Elements(dying)
    /\ Dead \subseteq live \ toFree
    /\ \A h \in live : refs[h] = 0 => h \in Dead \cup toFree
    /\ \A h \in Dead : refs[h] = 0

\* What the runtime is at.
Staged ==
    /\ pc \notin {"break", "free"} => toFree = {}
    /\ making # Null => making \notin live
    /\ pc = "run" => making = Null
    /\ pc \in {"sweep", "track"} => making # Null
    /\ making # Null => (failed <=> pc = "sweep")

\* Garbage is named nowhere, and held only by the values of garbage; once those are
\* broken, nowhere.
Garbage ==
    /\ toFree \subseteq live \cap Holders
    /\ \A h \in toFree : names[h] = 0
    /\ \A g \in Handles, p \in Places :
         record[g][p] \in toFree => g \in toFree /\ p # KeyPlace
    /\ pc = "free" => \A h \in toFree, w \in Words : record[h][w] = Null

IInv == HeapTypeOK /\ Holding /\ Naming /\ Counted /\ Dying /\ Staged /\ Garbage

-----------------------------------------------------------------------------
(* Lemmas: what holds a handle, counted. *)

LEMMA PlacesAre ==
    /\ KeyPlace \in Places /\ Words \subseteq Places /\ KeyPlace \notin Words
    /\ Places = Words \cup {KeyPlace} /\ IsFiniteSet(Places)
<1>1. Width \in Nat /\ Width > 0
  BY HeapBoundsAssumption
<1>2. IsFiniteSet(0 .. Width)
  BY <1>1, FS_Interval
<1>3. QED
  BY <1>1, <1>2 DEF KeyPlace, Words, Places

\* The places of a set of handles where a state of the records holds x.
Spots(L, r, x) == {e \in L \X Places : r[e[1]][e[2]] = x}

LEMMA SpotsFinite ==
    ASSUME NEW L \in SUBSET Handles, NEW r, NEW x
    PROVE  IsFiniteSet(Spots(L, r, x)) /\ Cardinality(Spots(L, r, x)) \in Nat
<1>1. IsFiniteSet(L)
  BY HandlesAssumption, FS_Subset
<1>2. IsFiniteSet(L \X Places)
  BY <1>1, PlacesAre, FS_Product
<1>3. Spots(L, r, x) \in SUBSET (L \X Places)
  BY DEF Spots
<1>4. IsFiniteSet(Spots(L, r, x))
  BY <1>2, <1>3, FS_Subset
<1>5. QED
  BY <1>4, FS_CardinalityType

LEMMA HeldByType ==
    ASSUME HeapTypeOK, NEW x
    PROVE  HeldBy(x) = Cardinality(Spots(live, record, x)) /\ HeldBy(x) \in Nat
<1>1. HeldBy(x) = Cardinality(Spots(live, record, x))
  BY DEF HeldBy, Spots
<1>2. live \in SUBSET Handles
  BY DEF HeapTypeOK
<1>3. QED
  BY <1>1, <1>2, SpotsFinite

\* A handle that is held nowhere is in no place, and the other way round.
LEMMA HeldNowhere ==
    ASSUME HeapTypeOK, NEW x
    PROVE  HeldBy(x) = 0 <=> \A h \in live, p \in Places : record[h][p] # x
<1>1. live \in SUBSET Handles
  BY DEF HeapTypeOK
<1>2. HeldBy(x) = 0 <=> Spots(live, record, x) = {}
  BY <1>1, HeldByType, SpotsFinite, FS_EmptySet
<1>3. Spots(live, record, x) = {} <=> \A h \in live, p \in Places : record[h][p] # x
  <2>1. ASSUME NEW h \in live, NEW p \in Places, record[h][p] = x
        PROVE  <<h, p>> \in Spots(live, record, x)
    BY <2>1 DEF Spots
  <2>2. ASSUME NEW e \in Spots(live, record, x)
        PROVE  e[1] \in live /\ e[2] \in Places /\ record[e[1]][e[2]] = x
    BY <2>2 DEF Spots
  <2>3. QED
    BY <2>1, <2>2
<1>4. QED
  BY <1>2, <1>3

\* The references to x after a step that sets one place: one to what it holds now more,
\* one to what it held less,
LEMMA HeldSet ==
    ASSUME HeapTypeOK, NEW h \in live, NEW p \in Places, NEW x, live' = live,
           \A g \in Handles, q \in Places : g # h \/ q # p => record'[g][q] = record[g][q]
    PROVE  HeldBy(x)' = HeldBy(x) + (IF x = record'[h][p] THEN 1 ELSE 0)
                          - (IF x = record[h][p] THEN 1 ELSE 0)
<1> DEFINE Old == Spots(live, record, x)
           New == Spots(live, record', x)
           e == <<h, p>>
<1>1. h \in Handles /\ e \in live \X Places /\ e[1] = h /\ e[2] = p
  BY DEF HeapTypeOK
<1>2. \A g \in live, q \in Places : g # h \/ q # p => record'[g][q] = record[g][q]
  BY DEF HeapTypeOK
<1>3. New = IF x = record'[h][p] THEN Old \cup {e} ELSE Old \ {e}
  BY <1>1, <1>2 DEF Spots
<1>4. e \in Old <=> x = record[h][p]
  BY <1>1 DEF Spots
<1>5. IsFiniteSet(Old) /\ Cardinality(Old) \in Nat
  BY SpotsFinite DEF HeapTypeOK
<1>6. /\ Cardinality(Old \cup {e}) = IF e \in Old THEN Cardinality(Old) ELSE Cardinality(Old) + 1
      /\ Cardinality(Old \ {e}) = IF e \in Old THEN Cardinality(Old) - 1 ELSE Cardinality(Old)
  BY <1>5, FS_AddElement, FS_RemoveElement
<1> HIDE DEF Old, New, e
<1>7. Cardinality(New) = Cardinality(Old) + (IF x = record'[h][p] THEN 1 ELSE 0)
                           - (IF x = record[h][p] THEN 1 ELSE 0)
  BY <1>3, <1>4, <1>5, <1>6
<1>8. HeldBy(x)' = Cardinality(New)
  BY DEF HeldBy, Spots, New
<1>9. HeldBy(x) = Cardinality(Old)
  BY HeldByType DEF Old
<1>10. QED
  BY <1>7, <1>8, <1>9

\* and after one that makes or frees a handle whose record is empty.
LEMMA HeldLive ==
    ASSUME HeapTypeOK, NEW h \in Handles, \A p \in Places : record[h][p] = Null,
           NEW x \in Handles, record' = record, live' = live \cup {h} \/ live' = live \ {h}
    PROVE  HeldBy(x)' = HeldBy(x)
<1>1. Null # x
  BY HandlesAssumption
<1>2. {e \in live' \X Places : record[e[1]][e[2]] = x}
        = {e \in live \X Places : record[e[1]][e[2]] = x}
  <2>1. ASSUME NEW e \in (live \cup {h}) \X Places, record[e[1]][e[2]] = x
        PROVE  e \in live \X Places /\ e \in live' \X Places
    <3>1. e[1] \in live \cup {h} /\ e[2] \in Places /\ e = <<e[1], e[2]>>
      BY <2>1
    <3>2. e[1] # h
      BY <1>1, <2>1, <3>1
    <3>3. QED
      BY <3>1, <3>2
  <2>2. live \subseteq live \cup {h} /\ live' \subseteq live \cup {h}
    OBVIOUS
  <2>3. QED
    BY <2>1, <2>2
<1>3. QED
  BY <1>2 DEF HeldBy

LEMMA HeldSame ==
    ASSUME NEW x, UNCHANGED <<live, record>>
    PROVE  HeldBy(x)' = HeldBy(x)
  BY DEF HeldBy

\* A handle in a place is held, and has a count.
LEMMA HeldCounts ==
    ASSUME IInv, NEW h \in Handles, NEW p \in Places, record[h][p] # Null
    PROVE  /\ h \in live \cap Holders /\ record[h][p] \in live
           /\ HeldBy(record[h][p]) > 0 /\ refs[record[h][p]] > 0
           /\ record[h][p] \notin Dead
<1>1. h \in live \cap Holders /\ record[h][p] \in live
  BY DEF IInv, Holding
<1>2. HeldBy(record[h][p]) \in Nat /\ HeldBy(record[h][p]) # 0
  BY <1>1, HeldByType, HeldNowhere DEF IInv
<1>3. names[record[h][p]] \in Nat /\ refs[record[h][p]] \in Nat
  BY <1>1 DEF IInv, HeapTypeOK
<1>4. refs[record[h][p]] >= names[record[h][p]] + HeldBy(record[h][p])
  BY <1>1 DEF IInv, Counted
<1>5. refs[record[h][p]] > 0
  BY <1>2, <1>3, <1>4
<1>6. record[h][p] \notin Dead
  BY <1>5 DEF IInv, Dying
<1>7. QED
  BY <1>1, <1>2, <1>5, <1>6

LEMMA NameCounts ==
    ASSUME IInv, NEW h \in Names
    PROVE  h \in live /\ refs[h] > 0 /\ ~failed /\ h \notin toFree
<1>1. h \in Handles /\ names[h] > 0 /\ names[h] \in Nat /\ refs[h] \in Nat
  BY DEF IInv, HeapTypeOK, Names
<1>2. h \in live /\ ~failed
  BY <1>1 DEF IInv, Naming
<1>3. HeldBy(h) \in Nat
  BY HeldByType DEF IInv
<1>4. refs[h] >= names[h] + HeldBy(h)
  BY <1>2 DEF IInv, Counted
<1>5. h \notin toFree
  BY <1>1 DEF IInv, Garbage
<1>6. QED
  BY <1>1, <1>2, <1>3, <1>4, <1>5

-----------------------------------------------------------------------------
(* Lemmas: the worklist. *)

LEMMA AppendElements ==
    ASSUME NEW s \in Seq(Handles), NEW c \in Handles
    PROVE  /\ Append(s, c) \in Seq(Handles)
           /\ Elements(Append(s, c)) = Elements(s) \cup {c}
           /\ Once(s) /\ c \notin Elements(s) => Once(Append(s, c))
<1> DEFINE t == Append(s, c)
<1>1. /\ t \in Seq(Handles) /\ Len(t) = Len(s) + 1 /\ Len(s) \in Nat
      /\ \A i \in 1 .. Len(s) : t[i] = s[i]
      /\ t[Len(s) + 1] = c
      /\ DOMAIN s = 1 .. Len(s) /\ DOMAIN t = 1 .. Len(t)
  BY AppendProperties, LenProperties
<1>2. DOMAIN t = DOMAIN s \cup {Len(s) + 1} /\ Len(s) + 1 \notin DOMAIN s
  BY <1>1
<1> HIDE DEF t
<1>3. Elements(t) = Elements(s) \cup {c}
  BY <1>1, <1>2 DEF Elements
<1>4. ASSUME Once(s), c \notin Elements(s) PROVE Once(t)
  BY <1>1, <1>2, <1>4 DEF Elements, Once
<1>5. QED
  BY <1>1, <1>3, <1>4 DEF t

LEMMA LastElements ==
    ASSUME NEW s \in Seq(Handles), s # <<>>, Once(s)
    PROVE  /\ Front(s) \in Seq(Handles) /\ Once(Front(s))
           /\ Last(s) \in Elements(s) /\ Last(s) \notin Elements(Front(s))
           /\ Elements(s) = Elements(Front(s)) \cup {Last(s)}
<1> DEFINE t == Front(s)
<1>1. Len(s) \in Nat /\ Len(s) > 0 /\ DOMAIN s = 1 .. Len(s)
  BY LenProperties, EmptySeq
<1>2. \A i \in 1 .. Len(s) - 1 : s[i] \in Handles
  BY <1>1
<1>3. /\ t \in Seq(Handles) /\ Len(t) = Len(s) - 1
      /\ \A i \in 1 .. Len(s) - 1 : t[i] = s[i]
  <2>1. t = SubSeq(s, 1, Len(s) - 1) /\ Len(s) - 1 \in Int
    BY <1>1 DEF Front
  <2> HIDE DEF t
  <2>2. /\ SubSeq(s, 1, Len(s) - 1) \in Seq(Handles)
        /\ Len(SubSeq(s, 1, Len(s) - 1)) = IF 1 <= Len(s) - 1 THEN Len(s) - 1 - 1 + 1 ELSE 0
        /\ \A i \in 1 .. Len(s) - 1 - 1 + 1 : SubSeq(s, 1, Len(s) - 1)[i] = s[1 + i - 1]
    BY <1>2, <2>1, SubSeqProperties
  <2>3. QED
    BY <1>1, <2>1, <2>2
<1>4. DOMAIN t = 1 .. Len(t)
  BY <1>3, LenProperties
<1>5. DOMAIN s = DOMAIN t \cup {Len(s)} /\ Len(s) \notin DOMAIN t
  BY <1>1, <1>3, <1>4
<1>6. Last(s) = s[Len(s)]
  BY DEF Last
<1>7. \A i \in DOMAIN t : t[i] = s[i]
  BY <1>3, <1>4
<1> HIDE DEF t
<1>8. Elements(s) = Elements(t) \cup {Last(s)} /\ Last(s) \in Elements(s)
  BY <1>5, <1>6, <1>7 DEF Elements
<1>9. Once(t) /\ Last(s) \notin Elements(t)
  BY <1>5, <1>6, <1>7 DEF Elements, Once
<1>10. QED
  BY <1>3, <1>8, <1>9 DEF t

LEMMA NoElements == Elements(<<>>) = {} /\ Once(<<>>)
  BY DEF Elements, Once

\* A release, of counts that differ from the references' only where there are some.
LEMMA ReleaseDies ==
    ASSUME IInv, NEW counts \in [Handles -> Nat], NEW c \in live \ toFree, counts[c] > 0,
           \A x \in live : counts[x] = 0 <=> refs[x] = 0,
           Release(counts, c), UNCHANGED <<live, toFree>>
    PROVE  /\ refs' = [counts EXCEPT ![c] = counts[c] - 1] /\ refs' \in [Handles -> Nat]
           /\ freeing' \in Handles \cup {Null} /\ dying' \in Seq(Handles) /\ Dying'
<1>1. c \in Handles /\ c # Null /\ Null \notin Handles
  BY HandlesAssumption DEF IInv, HeapTypeOK
<1>2. refs' = [counts EXCEPT ![c] = counts[c] - 1]
  BY DEF Release
<1>3. refs' \in [Handles -> Nat] /\ refs'[c] = counts[c] - 1
  BY <1>1, <1>2
<1>4. \A x \in live : x # c => (refs'[x] = 0 <=> refs[x] = 0)
  BY <1>1, <1>2 DEF IInv, HeapTypeOK
<1>5. c \notin Dead /\ Dead \subseteq live \ toFree
  BY DEF IInv, Dying
<1>6. dying \in Seq(Handles) /\ freeing \in Handles \cup {Null}
  BY DEF IInv, HeapTypeOK
<1>7. CASE counts[c] > 1 /\ UNCHANGED worklist
  <2>1. Dead' = Dead /\ refs'[c] # 0
    BY <1>3, <1>7 DEF Dead, worklist
  <2>2. Dying'
    BY <1>4, <1>5, <1>7, <2>1 DEF IInv, Dying, worklist
  <2>3. QED
    BY <1>2, <1>3, <1>6, <1>7, <2>2 DEF worklist
<1>8. CASE counts[c] <= 1 /\ freeing = Null /\ freeing' = c /\ UNCHANGED dying
  <2>1. refs'[c] = 0
    BY <1>1, <1>3, <1>8
  <2>2. dying = <<>> /\ Dead = {} /\ Dead' = {c}
    BY <1>1, <1>8, NoElements DEF IInv, Dying, Dead
  <2>3. \A x \in live : refs[x] = 0 => x \in toFree
    BY <2>2 DEF IInv, Dying
  <2>4. Dying'
    BY <1>1, <1>4, <1>8, <2>1, <2>2, <2>3, NoElements DEF Dying
  <2>5. QED
    BY <1>1, <1>2, <1>3, <1>6, <1>8, <2>4
<1>9. CASE counts[c] <= 1 /\ freeing # Null /\ dying' = Append(dying, c) /\ UNCHANGED freeing
  <2>1. refs'[c] = 0
    BY <1>1, <1>3, <1>9
  <2>2. dying' \in Seq(Handles) /\ Elements(dying)' = Elements(dying) \cup {c} /\ Once(dying)'
    <3>1. Once(dying) /\ c \notin Elements(dying)
      BY <1>5 DEF IInv, Dying, Dead
    <3>2. /\ Append(dying, c) \in Seq(Handles) /\ Once(Append(dying, c))
          /\ Elements(Append(dying, c)) = Elements(dying) \cup {c}
      BY <1>1, <1>6, <3>1, AppendElements
    <3>3. QED
      BY <1>9, <3>2 DEF Elements, Once
  <2>3. Dead' = Dead \cup {c} /\ c # freeing
    BY <1>1, <1>5, <1>9, <2>2 DEF Dead
  <2>4. Dying'
    BY <1>4, <1>5, <1>9, <2>1, <2>2, <2>3 DEF IInv, Dying
  <2>5. QED
    BY <1>2, <1>3, <1>6, <1>9, <2>2, <2>4
<1>10. QED
  BY <1>7, <1>8, <1>9 DEF Release

-----------------------------------------------------------------------------
(* The steps that let go of what a place holds. *)

\* A place's reference, not to garbage, let go of.
LEMMA LetGoKeeps ==
    ASSUME IInv, NEW h \in Handles, NEW p \in Places, record[h][p] # Null,
           record[h][p] \notin toFree, LetGo(h, p),
           UNCHANGED <<live, names, made, survived, failed, pc, making, toFree>>
    PROVE  IInv'
<1> DEFINE c == record[h][p]
<1>1. h \in live \cap Holders /\ c \in live /\ refs[c] > 0 /\ c \in Handles
  BY HeldCounts DEF IInv, HeapTypeOK
<1>2. /\ HeapTypeOK /\ Null \notin Handles
      /\ record' = [record EXCEPT ![h][p] = Null] /\ Release(refs, c)
  BY HandlesAssumption DEF IInv, LetGo
<1>3. \A g \in Handles, q \in Places :
        record'[g][q] = IF g = h /\ q = p THEN Null ELSE record[g][q]
  BY <1>2 DEF HeapTypeOK
<1> HIDE DEF c
<1>4. /\ refs' = [refs EXCEPT ![c] = refs[c] - 1] /\ refs' \in [Handles -> Nat]
      /\ freeing' \in Handles \cup {Null} /\ dying' \in Seq(Handles) /\ Dying'
  <2>1. refs \in [Handles -> Nat] /\ c \in live \ toFree
    BY <1>1 DEF IInv, HeapTypeOK, c
  <2>2. QED
    BY <1>1, <1>2, <2>1, ReleaseDies
<1>5. HeapTypeOK'
  <2>1. record' \in [Handles -> [Places -> Handles \cup {Null}]]
    BY <1>2 DEF HeapTypeOK
  <2>2. QED
    BY <1>2, <1>4, <2>1 DEF HeapTypeOK
<1>6. Holding'
  BY <1>2, <1>3 DEF IInv, Holding
<1>7. Naming'
  BY DEF IInv, Naming
<1>8. Counted'
  <2> SUFFICES ASSUME NEW x \in live
               PROVE  /\ refs'[x] >= names[x] + HeldBy(x)'
                      /\ ~failed => refs'[x] = names[x] + HeldBy(x)'
    BY DEF Counted
  <2>1. x \in Handles /\ x # Null
    BY <1>2 DEF HeapTypeOK
  <2>2. refs'[x] = refs[x] - (IF x = c THEN 1 ELSE 0)
    BY <1>4, <2>1 DEF IInv, HeapTypeOK
  <2>3. HeldBy(x)' = HeldBy(x) - (IF x = c THEN 1 ELSE 0)
    <3>1. HeldBy(x)' = HeldBy(x) + (IF x = record'[h][p] THEN 1 ELSE 0)
                         - (IF x = record[h][p] THEN 1 ELSE 0)
      BY <1>1, <1>2, <1>3, HeldSet
    <3>2. record'[h][p] = Null
      BY <1>3
    <3>3. QED
      BY <1>2, <2>1, <3>1, <3>2, HeldByType DEF c
  <2>4. HeldBy(x) \in Nat /\ names[x] \in Nat /\ refs[x] \in Nat
    BY <1>2, <2>1, HeldByType DEF HeapTypeOK
  <2>5. refs[x] >= names[x] + HeldBy(x) /\ (~failed => refs[x] = names[x] + HeldBy(x))
    BY DEF IInv, Counted
  <2>6. QED
    BY <2>2, <2>3, <2>4, <2>5
<1>9. Staged'
  BY DEF IInv, Staged
<1>10. Garbage'
  BY <1>2, <1>3, PlacesAre DEF IInv, Garbage, HeapTypeOK
<1>11. QED
  BY <1>4, <1>5, <1>6, <1>7, <1>8, <1>9, <1>10 DEF IInv

LEMMA DestroyStep ==
    ASSUME IInv, Destroy
    PROVE  IInv'
<1>1. freeing \in Handles /\ freeing \notin toFree
  BY HandlesAssumption DEF Destroy, IInv, HeapTypeOK, Dying, Dead
<1>2. PICK p \in Places : record[freeing][p] # Null /\ LetGo(freeing, p)
  BY DEF Destroy, Held
<1>3. record[freeing][p] \notin toFree
  BY <1>1, <1>2 DEF IInv, Garbage
<1>4. QED
  BY <1>1, <1>2, <1>3, LetGoKeeps DEF Destroy

LEMMA FreeKeyStep ==
    ASSUME IInv, NEW h \in Handles, FreeKey(h)
    PROVE  IInv'
<1>1. record[h][KeyPlace] # Null /\ KeyPlace \in Places /\ record[h][KeyPlace] \notin toFree
  BY PlacesAre DEF FreeKey, IInv, Garbage
<1>2. QED
  BY <1>1, LetGoKeeps DEF FreeKey

LEMMA BreakStep ==
    ASSUME IInv, NEW h \in Handles, NEW w \in Words, Break(h, w)
    PROVE  IInv'
<1> DEFINE c == record[h][w]
<1>1. c # Null /\ h \in toFree /\ At("break") /\ w \in Places
  BY PlacesAre DEF Break
<1>2. CASE c \notin toFree /\ LetGo(h, w)
  BY <1>1, <1>2, LetGoKeeps DEF Break
<1>3. CASE /\ c \in toFree
           /\ record' = [record EXCEPT ![h][w] = Null]
           /\ refs' = [refs EXCEPT ![c] = @ - 1]
           /\ UNCHANGED worklist
  <2>1. /\ h \in live \cap Holders /\ c \in live /\ c \in Handles /\ refs[c] > 0
        /\ HeapTypeOK /\ Null \notin Handles
    BY <1>1, HeldCounts, HandlesAssumption DEF IInv, HeapTypeOK
  <2>2. \A g \in Handles, q \in Places :
          record'[g][q] = IF g = h /\ q = w THEN Null ELSE record[g][q]
    BY <1>3, <2>1 DEF HeapTypeOK
  <2>3. UNCHANGED <<live, names, made, survived, failed, pc, making, toFree, freeing, dying>>
    BY <1>3 DEF Break, worklist
  <2> HIDE DEF c
  <2>4. refs' \in [Handles -> Nat]
        /\ \A x \in Handles : refs'[x] = refs[x] - (IF x = c THEN 1 ELSE 0)
    BY <1>3, <2>1 DEF HeapTypeOK
  <2>5. HeapTypeOK'
    <3>1. record' \in [Handles -> [Places -> Handles \cup {Null}]]
      BY <1>3, <2>1 DEF HeapTypeOK
    <3>2. QED
      BY <2>1, <2>3, <2>4, <3>1 DEF HeapTypeOK
  <2>6. Holding'
    BY <2>1, <2>2, <2>3 DEF IInv, Holding
  <2>7. Naming'
    BY <2>3 DEF IInv, Naming
  <2>8. Counted'
    <3> SUFFICES ASSUME NEW x \in live
                 PROVE  /\ refs'[x] >= names[x] + HeldBy(x)'
                        /\ ~failed => refs'[x] = names[x] + HeldBy(x)'
      BY <2>3 DEF Counted
    <3>1. x \in Handles /\ x # Null
      BY <2>1 DEF HeapTypeOK
    <3>2. HeldBy(x)' = HeldBy(x) - (IF x = c THEN 1 ELSE 0)
      <4>1. HeldBy(x)' = HeldBy(x) + (IF x = record'[h][w] THEN 1 ELSE 0)
                           - (IF x = record[h][w] THEN 1 ELSE 0)
        BY <1>1, <2>1, <2>2, <2>3, HeldSet
      <4>2. record'[h][w] = Null
        BY <1>1, <2>2
      <4>3. QED
        BY <2>1, <3>1, <4>1, <4>2, HeldByType DEF c
    <3>3. HeldBy(x) \in Nat /\ names[x] \in Nat /\ refs[x] \in Nat
      BY <2>1, <3>1, HeldByType DEF HeapTypeOK
    <3>4. refs[x] >= names[x] + HeldBy(x) /\ (~failed => refs[x] = names[x] + HeldBy(x))
      BY DEF IInv, Counted
    <3>5. QED
      BY <2>4, <3>1, <3>2, <3>3, <3>4
  <2>9. Dying'
    <3>1. Dead' = Dead /\ c \notin Dead
      BY <1>3, <2>3 DEF Dead, IInv, Dying
    <3>2. \A x \in live : x # c => refs'[x] = refs[x]
      BY <2>1, <2>4 DEF HeapTypeOK
    <3>3. QED
      BY <1>3, <2>3, <3>1, <3>2 DEF IInv, Dying
  <2>10. Staged'
    BY <2>3 DEF IInv, Staged
  <2>11. Garbage'
    <3>1. Null \notin toFree /\ toFree' = toFree /\ pc' # "free"
      BY <1>1, <2>1, <2>3 DEF HeapTypeOK, At
    <3>2. \A g \in Handles, q \in Places :
            record'[g][q] \in toFree => record[g][q] \in toFree
      BY <2>2, <3>1
    <3>3. QED
      BY <2>3, <3>1, <3>2 DEF IInv, Garbage
  <2>12. QED
    BY <2>5, <2>6, <2>7, <2>8, <2>9, <2>10, <2>11 DEF IInv
<1>4. QED
  BY <1>2, <1>3 DEF Break

-----------------------------------------------------------------------------
(* The program's steps. *)

LEMMA AtRun ==
    ASSUME IInv, At("run")
    PROVE  toFree = {} /\ making = Null /\ freeing = Null /\ dying = <<>> /\ Dead = {}
<1>1. toFree = {} /\ making = Null /\ freeing = Null
  BY DEF At, IInv, Staged
<1>2. dying = <<>>
  BY <1>1 DEF IInv, Dying
<1>3. QED
  BY <1>1, <1>2, NoElements DEF Dead

\* A name's handle stored where another one was, or nothing.
LEMMA ReplacedKeeps ==
    ASSUME IInv, At("run"), NEW h \in Names \cap Holders, NEW p \in Places,
           NEW c \in Names \cup {Null}, Replaced(h, p, c),
           UNCHANGED <<live, names, made, survived, failed, pc, making, toFree>>
    PROVE  IInv'
<1> DEFINE old == record[h][p]
<1>1. /\ h \in live /\ h \in Handles /\ HeapTypeOK /\ Null \notin Handles
      /\ c # Null => c \in live /\ c \in Handles /\ refs[c] > 0
  BY NameCounts, HandlesAssumption DEF IInv, Names
<1>2. old # Null => old \in live /\ old \in Handles /\ refs[old] > 0
  BY <1>1, HeldCounts DEF HeapTypeOK
<1>3. \A g \in Handles, q \in Places :
        record'[g][q] = IF g = h /\ q = p THEN c ELSE record[g][q]
  BY <1>1 DEF HeapTypeOK, Replaced
<1>4. /\ Retained(c) \in [Handles -> Nat]
      /\ \A x \in Handles : Retained(c)[x] = refs[x] + (IF x = c THEN 1 ELSE 0)
  BY <1>1 DEF HeapTypeOK, Retained
<1>5. \A x \in live : Retained(c)[x] = 0 <=> refs[x] = 0
  <2> SUFFICES ASSUME NEW x \in live PROVE Retained(c)[x] = 0 <=> refs[x] = 0
    OBVIOUS
  <2>1. x \in Handles /\ refs[x] \in Nat
    BY <1>1 DEF HeapTypeOK
  <2>2. QED
    BY <1>1, <1>4, <2>1
<1>6. toFree = {} /\ freeing = Null /\ dying = <<>> /\ Dead = {}
  BY AtRun
<1>7. /\ refs' \in [Handles -> Nat] /\ freeing' \in Handles \cup {Null}
      /\ dying' \in Seq(Handles) /\ Dying'
      /\ \A x \in live : refs'[x] = refs[x] + (IF x = c THEN 1 ELSE 0)
                                          - (IF x = old THEN 1 ELSE 0)
  <2>1. CASE old = Null /\ refs' = Retained(c) /\ UNCHANGED worklist
    <3>1. Dead' = Dead
      BY <2>1 DEF Dead, worklist
    <3>2. Dying'
      BY <1>5, <1>6, <2>1, <3>1 DEF IInv, Dying, worklist
    <3>3. \A x \in live : refs'[x] = refs[x] + (IF x = c THEN 1 ELSE 0)
                                          - (IF x = old THEN 1 ELSE 0)
      BY <1>1, <1>4, <2>1 DEF HeapTypeOK
    <3>4. QED
      BY <1>1, <1>4, <2>1, <3>2, <3>3 DEF HeapTypeOK, worklist
  <2>2. CASE old # Null /\ Release(Retained(c), old)
    <3> HIDE DEF old
    <3>1. old \in live \ toFree /\ Retained(c)[old] > 0 /\ old \in Handles
      <4>1. refs[old] \in Nat
        BY <1>1, <1>2, <2>2 DEF HeapTypeOK
      <4>2. QED
        BY <1>2, <1>4, <1>6, <2>2, <4>1
    <3>2. /\ refs' = [Retained(c) EXCEPT ![old] = Retained(c)[old] - 1]
          /\ refs' \in [Handles -> Nat] /\ freeing' \in Handles \cup {Null}
          /\ dying' \in Seq(Handles) /\ Dying'
      BY <1>4, <1>5, <2>2, <3>1, ReleaseDies
    <3>3. \A x \in live : refs'[x] = refs[x] + (IF x = c THEN 1 ELSE 0)
                                          - (IF x = old THEN 1 ELSE 0)
      <4> TAKE x \in live
      <4>1. x \in Handles /\ refs[x] \in Nat
        BY <1>1 DEF HeapTypeOK
      <4>2. Retained(c)[x] = refs[x] + (IF x = c THEN 1 ELSE 0) /\ Retained(c)[x] \in Nat
        BY <1>4, <4>1
      <4>3. refs'[x] = IF x = old THEN Retained(c)[x] - 1 ELSE Retained(c)[x]
        BY <1>4, <3>2, <4>1
      <4>4. CASE x = old
        BY <4>1, <4>2, <4>3, <4>4
      <4>5. CASE x # old
        BY <4>1, <4>2, <4>3, <4>5
      <4>6. QED
        BY <4>4, <4>5
    <3>4. QED
      BY <3>2, <3>3
  <2>3. QED
    BY <2>1, <2>2 DEF Replaced
<1> HIDE DEF old
<1>8. HeapTypeOK'
  <2>1. record' \in [Handles -> [Places -> Handles \cup {Null}]]
    BY <1>1 DEF HeapTypeOK, Replaced
  <2>2. QED
    BY <1>1, <1>7, <2>1 DEF HeapTypeOK
<1>9. Holding'
  BY <1>1, <1>3 DEF IInv, Holding
<1>10. Naming'
  BY DEF IInv, Naming
<1>11. Counted'
  <2> SUFFICES ASSUME NEW x \in live
               PROVE  /\ refs'[x] >= names[x] + HeldBy(x)'
                      /\ ~failed => refs'[x] = names[x] + HeldBy(x)'
    BY DEF Counted
  <2>1. x \in Handles /\ x # Null
    BY <1>1 DEF HeapTypeOK
  <2>2. HeldBy(x)' = HeldBy(x) + (IF x = c THEN 1 ELSE 0) - (IF x = old THEN 1 ELSE 0)
    <3>1. HeldBy(x)' = HeldBy(x) + (IF x = record'[h][p] THEN 1 ELSE 0)
                         - (IF x = record[h][p] THEN 1 ELSE 0)
      BY <1>1, <1>3, HeldSet
    <3>2. record'[h][p] = c
      BY <1>1, <1>3
    <3>3. QED
      BY <3>1, <3>2 DEF old
  <2>3. HeldBy(x) \in Nat /\ names[x] \in Nat /\ refs[x] \in Nat
    BY <1>1, <2>1, HeldByType DEF HeapTypeOK
  <2>4. refs[x] >= names[x] + HeldBy(x) /\ (~failed => refs[x] = names[x] + HeldBy(x))
    BY DEF IInv, Counted
  <2>5. QED
    BY <1>7, <2>2, <2>3, <2>4
<1>12. Staged'
  BY DEF IInv, Staged
<1>13. Garbage'
  BY <1>6 DEF IInv, Garbage, At
<1>14. QED
  BY <1>7, <1>8, <1>9, <1>10, <1>11, <1>12, <1>13 DEF IInv

\* A name more of a handle that is held.
LEMMA NamedOnce ==
    ASSUME IInv, At("run"), ~failed, NEW c \in live, refs[c] > 0, names[c] < MaxNames,
           names' = [names EXCEPT ![c] = @ + 1], refs' = [refs EXCEPT ![c] = @ + 1],
           UNCHANGED <<live, record, worklist, made, survived, failed, pc, making, toFree>>
    PROVE  IInv'
<1>1. HeapTypeOK /\ c \in Handles /\ MaxNames \in Nat
  BY HeapBoundsAssumption DEF IInv, HeapTypeOK
<1>2. /\ UNCHANGED <<live, record, freeing, dying, made, survived, failed, pc, making, toFree>>
      /\ Dead' = Dead /\ toFree = {}
  BY AtRun DEF worklist, Dead
<1>3. \A x \in Handles : /\ refs'[x] = refs[x] + (IF x = c THEN 1 ELSE 0)
                          /\ names'[x] = names[x] + (IF x = c THEN 1 ELSE 0)
                          /\ refs[x] \in Nat /\ names[x] \in Nat
  BY <1>1 DEF HeapTypeOK
<1>4. HeapTypeOK'
  <2>1. refs' \in [Handles -> Nat] /\ names' \in [Handles -> 0 .. MaxNames]
    BY <1>1 DEF HeapTypeOK
  <2>2. QED
    BY <1>1, <1>2, <2>1 DEF HeapTypeOK
<1>5. Holding'
  BY <1>2 DEF IInv, Holding
<1>6. Naming'
  BY <1>1, <1>2, <1>3 DEF IInv, Naming
<1>7. Counted'
  <2> SUFFICES ASSUME NEW x \in live
               PROVE  /\ refs'[x] >= names'[x] + HeldBy(x)'
                      /\ ~failed => refs'[x] = names'[x] + HeldBy(x)'
    BY <1>2 DEF Counted
  <2>1. x \in Handles /\ HeldBy(x)' = HeldBy(x) /\ HeldBy(x) \in Nat
    BY <1>1, <1>2, HeldSame, HeldByType DEF HeapTypeOK
  <2>2. refs[x] >= names[x] + HeldBy(x) /\ (~failed => refs[x] = names[x] + HeldBy(x))
    BY DEF IInv, Counted
  <2>3. QED
    BY <1>3, <2>1, <2>2
<1>8. Dying'
  <2>1. \A x \in live : refs'[x] = 0 <=> refs[x] = 0
    BY <1>1, <1>3 DEF HeapTypeOK
  <2>2. QED
    BY <1>2, <2>1 DEF IInv, Dying
<1>9. Staged'
  BY <1>2 DEF IInv, Staged
<1>10. Garbage'
  BY <1>2 DEF IInv, Garbage, At
<1>11. QED
  BY <1>4, <1>5, <1>6, <1>7, <1>8, <1>9, <1>10 DEF IInv

LEMMA CopyStep ==
    ASSUME IInv, NEW h \in Handles, Copy(h)
    PROVE  IInv'
<1>1. h \in live /\ refs[h] > 0 /\ ~failed
  BY NameCounts DEF Copy, Named
<1>2. QED
  BY <1>1, NamedOnce DEF Copy, Named

LEMMA ReadStep ==
    ASSUME IInv, NEW h \in Handles, NEW w \in Words, Read(h, w)
    PROVE  IInv'
<1>1. ~failed /\ record[h][w] # Null /\ w \in Places
  BY NameCounts, PlacesAre DEF Read, Named
<1>2. record[h][w] \in live /\ refs[record[h][w]] > 0
  BY <1>1, HeldCounts
<1>3. QED
  BY <1>1, <1>2, NamedOnce DEF Read, Named

LEMMA DropStep ==
    ASSUME IInv, NEW h \in Handles, Drop(h)
    PROVE  IInv'
<1>1. /\ h \in live /\ refs[h] > 0 /\ ~failed /\ h \notin toFree /\ names[h] > 0
      /\ HeapTypeOK /\ MaxNames \in Nat
  BY NameCounts, HeapBoundsAssumption DEF Drop, Named, Names, IInv
<1>2. /\ UNCHANGED <<live, record, made, survived, failed, pc, making, toFree>>
      /\ names' = [names EXCEPT ![h] = @ - 1] /\ Release(refs, h) /\ toFree = {}
  BY AtRun DEF Drop, Named
<1>3. /\ refs' = [refs EXCEPT ![h] = refs[h] - 1] /\ refs' \in [Handles -> Nat]
      /\ freeing' \in Handles \cup {Null} /\ dying' \in Seq(Handles) /\ Dying'
  <2>1. refs \in [Handles -> Nat] /\ h \in live \ toFree
    BY <1>1 DEF HeapTypeOK
  <2>2. QED
    BY <1>1, <1>2, <2>1, ReleaseDies
<1>4. \A x \in Handles : /\ refs'[x] = refs[x] - (IF x = h THEN 1 ELSE 0)
                          /\ names'[x] = names[x] - (IF x = h THEN 1 ELSE 0)
                          /\ refs[x] \in Nat /\ names[x] \in Nat
  BY <1>1, <1>2, <1>3 DEF HeapTypeOK
<1>5. HeapTypeOK'
  <2>1. names' \in [Handles -> 0 .. MaxNames]
    BY <1>1, <1>2 DEF HeapTypeOK
  <2>2. QED
    BY <1>1, <1>2, <1>3, <2>1 DEF HeapTypeOK
<1>6. Holding'
  BY <1>2 DEF IInv, Holding
<1>7. Naming'
  BY <1>1, <1>2, <1>4 DEF IInv, Naming
<1>8. Counted'
  <2> SUFFICES ASSUME NEW x \in live
               PROVE  /\ refs'[x] >= names'[x] + HeldBy(x)'
                      /\ ~failed => refs'[x] = names'[x] + HeldBy(x)'
    BY <1>2 DEF Counted
  <2>1. x \in Handles /\ HeldBy(x)' = HeldBy(x) /\ HeldBy(x) \in Nat
    BY <1>1, <1>2, HeldSame, HeldByType DEF HeapTypeOK
  <2>2. refs[x] >= names[x] + HeldBy(x) /\ (~failed => refs[x] = names[x] + HeldBy(x))
    BY DEF IInv, Counted
  <2>3. QED
    BY <1>4, <2>1, <2>2
<1>9. Staged'
  BY <1>2 DEF IInv, Staged
<1>10. Garbage'
  BY <1>2 DEF IInv, Garbage, Drop, Named, At
<1>11. QED
  BY <1>3, <1>5, <1>6, <1>7, <1>8, <1>9, <1>10 DEF IInv

LEMMA StoreStep ==
    ASSUME IInv, NEW h \in Handles, NEW w \in Words, NEW c \in Handles \cup {Null},
           Store(h, w, c) \/ StoreKey(h, c)
    PROVE  IInv'
<1>1. At("run") /\ h \in Names \cap Holders /\ c \in Names \cup {Null}
  BY HandlesAssumption DEF Store, StoreKey, Named
<1>2. UNCHANGED <<live, names, made, survived, failed, pc, making, toFree>>
  BY DEF Store, StoreKey
<1>3. PICK p \in Places : Replaced(h, p, c)
  BY PlacesAre DEF Store, StoreKey
<1>4. QED
  BY <1>1, <1>2, <1>3, ReplacedKeeps

LEMMA FailStep ==
    ASSUME IInv, Fail
    PROVE  IInv'
<1>1. /\ UNCHANGED <<live, record, refs, freeing, dying, made, survived, pc, making, toFree>>
      /\ names' = [h \in Handles |-> 0] /\ failed' = TRUE /\ HeapTypeOK /\ MaxNames \in Nat
      /\ toFree = {} /\ making = Null /\ pc = "run"
  BY AtRun, HeapBoundsAssumption DEF Fail, content, worklist, IInv, At
<1>2. HeapTypeOK'
  <2>1. names' \in [Handles -> 0 .. MaxNames]
    BY <1>1
  <2>2. QED
    BY <1>1, <2>1 DEF HeapTypeOK
<1>3. Holding' /\ Naming' /\ Dying' /\ Staged' /\ Garbage'
  BY <1>1 DEF IInv, Holding, Naming, Dying, Dead, Staged, Garbage
<1>4. Counted'
  <2> SUFFICES ASSUME NEW x \in live
               PROVE  refs[x] >= names'[x] + HeldBy(x)'
    BY <1>1 DEF Counted
  <2>1. x \in Handles /\ HeldBy(x)' = HeldBy(x) /\ HeldBy(x) \in Nat
    BY <1>1, HeldSame, HeldByType DEF HeapTypeOK
  <2>2. refs[x] >= names[x] + HeldBy(x) /\ names[x] \in Nat /\ refs[x] \in Nat /\ names'[x] = 0
    BY <1>1, <2>1 DEF IInv, Counted, HeapTypeOK
  <2>3. QED
    BY <2>1, <2>2
<1>5. QED
  BY <1>2, <1>3, <1>4 DEF IInv

-----------------------------------------------------------------------------
(* The runtime's steps that change neither names nor counts. *)

LEMMA QuietKeeps ==
    ASSUME IInv, UNCHANGED <<content, names, worklist, failed, toFree>>
    PROVE  Holding' /\ Naming' /\ Counted' /\ Dying'
<1>1. UNCHANGED <<live, record, refs, names, freeing, dying, failed, toFree>>
  BY DEF content, worklist
<1>2. \A x : HeldBy(x)' = HeldBy(x)
  BY <1>1, HeldSame
<1>3. QED
  BY <1>1, <1>2 DEF IInv, Holding, Naming, Counted, Dying, Dead

LEMMA QuietStep ==
    ASSUME IInv, \/ \E h \in Handles : Make(h)
                 \/ Collect \/ Broken \/ Freed \/ EndCollect \/ UNCHANGED heapVars
    PROVE  IInv'
<1>1. UNCHANGED <<content, names, worklist, failed, toFree>>
  BY DEF Make, Collect, Broken, Freed, EndCollect, heapVars
<1>2. Holding' /\ Naming' /\ Counted' /\ Dying'
  BY <1>1, QuietKeeps
<1>3. UNCHANGED <<live, record, refs, names, freeing, dying, failed, toFree>>
  BY <1>1 DEF content, worklist
<1>4. HeapTypeOK /\ Null \notin Handles /\ Cardinality(Walked) \in Nat
  <2>1. IsFiniteSet(Walked)
    BY HandlesAssumption, FS_Subset DEF IInv, HeapTypeOK, Walked
  <2>2. QED
    BY <2>1, FS_CardinalityType, HandlesAssumption DEF IInv
<1>5. HeapTypeOK' /\ Staged' /\ Garbage'
  <2>1. CASE \E h \in Handles : Make(h)
    BY <1>3, <1>4, <2>1, AtRun DEF Make, At, IInv, HeapTypeOK, Staged, Garbage
  <2>2. CASE Collect
    BY <1>3, <1>4, <2>2, AtRun DEF Collect, At, IInv, HeapTypeOK, Staged, Garbage
  <2>3. CASE Broken
    BY <1>3, <1>4, <2>3 DEF Broken, At, IInv, HeapTypeOK, Staged, Garbage
  <2>4. CASE Freed
    BY <1>3, <1>4, <2>4 DEF Freed, At, IInv, HeapTypeOK, Staged, Garbage
  <2>5. CASE EndCollect
    BY <1>3, <1>4, <2>5 DEF EndCollect, At, IInv, HeapTypeOK, Staged, Garbage
  <2>6. CASE UNCHANGED heapVars
    BY <1>3, <1>4, <2>6 DEF heapVars, IInv, HeapTypeOK, Staged, Garbage
  <2>7. QED
    BY <2>1, <2>2, <2>3, <2>4, <2>5, <2>6
<1>6. QED
  BY <1>2, <1>5 DEF IInv

-----------------------------------------------------------------------------
(* The steps that make and free handles. *)

LEMMA SweepStep ==
    ASSUME IInv, Sweep
    PROVE  IInv'
<1>1. /\ live' = {} /\ record' = [h \in Handles |-> Empty] /\ refs' = [h \in Handles |-> 0]
      /\ made' = 0 /\ survived' = 0 /\ failed' = FALSE /\ pc' = "track"
      /\ UNCHANGED <<names, freeing, dying, making, toFree>>
      /\ pc = "sweep" /\ freeing = Null /\ HeapTypeOK
  BY DEF Sweep, At, worklist, IInv
<1>2. /\ toFree = {} /\ making # Null /\ failed /\ dying = <<>> /\ Dead' = {}
  BY <1>1, NoElements DEF IInv, Staged, Dying, Dead
<1>3. \A h \in Handles, p \in Places : record'[h][p] = Null
  BY <1>1 DEF Empty
<1>4. HeapTypeOK'
  <2>1. record' \in [Handles -> [Places -> Handles \cup {Null}]]
    BY <1>1 DEF Empty
  <2>2. QED
    BY <1>1, <2>1 DEF HeapTypeOK
<1>5. Holding' /\ Counted' /\ Staged' /\ Garbage'
  BY <1>1, <1>2, <1>3 DEF Holding, Counted, Staged, Garbage
<1>6. Naming'
  BY <1>1, <1>2 DEF IInv, Naming
<1>7. Dying'
  BY <1>1, <1>2, NoElements DEF Dying
<1>8. QED
  BY <1>4, <1>5, <1>6, <1>7 DEF IInv

LEMMA TrackStep ==
    ASSUME IInv, Track
    PROVE  IInv'
<1> DEFINE h == making
<1>1. /\ live' = live \cup {h} /\ refs' = [refs EXCEPT ![h] = 1]
      /\ names' = [names EXCEPT ![h] = 1]
      /\ made' = (IF h \in Holders THEN made + 1 ELSE made) /\ pc' = "run" /\ making' = Null
      /\ UNCHANGED <<record, freeing, dying, survived, failed, toFree>>
      /\ pc = "track" /\ freeing = Null /\ HeapTypeOK
  BY DEF Track, At, worklist, IInv
<1>2. /\ h \in Handles /\ h \notin live /\ ~failed /\ toFree = {} /\ dying = <<>>
      /\ Dead = {} /\ Dead' = {}
  BY <1>1, NoElements DEF IInv, HeapTypeOK, Staged, Dying, Dead
<1> HIDE DEF h
<1>3. Null \notin Handles /\ MaxNames \in Nat \ {0}
  BY HandlesAssumption, HeapBoundsAssumption
<1>4. \A p \in Places : record[h][p] = Null
  BY <1>2 DEF IInv, Holding
<1>5. HeldBy(h) = 0
  <2>1. \A g \in live, p \in Places : record[g][p] # h
    BY <1>1, <1>2, <1>3 DEF IInv, Holding, HeapTypeOK
  <2>2. QED
    BY <1>1, <2>1, HeldNowhere
<1>6. HeapTypeOK'
  <2>1. refs' \in [Handles -> Nat] /\ names' \in [Handles -> 0 .. MaxNames]
    BY <1>1, <1>2, <1>3 DEF HeapTypeOK
  <2>2. made' \in Nat /\ live' \subseteq Handles
    BY <1>1, <1>2 DEF HeapTypeOK
  <2>3. QED
    BY <1>1, <2>1, <2>2 DEF HeapTypeOK
<1>7. Holding'
  BY <1>1 DEF IInv, Holding
<1>8. Naming'
  BY <1>1, <1>2 DEF IInv, Naming, HeapTypeOK
<1>9. Counted'
  <2> SUFFICES ASSUME NEW x \in live'
               PROVE  refs'[x] = names'[x] + HeldBy(x)' /\ refs'[x] \in Nat
    BY DEF Counted
  <2>1. x \in Handles /\ HeldBy(x)' = HeldBy(x) /\ HeldBy(x) \in Nat
    <3>1. x \in Handles
      BY <1>1, <1>2 DEF HeapTypeOK
    <3>2. HeldBy(x)' = HeldBy(x)
      BY <1>1, <1>2, <1>4, <3>1, HeldLive
    <3>3. QED
      BY <1>1, <3>1, <3>2, HeldByType
  <2>2. CASE x = h
    BY <1>1, <1>2, <1>5, <2>1, <2>2 DEF HeapTypeOK
  <2>3. CASE x # h
    <3>1. x \in live /\ refs'[x] = refs[x] /\ names'[x] = names[x] /\ refs[x] \in Nat
      BY <1>1, <2>1, <2>3 DEF HeapTypeOK
    <3>2. QED
      BY <1>2, <2>1, <3>1 DEF IInv, Counted
  <2>4. QED
    BY <2>2, <2>3
<1>10. Dying'
  <2>1. \A x \in live' : refs'[x] # 0
    <3> SUFFICES ASSUME NEW x \in live' PROVE refs'[x] # 0
      OBVIOUS
    <3>1. CASE x = h
      BY <1>1, <1>2, <3>1 DEF HeapTypeOK
    <3>2. CASE x # h
      BY <1>1, <1>2, <3>2 DEF HeapTypeOK, IInv, Dying
    <3>3. QED
      BY <3>1, <3>2
  <2>2. QED
    BY <1>1, <1>2, <2>1 DEF IInv, Dying
<1>11. Staged' /\ Garbage'
  BY <1>1, <1>2 DEF Staged, Garbage
<1>12. QED
  BY <1>6, <1>7, <1>8, <1>9, <1>10, <1>11 DEF IInv

\* A handle whose record is empty and that is named and held nowhere is freed.
LEMMA FreedKeeps ==
    ASSUME IInv, NEW h \in live, names[h] = 0, \A p \in Places : record[h][p] = Null,
           \A g \in live, p \in Places : record[g][p] # h,
           live' = live \ {h},
           UNCHANGED <<record, refs, names, made, survived, failed, pc, making>>
    PROVE  Holding' /\ Naming' /\ Counted' /\ live' \subseteq Handles
<1>1. HeapTypeOK /\ h \in Handles /\ live' \subseteq Handles
  BY DEF IInv, HeapTypeOK
<1>2. Holding'
  BY DEF IInv, Holding
<1>3. Naming'
  BY <1>1 DEF IInv, Naming
<1>4. Counted'
  <2> SUFFICES ASSUME NEW x \in live'
               PROVE  /\ refs[x] >= names[x] + HeldBy(x)'
                      /\ ~failed => refs[x] = names[x] + HeldBy(x)'
    BY DEF Counted
  <2>1. HeldBy(x)' = HeldBy(x)
    BY <1>1, HeldLive DEF HeapTypeOK
  <2>2. QED
    BY <2>1 DEF IInv, Counted
<1>5. QED
  BY <1>1, <1>2, <1>3, <1>4

LEMMA DestroyedStep ==
    ASSUME IInv, Destroyed
    PROVE  IInv'
<1> DEFINE f == freeing
<1>1. /\ f # Null /\ Held(f) = {} /\ live' = live \ {f} /\ HeapTypeOK
      /\ UNCHANGED <<record, refs, names, made, survived, failed, pc, making, toFree>>
      /\ \/ dying = <<>> /\ freeing' = Null /\ UNCHANGED dying
         \/ dying # <<>> /\ freeing' = Last(dying) /\ dying' = Front(dying)
  BY DEF Destroyed, IInv
<1>2. /\ f \in live \ toFree /\ f \in Handles /\ refs[f] = 0 /\ f \notin Elements(dying)
      /\ Once(dying) /\ Dead = Elements(dying) \cup {f}
  BY <1>1 DEF IInv, HeapTypeOK, Dying, Dead
<1>3. \A p \in Places : record[f][p] = Null
  BY <1>1 DEF Held
<1> HIDE DEF f
<1>4. names[f] = 0 /\ HeldBy(f) = 0
  <2>1. names[f] \in Nat /\ HeldBy(f) \in Nat
    BY <1>1, <1>2, HeldByType DEF HeapTypeOK
  <2>2. refs[f] >= names[f] + HeldBy(f)
    BY <1>2 DEF IInv, Counted
  <2>3. QED
    BY <1>2, <2>1, <2>2
<1>5. \A g \in live, p \in Places : record[g][p] # f
  BY <1>1, <1>4, HeldNowhere
<1>6. Holding' /\ Naming' /\ Counted' /\ live' \subseteq Handles
  BY <1>1, <1>2, <1>3, <1>4, <1>5, FreedKeeps
<1>7. /\ freeing' \in Handles \cup {Null} /\ dying' \in Seq(Handles) /\ Dying'
  <2>1. CASE dying = <<>> /\ freeing' = Null /\ UNCHANGED dying
    <3>1. Dead = {f} /\ Dead' = {} /\ Elements(dying)' = {} /\ Once(dying)'
      BY <1>2, <2>1, NoElements DEF Dead
    <3>2. Dying'
      BY <1>1, <1>2, <2>1, <3>1, HandlesAssumption DEF IInv, Dying
    <3>3. QED
      BY <1>1, <2>1, <3>2 DEF HeapTypeOK
  <2>2. CASE dying # <<>> /\ freeing' = Last(dying) /\ dying' = Front(dying)
    <3>1. dying \in Seq(Handles)
      BY <1>1 DEF HeapTypeOK
    <3>2. /\ Front(dying) \in Seq(Handles) /\ Once(Front(dying))
          /\ Last(dying) \in Elements(dying) /\ Last(dying) \notin Elements(Front(dying))
          /\ Elements(dying) = Elements(Front(dying)) \cup {Last(dying)}
      BY <1>2, <2>2, <3>1, LastElements
    <3>3. /\ Elements(dying)' = Elements(Front(dying)) /\ Once(dying)'
      BY <2>2, <3>2 DEF Elements, Once
    <3>4. Last(dying) \in Handles /\ Last(dying) # Null
      BY <1>1, <1>2, <3>2, HandlesAssumption DEF IInv, Dying, HeapTypeOK
    <3>5. Dead' = Elements(dying)
      BY <2>2, <3>2, <3>3, <3>4 DEF Dead
    <3>6. Dying'
      BY <1>1, <1>2, <2>2, <3>2, <3>3, <3>4, <3>5 DEF IInv, Dying
    <3>7. QED
      BY <2>2, <3>2, <3>4, <3>6
  <2>3. QED
    BY <1>1, <2>1, <2>2
<1>8. HeapTypeOK'
  BY <1>1, <1>6, <1>7 DEF HeapTypeOK
<1>9. Staged' /\ Garbage'
  BY <1>1, <1>2 DEF IInv, Staged, Garbage
<1>10. QED
  BY <1>6, <1>7, <1>8, <1>9 DEF IInv

LEMMA FreeStep ==
    ASSUME IInv, NEW h \in Handles, Free(h)
    PROVE  IInv'
<1>1. /\ pc = "free" /\ freeing = Null /\ h \in toFree /\ record[h][KeyPlace] = Null
      /\ live' = live \ {h} /\ toFree' = toFree \ {h} /\ HeapTypeOK
      /\ UNCHANGED <<record, refs, names, freeing, dying, made, survived, failed, pc, making>>
  BY DEF Free, At, worklist, IInv
<1>2. h \in live /\ names[h] = 0 /\ \A p \in Places : record[h][p] = Null
  BY <1>1, PlacesAre DEF IInv, Garbage
<1>3. \A g \in Handles, p \in Places : record[g][p] # h
  BY <1>1, PlacesAre, HandlesAssumption DEF IInv, Garbage
<1>4. Holding' /\ Naming' /\ Counted' /\ live' \subseteq Handles
  BY <1>1, <1>2, <1>3, FreedKeeps DEF HeapTypeOK
<1>5. HeapTypeOK'
  BY <1>1, <1>4 DEF HeapTypeOK
<1>6. dying = <<>> /\ Dead = {} /\ Dead' = {}
  BY <1>1, NoElements DEF IInv, Dying, Dead
<1>7. Dying'
  BY <1>1, <1>6 DEF IInv, Dying
<1>8. Staged'
  BY <1>1 DEF IInv, Staged
<1>9. Garbage'
  <2>1. Null \notin toFree
    BY HandlesAssumption DEF IInv, HeapTypeOK
  <2>2. QED
    BY <1>1, <1>2, <2>1 DEF IInv, Garbage
<1>10. QED
  BY <1>4, <1>5, <1>7, <1>8, <1>9 DEF IInv

-----------------------------------------------------------------------------
(* The collector. *)

Roots == {h \in Walked : refs[h] > Inner(h)}

\* A holder is a root exactly if it is named, held by a key, or, after a failed call,
\* counted for a name that is gone.
LEMMA InnerCounts ==
    ASSUME IInv, NEW h \in Walked
    PROVE  /\ refs[h] <= Inner(h) =>
                names[h] = 0 /\ \A g \in live, p \in Places : record[g][p] = h => p # KeyPlace
           /\ ~failed /\ refs[h] > Inner(h) =>
                names[h] > 0 \/ \E g \in live : record[g][KeyPlace] = h
           /\ Inner(h) \in Nat
<1> DEFINE All == Spots(live, record, h)
           In == {e \in Walked \X Words : record[e[1]][e[2]] = h}
<1>1. /\ HeapTypeOK /\ h \in live /\ h \in Handles /\ h # Null
      /\ refs[h] \in Nat /\ names[h] \in Nat
  BY HandlesAssumption DEF IInv, HeapTypeOK, Walked
<1>2. /\ refs[h] >= names[h] + HeldBy(h)
      /\ ~failed => refs[h] = names[h] + HeldBy(h)
  BY <1>1 DEF IInv, Counted
<1>3. IsFiniteSet(All) /\ HeldBy(h) = Cardinality(All) /\ HeldBy(h) \in Nat
  BY <1>1, SpotsFinite, HeldByType DEF HeapTypeOK
<1>4. In \subseteq All
  BY PlacesAre DEF Spots, Walked
<1>5. /\ IsFiniteSet(In) /\ Cardinality(In) \in Nat /\ Cardinality(In) <= Cardinality(All)
      /\ Cardinality(In) = Cardinality(All) => In = All
  <2>1. In \in SUBSET All
    BY <1>4
  <2> HIDE DEF In, All
  <2>2. QED
    BY <1>3, <2>1, FS_Subset, FS_CardinalityType
<1>6. Inner(h) = Cardinality(In)
  BY DEF Inner
<1>7. ASSUME refs[h] <= Inner(h)
      PROVE  names[h] = 0 /\ \A g \in live, p \in Places : record[g][p] = h => p # KeyPlace
  <2> HIDE DEF In, All
  <2>1. names[h] = 0 /\ In = All
    BY <1>1, <1>2, <1>3, <1>5, <1>6, <1>7
  <2>2. ASSUME NEW g \in live, NEW p \in Places, record[g][p] = h
        PROVE  p # KeyPlace
    <3>1. <<g, p>> \in All
      BY <2>2 DEF All, Spots
    <3>2. p \in Words
      BY <2>1, <3>1 DEF In
    <3>3. QED
      BY <3>2, PlacesAre
  <2>3. QED
    BY <2>1, <2>2
<1>8. ASSUME ~failed, refs[h] > Inner(h), names[h] = 0
      PROVE  \E g \in live : record[g][KeyPlace] = h
  <2>1. In # All
    <3>1. refs[h] = Cardinality(All)
      BY <1>1, <1>2, <1>3, <1>8
    <3>2. Cardinality(All) > Cardinality(In) /\ Cardinality(All) \in Nat
      BY <1>3, <1>6, <1>8, <3>1
    <3> HIDE DEF In, All
    <3>3. QED
      BY <3>2
  <2>2. PICK e \in All : e \notin In
    BY <1>4, <2>1
  <2>3. e[1] \in live /\ e[2] \in Places /\ record[e[1]][e[2]] = h /\ e = <<e[1], e[2]>>
    BY <2>2 DEF Spots
  <2>4. e[1] \in Walked
    BY <1>1, <2>3 DEF IInv, Holding, HeapTypeOK, Walked
  <2>5. e[2] = KeyPlace
    BY <2>2, <2>3, <2>4, PlacesAre
  <2>6. QED
    BY <2>3, <2>5
<1>9. QED
  BY <1>1, <1>5, <1>6, <1>7, <1>8

\* What is garbage is held only by garbage.
LEMMA GarbageClosed ==
    ASSUME IInv, NEW g \in Handles, NEW p \in Places,
           record[g][p] \in Walked \ ReachedFrom(Roots)
    PROVE  g \in Walked \ ReachedFrom(Roots) /\ p # KeyPlace
<1> DEFINE h == record[g][p]
<1>1. h \in Walked /\ h # Null /\ h \in Handles
  BY HandlesAssumption DEF IInv, HeapTypeOK, Walked
<1>2. g \in Walked /\ g \in live
  BY <1>1 DEF IInv, Holding, Walked
<1>3. h \notin Roots
  BY DEF ReachedFrom
<1>4. refs[h] <= Inner(h)
  <2>1. refs[h] \in Nat /\ Inner(h) \in Nat
    BY <1>1, InnerCounts DEF IInv, HeapTypeOK
  <2>2. ~(refs[h] > Inner(h))
    BY <1>1, <1>3 DEF Roots
  <2> HIDE DEF h
  <2>3. QED
    BY <2>1, <2>2
<1>5. p # KeyPlace
  BY <1>1, <1>2, <1>4, InnerCounts
<1>6. p \in Words
  BY <1>5, PlacesAre
<1>7. g \notin ReachedFrom(Roots)
  <2> SUFFICES ASSUME g \in ReachedFrom(Roots) PROVE h \in ReachedFrom(Roots)
    OBVIOUS
  <2>1. ASSUME NEW T \in SUBSET Walked, Roots \subseteq T,
               \A k \in T, w \in Words : record[k][w] \in Walked => record[k][w] \in T
        PROVE  h \in T
    <3>1. g \in T
      BY <2>1 DEF ReachedFrom
    <3>2. QED
      BY <1>1, <1>6, <2>1, <3>1
  <2>2. QED
    BY <1>1, <2>1 DEF ReachedFrom
<1>8. QED
  BY <1>2, <1>5, <1>7

LEMMA MarkStep ==
    ASSUME IInv, Mark
    PROVE  IInv'
<1> DEFINE garbage == Walked \ ReachedFrom(Roots)
<1>1. /\ pc = "mark" /\ pc' = "break" /\ freeing = Null /\ toFree' = garbage
      /\ UNCHANGED <<live, record, refs, names, freeing, dying, made, survived, failed, making>>
      /\ HeapTypeOK
  BY DEF Mark, At, content, worklist, Roots, IInv
<1>2. /\ garbage \subseteq live \cap Holders /\ garbage \subseteq Handles
      /\ \A h \in garbage : h \in Walked /\ refs[h] <= Inner(h)
  <2>1. ASSUME NEW h \in garbage
        PROVE  h \in Walked /\ refs[h] <= Inner(h)
    <3>1. h \in Walked /\ h \in Handles /\ h \notin Roots
      BY DEF ReachedFrom, IInv, HeapTypeOK, Walked
    <3>2. refs[h] \in Nat /\ Inner(h) \in Nat /\ ~(refs[h] > Inner(h))
      BY <3>1, InnerCounts DEF IInv, HeapTypeOK, Roots
    <3> HIDE DEF garbage
    <3>3. QED
      BY <3>1, <3>2
  <2>2. garbage \subseteq live \cap Holders /\ garbage \subseteq Handles
    BY DEF IInv, HeapTypeOK, Walked
  <2>3. QED
    BY <2>1, <2>2
<1>3. \A h \in garbage : names[h] = 0
  BY <1>2, InnerCounts
<1>4. \A g \in Handles, p \in Places :
        record[g][p] \in garbage => g \in garbage /\ p # KeyPlace
  BY GarbageClosed
<1> HIDE DEF garbage
<1>5. Holding' /\ Naming' /\ Counted'
  <2>1. \A x : HeldBy(x)' = HeldBy(x)
    BY <1>1, HeldSame
  <2>2. QED
    BY <1>1, <2>1 DEF IInv, Holding, Naming, Counted
<1>6. toFree = {} /\ dying = <<>> /\ Dead = {} /\ Dead' = {}
  BY <1>1, NoElements DEF IInv, Staged, Dying, Dead
<1>7. HeapTypeOK' /\ Dying' /\ Staged'
  BY <1>1, <1>2, <1>6 DEF IInv, HeapTypeOK, Dying, Staged
<1>8. Garbage'
  BY <1>1, <1>2, <1>3, <1>4 DEF Garbage
<1>9. QED
  BY <1>5, <1>7, <1>8 DEF IInv

-----------------------------------------------------------------------------
(* The theorems. *)

LEMMA InitKeeps == HeapInit => IInv
<1> SUFFICES ASSUME HeapInit PROVE IInv
  OBVIOUS
<1>1. HeapTypeOK
  <2>1. record \in [Handles -> [Places -> Handles \cup {Null}]]
    BY DEF HeapInit, Empty
  <2>2. refs \in [Handles -> Nat] /\ names \in [Handles -> 0 .. MaxNames]
    BY HeapBoundsAssumption DEF HeapInit
  <2>3. dying \in Seq(Handles)
    BY EmptySeq DEF HeapInit
  <2>4. QED
    BY <2>1, <2>2, <2>3 DEF HeapInit, HeapTypeOK
<1>2. Holding /\ Naming /\ Counted /\ Staged /\ Garbage
  BY DEF HeapInit, Empty, Holding, Naming, Counted, Staged, Garbage
<1>3. Dying
  BY NoElements DEF HeapInit, Dying, Dead
<1>4. QED
  BY <1>1, <1>2, <1>3 DEF IInv

LEMMA StepKeeps == IInv /\ [HeapNext]_heapVars => IInv'
<1> SUFFICES ASSUME IInv, [HeapNext]_heapVars PROVE IInv'
  OBVIOUS
<1>1. CASE Program
  <2>1. CASE \E h \in Handles : Copy(h) \/ Drop(h) \/ Make(h)
    BY <2>1, CopyStep, DropStep, QuietStep
  <2>2. CASE \E h \in Handles, w \in Words : Read(h, w)
    BY <2>2, ReadStep
  <2>3. CASE \E h \in Handles, w \in Words, c \in Handles \cup {Null} : Store(h, w, c)
    BY <2>3, StoreStep
  <2>4. CASE \E h \in Handles, c \in Handles \cup {Null} : StoreKey(h, c)
    <3>1. PICK w \in Words : TRUE
      BY HeapBoundsAssumption DEF Words
    <3>2. QED
      BY <2>4, <3>1, StoreStep
  <2>5. CASE Fail \/ Collect
    BY <2>5, FailStep, QuietStep
  <2>6. QED
    BY <1>1, <2>1, <2>2, <2>3, <2>4, <2>5 DEF Program
<1>2. CASE Runtime
  <2>1. CASE \E h \in Handles, w \in Words : Break(h, w)
    BY <2>1, BreakStep
  <2>2. CASE \E h \in Handles : FreeKey(h) \/ Free(h)
    BY <2>2, FreeKeyStep, FreeStep
  <2>3. QED
    BY <1>2, <2>1, <2>2, DestroyStep, DestroyedStep, SweepStep, TrackStep, MarkStep, QuietStep
       DEF Runtime
<1>3. CASE UNCHANGED heapVars
  BY <1>3, QuietStep
<1>4. QED
  BY <1>1, <1>2, <1>3 DEF HeapNext

LEMMA Invariance == HeapSpec => []IInv
  BY InitKeeps, StepKeeps, PTL DEF HeapSpec

\* Types: a count never goes below zero, whatever the order in which names go, stores
\* replace each other, and cycles are broken.
THEOREM TypeCorrect == HeapSpec => []HeapTypeOK
<1>1. IInv => HeapTypeOK
  BY DEF IInv
<1>2. QED
  BY <1>1, Invariance, PTL

\* The counts the runtime keeps are the references there are, at every step of its loops.
THEOREM ExactCounts == HeapSpec => []CountsExact
<1>1. IInv => CountsExact
  BY DEF IInv, Counted, CountsExact
<1>2. QED
  BY <1>1, Invariance, PTL

\* Nothing reachable is freed, and nothing is freed twice: not by the worklist, not by a
\* collection, not by the two at once, not by the sweep after a call that failed.
THEOREM NothingDangling == HeapSpec => []NothingDangles
<1>1. IInv => NothingDangles
  <2> SUFFICES ASSUME IInv PROVE NothingDangles
    OBVIOUS
  <2>1. \A h \in live, p \in Places : record[h][p] \in live \cup {Null}
    BY DEF IInv, HeapTypeOK, Holding
  <2>2. \A h \in Dead : h \in live \ toFree /\ names[h] = 0
    <3> SUFFICES ASSUME NEW h \in Dead PROVE h \in live \ toFree /\ names[h] = 0
      OBVIOUS
    <3>1. h \in live \ toFree /\ refs[h] = 0 /\ h \in Handles /\ HeapTypeOK
      BY DEF IInv, Dying, HeapTypeOK
    <3>2. names[h] \in Nat /\ HeldBy(h) \in Nat
      BY <3>1, HeldByType DEF HeapTypeOK
    <3>3. refs[h] >= names[h] + HeldBy(h)
      BY <3>1 DEF IInv, Counted
    <3>4. QED
      BY <3>1, <3>2, <3>3
  <2>3. \A i \in DOMAIN dying : dying[i] \in Dead /\ dying[i] # freeing
    BY DEF IInv, Dying, Dead, Elements
  <2>4. freeing # Null => freeing \in Dead
    BY DEF Dead
  <2>5. \A i, j \in DOMAIN dying : dying[i] = dying[j] => i = j
    BY DEF IInv, Dying, Once
  <2>6. (\A h \in Handles : names[h] > 0 => h \in live) /\ toFree \subseteq live
    BY DEF IInv, Naming, Garbage
  <2>7. QED
    BY <2>1, <2>2, <2>3, <2>4, <2>5, <2>6 DEF NothingDangles
<1>2. QED
  BY <1>1, Invariance, PTL

\* At rest nothing is kept that has no reference: a release frees before it returns.
THEOREM NothingKept == HeapSpec => []FreedAtOnce
<1>1. IInv => FreedAtOnce
  <2> SUFFICES ASSUME IInv, At("run"), ~failed, NEW h \in live
               PROVE  names[h] > 0 \/ HeldBy(h) > 0
    BY DEF FreedAtOnce
  <2>1. Dead = {} /\ toFree = {} /\ h \in Handles /\ HeapTypeOK
    BY AtRun DEF IInv, HeapTypeOK
  <2>2. refs[h] # 0 /\ refs[h] = names[h] + HeldBy(h)
    BY <2>1 DEF IInv, Dying, Counted
  <2>3. names[h] \in Nat /\ HeldBy(h) \in Nat
    BY <2>1, HeldByType DEF HeapTypeOK
  <2>4. QED
    BY <2>2, <2>3
<1>2. QED
  BY <1>1, Invariance, PTL

\* While no call has failed, the collector's reachable holders are the program's.
LEMMA ReachedExactly ==
    ASSUME IInv, ~failed
    PROVE  Walked \ ReachedFrom(Roots) = Walked \ Reachable(Names \cup KeysHeld)
<1> DEFINE From == Names \cup KeysHeld
<1>1. HeapTypeOK /\ Null \notin Handles /\ Walked \subseteq live
  BY HandlesAssumption DEF IInv, Walked
<1>2. \A h \in Roots : h \in Walked /\ h \in From
  <2> SUFFICES ASSUME NEW h \in Roots PROVE h \in Walked /\ h \in From
    OBVIOUS
  <2>1. h \in Walked /\ h \in Handles /\ refs[h] > Inner(h)
    BY <1>1 DEF Roots, HeapTypeOK
  <2>2. names[h] > 0 \/ \E g \in live : record[g][KeyPlace] = h
    BY <2>1, InnerCounts
  <2>3. QED
    BY <1>1, <2>1, <2>2 DEF Names, KeysHeld
<1>3. \A h \in Walked \cap From : h \in Roots
  <2> SUFFICES ASSUME NEW h \in Walked, h \in From, h \notin Roots PROVE FALSE
    OBVIOUS
  <2>1. refs[h] \in Nat /\ Inner(h) \in Nat /\ h \in Handles
    BY <1>1, InnerCounts DEF HeapTypeOK
  <2>2. ~(refs[h] > Inner(h))
    BY DEF Roots
  <2>3. refs[h] <= Inner(h)
    BY <2>1, <2>2
  <2>4. names[h] = 0 /\ \A g \in live : record[g][KeyPlace] # h
    BY <2>3, InnerCounts, PlacesAre
  <2>5. QED
    BY <2>4 DEF Names, KeysHeld
<1>4. From \subseteq live
  <2>1. Names \subseteq live
    BY NameCounts
  <2>2. KeysHeld \subseteq live
    <3>1. ASSUME NEW m \in live, record[m][KeyPlace] # Null
          PROVE  record[m][KeyPlace] \in live
      BY <1>1, <3>1, PlacesAre DEF IInv, Holding, HeapTypeOK
    <3>2. QED
      BY <3>1 DEF KeysHeld
  <2>3. QED
    BY <2>1, <2>2
<1> HIDE DEF From
<1>5. ASSUME NEW h \in ReachedFrom(Roots)
      PROVE  h \in Reachable(From)
  <2>1. ASSUME NEW T \in SUBSET live, From \subseteq T,
               \A g \in T, p \in Places : record[g][p] # Null => record[g][p] \in T
        PROVE  h \in T
    <3>1. Roots \subseteq T \cap Walked
      BY <1>2, <2>1
    <3>2. \A g \in T \cap Walked, w \in Words :
            record[g][w] \in Walked => record[g][w] \in T \cap Walked
      BY <1>1, <2>1, PlacesAre DEF HeapTypeOK
    <3>3. h \in T \cap Walked
      BY <1>5, <3>1, <3>2 DEF ReachedFrom
    <3>4. QED
      BY <3>3
  <2>2. h \in live
    BY <1>1, <1>5 DEF ReachedFrom
  <2>3. QED
    BY <2>1, <2>2 DEF Reachable
<1>6. ASSUME NEW h \in Walked, h \in Reachable(From)
      PROVE  h \in ReachedFrom(Roots)
  <2>1. ASSUME NEW T \in SUBSET Walked, Roots \subseteq T,
               \A g \in T, w \in Words : record[g][w] \in Walked => record[g][w] \in T
        PROVE  h \in T
    <3> DEFINE U == T \cup (live \ Walked)
    <3>1. U \in SUBSET live /\ From \subseteq U
      BY <1>1, <1>3, <1>4, <2>1
    <3>2. ASSUME NEW g \in U, NEW p \in Places, record[g][p] # Null
          PROVE  record[g][p] \in U
      <4>1. g \in Handles /\ g \in Walked /\ g \in T /\ record[g][p] \in live
        BY <1>1, <3>1, <3>2 DEF IInv, Holding, HeapTypeOK, Walked
      <4>2. CASE p = KeyPlace
        <5>1. record[g][p] \in From
          BY <1>1, <3>2, <4>1, <4>2 DEF KeysHeld, From
        <5>2. QED
          BY <3>1, <5>1
      <4>3. CASE p \in Words
        BY <2>1, <4>1, <4>3
      <4>4. QED
        BY <4>2, <4>3, PlacesAre
    <3>3. h \in U
      BY <1>6, <3>1, <3>2 DEF Reachable
    <3>4. QED
      BY <1>6, <3>3
  <2>2. QED
    BY <1>6, <2>1 DEF ReachedFrom
<1>7. QED
  BY <1>5, <1>6 DEF From

\* A collection frees exactly what neither a name nor the key of a map leads to.
THEOREM CollectsGarbage == HeapSpec => GarbageExact
<1>1. IInv /\ [HeapNext]_heapVars =>
        [pc = "mark" /\ pc' = "break" /\ ~failed =>
           toFree' = Walked \ Reachable(Names \cup KeysHeld)]_heapVars
  <2> SUFFICES ASSUME IInv, HeapNext, pc = "mark", pc' = "break", ~failed
               PROVE  toFree' = Walked \ Reachable(Names \cup KeysHeld)
    OBVIOUS
  <2>1. Mark
    BY DEF HeapNext, Program, Runtime, Copy, Drop, Make, Read, Store, StoreKey, Fail, Collect,
           Named, At, Destroy, Destroyed, Sweep, Track, Broken, Freed, EndCollect, Break,
           FreeKey, Free
  <2>2. toFree' = Walked \ ReachedFrom(Roots)
    BY <2>1 DEF Mark, Roots
  <2>3. QED
    BY <2>2, ReachedExactly
<1>2. QED
  BY <1>1, Invariance, PTL DEF HeapSpec, GarbageExact

=============================================================================
