--------------------------- MODULE Resident_proofs ---------------------------
(***************************************************************************)
(* Proofs about Resident, for every finite set of objects and handles, any *)
(* threads and numbers, every choice of what may go wrong, and any number  *)
(* of steps of Python, stores and calls.                                   *)
(***************************************************************************)
EXTENDS Resident, FiniteSetTheorems, TLAPS

-----------------------------------------------------------------------------
(* The inductive invariant. *)

\* What Python refers to is alive, and a living object has one entry at most.
World ==
    /\ \A o \in alive : py[o].next \in alive \cup {Null}
    /\ \A h \in Live : entry[h].obj \in alive
    /\ \A g, h \in Live : entry[g].obj = entry[h].obj => g = h

\* What has an entry is there, with all it names.
Kept ==
    /\ \A h \in Handles : entry[h] # NoEntry => h \in heap \ made
    /\ \A h \in heap : rec[h].next \in heap \cup {Null}

\* Outside native code nothing is left of a call.
AtRest ==
    /\ crossing = Null => arg = Null
    /\ crossing # Null => crossing \in alive
    /\ arg = Null => /\ made = {} /\ touched = <<>> /\ lock = Null
                     /\ \A t \in Workers : work[t] = "idle"
                     /\ \A h \in Handles : mark[h] # "dirty"

\* Between calls a record says what its object does, and a write to it would be noticed,
\* or the next call will read it again; within one, no record is to be read again.
InSync ==
    /\ crossing = Null => \A h \in Live :
        IF entry[h].stale THEN rescan \/ h \in staleList ELSE Matches(h) /\ mark[h] # "none"
    /\ crossing # Null => \A h \in Live : ~entry[h].stale

\* Within a call a record says what its object does but where a thread wrote.
Touching(h) == h \in Range(touched) \/ \E t \in Workers : at[t] = h
Crossed ==
    crossing # Null => \A h \in Live : mark[h] # "none" /\ (Matches(h) \/ Touching(h))

\* Native code is among the living records and those it made, which no other names.  A
\* record marked as written is on the list, or on its way there.
Listed(h) ==
    h \in Range(touched) \/ \E t \in Workers : at[t] = h /\ work[t] \in {"spin", "append"}
Native ==
    arg # Null =>
        /\ arg \in Live
        /\ \A h \in Live \cup made : rec[h].next \in Live \cup made \cup {Null}
        /\ \A h \in heap \ (Live \cup made) : rec[h].next \notin made
        /\ Range(touched) \subseteq Live
        /\ \A h \in made : mark[h] = "none"
        /\ \A h \in Handles : mark[h] = "dirty" => Listed(h)
        /\ Cardinality(made) <= Cardinality(Objects \ alive)

\* The threads: one at most has the list, and it has all of it.
Working == \A t \in Workers :
    /\ work[t] = "idle" <=> at[t] = Null
    /\ work[t] # "idle" => at[t] \in Live \cup made
    /\ work[t] \in {"spin", "append"} => at[t] \in Live /\ mark[at[t]] = "dirty"
    /\ work[t] = "append" <=> lock = t
    /\ work[t] = "append" => length[t] = Len(touched)

ResidentInv == ResidentTypeOK /\ World /\ Kept /\ AtRest /\ InSync /\ Crossed /\ Native /\ Working

-----------------------------------------------------------------------------
(* Lemmas: what is reached, and places for what is new. *)

LEMMA ReachIs ==
    ASSUME NEW D, NEW to \in [D -> D \cup {Null}], NEW from \in SUBSET D
    PROVE  /\ from \subseteq Reach(from, to) /\ Reach(from, to) \subseteq D
           /\ \A x \in Reach(from, to) : to[x] \in Reach(from, to) \cup {Null}
           /\ \A T \in SUBSET D :
                from \subseteq T /\ (\A y \in T : to[y] \in T \cup {Null})
                  => Reach(from, to) \subseteq T
<1>1. DOMAIN to = D
  OBVIOUS
<1>2. ASSUME NEW x \in Reach(from, to), to[x] # Null PROVE to[x] \in Reach(from, to)
  BY <1>1, <1>2 DEF Reach
<1>q. QED
  BY <1>1, <1>2 DEF Reach

LEMMA Places ==
    ASSUME NEW S, NEW T, IsFiniteSet(S), IsFiniteSet(T), Cardinality(S) <= Cardinality(T)
    PROVE  \E f \in [S -> T] : \A x, y \in S : f[x] = f[y] => x = y
<1> DEFINE m == Cardinality(S)
           n == Cardinality(T)
<1>1. m \in Nat /\ n \in Nat /\ m <= n
  BY FS_CardinalityType
<1>2. PICK f \in Bijection(1 .. m, S) : TRUE
  BY FS_CardinalityType DEF ExistsBijection
<1>3. PICK g \in Bijection(1 .. n, T) : TRUE
  BY FS_CardinalityType DEF ExistsBijection
<1> HIDE DEF m, n
<1>4. \A x \in S : \E i \in 1 .. m : f[i] = x
  BY DEF Bijection, Surjection
<1>5. g \in [1 .. n -> T] /\ \A i, j \in 1 .. n : g[i] = g[j] => i = j
  BY DEF Bijection, Injection, IsInjective
<1> DEFINE place == [x \in S |-> g[CHOOSE i \in 1 .. m : f[i] = x]]
<1>6. \A x \in S : (CHOOSE i \in 1 .. m : f[i] = x) \in 1 .. m
                   /\ f[CHOOSE i \in 1 .. m : f[i] = x] = x
  BY <1>4
<1>7. 1 .. m \subseteq 1 .. n
  BY <1>1
<1>8. place \in [S -> T]
  BY <1>5, <1>6, <1>7
<1>9. ASSUME NEW x \in S, NEW y \in S, place[x] = place[y] PROVE x = y
  BY <1>5, <1>6, <1>7, <1>9
<1>q. QED
  BY <1>8, <1>9

-----------------------------------------------------------------------------
(* Entries and records. *)

LiveIn(entries) == {h \in Handles : entries[h].live}
OneEach(entries) ==
    \A g, h \in LiveIn(entries) : entries[g].obj = entries[h].obj => g = h

LEMMA LiveIs ==
    ASSUME NEW entries \in Entries, NEW h \in LiveIn(entries)
    PROVE  /\ h \in Handles /\ entries[h] # NoEntry /\ entries[h].obj \in Objects
           /\ entries[h].obj # Null /\ entries[h].stale \in BOOLEAN
           /\ h \in EntryOf(entries, entries[h].obj)
<1>1. h \in Handles /\ entries[h].live
  BY DEF LiveIn
<1>2. entries[h] # NoEntry
  BY <1>1 DEF NoEntry
<1>3. entries[h] \in [obj : Objects, live : BOOLEAN, stale : BOOLEAN]
  BY <1>1, <1>2 DEF Entries
<1>q. QED
  BY <1>1, <1>2, <1>3, ResidentAssumption DEF EntryOf

LEMMA HandleIs ==
    ASSUME NEW entries, NEW o, o # Null, EntryOf(entries, o) # {}
    PROVE  /\ HandleOf(entries, o) \in EntryOf(entries, o)
           /\ HandleOf(entries, o) \in LiveIn(entries)
           /\ HandleOf(entries, o) \in Handles /\ HandleOf(entries, o) # Null
           /\ entries[HandleOf(entries, o)].obj = o
<1>1. HandleOf(entries, o) \in EntryOf(entries, o)
  BY DEF HandleOf
<1>q. QED
  BY <1>1, ResidentAssumption DEF EntryOf, LiveIn

\* New entries for objects that have none, at handles that have none.
LEMMA EnteredIs ==
    ASSUME NEW entries \in Entries, OneEach(entries), NEW D \in SUBSET Objects,
           NEW place \in [D -> Handles], \A p, q \in D : place[p] = place[q] => p = q,
           \A p \in D : entries[place[p]] = NoEntry /\ EntryOf(entries, p) = {}
    PROVE  /\ Entered(place, entries) \in Entries /\ OneEach(Entered(place, entries))
           /\ \A h \in Handles : (\A p \in D : place[p] # h)
                => Entered(place, entries)[h] = entries[h]
           /\ \A p \in D : Entered(place, entries)[place[p]]
                = [obj |-> p, live |-> TRUE, stale |-> FALSE]
<1> DEFINE full == Entered(place, entries)
           new(p) == [obj |-> p, live |-> TRUE, stale |-> FALSE]
<1>1. DOMAIN place = D
  OBVIOUS
<1>2. \A h \in Handles : (\A p \in D : place[p] # h) => full[h] = entries[h]
  BY <1>1 DEF Entered
<1>3. ASSUME NEW p \in D PROVE full[place[p]] = new(p)
  <2>1. (CHOOSE q \in D : place[q] = place[p]) = p
    OBVIOUS
  <2>2. full[place[p]] = new(CHOOSE q \in D : place[q] = place[p])
    BY <1>1 DEF Entered
  <2>q. QED
    BY <2>1, <2>2
<1>4. \A h \in Handles : full[h] = entries[h] \/ \E p \in D : place[p] = h /\ full[h] = new(p)
  BY <1>2, <1>3
<1>5. full \in Entries
  <2>1. \A p \in D : new(p) \in [obj : Objects, live : BOOLEAN, stale : BOOLEAN]
    OBVIOUS
  <2>2. \A h \in Handles : full[h] \in {NoEntry} \cup [obj : Objects, live : BOOLEAN, stale : BOOLEAN]
    <3> SUFFICES ASSUME NEW h \in Handles
                 PROVE  full[h] \in {NoEntry} \cup [obj : Objects, live : BOOLEAN, stale : BOOLEAN]
      OBVIOUS
    <3>1. entries[h] \in {NoEntry} \cup [obj : Objects, live : BOOLEAN, stale : BOOLEAN]
      BY DEF Entries
    <3> HIDE DEF full, new
    <3>q. QED
      BY <1>4, <2>1, <3>1
  <2>3. full = [h \in Handles |-> full[h]]
    BY DEF Entered
  <2>q. QED
    BY <2>2, <2>3 DEF Entries
<1>6. OneEach(full)
  <2> SUFFICES ASSUME NEW g \in LiveIn(full), NEW h \in LiveIn(full), full[g].obj = full[h].obj
               PROVE  g = h
    BY DEF OneEach
  <2>1. ASSUME NEW x \in LiveIn(full), full[x] = entries[x] PROVE x \in LiveIn(entries)
    BY <2>1 DEF LiveIn
  <2>2. \A x \in LiveIn(entries), p \in D : entries[x].obj # p
    BY DEF EntryOf, LiveIn
  <2>3. CASE full[g] = entries[g] /\ full[h] = entries[h]
    BY <2>1, <2>3 DEF OneEach
  <2>4. ASSUME NEW x \in LiveIn(full), NEW y \in LiveIn(full), full[x] = entries[x],
               NEW p \in D, full[y].obj = p, full[x].obj = full[y].obj
        PROVE  FALSE
    <3>1. x \in LiveIn(entries) /\ entries[x].obj = p
      BY <2>1, <2>4
    <3>q. QED
      BY <2>2, <3>1
  <2>5. ASSUME NEW x \in LiveIn(full)
        PROVE  full[x] = entries[x] \/ \E p \in D : place[p] = x /\ full[x].obj = p
    <3>1. x \in Handles
      BY DEF LiveIn
    <3>2. \A p \in D : full[x] = new(p) => full[x].obj = p
      OBVIOUS
    <3> HIDE DEF full, new
    <3>q. QED
      BY <1>4, <3>1, <3>2
  <2> HIDE DEF full, new
  <2>6. CASE full[g] = entries[g]
    BY <2>3, <2>4, <2>5, <2>6
  <2>7. CASE full[h] = entries[h]
    BY <2>3, <2>4, <2>5, <2>7
  <2>8. CASE full[g] # entries[g] /\ full[h] # entries[h]
    BY <2>5, <2>8
  <2>q. QED
    BY <2>6, <2>7, <2>8
<1>q. QED
  BY <1>2, <1>3, <1>5, <1>6

\* `px_res_add`: what had an entry keeps it, and every object asked for has one.
LEMMA AdmittedIs ==
    ASSUME NEW entries \in Entries, OneEach(entries), rec \in Records,
           NEW objs \in SUBSET Objects, Room(entries, objs)
    PROVE  /\ Admitted(entries, objs) \in Entries /\ OneEach(Admitted(entries, objs))
           /\ \A h \in Handles : entries[h] # NoEntry => Admitted(entries, objs)[h] = entries[h]
           /\ \A h \in Handles : entries[h] = NoEntry =>
                \/ Admitted(entries, objs)[h] = NoEntry
                \/ /\ Admitted(entries, objs)[h].obj \in objs
                   /\ ~Admitted(entries, objs)[h].stale
           /\ \A p \in objs : EntryOf(Admitted(entries, objs), p) # {}
           /\ \A p : EntryOf(entries, p) \subseteq EntryOf(Admitted(entries, objs), p)
<1> DEFINE new   == New(entries, objs)
           spare == Spare(entries)
           place == CHOOSE f \in [new -> spare] : \A p, q \in new : f[p] = f[q] => p = q
           full  == Entered(place, entries)
<1>1. full = Admitted(entries, objs)
  BY DEF Admitted
<1>2. new \subseteq objs /\ \A p \in objs : p \in new <=> EntryOf(entries, p) = {}
  BY DEF New
<1>3. spare \subseteq Handles /\ \A h \in spare : entries[h] = NoEntry
  <2>1. NextOf(rec) \in [Handles -> Handles \cup {Null}]
    BY DEF NextOf, Records
  <2>2. {h \in Handles : entries[h] # NoEntry} \subseteq Held(entries, rec, {})
    BY <2>1, ReachIs DEF Held
  <2>q. QED
    BY <2>2 DEF Spare
<1>4. IsFiniteSet(new) /\ IsFiniteSet(spare)
  BY <1>2, <1>3, ResidentAssumption, FS_Subset
<1>5. Cardinality(new) <= Cardinality(spare)
  BY DEF Room
<1> HIDE DEF new, spare
<1>6. \E f \in [new -> spare] : \A p, q \in new : f[p] = f[q] => p = q
  BY <1>4, <1>5, Places
<1>7. place \in [new -> spare] /\ \A p, q \in new : place[p] = place[q] => p = q
  BY <1>6
<1> HIDE DEF place, full
<1>8. place \in [new -> Handles] /\ \A p \in new : entries[place[p]] = NoEntry /\ EntryOf(entries, p) = {}
  BY <1>2, <1>3, <1>7
<1>9. new \in SUBSET Objects
  BY <1>2
<1>10. /\ full \in Entries /\ OneEach(full)
       /\ \A h \in Handles : (\A p \in new : place[p] # h) => full[h] = entries[h]
       /\ \A p \in new : full[place[p]] = [obj |-> p, live |-> TRUE, stale |-> FALSE]
  BY <1>7, <1>8, <1>9, EnteredIs DEF full
<1>11. \A h \in Handles : entries[h] # NoEntry => full[h] = entries[h]
  BY <1>8, <1>10
<1>12. \A p : EntryOf(entries, p) \subseteq EntryOf(full, p)
  BY <1>11, LiveIs DEF EntryOf, LiveIn
<1>13. \A p \in objs : EntryOf(full, p) # {}
  <2> SUFFICES ASSUME NEW p \in objs PROVE EntryOf(full, p) # {}
    OBVIOUS
  <2>1. CASE p \in new
    <3>1. place[p] \in Handles /\ full[place[p]].obj = p /\ full[place[p]].live
      <4>1. place[p] \in Handles
        BY <1>8, <2>1
      <4>2. full[place[p]] = [obj |-> p, live |-> TRUE, stale |-> FALSE]
        BY <1>10, <2>1
      <4>q. QED
        BY <4>1, <4>2
    <3>q. QED
      BY <3>1 DEF EntryOf
  <2>2. CASE p \notin new
    BY <1>2, <1>12, <2>2
  <2>q. QED
    BY <2>1, <2>2
<1>14. \A h \in Handles : entries[h] = NoEntry =>
         full[h] = NoEntry \/ (full[h].obj \in objs /\ ~full[h].stale)
  <2>1. ASSUME NEW p \in new PROVE full[place[p]].obj = p /\ ~full[place[p]].stale
    <3>1. full[place[p]] = [obj |-> p, live |-> TRUE, stale |-> FALSE]
      BY <1>10
    <3>q. QED
      BY <3>1
  <2>q. QED
    BY <1>2, <1>10, <2>1
<1>q. QED
  BY <1>1, <1>10, <1>11, <1>12, <1>13, <1>14

\* What is read: with an object, the one it refers to, unless that has a record.
LEMMA MetIs ==
    ASSUME PythonTypes, World, NEW entries \in Entries, NEW from \in SUBSET alive
    PROVE  /\ from \subseteq Met(entries, from) /\ Met(entries, from) \subseteq alive
           /\ \A p \in Met(entries, from) :
                \/ py[p].number = Odd \/ py[p].next = Null
                \/ EntryOf(entries, py[p].next) # {} \/ py[p].next \in Met(entries, from)
<1> DEFINE to == [p \in alive |-> IF py[p].number = Odd \/ EntryOf(entries, py[p].next) # {}
                                 THEN Null ELSE py[p].next]
<1>1. to \in [alive -> alive \cup {Null}]
  BY DEF World
<1>2. Met(entries, from) = Reach(from, to)
  BY DEF Met
<1>3. \A p \in alive : to[p] = Null =>
         py[p].number = Odd \/ py[p].next = Null \/ EntryOf(entries, py[p].next) # {}
  OBVIOUS
<1>4. \A p \in alive : to[p] # Null => to[p] = py[p].next
  OBVIOUS
<1> HIDE DEF to
<1>5. /\ from \subseteq Reach(from, to) /\ Reach(from, to) \subseteq alive
      /\ \A x \in Reach(from, to) : to[x] \in Reach(from, to) \cup {Null}
  BY <1>1, ReachIs
<1>q. QED
  BY <1>2, <1>3, <1>4, <1>5

\* The entries with those of some handles flagged.
Flagged(entries, hs) ==
    [h \in Handles |-> IF h \in hs THEN [entries[h] EXCEPT !.stale = TRUE] ELSE entries[h]]

LEMMA FlaggedIs ==
    ASSUME NEW entries \in Entries, NEW hs \in SUBSET LiveIn(entries)
    PROVE  /\ Flagged(entries, hs) \in Entries
           /\ \A h \in Handles : /\ Flagged(entries, hs)[h].obj = entries[h].obj
                                 /\ Flagged(entries, hs)[h].live = entries[h].live
           /\ \A h \in Handles : Flagged(entries, hs)[h] # NoEntry <=> entries[h] # NoEntry
           /\ \A h \in Handles \ hs : Flagged(entries, hs)[h] = entries[h]
           /\ \A h \in hs : Flagged(entries, hs)[h].stale
<1> DEFINE after == Flagged(entries, hs)
<1>1. \A h \in hs : h \in Handles /\ entries[h] \in [obj : Objects, live : BOOLEAN, stale : BOOLEAN]
  BY LiveIs DEF Entries, LiveIn
<1>2. \A h \in hs : /\ after[h] \in [obj : Objects, live : BOOLEAN, stale : BOOLEAN]
                    /\ after[h].obj = entries[h].obj /\ after[h].live = entries[h].live
                    /\ after[h].stale
  BY <1>1 DEF Flagged
<1>3. \A h \in Handles \ hs : after[h] = entries[h]
  BY DEF Flagged
<1>4. after \in Entries
  <2> SUFFICES ASSUME NEW h \in Handles
               PROVE  after[h] \in {NoEntry} \cup [obj : Objects, live : BOOLEAN, stale : BOOLEAN]
    BY DEF Entries, Flagged
  <2>q. QED
    BY <1>2, <1>3 DEF Entries
<1>5. \A h \in hs : after[h] # NoEntry /\ entries[h] # NoEntry
  BY <1>2, <1>1, ResidentAssumption DEF NoEntry
<1>q. QED
  BY <1>2, <1>3, <1>4, <1>5

LEMMA MarkStaleIs ==
    ASSUME WorldTypes, World, NEW hs \in SUBSET Live, MarkStale(hs)
    PROVE  /\ entry' \in Entries /\ rescan' \in BOOLEAN /\ staleList' \subseteq Handles
           /\ \A h \in Handles : entry'[h].obj = entry[h].obj /\ entry'[h].live = entry[h].live
           /\ \A h \in Handles : entry'[h] # NoEntry <=> entry[h] # NoEntry
           /\ \A h \in Handles \ hs : entry'[h] = entry[h]
           /\ \A h \in hs : entry'[h].stale
           /\ \A h \in hs : entry[h].stale \/ rescan' \/ h \in staleList'
           /\ (rescan => rescan') /\ staleList \subseteq staleList'
<1>1. hs \in SUBSET LiveIn(entry) /\ hs \subseteq Handles /\ entry \in Entries
  BY DEF Live, LiveIn, WorldTypes
<1>2. entry' = Flagged(entry, hs)
  BY DEF MarkStale, Flagged
<1>3. /\ rescan' \in BOOLEAN /\ staleList' \subseteq Handles
      /\ \A h \in hs : entry[h].stale \/ rescan' \/ h \in staleList'
      /\ (rescan => rescan') /\ staleList \subseteq staleList'
  BY <1>1 DEF MarkStale, WorldTypes
<1>q. QED
  BY <1>1, <1>2, <1>3, FlaggedIs

LEMMA SameRead ==
    ASSUME NEW before, NEW after, NEW o, \A p : EntryOf(before, p) = EntryOf(after, p)
    PROVE  Read(before, o) = Read(after, o)
<1> DEFINE Pick(S) == CHOOSE h \in S : TRUE
<1>1. /\ HandleOf(before, py[o].next) = IF py[o].next = Null THEN Null
                                        ELSE Pick(EntryOf(before, py[o].next))
      /\ HandleOf(after, py[o].next) = IF py[o].next = Null THEN Null
                                       ELSE Pick(EntryOf(after, py[o].next))
  BY DEF HandleOf
<1> HIDE DEF Pick
<1>q. QED
  BY <1>1 DEF Read

\* Records read again, and those of no entry emptied.
Readable(entries, hs) == \A h \in hs :
    /\ py[entries[h].obj].number # Odd
    /\ py[entries[h].obj].next = Null \/ EntryOf(entries, py[entries[h].obj].next) # {}

LEMMA SettleIs ==
    ASSUME PythonTypes, rec \in Records, mark \in [Handles -> {"none", "clean", "dirty"}],
           NEW entries \in Entries, NEW hs \in SUBSET LiveIn(entries), NEW odd \in SUBSET Handles,
           Readable(entries, hs), Settle(entries, hs, odd)
    PROVE  /\ rec' \in Records /\ heap' \subseteq Handles
           /\ mark' \in [Handles -> {"none", "clean", "dirty"}]
           /\ \A h \in Handles : entries[h] # NoEntry => h \in heap'
           /\ \A h \in heap' : rec'[h].next \in heap' \cup {Null}
           /\ \A h \in hs : rec'[h] = Read(entries, entries[h].obj) /\ mark'[h] = "clean"
           /\ \A h \in Handles \ (hs \cup odd) : entries[h] # NoEntry =>
                rec'[h] = rec[h] /\ mark'[h] = mark[h]
           /\ \A h \in Handles : mark'[h] = "dirty" => mark[h] = "dirty"
<1> DEFINE words == [h \in Handles |->
                       IF h \in hs THEN Read(entries, entries[h].obj)
                       ELSE IF entries[h] = NoEntry \/ h \in odd THEN Zero ELSE rec[h]]
<1>1. /\ rec' = words /\ heap' = Held(entries, words, {})
      /\ mark' = [h \in Handles |-> IF h \in hs THEN "clean"
                                    ELSE IF entries[h] = NoEntry \/ h \in odd THEN "none"
                                    ELSE mark[h]]
  BY DEF Settle
<1>2. hs \subseteq Handles
  BY DEF LiveIn
<1>3. ASSUME NEW h \in hs
      PROVE  Read(entries, entries[h].obj) \in [number : Numbers \cup {Null}, next : Handles \cup {Null}]
  <2>1. entries[h].obj \in Objects
    BY LiveIs
  <2>2. py[entries[h].obj] \in Fields /\ py[entries[h].obj].number \in Numbers \cup {Null}
    BY <2>1 DEF PythonTypes, Fields, Readable
  <2>3. HandleOf(entries, py[entries[h].obj].next) \in Handles \cup {Null}
    BY HandleIs DEF HandleOf, Readable
  <2>q. QED
    BY <2>2, <2>3 DEF Read
<1>4. words \in Records
  <2> SUFFICES ASSUME NEW h \in Handles
               PROVE  words[h] \in [number : Numbers \cup {Null}, next : Handles \cup {Null}]
    BY DEF Records
  <2>1. Zero \in [number : Numbers \cup {Null}, next : Handles \cup {Null}]
    BY DEF Zero
  <2>2. rec[h] \in [number : Numbers \cup {Null}, next : Handles \cup {Null}]
    BY DEF Records
  <2>q. QED
    BY <1>3, <2>1, <2>2
<1>5. /\ \A h \in hs : words[h] = Read(entries, entries[h].obj)
      /\ \A h \in Handles \ (hs \cup odd) : entries[h] # NoEntry => words[h] = rec[h]
  BY <1>2
<1> HIDE DEF words
<1>6. /\ {h \in Handles : entries[h] # NoEntry} \subseteq Held(entries, words, {})
      /\ Held(entries, words, {}) \subseteq Handles
      /\ \A h \in Held(entries, words, {}) : words[h].next \in Held(entries, words, {}) \cup {Null}
  <2>1. NextOf(words) \in [Handles -> Handles \cup {Null}]
        /\ \A h \in Handles : NextOf(words)[h] = words[h].next
    BY <1>4 DEF NextOf, Records
  <2>q. QED
    BY <2>1, ReachIs DEF Held
<1>7. /\ mark' \in [Handles -> {"none", "clean", "dirty"}]
      /\ \A h \in hs : mark'[h] = "clean"
      /\ \A h \in Handles \ (hs \cup odd) : entries[h] # NoEntry => mark'[h] = mark[h]
      /\ \A h \in Handles : mark'[h] = "dirty" => mark[h] = "dirty"
  BY <1>1, <1>2
<1>q. QED
  BY <1>1, <1>4, <1>5, <1>6, <1>7

-----------------------------------------------------------------------------
(* The Python program. *)

LEMMA MatchesKept ==
    ASSUME NEW h, entry'[h].obj = entry[h].obj, rec'[h] = rec[h],
           py'[entry[h].obj] = py[entry[h].obj],
           EntryOf(entry, py[entry[h].obj].next) \subseteq EntryOf(entry', py[entry[h].obj].next),
           Matches(h)
    PROVE  Matches(h)'
  BY DEF Matches

\* Between calls no native record and no thread changes.
LEMMA FromRest ==
    ASSUME ResidentInv, PythonRuns, PythonTypes', WorldTypes', World', InSync',
           \A h \in Handles : entry'[h] # NoEntry => entry[h] # NoEntry
    PROVE  ResidentInv'
<1> USE DEF PythonRuns, nativeVars, callVars, workerVars, ResidentInv
<1>1. crossing = Null /\ arg = Null /\ UNCHANGED <<crossing, arg>>
  BY DEF AtRest
<1>2. NativeTypes' /\ WorkerTypes'
  BY DEF ResidentTypeOK, NativeTypes, WorkerTypes
<1>3. CallTypes'
  <2>1. made' \subseteq heap' /\ crossing' \in Objects \cup {Null} /\ arg' \in Handles \cup {Null}
        /\ calls' \in 0 .. MaxCalls /\ stores' \in 0 .. MaxStores
    BY DEF ResidentTypeOK, CallTypes
  <2>2. pythons' \in 0 .. MaxPython
    BY ResidentAssumption DEF ResidentTypeOK, CallTypes
  <2>q. QED
    BY <2>1, <2>2 DEF CallTypes
<1>4. Kept'
  BY DEF Kept
<1>5. AtRest'
  BY <1>1 DEF AtRest
<1>6. Crossed' /\ Native'
  BY <1>1 DEF Crossed, Native
<1>7. Working'
  BY <1>1 DEF Working, AtRest
<1>q. QED
  BY <1>2, <1>3, <1>4, <1>5, <1>6, <1>7 DEF ResidentTypeOK

LEMMA WriteStep ==
    ASSUME ResidentInv, NEW o \in Objects, NEW fields \in Fields, Write(o, fields)
    PROVE  ResidentInv'
<1> USE DEF ResidentInv, ResidentTypeOK
<1> DEFINE hs == EntryOf(entry, o)
<1>1. /\ PythonRuns /\ o \in alive /\ fields.next \in alive \cup {Null}
      /\ py' = [py EXCEPT ![o] = fields] /\ MarkStale(hs)
      /\ UNCHANGED <<alive, plain, enabled, changed, dead>>
      /\ UNCHANGED <<rec, mark, crossing>>
  BY DEF Write, PythonRuns, nativeVars, callVars
<1>2. hs \subseteq Live /\ \A h \in Live \ hs : entry[h].obj # o
  BY DEF EntryOf, Live
<1>3. /\ entry' \in Entries /\ rescan' \in BOOLEAN /\ staleList' \subseteq Handles
      /\ \A h \in Handles : entry'[h].obj = entry[h].obj /\ entry'[h].live = entry[h].live
      /\ \A h \in Handles : entry'[h] # NoEntry <=> entry[h] # NoEntry
      /\ \A h \in Handles \ hs : entry'[h] = entry[h]
      /\ \A h \in hs : entry'[h].stale
      /\ \A h \in hs : entry[h].stale \/ rescan' \/ h \in staleList'
      /\ (rescan => rescan') /\ staleList \subseteq staleList'
  BY <1>1, <1>2, MarkStaleIs
<1> HIDE DEF hs
<1>4. PythonTypes' /\ WorldTypes'
  BY <1>1, <1>3 DEF PythonTypes, WorldTypes
<1>5. Live' = Live /\ \A x : EntryOf(entry', x) = EntryOf(entry, x)
  BY <1>3 DEF Live, EntryOf
<1>6. \A h \in Live : h \in Handles /\ entry'[h].obj = entry[h].obj
  BY <1>3 DEF Live
<1>7. World'
  <2>1. \A x \in alive : py'[x].next \in alive \cup {Null}
    BY <1>1 DEF World, PythonTypes
  <2>q. QED
    BY <1>1, <1>5, <1>6, <2>1 DEF World
<1>8. InSync'
  <2> SUFFICES ASSUME NEW h \in Live
               PROVE  IF entry'[h].stale THEN rescan' \/ h \in staleList'
                      ELSE Matches(h)' /\ mark'[h] # "none"
    BY <1>1, <1>5 DEF InSync, PythonRuns
  <2>1. CASE h \in hs
    BY <1>1, <1>3, <2>1 DEF InSync, PythonRuns
  <2>2. CASE h \notin hs
    <3>1. entry'[h] = entry[h] /\ entry[h].obj # o
      BY <1>2, <1>3, <1>6, <2>2
    <3>2. CASE entry[h].stale
      BY <1>1, <1>3, <3>1, <3>2 DEF InSync, PythonRuns
    <3>3. CASE ~entry[h].stale
      <4>1. Matches(h) /\ mark[h] # "none"
        BY <1>1, <3>3 DEF InSync, PythonRuns
      <4>2. py'[entry[h].obj] = py[entry[h].obj]
        BY <1>1, <3>1 DEF PythonTypes
      <4>q. QED
        BY <1>1, <1>5, <3>1, <3>3, <4>1, <4>2, MatchesKept
    <3>q. QED
      BY <3>2, <3>3
  <2>q. QED
    BY <2>1, <2>2
<1>q. QED
  BY <1>1, <1>3, <1>4, <1>7, <1>8, FromRest

LEMMA DieStep ==
    ASSUME ResidentInv, NEW os \in SUBSET alive, Die(os)
    PROVE  ResidentInv'
<1> USE DEF ResidentInv, ResidentTypeOK
<1>1. /\ PythonRuns /\ \A p \in alive \ os : py[p].next \notin os
      /\ alive' = alive \ os
      /\ py' = [o \in Objects |-> IF o \in os THEN Zero ELSE py[o]]
      /\ entry' = [h \in Handles |-> IF entry[h].obj \in os THEN [entry[h] EXCEPT !.live = FALSE]
                                     ELSE entry[h]]
      /\ UNCHANGED <<plain, enabled, changed, rescan, staleList>>
      /\ UNCHANGED <<rec, mark, crossing>>
  BY DEF Die, PythonRuns, nativeVars, callVars
<1>2. dead' \in Nat
  <2>1. IsFiniteSet({h \in Live : entry[h].obj \in os})
    BY ResidentAssumption, FS_Subset DEF Live
  <2>2. Cardinality({h \in Live : entry[h].obj \in os}) \in Nat
    BY <2>1, FS_CardinalityType
  <2>q. QED
    BY <2>2 DEF Die, WorldTypes
<1>3. os \subseteq Objects /\ Null \notin os
  BY ResidentAssumption DEF PythonTypes
<1>4. \A h \in Handles : entry[h].obj \notin os => entry'[h] = entry[h]
  BY <1>1
<1>5. ASSUME NEW h \in Handles, entry[h].obj \in os
      PROVE  /\ entry'[h] \in [obj : Objects, live : BOOLEAN, stale : BOOLEAN] /\ ~entry'[h].live
             /\ entry[h] # NoEntry
  <2>1. entry[h] # NoEntry
    BY <1>3, <1>5 DEF NoEntry
  <2>2. entry[h] \in [obj : Objects, live : BOOLEAN, stale : BOOLEAN]
    BY <2>1 DEF WorldTypes, Entries
  <2>q. QED
    BY <1>1, <1>5, <2>1, <2>2
<1>6. entry' \in Entries
  <2>1. \A h \in Handles : entry'[h] \in {NoEntry} \cup [obj : Objects, live : BOOLEAN, stale : BOOLEAN]
    BY <1>4, <1>5 DEF WorldTypes, Entries
  <2>q. QED
    BY <1>1, <2>1 DEF Entries
<1>7. PythonTypes' /\ WorldTypes'
  <2>1. py' \in [Objects -> Fields]
    BY <1>1 DEF PythonTypes, Fields, Zero
  <2>q. QED
    BY <1>1, <1>2, <1>6, <2>1 DEF PythonTypes, WorldTypes
<1>8. \A h \in Live' : h \in Live /\ entry'[h] = entry[h] /\ entry[h].obj \notin os
  BY <1>4, <1>5 DEF Live
<1>9. \A x : x \notin os => EntryOf(entry, x) \subseteq EntryOf(entry', x)
  BY <1>4 DEF EntryOf
<1>10. World'
  <2>1. \A o \in alive' : py'[o] = py[o] /\ py[o].next \in alive' \cup {Null}
    BY <1>1, <1>3 DEF World, PythonTypes
  <2>2. ASSUME NEW h \in Live' PROVE entry'[h].obj \in alive'
    <3>1. h \in Live /\ entry'[h] = entry[h] /\ entry[h].obj \notin os
      BY <1>8
    <3>q. QED
      BY <1>1, <3>1 DEF World
  <2>3. \A g, h \in Live' : entry'[g].obj = entry'[h].obj => g = h
    BY <1>8 DEF World
  <2>q. QED
    BY <2>1, <2>2, <2>3 DEF World
<1>11. InSync'
  <2> SUFFICES ASSUME NEW h \in Live'
               PROVE  IF entry'[h].stale THEN rescan' \/ h \in staleList'
                      ELSE Matches(h)' /\ mark'[h] # "none"
    BY <1>1 DEF InSync, PythonRuns
  <2>1. h \in Live /\ entry'[h] = entry[h] /\ entry[h].obj \in alive \ os
    BY <1>8 DEF World
  <2>2. CASE entry[h].stale
    BY <1>1, <2>1, <2>2 DEF InSync, PythonRuns
  <2>3. CASE ~entry[h].stale
    <3>1. Matches(h) /\ mark[h] # "none"
      BY <1>1, <2>1, <2>3 DEF InSync, PythonRuns
    <3>2. py'[entry[h].obj] = py[entry[h].obj] /\ py[entry[h].obj].next \notin os
      BY <1>1, <2>1 DEF PythonTypes
    <3>q. QED
      BY <1>1, <1>9, <2>1, <2>3, <3>1, <3>2, MatchesKept
  <2>q. QED
    BY <2>2, <2>3
<1>q. QED
  BY <1>1, <1>4, <1>5, <1>7, <1>10, <1>11, FromRest

LEMMA MakeStep ==
    ASSUME ResidentInv, NEW o \in Objects, NEW fields \in Fields, Make(o, fields)
    PROVE  ResidentInv'
<1> USE DEF ResidentInv, ResidentTypeOK
<1>1. /\ PythonRuns /\ o \notin alive /\ fields.next \in alive \cup {o, Null}
      /\ alive' = alive \cup {o} /\ py' = [py EXCEPT ![o] = fields]
      /\ UNCHANGED <<plain, worldVars>>
      /\ UNCHANGED <<rec, mark, crossing>>
  BY DEF Make, PythonRuns, nativeVars, callVars
<1> USE DEF worldVars
<1>2. PythonTypes' /\ WorldTypes'
  BY <1>1 DEF PythonTypes, WorldTypes
<1>3. \A x \in alive : py'[x] = py[x]
  BY <1>1 DEF PythonTypes
<1>4. World'
  <2>1. \A x \in alive' : py'[x].next \in alive' \cup {Null}
    BY <1>1, <1>3 DEF World, PythonTypes
  <2>q. QED
    BY <1>1, <2>1 DEF World, Live
<1>5. InSync'
  <2> SUFFICES ASSUME NEW h \in Live
               PROVE  IF entry[h].stale THEN rescan \/ h \in staleList
                      ELSE Matches(h)' /\ mark[h] # "none"
    BY <1>1 DEF InSync, PythonRuns, Live
  <2>1. py'[entry[h].obj] = py[entry[h].obj]
    BY <1>3 DEF World
  <2>2. CASE ~entry[h].stale
    <3>1. Matches(h) /\ mark[h] # "none"
      BY <1>1, <2>2 DEF InSync, PythonRuns
    <3>q. QED
      BY <1>1, <2>1, <2>2, <3>1, MatchesKept
  <2>q. QED
    BY <1>1, <2>2 DEF InSync, PythonRuns
<1>q. QED
  BY <1>1, <1>2, <1>4, <1>5, FromRest

LEMMA ClassStep ==
    ASSUME ResidentInv, ChangeClass
    PROVE  ResidentInv'
<1> USE DEF ResidentInv, ResidentTypeOK
<1>1. PythonRuns /\ UNCHANGED <<alive, py, enabled, rescan, entry, staleList, dead, rec, mark, crossing>>
  BY DEF ChangeClass, PythonRuns, nativeVars, callVars
<1>2. PythonTypes' /\ WorldTypes'
  BY DEF ChangeClass, PythonTypes, WorldTypes
<1>3. World' /\ InSync'
  BY <1>1 DEF World, InSync, Live, Matches, EntryOf
<1>q. QED
  BY <1>1, <1>2, <1>3, FromRest

-----------------------------------------------------------------------------
(* The beginning of a call. *)

LEMMA StillOutside ==
    ASSUME ResidentInv, arg = Null, arg' = Null, UNCHANGED <<touched, lock, made, workerVars>>,
           \A h \in Handles : mark'[h] = "dirty" => mark[h] = "dirty",
           crossing' # Null => crossing' \in alive'
    PROVE  AtRest' /\ Native' /\ Working'
<1> USE DEF ResidentInv, workerVars
<1>1. AtRest'
  BY DEF AtRest
<1>2. Native'
  BY DEF Native
<1>3. Working'
  BY DEF Working, AtRest
<1>q. QED
  BY <1>1, <1>2, <1>3

\* Nothing is native any more.
LEMMA LetGoStep ==
    ASSUME ResidentInv, NEW o \in Objects, Begins(o), LetGo, enabled' \in BOOLEAN, crossing' \in {Null, o}
    PROVE  ResidentInv'
<1> USE DEF ResidentInv, ResidentTypeOK
<1>1. /\ crossing = Null /\ arg = Null /\ arg' = Null /\ o \in alive /\ made = {}
      /\ UNCHANGED <<alive, plain, py, touched, lock, made, work, at, length, pythons, stores>>
      /\ calls' = calls + 1 /\ calls < MaxCalls /\ changed' = FALSE
  BY DEF Begins, AtRest, pythonVars, workerVars
<1>2. /\ entry' = Cleared /\ staleList' = {} /\ rescan' = FALSE /\ dead' = 0 /\ heap' = {}
      /\ rec' = [h \in Handles |-> Zero] /\ mark' = [h \in Handles |-> "none"]
  BY DEF LetGo
<1>3. Live' = {} /\ \A h \in Handles : entry'[h] = NoEntry
  BY <1>2 DEF Live, Cleared, NoEntry
<1>4. PythonTypes' /\ WorldTypes' /\ NativeTypes' /\ CallTypes' /\ WorkerTypes'
  <2>1. PythonTypes' /\ WorldTypes' /\ NativeTypes' /\ WorkerTypes'
    BY <1>1, <1>2 DEF PythonTypes, WorldTypes, NativeTypes, WorkerTypes, Entries, Records,
                      Cleared, Zero
  <2>2. calls' \in 0 .. MaxCalls
    BY <1>1, ResidentAssumption DEF CallTypes
  <2>q. QED
    BY <1>1, <2>1, <2>2 DEF CallTypes
<1>5. World' /\ Kept'
  BY <1>1, <1>2, <1>3 DEF World, Kept
<1>6. InSync' /\ Crossed'
  BY <1>3 DEF InSync, Crossed
<1>7. AtRest' /\ Native' /\ Working'
  BY <1>1, <1>2, StillOutside DEF workerVars
<1>q. QED
  BY <1>4, <1>5, <1>6, <1>7

LEMMA ReadMatches ==
    ASSUME NEW h, UNCHANGED py, rec'[h] = Read(entry', entry'[h].obj),
           \/ py[entry'[h].obj].next = Null
           \/ EntryOf(entry', py[entry'[h].obj].next) # {}
    PROVE  Matches(h)'
  BY HandleIs DEF Matches, Read, HandleOf

\* `px_res_add` and `px_fields_in`: the records of what was met are read, but for those
\* refused, which are to be read again; the others stay as they are.
Alike(entries) == \A h \in Handles :
    /\ entries[h].obj = entry[h].obj /\ entries[h].live = entry[h].live
    /\ (entries[h] = NoEntry <=> entry[h] = NoEntry)
AllMet(met) == \A p \in met :
    \/ py[p].number = Odd \/ py[p].next = Null
    \/ EntryOf(entry, py[p].next) # {} \/ py[p].next \in met
Mine(full, met) == {h \in Handles : full[h].live /\ full[h].obj \in met}
OddOnes(full, met) == {h \in Mine(full, met) : py[full[h].obj].number = Odd}

LEMMA Admission ==
    ASSUME PythonTypes, World, entry \in Entries, rec \in Records,
           mark \in [Handles -> {"none", "clean", "dirty"}], UNCHANGED pythonVars,
           NEW entries \in Entries, Alike(entries),
           NEW met \in SUBSET alive, Room(entries, met), AllMet(met),
           NEW mine, mine = Mine(Admitted(entries, met), met),
           NEW odd, odd = OddOnes(Admitted(entries, met), met),
           entry' = Flagged(Admitted(entries, met), odd),
           Settle(Admitted(entries, met), mine \ odd, odd)
    PROVE  /\ entry' \in Entries /\ rec' \in Records /\ heap' \subseteq Handles
           /\ mark' \in [Handles -> {"none", "clean", "dirty"}]
           /\ World'
           /\ \A h \in Handles : entry'[h] # NoEntry => h \in heap'
           /\ \A h \in heap' : rec'[h].next \in heap' \cup {Null}
           /\ \A h \in Handles : mark'[h] = "dirty" => mark[h] = "dirty"
           /\ \A p : EntryOf(entry', p) = EntryOf(Admitted(entries, met), p)
           /\ \A p \in met : EntryOf(Admitted(entries, met), p) # {}
           /\ \A p : EntryOf(entry, p) \subseteq EntryOf(Admitted(entries, met), p)
           /\ odd \subseteq Live' /\ \A h \in odd : entry'[h].stale
           /\ \A h \in mine \ odd :
                /\ Matches(h)' /\ mark'[h] # "none"
                /\ entry'[h].stale => h \in Live /\ entries[h].stale
           /\ \A h \in Live' \ mine :
                /\ h \in Live /\ entry'[h] = entries[h] /\ entry[h].obj \notin met
                /\ mark'[h] = mark[h] /\ (Matches(h) => Matches(h)')
<1> DEFINE full == Admitted(entries, met)
<1>a. /\ mine \in SUBSET Handles /\ odd \in SUBSET mine
      /\ \A h \in Handles : h \in mine <=> full[h].live /\ full[h].obj \in met
      /\ \A h \in mine : h \in odd <=> py[full[h].obj].number = Odd
      /\ entry' = Flagged(full, odd) /\ Settle(full, mine \ odd, odd)
      /\ full = Admitted(entries, met)
  BY DEF Mine, OddOnes
<1> HIDE DEF full
<1>g. /\ \A h \in Handles : /\ entries[h].obj = entry[h].obj /\ entries[h].live = entry[h].live
                            /\ (entries[h] = NoEntry <=> entry[h] = NoEntry)
      /\ \A p \in met : \/ py[p].number = Odd \/ py[p].next = Null
                        \/ EntryOf(entry, py[p].next) # {} \/ py[p].next \in met
  BY DEF Alike, AllMet
<1>b. UNCHANGED <<alive, plain, py>>
  BY DEF pythonVars
<1>c. met \in SUBSET Objects
  BY DEF PythonTypes
<1>d. LiveIn(entries) = Live
  BY <1>g DEF LiveIn, Live
<1>e. \A p : EntryOf(entries, p) = EntryOf(entry, p)
  BY <1>g DEF EntryOf
<1>f. OneEach(entries)
  BY <1>d, <1>g DEF OneEach, World, Live
<1>1. /\ LiveIn(entries) = Live /\ OneEach(entries)
      /\ \A p : EntryOf(entries, p) = EntryOf(entry, p)
  BY <1>d, <1>e, <1>f
<1>2. /\ full \in Entries /\ OneEach(full)
      /\ \A h \in Handles : entries[h] # NoEntry => full[h] = entries[h]
      /\ \A h \in Handles : entries[h] = NoEntry =>
           full[h] = NoEntry \/ (full[h].obj \in met /\ ~full[h].stale)
      /\ \A p \in met : EntryOf(full, p) # {}
      /\ \A p : EntryOf(entries, p) \subseteq EntryOf(full, p)
  BY <1>1, <1>a, <1>c, AdmittedIs
<1>3. /\ mine \subseteq Handles /\ odd \subseteq mine
      /\ mine \subseteq LiveIn(full) /\ \A h \in mine : full[h].obj \in met
  BY <1>a DEF LiveIn
<1>4. \A h \in mine \ odd : /\ py[full[h].obj].number # Odd
                            /\ \/ py[full[h].obj].next = Null
                               \/ EntryOf(full, py[full[h].obj].next) # {}
  BY <1>1, <1>2, <1>3, <1>a, <1>g
<1>5. /\ rec' \in Records /\ heap' \subseteq Handles
      /\ mark' \in [Handles -> {"none", "clean", "dirty"}]
      /\ \A h \in Handles : full[h] # NoEntry => h \in heap'
      /\ \A h \in heap' : rec'[h].next \in heap' \cup {Null}
      /\ \A h \in mine \ odd : rec'[h] = Read(full, full[h].obj) /\ mark'[h] = "clean"
      /\ \A h \in Handles \ ((mine \ odd) \cup odd) : full[h] # NoEntry =>
           rec'[h] = rec[h] /\ mark'[h] = mark[h]
      /\ \A h \in Handles : mark'[h] = "dirty" => mark[h] = "dirty"
  <2>1. mine \ odd \in SUBSET LiveIn(full) /\ odd \in SUBSET Handles
    BY <1>3
  <2>2. Settle(full, mine \ odd, odd)
    BY <1>a
  <2>3. Readable(full, mine \ odd)
    BY <1>4 DEF Readable
  <2>q. QED
    BY <1>2, <2>1, <2>2, <2>3, SettleIs
<1>6. /\ entry' \in Entries
      /\ \A h \in Handles : entry'[h].obj = full[h].obj /\ entry'[h].live = full[h].live
      /\ \A h \in Handles : entry'[h] # NoEntry <=> full[h] # NoEntry
      /\ \A h \in Handles \ odd : entry'[h] = full[h]
      /\ \A h \in odd : entry'[h].stale
  <2>1. odd \in SUBSET LiveIn(full)
    BY <1>3
  <2>q. QED
    BY <1>2, <1>a, <2>1, FlaggedIs
<1>11. Live' = LiveIn(full) /\ \A p : EntryOf(entry', p) = EntryOf(full, p)
  BY <1>6 DEF Live, LiveIn, EntryOf
<1>12. World'
  <2>1. ASSUME NEW h \in Live' PROVE entry'[h].obj \in alive
    <3>1. h \in Handles /\ full[h].live /\ full[h] # NoEntry
      BY <1>2, <1>11, LiveIs DEF LiveIn
    <3>2. CASE entries[h] # NoEntry
      <4>1. full[h] = entries[h] /\ h \in Live
        BY <1>2, <1>g, <3>1, <3>2 DEF Live
      <4>q. QED
        BY <1>6, <1>g, <3>1, <4>1 DEF World
    <3>3. CASE entries[h] = NoEntry
      BY <1>2, <1>6, <3>1, <3>3
    <3>q. QED
      BY <3>2, <3>3
  <2>2. \A g, h \in Live' : entry'[g].obj = entry'[h].obj => g = h
    BY <1>2, <1>6, <1>11 DEF OneEach, LiveIn
  <2>q. QED
    BY <1>b, <2>1, <2>2 DEF World
<1>13. ASSUME NEW h \in mine \ odd
       PROVE  /\ Matches(h)' /\ mark'[h] # "none"
              /\ entry'[h].stale => h \in Live /\ entries[h].stale
  <2>1. entry'[h] = full[h] /\ h \in Handles /\ full[h] # NoEntry /\ full[h].live
    BY <1>2, <1>3, <1>6, LiveIs DEF LiveIn
  <2>2. rec'[h] = Read(entry', entry'[h].obj)
    BY <1>5, <1>11, <2>1, SameRead
  <2>3. Matches(h)'
    <3>1. \/ py[entry'[h].obj].next = Null
          \/ EntryOf(entry', py[entry'[h].obj].next) # {}
      BY <1>4, <1>11, <2>1
    <3>2. UNCHANGED py
      BY <1>b
    <3>q. QED
      BY <2>2, <3>1, <3>2, ReadMatches
  <2>4. entry'[h].stale => entries[h] # NoEntry
    BY <1>2, <2>1
  <2>5. entries[h] # NoEntry => full[h] = entries[h] /\ h \in Live
    BY <1>2, <1>g, <2>1 DEF Live
  <2>q. QED
    BY <1>5, <2>1, <2>3, <2>4, <2>5
<1>14. ASSUME NEW h \in Live' \ mine
       PROVE  /\ h \in Live /\ entry'[h] = entries[h] /\ entry[h].obj \notin met
              /\ mark'[h] = mark[h] /\ (Matches(h) => Matches(h)')
  <2>1. h \in Handles /\ full[h].live /\ full[h] # NoEntry /\ entry'[h] = full[h]
        /\ full[h].obj \notin met
    BY <1>2, <1>3, <1>a, <1>6, <1>11, LiveIs DEF LiveIn
  <2>2. entries[h] # NoEntry
    BY <1>2, <2>1
  <2>3. full[h] = entries[h] /\ h \in Live
    BY <1>2, <1>g, <2>1, <2>2 DEF Live
  <2>4. rec'[h] = rec[h] /\ mark'[h] = mark[h]
    BY <1>3, <1>5, <2>1
  <2>5. Matches(h) => Matches(h)'
    <3>1. entry'[h].obj = entry[h].obj /\ py'[entry[h].obj] = py[entry[h].obj]
      BY <1>b, <1>g, <2>1, <2>3
    <3>2. \A p : EntryOf(entry, p) \subseteq EntryOf(entry', p)
      BY <1>1, <1>2, <1>11
    <3>q. QED
      BY <2>4, <3>1, <3>2, MatchesKept
  <2>q. QED
    BY <1>g, <2>1, <2>3, <2>4, <2>5
<1>15. odd \subseteq Live'
  BY <1>3, <1>11
<1>16. /\ \A p : EntryOf(entry', p) = EntryOf(full, p)
       /\ \A p \in met : EntryOf(full, p) # {}
       /\ \A p : EntryOf(entry, p) \subseteq EntryOf(full, p)
  BY <1>1, <1>2, <1>11
<1>17. /\ entry' \in Entries /\ rec' \in Records /\ heap' \subseteq Handles
       /\ mark' \in [Handles -> {"none", "clean", "dirty"}]
       /\ \A h \in Handles : entry'[h] # NoEntry => h \in heap'
       /\ \A h \in heap' : rec'[h].next \in heap' \cup {Null}
       /\ \A h \in Handles : mark'[h] = "dirty" => mark[h] = "dirty"
       /\ \A h \in odd : entry'[h].stale
  BY <1>5, <1>6
<1>q. QED
  BY <1>a, <1>12, <1>13, <1>14, <1>15, <1>16, <1>17

\* The stale entries are all looked at, and none is refused.
LEMMA RefreshStep ==
    ASSUME ResidentInv, NEW o \in Objects, Refresh(o)
    PROVE  ResidentInv'
<1> DEFINE met     == Met(entry, Again)
           entries == [h \in Handles |-> IF h \in ToRefresh THEN [entry[h] EXCEPT !.stale = FALSE]
                                         ELSE entry[h]]
           full    == Admitted(entries, met)
           mine    == Mine(full, met)
<1>1. /\ Begins(o) /\ ~Refused /\ Room(entry, met) /\ crossing' = o
      /\ entry' = full /\ Settle(full, mine, {})
      /\ staleList' = {} /\ rescan' = FALSE /\ UNCHANGED <<enabled, dead>>
  BY DEF Refresh, Mine
<1>2. /\ PythonTypes /\ WorldTypes /\ NativeTypes /\ CallTypes /\ WorkerTypes
      /\ World /\ Kept /\ AtRest /\ InSync
  BY DEF ResidentInv, ResidentTypeOK
<1>3. /\ crossing = Null /\ arg = Null /\ arg' = Null /\ o \in alive /\ made = {}
      /\ UNCHANGED <<alive, plain, py, touched, lock, made, work, at, length, pythons, stores>>
      /\ UNCHANGED pythonVars /\ UNCHANGED workerVars
      /\ calls' = calls + 1 /\ calls < MaxCalls /\ changed' = FALSE
  BY <1>1, <1>2 DEF Begins, AtRest, pythonVars, workerVars
<1>4. \A h \in Live : entry[h].stale => h \in ToRefresh
  BY <1>2, <1>3 DEF InSync, ToRefresh, Live
<1>5. \A h \in ToRefresh : /\ h \in Handles /\ entry[h] # NoEntry
                           /\ entry[h] \in [obj : Objects, live : BOOLEAN, stale : BOOLEAN]
  BY <1>2 DEF ToRefresh, NoEntry, WorldTypes, Entries
<1>6. \A h \in ToRefresh :
        /\ entries[h] \in [obj : Objects, live : BOOLEAN, stale : BOOLEAN] /\ ~entries[h].stale
        /\ entries[h].obj = entry[h].obj /\ entries[h].live = entry[h].live
  BY <1>5
<1>7. \A h \in Handles \ ToRefresh : entries[h] = entry[h]
  OBVIOUS
<1>8. entries = [h \in Handles |-> entries[h]]
  OBVIOUS
<1> HIDE DEF entries
<1>9. \A h \in ToRefresh : entries[h] # NoEntry
  BY <1>6, ResidentAssumption DEF NoEntry
<1>10. entries \in Entries
  <2>1. \A h \in Handles : entries[h] \in {NoEntry} \cup [obj : Objects, live : BOOLEAN, stale : BOOLEAN]
    BY <1>2, <1>6, <1>7 DEF WorldTypes, Entries
  <2>q. QED
    BY <1>8, <2>1 DEF Entries
<1>11. Alike(entries)
  BY <1>5, <1>6, <1>7, <1>9 DEF Alike
<1>12. Again \in SUBSET alive
  BY <1>2 DEF Again, World
<1>13. Again \subseteq met /\ met \in SUBSET alive /\ AllMet(met)
  BY <1>2, <1>12, MetIs DEF WorldTypes, AllMet
<1>14. \A p \in met : py[p].number # Odd
  BY <1>1 DEF Refused
<1> HIDE DEF met
<1>15. Room(entries, met)
  <2>1. \A p : EntryOf(entries, p) = EntryOf(entry, p)
    BY <1>11 DEF EntryOf, Alike
  <2>2. New(entries, met) = New(entry, met)
    BY <2>1 DEF New
  <2>3. {h \in Handles : entries[h] # NoEntry} = {h \in Handles : entry[h] # NoEntry}
    BY <1>11 DEF Alike
  <2>4. Spare(entries) = Spare(entry)
    BY <2>3 DEF Spare, Held
  <2>q. QED
    BY <1>1, <2>2, <2>4 DEF Room
<1>16. \A h \in mine : full[h].obj \in met
  BY DEF Mine
<1> DEFINE none == OddOnes(full, met)
<1>17. none = {} /\ mine \ none = mine
  BY <1>14, <1>16 DEF OddOnes
<1>18. Settle(full, mine \ none, none)
  BY <1>1, <1>17
<1>19. entry' = Flagged(full, none)
  <2>1. full = [h \in Handles |-> full[h]]
    BY DEF Admitted, Entered
  <2> HIDE DEF full, none, mine
  <2>q. QED
    BY <1>1, <1>17, <2>1 DEF Flagged
<1>21. /\ entry' \in Entries /\ rec' \in Records /\ heap' \subseteq Handles
       /\ mark' \in [Handles -> {"none", "clean", "dirty"}]
       /\ World'
       /\ \A h \in Handles : entry'[h] # NoEntry => h \in heap'
       /\ \A h \in heap' : rec'[h].next \in heap' \cup {Null}
       /\ \A h \in Handles : mark'[h] = "dirty" => mark[h] = "dirty"
       /\ \A h \in mine \ none :
            /\ Matches(h)' /\ mark'[h] # "none"
            /\ entry'[h].stale => h \in Live /\ entries[h].stale
       /\ \A h \in Live' \ mine :
            /\ h \in Live /\ entry'[h] = entries[h] /\ entry[h].obj \notin met
            /\ mark'[h] = mark[h] /\ (Matches(h) => Matches(h)')
  <2>1. entry \in Entries /\ rec \in Records /\ mark \in [Handles -> {"none", "clean", "dirty"}]
    BY <1>2 DEF WorldTypes, NativeTypes
  <2>q. QED
    BY <1>2, <1>3, <1>10, <1>11, <1>13, <1>15, <1>18, <1>19, <2>1, Admission
<1> HIDE DEF full, none, mine
<1>22. ASSUME NEW h \in Live'
       PROVE  ~entry'[h].stale /\ mark'[h] # "none" /\ Matches(h)'
  <2>1. \A g \in Live : ~entries[g].stale
    BY <1>4, <1>6, <1>7 DEF Live
  <2>2. CASE h \in mine
    BY <1>17, <1>21, <2>1, <2>2
  <2>3. CASE h \notin mine
    <3>1. /\ h \in Live /\ entry'[h] = entries[h] /\ entry[h].obj \notin met
          /\ mark'[h] = mark[h] /\ (Matches(h) => Matches(h)')
      BY <1>21, <2>3
    <3>2. ~entry[h].stale
      BY <1>4, <1>13, <3>1 DEF Again
    <3>q. QED
      BY <1>2, <1>3, <2>1, <3>1, <3>2 DEF InSync
  <2>q. QED
    BY <2>2, <2>3
<1>23. PythonTypes' /\ WorldTypes' /\ NativeTypes' /\ WorkerTypes'
  BY <1>1, <1>2, <1>3, <1>21 DEF PythonTypes, WorldTypes, NativeTypes, WorkerTypes
<1>24. CallTypes'
  BY <1>1, <1>2, <1>3, ResidentAssumption DEF CallTypes
<1>25. Kept'
  BY <1>3, <1>21 DEF Kept
<1>26. InSync' /\ Crossed'
  <2>1. crossing' # Null
    BY <1>1, ResidentAssumption
  <2>q. QED
    BY <1>22, <2>1 DEF InSync, Crossed
<1>27. AtRest' /\ Native' /\ Working'
  BY <1>1, <1>3, <1>21, StillOutside
<1>q. QED
  BY <1>21, <1>23, <1>24, <1>25, <1>26, <1>27 DEF ResidentInv, ResidentTypeOK

LEMMA DisableStep ==
    ASSUME ResidentInv, NEW o \in Objects, Disable(o) \/ RefreshRefused(o)
    PROVE  ResidentInv'
<1>1. Begins(o) /\ LetGo /\ enabled' \in BOOLEAN
  BY DEF Disable, RefreshRefused, ResidentInv, ResidentTypeOK, WorldTypes
<1>2. crossing' \in {Null, o}
  BY DEF Disable, RefreshRefused, Begins
<1>q. QED
  BY <1>1, <1>2, LetGoStep

\* Before native code runs no thread has a record.
LEMMA NoneTouching ==
    ASSUME ResidentInv, arg = Null, NEW h \in Handles
    PROVE  ~Touching(h)
BY ResidentAssumption DEF ResidentInv, AtRest, Working, Touching, Range

\* The living keep their records.
LEMMA PurgeStep ==
    ASSUME ResidentInv, Purge
    PROVE  ResidentInv'
<1> DEFINE kept == [h \in Handles |-> IF entry[h].live THEN entry[h] ELSE NoEntry]
<1>1. /\ crossing # Null /\ arg = Null /\ entry' = kept /\ Settle(kept, {}, {})
      /\ staleList' = {h \in Live : entry[h].stale} /\ rescan' = FALSE /\ dead' = 0
      /\ UNCHANGED <<alive, plain, py, enabled, changed, touched, lock, made, workerVars, pythons,
                     calls, crossing, arg, stores>>
      /\ UNCHANGED <<work, at, length>>
  BY DEF Purge, Crosses, pythonVars, workerVars
<1>2. /\ PythonTypes /\ WorldTypes /\ NativeTypes /\ CallTypes /\ WorkerTypes
      /\ World /\ Kept /\ AtRest /\ InSync /\ Crossed
  BY DEF ResidentInv, ResidentTypeOK
<1>3. \A h \in Live : h \in Handles /\ kept[h] = entry[h] /\ entry[h] # NoEntry
  BY <1>2, LiveIs DEF Live, LiveIn, WorldTypes
<1>4. \A h \in Handles : kept[h].live => h \in Live
  BY DEF Live, NoEntry
<1>5. kept \in Entries
  BY <1>2 DEF WorldTypes, Entries
<1>6. \A h \in Handles : kept[h] # NoEntry => h \in Live
  BY DEF Live
<1> HIDE DEF kept
<1>7. Live' = Live /\ \A p : EntryOf(entry', p) = EntryOf(entry, p)
  <2>1. \A h \in Handles : entry'[h].live <=> h \in Live
    BY <1>1, <1>3, <1>4 DEF Live
  <2>q. QED
    BY <1>1, <1>3, <2>1 DEF Live, EntryOf
<1>8. /\ rec' \in Records /\ heap' \subseteq Handles
      /\ mark' \in [Handles -> {"none", "clean", "dirty"}]
      /\ \A h \in Handles : kept[h] # NoEntry => h \in heap'
      /\ \A h \in heap' : rec'[h].next \in heap' \cup {Null}
      /\ \A h \in Handles \ ({} \cup {}) : kept[h] # NoEntry => rec'[h] = rec[h] /\ mark'[h] = mark[h]
      /\ \A h \in Handles : mark'[h] = "dirty" => mark[h] = "dirty"
  <2>1. Readable(kept, {}) /\ {} \in SUBSET LiveIn(kept) /\ {} \in SUBSET Handles
    BY DEF Readable
  <2>2. PythonTypes /\ rec \in Records /\ mark \in [Handles -> {"none", "clean", "dirty"}]
    BY <1>2 DEF NativeTypes
  <2>3. Settle(kept, {}, {})
    BY <1>1
  <2>q. QED
    BY <1>5, <2>1, <2>2, <2>3, SettleIs
<1>9. ASSUME NEW h \in Live
      PROVE  /\ entry'[h] = entry[h] /\ ~entry[h].stale /\ mark'[h] # "none"
             /\ Matches(h)'
  <2>1. /\ entry'[h] = entry[h] /\ ~entry[h].stale /\ mark[h] # "none" /\ Matches(h)
    BY <1>1, <1>2, <1>3, NoneTouching DEF InSync, Crossed
  <2>2. rec'[h] = rec[h] /\ mark'[h] = mark[h]
    BY <1>3, <1>8
  <2>q. QED
    BY <1>1, <1>7, <2>1, <2>2, MatchesKept
<1>10. PythonTypes' /\ WorldTypes' /\ NativeTypes' /\ WorkerTypes'
  <2>1. staleList' \subseteq Handles
    BY <1>1 DEF Live
  <2>q. QED
    BY <1>1, <1>2, <1>5, <1>8, <2>1 DEF PythonTypes, WorldTypes, NativeTypes, WorkerTypes
<1>11. made' = {}
  BY <1>1, <1>2 DEF AtRest
<1>12. CallTypes' /\ Kept'
  BY <1>1, <1>2, <1>8, <1>11 DEF CallTypes, Kept
<1>13. World'
  BY <1>1, <1>2, <1>7, <1>9 DEF World
<1>14. InSync' /\ Crossed'
  BY <1>1, <1>7, <1>9 DEF InSync, Crossed
<1>15. AtRest' /\ Native' /\ Working'
  <2>1. crossing' \in alive'
    BY <1>1, <1>2 DEF AtRest
  <2>q. QED
    BY <1>1, <1>8, <2>1, StillOutside
<1>q. QED
  BY <1>10, <1>12, <1>13, <1>14, <1>15 DEF ResidentInv, ResidentTypeOK

\* The argument gets a record that says what it does, or the call is refused.
LEMMA CrossStep ==
    ASSUME ResidentInv, Cross
    PROVE  ResidentInv'
<1> DEFINE met  == IF EntryOf(entry, crossing) # {} THEN {} ELSE Met(entry, {crossing})
           full == Admitted(entry, met)
           mine == Mine(full, met)
           odd  == OddOnes(full, met)
<1>1. /\ Crosses /\ Room(entry, met) /\ entry' = Flagged(full, odd)
      /\ \/ staleList' = staleList \cup odd /\ rescan' = rescan
         \/ staleList' = staleList /\ rescan' = TRUE
      /\ Settle(full, mine \ odd, odd)
      /\ IF odd = {} THEN arg' = HandleOf(full, crossing) /\ UNCHANGED crossing
                     ELSE crossing' = Null /\ UNCHANGED arg
      /\ stores' = 0 /\ UNCHANGED dead
  <2>1. Crosses /\ Room(entry, met) /\ stores' = 0 /\ UNCHANGED dead
    BY DEF Cross
  <2>2. /\ entry' = Flagged(full, odd)
        /\ \/ staleList' = staleList \cup odd /\ rescan' = rescan
           \/ staleList' = staleList /\ rescan' = TRUE
    BY DEF Cross, Mine, OddOnes, Flagged
  <2>3. Settle(full, mine \ odd, odd)
    BY DEF Cross, Mine, OddOnes
  <2>4. IF odd = {} THEN arg' = HandleOf(full, crossing) /\ UNCHANGED crossing
                   ELSE crossing' = Null /\ UNCHANGED arg
    BY DEF Cross, Mine, OddOnes
  <2>q. QED
    BY <2>1, <2>2, <2>3, <2>4
<1>2. /\ PythonTypes /\ WorldTypes /\ NativeTypes /\ CallTypes /\ WorkerTypes
      /\ World /\ Kept /\ AtRest /\ InSync /\ Crossed /\ Working
  BY DEF ResidentInv, ResidentTypeOK
<1>3. /\ crossing # Null /\ arg = Null /\ crossing \in alive /\ made = {} /\ made' = {}
      /\ UNCHANGED <<alive, plain, py, enabled, changed, touched, lock, made, work, at, length,
                     pythons, calls>>
      /\ UNCHANGED pythonVars /\ UNCHANGED workerVars
  BY <1>1, <1>2 DEF Crosses, AtRest, pythonVars, workerVars
<1>4. met \in SUBSET alive /\ AllMet(met) /\ (EntryOf(entry, crossing) # {} \/ crossing \in met)
  <2>1. CASE EntryOf(entry, crossing) # {}
    BY <2>1 DEF AllMet
  <2>2. CASE EntryOf(entry, crossing) = {}
    <3>1. met = Met(entry, {crossing}) /\ entry \in Entries
      BY <1>2, <2>2 DEF WorldTypes
    <3>q. QED
      BY <1>2, <1>3, <3>1, MetIs DEF AllMet
  <2>q. QED
    BY <2>1, <2>2
<1> HIDE DEF met
<1>5. Alike(entry) /\ entry \in Entries /\ rec \in Records
      /\ mark \in [Handles -> {"none", "clean", "dirty"}]
  BY <1>2 DEF Alike, WorldTypes, NativeTypes
<1>6. /\ entry' \in Entries /\ rec' \in Records /\ heap' \subseteq Handles
      /\ mark' \in [Handles -> {"none", "clean", "dirty"}]
      /\ World'
      /\ \A h \in Handles : entry'[h] # NoEntry => h \in heap'
      /\ \A h \in heap' : rec'[h].next \in heap' \cup {Null}
      /\ \A h \in Handles : mark'[h] = "dirty" => mark[h] = "dirty"
      /\ \A p : EntryOf(entry', p) = EntryOf(full, p)
      /\ \A p \in met : EntryOf(full, p) # {}
      /\ \A p : EntryOf(entry, p) \subseteq EntryOf(full, p)
      /\ odd \subseteq Live' /\ \A h \in odd : entry'[h].stale
      /\ \A h \in mine \ odd :
           /\ Matches(h)' /\ mark'[h] # "none"
           /\ entry'[h].stale => h \in Live /\ entry[h].stale
      /\ \A h \in Live' \ mine :
           /\ h \in Live /\ entry'[h] = entry[h] /\ entry[h].obj \notin met
           /\ mark'[h] = mark[h] /\ (Matches(h) => Matches(h)')
  BY <1>1, <1>2, <1>3, <1>4, <1>5, Admission
<1> HIDE DEF full, mine, odd
<1>7. ASSUME NEW h \in Live', h \notin odd
      PROVE  ~entry'[h].stale /\ mark'[h] # "none" /\ Matches(h)'
  <2>1. CASE h \in mine
    BY <1>2, <1>3, <1>6, <1>7, <2>1 DEF InSync
  <2>2. CASE h \notin mine
    <3>1. /\ h \in Live /\ h \in Handles /\ entry'[h] = entry[h]
          /\ mark'[h] = mark[h] /\ (Matches(h) => Matches(h)')
      BY <1>6, <2>2 DEF Live
    <3>2. ~entry[h].stale /\ mark[h] # "none" /\ Matches(h)
      BY <1>2, <1>3, <3>1, NoneTouching DEF InSync, Crossed
    <3>q. QED
      BY <3>1, <3>2
  <2>q. QED
    BY <2>1, <2>2
<1>8. PythonTypes' /\ WorldTypes' /\ NativeTypes' /\ WorkerTypes' /\ Kept'
  <2>1. staleList' \subseteq Handles /\ rescan' \in BOOLEAN
    BY <1>1, <1>2, <1>6 DEF Live, WorldTypes
  <2>2. PythonTypes' /\ WorldTypes' /\ NativeTypes' /\ WorkerTypes'
    BY <1>1, <1>2, <1>3, <1>6, <2>1 DEF PythonTypes, WorldTypes, NativeTypes, WorkerTypes
  <2>q. QED
    BY <1>3, <1>6, <2>2 DEF Kept
<1>9. stores' \in 0 .. MaxStores
  BY <1>1, ResidentAssumption
<1>10. CASE odd # {}
  <2>1. crossing' = Null /\ arg' = Null
    BY <1>1, <1>3, <1>10
  <2>2. CallTypes'
    BY <1>2, <1>3, <1>9, <2>1 DEF CallTypes
  <2>3. InSync' /\ Crossed'
    <3>1. \A h \in odd : entry'[h].stale /\ (rescan' \/ h \in staleList')
      BY <1>1, <1>6
    <3>q. QED
      BY <1>7, <2>1, <3>1 DEF InSync, Crossed
  <2>4. AtRest' /\ Native' /\ Working'
    BY <1>3, <1>6, <2>1, StillOutside
  <2>q. QED
    BY <1>6, <1>8, <2>2, <2>3, <2>4 DEF ResidentInv, ResidentTypeOK
<1>11. CASE odd = {}
  <2>1. arg' = HandleOf(full, crossing) /\ crossing' = crossing
    BY <1>1, <1>11
  <2>2. EntryOf(full, crossing) # {}
    BY <1>4, <1>6
  <2>3. arg' \in Live' /\ arg' # Null /\ arg' \in Handles
    <3>1. arg' \in EntryOf(entry', crossing) /\ arg' # Null /\ arg' \in Handles
      BY <1>3, <1>6, <2>1, <2>2, HandleIs
    <3>q. QED
      BY <3>1 DEF EntryOf, Live
  <2>4. CallTypes'
    BY <1>2, <1>3, <1>9, <2>1, <2>3 DEF CallTypes
  <2>5. InSync' /\ Crossed'
    BY <1>3, <1>7, <1>11, <2>1 DEF InSync, Crossed
  <2>6. AtRest'
    BY <1>3, <2>1, <2>3 DEF AtRest
  <2>7. \A t \in Workers : work[t] = "idle"
    BY <1>2, <1>3 DEF AtRest
  <2>8. Working'
    BY <1>2, <1>3, <2>7 DEF Working
  <2>9. Native'
    <3>1. ASSUME NEW h \in Live' PROVE rec'[h].next \in Live' \cup {Null}
      <4>1. Matches(h)'
        BY <1>7, <1>11
      <4>q. QED
        BY <4>1 DEF Matches, EntryOf, Live
    <3>2. Range(touched') \subseteq Live' /\ \A h \in Handles : mark'[h] # "dirty"
      BY <1>2, <1>3, <1>6 DEF AtRest, Range
    <3>3. Cardinality(made') <= Cardinality(Objects \ alive')
      <4>1. Cardinality(Objects \ alive) \in Nat
        BY ResidentAssumption, FS_Subset, FS_CardinalityType
      <4>q. QED
        BY <1>3, <4>1, FS_EmptySet
    <3>q. QED
      BY <1>3, <2>3, <3>1, <3>2, <3>3 DEF Native
  <2>q. QED
    BY <1>6, <1>8, <2>4, <2>5, <2>6, <2>8, <2>9 DEF ResidentInv, ResidentTypeOK
<1>q. QED
  BY <1>10, <1>11

-----------------------------------------------------------------------------
(* Native code. *)

LEMMA NativeStep ==
    ASSUME ResidentInv, NativeRuns, NativeTypes', CallTypes', WorkerTypes', Kept', Native', Working',
           \A h \in Live : mark'[h] # "none" /\ (Matches(h)' \/ Touching(h)'),
           arg' = Null => FALSE
    PROVE  ResidentInv'
<1>1. /\ UNCHANGED <<alive, py, plain, enabled, changed, rescan, entry, staleList, dead,
                     crossing, arg>>
      /\ arg # Null
  BY DEF NativeRuns, pythonVars, worldVars
<1>2. Live' = Live
  BY <1>1 DEF Live
<1>3. crossing # Null
  BY <1>1 DEF ResidentInv, AtRest
<1>4. PythonTypes' /\ WorldTypes' /\ World'
  BY <1>1, <1>2 DEF ResidentInv, ResidentTypeOK, PythonTypes, WorldTypes, World
<1>5. AtRest' /\ InSync' /\ Crossed'
  BY <1>1, <1>2, <1>3 DEF ResidentInv, AtRest, InSync, Crossed
<1>q. QED
  BY <1>4, <1>5 DEF ResidentInv, ResidentTypeOK

\* What the steps of native code have in common.
LEMMA InNative ==
    ASSUME ResidentInv, NativeRuns
    PROVE  /\ arg # Null /\ arg' # Null /\ crossing # Null /\ Live' = Live
           /\ UNCHANGED <<alive, py, entry, arg, crossing, pythons, calls>>
           /\ \A h \in Live : mark[h] # "none" /\ (Matches(h) \/ Touching(h))
           /\ arg \in Live /\ Live \subseteq heap /\ made \subseteq heap /\ heap \subseteq Handles
           /\ Live \cap made = {}
           /\ \A h \in Live \cup made : rec[h].next \in Live \cup made \cup {Null}
           /\ \A h \in heap \ (Live \cup made) : rec[h].next \notin made
           /\ Range(touched) \subseteq Live
           /\ \A h \in made : mark[h] = "none"
           /\ \A h \in Handles : mark[h] = "dirty" => Listed(h)
           /\ Cardinality(made) <= Cardinality(Objects \ alive)
<1>1. /\ UNCHANGED <<alive, py, entry, arg, crossing, pythons, calls>>
      /\ arg # Null
  BY DEF NativeRuns, pythonVars, worldVars
<1>2. Live' = Live
  BY <1>1 DEF Live
<1>3. crossing # Null
  BY <1>1 DEF ResidentInv, AtRest
<1>4. Live \subseteq heap \ made
  BY LiveIs DEF ResidentInv, ResidentTypeOK, WorldTypes, Live, LiveIn, Kept
<1>5. made \subseteq heap /\ heap \subseteq Handles
  BY DEF ResidentInv, ResidentTypeOK, NativeTypes, CallTypes
<1>q. QED
  BY <1>1, <1>2, <1>3, <1>4, <1>5 DEF ResidentInv, Crossed, Native

\* Where neither the record nor the object changed they match as before.
LEMMA StillMatches ==
    ASSUME NEW h, UNCHANGED <<py, entry>>, rec'[h] = rec[h]
    PROVE  Matches(h)' <=> Matches(h)
BY DEF Matches, EntryOf

LEMMA ReachedLives ==
    ASSUME ResidentInv, arg # Null
    PROVE  Reached \subseteq Live \cup made
<1> DEFINE to   == NextOf(rec)
           from == {arg} \cup made
           T    == Live \cup made
<1>1. to \in [Handles -> Handles \cup {Null}] /\ \A h \in Handles : to[h] = rec[h].next
  BY DEF NextOf, ResidentInv, ResidentTypeOK, NativeTypes, Records
<1>2. from \subseteq T /\ T \in SUBSET Handles /\ from \in SUBSET Handles
  BY DEF ResidentInv, ResidentTypeOK, NativeTypes, CallTypes, Native, Live
<1>3. \A y \in T : to[y] \in T \cup {Null}
  BY <1>1, <1>2 DEF ResidentInv, Native
<1>4. Reached = Reach(from, to)
  BY DEF Reached
<1> HIDE DEF to, from, T
<1>5. Reached \subseteq T
  BY <1>1, <1>2, <1>3, <1>4, ReachIs
<1>q. QED
  BY <1>5 DEF T

LEMMA InstanceStep ==
    ASSUME ResidentInv, Instance
    PROVE  ResidentInv'
<1> DEFINE h == CHOOSE g \in Handles : g \notin heap
           new == [number |-> CHOOSE n \in Numbers : TRUE, next |-> Null]
<1>1. /\ NativeRuns /\ heap # Handles /\ Cardinality(made) < Cardinality(Objects \ alive)
      /\ heap' = heap \cup {h} /\ made' = made \cup {h}
      /\ rec' = [rec EXCEPT ![h] = new] /\ mark' = [mark EXCEPT ![h] = "none"]
      /\ UNCHANGED <<touched, lock, work, at, length, stores>>
  BY DEF Instance, workerVars
<1>2. NativeTypes /\ CallTypes /\ WorkerTypes /\ Kept /\ Working
  BY DEF ResidentInv, ResidentTypeOK
<1>3. h \in Handles /\ h \notin heap /\ h # Null
  BY <1>1, <1>2, ResidentAssumption DEF NativeTypes
<1>4. new \in [number : Numbers \cup {Null}, next : Handles \cup {Null}] /\ new.next = Null
  BY ResidentAssumption
<1> HIDE DEF h, new
<1>5. /\ rec' \in Records /\ rec'[h].next = Null /\ \A g \in Handles \ {h} : rec'[g] = rec[g]
      /\ mark' \in [Handles -> {"none", "clean", "dirty"}] /\ mark'[h] = "none"
      /\ \A g \in Handles \ {h} : mark'[g] = mark[g]
  BY <1>1, <1>2, <1>3, <1>4 DEF NativeTypes, Records
<1>6. NativeTypes' /\ CallTypes' /\ WorkerTypes'
  BY <1>1, <1>2, <1>3, <1>5, InNative DEF NativeTypes, CallTypes, WorkerTypes
<1>7. \A g \in heap : g \in Handles \ {h}
  BY <1>2, <1>3 DEF NativeTypes
<1>8. Kept'
  BY <1>1, <1>2, <1>3, <1>5, <1>7, InNative DEF Kept
<1>9. Cardinality(made') <= Cardinality(Objects \ alive)
  <2>1. IsFiniteSet(made) /\ h \notin made
    BY <1>1, <1>3, ResidentAssumption, InNative, FS_Subset
  <2>2. Cardinality(made') = Cardinality(made) + 1
    BY <1>1, <2>1, FS_AddElement
  <2>3. Cardinality(made) \in Nat /\ Cardinality(Objects \ alive) \in Nat
    BY <2>1, ResidentAssumption, FS_Subset, FS_CardinalityType
  <2>q. QED
    BY <1>1, <2>2, <2>3
<1>10. Native'
  <2>1. \A g \in Live' \cup made' : rec'[g].next \in Live' \cup made' \cup {Null}
    BY <1>1, <1>5, <1>7, InNative
  <2>2. \A g \in heap' \ (Live' \cup made') : rec'[g].next \notin made'
    BY <1>1, <1>2, <1>3, <1>5, <1>7, InNative DEF Kept
  <2>3. \A g \in made' : mark'[g] = "none"
    BY <1>1, <1>5, <1>7, InNative
  <2>4. \A g \in Handles : mark'[g] = "dirty" => Listed(g)'
    BY <1>1, <1>5, InNative DEF Listed
  <2>q. QED
    BY <1>1, <1>9, <2>1, <2>2, <2>3, <2>4, InNative DEF Native
<1>11. Working'
  <2>1. \A g \in Live : mark'[g] = mark[g]
    BY <1>1, <1>5, <1>7, InNative
  <2>q. QED
    BY <1>1, <1>2, <2>1, InNative DEF Working
<1>12. ASSUME NEW g \in Live
       PROVE  mark'[g] # "none" /\ (Matches(g)' \/ Touching(g)')
  <2>1. rec'[g] = rec[g] /\ mark'[g] = mark[g]
    BY <1>1, <1>5, <1>7, InNative
  <2>2. Matches(g)' <=> Matches(g)
    BY <1>1, <2>1, InNative, StillMatches
  <2>3. Touching(g)' <=> Touching(g)
    BY <1>1 DEF Touching
  <2>q. QED
    BY <1>1, <2>1, <2>2, <2>3, InNative
<1>q. QED
  BY <1>1, <1>6, <1>8, <1>10, <1>11, <1>12, InNative, NativeStep

LEMMA StoreStep ==
    ASSUME ResidentInv, NEW t \in Workers, NEW h \in Handles, NEW n \in Numbers,
           NEW g \in Handles \cup {Null}, StoreField(t, h, [number |-> n, next |-> g])
    PROVE  ResidentInv'
<1> DEFINE fields == [number |-> n, next |-> g]
<1>1. /\ NativeRuns /\ work[t] = "idle" /\ h \in Reached /\ g \in Reached \cup {Null}
      /\ stores < MaxStores /\ stores' = stores + 1
      /\ rec' = [rec EXCEPT ![h] = fields]
      /\ work' = [work EXCEPT ![t] = "check"] /\ at' = [at EXCEPT ![t] = h]
      /\ UNCHANGED <<heap, mark, touched, lock, made, length>>
  BY DEF StoreField
<1>2. NativeTypes /\ CallTypes /\ WorkerTypes /\ Kept /\ Working
  BY DEF ResidentInv, ResidentTypeOK
<1>3. h \in Live \cup made /\ g \in Live \cup made \cup {Null}
  BY <1>1, InNative, ReachedLives
<1>4. fields \in [number : Numbers \cup {Null}, next : Handles \cup {Null}] /\ fields.next = g
  OBVIOUS
<1> HIDE DEF fields
<1>5. rec' \in Records /\ rec'[h].next = g /\ \A x \in Handles \ {h} : rec'[x] = rec[x]
  BY <1>1, <1>2, <1>4 DEF NativeTypes, Records
<1>6. /\ work'[t] = "check" /\ at'[t] = h
      /\ \A u \in Workers \ {t} : work'[u] = work[u] /\ at'[u] = at[u]
      /\ at[t] = Null
  BY <1>1, <1>2 DEF WorkerTypes, Working
<1>7. NativeTypes' /\ CallTypes' /\ WorkerTypes'
  BY <1>1, <1>2, <1>5, ResidentAssumption, InNative DEF NativeTypes, CallTypes, WorkerTypes
<1>8. Kept'
  BY <1>1, <1>2, <1>3, <1>5, InNative DEF Kept
<1>9. \A x \in Handles : Listed(x) => Listed(x)'
  BY <1>1, <1>6 DEF Listed
<1>10. Native'
  <2>1. \A x \in Live' \cup made' : rec'[x].next \in Live' \cup made' \cup {Null}
    BY <1>1, <1>3, <1>5, InNative DEF Live
  <2>2. \A x \in heap' \ (Live' \cup made') : rec'[x].next \notin made'
    BY <1>1, <1>3, <1>5, InNative
  <2>3. \A x \in Handles : mark'[x] = "dirty" => Listed(x)'
    BY <1>1, <1>9, InNative
  <2>q. QED
    BY <1>1, <2>1, <2>2, <2>3, InNative DEF Native
<1>11. Working'
  <2> SUFFICES ASSUME NEW u \in Workers
               PROVE  /\ work'[u] = "idle" <=> at'[u] = Null
                      /\ work'[u] # "idle" => at'[u] \in Live \cup made
                      /\ work'[u] \in {"spin", "append"} => at'[u] \in Live /\ mark[at'[u]] = "dirty"
                      /\ work'[u] = "append" <=> lock = u
                      /\ work'[u] = "append" => length[u] = Len(touched)
    BY <1>1, InNative DEF Working
  <2>1. CASE u = t
    BY <1>1, <1>2, <1>3, <1>6, <2>1, ResidentAssumption DEF Working
  <2>2. CASE u # t
    BY <1>2, <1>6, <2>2 DEF Working
  <2>q. QED
    BY <2>1, <2>2
<1>12. ASSUME NEW x \in Live
       PROVE  mark'[x] # "none" /\ (Matches(x)' \/ Touching(x)')
  <2>1. mark'[x] # "none"
    BY <1>1, InNative
  <2>2. CASE x = h
    BY <1>6, <2>1, <2>2 DEF Touching
  <2>3. CASE x # h
    <3>1. x \in Handles /\ x # Null
      BY ResidentAssumption DEF Live
    <3>2. Matches(x)' <=> Matches(x)
      BY <1>1, <1>5, <2>3, <3>1, InNative, StillMatches
    <3>3. Touching(x) => Touching(x)'
      BY <1>1, <1>6, <3>1 DEF Touching
    <3>q. QED
      BY <1>1, <2>1, <3>2, <3>3, InNative
  <2>q. QED
    BY <2>2, <2>3
<1>q. QED
  BY <1>1, <1>7, <1>8, <1>10, <1>11, <1>12, InNative, NativeStep

\* The mark of a record a thread wrote: set by the first, who goes on to list it.
LEMMA CheckStep ==
    ASSUME ResidentInv, NEW t \in Workers, Check(t)
    PROVE  ResidentInv'
<1> DEFINE h == at[t]
<1>1. /\ NativeRuns /\ work[t] = "check"
      /\ UNCHANGED <<heap, rec, touched, lock, made, length, stores>>
  BY DEF Check
<1>2. NativeTypes /\ CallTypes /\ WorkerTypes /\ Kept /\ Working
  BY DEF ResidentInv, ResidentTypeOK
<1>3. h \in Live \cup made /\ h \in Handles /\ h # Null
  BY <1>1, <1>2, ResidentAssumption, InNative DEF Working, Live
<1>4. \A x \in Handles : Matches(x)' <=> Matches(x)
  BY <1>1, InNative, StillMatches
<1>5. Kept'
  BY <1>1, <1>2, InNative DEF Kept
<1>6. CASE mark[h] = "clean"
  <2>1. /\ mark' = [mark EXCEPT ![h] = "dirty"] /\ work' = [work EXCEPT ![t] = "spin"]
        /\ UNCHANGED at
    BY <1>6 DEF Check
  <2>2. h \in Live
    BY <1>1, <1>3, <1>6, InNative
  <2> HIDE DEF h
  <2>3. /\ mark'[h] = "dirty" /\ \A x \in Handles \ {h} : mark'[x] = mark[x]
        /\ work'[t] = "spin" /\ \A u \in Workers \ {t} : work'[u] = work[u]
    BY <1>2, <1>3, <2>1 DEF NativeTypes, WorkerTypes
  <2>4. NativeTypes' /\ CallTypes' /\ WorkerTypes'
    BY <1>1, <1>2, <1>3, <2>1, InNative DEF NativeTypes, CallTypes, WorkerTypes
  <2>5. at[t] = h
    BY DEF h
  <2>6. \A x \in Handles : mark'[x] = "dirty" => Listed(x)'
    <3>1. ASSUME NEW x \in Handles, x = h PROVE Listed(x)'
      BY <2>1, <2>3, <2>5, <3>1 DEF Listed
    <3>2. \A x \in Handles : Listed(x) => Listed(x)'
      BY <1>1, <2>1, <2>3 DEF Listed
    <3>q. QED
      BY <1>1, <2>3, <3>1, <3>2, InNative
  <2>7. Native'
    BY <1>1, <2>2, <2>3, <2>6, InNative DEF Native
  <2>8. Working'
    <3> SUFFICES ASSUME NEW u \in Workers
                 PROVE  /\ work'[u] = "idle" <=> at[u] = Null
                        /\ work'[u] # "idle" => at[u] \in Live \cup made
                        /\ work'[u] \in {"spin", "append"} => at[u] \in Live /\ mark'[at[u]] = "dirty"
                        /\ work'[u] = "append" <=> lock = u
                        /\ work'[u] = "append" => length[u] = Len(touched)
      BY <1>1, <2>1, InNative DEF Working
    <3>1. CASE u = t
      BY <1>1, <1>2, <1>3, <2>2, <2>3, <2>5, <3>1 DEF Working
    <3>2. CASE u # t
      BY <1>2, <2>3, <3>2 DEF Working, Live
    <3>q. QED
      BY <3>1, <3>2
  <2>9. ASSUME NEW x \in Live
        PROVE  mark'[x] # "none" /\ (Matches(x)' \/ Touching(x)')
    <3>1. x \in Handles
      BY DEF Live
    <3>2. Touching(x)' <=> Touching(x)
      BY <1>1, <2>1 DEF Touching
    <3>q. QED
      BY <1>1, <1>4, <2>3, <3>1, <3>2, InNative
  <2>q. QED
    BY <1>1, <1>5, <2>4, <2>7, <2>8, <2>9, InNative, NativeStep
<1>7. CASE mark[h] # "clean"
  <2>1. work' = [work EXCEPT ![t] = "idle"] /\ at' = [at EXCEPT ![t] = Null] /\ UNCHANGED mark
    BY <1>7 DEF Check
  <2> HIDE DEF h
  <2>2. /\ work'[t] = "idle" /\ at'[t] = Null
        /\ \A u \in Workers \ {t} : work'[u] = work[u] /\ at'[u] = at[u]
    BY <1>2, <2>1 DEF WorkerTypes
  <2>3. NativeTypes' /\ CallTypes' /\ WorkerTypes'
    BY <1>1, <1>2, <2>1, InNative DEF NativeTypes, CallTypes, WorkerTypes
  <2>4. \A x \in Handles : Listed(x) => Listed(x)'
    BY <1>1, <2>2 DEF Listed
  <2>5. Native'
    BY <1>1, <2>1, <2>4, InNative DEF Native
  <2>6. Working'
    <3> SUFFICES ASSUME NEW u \in Workers
                 PROVE  /\ work'[u] = "idle" <=> at'[u] = Null
                        /\ work'[u] # "idle" => at'[u] \in Live \cup made
                        /\ work'[u] \in {"spin", "append"} => at'[u] \in Live /\ mark[at'[u]] = "dirty"
                        /\ work'[u] = "append" <=> lock = u
                        /\ work'[u] = "append" => length[u] = Len(touched)
      BY <1>1, <2>1, InNative DEF Working
    <3>1. CASE u = t
      BY <1>1, <1>2, <2>2, <3>1 DEF Working
    <3>2. CASE u # t
      BY <1>2, <2>2, <3>2 DEF Working
    <3>q. QED
      BY <3>1, <3>2
  <2>7. ASSUME NEW x \in Live
        PROVE  mark'[x] # "none" /\ (Matches(x)' \/ Touching(x)')
    <3>1. x \in Handles /\ mark[x] # "none" /\ (Matches(x) \/ Touching(x))
      BY <1>1, InNative DEF Live
    <3>2. CASE Touching(x)
      <4>1. CASE x = h
        <5>1. mark[x] = "dirty"
          BY <1>2, <1>7, <3>1, <4>1 DEF NativeTypes
        <5>2. Listed(x)'
          BY <1>1, <2>4, <3>1, <5>1, InNative
        <5>q. QED
          BY <2>1, <3>1, <5>2 DEF Listed, Touching
      <4>2. CASE x # h
        <5>1. x # Null
          BY <3>1, ResidentAssumption
        <5>q. QED
          BY <1>1, <2>1, <2>2, <3>1, <3>2, <4>2 DEF Touching, h
      <4>q. QED
        BY <4>1, <4>2
    <3>q. QED
      BY <1>4, <2>1, <3>1, <3>2
  <2>q. QED
    BY <1>1, <1>5, <2>3, <2>5, <2>6, <2>7, InNative, NativeStep
<1>q. QED
  BY <1>6, <1>7

LEMMA SpinStep ==
    ASSUME ResidentInv, NEW t \in Workers, Spin(t)
    PROVE  ResidentInv'
<1>1. /\ NativeRuns /\ work[t] = "spin" /\ lock = Null /\ lock' = t
      /\ length' = [length EXCEPT ![t] = Len(touched)] /\ work' = [work EXCEPT ![t] = "append"]
      /\ UNCHANGED <<heap, rec, mark, touched, made, at, stores>>
  BY DEF Spin
<1>2. NativeTypes /\ CallTypes /\ WorkerTypes /\ Kept /\ Working
  BY DEF ResidentInv, ResidentTypeOK
<1>3. /\ work'[t] = "append" /\ length'[t] = Len(touched)
      /\ \A u \in Workers \ {t} : work'[u] = work[u] /\ length'[u] = length[u]
  BY <1>1, <1>2 DEF WorkerTypes
<1>4. NativeTypes' /\ CallTypes' /\ WorkerTypes'
  BY <1>1, <1>2, InNative DEF NativeTypes, CallTypes, WorkerTypes
<1>5. Kept'
  BY <1>1, <1>2, InNative DEF Kept
<1>6. \A x \in Handles : Listed(x) => Listed(x)'
  BY <1>1, <1>3 DEF Listed
<1>7. Native'
  BY <1>1, <1>6, InNative DEF Native
<1>8. Working'
  <2> SUFFICES ASSUME NEW u \in Workers
               PROVE  /\ work'[u] = "idle" <=> at[u] = Null
                      /\ work'[u] # "idle" => at[u] \in Live \cup made
                      /\ work'[u] \in {"spin", "append"} => at[u] \in Live /\ mark[at[u]] = "dirty"
                      /\ work'[u] = "append" <=> lock' = u
                      /\ work'[u] = "append" => length'[u] = Len(touched)
    BY <1>1, InNative DEF Working
  <2>1. CASE u = t
    BY <1>1, <1>2, <1>3, <2>1 DEF Working
  <2>2. CASE u # t
    BY <1>1, <1>2, <1>3, <2>2, ResidentAssumption DEF Working
  <2>q. QED
    BY <2>1, <2>2
<1>9. ASSUME NEW x \in Live
      PROVE  mark'[x] # "none" /\ (Matches(x)' \/ Touching(x)')
  <2>1. Touching(x)' <=> Touching(x)
    BY <1>1 DEF Touching
  <2>2. Matches(x)' <=> Matches(x)
    BY <1>1, InNative, StillMatches
  <2>q. QED
    BY <1>1, <2>1, <2>2, InNative
<1>q. QED
  BY <1>1, <1>4, <1>5, <1>7, <1>8, <1>9, InNative, NativeStep

\* The list is as long as its reader saw it: nothing on it is written over.
LEMMA AddTouchedStep ==
    ASSUME ResidentInv, NEW t \in Workers, AddTouched(t)
    PROVE  ResidentInv'
<1> DEFINE h == at[t]
<1>1. /\ NativeRuns /\ work[t] = "append"
      /\ touched' = Append(SubSeq(touched, 1, length[t]), h)
      /\ lock' = Null /\ length' = [length EXCEPT ![t] = 0]
      /\ work' = [work EXCEPT ![t] = "idle"] /\ at' = [at EXCEPT ![t] = Null]
      /\ UNCHANGED <<heap, rec, mark, made, stores>>
  BY DEF AddTouched
<1>2. NativeTypes /\ CallTypes /\ WorkerTypes /\ Kept /\ Working
  BY DEF ResidentInv, ResidentTypeOK
<1>3. h \in Live /\ h \in Handles /\ lock = t
  BY <1>1, <1>2 DEF Working, Live
<1>4. touched' \in Seq(Handles) /\ Range(touched') = Range(touched) \cup {h}
  <2>1. touched \in Seq(Handles) /\ length[t] = Len(touched)
    BY <1>1, <1>2 DEF NativeTypes, Working
  <2> HIDE DEF h
  <2>2. SubSeq(touched, 1, length[t]) = touched
    BY <2>1
  <2>3. touched' = Append(touched, h)
    BY <1>1, <2>2
  <2>q. QED
    BY <1>3, <2>1, <2>3 DEF Range
<1>5. /\ work'[t] = "idle" /\ at'[t] = Null
      /\ \A u \in Workers \ {t} : /\ work'[u] = work[u] /\ at'[u] = at[u] /\ length'[u] = length[u]
                                  /\ work[u] # "append"
  BY <1>1, <1>2, <1>3 DEF WorkerTypes, Working
<1>6. NativeTypes' /\ CallTypes' /\ WorkerTypes'
  BY <1>1, <1>2, <1>4, InNative DEF NativeTypes, CallTypes, WorkerTypes
<1>7. Kept'
  BY <1>1, <1>2, InNative DEF Kept
<1>8. \A x \in Handles : (Listed(x) => Listed(x)') /\ (Touching(x) => Touching(x)')
  <2>1. at[t] = h
    OBVIOUS
  <2> HIDE DEF h
  <2>q. QED
    BY <1>4, <1>5, <2>1 DEF Listed, Touching
<1>9. Native'
  <2>1. Range(touched') \subseteq Live'
    BY <1>1, <1>3, <1>4, InNative
  <2>q. QED
    BY <1>1, <1>8, <2>1, InNative DEF Native
<1>10. Working'
  <2> SUFFICES ASSUME NEW u \in Workers
               PROVE  /\ work'[u] = "idle" <=> at'[u] = Null
                      /\ work'[u] # "idle" => at'[u] \in Live \cup made
                      /\ work'[u] \in {"spin", "append"} => at'[u] \in Live /\ mark[at'[u]] = "dirty"
                      /\ work'[u] = "append" <=> lock' = u
                      /\ work'[u] = "append" => length'[u] = Len(touched')
    BY <1>1, InNative DEF Working
  <2>1. u # Null
    BY ResidentAssumption
  <2>2. CASE u = t
    BY <1>1, <1>5, <2>1, <2>2
  <2>3. CASE u # t
    BY <1>1, <1>2, <1>5, <2>1, <2>3 DEF Working
  <2>q. QED
    BY <2>2, <2>3
<1>11. ASSUME NEW x \in Live
       PROVE  mark'[x] # "none" /\ (Matches(x)' \/ Touching(x)')
  <2>1. x \in Handles
    BY DEF Live
  <2>2. Matches(x)' <=> Matches(x)
    BY <1>1, InNative, StillMatches
  <2>q. QED
    BY <1>1, <1>8, <2>1, <2>2, InNative
<1>q. QED
  BY <1>1, <1>6, <1>7, <1>9, <1>10, <1>11, InNative, NativeStep

-----------------------------------------------------------------------------
(* The end of the call. *)

\* With every thread done only the records on the list may differ from their objects.
LEMMA AtEnd ==
    ASSUME ResidentInv, Ends
    PROVE  /\ crossing # Null /\ lock = Null
           /\ \A h \in Live : /\ h \in Handles /\ entry[h] # NoEntry /\ ~entry[h].stale
                              /\ h \in heap /\ h \notin made /\ mark[h] # "none"
                              /\ Matches(h) \/ h \in Range(touched)
           /\ \A h \in Live \cup made : rec[h].next \in Live \cup made \cup {Null}
           /\ \A h \in heap \ (Live \cup made) : rec[h].next \notin made
           /\ \A h \in made : h \in heap /\ h \in Handles /\ entry[h] = NoEntry
           /\ Range(touched) \subseteq Live
           /\ \A h \in Handles : mark[h] = "dirty" => h \in Range(touched)
           /\ Cardinality(made) <= Cardinality(Objects \ alive)
<1>1. arg # Null /\ \A t \in Workers : work[t] = "idle"
  BY DEF Ends
<1>2. \A t \in Workers : at[t] = Null /\ lock # t
  BY <1>1 DEF ResidentInv, Working
<1>3. lock = Null /\ crossing # Null
  BY <1>1, <1>2 DEF ResidentInv, ResidentTypeOK, NativeTypes, AtRest
<1>4. \A h \in Handles : (Touching(h) => h \in Range(touched)) /\ (Listed(h) => h \in Range(touched))
  BY <1>1, <1>2, ResidentAssumption DEF Touching, Listed
<1>5. \A h \in Live : h \in Handles /\ entry[h] # NoEntry
  BY LiveIs DEF ResidentInv, ResidentTypeOK, WorldTypes, Live, LiveIn
<1>6. \A h \in Live : /\ h \in heap /\ h \notin made /\ mark[h] # "none" /\ ~entry[h].stale
                      /\ Matches(h) \/ h \in Range(touched)
  BY <1>3, <1>4, <1>5 DEF ResidentInv, Kept, Crossed, InSync
<1>7. \A h \in made : h \in heap /\ h \in Handles /\ entry[h] = NoEntry
  BY DEF ResidentInv, ResidentTypeOK, CallTypes, NativeTypes, Kept
<1>8. /\ \A h \in Live \cup made : rec[h].next \in Live \cup made \cup {Null}
      /\ \A h \in heap \ (Live \cup made) : rec[h].next \notin made
      /\ Range(touched) \subseteq Live
      /\ \A h \in Handles : mark[h] = "dirty" => h \in Range(touched)
      /\ Cardinality(made) <= Cardinality(Objects \ alive)
  BY <1>1, <1>4 DEF ResidentInv, Native
<1>q. QED
  BY <1>3, <1>5, <1>6, <1>7, <1>8

\* Nothing is left of the call.
LEMMA EndStep ==
    ASSUME ResidentInv, Ends, PythonTypes', WorldTypes', heap' \subseteq Handles, rec' \in Records,
           mark' \in [Handles -> {"none", "clean", "dirty"}],
           \A h \in Handles : mark'[h] # "dirty",
           World', Kept',
           \A h \in Live' : IF entry'[h].stale THEN rescan' \/ h \in staleList'
                           ELSE Matches(h)' /\ mark'[h] # "none"
    PROVE  ResidentInv'
<1>1. /\ crossing' = Null /\ arg' = Null /\ made' = {} /\ touched' = <<>>
      /\ UNCHANGED <<plain, enabled, changed, lock, work, at, length, pythons, stores, calls>>
      /\ \A t \in Workers : work[t] = "idle"
  BY DEF Ends, workerVars, boundVars
<1>2. lock = Null
  BY AtEnd
<1>3. NativeTypes' /\ CallTypes' /\ WorkerTypes'
  BY <1>1 DEF ResidentInv, ResidentTypeOK, NativeTypes, CallTypes, WorkerTypes
<1>4. AtRest' /\ InSync' /\ Crossed' /\ Native'
  BY <1>1, <1>2 DEF AtRest, InSync, Crossed, Native
<1>5. Working'
  BY <1>1, <1>2 DEF ResidentInv, Working
<1>q. QED
  BY <1>3, <1>4, <1>5 DEF ResidentInv, ResidentTypeOK

\* What a failed call wrote is to be read again; nothing it made is named any more.
LEMMA CallFailsStep ==
    ASSUME ResidentInv, CallFails
    PROVE  ResidentInv'
<1> DEFINE hs == Range(touched) \cap Live
<1>1. /\ Ends /\ heap' = heap \ made /\ MarkStale(hs)
      /\ rec' = [h \in Handles |-> IF h \in made THEN Zero ELSE Scrapped(h)]
      /\ mark' = [h \in Handles |-> IF h \in Range(touched) THEN "clean" ELSE mark[h]]
      /\ made' = {} /\ UNCHANGED <<alive, py, dead, plain, enabled, changed>>
  BY DEF CallFails, Ends
<1>2. PythonTypes /\ WorldTypes /\ NativeTypes /\ World /\ Kept
  BY DEF ResidentInv, ResidentTypeOK
<1>3. hs = Range(touched) /\ hs \in SUBSET Live
  BY <1>1, AtEnd
<1>4. /\ entry' \in Entries /\ rescan' \in BOOLEAN /\ staleList' \subseteq Handles
      /\ \A h \in Handles : entry'[h].obj = entry[h].obj /\ entry'[h].live = entry[h].live
      /\ \A h \in Handles : entry'[h] # NoEntry <=> entry[h] # NoEntry
      /\ \A h \in Handles \ hs : entry'[h] = entry[h]
      /\ \A h \in hs : entry'[h].stale
      /\ \A h \in hs : entry[h].stale \/ rescan' \/ h \in staleList'
  BY <1>1, <1>2, <1>3, MarkStaleIs
<1> HIDE DEF hs
<1>5. Live' = Live /\ \A p : EntryOf(entry', p) = EntryOf(entry, p)
  BY <1>4 DEF Live, EntryOf
<1>6. \A h \in Handles : IF h \in hs /\ rec[h].next \in made
                         THEN Scrapped(h) = [rec[h] EXCEPT !.next = Null] ELSE Scrapped(h) = rec[h]
  BY <1>3 DEF Scrapped
<1>7. \A h \in Handles : /\ rec[h] \in [number : Numbers \cup {Null}, next : Handles \cup {Null}]
                         /\ Zero \in [number : Numbers \cup {Null}, next : Handles \cup {Null}]
  BY <1>2 DEF NativeTypes, Records, Zero
<1>8. \A h \in Handles : Scrapped(h) \in [number : Numbers \cup {Null}, next : Handles \cup {Null}]
  BY <1>6, <1>7
<1>9. rec' \in Records /\ heap' \subseteq Handles
      /\ mark' \in [Handles -> {"none", "clean", "dirty"}]
  BY <1>1, <1>2, <1>7, <1>8 DEF Records, NativeTypes
<1>10. \A h \in Handles : mark'[h] # "dirty"
  BY <1>1, AtEnd
<1>11. PythonTypes' /\ WorldTypes'
  BY <1>1, <1>2, <1>4 DEF PythonTypes, WorldTypes
<1>12. World'
  BY <1>1, <1>2, <1>4, <1>5 DEF World, Live
<1>13. ASSUME NEW h \in Live, h \notin hs
       PROVE  /\ rec'[h] = rec[h] /\ mark'[h] = mark[h] /\ entry'[h] = entry[h]
              /\ Matches(h) /\ rec[h].next \notin made
  <2>1. h \in Handles /\ h \notin made /\ Matches(h)
    BY <1>1, <1>3, <1>13, AtEnd
  <2>2. rec[h].next \in Live \cup {Null}
    BY <2>1 DEF Matches, EntryOf, Live
  <2>3. Null \notin made
    BY <1>1, AtEnd, ResidentAssumption
  <2>4. rec[h].next \notin made
    BY <1>1, <2>2, <2>3, AtEnd
  <2>5. rec'[h] = rec[h]
    BY <1>1, <1>6, <1>13, <2>1
  <2>6. mark'[h] = mark[h] /\ entry'[h] = entry[h]
    BY <1>1, <1>3, <1>4, <1>13, <2>1
  <2>q. QED
    BY <2>1, <2>4, <2>5, <2>6
<1>14. Kept'
  <2>1. ASSUME NEW h \in heap' PROVE rec'[h].next \in heap' \cup {Null}
    <3>1. h \in heap /\ h \notin made /\ h \in Handles /\ rec'[h] = Scrapped(h)
      BY <1>1, <1>2 DEF NativeTypes
    <3>2. rec[h].next \in heap \cup {Null}
      BY <1>2, <3>1 DEF Kept
    <3>3. CASE h \in hs /\ rec[h].next \in made
      BY <1>6, <1>7, <3>1, <3>3
    <3>4. CASE h \in hs /\ rec[h].next \notin made
      BY <1>1, <1>6, <3>1, <3>2, <3>4
    <3>5. CASE h \notin hs
      <4>1. rec[h].next \notin made
        BY <1>1, <1>13, <3>1, <3>5, AtEnd
      <4>q. QED
        BY <1>1, <1>6, <3>1, <3>2, <3>5, <4>1
    <3>q. QED
      BY <3>3, <3>4, <3>5
  <2>q. QED
    BY <1>1, <1>2, <1>4, <2>1 DEF Kept
<1>15. ASSUME NEW h \in Live'
       PROVE  IF entry'[h].stale THEN rescan' \/ h \in staleList'
              ELSE Matches(h)' /\ mark'[h] # "none"
  <2>0. h \in Live
    BY <1>5
  <2>1. h \in Live /\ ~entry[h].stale /\ mark[h] # "none"
    BY <1>1, <2>0, AtEnd
  <2>2. CASE h \in hs
    BY <1>4, <2>1, <2>2
  <2>3. CASE h \notin hs
    <3>1. /\ rec'[h] = rec[h] /\ mark'[h] = mark[h] /\ entry'[h] = entry[h] /\ Matches(h)
      BY <1>13, <2>1, <2>3
    <3>2. Matches(h)'
      BY <1>1, <1>5, <3>1, MatchesKept
    <3>q. QED
      BY <2>1, <3>1, <3>2
  <2>q. QED
    BY <2>2, <2>3
<1>q. QED
  BY <1>1, <1>9, <1>10, <1>11, <1>12, <1>14, <1>15, EndStep

\* What native code made has addresses for all of it, each its own.
LEMMA AddressIs ==
    ASSUME ResidentInv, Ends
    PROVE  Address \in [made -> Objects \ alive] /\ \A g, h \in made : Address[g] = Address[h] => g = h
<1>1. made \subseteq Handles
  BY AtEnd
<1>2. IsFiniteSet(made) /\ IsFiniteSet(Objects \ alive)
  BY <1>1, ResidentAssumption, FS_Subset
<1>3. \E f \in [made -> Objects \ alive] : \A g, h \in made : f[g] = f[h] => g = h
  BY <1>2, AtEnd, Places
<1>q. QED
  BY <1>3 DEF Address

\* What is copied back names living objects, and objects made for what is linked in.
LEMMA LinkedIs ==
    ASSUME ResidentInv, Ends, NEW written \in SUBSET Live
    PROVE  /\ Linked(written) \subseteq made
           /\ \A h \in written \cup Linked(written) :
                /\ \/ rec[h].next = Null \/ rec[h].next \in Live
                   \/ rec[h].next \in Linked(written)
                /\ Copied(h) \in Fields
                /\ \/ Copied(h).next = Null \/ Copied(h).next \in alive
                   \/ \E g \in Linked(written) : Copied(h).next = Address[g]
<1> DEFINE to == NextOf(rec)
           linked == Linked(written)
<1>1. to \in [Handles -> Handles \cup {Null}] /\ \A h \in Handles : to[h] = rec[h].next
  BY DEF NextOf, ResidentInv, ResidentTypeOK, NativeTypes, Records
<1>2. written \in SUBSET Handles
  BY DEF Live
<1> HIDE DEF to
<1>3. /\ written \subseteq Reach(written, to) /\ Reach(written, to) \subseteq Handles
      /\ \A x \in Reach(written, to) : to[x] \in Reach(written, to) \cup {Null}
  BY <1>1, <1>2, ReachIs
<1>4. linked = Reach(written, to) \cap made
  BY DEF Linked, to
<1> HIDE DEF linked
<1>5. ASSUME NEW h \in written \cup linked
      PROVE  rec[h].next = Null \/ rec[h].next \in Live \/ rec[h].next \in linked
  <2>1. h \in Reach(written, to) /\ h \in Handles /\ h \in Live \cup made
    BY <1>3, <1>4
  <2>2. rec[h].next \in Live \cup made \cup {Null}
    BY <2>1, AtEnd
  <2>3. rec[h].next \in Reach(written, to) \cup {Null}
    BY <1>1, <1>3, <2>1
  <2>q. QED
    BY <1>4, <2>2, <2>3
<1>6. ASSUME NEW h \in written \cup linked
      PROVE  /\ Copied(h).number = rec[h].number /\ Copied(h).number \in Numbers \cup {Null}
             /\ Copied(h).next \in Objects \cup {Null}
             /\ \/ Copied(h).next = Null \/ Copied(h).next \in alive
                \/ \E g \in linked : Copied(h).next = Address[g]
  <2>1. h \in Handles
    BY <1>2, <1>3, <1>4
  <2>2. rec[h].number \in Numbers \cup {Null}
    BY <2>1 DEF ResidentInv, ResidentTypeOK, NativeTypes, Records
  <2>3. Copied(h).number = rec[h].number /\ Copied(h).next = ObjectOf(rec[h].next)
    BY DEF Copied
  <2>4. CASE rec[h].next = Null
    BY <2>2, <2>3, <2>4 DEF ObjectOf
  <2>5. CASE rec[h].next \in Live
    <3>1. rec[h].next \notin made /\ rec[h].next # Null /\ entry[rec[h].next].obj \in alive
      BY <2>5, AtEnd, ResidentAssumption DEF ResidentInv, World
    <3>2. Copied(h).next = entry[rec[h].next].obj
      BY <2>3, <3>1 DEF ObjectOf
    <3>3. alive \subseteq Objects
      BY DEF ResidentInv, ResidentTypeOK, PythonTypes
    <3>q. QED
      BY <2>2, <2>3, <3>1, <3>2, <3>3
  <2>6. CASE rec[h].next \in linked
    <3>1. rec[h].next \in made /\ rec[h].next # Null
      BY <1>4, <2>6, AtEnd, ResidentAssumption
    <3>2. Copied(h).next = Address[rec[h].next]
      BY <2>3, <3>1 DEF ObjectOf
    <3>3. Address[rec[h].next] \in Objects
      BY <3>1, AddressIs
    <3>q. QED
      BY <2>2, <2>3, <2>6, <3>2, <3>3
  <2>q. QED
    BY <1>5, <2>4, <2>5, <2>6
<1>7. ASSUME NEW h \in written \cup linked PROVE Copied(h) \in Fields
  BY <1>6 DEF Copied, Fields
<1>8. linked \subseteq made
  BY <1>4
<1>9. linked = Linked(written)
  BY DEF linked
<1>q. QED
  BY <1>5, <1>6, <1>7, <1>8, <1>9

\* The world goes, and Python is left with whole objects.
LEMMA DrainFailsStep ==
    ASSUME ResidentInv, DrainFails
    PROVE  ResidentInv'
<1>1. PICK n \in 0 .. Len(touched) - 1, half \in BOOLEAN :
        LET written == Range(SubSeq(touched, 1, n)) \cap Live
            linked  == Linked(written)
        IN /\ alive' = alive \cup {Address[h] : h \in linked}
           /\ py' = [o \in Objects |->
                IF \E h \in written : entry[h].obj = o
                THEN Copied(CHOOSE h \in written : entry[h].obj = o)
                ELSE IF \E h \in linked : Address[h] = o
                THEN Copied(CHOOSE h \in linked : Address[h] = o)
                ELSE IF half /\ o \in alive /\ touched[n + 1] \in EntryOf(entry, o)
                THEN [py[o] EXCEPT !.number = rec[touched[n + 1]].number]
                ELSE py[o]]
  BY DEF DrainFails
<1> DEFINE written == Range(SubSeq(touched, 1, n)) \cap Live
           linked  == Linked(written)
<1>2. /\ alive' = alive \cup {Address[h] : h \in linked}
      /\ py' = [o \in Objects |->
           IF \E h \in written : entry[h].obj = o
           THEN Copied(CHOOSE h \in written : entry[h].obj = o)
           ELSE IF \E h \in linked : Address[h] = o
           THEN Copied(CHOOSE h \in linked : Address[h] = o)
           ELSE IF half /\ o \in alive /\ touched[n + 1] \in EntryOf(entry, o)
           THEN [py[o] EXCEPT !.number = rec[touched[n + 1]].number]
           ELSE py[o]]
  BY <1>1
<1>3. written \in SUBSET Live
  OBVIOUS
<1> HIDE DEF written
<1>4. /\ Ends /\ LetGo /\ UNCHANGED <<plain, enabled, changed>>
  BY DEF DrainFails, Ends
<1>5. /\ entry' = Cleared /\ staleList' = {} /\ rescan' = FALSE /\ dead' = 0 /\ heap' = {}
      /\ rec' = [h \in Handles |-> Zero] /\ mark' = [h \in Handles |-> "none"]
  BY <1>4 DEF LetGo
<1>6. Live' = {} /\ \A h \in Handles : entry'[h] = NoEntry
  BY <1>5 DEF Live, Cleared, NoEntry
<1>7. /\ linked \subseteq made
      /\ \A h \in written \cup linked :
           /\ Copied(h) \in Fields
           /\ \/ Copied(h).next = Null \/ Copied(h).next \in alive
              \/ \E g \in linked : Copied(h).next = Address[g]
  BY <1>3, <1>4, LinkedIs
<1> HIDE DEF linked
<1>8. \A h \in written \cup linked : Copied(h).next \in alive' \cup {Null}
  BY <1>2, <1>7
<1>9. PythonTypes /\ World /\ rec \in Records
  BY DEF ResidentInv, ResidentTypeOK, NativeTypes
<1>10. ASSUME NEW o \in Objects
      PROVE  \/ \E h \in written \cup linked : py'[o] = Copied(h)
             \/ /\ py'[o] \in Fields /\ py'[o].next = py[o].next
                /\ \A h \in linked : Address[h] # o
  <2>1. CASE \E h \in written : entry[h].obj = o
    <3>1. (CHOOSE h \in written : entry[h].obj = o) \in written
      BY <2>1
    <3>q. QED
      BY <1>2, <2>1, <3>1
  <2>2. CASE ~(\E h \in written : entry[h].obj = o) /\ \E h \in linked : Address[h] = o
    <3>1. (CHOOSE h \in linked : Address[h] = o) \in linked
      BY <2>2
    <3>q. QED
      BY <1>2, <2>2, <3>1
  <2>3. CASE ~(\E h \in written : entry[h].obj = o) /\ ~\E h \in linked : Address[h] = o
    <3>1. CASE half /\ o \in alive /\ touched[n + 1] \in EntryOf(entry, o)
      <4>1. py'[o] = [py[o] EXCEPT !.number = rec[touched[n + 1]].number]
        BY <1>2, <2>3, <3>1
      <4>2. touched[n + 1] \in Handles
        BY <3>1 DEF EntryOf
      <4>3. rec[touched[n + 1]].number \in Numbers \cup {Null} /\ py[o] \in Fields
        BY <1>9, <4>2 DEF PythonTypes, Records
      <4>q. QED
        BY <2>3, <4>1, <4>3 DEF Fields
    <3>2. CASE ~(half /\ o \in alive /\ touched[n + 1] \in EntryOf(entry, o))
      <4>1. py'[o] = py[o]
        BY <1>2, <2>3, <3>2
      <4>q. QED
        BY <1>9, <2>3, <4>1 DEF PythonTypes
    <3>q. QED
      BY <3>1, <3>2
  <2>q. QED
    BY <2>1, <2>2, <2>3
<1>11. PythonTypes'
  <2>1. \A o \in Objects : py'[o] \in Fields
    BY <1>7, <1>10
  <2>2. py' \in [Objects -> Fields]
    BY <1>2, <2>1
  <2>3. alive' \subseteq Objects
    BY <1>2, <1>4, <1>7, <1>9, AddressIs DEF PythonTypes
  <2>q. QED
    BY <1>4, <1>9, <2>2, <2>3 DEF PythonTypes
<1>12. World'
  <2>1. ASSUME NEW o \in alive' PROVE py'[o].next \in alive' \cup {Null}
    <3>1. o \in Objects
      BY <1>11 DEF PythonTypes
    <3>2. o \in alive \/ \E h \in linked : Address[h] = o
      BY <1>2
    <3>3. alive \subseteq alive'
      BY <1>2
    <3>q. QED
      BY <1>8, <1>10, <1>9, <3>1, <3>2, <3>3 DEF World
  <2>q. QED
    BY <1>6, <2>1 DEF World
<1>13. WorldTypes' /\ heap' \subseteq Handles /\ rec' \in Records
       /\ mark' \in [Handles -> {"none", "clean", "dirty"}]
       /\ (\A h \in Handles : mark'[h] # "dirty") /\ Kept'
  <2>1. WorldTypes'
    BY <1>4, <1>5 DEF ResidentInv, ResidentTypeOK, WorldTypes, Cleared, Entries
  <2>q. QED
    BY <1>5, <1>6, <2>1 DEF Records, Zero, Kept
<1>q. QED
  BY <1>4, <1>6, <1>11, <1>12, <1>13, EndStep

\* Every record on the list is copied back, and what it links to has an object.
LEMMA DrainStep ==
    ASSUME ResidentInv, Drain
    PROVE  ResidentInv'
<1> DEFINE written == Range(touched) \cap Live
           linked  == Linked(written)
           D       == {Address[h] : h \in linked}
           place   == [o \in D |-> CHOOSE h \in linked : Address[h] = o]
           full    == Entered(place, entry)
           out     == written \cup linked
<1>1. /\ Ends /\ alive' = alive \cup D /\ entry' = full /\ heap' = Held(full, rec, {})
      /\ py' = [o \in Objects |-> IF \E h \in out : full[h].obj = o
                                  THEN Copied(CHOOSE h \in out : full[h].obj = o)
                                  ELSE py[o]]
      /\ rec' = [h \in Handles |-> IF h \in heap' THEN rec[h] ELSE Zero]
      /\ mark' = [h \in Handles |-> IF h \in out THEN "clean" ELSE mark[h]]
      /\ UNCHANGED <<plain, enabled, changed, rescan, staleList, dead>>
  BY DEF Drain, Ends
<1>2. PythonTypes /\ WorldTypes /\ NativeTypes /\ World /\ entry \in Entries /\ OneEach(entry)
  BY DEF ResidentInv, ResidentTypeOK, WorldTypes, OneEach, World, LiveIn, Live
<1>3. written \in SUBSET Live /\ written = Range(touched)
  BY <1>1, AtEnd
<1> HIDE DEF written
<1>4. /\ linked \subseteq made
      /\ \A h \in out :
           /\ rec[h].next = Null \/ rec[h].next \in Live \/ rec[h].next \in linked
           /\ Copied(h) \in Fields
           /\ \/ Copied(h).next = Null \/ Copied(h).next \in alive
              \/ \E g \in linked : Copied(h).next = Address[g]
  BY <1>1, <1>3, LinkedIs
<1> HIDE DEF linked
<1>5. /\ \A h \in linked : h \in Handles /\ Address[h] \in Objects \ alive /\ h \notin Live
                           /\ entry[h] = NoEntry
      /\ \A g, h \in linked : Address[g] = Address[h] => g = h
  BY <1>1, <1>4, AddressIs, AtEnd
<1>6. D \in SUBSET Objects /\ D \cap alive = {}
  BY <1>5
<1>7. \A o \in D : place[o] \in linked /\ Address[place[o]] = o
  OBVIOUS
<1>8. \A h \in linked : Address[h] \in D /\ place[Address[h]] = h
  BY <1>5, <1>7
<1>9. /\ place \in [D -> Handles] /\ \A p, q \in D : place[p] = place[q] => p = q
      /\ \A p \in D : entry[place[p]] = NoEntry /\ EntryOf(entry, p) = {}
  <2>1. place \in [D -> Handles]
    BY <1>5, <1>7
  <2>2. \A p, q \in D : place[p] = place[q] => p = q
    BY <1>7
  <2>3. ASSUME NEW p \in D PROVE entry[place[p]] = NoEntry /\ EntryOf(entry, p) = {}
    BY <1>2, <1>5, <1>6, <1>7, <2>3 DEF EntryOf, World, Live
  <2>q. QED
    BY <2>1, <2>2, <2>3
<1> HIDE DEF D, place
<1>10. /\ full \in Entries /\ OneEach(full)
       /\ \A h \in Handles : (\A p \in D : place[p] # h) => full[h] = entry[h]
       /\ \A p \in D : full[place[p]] = [obj |-> p, live |-> TRUE, stale |-> FALSE]
  BY <1>2, <1>6, <1>9, EnteredIs
<1> HIDE DEF full
<1>11. \A h \in Handles \ linked : full[h] = entry[h]
  BY <1>7, <1>10
<1>12. ASSUME NEW h \in linked
       PROVE  /\ full[h].obj = Address[h] /\ full[h].live /\ ~full[h].stale
              /\ h \in LiveIn(full) /\ h \in EntryOf(full, Address[h])
  <2>1. full[h] = [obj |-> Address[h], live |-> TRUE, stale |-> FALSE]
    BY <1>8, <1>10
  <2>q. QED
    BY <1>5, <2>1 DEF LiveIn, EntryOf
<1>13. \A h \in Live : h \in Handles /\ h \notin linked /\ full[h] = entry[h] /\ h \in LiveIn(full)
  BY <1>5, <1>11 DEF Live, LiveIn
<1>14. Live' = Live \cup linked /\ Live' = LiveIn(full)
  <2>1. Live' = LiveIn(full)
    BY <1>1 DEF Live, LiveIn
  <2>2. \A h \in LiveIn(full) : h \in Live \cup linked
    BY <1>11 DEF LiveIn, Live
  <2>q. QED
    BY <1>12, <1>13, <2>1, <2>2
<1>15. \A p : EntryOf(entry, p) \subseteq EntryOf(full, p)
  BY <1>13 DEF EntryOf, Live
<1>16. out \subseteq LiveIn(full) /\ out \subseteq Handles
  BY <1>3, <1>12, <1>13, <1>5
<1> HIDE DEF out
<1>17. ASSUME NEW h \in out
       PROVE  py'[full[h].obj] = Copied(h) /\ full[h].obj \in Objects
  <2>1. full[h].obj \in Objects
    BY <1>10, <1>16, LiveIs
  <2>2. (CHOOSE g \in out : full[g].obj = full[h].obj) = h
    BY <1>10, <1>16 DEF OneEach
  <2>q. QED
    BY <1>1, <2>1, <2>2
<1>18. \A o \in Objects : (\A h \in out : full[h].obj # o) => py'[o] = py[o]
  BY <1>1
<1>19. \A h \in out : Copied(h).next \in alive' \cup {Null}
  BY <1>1, <1>4, <1>8
<1>20. PythonTypes'
  <2>1. \A o \in Objects : py'[o] \in Fields
    <3> SUFFICES ASSUME NEW o \in Objects PROVE py'[o] \in Fields
      OBVIOUS
    <3>1. CASE \E h \in out : full[h].obj = o
      BY <1>4, <1>17, <3>1
    <3>2. CASE ~\E h \in out : full[h].obj = o
      BY <1>2, <1>18, <3>2 DEF PythonTypes
    <3>q. QED
      BY <3>1, <3>2
  <2>2. py' \in [Objects -> Fields]
    BY <1>1, <2>1
  <2>q. QED
    BY <1>1, <1>2, <1>6, <2>2 DEF PythonTypes
<1>21. World'
  <2>1. ASSUME NEW o \in alive' PROVE py'[o].next \in alive' \cup {Null}
    <3>1. o \in Objects
      BY <1>20 DEF PythonTypes
    <3>2. CASE \E h \in out : full[h].obj = o
      BY <1>17, <1>19, <3>2
    <3>3. CASE ~\E h \in out : full[h].obj = o
      <4>1. o \in alive
        BY <1>1, <1>7, <1>12, <3>3 DEF D, out
      <4>2. py'[o] = py[o] /\ py[o].next \in alive \cup {Null}
        BY <1>2, <1>18, <3>1, <3>3, <4>1 DEF World
      <4>q. QED
        BY <1>1, <4>2
    <3>q. QED
      BY <3>2, <3>3
  <2>2. ASSUME NEW h \in Live' PROVE entry'[h].obj \in alive'
    <3>1. CASE h \in linked
      BY <1>1, <1>8, <1>12, <3>1
    <3>2. CASE h \in Live
      BY <1>1, <1>2, <1>13, <3>2 DEF World
    <3>q. QED
      BY <1>14, <3>1, <3>2
  <2>3. \A g, h \in Live' : entry'[g].obj = entry'[h].obj => g = h
    BY <1>1, <1>10, <1>14 DEF OneEach
  <2>q. QED
    BY <2>1, <2>2, <2>3 DEF World
<1>22. /\ heap' \subseteq Handles /\ \A h \in Handles : full[h] # NoEntry => h \in heap'
       /\ \A h \in heap' : rec[h].next \in heap' \cup {Null}
  <2> DEFINE to   == NextOf(rec)
             from == {h \in Handles : full[h] # NoEntry} \cup {}
  <2>1. to \in [Handles -> Handles \cup {Null}] /\ \A h \in Handles : to[h] = rec[h].next
    BY <1>2 DEF NextOf, NativeTypes, Records
  <2>2. from \in SUBSET Handles /\ heap' = Reach(from, to)
    BY <1>1 DEF Held
  <2>3. \A h \in Handles : full[h] # NoEntry => h \in from
    OBVIOUS
  <2> HIDE DEF to, from
  <2>4. /\ from \subseteq heap' /\ heap' \subseteq Handles
        /\ \A x \in heap' : to[x] \in heap' \cup {Null}
    BY <2>1, <2>2, ReachIs
  <2>q. QED
    BY <2>1, <2>3, <2>4
<1>23. rec' \in Records /\ mark' \in [Handles -> {"none", "clean", "dirty"}]
       /\ \A h \in Handles : mark'[h] # "dirty"
  <2>1. rec' \in Records
    BY <1>1, <1>2 DEF NativeTypes, Records, Zero
  <2>2. \A h \in Handles : mark[h] = "dirty" => h \in out
    BY <1>1, <1>3, AtEnd DEF out
  <2>q. QED
    BY <1>1, <1>2, <2>1, <2>2 DEF NativeTypes
<1>24. Kept' /\ WorldTypes'
  <2>1. made' = {}
    BY <1>1 DEF Ends
  <2>2. \A h \in heap' : rec'[h] = rec[h]
    BY <1>1, <1>22
  <2>3. Kept'
    BY <1>1, <1>22, <2>1, <2>2 DEF Kept
  <2>q. QED
    BY <1>1, <1>2, <1>10, <2>3 DEF WorldTypes
<1>25. ASSUME NEW h \in Live'
       PROVE  ~entry'[h].stale /\ Matches(h)' /\ mark'[h] # "none"
  <2>1. h \in Handles /\ h \in LiveIn(full) /\ entry'[h] = full[h] /\ rec'[h] = rec[h]
    <3>1. h \in Handles /\ h \in LiveIn(full)
      BY <1>14 DEF LiveIn
    <3>2. full[h] # NoEntry
      BY <1>10, <3>1, LiveIs
    <3>q. QED
      BY <1>1, <1>22, <3>1, <3>2
  <2>2. ~entry'[h].stale
    <3>1. CASE h \in linked
      BY <1>12, <2>1, <3>1
    <3>2. CASE h \in Live
      BY <1>1, <1>13, <2>1, <3>2, AtEnd
    <3>q. QED
      BY <1>14, <3>1, <3>2
  <2>3. CASE h \in out
    <3>1. py'[entry'[h].obj] = Copied(h) /\ mark'[h] = "clean"
      BY <1>1, <1>17, <2>1, <2>3
    <3>2. Copied(h).number = rec[h].number /\ Copied(h).next = ObjectOf(rec[h].next)
      BY DEF Copied
    <3>3. IF Copied(h).next = Null THEN rec[h].next = Null
          ELSE rec[h].next \in EntryOf(full, Copied(h).next)
      <4>1. CASE rec[h].next = Null
        BY <3>2, <4>1 DEF ObjectOf
      <4>2. CASE rec[h].next \in Live
        <5>1. rec[h].next \notin made /\ rec[h].next # Null /\ rec[h].next \in Handles
          BY <1>1, <4>2, AtEnd, ResidentAssumption
        <5>2. Copied(h).next = entry[rec[h].next].obj
          BY <3>2, <5>1 DEF ObjectOf
        <5>3. entry[rec[h].next].obj # Null /\ rec[h].next \in EntryOf(entry, entry[rec[h].next].obj)
          BY <1>2, <4>2, LiveIs DEF Live, LiveIn
        <5>q. QED
          BY <1>15, <5>2, <5>3
      <4>3. CASE rec[h].next \in linked
        <5>1. rec[h].next \in made /\ rec[h].next # Null /\ Address[rec[h].next] # Null
          BY <1>4, <1>5, <4>3, ResidentAssumption
        <5>2. Copied(h).next = Address[rec[h].next]
          BY <3>2, <5>1 DEF ObjectOf
        <5>q. QED
          BY <1>12, <4>3, <5>1, <5>2
      <4>q. QED
        BY <1>4, <2>3, <4>1, <4>2, <4>3
    <3>4. Matches(h)'
      BY <1>1, <2>1, <3>1, <3>2, <3>3 DEF Matches
    <3>q. QED
      BY <2>2, <3>1, <3>4
  <2>4. CASE h \notin out
    <3>1. h \in Live /\ h \notin Range(touched) /\ full[h] = entry[h]
      BY <1>3, <1>13, <1>14, <2>4 DEF out
    <3>2. Matches(h) /\ mark[h] # "none"
      BY <1>1, <3>1, AtEnd
    <3>3. py'[entry[h].obj] = py[entry[h].obj]
      <4>1. \A g \in out : full[g].obj # full[h].obj
        BY <1>10, <1>16, <2>1, <2>4 DEF OneEach
      <4>2. full[h].obj \in Objects
        BY <1>10, <2>1, LiveIs
      <4>q. QED
        BY <1>18, <3>1, <4>1, <4>2
    <3>4. Matches(h)'
      BY <1>1, <1>15, <2>1, <3>1, <3>2, <3>3, MatchesKept
    <3>5. mark'[h] = mark[h]
      BY <1>1, <2>1, <2>4
    <3>q. QED
      BY <2>2, <3>2, <3>4, <3>5
  <2>q. QED
    BY <2>3, <2>4
<1>q. QED
  BY <1>1, <1>20, <1>21, <1>22, <1>23, <1>24, <1>25, EndStep

-----------------------------------------------------------------------------
(* The theorems. *)

LEMMA ResidentInitially ==
    ASSUME ResidentInit
    PROVE  ResidentInv
<1>1. Live = {} /\ \A h \in Handles : entry[h] = NoEntry
  BY DEF ResidentInit, Live, NoEntry
<1>2. PythonTypes
  <2>1. py \in [Objects -> [number : {CHOOSE n \in Numbers : TRUE}, next : Objects \cup {Null}]]
    BY DEF ResidentInit
  <2>2. {CHOOSE n \in Numbers : TRUE} \subseteq Numbers \cup {Odd, Null}
    BY ResidentAssumption
  <2>3. py \in [Objects -> Fields]
    BY <2>1, <2>2 DEF Fields
  <2>q. QED
    BY <2>3 DEF ResidentInit, PythonTypes
<1>3. WorldTypes /\ NativeTypes /\ CallTypes /\ WorkerTypes
  <2>1. WorldTypes
    BY DEF ResidentInit, WorldTypes, Entries
  <2>2. NativeTypes
    BY DEF ResidentInit, NativeTypes, Records, Zero
  <2>3. CallTypes
    BY ResidentAssumption DEF ResidentInit, CallTypes
  <2>4. WorkerTypes
    BY DEF ResidentInit, WorkerTypes
  <2>q. QED
    BY <2>1, <2>2, <2>3, <2>4
<1>4. World
  <2>1. \A o \in alive : py[o].next \in alive \cup {Null}
    BY DEF ResidentInit
  <2>q. QED
    BY <1>1, <2>1 DEF World
<1>5. Kept /\ InSync /\ Crossed /\ AtRest
  BY <1>1 DEF Kept, InSync, Crossed, AtRest, ResidentInit
<1>6. Native /\ Working
  BY ResidentAssumption DEF Native, Working, ResidentInit
<1>q. QED
  BY <1>2, <1>3, <1>4, <1>5, <1>6 DEF ResidentInv, ResidentTypeOK

LEMMA ResidentStutter ==
    ASSUME ResidentInv, UNCHANGED residentVars
    PROVE  ResidentInv'
<1>1. UNCHANGED <<alive, py, plain, enabled, changed, rescan, entry, staleList, dead, heap, rec,
                  mark, touched, lock, crossing, arg, made, work, at, length, pythons, stores, calls>>
  BY DEF residentVars, pythonVars, worldVars, nativeVars, callVars, workerVars, boundVars
<1>2. Live' = Live /\ \A h : (Matches(h)' <=> Matches(h)) /\ (Touching(h)' <=> Touching(h))
                             /\ (Listed(h)' <=> Listed(h))
  BY <1>1 DEF Live, Matches, EntryOf, Touching, Listed
<1>3. ResidentTypeOK'
  BY <1>1 DEF ResidentInv, ResidentTypeOK, PythonTypes, WorldTypes, NativeTypes, CallTypes, WorkerTypes
<1>4. World' /\ Kept' /\ AtRest' /\ Working'
  BY <1>1, <1>2 DEF ResidentInv, World, Kept, AtRest, Working
<1>5. InSync' /\ Crossed' /\ Native'
  BY <1>1, <1>2 DEF ResidentInv, InSync, Crossed, Native
<1>q. QED
  BY <1>3, <1>4, <1>5 DEF ResidentInv

LEMMA ResidentInvStep ==
    ASSUME ResidentInv, ResidentNext
    PROVE  ResidentInv'
<1>1. \A o \in Objects, n \in Numbers \cup {Odd}, p \in Objects \cup {Null} :
        [number |-> n, next |-> p] \in Fields
  BY DEF Fields
<1>2. ASSUME NEW o \in Objects, NEW n \in Numbers \cup {Odd}, NEW p \in Objects \cup {Null},
             Write(o, [number |-> n, next |-> p]) \/ Make(o, [number |-> n, next |-> p])
      PROVE  ResidentInv'
  BY <1>1, <1>2, WriteStep, MakeStep
<1>3. ASSUME NEW os \in SUBSET alive, Die(os) PROVE ResidentInv'
  BY <1>3, DieStep
<1>4. ASSUME NEW o \in Objects, Disable(o) \/ Refresh(o) \/ RefreshRefused(o) PROVE ResidentInv'
  BY <1>4, DisableStep, RefreshStep
<1>5. CASE ChangeClass \/ Purge \/ Cross \/ Instance
  BY <1>5, ClassStep, PurgeStep, CrossStep, InstanceStep
<1>6. ASSUME NEW t \in Workers, NEW h \in Handles, NEW n \in Numbers, NEW g \in Handles \cup {Null},
             StoreField(t, h, [number |-> n, next |-> g])
      PROVE  ResidentInv'
  BY <1>6, StoreStep
<1>7. ASSUME NEW t \in Workers, Check(t) \/ Spin(t) \/ AddTouched(t) PROVE ResidentInv'
  BY <1>7, CheckStep, SpinStep, AddTouchedStep
<1>8. CASE Drain \/ DrainFails \/ CallFails
  BY <1>8, DrainStep, DrainFailsStep, CallFailsStep
<1>q. QED
  BY <1>2, <1>3, <1>4, <1>5, <1>6, <1>7, <1>8 DEF ResidentNext

LEMMA ResidentInvariance == ResidentSpec => []ResidentInv
<1>1. ResidentInit => ResidentInv
  BY ResidentInitially
<1>2. ResidentInv /\ [ResidentNext]_residentVars => ResidentInv'
  BY ResidentInvStep, ResidentStutter
<1>q. QED
  BY <1>1, <1>2, PTL DEF ResidentSpec

\* Every variable keeps its type, for every number of objects, handles and threads.
THEOREM ResidentTyping == ResidentSpec => []ResidentTypeOK
<1>1. ResidentInv => ResidentTypeOK
  BY DEF ResidentInv
<1>q. QED
  BY <1>1, ResidentInvariance, PTL

\* Between calls a record says what its object does or the next call reads it again
\* (`px_res_stale`, `px_refresh`, `px_drain`, `px_scrap`).
THEOREM Coherence == ResidentSpec => []Coherent
<1>1. ResidentInv => Coherent
  BY DEF ResidentInv, InSync, Coherent
<1>q. QED
  BY <1>1, ResidentInvariance, PTL

\* Native code reads what Python would, but where this call wrote, and what it wrote is,
\* or is about to be, on the list (`ppy_coll_touch` on any number of threads).
THEOREM NativeSees == ResidentSpec => []NativeSeesPython
<1>1. ASSUME ResidentInv PROVE NativeSeesPython
  <2> SUFFICES ASSUME arg # Null, NEW h \in Reached \ made
               PROVE  /\ h \in Live /\ ~entry[h].stale
                      /\ \/ Matches(h) \/ h \in Range(touched)
                         \/ \E t \in Workers : at[t] = h
    BY DEF NativeSeesPython
  <2>1. crossing # Null
    BY <1>1 DEF ResidentInv, AtRest
  <2>2. Reached \subseteq Live \cup made
    BY <1>1, ReachedLives
  <2>q. QED
    BY <1>1, <2>1, <2>2 DEF ResidentInv, InSync, Crossed, Touching
<1>q. QED
  BY <1>1, ResidentInvariance, PTL

\* Between calls no record names a handle that was freed: not what a failed call made and
\* its sweep freed, nor a record that a purge let go of.
THEOREM NothingFreed == ResidentSpec => []NothingFreedIsNamed
<1>1. ResidentInv => NothingFreedIsNamed
  BY DEF ResidentInv, Kept, NothingFreedIsNamed
<1>q. QED
  BY <1>1, ResidentInvariance, PTL

=============================================================================
