--------------------------- MODULE Effects_proofs ---------------------------
(***************************************************************************)
(* Proofs about Effects, for any set of programs of any functions and      *)
(* blocks, any streams, and any number of prints, calls in progress and    *)
(* writes that raise.                                                      *)
(***************************************************************************)
EXTENDS Effects, TLAPS

(* The rule, as sets of places and of the stacks of places of a native call. *)

Places == Functions \X Blocks \X (Nat \ {0})
Spots == Seq(Places)

Body(pl) == program.ops[pl[1]][pl[2]]
PlacesOf(O) == {pl \in Places : pl[3] \in DOMAIN Body(pl) /\ Body(pl)[pl[3]] \in O}

\* Where the function behind a place has crossed a barrier before.
PassedIn(pl) ==
    \/ pl[2] \in After(pl[1])
    \/ \E j \in DOMAIN Body(pl) : j < pl[3] /\ Body(pl)[j] \in Crossing
Passed == {pl \in Places : PassedIn(pl)}

\* The functions of a native call: each is native, called by the one before, which so
\* does, in a call, whatever this one does.
Reaches == [g \in Functions |-> WithCallers({g})]
CallPlaces == [g \in Functions |-> PlacesOf({<<"call", g>>})]
NativeAts ==
    {at \in Spots :
        /\ at # <<>>
        /\ \A p \in DOMAIN at : at[p][1] \in native
        /\ \A p \in DOMAIN at : p + 1 \in DOMAIN at => at[p] \in CallPlaces[at[p + 1][1]]
        /\ \A p, q \in DOMAIN at : p < q => at[p][1] \in Reaches[at[q][1]]}

LastIn(O) == {at \in Spots : at # <<>> /\ at[Len(at)] \in PlacesOf(O)}
PythonAts == LastIn({<<"python", "">>})
FlushAts == LastIn({"flush"} \X Streams)
BackAts == LastIn(Backs \X {""})
\* At a barrier, and past one.
StalledAts == LastIn(Crossing)
LateAts == {at \in Spots : \E q \in DOMAIN at : at[q] \in Passed}

-----------------------------------------------------------------------------
(* The closure of a set of functions under being called. *)

LEMMA Includes ==
    ASSUME NEW S \in SUBSET Functions
    PROVE  S \subseteq WithCallers(S)
  BY DEF WithCallers

LEMMA Closed ==
    ASSUME NEW S \in SUBSET Functions, NEW f \in Functions, NEW g \in WithCallers(S), Calls(f, g)
    PROVE  f \in WithCallers(S)
  <1> DEFINE calls == [e \in Functions |-> {h \in Functions : Calls(e, h)}]
  <1>1. g \in Functions
    BY DEF WithCallers
  <1>2. g \in calls[f]
    BY <1>1
  <1>3. ASSUME NEW T \in SUBSET Functions,
               S \subseteq T, \A e \in Functions : calls[e] \cap T # {} => e \in T
        PROVE  f \in T
    <2>1. g \in T
      BY <1>3 DEF WithCallers
    <2>q. QED
      BY <2>1, <1>2, <1>3
  <1>q. QED
    BY <1>3 DEF WithCallers

LEMMA Transitive ==
    ASSUME NEW R \in SUBSET Functions, NEW S \in SUBSET Functions, S \subseteq WithCallers(R)
    PROVE  WithCallers(S) \subseteq WithCallers(R)
  <1> DEFINE calls == [e \in Functions |-> {h \in Functions : Calls(e, h)}]
             T == WithCallers(R)
  <1>1. T \in SUBSET Functions
    BY DEF WithCallers
  <1>2. ASSUME NEW e \in Functions, calls[e] \cap T # {}
        PROVE  e \in T
    BY <1>2, Closed
  <1>q. QED
    BY <1>1, <1>2 DEF WithCallers

LEMMA Typing ==
    program \in Programs =>
        /\ program.ops \in [Functions -> [Blocks -> Seq(Operations)]]
        /\ program.next \in [Functions -> [Blocks -> SUBSET Blocks]]
  BY ProgramsAssumption

\* What is done at a place is among the operations of its function.
LEMMA PlaceOps ==
    ASSUME program \in Programs, NEW O, NEW pl \in PlacesOf(O)
    PROVE  /\ pl \in Places /\ pl[1] \in Functions /\ pl[2] \in Blocks
           /\ Body(pl) = Ops(pl[1], pl[2]) /\ Body(pl) \in Seq(Operations)
           /\ pl[3] \in DOMAIN Body(pl) /\ Body(pl)[pl[3]] \in O
           /\ Body(pl)[pl[3]] \in OpsOf(pl[1])
           /\ Body(pl)[pl[3]] \in Operations
  <1>1. pl \in Places /\ pl[1] \in Functions /\ pl[2] \in Blocks /\ pl[3] \in DOMAIN Body(pl)
        /\ Body(pl)[pl[3]] \in O
    BY DEF PlacesOf, Places
  <1>2. Body(pl) = Ops(pl[1], pl[2]) /\ Body(pl) \in Seq(Operations)
    BY <1>1, Typing DEF Body, Ops
  <1>3. Body(pl)[pl[3]] \in OpsOf(pl[1])
    BY <1>1, <1>2 DEF OpsOf
  <1>q. QED
    BY <1>1, <1>2, <1>3

LEMMA CallPlace ==
    ASSUME program \in Programs, NEW g \in Functions, NEW pl \in CallPlaces[g]
    PROVE  pl \in Places /\ pl[1] \in Functions /\ Calls(pl[1], g)
           /\ pl[3] \in DOMAIN Body(pl) /\ Body(pl)[pl[3]] = <<"call", g>>
  BY PlaceOps DEF CallPlaces, Calls

\* A function in which a barrier is passed, or stands, is a crossing one.
LEMMA CrossingFunction ==
    ASSUME program \in Programs, NEW f \in Functions, NEW o \in OpsOf(f), o \in Crossing
    PROVE  f \in WithCallers(Having(Barriers))
  <1>1. CASE o[1] \in Barriers
    BY <1>1, Includes DEF Having
  <1>2. CASE o[1] \notin Barriers
    <2>1. PICK g \in WithCallers(Having(Barriers)) : o = <<"call", g>>
      BY <1>2 DEF Crossing, Barriers
    <2>q. QED
      BY <2>1, Closed DEF Calls, Having
  <1>q. QED
    BY <1>1, <1>2

LEMMA PassedFunction ==
    ASSUME program \in Programs, NEW pl \in Places, pl \in Passed \cup PlacesOf(Crossing)
    PROVE  pl[1] \in WithCallers(Having(Barriers))
  <1>1. pl[1] \in Functions /\ pl[2] \in Blocks
    BY DEF Places
  <1>2. ASSUME NEW b \in Blocks, NEW j \in DOMAIN Ops(pl[1], b), Ops(pl[1], b)[j] \in Crossing
        PROVE  pl[1] \in WithCallers(Having(Barriers))
    BY <1>1, <1>2, CrossingFunction DEF OpsOf
  <1>3. CASE pl[2] \in After(pl[1])
    <2>1. CrossingBlocks(pl[1]) # {}
      <3> SUFFICES ASSUME CrossingBlocks(pl[1]) = {} PROVE pl[2] \in {}
        OBVIOUS
      <3>q. QED
        BY <1>3 DEF After
    <2>q. QED
      BY <2>1, <1>2 DEF CrossingBlocks
  <1>4. CASE \E j \in DOMAIN Body(pl) : Body(pl)[j] \in Crossing
    BY <1>1, <1>2, <1>4 DEF Body, Ops
  <1>q. QED
    BY <1>3, <1>4 DEF Passed, PassedIn, PlacesOf

\* From the block of a place past a barrier one comes to such blocks only.
LEMMA AfterStays ==
    ASSUME program \in Programs, NEW pl \in Passed, NEW c \in program.next[pl[1]][pl[2]]
    PROVE  c \in After(pl[1])
  <1>1. pl[1] \in Functions /\ pl[2] \in Blocks
    BY DEF Passed, Places
  <1>2. c \in Blocks
    BY <1>1, Typing
  <1>3. pl[2] \in After(pl[1]) \/ pl[2] \in CrossingBlocks(pl[1])
    BY <1>1 DEF Passed, PassedIn, CrossingBlocks, Body, Ops
  <1>q. QED
    BY <1>1, <1>2, <1>3 DEF After

-----------------------------------------------------------------------------
(* What the steps of a native call do to its places. *)

Moving(pl) == [pl EXCEPT ![3] = @ + 1]

LEMMA MovedAs ==
    ASSUME NEW at \in Spots, at # <<>>
    PROVE  /\ Moved(at) \in Spots /\ Len(Moved(at)) = Len(at) /\ Moved(at) # <<>>
           /\ Moved(at)[Len(at)] = <<at[Len(at)][1], at[Len(at)][2], at[Len(at)][3] + 1>>
           /\ \A p \in DOMAIN at : p # Len(at) => Moved(at)[p] = at[p]
           /\ Last(at) = at[Len(at)] /\ at[Len(at)] \in Places
  <1>1. Len(at) \in DOMAIN at /\ at[Len(at)] \in Places
    BY DEF Spots
  <1>2. PICK f \in Functions, b \in Blocks, i \in Nat \ {0} : at[Len(at)] = <<f, b, i>>
    BY <1>1 DEF Places
  <1>3. Moved(at)[Len(at)] = <<f, b, i + 1>>
    BY <1>1, <1>2 DEF Moved
  <1>4. <<f, b, i + 1>> \in Places
    BY <1>2 DEF Places
  <1>5. /\ Len(Moved(at)) = Len(at) /\ DOMAIN Moved(at) = DOMAIN at
        /\ \A p \in DOMAIN at : p # Len(at) => Moved(at)[p] = at[p]
    BY <1>1 DEF Moved, Spots
  <1>6. Moved(at) \in Spots
    <2>1. \A p \in 1 .. Len(at) : Moved(at)[p] \in Places
      BY <1>1, <1>3, <1>4, <1>5 DEF Spots
    <2>2. Moved(at) = [p \in 1 .. Len(at) |-> Moved(at)[p]]
      BY <1>1 DEF Moved, Spots
    <2>q. QED
      BY <2>1, <2>2, <1>1 DEF Spots
  <1>q. QED
    BY <1>1, <1>2, <1>3, <1>5, <1>6 DEF Last

LEMMA PassedFurther ==
    ASSUME program \in Programs, NEW f \in Functions, NEW b \in Blocks, NEW i \in Nat \ {0},
           <<f, b, i>> \in Passed \cup PlacesOf(Crossing)
    PROVE  <<f, b, i + 1>> \in Passed
  <1>1. <<f, b, i + 1>> \in Places
    BY DEF Places
  <1>2. ASSUME NEW j \in DOMAIN Body(<<f, b, i>>), j <= i, Body(<<f, b, i>>)[j] \in Crossing
        PROVE  <<f, b, i + 1>> \in Passed
    <2>1. j \in Nat
      BY Typing DEF Body
    <2>q. QED
      BY <2>1, <1>1, <1>2 DEF Passed, PassedIn, Body
  <1>3. ASSUME b \in After(f)
        PROVE  <<f, b, i + 1>> \in Passed
    BY <1>1, <1>3 DEF Passed, PassedIn
  <1>4. CASE <<f, b, i>> \in Passed
    <2>1. \A j \in DOMAIN Body(<<f, b, i>>) : j \in Nat
      BY Typing DEF Body
    <2>q. QED
      BY <2>1, <1>2, <1>3, <1>4 DEF Passed, PassedIn
  <1>5. CASE <<f, b, i>> \in PlacesOf(Crossing)
    BY <1>2, <1>5 DEF PlacesOf
  <1>q. QED
    BY <1>4, <1>5

LEMMA MovedOn ==
    ASSUME program \in Programs, NEW at \in NativeAts
    PROVE  /\ Moved(at) \in NativeAts
           /\ at \in LateAts \cup StalledAts => Moved(at) \in LateAts
  <1>1. at \in Spots /\ at # <<>> /\ Len(at) \in DOMAIN at
    BY DEF NativeAts, Spots
  <1> DEFINE m == Moved(at)
  <1>2. /\ m \in Spots /\ Len(m) = Len(at) /\ m # <<>> /\ DOMAIN m = DOMAIN at
        /\ m[Len(at)] = <<at[Len(at)][1], at[Len(at)][2], at[Len(at)][3] + 1>>
        /\ \A p \in DOMAIN at : p # Len(at) => m[p] = at[p]
        /\ at[Len(at)] \in Places
    BY <1>1, MovedAs DEF Spots
  <1> HIDE DEF m
  <1>3. \A p \in DOMAIN at : m[p][1] = at[p][1]
    BY <1>2
  <1>4. m \in NativeAts
    BY <1>1, <1>2, <1>3 DEF NativeAts, Spots
  <1>5. ASSUME NEW q \in DOMAIN at, at[q] \in Passed
        PROVE  m \in LateAts
    <2>1. CASE q # Len(at)
      BY <2>1, <1>2, <1>5 DEF LateAts
    <2>2. CASE q = Len(at)
      <3>1. m[q] \in Passed
        BY <2>2, <1>2, <1>5, PassedFurther DEF Places
      <3>q. QED
        BY <3>1, <1>2, <1>5 DEF LateAts
    <2>q. QED
      BY <2>1, <2>2
  <1>6. ASSUME at[Len(at)] \in PlacesOf(Crossing)
        PROVE  m \in LateAts
    <2>1. m[Len(at)] \in Passed
      BY <1>2, <1>6, PassedFurther DEF Places
    <2>q. QED
      BY <2>1, <1>1, <1>2 DEF LateAts
  <1>q. QED
    BY <1>4, <1>5, <1>6 DEF m, LateAts, StalledAts, LastIn

LEMMA StartedAt ==
    ASSUME program \in Programs, 1 \in Blocks, NEW f \in native \cap Functions
    PROVE  <<<<f, 1, 1>>>> \in NativeAts
  <1>1. <<f, 1, 1>> \in Places
    BY DEF Places
  <1>q. QED
    BY <1>1 DEF NativeAts, Spots

LEMMA CalledAt ==
    ASSUME program \in Programs, NEW at \in NativeAts, NEW g \in native \cap Functions,
           at[Len(at)] \in CallPlaces[g]
    PROVE  /\ Append(at, <<g, 1, 1>>) \in NativeAts
           /\ at \in LateAts => Append(at, <<g, 1, 1>>) \in LateAts
  <1>1. at \in Spots /\ at # <<>> /\ Len(at) \in DOMAIN at
    BY DEF NativeAts, Spots
  <1>2. <<g, 1, 1>> \in Places
    BY BlocksAssumption DEF Places
  <1> DEFINE m == Append(at, <<g, 1, 1>>)
  <1>3. /\ m \in Spots /\ Len(m) = Len(at) + 1 /\ m[Len(at) + 1] = <<g, 1, 1>>
        /\ \A p \in DOMAIN at : m[p] = at[p]
        /\ DOMAIN m = 1 .. Len(at) + 1
    BY <1>1, <1>2 DEF Spots
  <1> HIDE DEF m
  <1>4. \A p \in DOMAIN at : at[p] \in Places /\ at[p][1] \in Functions
    BY <1>1 DEF Spots, Places
  <1>5. at[Len(at)][1] \in Reaches[g]
    BY <1>1, <1>4, CallPlace, Includes, Closed DEF Reaches
  <1>6. ASSUME NEW p \in DOMAIN at, p < Len(at)
        PROVE  at[p][1] \in Reaches[g]
    <2> DEFINE h == at[Len(at)][1]
    <2>1. at[p][1] \in WithCallers({h}) /\ h \in Functions /\ {h} \subseteq WithCallers({g})
      BY <1>1, <1>4, <1>5, <1>6 DEF NativeAts, Reaches
    <2>q. QED
      BY <2>1, Transitive DEF Reaches
  <1>7. \A p \in DOMAIN at : at[p][1] \in Reaches[g]
    BY <1>1, <1>5, <1>6 DEF Spots
  <1>8. m # <<>> /\ \A p \in DOMAIN m : m[p][1] \in native
    BY <1>1, <1>3 DEF NativeAts, Spots
  <1>9. ASSUME NEW p \in DOMAIN m, p + 1 \in DOMAIN m
        PROVE  m[p] \in CallPlaces[m[p + 1][1]]
    <2>1. CASE p = Len(at)
      BY <2>1, <1>1, <1>3
    <2>2. CASE p # Len(at)
      <3>1. p \in DOMAIN at /\ p + 1 \in DOMAIN at
        BY <1>1, <1>3, <1>9, <2>2 DEF Spots
      <3>q. QED
        BY <3>1, <1>3 DEF NativeAts
    <2>q. QED
      BY <2>1, <2>2
  <1>10. ASSUME NEW p \in DOMAIN m, NEW q \in DOMAIN m, p < q
         PROVE  m[p][1] \in Reaches[m[q][1]]
    <2>1. p \in DOMAIN at
      BY <1>1, <1>3, <1>10 DEF Spots
    <2>2. CASE q \in DOMAIN at
      BY <2>1, <2>2, <1>3, <1>10 DEF NativeAts
    <2>3. CASE q \notin DOMAIN at
      <3>1. q = Len(at) + 1
        BY <2>3, <1>1, <1>3, <1>10 DEF Spots
      <3>q. QED
        BY <3>1, <2>1, <1>3, <1>7
    <2>q. QED
      BY <2>2, <2>3
  <1>11. m \in NativeAts
    BY <1>3, <1>8, <1>9, <1>10 DEF NativeAts
  <1>12. at \in LateAts => m \in LateAts
    BY <1>1, <1>3 DEF LateAts, Spots
  <1>q. QED
    BY <1>11, <1>12 DEF m

\* The caller of a function that passed a barrier, or stands at one, calls a crossing one.
LEMMA PoppedAt ==
    ASSUME program \in Programs, NEW at \in NativeAts, Len(at) > 1
    PROVE  /\ Front(at) \in NativeAts
           /\ at \in LateAts \cup StalledAts => Front(at) \in LateAts \cup StalledAts
  <1> DEFINE m == Front(at)
             n == Len(at) - 1
  <1>1. /\ at \in Spots /\ n \in Nat \ {0} /\ Len(at) = n + 1 /\ DOMAIN at = 1 .. n + 1
        /\ \A p \in DOMAIN at : at[p] \in Places /\ at[p][1] \in Functions
    BY DEF NativeAts, Spots, Places
  <1>2. /\ m \in Spots /\ Len(m) = n /\ DOMAIN m = 1 .. n /\ m # <<>>
        /\ \A p \in 1 .. n : m[p] = at[p]
    BY <1>1 DEF Spots, Front
  <1> HIDE DEF m, n
  <1>3. m \in NativeAts
    <2>1. \A p \in DOMAIN m : m[p][1] \in native
      BY <1>1, <1>2 DEF NativeAts
    <2>2. \A p \in DOMAIN m : p + 1 \in DOMAIN m => m[p] \in CallPlaces[m[p + 1][1]]
      BY <1>1, <1>2 DEF NativeAts
    <2>3. \A p, q \in DOMAIN m : p < q => m[p][1] \in Reaches[m[q][1]]
      BY <1>1, <1>2 DEF NativeAts
    <2>q. QED
      BY <1>2, <2>1, <2>2, <2>3 DEF NativeAts
  <1>4. ASSUME at[n + 1] \in Passed \cup PlacesOf(Crossing)
        PROVE  m \in StalledAts
    <2> DEFINE g == at[n + 1][1]
    <2>1. g \in WithCallers(Having(Barriers)) /\ g \in Functions
      BY <1>1, <1>4, PassedFunction
    <2>2. m[n] \in CallPlaces[g]
      <3>1. n \in DOMAIN at /\ n + 1 \in DOMAIN at
        BY <1>1
      <3>q. QED
        BY <3>1, <1>1, <1>2 DEF NativeAts
    <2>3. <<"call", g>> \in Crossing
      BY <2>1 DEF Crossing
    <2>4. m[n] \in PlacesOf(Crossing)
      BY <2>1, <2>2, <2>3, CallPlace DEF PlacesOf
    <2>q. QED
      BY <2>4, <1>1, <1>2 DEF StalledAts, LastIn
  <1>5. ASSUME NEW q \in DOMAIN at, q # n + 1, at[q] \in Passed
        PROVE  m \in LateAts
    BY <1>1, <1>2, <1>5 DEF LateAts
  <1>6. at \in LateAts \cup StalledAts => m \in LateAts \cup StalledAts
    BY <1>1, <1>4, <1>5 DEF LateAts, StalledAts, LastIn
  <1>q. QED
    BY <1>3, <1>6 DEF m

LEMMA BranchedAt ==
    ASSUME program \in Programs, NEW at \in NativeAts,
           NEW c \in program.next[Last(at)[1]][Last(at)[2]]
    PROVE  /\ Append(Front(at), <<Last(at)[1], c, 1>>) \in NativeAts
           /\ at \in LateAts => Append(Front(at), <<Last(at)[1], c, 1>>) \in LateAts
  <1> DEFINE m == Append(Front(at), <<Last(at)[1], c, 1>>)
             n == Len(at)
  <1>1. /\ at \in Spots /\ n \in Nat \ {0} /\ DOMAIN at = 1 .. n /\ Last(at) = at[n]
        /\ \A p \in DOMAIN at : at[p] \in Places /\ at[p][1] \in Functions
        /\ at[n][2] \in Blocks
    BY DEF NativeAts, Spots, Places, Last
  <1>2. <<at[n][1], c, 1>> \in Places
    BY <1>1, Typing DEF Places
  <1>3. /\ m \in Spots /\ Len(m) = n /\ DOMAIN m = DOMAIN at
        /\ m[n] = <<at[n][1], c, 1>> /\ \A p \in DOMAIN at : p # n => m[p] = at[p]
    BY <1>1, <1>2 DEF Spots, Front
  <1> HIDE DEF m, n
  <1>4. \A p \in DOMAIN at : m[p][1] = at[p][1]
    BY <1>1, <1>3
  <1>5. m \in NativeAts
    BY <1>1, <1>3, <1>4 DEF NativeAts
  <1>6. ASSUME NEW q \in DOMAIN at, at[q] \in Passed
        PROVE  m \in LateAts
    <2>1. CASE q # n
      BY <2>1, <1>3, <1>6 DEF LateAts
    <2>2. CASE q = n
      <3>1. c \in After(at[n][1])
        BY <2>2, <1>1, <1>6, AfterStays
      <3>2. m[n] \in Passed
        BY <3>1, <1>2, <1>3 DEF Passed, PassedIn
      <3>q. QED
        BY <3>2, <2>2, <1>3, <1>6 DEF LateAts
    <2>q. QED
      BY <2>1, <2>2
  <1>q. QED
    BY <1>5, <1>6 DEF m, LateAts

LEMMA PairedUp ==
    ASSUME NEW K, NEW x, NEW o \in K \X {x}
    PROVE  o \in {<<k, x>> : k \in K}
  OBVIOUS

\* The rule: past a barrier, no function of a native call is at what may fall back.
LEMMA NothingFallsBack ==
    ASSUME program \in Programs, native = Native, NEW at \in NativeAts, at \in LateAts,
           at \in BackAts
    PROVE  FALSE
  <1> DEFINE n == Len(at)
  <1>1. /\ at \in Spots /\ n \in Nat \ {0} /\ DOMAIN at = 1 .. n
        /\ \A p \in DOMAIN at : at[p] \in Places /\ at[p][1] \in Functions /\ at[p][1] \in native
    <2>1. at \in Spots /\ n \in Nat \ {0} /\ DOMAIN at = 1 .. n
      BY DEF NativeAts, Spots
    <2>2. \A p \in DOMAIN at : at[p] \in Places /\ at[p][1] \in native
      BY <2>1 DEF NativeAts, Spots
    <2>q. QED
      BY <2>1, <2>2 DEF Places
  <1> HIDE DEF n
  <1>2. PICK q \in DOMAIN at : at[q] \in Passed
    BY DEF LateAts
  <1>3. at[n][1] \in Having(Backs)
    <2>1. PICK o \in OpsOf(at[n][1]) : o \in Backs \X {""}
      BY PlaceOps DEF n, BackAts, LastIn
    <2>2. o[1] \in Backs
      BY <2>1
    <2>q. QED
      BY <2>2, <1>1 DEF Having
  <1>4. \A p \in DOMAIN at : at[p][1] \in WithCallers(Having(Backs))
    <2> TAKE p \in DOMAIN at
    <2>1. CASE p = n
      BY <2>1, <1>3, Includes DEF Having
    <2>2. CASE p # n
      <3>1. at[p][1] \in WithCallers({at[n][1]})
        <4>1. p < n /\ n \in DOMAIN at
          BY <2>2, <1>1
        <4>2. at[p][1] \in Reaches[at[n][1]]
          BY <4>1, <1>1 DEF NativeAts
        <4>q. QED
          BY <4>1, <4>2, <1>1 DEF Reaches
      <3>2. {at[n][1]} \subseteq WithCallers(Having(Backs))
        BY <1>3, Includes DEF Having
      <3>q. QED
        BY <3>1, <3>2, <1>1, Transitive DEF Having
    <2>q. QED
      BY <2>1, <2>2
  <1>5. at[q][3] \in DOMAIN Body(at[q]) /\ Body(at[q])[at[q][3]] \in FallingBack
    <2>1. CASE q = n
      <3>1. /\ at[n][3] \in DOMAIN Body(at[n])
            /\ Body(at[n])[at[n][3]] \in Backs \X {""}
        BY PlaceOps DEF n, BackAts, LastIn
      <3>2. Body(at[n])[at[n][3]] \in {<<kind, "">> : kind \in Backs}
        BY <3>1, PairedUp
      <3>q. QED
        BY <2>1, <3>1, <3>2 DEF FallingBack
    <2>2. CASE q # n
      <3>1. q + 1 \in DOMAIN at
        BY <2>2, <1>1
      <3>2. at[q] \in CallPlaces[at[q + 1][1]]
        BY <3>1 DEF NativeAts
      <3>3. <<"call", at[q + 1][1]>> \in FallingBack
        BY <3>1, <1>4 DEF FallingBack
      <3>q. QED
        BY <3>1, <3>2, <3>3, <1>1, CallPlace
    <2>q. QED
      BY <2>1, <2>2
  <1>6. Body(at[q]) = Ops(at[q][1], at[q][2]) /\ at[q][2] \in Blocks /\ at[q][3] \in Nat
    BY <1>1 DEF Body, Ops, Places
  <1>7. \/ at[q][2] \in After(at[q][1])
        \/ \E j \in 1 .. at[q][3] - 1 : Ops(at[q][1], at[q][2])[j] \in Crossing
    <2>1. \A j \in DOMAIN Body(at[q]) : j \in Nat \ {0}
      BY <1>1, <1>6, Typing DEF Ops
    <2>q. QED
      BY <2>1, <1>2, <1>6 DEF Passed, PassedIn
  <1>8. Violates(at[q][1])
    BY <1>5, <1>6, <1>7 DEF Violates
  <1>9. {e \in Functions : Violates(e)} \in SUBSET Functions
    OBVIOUS
  <1>10. at[q][1] \notin Native
    BY <1>1, <1>8, <1>9, Includes DEF Native
  <1>q. QED
    BY <1>1, <1>10

\* A native function calls only native ones.
LEMMA NativeCalls ==
    ASSUME program \in Programs, native = Native, NEW f \in native, NEW g \in Functions, Calls(f, g)
    PROVE  g \in native
  <1>1. f \in Functions /\ {e \in Functions : Violates(e)} \in SUBSET Functions
    BY DEF Native
  <1>q. QED
    BY <1>1, Closed DEF Native

-----------------------------------------------------------------------------
(* Nothing of the rule changes as the program runs. *)

LEMMA ClosuresStay ==
    ASSUME program' = program
    PROVE  /\ \A f : OpsOf(f)' = OpsOf(f)
           /\ \A f, g : Calls(f, g)' <=> Calls(f, g)
           /\ \A S \in SUBSET Functions : WithCallers(S)' = WithCallers(S)
           /\ Having(Barriers)' = Having(Barriers) /\ Having(Backs)' = Having(Backs)
           /\ Crossing' = Crossing /\ FallingBack' = FallingBack
  <1>1. \A f : OpsOf(f)' = OpsOf(f)
    BY DEF OpsOf, Ops
  <1>2. \A f, g : Calls(f, g)' <=> Calls(f, g)
    BY <1>1 DEF Calls
  <1>3. ASSUME NEW S \in SUBSET Functions
        PROVE  WithCallers(S)' = WithCallers(S)
    <2> DEFINE calls == [g \in Functions |-> {h \in Functions : Calls(g, h)}]
    <2>1. calls' = calls
      BY <1>2
    <2> HIDE DEF calls
    <2>2. /\ WithCallers(S) = {f \in Functions : \A T \in SUBSET Functions :
                S \subseteq T /\ (\A g \in Functions : calls[g] \cap T # {} => g \in T) => f \in T}
          /\ WithCallers(S)' = {f \in Functions : \A T \in SUBSET Functions :
                S \subseteq T /\ (\A g \in Functions : calls'[g] \cap T # {} => g \in T) => f \in T}
      BY DEF WithCallers, calls
    <2>q. QED
      BY <2>1, <2>2
  <1>4. Having(Barriers)' = Having(Barriers) /\ Having(Backs)' = Having(Backs)
    BY <1>1 DEF Having, Barriers, Backs
  <1>5. /\ WithCallers(Having(Barriers))' = WithCallers(Having(Barriers))
        /\ WithCallers(Having(Backs))' = WithCallers(Having(Backs))
    <2>1. ASSUME NEW S \in SUBSET Functions, NEW T \in SUBSET Functions, S = T
          PROVE  WithCallers(S)' = WithCallers(T)
      BY <2>1, <1>3
    <2>q. QED
      BY <1>3, <1>4 DEF Having
  <1>6. Crossing' = Crossing
    BY <1>5 DEF Crossing
  <1>7. FallingBack' = FallingBack
    BY <1>5 DEF FallingBack, Backs
  <1>q. QED
    BY <1>1, <1>2, <1>3, <1>4, <1>6, <1>7

LEMMA RuleStays ==
    ASSUME program' = program, native' = native
    PROVE  /\ Native' = Native /\ NativeAts' = NativeAts /\ PythonAts' = PythonAts
           /\ FlushAts' = FlushAts /\ StalledAts' = StalledAts /\ LateAts' = LateAts
           /\ BackAts' = BackAts
  <1>1. \A f, b : Ops(f, b)' = Ops(f, b)
    BY DEF Ops
  <1>2. \A f : CrossingBlocks(f)' = CrossingBlocks(f)
    BY <1>1, ClosuresStay DEF CrossingBlocks
  <1>3. \A f : After(f)' = After(f)
    <2> TAKE f
    <2> DEFINE crossing == CrossingBlocks(f)
    <2>1. crossing' = crossing
      BY <1>2
    <2>2. /\ After(f) = {b \in Blocks : \A T \in SUBSET Blocks :
                (\A c \in crossing \cup T : program.next[f][c] \subseteq T) => b \in T}
          /\ After(f)' = {b \in Blocks : \A T \in SUBSET Blocks :
                (\A c \in crossing' \cup T : program'.next[f][c] \subseteq T) => b \in T}
      BY DEF After
    <2>q. QED
      BY <2>1, <2>2
  <1>4. \A f : Violates(f)' <=> Violates(f)
    BY <1>1, <1>3, ClosuresStay DEF Violates
  <1>5. Native' = Native
    <2> DEFINE V == {f \in Functions : Violates(f)}
    <2>1. V' = V /\ V \in SUBSET Functions
      BY <1>4
    <2>2. WithCallers(V)' = WithCallers(V)
      BY <2>1, ClosuresStay
    <2>q. QED
      BY <2>2 DEF Native
  <1>6. \A O : PlacesOf(O)' = PlacesOf(O)
    BY DEF PlacesOf, Body
  <1>7. Passed' = Passed
    <2>1. \A pl : PassedIn(pl)' <=> PassedIn(pl)
      BY <1>3, ClosuresStay DEF PassedIn, Body
    <2>q. QED
      BY <2>1 DEF Passed
  <1>8. Reaches' = Reaches
    BY ClosuresStay DEF Reaches
  <1>9. CallPlaces' = CallPlaces
    BY <1>6 DEF CallPlaces
  <1>10. NativeAts' = NativeAts
    BY <1>8, <1>9 DEF NativeAts
  <1>11. \A O : LastIn(O)' = LastIn(O)
    BY <1>6 DEF LastIn
  <1>12. LateAts' = LateAts
    BY <1>7 DEF LateAts
  <1>13. StalledAts' = StalledAts
    <2>1. PlacesOf(Crossing)' = PlacesOf(Crossing)
      BY ClosuresStay DEF PlacesOf, Body
    <2>q. QED
      BY <2>1 DEF StalledAts, LastIn
  <1>q. QED
    BY <1>5, <1>10, <1>11, <1>12, <1>13 DEF PythonAts, FlushAts, BackAts

-----------------------------------------------------------------------------
(* The inductive invariant, in parts. *)

Names == Functions \cup {""}
Frames == [fn : Names, mode : {"native", "python"},
           at : Spots,
           first : Nat, outer : BOOLEAN, touched : BOOLEAN]

Data ==
    /\ held \in Records /\ writing \in Records /\ out \in Seq(Nat) /\ printed \in Nat
    /\ crossed \in BOOLEAN /\ raising \in BOOLEAN
    /\ after \in {"none", "python", "flush", "answer", "raise"}
Typed ==
    /\ program \in Programs /\ native = Native
    /\ stack \in Seq(Frames) /\ stack # <<>>
    /\ Data

\* Python is below, and every native call in progress but the innermost is calling it.
Stacked ==
    /\ stack[1].mode = "python"
    /\ \A i \in DOMAIN stack : stack[i].mode = "native" => stack[i].at \in NativeAts
    /\ \A i \in DOMAIN stack :
        i < Len(stack) /\ stack[i].mode = "native" => stack[i].at \in PythonAts

\* Output is written for the innermost native call: at the barrier it stands at, which
\* it has crossed, or at its end.
Writing ==
    /\ after # "none" => Top.mode = "native" /\ ~raising
    /\ after = "python" => crossed /\ Top.at \in PythonAts
    /\ after = "flush" => crossed /\ Top.at \in FlushAts

\* Only native code holds output, and none while some is written.
HeldByNative == after # "none" \/ Top.mode = "python" => held = <<>>

\* A native call that crossed a barrier is past it, or still at it.
PastBarrier ==
    Top.mode = "native" /\ after \notin {"answer", "raise"} /\ crossed =>
        \/ Top.at \in LateAts
        \/ (raising \/ after # "none") /\ Top.at \in StalledAts

\* The innermost native call that was seen is marked, and those outside have their mark
\* put away by the next.
Told ==
    /\ \A i \in Entered : (\A k \in Entered : k <= i) => (stack[i].touched => crossed)
    /\ \A i, j \in Entered :
        i < j /\ (\A k \in Entered : k <= i \/ k >= j) => (stack[i].touched => stack[j].outer)

\* The innermost frame stands at an operation; at a pure call, while Python runs it.
Stands(mode) ==
    /\ after = "none" /\ ~raising /\ Top.mode = mode /\ Top.at # <<>>
    /\ Place[3] <= Len(Ops(Place[1], Place[2]))
Calling == inPure \in BOOLEAN /\ (inPure => Stands(Top.mode) /\ Op[1] = "pure")

Ruled == Typed /\ Stacked /\ Writing /\ HeldByNative /\ PastBarrier /\ ~wrong

IInv == Ruled /\ Calling /\ Told

-----------------------------------------------------------------------------
(* The frames, before and after. *)

\* A stack has a frame in place of its last; one more; one less.
LEMMA Replaced ==
    ASSUME NEW S, NEW s \in Seq(S), s # <<>>, NEW x \in S
    PROVE  LET t == Append(Front(s), x) IN
           /\ t \in Seq(S) /\ t # <<>> /\ Len(t) = Len(s) /\ DOMAIN t = DOMAIN s
           /\ Last(t) = x /\ t[Len(s)] = x /\ \A i \in DOMAIN s : i < Len(s) => t[i] = s[i]
           /\ Last(s) = s[Len(s)] /\ Len(s) \in DOMAIN s /\ Last(s) \in S
  <1>2. Len(s) \in Nat \ {0} /\ DOMAIN s = 1 .. Len(s) /\ s[Len(s)] \in S
    OBVIOUS
  <1>1. /\ Front(s) \in Seq(S) /\ Len(Front(s)) = Len(s) - 1
        /\ \A i \in 1 .. Len(s) - 1 : Front(s)[i] = s[i]
    BY <1>2 DEF Front
  <1>q. QED
    BY <1>1, <1>2 DEF Last

LEMMA Pushed ==
    ASSUME NEW S, NEW s \in Seq(S), NEW x \in S
    PROVE  LET t == Append(s, x) IN
           /\ t \in Seq(S) /\ t # <<>> /\ Len(t) = Len(s) + 1 /\ DOMAIN t = 1 .. Len(s) + 1
           /\ Last(t) = x /\ t[Len(s) + 1] = x /\ \A i \in DOMAIN s : t[i] = s[i]
  BY DEF Last

LEMMA Popped ==
    ASSUME NEW S, NEW s \in Seq(S), Len(s) > 1, NEW t, t = Front(s)
    PROVE  /\ t \in Seq(S) /\ t # <<>> /\ Len(t) = Len(s) - 1 /\ DOMAIN t = 1 .. Len(s) - 1
           /\ Last(t) = s[Len(s) - 1] /\ \A i \in DOMAIN t : t[i] = s[i]
           /\ \A i \in DOMAIN t : i \in DOMAIN s /\ i < Len(s)
  <1>1. /\ t \in Seq(S) /\ Len(t) = Len(s) - 1
        /\ \A i \in 1 .. Len(s) - 1 : t[i] = s[i]
    BY DEF Front
  <1>2. Len(s) \in Nat \ {0} /\ DOMAIN s = 1 .. Len(s)
    OBVIOUS
  <1>q. QED
    BY <1>1, <1>2 DEF Last

\* What the steps below use of the invariant.
Still == program' = program /\ native' = native

LEMMA TopFrame ==
    ASSUME Typed
    PROVE  /\ Top \in Frames /\ Top = stack[Len(stack)] /\ Len(stack) \in DOMAIN stack
           /\ Len(stack) \in Nat \ {0} /\ DOMAIN stack = 1 .. Len(stack)
           /\ Top.at \in Spots
  <1>1. stack \in Seq(Frames) /\ stack # <<>>
    BY DEF Typed
  <1>2. /\ Top = stack[Len(stack)] /\ Len(stack) \in DOMAIN stack
        /\ Len(stack) \in Nat \ {0} /\ DOMAIN stack = 1 .. Len(stack) /\ Top \in Frames
    BY <1>1 DEF Top, Last
  <1>q. QED
    BY <1>2 DEF Frames

LEMMA SwapStacked ==
    ASSUME Typed, Stacked, Still, NEW frame \in Frames, stack' = Append(Front(stack), frame),
           frame.mode = "native" => Top.mode = "native" /\ frame.at \in NativeAts
    PROVE  stack' \in Seq(Frames) /\ stack' # <<>> /\ Stacked' /\ Top' = frame
           /\ Len(stack') = Len(stack) /\ DOMAIN stack' = DOMAIN stack
           /\ stack'[Len(stack)] = frame
           /\ \A i \in DOMAIN stack : i < Len(stack) => stack'[i] = stack[i]
  <1>1. /\ stack' \in Seq(Frames) /\ stack' # <<>> /\ Len(stack') = Len(stack)
        /\ DOMAIN stack' = DOMAIN stack /\ Last(stack') = frame /\ stack'[Len(stack)] = frame
        /\ \A i \in DOMAIN stack : i < Len(stack) => stack'[i] = stack[i]
    <2>1. stack \in Seq(Frames) /\ stack # <<>>
      BY DEF Typed
    <2>q. QED
      BY <2>1, Replaced
  <1>2. NativeAts' = NativeAts /\ PythonAts' = PythonAts
    BY RuleStays DEF Still
  <1>3. stack'[1].mode = "python"
    <2>1. CASE Len(stack) = 1
      <3>1. Top.mode = "python"
        BY <2>1, TopFrame DEF Stacked
      <3>q. QED
        BY <3>1, <2>1, <1>1 DEF Frames
    <2>2. CASE Len(stack) # 1
      BY <2>2, <1>1, TopFrame DEF Stacked
    <2>q. QED
      BY <2>1, <2>2
  <1>4. ASSUME NEW i \in DOMAIN stack, stack'[i].mode = "native"
        PROVE  stack'[i].at \in NativeAts /\ (i < Len(stack) => stack'[i].at \in PythonAts)
    BY <1>1, <1>4, TopFrame DEF Stacked
  <1>q. QED
    BY <1>1, <1>2, <1>3, <1>4 DEF Stacked, Top

LEMMA PushStacked ==
    ASSUME Typed, Stacked, Still, NEW frame \in Frames, stack' = Append(stack, frame),
           frame.mode = "native" => frame.at \in NativeAts,
           Top.mode = "native" => Top.at \in PythonAts
    PROVE  stack' \in Seq(Frames) /\ stack' # <<>> /\ Stacked' /\ Top' = frame
           /\ Len(stack') = Len(stack) + 1 /\ stack'[Len(stack) + 1] = frame
           /\ \A i \in DOMAIN stack : stack'[i] = stack[i]
  <1>1. /\ stack' \in Seq(Frames) /\ stack' # <<>> /\ Len(stack') = Len(stack) + 1
        /\ DOMAIN stack' = 1 .. Len(stack) + 1 /\ Last(stack') = frame
        /\ stack'[Len(stack) + 1] = frame /\ \A i \in DOMAIN stack : stack'[i] = stack[i]
    <2>1. stack \in Seq(Frames) /\ stack # <<>>
      BY DEF Typed
    <2>q. QED
      BY <2>1, Pushed
  <1>2. NativeAts' = NativeAts /\ PythonAts' = PythonAts
    BY RuleStays DEF Still
  <1>3. stack'[1].mode = "python"
    BY <1>1, TopFrame DEF Stacked
  <1>4. ASSUME NEW i \in DOMAIN stack', stack'[i].mode = "native"
        PROVE  stack'[i].at \in NativeAts /\ (i < Len(stack') => stack'[i].at \in PythonAts)
    BY <1>1, <1>4, TopFrame DEF Stacked
  <1>q. QED
    BY <1>1, <1>2, <1>3, <1>4 DEF Stacked, Top

LEMMA PopStacked ==
    ASSUME Typed, Stacked, Still, Len(stack) > 1, stack' = Front(stack)
    PROVE  stack' \in Seq(Frames) /\ stack' # <<>> /\ Stacked' /\ Top' = stack[Len(stack) - 1]
           /\ Len(stack') = Len(stack) - 1
           /\ (Top'.mode = "native" => Top'.at \in PythonAts)
           /\ \A i \in DOMAIN stack : i < Len(stack) => stack'[i] = stack[i]
  <1>1. /\ stack' \in Seq(Frames) /\ stack' # <<>> /\ Len(stack') = Len(stack) - 1
        /\ DOMAIN stack' = 1 .. Len(stack) - 1 /\ Last(stack') = stack[Len(stack) - 1]
        /\ \A i \in DOMAIN stack' : stack'[i] = stack[i] /\ i \in DOMAIN stack /\ i < Len(stack)
    BY Popped DEF Typed
  <1>2. NativeAts' = NativeAts /\ PythonAts' = PythonAts
    BY RuleStays DEF Still
  <1>3. stack'[1].mode = "python"
    BY <1>1, TopFrame DEF Stacked
  <1>4. ASSUME NEW i \in DOMAIN stack', stack'[i].mode = "native"
        PROVE  stack'[i].at \in NativeAts /\ stack'[i].at \in PythonAts
    BY <1>1, <1>4 DEF Stacked
  <1>5. Top' = stack[Len(stack) - 1] /\ Top' = stack'[Len(stack) - 1]
        /\ Len(stack) - 1 \in DOMAIN stack'
    BY <1>1, TopFrame DEF Top
  <1>6. \A i \in DOMAIN stack : i < Len(stack) => stack'[i] = stack[i]
    BY <1>1, TopFrame
  <1>q. QED
    BY <1>1, <1>2, <1>3, <1>4, <1>5, <1>6 DEF Stacked

\* The parts of the invariant that are about the innermost frame.
LEMMA TopRuled ==
    ASSUME Ruled, Still, Data', stack' \in Seq(Frames), stack' # <<>>, Stacked', ~wrong',
           after' # "none" => Top'.mode = "native" /\ ~raising',
           after' = "python" => crossed' /\ Top'.at \in PythonAts,
           after' = "flush" => crossed' /\ Top'.at \in FlushAts,
           after' # "none" \/ Top'.mode = "python" => held' = <<>>,
           Top'.mode = "native" /\ after' \notin {"answer", "raise"} /\ crossed' =>
                \/ Top'.at \in LateAts
                \/ (raising' \/ after' # "none") /\ Top'.at \in StalledAts
    PROVE  Ruled'
  <1>1. /\ Native' = Native /\ PythonAts' = PythonAts /\ FlushAts' = FlushAts
        /\ StalledAts' = StalledAts /\ LateAts' = LateAts
    BY RuleStays DEF Still
  <1>2. program' \in Programs /\ native' = Native
    BY DEF Still, Ruled, Typed
  <1>3. Typed'
    BY <1>1, <1>2 DEF Typed
  <1>4. Writing'
    BY <1>1 DEF Writing
  <1>5. HeldByNative'
    BY DEF HeldByNative
  <1>6. PastBarrier'
    BY <1>1 DEF PastBarrier
  <1>q. QED
    BY <1>3, <1>4, <1>5, <1>6 DEF Ruled

\* A frame that goes on to the next operation.
LEMMA MovedFrame ==
    ASSUME program \in Programs, NEW frame \in Frames, frame.at # <<>>,
           frame.mode = "native" => frame.at \in NativeAts
    PROVE  LET moved == [frame EXCEPT !.at = Moved(@)] IN
           /\ moved \in Frames /\ moved.mode = frame.mode /\ moved.outer = frame.outer
           /\ moved.touched = frame.touched
           /\ moved.mode = "native" =>
                /\ moved.at \in NativeAts
                /\ frame.at \in LateAts \cup StalledAts => moved.at \in LateAts
  <1> DEFINE moved == [frame EXCEPT !.at = Moved(@)]
  <1>1. frame.at \in Spots
    BY DEF Frames
  <1>2. Moved(frame.at) \in Spots
    BY <1>1, MovedAs
  <1>3. /\ moved \in Frames /\ moved.mode = frame.mode /\ moved.outer = frame.outer
        /\ moved.touched = frame.touched /\ moved.at = Moved(frame.at)
    BY <1>2 DEF Frames
  <1>q. QED
    BY <1>3, MovedOn

LEMMA TouchedFrame ==
    ASSUME NEW frame \in Frames
    PROVE  /\ Touch(frame) \in Frames /\ Touch(frame).mode = frame.mode
           /\ Touch(frame).outer = frame.outer /\ Touch(frame).at = frame.at
           /\ Touch(frame).touched = TRUE
  BY DEF Touch, Frames

\* A frame that began.
LEMMA NewFrame ==
    ASSUME Typed, NEW fn \in Names, NEW mode \in {"native", "python"},
           NEW outer \in BOOLEAN, mode = "native" => fn \in native
    PROVE  LET new == Frame(fn, mode, outer) IN
           /\ new \in Frames /\ new.mode = mode /\ new.outer = outer /\ new.touched = FALSE
           /\ mode = "native" => new.at \in NativeAts
  <1>1. 1 \in Blocks /\ "" \notin Functions
    BY BlocksAssumption, ProgramsAssumption
  <1>2. fn # "" => <<<<fn, 1, 1>>>> \in Spots
    <2>1. fn # "" => fn \in Functions
      BY DEF Names
    <2>2. ASSUME NEW f \in Functions
          PROVE  <<<<f, 1, 1>>>> \in Spots
      <3>1. <<f, 1, 1>> \in Places
        BY BlocksAssumption DEF Places
      <3>q. QED
        BY <3>1 DEF Spots
    <2>q. QED
      BY <2>1, <2>2
  <1>3. <<>> \in Spots
    <2>1. <<>> \in Seq(Places)
      OBVIOUS
    <2>q. QED
      BY <2>1, Zenon DEF Spots
  <1>4. mode = "native" => fn \in native \cap Functions
    BY DEF Typed, Native
  <1>5. mode = "native" => <<<<fn, 1, 1>>>> \in NativeAts
    BY <1>1, <1>4, StartedAt DEF Typed
  <1>q. QED
    BY <1>1, <1>2, <1>3, <1>4, <1>5 DEF Frame, Frames, Typed, Data

-----------------------------------------------------------------------------
(* Where the innermost frame is. *)

LEMMA Pairs ==
    ASSUME NEW A, NEW B, NEW o \in A \X B
    PROVE  o = <<o[1], o[2]>> /\ o[1] \in A /\ o[2] \in B
  OBVIOUS

LEMMA Kinds ==
    ASSUME NEW o \in Operations
    PROVE  /\ o = <<o[1], o[2]>>
           /\ o[1] \in {"print", "flush"} => o[2] \in Streams
           /\ o[1] = "call" => o[2] \in Functions
           /\ o[1] \in {"python", "pure", "check", "sanitize", "raise", "odd"} => o[2] = ""
  <1>1. CASE o \in {"print", "flush"} \X Streams
    BY <1>1, Pairs
  <1>2. CASE o \in {"call"} \X Functions
    BY <1>2, Pairs
  <1>3. CASE o \in {"python", "pure", "check", "sanitize", "raise", "odd"} \X {""}
    <2> DEFINE kinds == {"python", "pure", "check", "sanitize", "raise", "odd"}
               nothing == {""}
    <2>0. o \in kinds \X nothing
      BY <1>3
    <2> HIDE DEF kinds, nothing
    <2>1. o = <<o[1], o[2]>> /\ o[1] \in kinds /\ o[2] \in nothing
      BY <2>0, Pairs
    <2>q. QED
      BY <2>1 DEF kinds, nothing
  <1>q. QED
    BY <1>1, <1>2, <1>3 DEF Operations

LEMMA StandingAt ==
    ASSUME Ruled, NEW mode, Stands(mode)
    PROVE  /\ Top.mode = mode /\ after = "none" /\ ~raising /\ Top.at \in Spots /\ Top.at # <<>>
           /\ Place = Top.at[Len(Top.at)] /\ Place \in Places
           /\ Place[3] \in DOMAIN Body(Place) /\ Op = Body(Place)[Place[3]] /\ Op \in Operations
           /\ \A O : Op \in O => Top.at \in LastIn(O)
           /\ mode = "native" => Top.at \in NativeAts
           /\ mode = "native" /\ crossed => Top.at \in LateAts
  <1>1. /\ Top.mode = mode /\ after = "none" /\ ~raising /\ Top.at # <<>>
        /\ Place[3] <= Len(Ops(Place[1], Place[2]))
    BY DEF Stands
  <1>2. Top.at \in Spots /\ Top = stack[Len(stack)] /\ Len(stack) \in DOMAIN stack
    BY TopFrame DEF Ruled
  <1>3. Place = Top.at[Len(Top.at)] /\ Place \in Places
    BY <1>1, <1>2 DEF Place, Last, Spots
  <1>4. /\ Body(Place) = Ops(Place[1], Place[2]) /\ Body(Place) \in Seq(Operations)
        /\ Place[3] \in Nat \ {0}
    BY <1>3, Typing DEF Body, Ops, Places, Ruled, Typed
  <1>5. /\ Place[3] \in DOMAIN Body(Place) /\ Op = Body(Place)[Place[3]] /\ Op \in Operations
    BY <1>1, <1>4 DEF Op
  <1>6. \A O : Op \in O => Top.at \in LastIn(O)
    BY <1>1, <1>2, <1>3, <1>5 DEF LastIn, PlacesOf
  <1>7. mode = "native" => Top.at \in NativeAts
    BY <1>1, <1>2 DEF Ruled, Stacked
  <1>8. mode = "native" /\ crossed => Top.at \in LateAts
    BY <1>1 DEF Ruled, PastBarrier
  <1>q. QED
    BY <1>1, <1>2, <1>3, <1>5, <1>6, <1>7, <1>8

LEMMA AtOperation ==
    ASSUME Ruled, NEW mode, AtOp(mode)
    PROVE  /\ Stands(mode)
           /\ Top.mode = mode /\ after = "none" /\ ~raising /\ Top.at \in Spots /\ Top.at # <<>>
           /\ Place = Top.at[Len(Top.at)] /\ Place \in Places
           /\ Place[3] \in DOMAIN Body(Place) /\ Op = Body(Place)[Place[3]] /\ Op \in Operations
           /\ \A O : Op \in O => Top.at \in LastIn(O)
           /\ mode = "native" => Top.at \in NativeAts
           /\ mode = "native" /\ crossed => Top.at \in LateAts
  <1>1. Stands(mode)
    BY DEF AtOp, Runs, Ready, Ruled, Typed, Data, Stands
  <1>q. QED
    BY <1>1, StandingAt

LEMMA AtTheEnd ==
    ASSUME Ruled, NEW mode, AtEnd(mode)
    PROVE  /\ Top.mode = mode /\ after = "none" /\ ~raising /\ Top.at \in Spots /\ Top.at # <<>>
           /\ Place = Top.at[Len(Top.at)] /\ Place \in Places
           /\ mode = "native" => Top.at \in NativeAts
           /\ mode = "native" /\ crossed => Top.at \in LateAts
  <1>1. Top.mode = mode /\ after = "none" /\ ~raising /\ Top.at # <<>>
    BY DEF AtEnd, Runs, Ready, Ruled, Typed, Data
  <1>2. Top.at \in Spots /\ Top = stack[Len(stack)] /\ Len(stack) \in DOMAIN stack
    BY TopFrame DEF Ruled
  <1>3. Place = Top.at[Len(Top.at)] /\ Place \in Places
    BY <1>1, <1>2 DEF Place, Last, Spots
  <1>7. mode = "native" => Top.at \in NativeAts
    BY <1>1, <1>2 DEF Ruled, Stacked
  <1>8. mode = "native" /\ crossed => Top.at \in LateAts
    BY <1>1 DEF Ruled, PastBarrier
  <1>q. QED
    BY <1>1, <1>2, <1>3, <1>7, <1>8

\* A native call that may fall back has crossed nothing.
LEMMA BackUncrossed ==
    ASSUME Ruled, AtOp("native"), Op[1] \in Backs
    PROVE  ~crossed
  <1>1. Op \in Backs \X {""}
    BY AtOperation DEF Operations, Backs
  <1>2. Top.at \in BackAts
    BY <1>1, AtOperation DEF BackAts
  <1>q. QED
    BY <1>2, AtOperation, NothingFallsBack DEF Ruled, Typed

-----------------------------------------------------------------------------
(* The steps of native code keep Ruled. *)

LEMMA AdvanceRuled ==
    ASSUME Ruled, Still, NEW mode, Stands(mode), Advance, Data', ~wrong',
           crossed' = crossed, after' = "none", held' = <<>> \/ mode = "native"
    PROVE  Ruled'
  <1>1. /\ Top \in Frames /\ Top.at # <<>> /\ Top.mode = mode
        /\ mode = "native" => Top.at \in NativeAts /\ (crossed => Top.at \in LateAts)
    BY StandingAt, TopFrame DEF Ruled
  <1> DEFINE moved == [Top EXCEPT !.at = Moved(@)]
  <1>2. /\ moved \in Frames /\ moved.mode = mode
        /\ mode = "native" => moved.at \in NativeAts /\ (crossed => moved.at \in LateAts)
    BY <1>1, MovedFrame DEF Ruled, Typed
  <1>3. stack' = Append(Front(stack), moved)
    BY DEF Advance, Replace, Below
  <1> HIDE DEF moved
  <1>4. stack' \in Seq(Frames) /\ stack' # <<>> /\ Stacked' /\ Top' = moved
    BY <1>1, <1>2, <1>3, SwapStacked DEF Ruled
  <1>q. QED
    BY <1>2, <1>4, TopRuled

LEMMA PrintRuled ==
    ASSUME Ruled, NativePrint
    PROVE  Ruled'
  <1>1. Op[2] \in Streams
    BY AtOperation, Kinds DEF NativePrint
  <1>2. held \in Records /\ printed \in Nat
    BY DEF Ruled, Typed, Data
  <1>3. held' \in Records
    <2>1. CASE held # <<>> /\ Last(held)[1] = Op[2]
      <3>1. Last(held) \in Streams \X Seq(Nat) /\ Front(held) \in Records
        BY <2>1, <1>2 DEF Records, Last, Front
      <3>a. Last(held)[2] \in Seq(Nat)
        BY <3>1
      <3>b. Append(Last(held)[2], printed + 1) \in Seq(Nat)
        BY <3>a, <1>2
      <3>2. <<Op[2], Append(Last(held)[2], printed + 1)>> \in Streams \X Seq(Nat)
        BY <3>b, <1>1
      <3>q. QED
        BY <3>1, <3>2, <2>1 DEF NativePrint, Put, Records
    <2>2. CASE ~(held # <<>> /\ Last(held)[1] = Op[2])
      <3>a. <<printed + 1>> \in Seq(Nat)
        BY <1>2
      <3>1. <<Op[2], <<printed + 1>>>> \in Streams \X Seq(Nat)
        BY <3>a, <1>1
      <3>q. QED
        BY <3>1, <1>2, <2>2 DEF NativePrint, Put, Records
    <2>q. QED
      BY <2>1, <2>2
  <1>4. Still /\ Stands("native") /\ Advance /\ ~wrong' /\ crossed' = crossed /\ after' = "none"
    BY AtOperation DEF NativePrint, Quiet, Still, Ruled
  <1>5. Data'
    BY <1>2, <1>3 DEF NativePrint, Prints, Quiet, Ruled, Typed, Data
  <1>q. QED
    BY <1>4, <1>5, AdvanceRuled

LEMMA PassRuled ==
    ASSUME Ruled, Pass
    PROVE  Ruled'
  <1>1. Still /\ Stands("native") /\ Advance /\ ~wrong' /\ crossed' = crossed /\ after' = "none"
    BY AtOperation DEF Pass, ioVars, Quiet, Still, Ruled
  <1>2. Data'
    BY DEF Pass, ioVars, Quiet, Ruled, Typed, Data
  <1>q. QED
    BY <1>1, <1>2, AdvanceRuled

LEMMA NativeCallRuled ==
    ASSUME Ruled, NativeCall
    PROVE  Ruled'
  <1> DEFINE g == Op[2]
             frame == [Top EXCEPT !.at = Append(@, <<g, 1, 1>>)]
  <1>1. /\ Top \in Frames /\ Top.mode = "native" /\ Top.at \in NativeAts /\ Top.at \in Spots
        /\ Top.at # <<>> /\ (crossed => Top.at \in LateAts)
        /\ Place = Top.at[Len(Top.at)] /\ Place \in Places /\ after = "none"
        /\ Place[3] \in DOMAIN Body(Place) /\ Op = Body(Place)[Place[3]] /\ Op \in Operations
    BY AtOperation, TopFrame DEF Ruled, NativeCall
  <1>2. g \in Functions /\ Op = <<"call", g>>
    BY <1>1, Kinds DEF NativeCall
  <1>3. Top.at[Len(Top.at)] \in CallPlaces[g]
    BY <1>1, <1>2 DEF CallPlaces, PlacesOf
  <1>4. Place[1] \in native
    BY <1>1 DEF NativeAts, Spots
  <1>5. g \in native
    BY <1>1, <1>2, <1>3, <1>4, CallPlace, NativeCalls DEF Ruled, Typed
  <1>6. /\ Append(Top.at, <<g, 1, 1>>) \in NativeAts
        /\ crossed => Append(Top.at, <<g, 1, 1>>) \in LateAts
    BY <1>1, <1>2, <1>3, <1>5, CalledAt DEF Ruled, Typed
  <1>7. frame \in Frames /\ frame.mode = "native" /\ frame.at = Append(Top.at, <<g, 1, 1>>)
    BY <1>1, <1>6 DEF Frames, NativeAts
  <1>8. stack' = Append(Front(stack), frame) /\ Still /\ ~wrong' /\ crossed' = crossed
        /\ after' = "none"
    BY <1>1 DEF NativeCall, Replace, Below, Still, Quiet, ioVars, Ruled
  <1> HIDE DEF frame, g
  <1>9. stack' \in Seq(Frames) /\ stack' # <<>> /\ Stacked' /\ Top' = frame
    BY <1>1, <1>6, <1>7, <1>8, SwapStacked DEF Ruled
  <1>10. Data'
    BY DEF NativeCall, ioVars, Quiet, Ruled, Typed, Data
  <1>q. QED
    BY <1>6, <1>7, <1>8, <1>9, <1>10, TopRuled

LEMMA NativeReturnRuled ==
    ASSUME Ruled, NativeReturn
    PROVE  Ruled'
  <1> DEFINE outer == Front(Top.at)
             frame == [Top EXCEPT !.at = Moved(Front(@))]
  <1>1. /\ Top \in Frames /\ Top.mode = "native" /\ Top.at \in NativeAts
        /\ crossed => Top.at \in LateAts
        /\ after = "none" /\ Len(Top.at) > 1
    BY AtTheEnd, TopFrame DEF Ruled, NativeReturn
  <1>2. outer \in NativeAts /\ (crossed => outer \in LateAts \cup StalledAts)
    BY <1>1, PoppedAt DEF Ruled, Typed
  <1>3. Moved(outer) \in NativeAts /\ (crossed => Moved(outer) \in LateAts)
    BY <1>2, MovedOn DEF Ruled, Typed
  <1>4. frame \in Frames /\ frame.mode = "native" /\ frame.at = Moved(outer)
    BY <1>1, <1>3 DEF Frames, NativeAts
  <1>5. stack' = Append(Front(stack), frame) /\ Still /\ ~wrong' /\ crossed' = crossed
        /\ after' = "none"
    BY <1>1 DEF NativeReturn, Replace, Below, Still, Quiet, ioVars, Ruled
  <1> HIDE DEF frame
  <1>6. stack' \in Seq(Frames) /\ stack' # <<>> /\ Stacked' /\ Top' = frame
    BY <1>1, <1>3, <1>4, <1>5, SwapStacked DEF Ruled
  <1>7. Data'
    BY DEF NativeReturn, ioVars, Quiet, Ruled, Typed, Data
  <1>q. QED
    BY <1>3, <1>4, <1>5, <1>6, <1>7, TopRuled

LEMMA BranchRuled ==
    ASSUME Ruled, Branch
    PROVE  Ruled'
  <1>1. PICK c \in program.next[Place[1]][Place[2]] :
            Replace([Top EXCEPT !.at = Append(Front(@), <<Place[1], c, 1>>)])
    BY DEF Branch
  <1> DEFINE frame == [Top EXCEPT !.at = Append(Front(@), <<Place[1], c, 1>>)]
  <1>2. /\ Top \in Frames /\ Top.at \in Spots /\ Top.at # <<>> /\ after = "none"
        /\ Place = Top.at[Len(Top.at)] /\ Place \in Places /\ Top.mode \in {"native", "python"}
        /\ Top.mode = "native" => Top.at \in NativeAts /\ (crossed => Top.at \in LateAts)
    BY AtTheEnd, TopFrame DEF Ruled, Branch
  <1>3. <<Place[1], c, 1>> \in Places
    BY <1>2, Typing DEF Places, Ruled, Typed
  <1>4. Append(Front(Top.at), <<Place[1], c, 1>>) \in Spots
    BY <1>2, <1>3, Replaced DEF Spots
  <1>5. frame \in Frames /\ frame.mode = Top.mode
        /\ frame.at = Append(Front(Top.at), <<Place[1], c, 1>>)
    BY <1>2, <1>4 DEF Frames
  <1>6. Top.mode = "native" => frame.at \in NativeAts /\ (crossed => frame.at \in LateAts)
    BY <1>2, <1>5, BranchedAt DEF Ruled, Typed, Place
  <1>7. stack' = Append(Front(stack), frame) /\ Still /\ ~wrong' /\ crossed' = crossed
        /\ after' = "none" /\ held' = held
    BY <1>1, <1>2 DEF Branch, Replace, Below, Still, Quiet, ioVars, Ruled
  <1> HIDE DEF frame
  <1>8. stack' \in Seq(Frames) /\ stack' # <<>> /\ Stacked' /\ Top' = frame
    BY <1>2, <1>5, <1>6, <1>7, SwapStacked DEF Ruled
  <1>9. Data'
    BY DEF Branch, ioVars, Quiet, Ruled, Typed, Data
  <1>10. frame.mode = "python" => held' = <<>>
    BY <1>5, <1>7 DEF Ruled, HeldByNative
  <1>q. QED
    BY <1>2, <1>5, <1>6, <1>7, <1>8, <1>9, <1>10, TopRuled

LEMMA ReachBarrierRuled ==
    ASSUME Ruled, ReachBarrier
    PROVE  Ruled'
  <1>1. /\ Top.mode = "native" /\ after = "none" /\ ~raising /\ Op \in Operations
        /\ \A O : Op \in O => Top.at \in LastIn(O)
    BY AtOperation DEF ReachBarrier
  <1>2. /\ Op[1] = "python" => Op \in {<<"python", "">>}
        /\ Op[1] = "flush" => Op \in {"flush"} \X Streams
        /\ Op \in Crossing
    <2>1. Op = <<Op[1], Op[2]>> /\ Op[1] \in {"python", "flush"}
          /\ (Op[1] = "python" => Op[2] = "") /\ (Op[1] = "flush" => Op[2] \in Streams)
      BY <1>1, Kinds DEF ReachBarrier, Barriers
    <2>q. QED
      BY <2>1 DEF Crossing
  <1>3. /\ Op[1] = "python" => Top.at \in PythonAts
        /\ Op[1] = "flush" => Top.at \in FlushAts
        /\ Top.at \in StalledAts
    BY <1>1, <1>2 DEF PythonAts, FlushAts, StalledAts
  <1>4. /\ Still /\ ~wrong' /\ stack' = stack /\ Top' = Top /\ after' = Op[1]
        /\ Op[1] \in {"python", "flush"} /\ crossed' = TRUE /\ raising' = raising /\ held' = <<>>
    BY DEF ReachBarrier, CallPython, Commit, Barriers, Quiet, Still, Ruled, Top
  <1>5. Data'
    BY <1>4 DEF ReachBarrier, CallPython, Commit, Quiet, Ruled, Typed, Data, Records
  <1>6. Stacked'
    BY <1>4, RuleStays DEF Still, Ruled, Stacked
  <1>q. QED
    BY <1>1, <1>3, <1>4, <1>5, <1>6, TopRuled DEF Ruled, Typed

\* Who calls Python stands at a barrier.
LEMMA PythonStalls == PythonAts \subseteq StalledAts /\ FlushAts \subseteq StalledAts
  <1>1. <<"python", "">> \in Crossing /\ {"flush"} \X Streams \subseteq Crossing
    BY DEF Crossing
  <1>q. QED
    BY <1>1 DEF PythonAts, FlushAts, StalledAts, LastIn, PlacesOf

LEMMA NativeAbove ==
    ASSUME Ruled, Top.mode = "native"
    PROVE  Len(stack) > 1
  BY TopFrame DEF Ruled, Stacked

\* An exception leaves the innermost frame.
LEMMA PopRaises ==
    ASSUME Ruled, Still, Len(stack) > 1, stack' = Below, Data', ~wrong', after' = "none",
           raising', held' = <<>>
    PROVE  Ruled'
  <1>1. /\ stack' \in Seq(Frames) /\ stack' # <<>> /\ Stacked'
        /\ Top'.mode = "native" => Top'.at \in PythonAts
    BY PopStacked DEF Ruled, Below
  <1>q. QED
    BY <1>1, PythonStalls, TopRuled

\* The innermost frame gives its caller the answer.
LEMMA ReturnStacked ==
    ASSUME Typed, Stacked, Still, Len(stack) > 1, stack' = Returned
    PROVE  /\ stack' \in Seq(Frames) /\ stack' # <<>> /\ Stacked' /\ Len(stack') = Len(stack) - 1
           /\ Top' \in Frames
           /\ Top'.mode = "native" => Top'.at \in LateAts
           /\ \A i \in DOMAIN stack : i < Len(stack) =>
                /\ stack'[i].mode = stack[i].mode /\ stack'[i].outer = stack[i].outer
                /\ stack'[i].touched = stack[i].touched
  <1> DEFINE caller == stack[Len(stack) - 1]
             moved == [caller EXCEPT !.at = Moved(@)]
  <1>1. /\ Below \in Seq(Frames) /\ Below # <<>> /\ Len(Below) = Len(stack) - 1
        /\ DOMAIN Below = 1 .. Len(stack) - 1 /\ Last(Below) = caller
        /\ \A i \in DOMAIN Below : Below[i] = stack[i] /\ i \in DOMAIN stack /\ i < Len(stack)
    BY Popped DEF Typed, Below
  <1>2. Len(stack) \in Nat /\ DOMAIN stack = 1 .. Len(stack)
    BY TopFrame
  <1>3. /\ caller \in Frames /\ caller.at \in Spots
        /\ caller.mode = "native" => caller.at \in NativeAts /\ caller.at \in StalledAts
    <2>1. /\ Len(stack) - 1 \in DOMAIN Below /\ Len(stack) - 1 \in DOMAIN stack
          /\ caller = Below[Len(stack) - 1]
      BY <1>1, <1>2
    <2>2. caller \in Frames
      BY <2>1, <1>1
    <2>3. caller.mode = "native" => caller.at \in NativeAts /\ caller.at \in PythonAts
      BY <2>1, <1>2 DEF Stacked
    <2>q. QED
      BY <2>2, <2>3, PythonStalls DEF Frames
  <1> HIDE DEF caller
  <1>4. CASE caller.at = <<>>
    <2>1. stack' = Front(stack)
      BY <1>1, <1>4 DEF Returned, Below
    <2>2. /\ stack' \in Seq(Frames) /\ stack' # <<>> /\ Stacked' /\ Top' = caller
          /\ Len(stack') = Len(stack) - 1
          /\ \A i \in DOMAIN stack : i < Len(stack) => stack'[i] = stack[i]
      BY <2>1, PopStacked DEF caller
    <2>3. caller.mode # "native"
      BY <1>3, <1>4 DEF NativeAts
    <2>q. QED
      BY <2>2, <2>3, <1>3
  <1>5. CASE caller.at # <<>>
    <2>1. /\ moved \in Frames /\ moved.mode = caller.mode /\ moved.outer = caller.outer
          /\ moved.touched = caller.touched
          /\ moved.mode = "native" => moved.at \in NativeAts /\ moved.at \in LateAts
      BY <1>3, <1>5, MovedFrame DEF Typed
    <2> HIDE DEF moved
    <2>2. stack' = Append(Front(Below), moved)
      BY <1>1, <1>5 DEF Returned, moved
    <2>a. /\ stack' \in Seq(Frames) /\ stack' # <<>> /\ Len(stack') = Len(Below)
          /\ DOMAIN stack' = DOMAIN Below /\ Last(stack') = moved /\ stack'[Len(Below)] = moved
          /\ \A i \in DOMAIN Below : i < Len(Below) => stack'[i] = Below[i]
      <3>1. Below \in Seq(Frames) /\ Below # <<>> /\ moved \in Frames
        BY <1>1, <2>1
      <3>q. QED
        BY <3>1, <2>2, Replaced
    <2>3. /\ stack' \in Seq(Frames) /\ stack' # <<>> /\ Len(stack') = Len(stack) - 1
          /\ DOMAIN stack' = 1 .. Len(stack) - 1 /\ Last(stack') = moved
          /\ stack'[Len(stack) - 1] = moved
          /\ \A i \in 1 .. Len(stack) - 1 : i # Len(stack) - 1 => stack'[i] = stack[i]
      BY <1>1, <1>2, <2>a
    <2>4. NativeAts' = NativeAts /\ PythonAts' = PythonAts
      BY RuleStays DEF Still
    <2>b. \A i \in 1 .. Len(stack) - 1 : i = Len(stack) - 1 \/ stack'[i] = stack[i]
      BY <2>3
    <2>c. Len(stack) - 1 \in 1 .. Len(stack) - 1
      BY <1>2
    <2>5. ASSUME NEW i \in DOMAIN stack, i < Len(stack)
          PROVE  /\ stack'[i].mode = stack[i].mode /\ stack'[i].outer = stack[i].outer
                 /\ stack'[i].touched = stack[i].touched
      <3>1. i \in 1 .. Len(stack) - 1
        BY <1>2, <2>5
      <3>2. CASE i = Len(stack) - 1
        BY <3>2, <2>1, <2>3 DEF caller
      <3>3. CASE stack'[i] = stack[i]
        BY <3>3
      <3>q. QED
        BY <3>1, <3>2, <3>3, <2>b
    <2>6. stack'[1].mode = "python"
      BY <1>2, <2>5 DEF Stacked
    <2>7. ASSUME NEW i \in DOMAIN stack', stack'[i].mode = "native"
          PROVE  stack'[i].at \in NativeAts /\ (i < Len(stack') => stack'[i].at \in PythonAts)
      <3>a. Len(stack') = Len(stack) - 1 /\ DOMAIN stack' = 1 .. Len(stack) - 1
        BY <2>3
      <3>b. i \in 1 .. Len(stack) - 1
        BY <3>a, <2>7
      <3>0. i \in 1 .. Len(stack) - 1 /\ i \in DOMAIN stack /\ i < Len(stack)
        BY <1>2, <3>b
      <3>1. CASE i = Len(stack) - 1
        <4>1. stack'[i] = moved
          BY <3>1, <2>3
        <4>2. ~(i < Len(stack'))
          BY <3>1, <1>2, <3>a
        <4>q. QED
          BY <4>1, <4>2, <2>1, <2>7
      <3>2. CASE stack'[i] = stack[i]
        BY <3>0, <3>2, <2>7 DEF Stacked
      <3>q. QED
        BY <3>0, <3>1, <3>2, <2>b
    <2>8. Stacked'
      BY <2>3, <2>4, <2>6, <2>7 DEF Stacked
    <2>q. QED
      BY <2>1, <2>3, <2>5, <2>8 DEF Top
  <1>q. QED
    BY <1>4, <1>5

LEMMA ReturnRuled ==
    ASSUME Ruled, Still, Len(stack) > 1, stack' = Returned, Data', ~wrong', after' = "none",
           held' = <<>>
    PROVE  Ruled'
  <1>1. /\ stack' \in Seq(Frames) /\ stack' # <<>> /\ Stacked'
        /\ Top'.mode = "native" => Top'.at \in LateAts
    BY ReturnStacked DEF Ruled
  <1>q. QED
    BY <1>1, TopRuled

\* A native call falls back.
LEMMA FallBackRuled ==
    ASSUME Ruled, Still, Top.mode = "native", FallBack, ~wrong', after' = "none",
           raising' \in BOOLEAN, writing' = writing, out' = out
    PROVE  Ruled'
  <1> DEFINE frame == [Frame(Top.fn, "python", FALSE) EXCEPT !.first = Top.first]
  <1>1. Top \in Frames
    BY TopFrame DEF Ruled
  <1>2. Top.fn \in Names /\ Top.outer \in BOOLEAN /\ Top.first \in Nat
    BY <1>1 DEF Frames
  <1>3. Frame(Top.fn, "python", FALSE) \in Frames /\ Frame(Top.fn, "python", FALSE).mode = "python"
    BY <1>2, NewFrame DEF Ruled
  <1>4. frame \in Frames /\ frame.mode = "python"
    BY <1>2, <1>3 DEF Frames
  <1>5. stack' = Append(Front(stack), frame) /\ held' = <<>> /\ crossed' = Top.outer
        /\ printed' = Top.first
    BY DEF FallBack, Leave, Replace, Below
  <1> HIDE DEF frame
  <1>6. stack' \in Seq(Frames) /\ stack' # <<>> /\ Stacked' /\ Top' = frame
    BY <1>4, <1>5, SwapStacked DEF Ruled
  <1>7. Data'
    BY <1>2, <1>5 DEF Ruled, Typed, Data, Records
  <1>q. QED
    BY <1>4, <1>5, <1>6, <1>7, TopRuled

LEMMA EnterPythonRuled ==
    ASSUME Ruled, EnterPython
    PROVE  Ruled'
  <1> DEFINE caller == Touch(Top)
             middle == Append(Below, caller)
             frame == Frame("", "python", FALSE)
  <1>1. Top.mode = "native" /\ Top.at \in PythonAts /\ held = <<>> /\ ~raising
    BY DEF EnterPython, Ruled, Writing, HeldByNative
  <1>2. /\ Top \in Frames /\ Len(stack) \in Nat \ {0} /\ DOMAIN stack = 1 .. Len(stack)
        /\ Top.at \in NativeAts
    BY <1>1, TopFrame DEF Ruled, Stacked
  <1>3. caller \in Frames /\ caller.mode = "native" /\ caller.at = Top.at
    BY <1>1, <1>2, TouchedFrame
  <1>4. "" \in Names
    BY DEF Names
  <1>5. frame \in Frames /\ frame.mode = "python"
    BY <1>4, NewFrame DEF Ruled
  <1> HIDE DEF caller, frame
  <1>6. /\ middle \in Seq(Frames) /\ Len(middle) = Len(stack) /\ middle[Len(stack)] = caller
        /\ \A i \in DOMAIN stack : i < Len(stack) => middle[i] = stack[i]
    BY <1>3, Replaced DEF Ruled, Typed, Below
  <1>7. stack' = Append(middle, frame)
    BY DEF EnterPython, caller, frame
  <1> HIDE DEF middle
  <1>8. /\ stack' \in Seq(Frames) /\ stack' # <<>> /\ Len(stack') = Len(stack) + 1
        /\ DOMAIN stack' = 1 .. Len(stack) + 1 /\ Last(stack') = frame
        /\ stack'[Len(stack) + 1] = frame /\ stack'[Len(stack)] = caller
        /\ \A i \in DOMAIN stack : i < Len(stack) => stack'[i] = stack[i]
    <2>1. /\ stack' \in Seq(Frames) /\ stack' # <<>> /\ Len(stack') = Len(middle) + 1
          /\ DOMAIN stack' = 1 .. Len(middle) + 1 /\ Last(stack') = frame
          /\ stack'[Len(middle) + 1] = frame /\ \A i \in DOMAIN middle : stack'[i] = middle[i]
      BY <1>5, <1>6, <1>7, Pushed
    <2>2. DOMAIN middle = DOMAIN stack
      BY <1>2, <1>6
    <2>q. QED
      BY <2>1, <2>2, <1>2, <1>6
  <1>9. Still /\ ~wrong' /\ after' = "none" /\ held' = <<>>
    BY <1>1 DEF EnterPython, Still, Quiet, Ruled
  <1>10. NativeAts' = NativeAts /\ PythonAts' = PythonAts
    BY <1>9, RuleStays DEF Still
  <1>11. stack'[1].mode = "python"
    BY <1>1, <1>2, <1>8, NativeAbove DEF Ruled, Stacked
  <1>12. ASSUME NEW i \in DOMAIN stack', stack'[i].mode = "native"
         PROVE  stack'[i].at \in NativeAts /\ (i < Len(stack') => stack'[i].at \in PythonAts)
    BY <1>1, <1>2, <1>3, <1>5, <1>8, <1>12 DEF Ruled, Stacked
  <1>13. Stacked' /\ Top' = frame
    BY <1>8, <1>10, <1>11, <1>12 DEF Stacked, Top
  <1>14. Data'
    BY <1>9 DEF EnterPython, Quiet, Ruled, Typed, Data
  <1>q. QED
    BY <1>5, <1>8, <1>9, <1>13, <1>14, TopRuled

LEMMA FlushRuled ==
    ASSUME Ruled, Flush
    PROVE  Ruled'
  <1> DEFINE touched == Touch(Top)
             frame == [touched EXCEPT !.at = Moved(@)]
  <1>1. Top.mode = "native" /\ Top.at \in FlushAts /\ held = <<>> /\ ~raising
    BY DEF Flush, Ruled, Writing, HeldByNative
  <1>2. Top \in Frames /\ Top.at \in NativeAts /\ Top.at # <<>> /\ Top.at \in StalledAts
    BY <1>1, TopFrame, PythonStalls DEF Ruled, Stacked, NativeAts
  <1>3. touched \in Frames /\ touched.mode = "native" /\ touched.at = Top.at
    BY <1>1, <1>2, TouchedFrame
  <1> HIDE DEF touched
  <1>4. frame \in Frames /\ frame.mode = "native" /\ frame.at \in NativeAts /\ frame.at \in LateAts
    BY <1>2, <1>3, MovedFrame DEF Ruled, Typed
  <1>5. stack' = Append(Front(stack), frame) /\ Still /\ ~wrong' /\ after' = "none" /\ held' = <<>>
    BY <1>1 DEF Flush, Below, Still, Quiet, Ruled, touched
  <1> HIDE DEF frame
  <1>6. stack' \in Seq(Frames) /\ stack' # <<>> /\ Stacked' /\ Top' = frame
    BY <1>1, <1>4, <1>5, SwapStacked DEF Ruled
  <1>7. Data'
    BY <1>5 DEF Flush, Quiet, Ruled, Typed, Data
  <1>q. QED
    BY <1>4, <1>5, <1>6, <1>7, TopRuled

\* The innermost frame is seen, and is where it was.
LEMMA TouchRuled ==
    ASSUME Ruled, Still, Top.mode = "native", stack' = Append(Below, Touch(Top)), Data', ~wrong',
           held' = <<>>, Top.at \in StalledAts, after' # "none" => ~raising',
           after' = "none" => raising', after' \in {"none", after}, crossed' = crossed
    PROVE  Ruled'
  <1> DEFINE frame == Touch(Top)
  <1>1. Top \in Frames /\ Top.at \in NativeAts
    BY TopFrame DEF Ruled, Stacked
  <1>2. frame \in Frames /\ frame.mode = "native" /\ frame.at = Top.at
    BY <1>1, TouchedFrame
  <1>3. stack' = Append(Front(stack), frame)
    BY DEF Below
  <1> HIDE DEF frame
  <1>4. stack' \in Seq(Frames) /\ stack' # <<>> /\ Stacked' /\ Top' = frame
    BY <1>1, <1>2, <1>3, SwapStacked DEF Ruled
  <1>5. /\ after' = "python" => crossed' /\ Top'.at \in PythonAts
        /\ after' = "flush" => crossed' /\ Top'.at \in FlushAts
    BY <1>2, <1>4 DEF Ruled, Writing
  <1>6. raising' \/ after' # "none"
    OBVIOUS
  <1>q. QED
    BY <1>2, <1>4, <1>5, <1>6, TopRuled

LEMMA AfterStalled ==
    ASSUME Ruled, after \in {"python", "flush"}
    PROVE  Top.mode = "native" /\ Top.at \in StalledAts /\ crossed /\ held = <<>> /\ ~raising
  BY PythonStalls DEF Ruled, Writing, HeldByNative

LEMMA FlushRaisesRuled ==
    ASSUME Ruled, FlushRaises
    PROVE  Ruled'
  <1>1. Top.mode = "native" /\ Top.at \in StalledAts /\ held = <<>>
    BY AfterStalled DEF FlushRaises
  <1>2. /\ Still /\ ~wrong' /\ after' = "none" /\ held' = <<>> /\ raising' /\ crossed' = crossed
        /\ stack' = Append(Below, Touch(Top))
    BY <1>1 DEF FlushRaises, Still, Ruled
  <1>3. Data'
    BY <1>2 DEF FlushRaises, Ruled, Typed, Data
  <1>q. QED
    BY <1>1, <1>2, <1>3, TouchRuled

\* Exceptions: raised, caught, and on their way out of a native function.

LEMMA RaiseRuled ==
    ASSUME Ruled, Raise
    PROVE  Ruled'
  <1>1. AtOp(Top.mode)
    BY DEF Raise
  <1>2. /\ after = "none" /\ Op \in Operations
        /\ Top.mode = "native" /\ crossed => Top.at \in LateAts
        /\ Top.mode = "native" /\ Op[1] = "odd" => ~crossed
    BY <1>1, AtOperation, BackUncrossed DEF Backs
  <1>3. /\ Still /\ stack' = stack /\ Top' = Top /\ after' = "none" /\ held' = held
        /\ crossed' = crossed /\ raising' = TRUE
    BY <1>2 DEF Raise, ioVars, Still, Top
  <1>4. ~wrong'
    BY <1>2 DEF Raise, Ruled
  <1>5. Data'
    BY DEF Raise, ioVars, Ruled, Typed, Data
  <1>6. Stacked'
    BY <1>3, RuleStays DEF Still, Ruled, Stacked
  <1>q. QED
    BY <1>2, <1>3, <1>4, <1>5, <1>6, TopRuled DEF Ruled, Typed, HeldByNative

LEMMA CatchRuled ==
    ASSUME Ruled, Catch
    PROVE  Ruled'
  <1> DEFINE moved == [Top EXCEPT !.at = Moved(@)]
  <1>1. /\ Still /\ ~wrong' /\ after' = "none" /\ after = "none" /\ raising /\ ~raising'
        /\ held' = held /\ crossed' = crossed
    BY DEF Catch, Quiet, ioVars, Still, Ruled
  <1>2. Data'
    BY DEF Catch, Quiet, ioVars, Ruled, Typed, Data
  <1>3. /\ Top \in Frames /\ Top = stack[Len(stack)] /\ Len(stack) \in DOMAIN stack
        /\ Top.mode = "native" => Top.at \in NativeAts
    BY TopFrame DEF Ruled, Stacked
  <1>4. Top.mode = "native" /\ crossed => Top.at \in LateAts \cup StalledAts
    BY <1>1 DEF Ruled, PastBarrier
  <1>5. Top.mode = "python" => held = <<>>
    BY DEF Ruled, HeldByNative
  <1>6. CASE Top.at = <<>>
    <2>1. stack' = stack /\ Top' = Top
      BY <1>6 DEF Catch, Top
    <2>2. Top.mode # "native"
      BY <1>3, <1>6 DEF NativeAts
    <2>3. Stacked'
      BY <1>1, <2>1, RuleStays DEF Still, Ruled, Stacked
    <2>q. QED
      BY <1>1, <1>2, <1>5, <2>1, <2>2, <2>3, TopRuled DEF Ruled, Typed
  <1>7. CASE Top.at # <<>>
    <2>1. /\ moved \in Frames /\ moved.mode = Top.mode
          /\ moved.mode = "native" =>
                moved.at \in NativeAts /\ (crossed => moved.at \in LateAts)
      BY <1>3, <1>4, <1>7, MovedFrame DEF Ruled, Typed
    <2>2. stack' = Append(Front(stack), moved)
      BY <1>7 DEF Catch, Below
    <2> HIDE DEF moved
    <2>3. stack' \in Seq(Frames) /\ stack' # <<>> /\ Stacked' /\ Top' = moved
      BY <1>1, <2>1, <2>2, SwapStacked DEF Ruled
    <2>q. QED
      BY <1>1, <1>2, <1>5, <2>1, <2>3, TopRuled
  <1>q. QED
    BY <1>6, <1>7

LEMMA UnwindRuled ==
    ASSUME Ruled, Unwind
    PROVE  Ruled'
  <1> DEFINE frame == [Top EXCEPT !.at = Front(@)]
  <1>1. /\ Still /\ ~wrong' /\ after' = "none" /\ after = "none" /\ raising /\ raising'
        /\ held' = held /\ crossed' = crossed /\ Len(Top.at) > 1
        /\ stack' = Append(Front(stack), frame)
    BY DEF Unwind, Quiet, ioVars, Still, Ruled, Replace, Below
  <1>2. Data'
    BY DEF Unwind, Quiet, ioVars, Ruled, Typed, Data
  <1>3. /\ Top \in Frames /\ Top.at \in Spots
        /\ Top.mode = "native" => Top.at \in NativeAts
    BY TopFrame DEF Ruled, Stacked
  <1>4. Top.mode = "native" /\ crossed => Top.at \in LateAts \cup StalledAts
    BY <1>1 DEF Ruled, PastBarrier
  <1>5. Front(Top.at) \in Spots
    BY <1>1, <1>3, Popped DEF Spots
  <1>6. frame \in Frames /\ frame.mode = Top.mode /\ frame.at = Front(Top.at)
    BY <1>3, <1>5 DEF Frames
  <1>7. Top.mode = "native" =>
            frame.at \in NativeAts /\ (crossed => frame.at \in LateAts \cup StalledAts)
    BY <1>1, <1>3, <1>4, <1>6, PoppedAt DEF Ruled, Typed
  <1> HIDE DEF frame
  <1>8. stack' \in Seq(Frames) /\ stack' # <<>> /\ Stacked' /\ Top' = frame
    BY <1>1, <1>6, <1>7, SwapStacked DEF Ruled
  <1>9. frame.mode = "python" => held' = <<>>
    BY <1>1, <1>6 DEF Ruled, HeldByNative
  <1>q. QED
    BY <1>1, <1>2, <1>6, <1>7, <1>8, <1>9, TopRuled

\* The ends of a native call.

\* It ends with output still to write.
LEMMA EndRuled ==
    ASSUME Ruled, Still, Top.mode = "native", stack' = stack, Leave,
           NEW then \in {"answer", "raise"}, Commit(then), ~wrong', ~raising',
           raising' \in BOOLEAN, printed' = printed
    PROVE  Ruled'
  <1>1. Top \in Frames /\ Top.outer \in BOOLEAN
    BY TopFrame DEF Ruled, Frames
  <1>2. Top' = Top /\ after' = then /\ held' = <<>> /\ writing' = held /\ out' = out
        /\ crossed' = Top.outer
    BY DEF Top, Commit, Leave
  <1>3. Data'
    BY <1>1, <1>2 DEF Ruled, Typed, Data, Records
  <1>4. Stacked'
    BY RuleStays DEF Still, Ruled, Stacked
  <1>q. QED
    BY <1>2, <1>3, <1>4, TopRuled DEF Ruled, Typed

LEMMA AnswerRuled ==
    ASSUME Ruled, Answer
    PROVE  Ruled'
  <1>1. Top.mode = "native" /\ ~raising
    BY AtTheEnd DEF Answer
  <1>2. /\ Still /\ stack' = stack /\ Leave /\ Commit("answer") /\ ~wrong' /\ raising' = raising
        /\ raising \in BOOLEAN /\ printed' = printed
    BY DEF Answer, Quiet, Still, Ruled, Typed, Data
  <1>q. QED
    BY <1>1, <1>2, EndRuled

LEMMA CheckFailsRuled ==
    ASSUME Ruled, CheckFails
    PROVE  Ruled'
  <1>1. /\ AtOp("native") /\ Op[1] = "check" /\ Still /\ writing' = writing /\ after' = after
        /\ out' = out
    BY DEF CheckFails, Still
  <1>2. Top.mode = "native" /\ after = "none" /\ ~crossed
    BY <1>1, AtOperation, BackUncrossed DEF Backs
  <1>3. FallBack /\ ~wrong' /\ raising' \in BOOLEAN
    BY <1>2 DEF CheckFails, Ruled, Typed, Data
  <1>q. QED
    BY <1>1, <1>2, <1>3, FallBackRuled

LEMMA LeavesRuled ==
    ASSUME Ruled, Leaves
    PROVE  Ruled'
  <1>1. Top.mode = "native" /\ after = "none" /\ raising' = FALSE /\ Still /\ ~wrong'
    BY DEF Leaves, Quiet, Still, Ruled
  <1>2. CASE ~crossed
    <2>1. FallBack /\ writing' = writing /\ after' = "none" /\ out' = out
      BY <1>1, <1>2 DEF Leaves
    <2>q. QED
      BY <1>1, <2>1, FallBackRuled
  <1>3. CASE crossed
    <2>1. Leave /\ Commit("raise") /\ stack' = stack /\ printed' = printed
      BY <1>3 DEF Leaves
    <2>q. QED
      BY <1>1, <2>1, EndRuled
  <1>q. QED
    BY <1>2, <1>3

LEMMA AbandonRuled ==
    ASSUME Ruled, Abandon
    PROVE  Ruled'
  <1>1. /\ Top.mode = "native" /\ Top \in Frames /\ after = "none"
    BY AtOperation, TopFrame DEF Abandon, Ruled
  <1>2. /\ Still /\ stack' = Below /\ ~wrong' /\ after' = "none" /\ raising' /\ held' = <<>>
        /\ crossed' = Top.outer /\ printed' = Len(out) /\ writing' = writing /\ out' = out
        /\ raising' = TRUE
    BY <1>1 DEF Abandon, Leave, Quiet, Still, Ruled
  <1>3. Top.outer \in BOOLEAN
    BY <1>1 DEF Frames
  <1>4. Data'
    BY <1>2, <1>3 DEF Ruled, Typed, Data, Records
  <1>q. QED
    BY <1>1, <1>2, <1>4, NativeAbove, PopRaises

LEMMA WriteRuled ==
    ASSUME Ruled, Write
    PROVE  Ruled'
  <1>1. /\ Still /\ ~wrong' /\ after' = after /\ raising' = raising /\ held' = held
        /\ crossed' = crossed /\ printed' = printed /\ after # "none" /\ writing # <<>>
        /\ writing' = Tail(writing) /\ out' = out \o Head(writing)[2]
    BY DEF Write, Still, Ruled
  <1>2. Top.mode = "native" /\ ~raising /\ held = <<>>
    BY <1>1 DEF Ruled, Writing, HeldByNative
  <1>3. Data'
    <2>1. writing \in Records /\ out \in Seq(Nat)
      BY DEF Ruled, Typed, Data
    <2>2. Tail(writing) \in Records /\ Head(writing) \in Streams \X Seq(Nat)
      BY <1>1, <2>1 DEF Records
    <2>3. out \o Head(writing)[2] \in Seq(Nat)
      BY <2>1, <2>2
    <2>q. QED
      BY <1>1, <2>2, <2>3 DEF Ruled, Typed, Data
  <1>4. CASE after \in {"python", "flush"}
    <2>1. Top.at \in StalledAts /\ stack' = Append(Below, Touch(Top))
      BY <1>4, AfterStalled DEF Write
    <2>q. QED
      BY <1>1, <1>2, <1>3, <2>1, TouchRuled
  <1>5. CASE after \notin {"python", "flush"}
    <2>1. stack' = stack /\ Top' = Top /\ after \in {"answer", "raise"}
      BY <1>1, <1>5 DEF Write, Top, Ruled, Typed, Data
    <2>2. Stacked'
      BY <1>1, <2>1, RuleStays DEF Still, Ruled, Stacked
    <2>q. QED
      BY <1>1, <1>2, <1>3, <2>1, <2>2, TopRuled DEF Ruled, Typed
  <1>q. QED
    BY <1>4, <1>5

LEMMA WriteRaisesRuled ==
    ASSUME Ruled, WriteRaises
    PROVE  Ruled'
  <1>1. /\ Still /\ ~wrong' /\ after' = "none" /\ raising' = TRUE /\ held' = held
        /\ crossed' = crossed /\ printed' = Len(out) /\ after # "none" /\ writing' = <<>>
        /\ out' = out
    BY DEF WriteRaises, Still, Ruled
  <1>2. Top.mode = "native" /\ ~raising /\ held = <<>>
    BY <1>1 DEF Ruled, Writing, HeldByNative
  <1>3. Data'
    BY <1>1 DEF Ruled, Typed, Data, Records
  <1>4. CASE after \in {"python", "flush"}
    <2>1. Top.at \in StalledAts /\ stack' = stack /\ Top' = Top
      BY <1>4, AfterStalled DEF WriteRaises, Top
    <2>2. Stacked'
      BY <1>1, <2>1, RuleStays DEF Still, Ruled, Stacked
    <2>q. QED
      BY <1>1, <1>2, <1>3, <2>1, <2>2, TopRuled DEF Ruled, Typed
  <1>5. CASE after \notin {"python", "flush"}
    <2>1. stack' = Below
      BY <1>5 DEF WriteRaises
    <2>q. QED
      BY <1>1, <1>2, <1>3, <2>1, NativeAbove, PopRaises
  <1>q. QED
    BY <1>4, <1>5

LEMMA DoneRuled ==
    ASSUME Ruled, Done
    PROVE  Ruled'
  <1>1. /\ Still /\ ~wrong' /\ after' = "none" /\ held' = held /\ after # "none"
        /\ crossed' = crossed /\ printed' = printed /\ writing' = writing /\ out' = out
        /\ raising' = (after = "raise")
    BY DEF Done, Quiet, Still, Ruled
  <1>2. Top.mode = "native" /\ held = <<>>
    BY <1>1 DEF Ruled, Writing, HeldByNative
  <1>3. Data'
    BY <1>1 DEF Ruled, Typed, Data
  <1>4. CASE after = "raise"
    <2>1. stack' = Below /\ raising'
      BY <1>1, <1>4 DEF Done
    <2>q. QED
      BY <1>1, <1>2, <1>3, <2>1, NativeAbove, PopRaises
  <1>5. CASE after # "raise"
    <2>1. stack' = Returned
      BY <1>5 DEF Done
    <2>q. QED
      BY <1>1, <1>2, <1>3, <2>1, NativeAbove, ReturnRuled
  <1>q. QED
    BY <1>4, <1>5

-----------------------------------------------------------------------------
(* The steps of Python keep Ruled. *)

LEMMA PythonQuiet ==
    ASSUME Ruled, Top.mode = "python"
    PROVE  held = <<>> /\ after = "none"
  BY DEF Ruled, HeldByNative, Writing

LEMMA PythonPrintRuled ==
    ASSUME Ruled, NEW s \in Streams, PythonPrint(s)
    PROVE  Ruled'
  <1>1. Top.mode = "python"
    BY DEF PythonPrint, Outside, AtOp, Runs
  <1>2. /\ Still /\ ~wrong' /\ after' = "none" /\ held' = <<>> /\ crossed' = crossed
        /\ raising' = raising
    BY <1>1, PythonQuiet DEF PythonPrint, Still, Quiet, Ruled
  <1>3. Data'
    <2>1. out \in Seq(Nat) /\ printed \in Nat
      BY DEF Ruled, Typed, Data
    <2>q. QED
      BY <2>1 DEF PythonPrint, Prints, Quiet, Ruled, Typed, Data
  <1>4. CASE Outside
    <2>1. stack' = stack /\ Top' = Top
      BY <1>4 DEF PythonPrint, Top
    <2>2. Stacked'
      BY <1>2, <2>1, RuleStays DEF Still, Ruled, Stacked
    <2>q. QED
      BY <1>1, <1>2, <1>3, <2>1, <2>2, TopRuled DEF Ruled, Typed
  <1>5. CASE ~Outside
    <2>1. AtOp("python") /\ Advance
      BY <1>5 DEF PythonPrint, Advance, Replace
    <2>q. QED
      BY <1>2, <1>3, <2>1, AtOperation, AdvanceRuled
  <1>q. QED
    BY <1>4, <1>5

LEMMA PythonPassRuled ==
    ASSUME Ruled, PythonPass
    PROVE  Ruled'
  <1>1. AtOp("python") /\ Advance /\ Top.mode = "python"
    BY DEF PythonPass, AtOp, Runs
  <1>2. Still /\ ~wrong' /\ after' = "none" /\ held' = <<>> /\ crossed' = crossed
    BY <1>1, PythonQuiet DEF PythonPass, ioVars, Quiet, Still, Ruled
  <1>3. Data'
    BY DEF PythonPass, ioVars, Quiet, Ruled, Typed, Data
  <1>q. QED
    BY <1>1, <1>2, <1>3, AtOperation, AdvanceRuled

\* Python calls Python, or a native function, which has not crossed anything.
LEMMA PushRuled ==
    ASSUME Ruled, Still, Top.mode = "python", NEW frame \in Frames, stack' = Append(stack, frame),
           frame.mode = "native" => frame.at \in NativeAts /\ ~crossed',
           Data', ~wrong', held' = held, after' = after
    PROVE  Ruled'
  <1>1. held = <<>> /\ after = "none"
    BY PythonQuiet
  <1>2. stack' \in Seq(Frames) /\ stack' # <<>> /\ Stacked' /\ Top' = frame
    BY PushStacked DEF Ruled
  <1>q. QED
    BY <1>1, <1>2, TopRuled

LEMMA PythonCallRuled ==
    ASSUME Ruled, NEW f \in Functions, PythonCall(f)
    PROVE  Ruled'
  <1>1. Top.mode = "python" /\ f \in Names /\ crossed \in BOOLEAN
    BY DEF PythonCall, Outside, AtOp, Runs, Ruled, Typed, Data, Names
  <1>2. Still /\ ~wrong' /\ held' = held /\ after' = after
    BY DEF PythonCall, Quiet, Still, Ruled
  <1>3. CASE f \in native
    <2>1. Frame(f, "native", crossed) \in Frames
          /\ Frame(f, "native", crossed).at \in NativeAts
      BY <1>1, <1>3, NewFrame DEF Ruled
    <2>2. stack' = Append(stack, Frame(f, "native", crossed)) /\ crossed' = FALSE
      BY <1>3 DEF PythonCall, Enter
    <2>3. Data'
      BY <2>2 DEF PythonCall, Quiet, Ruled, Typed, Data
    <2>q. QED
      BY <1>1, <1>2, <2>1, <2>2, <2>3, PushRuled
  <1>4. CASE f \notin native
    <2>1. Frame(f, "python", FALSE) \in Frames /\ Frame(f, "python", FALSE).mode = "python"
      BY <1>1, NewFrame DEF Ruled
    <2>2. stack' = Append(stack, Frame(f, "python", FALSE)) /\ crossed' = crossed
      BY <1>4 DEF PythonCall
    <2>3. Data'
      BY <2>2 DEF PythonCall, Quiet, Ruled, Typed, Data
    <2>q. QED
      BY <1>1, <1>2, <2>1, <2>2, <2>3, PushRuled
  <1>q. QED
    BY <1>3, <1>4

LEMMA PythonCallsOutRuled ==
    ASSUME Ruled, PythonCallsOut
    PROVE  Ruled'
  <1>1. Top.mode = "python" /\ "" \in Names
    BY DEF PythonCallsOut, AtOp, Runs, Names
  <1>2. Frame("", "python", FALSE) \in Frames /\ Frame("", "python", FALSE).mode = "python"
    BY <1>1, NewFrame DEF Ruled
  <1>3. /\ Still /\ ~wrong' /\ held' = held /\ after' = after
        /\ stack' = Append(stack, Frame("", "python", FALSE))
    BY DEF PythonCallsOut, ioVars, Quiet, Still, Ruled
  <1>4. Data'
    BY DEF PythonCallsOut, ioVars, Quiet, Ruled, Typed, Data
  <1>q. QED
    BY <1>1, <1>2, <1>3, <1>4, PushRuled

LEMMA PythonReturnRuled ==
    ASSUME Ruled, PythonReturn
    PROVE  Ruled'
  <1>1. Top.mode = "python"
    BY DEF PythonReturn, Outside, AtEnd, Runs
  <1>2. /\ Still /\ ~wrong' /\ held' = <<>> /\ after' = "none" /\ Len(stack) > 1
        /\ stack' = Returned
    BY <1>1, PythonQuiet DEF PythonReturn, ioVars, Quiet, Still, Ruled
  <1>3. Data'
    BY DEF PythonReturn, ioVars, Quiet, Ruled, Typed, Data
  <1>q. QED
    BY <1>2, <1>3, ReturnRuled

LEMMA PythonRaiseRuled ==
    ASSUME Ruled, PythonRaise
    PROVE  Ruled'
  <1>1. Top.mode = "python"
    BY DEF PythonRaise, Outside, Runs
  <1>2. /\ Still /\ ~wrong' /\ held' = <<>> /\ after' = "none" /\ Len(stack) > 1
        /\ stack' = Below /\ raising' = TRUE
    BY <1>1, PythonQuiet DEF PythonRaise, ioVars, Quiet, Still, Ruled
  <1>3. Data'
    BY DEF PythonRaise, ioVars, Quiet, Ruled, Typed, Data
  <1>q. QED
    BY <1>2, <1>3, PopRaises

LEMMA PythonLeavesRuled ==
    ASSUME Ruled, PythonLeaves
    PROVE  Ruled'
  <1>1. Top.mode = "python" /\ raising
    BY DEF PythonLeaves
  <1>2. /\ Still /\ ~wrong' /\ held' = <<>> /\ after' = "none" /\ Len(stack) > 1
        /\ stack' = Below /\ raising'
    BY <1>1, PythonQuiet DEF PythonLeaves, ioVars, Quiet, Still, Ruled
  <1>3. Data'
    BY DEF PythonLeaves, ioVars, Quiet, Ruled, Typed, Data
  <1>q. QED
    BY <1>2, <1>3, PopRaises

\* Pure calls.

LEMMA CallingStays ==
    ASSUME Ruled, Calling, [Next]_vars
    PROVE  Calling'
  <1>1. CASE PureCall
    <2>1. Stands(Top.mode) /\ Op[1] = "pure" /\ inPure'
      BY <1>1, AtOperation DEF PureCall
    <2>2. /\ stack' = stack /\ program' = program /\ after' = after /\ raising' = raising
          /\ inPure' = TRUE
      BY <1>1 DEF PureCall, ioVars
    <2>q. QED
      BY <2>1, <2>2 DEF Calling, Stands, Top, Place, Op, Ops
  <1>2. CASE PureReturn \/ PureRaise
    BY <1>2 DEF PureReturn, PureRaise, Calling, Stands, Top, Place, Op
  <1>3. CASE UNCHANGED vars
    BY <1>3 DEF vars, ioVars, Calling, Stands, Top, Place, Op, Ops
  <1>4. CASE Next /\ ~(PureCall \/ PureReturn \/ PureRaise)
    <2>1. inPure => after = "none" /\ ~raising
      BY DEF Calling, Stands
    <2>2. Output => ~inPure /\ inPure' = inPure
      BY <2>1 DEF Output, Write, WriteRaises, EnterPython, Flush, FlushRaises, Done, Quiet
    <2>3. NativeStep => ~inPure /\ inPure' = inPure
      BY <1>4, <2>1 DEF NativeStep, NativePrint, Pass, NativeCall, NativeReturn, Branch,
           ReachBarrier, Raise, Catch, Unwind, Answer, CheckFails, Leaves, Abandon, Quiet,
           AtOp, AtEnd, Runs, Ready
    <2>4. PythonStep => ~inPure /\ inPure' = inPure
      <3>1. \A f \in Functions : PythonCall(f) => ~inPure /\ inPure' = inPure
        BY DEF PythonCall, Quiet, AtOp, Outside, Runs, Ready
      <3>2. \A s \in Streams : PythonPrint(s) => ~inPure /\ inPure' = inPure
        BY DEF PythonPrint, Quiet, AtOp, Outside, Runs, Ready
      <3>3. PythonPass \/ PythonCallsOut \/ PythonReturn \/ PythonRaise =>
                ~inPure /\ inPure' = inPure
        BY DEF PythonPass, PythonCallsOut, PythonReturn, PythonRaise, Quiet, AtOp, AtEnd, Outside,
           Runs, Ready
      <3>4. PythonLeaves => ~inPure /\ inPure' = inPure
        BY <2>1 DEF PythonLeaves, Quiet
      <3>q. QED
        BY <3>1, <3>2, <3>3, <3>4 DEF PythonStep
    <2>q. QED
      BY <1>4, <2>2, <2>3, <2>4 DEF Next, Calling
  <1>q. QED
    BY <1>1, <1>2, <1>3, <1>4

LEMMA PureReturnRuled ==
    ASSUME Ruled, Calling, PureReturn
    PROVE  Ruled'
  <1>1. Stands(Top.mode) /\ Op[1] = "pure"
    BY DEF PureReturn, Calling
  <1>2. /\ Still /\ Advance /\ ~wrong' /\ crossed' = crossed /\ after' = "none"
        /\ held' = held
    BY <1>1 DEF PureReturn, ioVars, Still, Ruled, Stands
  <1>3. Data'
    BY DEF PureReturn, ioVars, Ruled, Typed, Data
  <1>4. held' = <<>> \/ Top.mode = "native"
    BY <1>2, TopFrame DEF Ruled, HeldByNative, Frames
  <1>q. QED
    BY <1>1, <1>2, <1>3, <1>4, AdvanceRuled

\* Whichever frame made the call or is at it, an exception begins with all else as it was.
LEMMA StayRuled ==
    ASSUME Ruled, Still, stack' = stack, after = "none", after' = "none", ~wrong',
           UNCHANGED <<held, crossed, writing, out, printed>>, raising' \in BOOLEAN,
           Top.mode = "native" /\ crossed => Top.at \in LateAts
    PROVE  Ruled'
  <1>1. Top' = Top
    BY DEF Top
  <1>2. Data'
    BY DEF Ruled, Typed, Data
  <1>3. Stacked'
    BY RuleStays DEF Still, Ruled, Stacked
  <1>q. QED
    BY <1>1, <1>2, <1>3, TopRuled DEF Ruled, Typed, HeldByNative

LEMMA PureCallRuled ==
    ASSUME Ruled, PureCall
    PROVE  Ruled'
  <1>1. after = "none" /\ (Top.mode = "native" /\ crossed => Top.at \in LateAts)
    BY AtOperation DEF PureCall
  <1>2. /\ Still /\ stack' = stack /\ after' = after /\ ~wrong' /\ raising' \in BOOLEAN
        /\ UNCHANGED <<held, crossed, writing, out, printed>>
    BY DEF PureCall, ioVars, Still, Ruled, Typed, Data
  <1>q. QED
    BY <1>1, <1>2, StayRuled

LEMMA PureRaiseRuled ==
    ASSUME Ruled, Calling, PureRaise
    PROVE  Ruled'
  <1>1. after = "none" /\ (Top.mode = "native" /\ crossed => Top.at \in LateAts)
    BY StandingAt DEF PureRaise, Calling, Stands
  <1>2. /\ Still /\ stack' = stack /\ after' = after /\ ~wrong' /\ raising' \in BOOLEAN
        /\ UNCHANGED <<held, crossed, writing, out, printed>>
    BY DEF PureRaise, ioVars, Still, Ruled, Typed, Data
  <1>q. QED
    BY <1>1, <1>2, StayRuled

LEMMA NextRuled == Ruled /\ Calling /\ [Next]_vars => Ruled' /\ Calling'
  <1> SUFFICES ASSUME Ruled, Calling, [Next]_vars PROVE Ruled'
    BY CallingStays
  <1>1. CASE Output
    BY <1>1, WriteRuled, WriteRaisesRuled, EnterPythonRuled, FlushRuled, FlushRaisesRuled, DoneRuled
       DEF Output
  <1>2. CASE NativeStep
    BY <1>2, PrintRuled, PassRuled, NativeCallRuled, NativeReturnRuled, BranchRuled,
       ReachBarrierRuled, PureCallRuled, PureReturnRuled, PureRaiseRuled, RaiseRuled,
       CatchRuled, UnwindRuled, AnswerRuled, CheckFailsRuled, LeavesRuled, AbandonRuled DEF NativeStep
  <1>3. CASE PythonStep
    BY <1>3, PythonPrintRuled, PythonCallRuled, PythonPassRuled, PythonCallsOutRuled,
       PythonReturnRuled, PythonRaiseRuled, PythonLeavesRuled DEF PythonStep
  <1>4. CASE UNCHANGED vars
    <2>1. /\ Still /\ stack' = stack /\ Top' = Top /\ after' = after /\ crossed' = crossed
          /\ raising' = raising /\ held' = held /\ ~wrong'
      BY <1>4 DEF vars, ioVars, Still, Top, Ruled
    <2>2. Data'
      BY <1>4 DEF vars, ioVars, Ruled, Typed, Data
    <2>3. Stacked'
      BY <2>1, RuleStays DEF Still, Ruled, Stacked
    <2>q. QED
      BY <2>1, <2>2, <2>3, TopRuled DEF Ruled, Typed, Writing, HeldByNative, PastBarrier
  <1>q. QED
    BY <1>1, <1>2, <1>3, <1>4 DEF Next

LEMMA InitRuled == Init => Ruled /\ Calling
  <1> SUFFICES ASSUME Init PROVE Ruled
    BY DEF Init, Calling
  <1> DEFINE frame == Frame("", "python", FALSE)
  <1>1. /\ frame \in Frames /\ frame.mode = "python"
    <2>1. <<>> \in Seq(Places)
      OBVIOUS
    <2>2. <<>> \in Spots
      BY <2>1, Zenon DEF Spots
    <2>q. QED
      BY <2>2 DEF Frame, Frames, Names, Init
  <1>2. stack = <<frame>>
    BY DEF Init
  <1> HIDE DEF frame
  <1>3. stack \in Seq(Frames) /\ stack # <<>> /\ Len(stack) = 1 /\ stack[1] = frame
    BY <1>1, <1>2
  <1>4. Top.mode = "python"
    BY <1>1, <1>3 DEF Top, Last
  <1>5. Typed
    <2>1. <<>> \in Seq(Streams \X Seq(Nat)) /\ <<>> \in Seq(Nat)
      OBVIOUS
    <2>2. Data
      BY <2>1 DEF Init, Data, Records
    <2>q. QED
      BY <2>2, <1>3 DEF Init, Typed
  <1>6. Stacked
    BY <1>1, <1>3 DEF Stacked
  <1>7. Writing /\ HeldByNative /\ PastBarrier /\ ~wrong
    BY <1>4 DEF Init, Writing, HeldByNative, PastBarrier
  <1>q. QED
    BY <1>5, <1>6, <1>7 DEF Ruled

\* From a barrier on no native call falls back, nor raises what only Python could say:
\* the rule of check_effects is enough, for every program it lets through.
THEOREM NeverBack == Spec => []NeverBackAfterBarrier
  <1>1. Ruled => NeverBackAfterBarrier
    BY DEF Ruled, NeverBackAfterBarrier
  <1>q. QED
    BY <1>1, InitRuled, NextRuled, PTL DEF Spec

\* Output is held only while native code runs, or the pure calls it makes: no Python code
\* that prints runs before what native code printed earlier is written.
THEOREM Unheld == Spec => []HeldOnlyByNative
  <1>1. Ruled => HeldOnlyByNative
    BY TopFrame DEF Ruled, HeldByNative, HeldOnlyByNative, Frames
  <1>q. QED
    BY <1>1, InitRuled, NextRuled, PTL DEF Spec

-----------------------------------------------------------------------------
(* The marks of native calls in progress. *)

\* What a step leaves as it is of the calls outside the innermost.
KeptBelow == \A i \in DOMAIN stack : i < Len(stack) =>
    /\ stack'[i].mode = stack[i].mode /\ stack'[i].outer = stack[i].outer
    /\ stack'[i].touched = stack[i].touched

Ending == after \in {"answer", "raise"}

LEMMA EnteredIs ==
    ASSUME Ruled
    PROVE  /\ Len(stack) \in Nat \ {0}
           /\ Entered = {i \in 1 .. Len(stack) :
                           stack[i].mode = "native" /\ ~(i = Len(stack) /\ Ending)}
           /\ Top = stack[Len(stack)]
  BY TopFrame DEF Ruled, Entered, Ending

LEMMA OneToN ==
    ASSUME NEW n \in Nat \ {0}
    PROVE  /\ n \in 1 .. n
           /\ \A i \in 1 .. n : i # n => i \in 1 .. n - 1 /\ i < n
           /\ \A i \in 1 .. n - 1 : i \in 1 .. n /\ i # n
  OBVIOUS

LEMMA BelowTop ==
    ASSUME Ruled, KeptBelow, NEW i \in 1 .. Len(stack), i # Len(stack)
    PROVE  /\ i \in 1 .. Len(stack) - 1 /\ i < Len(stack)
           /\ stack'[i].mode = stack[i].mode /\ stack'[i].outer = stack[i].outer
           /\ stack'[i].touched = stack[i].touched
  <1>1. Len(stack) \in Nat \ {0} /\ DOMAIN stack = 1 .. Len(stack)
    BY EnteredIs, TopFrame DEF Ruled
  <1>2. i \in 1 .. Len(stack) - 1 /\ i < Len(stack)
    BY <1>1, OneToN
  <1>q. QED
    BY <1>1, <1>2 DEF KeptBelow

LEMMA ToldSame ==
    ASSUME Told, Entered' = Entered, crossed' = crossed,
           \A i \in Entered : stack'[i].outer = stack[i].outer /\ stack'[i].touched = stack[i].touched
    PROVE  Told'
  BY DEF Told

\* The innermost call is seen, and marked.
LEMMA ToldTouched ==
    ASSUME Ruled, Told, Entered' = Entered, crossed', KeptBelow, Len(stack) \in Entered,
           stack'[Len(stack)].outer = Top.outer
    PROVE  Told'
  <1>1. \A i \in Entered : i \in Nat /\ i <= Len(stack) /\ i \in DOMAIN stack
    BY EnteredIs, TopFrame DEF Ruled
  <1>2. Len(stack) \in Nat
    BY EnteredIs
  <1>4. \A i \in Entered : stack'[i].outer = stack[i].outer
    <2> TAKE i \in Entered
    <2>1. CASE i = Len(stack)
      BY <2>1, EnteredIs
    <2>2. CASE i # Len(stack)
      BY <2>2, <1>1, <1>2 DEF KeptBelow
    <2>q. QED
      BY <2>1, <2>2
  <1>3. ASSUME NEW i \in Entered, NEW j \in Entered, i < j,
               \A k \in Entered : k <= i \/ k >= j, stack'[i].touched
        PROVE  stack'[j].outer
    <2>a. i \in Nat /\ j \in Nat /\ j <= Len(stack) /\ i \in DOMAIN stack /\ i < j
      BY <1>1, <1>3
    <2>b. i < Len(stack)
      BY <2>a, <1>2
    <2>1. stack'[i].touched = stack[i].touched
      BY <2>a, <2>b DEF KeptBelow
    <2>2. stack[j].outer
      BY <2>1, <1>3 DEF Told
    <2>q. QED
      BY <2>2, <1>4
  <1>q. QED
    BY <1>3 DEF Told

\* A call is entered: the one outside puts its mark away.
LEMMA ToldEntered ==
    ASSUME Ruled, Told, Entered' = Entered \cup {Len(stack) + 1}, ~crossed',
           \A i \in Entered : stack'[i].outer = stack[i].outer /\ stack'[i].touched = stack[i].touched,
           stack'[Len(stack) + 1].outer = crossed, ~stack'[Len(stack) + 1].touched
    PROVE  Told'
  <1>1. Len(stack) \in Nat /\ \A i \in Entered : i \in Nat /\ i <= Len(stack)
    BY EnteredIs
  <1> DEFINE n == Len(stack) + 1
  <1>2. n \notin Entered /\ \A i \in Entered : i < n /\ ~(n <= i)
    BY <1>1
  <1> HIDE DEF n
  <1>3. ASSUME NEW i \in Entered', \A k \in Entered' : k <= i, stack'[i].touched
        PROVE  FALSE
    BY <1>2, <1>3 DEF n
  <1>4. ASSUME NEW i \in Entered', NEW j \in Entered', i < j,
               \A k \in Entered' : k <= i \/ k >= j, stack'[i].touched
        PROVE  stack'[j].outer
    <2>1. i \in Entered
      BY <1>4 DEF n
    <2>2. CASE j \in Entered
      BY <2>1, <2>2, <1>4 DEF Told
    <2>3. CASE j = n
      <3>1. \A k \in Entered : k <= i
        BY <2>3, <1>1, <1>4 DEF n
      <3>q. QED
        BY <3>1, <2>1, <2>3, <1>4 DEF Told, n
    <2>q. QED
      BY <2>2, <2>3, <1>4 DEF n
  <1>q. QED
    BY <1>3, <1>4 DEF Told

\* A call ends, and the one outside has its mark back.
LEMMA ToldLeft ==
    ASSUME Ruled, Told, Len(stack) \in Entered, Entered' = Entered \ {Len(stack)}, KeptBelow,
           crossed' = Top.outer
    PROVE  Told'
  <1> DEFINE n == Len(stack)
  <1>1. n \in Nat /\ \A i \in Entered : i \in Nat /\ i <= n /\ i \in DOMAIN stack
    BY EnteredIs, TopFrame DEF Ruled
  <1>2. \A i \in Entered' : i \in Entered /\ i < n
    BY <1>1
  <1>3. \A i \in Entered' : stack'[i].outer = stack[i].outer /\ stack'[i].touched = stack[i].touched
    BY <1>1, <1>2 DEF KeptBelow
  <1>4. crossed' = stack[n].outer
    BY EnteredIs
  <1>5. ASSUME NEW i \in Entered', \A k \in Entered' : k <= i, stack'[i].touched
        PROVE  crossed'
    <2>1. i < n /\ \A k \in Entered : k <= i \/ k >= n
      BY <1>1, <1>2, <1>5
    <2>q. QED
      BY <2>1, <1>2, <1>3, <1>4, <1>5 DEF Told
  <1>6. ASSUME NEW i \in Entered', NEW j \in Entered', i < j,
               \A k \in Entered' : k <= i \/ k >= j, stack'[i].touched
        PROVE  stack'[j].outer
    <2>1. \A k \in Entered : k <= i \/ k >= j
      BY <1>1, <1>2, <1>6
    <2>q. QED
      BY <2>1, <1>2, <1>3, <1>6 DEF Told
  <1>q. QED
    BY <1>5, <1>6 DEF Told

\* The calls in progress before and after, by what becomes of the stack.

LEMMA Wider ==
    ASSUME NEW S, NEW s \in Seq(S), NEW x
    PROVE  s \in Seq(S \cup {x}) /\ x \in S \cup {x}
  OBVIOUS

LEMMA TopReplaced ==
    ASSUME Ruled, NEW frame, stack' = Append(Front(stack), frame)
    PROVE  /\ Len(stack') = Len(stack) /\ DOMAIN stack' = 1 .. Len(stack)
           /\ stack'[Len(stack)] = frame /\ KeptBelow
  <1>1. stack \in Seq(Frames \cup {frame}) /\ stack # <<>> /\ frame \in Frames \cup {frame}
    BY Wider DEF Ruled, Typed
  <1>2. /\ Len(stack') = Len(stack) /\ DOMAIN stack' = DOMAIN stack /\ stack'[Len(stack)] = frame
        /\ \A i \in DOMAIN stack : i < Len(stack) => stack'[i] = stack[i]
    BY <1>1, Replaced
  <1>q. QED
    BY <1>2, TopFrame DEF Ruled, KeptBelow

LEMMA TopPopped ==
    ASSUME Ruled, Len(stack) > 1, stack' = Below
    PROVE  Len(stack') = Len(stack) - 1 /\ DOMAIN stack' = 1 .. Len(stack) - 1 /\ KeptBelow
  <1>1. /\ Len(stack') = Len(stack) - 1 /\ DOMAIN stack' = 1 .. Len(stack) - 1
        /\ \A i \in DOMAIN stack' : stack'[i] = stack[i]
    BY Popped DEF Ruled, Typed, Below
  <1>2. \A i \in DOMAIN stack : i < Len(stack) => i \in 1 .. Len(stack) - 1
    BY TopFrame DEF Ruled
  <1>q. QED
    BY <1>1, <1>2 DEF KeptBelow

LEMMA ToldSwapped ==
    ASSUME Ruled, Told, Len(stack') = Len(stack), DOMAIN stack' = 1 .. Len(stack), KeptBelow,
           stack'[Len(stack)].mode = Top.mode, stack'[Len(stack)].outer = Top.outer,
           stack'[Len(stack)].touched = Top.touched, crossed' = crossed, Ending' <=> Ending
    PROVE  Told'
  <1>1. /\ Len(stack) \in Nat \ {0} /\ Top = stack[Len(stack)] /\ DOMAIN stack = 1 .. Len(stack)
        /\ Entered = {i \in 1 .. Len(stack) :
                        stack[i].mode = "native" /\ ~(i = Len(stack) /\ Ending)}
    BY EnteredIs, TopFrame DEF Ruled
  <1>2. \A i \in 1 .. Len(stack) :
            /\ stack'[i].mode = stack[i].mode /\ stack'[i].outer = stack[i].outer
            /\ stack'[i].touched = stack[i].touched
    <2> TAKE i \in 1 .. Len(stack)
    <2>1. CASE i = Len(stack)
      BY <2>1, <1>1
    <2>2. CASE i # Len(stack)
      BY <2>2, BelowTop
    <2>q. QED
      BY <2>1, <2>2
  <1>3. Entered' = {i \in 1 .. Len(stack) :
                        stack'[i].mode = "native" /\ ~(i = Len(stack) /\ Ending')}
    BY DEF Entered, Ending
  <1>4. Entered' = Entered
    BY <1>1, <1>2, <1>3
  <1>q. QED
    BY <1>1, <1>2, <1>4, ToldSame

LEMMA SwapTold ==
    ASSUME Ruled, Told, NEW frame, stack' = Append(Front(stack), frame), frame.mode = Top.mode,
           frame.outer = Top.outer, frame.touched = Top.touched, crossed' = crossed,
           after \notin {"answer", "raise"}, after' \notin {"answer", "raise"}
    PROVE  Told'
  <1>1. Ending' <=> Ending
    BY DEF Ending
  <1>q. QED
    BY <1>1, TopReplaced, ToldSwapped

LEMMA StayTold ==
    ASSUME Ruled, Told, stack' = stack, crossed' = crossed, Ending' <=> Ending
    PROVE  Told'
  <1>1. Len(stack') = Len(stack) /\ DOMAIN stack' = 1 .. Len(stack) /\ KeptBelow
        /\ stack'[Len(stack)] = Top
    BY TopFrame DEF Ruled, KeptBelow
  <1>q. QED
    BY <1>1, ToldSwapped

\* The innermost frame goes, and was not, or no longer, a native call in progress.
LEMMA PopTold ==
    ASSUME Ruled, Told, Len(stack) > 1, Len(stack') = Len(stack) - 1,
           DOMAIN stack' = 1 .. Len(stack) - 1, KeptBelow, Top.mode = "python" \/ Ending,
           crossed' = crossed, after' = "none"
    PROVE  Told'
  <1>1. /\ Len(stack) \in Nat \ {0} /\ Top = stack[Len(stack)] /\ DOMAIN stack = 1 .. Len(stack)
        /\ Entered = {i \in 1 .. Len(stack) :
                        stack[i].mode = "native" /\ ~(i = Len(stack) /\ Ending)}
    BY EnteredIs, TopFrame DEF Ruled
  <1>2. \A i \in 1 .. Len(stack) - 1 :
            /\ stack'[i].mode = stack[i].mode /\ stack'[i].outer = stack[i].outer
            /\ stack'[i].touched = stack[i].touched
    BY <1>1 DEF KeptBelow
  <1>3. Entered' = {i \in 1 .. Len(stack) - 1 : stack'[i].mode = "native"}
    BY DEF Entered
  <1>4. Entered = {i \in 1 .. Len(stack) - 1 : stack[i].mode = "native"}
    BY <1>1
  <1>5. Entered' = Entered
    BY <1>2, <1>3, <1>4
  <1>q. QED
    BY <1>2, <1>4, <1>5, ToldSame

\* A native call is over for the marks.
LEMMA LeaveTold ==
    ASSUME Ruled, Told, Top.mode = "native", after = "none", KeptBelow, crossed' = Top.outer,
           \/ /\ Len(stack') = Len(stack) - 1 /\ DOMAIN stack' = 1 .. Len(stack) - 1
              /\ after' = "none"
           \/ /\ Len(stack') = Len(stack) /\ DOMAIN stack' = 1 .. Len(stack)
              /\ after' \in {"answer", "raise"} \/ stack'[Len(stack)].mode = "python"
    PROVE  Told'
  <1>1. /\ Len(stack) \in Nat \ {0} /\ Top = stack[Len(stack)] /\ DOMAIN stack = 1 .. Len(stack)
        /\ Entered = {i \in 1 .. Len(stack) : stack[i].mode = "native"}
    BY EnteredIs, TopFrame DEF Ruled, Ending
  <1>2. \A i \in 1 .. Len(stack) : i # Len(stack) =>
            i \in 1 .. Len(stack) - 1 /\ stack'[i].mode = stack[i].mode
    BY BelowTop
  <1>3. Entered' = {i \in 1 .. Len(stack) - 1 : stack'[i].mode = "native"}
    <2>1. CASE Len(stack') = Len(stack) - 1 /\ DOMAIN stack' = 1 .. Len(stack) - 1 /\ after' = "none"
      BY <2>1 DEF Entered
    <2>2. CASE /\ Len(stack') = Len(stack) /\ DOMAIN stack' = 1 .. Len(stack)
               /\ after' \in {"answer", "raise"} \/ stack'[Len(stack)].mode = "python"
      <3>1. Entered' = {i \in 1 .. Len(stack) : stack'[i].mode = "native"
                /\ ~(i = Len(stack) /\ after' \in {"answer", "raise"})}
        BY <2>2 DEF Entered
      <3>2. \A i \in 1 .. Len(stack) - 1 : i \in 1 .. Len(stack) /\ i # Len(stack)
        BY <1>1, OneToN
      <3>q. QED
        BY <3>1, <3>2, <2>2, <1>2
    <2>q. QED
      BY <2>1, <2>2
  <1>4. Len(stack) \in Entered /\ Entered' = Entered \ {Len(stack)}
    <2>1. Len(stack) \in 1 .. Len(stack)
      BY <1>1, OneToN
    <2>2. \A i \in 1 .. Len(stack) - 1 : i \in 1 .. Len(stack) /\ i # Len(stack)
      BY <1>1, OneToN
    <2>q. QED
      BY <2>1, <2>2, <1>1, <1>2, <1>3
  <1>q. QED
    BY <1>4, ToldLeft

\* The innermost native call is seen.
LEMMA TouchTold ==
    ASSUME Ruled, Told, NEW frame, stack' = Append(Front(stack), frame), Top.mode = "native",
           frame.mode = "native", frame.outer = Top.outer, crossed',
           after \notin {"answer", "raise"}, after' \notin {"answer", "raise"}
    PROVE  Told'
  <1>1. /\ Len(stack) \in Nat \ {0} /\ Top = stack[Len(stack)] /\ DOMAIN stack = 1 .. Len(stack)
        /\ Entered = {i \in 1 .. Len(stack) : stack[i].mode = "native"}
    BY EnteredIs, TopFrame DEF Ruled, Ending
  <1>2. /\ Len(stack') = Len(stack) /\ DOMAIN stack' = 1 .. Len(stack)
        /\ stack'[Len(stack)] = frame /\ KeptBelow
    BY TopReplaced
  <1>3. \A i \in 1 .. Len(stack) : stack'[i].mode = stack[i].mode
    <2> TAKE i \in 1 .. Len(stack)
    <2>1. CASE i = Len(stack)
      BY <2>1, <1>1, <1>2
    <2>2. CASE i # Len(stack)
      BY <2>2, <1>2, BelowTop
    <2>q. QED
      BY <2>1, <2>2
  <1>4. Entered' = {i \in 1 .. Len(stack) : stack'[i].mode = "native"}
    BY <1>2 DEF Entered
  <1>5. Entered' = Entered /\ Len(stack) \in Entered
    <2>1. Len(stack) \in 1 .. Len(stack) /\ stack[Len(stack)].mode = "native"
      BY <1>1
    <2>q. QED
      BY <2>1, <1>1, <1>3, <1>4
  <1>q. QED
    BY <1>2, <1>5, ToldTouched

\* A frame is entered.
LEMMA PushTold ==
    ASSUME Ruled, Told, NEW frame \in Frames, stack' = Append(stack, frame), after' = "none",
           after = "none", frame.mode = "python" => crossed' = crossed,
           frame.mode = "native" => frame.outer = crossed /\ ~frame.touched /\ ~crossed'
    PROVE  Told'
  <1>1. /\ Len(stack) \in Nat \ {0} /\ DOMAIN stack = 1 .. Len(stack)
        /\ Entered = {i \in 1 .. Len(stack) : stack[i].mode = "native"}
    BY EnteredIs, TopFrame DEF Ruled, Ending
  <1>2. /\ Len(stack') = Len(stack) + 1 /\ DOMAIN stack' = 1 .. Len(stack) + 1
        /\ stack'[Len(stack) + 1] = frame /\ \A i \in DOMAIN stack : stack'[i] = stack[i]
    BY Pushed DEF Ruled, Typed
  <1>3. Entered' = {i \in 1 .. Len(stack) + 1 : stack'[i].mode = "native"}
    BY <1>2 DEF Entered
  <1>4. \A i \in Entered : stack'[i] = stack[i]
    BY <1>1, <1>2
  <1>5. CASE frame.mode = "python"
    <2>1. Entered' = Entered
      BY <1>1, <1>2, <1>3, <1>5
    <2>q. QED
      BY <2>1, <1>4, <1>5, ToldSame
  <1>6. CASE frame.mode = "native"
    <2>1. Entered' = Entered \cup {Len(stack) + 1}
      BY <1>1, <1>2, <1>3, <1>6
    <2>q. QED
      BY <2>1, <1>2, <1>4, <1>6, ToldEntered
  <1>q. QED
    BY <1>5, <1>6 DEF Frames

\* The fields of a frame that goes elsewhere.
LEMMA Elsewhere ==
    ASSUME NEW frame \in Frames, NEW at
    PROVE  /\ [frame EXCEPT !.at = at].mode = frame.mode
           /\ [frame EXCEPT !.at = at].outer = frame.outer
           /\ [frame EXCEPT !.at = at].touched = frame.touched
  BY DEF Frames

\* The steps within a frame.
LEMMA WithinTold ==
    ASSUME Ruled, Calling, Told,
           NativePrint \/ Pass \/ NativeCall \/ NativeReturn \/ Branch \/ Unwind \/ PythonPass
               \/ PureReturn
    PROVE  Told'
  <1>1. Top \in Frames
    BY TopFrame DEF Ruled
  <1>2. after = "none" /\ after' = "none" /\ crossed' = crossed
    BY DEF NativePrint, Pass, NativeCall, NativeReturn, Branch, Unwind, PythonPass, PureReturn,
           AtOp, AtEnd, Runs, Ready, Calling, Stands, ioVars
  <1>3. \E at : stack' = Append(Front(stack), [Top EXCEPT !.at = at])
    BY DEF NativePrint, Pass, NativeCall, NativeReturn, Branch, Unwind, PythonPass, PureReturn,
           Advance, Replace, Below
  <1>q. QED
    BY <1>1, <1>2, <1>3, Elsewhere, SwapTold

LEMMA RaiseTold ==
    ASSUME Ruled, Told, Raise \/ PureCall \/ PureRaise
    PROVE  Told'
  <1>1. stack' = stack /\ crossed' = crossed /\ (Ending' <=> Ending)
    BY DEF Raise, PureCall, PureRaise, ioVars, Ending
  <1>q. QED
    BY <1>1, StayTold

LEMMA CatchTold ==
    ASSUME Ruled, Told, Catch
    PROVE  Told'
  <1>1. Top \in Frames
    BY TopFrame DEF Ruled
  <1>2. after = "none" /\ after' = "none" /\ crossed' = crossed
    BY DEF Catch, ioVars
  <1>3. CASE Top.at = <<>>
    BY <1>2, <1>3, StayTold DEF Catch, Ending
  <1>4. CASE Top.at # <<>>
    BY <1>1, <1>2, <1>4, Elsewhere, SwapTold DEF Catch, Below
  <1>q. QED
    BY <1>3, <1>4

LEMMA ReachBarrierTold ==
    ASSUME Ruled, Told, ReachBarrier
    PROVE  Told'
  <1>1. Top.mode = "native" /\ after = "none"
    BY AtOperation DEF ReachBarrier
  <1>2. stack' = stack /\ crossed' /\ after' \in {"python", "flush"}
    BY DEF ReachBarrier, CallPython, Commit, Barriers
  <1>3. /\ Len(stack) \in Nat \ {0} /\ Top = stack[Len(stack)] /\ DOMAIN stack = 1 .. Len(stack)
        /\ Entered = {i \in 1 .. Len(stack) : stack[i].mode = "native"}
    BY <1>1, EnteredIs, TopFrame DEF Ruled, Ending
  <1>4. Entered' = {i \in 1 .. Len(stack) : stack[i].mode = "native"}
    BY <1>2, <1>3 DEF Entered
  <1>5. Len(stack) \in Entered /\ KeptBelow /\ stack'[Len(stack)].outer = Top.outer
    BY <1>1, <1>2, <1>3, OneToN DEF KeptBelow
  <1>q. QED
    BY <1>2, <1>3, <1>4, <1>5, ToldTouched

LEMMA WriteTold ==
    ASSUME Ruled, Told, Write
    PROVE  Told'
  <1>1. after' = after /\ crossed' = crossed /\ Top \in Frames
    BY TopFrame DEF Write, Ruled
  <1>2. CASE after \in {"python", "flush"}
    <2>1. Top.mode = "native" /\ crossed /\ stack' = Append(Front(stack), Touch(Top))
      BY <1>2, AfterStalled DEF Write, Below
    <2>q. QED
      BY <1>1, <1>2, <2>1, TouchedFrame, TouchTold
  <1>3. CASE after \notin {"python", "flush"}
    <2>1. stack' = stack /\ (Ending' <=> Ending)
      BY <1>1, <1>3 DEF Write, Ending
    <2>q. QED
      BY <1>1, <2>1, StayTold
  <1>q. QED
    BY <1>2, <1>3

LEMMA WriteRaisesTold ==
    ASSUME Ruled, Told, WriteRaises
    PROVE  Told'
  <1>1. after' = "none" /\ crossed' = crossed
    BY DEF WriteRaises
  <1>2. CASE after \in {"python", "flush"}
    <2>1. stack' = stack /\ (Ending' <=> Ending)
      BY <1>1, <1>2 DEF WriteRaises, Ending
    <2>q. QED
      BY <1>1, <2>1, StayTold
  <1>3. CASE after \notin {"python", "flush"}
    <2>1. stack' = Below /\ Ending /\ Top.mode = "native"
      BY <1>3 DEF WriteRaises, Ending, Ruled, Writing, Typed, Data
    <2>q. QED
      BY <1>1, <2>1, NativeAbove, TopPopped, PopTold
  <1>q. QED
    BY <1>2, <1>3

LEMMA EnterPythonTold ==
    ASSUME Ruled, Told, EnterPython
    PROVE  Told'
  <1> DEFINE caller == Touch(Top)
             middle == Append(Front(stack), caller)
             frame == Frame("", "python", FALSE)
  <1>1. Top.mode = "native" /\ crossed /\ after = "python"
    BY AfterStalled DEF EnterPython
  <1>2. /\ Len(stack) \in Nat \ {0} /\ Top = stack[Len(stack)] /\ DOMAIN stack = 1 .. Len(stack)
        /\ Entered = {i \in 1 .. Len(stack) : stack[i].mode = "native"} /\ Top \in Frames
    BY <1>1, EnteredIs, TopFrame DEF Ruled, Ending
  <1>3. caller \in Frames /\ caller.mode = "native" /\ caller.outer = Top.outer
    BY <1>1, <1>2, TouchedFrame
  <1>4. "" \in Names
    BY DEF Names
  <1>5. frame \in Frames /\ frame.mode = "python"
    BY <1>4, NewFrame DEF Ruled
  <1>6. stack' = Append(middle, frame) /\ crossed' /\ after' = "none"
    BY <1>1 DEF EnterPython, Below
  <1> HIDE DEF caller, frame
  <1>7. /\ middle \in Seq(Frames) /\ Len(middle) = Len(stack) /\ middle[Len(stack)] = caller
        /\ DOMAIN middle = 1 .. Len(stack)
        /\ \A i \in DOMAIN stack : i < Len(stack) => middle[i] = stack[i]
    <2>1. stack \in Seq(Frames) /\ stack # <<>>
      BY DEF Ruled, Typed
    <2>2. /\ middle \in Seq(Frames) /\ Len(middle) = Len(stack) /\ DOMAIN middle = DOMAIN stack
          /\ middle[Len(stack)] = caller
          /\ \A i \in DOMAIN stack : i < Len(stack) => middle[i] = stack[i]
      BY <2>1, <1>3, Replaced
    <2>q. QED
      BY <2>2, <1>2
  <1> HIDE DEF middle
  <1>8. /\ Len(stack') = Len(stack) + 1 /\ DOMAIN stack' = 1 .. Len(stack) + 1
        /\ stack'[Len(stack) + 1] = frame /\ \A i \in 1 .. Len(stack) : stack'[i] = middle[i]
    <2>1. /\ Len(stack') = Len(middle) + 1 /\ DOMAIN stack' = 1 .. Len(middle) + 1
          /\ stack'[Len(middle) + 1] = frame /\ \A i \in DOMAIN middle : stack'[i] = middle[i]
      BY <1>5, <1>6, <1>7, Pushed
    <2>q. QED
      BY <2>1, <1>7
  <1>9. KeptBelow /\ stack'[Len(stack)] = caller
    BY <1>2, <1>7, <1>8, OneToN DEF KeptBelow
  <1>10. \A i \in 1 .. Len(stack) : stack'[i].mode = stack[i].mode
    <2> TAKE i \in 1 .. Len(stack)
    <2>1. CASE i = Len(stack)
      BY <2>1, <1>1, <1>2, <1>3, <1>9
    <2>2. CASE i # Len(stack)
      BY <2>2, <1>9, BelowTop
    <2>q. QED
      BY <2>1, <2>2
  <1>11. Entered' = {i \in 1 .. Len(stack) + 1 : stack'[i].mode = "native"}
    BY <1>6, <1>8 DEF Entered
  <1>12. Entered' = Entered
    <2>1. \A i \in 1 .. Len(stack) + 1 : i = Len(stack) + 1 \/ i \in 1 .. Len(stack)
      BY <1>2
    <2>2. \A i \in 1 .. Len(stack) : i \in 1 .. Len(stack) + 1
      BY <1>2
    <2>q. QED
      BY <2>1, <2>2, <1>2, <1>5, <1>8, <1>10, <1>11
  <1>13. Len(stack) \in Entered
    BY <1>1, <1>2, OneToN
  <1>q. QED
    BY <1>3, <1>6, <1>9, <1>12, <1>13, ToldTouched

LEMMA FlushTold ==
    ASSUME Ruled, Told, Flush \/ FlushRaises
    PROVE  Told'
  <1>1. Top.mode = "native" /\ crossed /\ Top \in Frames /\ after = "flush"
    BY AfterStalled, TopFrame DEF Flush, FlushRaises, Ruled
  <1>2. /\ Touch(Top) \in Frames /\ Touch(Top).mode = "native" /\ Touch(Top).outer = Top.outer
        /\ crossed' /\ after' = "none"
    BY <1>1, TouchedFrame DEF Flush, FlushRaises
  <1>3. CASE Flush
    <2> DEFINE frame == [Touch(Top) EXCEPT !.at = Moved(@)]
    <2>1. stack' = Append(Front(stack), frame)
      BY <1>3 DEF Flush, Below
    <2>2. frame.mode = "native" /\ frame.outer = Top.outer
      BY <1>2 DEF Frames
    <2> HIDE DEF frame
    <2>q. QED
      BY <2>1, <2>2, <1>1, <1>2, TouchTold
  <1>4. CASE FlushRaises
    <2>1. stack' = Append(Front(stack), Touch(Top))
      BY <1>4 DEF FlushRaises, Below
    <2>q. QED
      BY <2>1, <1>1, <1>2, TouchTold
  <1>q. QED
    BY <1>3, <1>4

LEMMA FallBackTold ==
    ASSUME Ruled, Told, Top.mode = "native", after = "none", FallBack
    PROVE  Told'
  <1> DEFINE frame == [Frame(Top.fn, "python", FALSE) EXCEPT !.first = Top.first]
  <1>1. stack' = Append(Front(stack), frame) /\ crossed' = Top.outer
    BY DEF FallBack, Leave, Replace, Below
  <1>2. frame.mode = "python"
    BY DEF Frame
  <1> HIDE DEF frame
  <1>3. /\ Len(stack') = Len(stack) /\ DOMAIN stack' = 1 .. Len(stack)
        /\ stack'[Len(stack)] = frame /\ KeptBelow
    BY <1>1, TopReplaced
  <1>q. QED
    BY <1>1, <1>2, <1>3, LeaveTold

LEMMA EndTold ==
    ASSUME Ruled, Told, Top.mode = "native", after = "none", stack' = stack, Leave,
           after' \in {"answer", "raise"}
    PROVE  Told'
  <1>1. Len(stack') = Len(stack) /\ DOMAIN stack' = 1 .. Len(stack) /\ KeptBelow
    BY TopFrame DEF Ruled, KeptBelow
  <1>q. QED
    BY <1>1, LeaveTold DEF Leave

LEMMA EndsTold ==
    ASSUME Ruled, Told, Answer \/ CheckFails \/ Leaves \/ Abandon
    PROVE  Told'
  <1>1. CASE Answer
    BY <1>1, AtTheEnd, EndTold DEF Answer, Commit
  <1>2. CASE CheckFails
    <2>1. Top.mode = "native" /\ after = "none" /\ ~crossed
      BY <1>2, AtOperation, BackUncrossed DEF CheckFails, Backs
    <2>q. QED
      BY <1>2, <2>1, FallBackTold DEF CheckFails
  <1>3. CASE Leaves
    <2>1. Top.mode = "native" /\ after = "none"
      BY <1>3 DEF Leaves
    <2>2. CASE ~crossed
      BY <1>3, <2>1, <2>2, FallBackTold DEF Leaves
    <2>3. CASE crossed
      BY <1>3, <2>1, <2>3, EndTold DEF Leaves, Commit
    <2>q. QED
      BY <2>2, <2>3
  <1>4. CASE Abandon
    <2>1. Top.mode = "native" /\ after = "none"
      BY <1>4, AtOperation DEF Abandon
    <2>2. stack' = Below /\ crossed' = Top.outer /\ after' = "none"
      BY <1>4, <2>1 DEF Abandon, Leave
    <2>3. Len(stack') = Len(stack) - 1 /\ DOMAIN stack' = 1 .. Len(stack) - 1 /\ KeptBelow
      BY <2>1, <2>2, NativeAbove, TopPopped
    <2>q. QED
      BY <2>1, <2>2, <2>3, LeaveTold
  <1>q. QED
    BY <1>1, <1>2, <1>3, <1>4

\* An answer is given to the frame below, by native code or by Python.
LEMMA ReturnTold ==
    ASSUME Ruled, Told, Still, Len(stack) > 1, stack' = Returned, crossed' = crossed,
           after' = "none", Top.mode = "python" \/ Ending
    PROVE  Told'
  <1>1. stack' \in Seq(Frames) /\ Len(stack') = Len(stack) - 1 /\ KeptBelow
    BY ReturnStacked DEF Ruled, KeptBelow
  <1>2. DOMAIN stack' = 1 .. Len(stack) - 1
    BY <1>1
  <1>q. QED
    BY <1>1, <1>2, PopTold

LEMMA DoneTold ==
    ASSUME Ruled, Told, Done
    PROVE  Told'
  <1>1. Still /\ Ending /\ after' = "none" /\ crossed' = crossed /\ Top.mode = "native"
    BY DEF Done, Quiet, Still, Ending, Ruled, Writing
  <1>2. CASE after = "raise"
    <2>1. stack' = Below
      BY <1>2 DEF Done
    <2>q. QED
      BY <1>1, <2>1, NativeAbove, TopPopped, PopTold
  <1>3. CASE after # "raise"
    <2>1. stack' = Returned
      BY <1>3 DEF Done
    <2>q. QED
      BY <1>1, <2>1, NativeAbove, ReturnTold
  <1>q. QED
    BY <1>2, <1>3

LEMMA PythonTold ==
    ASSUME Ruled, Told,
           (\E s \in Streams : PythonPrint(s)) \/ PythonCallsOut \/ PythonReturn \/ PythonRaise
                \/ PythonLeaves
    PROVE  Told'
  <1>1. Top.mode = "python" /\ Top \in Frames
    BY TopFrame DEF PythonPrint, PythonCallsOut, PythonReturn, PythonRaise, PythonLeaves, Outside, AtOp,
                    AtEnd, Runs, Ruled
  <1>2. after = "none" /\ after' = "none" /\ crossed' = crossed /\ Still
    BY <1>1, PythonQuiet DEF PythonPrint, PythonCallsOut, PythonReturn, PythonRaise, PythonLeaves,
                             ioVars, Quiet, Still
  <1>3. ASSUME NEW s \in Streams, PythonPrint(s)
        PROVE  Told'
    <2>1. CASE Outside
      BY <1>2, <1>3, <2>1, StayTold DEF PythonPrint, Ending
    <2>2. CASE ~Outside
      BY <1>1, <1>2, <1>3, <2>2, Elsewhere, SwapTold DEF PythonPrint, Below
    <2>q. QED
      BY <2>1, <2>2
  <1>4. CASE PythonCallsOut
    <2>1. "" \in Names
      BY DEF Names
    <2> DEFINE frame == Frame("", "python", FALSE)
    <2>2. frame \in Frames /\ frame.mode = "python"
      BY <2>1, NewFrame DEF Ruled
    <2>3. stack' = Append(stack, frame)
      BY <1>4 DEF PythonCallsOut
    <2> HIDE DEF frame
    <2>q. QED
      BY <1>2, <2>2, <2>3, PushTold
  <1>5. CASE PythonReturn
    BY <1>1, <1>2, <1>5, ReturnTold DEF PythonReturn
  <1>6. CASE PythonRaise \/ PythonLeaves
    BY <1>1, <1>2, <1>6, TopPopped, PopTold DEF PythonRaise, PythonLeaves
  <1>q. QED
    BY <1>3, <1>4, <1>5, <1>6

LEMMA PythonCallTold ==
    ASSUME Ruled, Told, NEW f \in Functions, PythonCall(f)
    PROVE  Told'
  <1>1. Top.mode = "python" /\ f \in Names /\ crossed \in BOOLEAN
    BY DEF PythonCall, Outside, AtOp, Runs, Ruled, Typed, Data, Names
  <1>2. after = "none" /\ after' = "none"
    BY <1>1, PythonQuiet DEF PythonCall
  <1>3. CASE f \in native
    <2> DEFINE frame == Frame(f, "native", crossed)
    <2>1. /\ frame \in Frames /\ frame.mode = "native" /\ frame.outer = crossed
          /\ frame.touched = FALSE
      BY <1>1, <1>3, NewFrame DEF Ruled
    <2>2. stack' = Append(stack, frame) /\ crossed' = FALSE
      BY <1>3 DEF PythonCall, Enter
    <2> HIDE DEF frame
    <2>q. QED
      BY <1>2, <2>1, <2>2, PushTold
  <1>4. CASE f \notin native
    <2> DEFINE frame == Frame(f, "python", FALSE)
    <2>1. frame \in Frames /\ frame.mode = "python"
      BY <1>1, NewFrame DEF Ruled
    <2>2. stack' = Append(stack, frame) /\ crossed' = crossed
      BY <1>4 DEF PythonCall
    <2> HIDE DEF frame
    <2>q. QED
      BY <1>2, <2>1, <2>2, PushTold
  <1>q. QED
    BY <1>3, <1>4

LEMMA NextTold == IInv /\ [Next]_vars => IInv'
  <1> SUFFICES ASSUME Ruled, Calling, Told, [Next]_vars PROVE IInv'
    BY DEF IInv
  <1>1. CASE Output
    BY <1>1, WriteTold, WriteRaisesTold, EnterPythonTold, FlushTold, DoneTold, NextRuled
       DEF Output, Next, IInv
  <1>2. CASE NativeStep
    BY <1>2, WithinTold, ReachBarrierTold, RaiseTold, CatchTold, EndsTold, NextRuled
       DEF NativeStep, Next, IInv
  <1>3. CASE PythonStep
    BY <1>3, WithinTold, PythonTold, PythonCallTold, NextRuled DEF PythonStep, Next, IInv
  <1>4. CASE UNCHANGED vars
    <2>1. stack' = stack /\ crossed' = crossed /\ (Ending' <=> Ending)
      BY <1>4 DEF vars, ioVars, Ending
    <2>q. QED
      BY <1>4, <2>1, StayTold, NextRuled DEF IInv
  <1>q. QED
    BY <1>1, <1>2, <1>3, <1>4 DEF Next

LEMMA InitTold == Init => IInv
  <1> SUFFICES ASSUME Init PROVE IInv
    OBVIOUS
  <1>1. Ruled /\ Calling
    BY InitRuled
  <1>2. stack = <<Frame("", "python", FALSE)>>
    BY DEF Init
  <1>3. Entered = {}
    <2>1. Top = stack[Len(stack)] /\ Len(stack) = 1
      BY <1>1, <1>2, TopFrame DEF Ruled
    <2>2. stack[1].mode = "python"
      BY <1>1 DEF Ruled, Stacked
    <2>q. QED
      BY <2>1, <2>2, <1>1, EnteredIs
  <1>q. QED
    BY <1>1, <1>3 DEF IInv, Told

\* A native call whose doing was seen is marked as crossed until it ends, through all
\* the native calls that Python makes meanwhile.
THEOREM MarksTold == Spec => []CrossedTold
  <1>1. IInv => CrossedTold
    <2> SUFFICES ASSUME Ruled, Told, NEW i \in Entered, stack[i].touched PROVE Marked(i)
      BY DEF IInv, CrossedTold
    <2>1. \A k \in Entered : k \in Nat
      BY EnteredIs
    <2> DEFINE inner == {j \in Entered : j > i}
    <2>2. inner = {} => crossed
      <3> SUFFICES ASSUME inner = {} PROVE crossed
        OBVIOUS
      <3>1. \A k \in Entered : k <= i
        BY <2>1
      <3>q. QED
        BY <3>1 DEF Told
    <2>3. ASSUME NEW j \in inner, \A k \in inner : j <= k
          PROVE  stack[j].outer
      <3>1. j \in Entered /\ i < j /\ \A k \in Entered : k <= i \/ k >= j
        BY <2>1, <2>3
      <3>q. QED
        BY <3>1 DEF Told
    <2>q. QED
      BY <2>2, <2>3 DEF Marked
  <1>q. QED
    BY <1>1, InitTold, NextTold, PTL DEF Spec

-----------------------------------------------------------------------------
(* The output: that it is shown once and in order, and the types of all states. *)

\* The records hold what follows n, up to last.
InOrder(n, records, last) ==
    /\ n <= last
    /\ GoOn(n, records)
    /\ LastPiece(n, records, Len(records)) = last
    /\ \A r \in DOMAIN records : \A k \in DOMAIN records[r][2] : records[r][2][k] <= last

Ordered ==
    /\ out = [i \in 1 .. Len(out) |-> i]
    /\ after = "none" => writing = <<>> /\ InOrder(Len(out), held, printed)
    /\ after # "none" => InOrder(Len(out), writing, printed)

\* A native call that has crossed nothing began when all that was shown was all there was.
FirstKept ==
    Top.mode = "native" /\ after \notin {"answer", "raise"} /\ ~crossed => Top.first = Len(out)

\* A native call that waits for Python was seen when it called it.
Under == \A i \in DOMAIN stack : i < Len(stack) /\ stack[i].mode = "native" => stack[i].touched

Bounded ==
    /\ Len(stack) <= MaxDepth /\ (after = "python" => Len(stack) < MaxDepth)
    /\ stack[1].fn = ""
    /\ printed <= MaxPrinted /\ faults \in 0 .. MaxFaults /\ wrong \in BOOLEAN

Output_IInv == IInv /\ Ordered /\ FirstKept /\ Under /\ Bounded

-----------------------------------------------------------------------------
(* Records in order. *)

LEMMA RecordIs ==
    ASSUME NEW s \in Records, NEW r \in DOMAIN s
    PROVE  /\ s[r] \in Streams \X Seq(Nat) /\ s[r][2] \in Seq(Nat) /\ r \in Nat \ {0} /\ r <= Len(s)
           /\ Len(s) \in Nat /\ DOMAIN s = 1 .. Len(s)
           /\ s[r][2] # <<>> => /\ Last(s[r][2]) = s[r][2][Len(s[r][2])]
                                /\ Len(s[r][2]) \in DOMAIN s[r][2]
  <1>1. s \in Seq(Streams \X Seq(Nat))
    BY DEF Records
  <1>2. s[r] \in Streams \X Seq(Nat) /\ r \in Nat \ {0} /\ r <= Len(s) /\ Len(s) \in Nat
        /\ DOMAIN s = 1 .. Len(s)
    BY <1>1
  <1>3. s[r][2] \in Seq(Nat)
    BY <1>2
  <1>q. QED
    BY <1>2, <1>3 DEF Last

\* With no record there is nothing more.
LEMMA NothingWaits ==
    ASSUME NEW n \in Nat, NEW last
    PROVE  InOrder(n, <<>>, last) <=> n = last
  BY DEF InOrder, GoOn, LastPiece

\* A print opens a record.
LEMMA OpenedInOrder ==
    ASSUME NEW n \in Nat, NEW last \in Nat, NEW s \in Records, InOrder(n, s, last),
           NEW stream \in Streams
    PROVE  InOrder(n, Append(s, <<stream, <<last + 1>>>>), last + 1)
  <1> DEFINE x == <<stream, <<last + 1>>>>
             t == Append(s, x)
             m == Len(s)
  <1>1. x \in Streams \X Seq(Nat) /\ Last(x[2]) = last + 1
        /\ x[2] # <<>> /\ \A k \in DOMAIN x[2] : k = 1 /\ x[2][k] = last + 1
    <2> DEFINE y == <<last + 1>>
    <2>1. y \in Seq(Nat) /\ Last(y) = last + 1 /\ y # <<>> /\ DOMAIN y = 1 .. 1 /\ y[1] = last + 1
      BY DEF Last
    <2>2. x = <<stream, y>>
      OBVIOUS
    <2> HIDE DEF x, y
    <2>3. x \in Streams \X Seq(Nat) /\ x[2] = y
      BY <2>1, <2>2
    <2>q. QED
      BY <2>1, <2>3
  <1> HIDE DEF x
  <1>2. /\ m \in Nat /\ DOMAIN s = 1 .. m /\ DOMAIN t = 1 .. m + 1 /\ Len(t) = m + 1
        /\ t[m + 1] = x /\ \A r \in 1 .. m : t[r] = s[r]
    <2>1. s \in Seq(Streams \X Seq(Nat))
      BY DEF Records
    <2>q. QED
      BY <1>1, <2>1
  <1> HIDE DEF t, m
  <1>3. \A r \in 0 .. m : LastPiece(n, t, r) = LastPiece(n, s, r)
    BY <1>2 DEF LastPiece
  <1>4. LastPiece(n, s, m) = last /\ n <= last
    BY DEF InOrder, m
  <1>5. LastPiece(n, t, m + 1) = last + 1
    BY <1>1, <1>2 DEF LastPiece
  <1>6. ASSUME NEW r \in DOMAIN t
        PROVE  /\ t[r][2] # <<>>
               /\ \A k \in DOMAIN t[r][2] :
                    t[r][2][k] = LastPiece(n, t, r - 1) + k /\ t[r][2][k] <= last + 1
    <2>1. CASE r = m + 1
      <3>1. t[r] = x /\ LastPiece(n, t, r - 1) = last
        BY <2>1, <1>2, <1>3, <1>4
      <3>q. QED
        BY <3>1, <1>1
    <2>2. CASE r # m + 1
      <3>1. r \in 1 .. m /\ r - 1 \in 0 .. m /\ r \in DOMAIN s
        BY <2>2, <1>2, <1>6
      <3>2. t[r] = s[r] /\ LastPiece(n, t, r - 1) = LastPiece(n, s, r - 1)
        BY <3>1, <1>2, <1>3
      <3>3. s[r][2] \in Seq(Nat)
        BY <3>1, RecordIs
      <3>4. /\ s[r][2] # <<>>
            /\ \A k \in DOMAIN s[r][2] :
                 s[r][2][k] = LastPiece(n, s, r - 1) + k /\ s[r][2][k] <= last
        BY <3>1 DEF InOrder, GoOn
      <3>q. QED
        BY <3>2, <3>3, <3>4
    <2>q. QED
      BY <2>1, <2>2
  <1>q. QED
    BY <1>2, <1>4, <1>5, <1>6 DEF InOrder, GoOn, t, x

\* Or goes on in the last one.
LEMMA GoneOnInOrder ==
    ASSUME NEW n \in Nat, NEW last \in Nat, NEW s \in Records, s # <<>>, InOrder(n, s, last),
           NEW stream \in Streams
    PROVE  InOrder(n, Append(Front(s), <<stream, Append(Last(s)[2], last + 1)>>), last + 1)
  <1> DEFINE m == Len(s)
             q == s[m][2]
             y == Append(q, last + 1)
             x == <<stream, y>>
             t == Append(Front(s), x)
  <1>1. /\ m \in Nat \ {0} /\ m \in DOMAIN s /\ DOMAIN s = 1 .. m /\ Last(s) = s[m]
    BY DEF Records, Last
  <1>2. q \in Seq(Nat) /\ q # <<>> /\ Len(q) \in Nat \ {0} /\ DOMAIN q = 1 .. Len(q)
        /\ \A k \in DOMAIN q : q[k] = LastPiece(n, s, m - 1) + k /\ q[k] <= last
        /\ last = q[Len(q)]
    <2>1. q \in Seq(Nat)
      BY <1>1, RecordIs
    <2>2. q # <<>> /\ \A k \in DOMAIN q : q[k] = LastPiece(n, s, m - 1) + k /\ q[k] <= last
      BY <1>1 DEF InOrder, GoOn
    <2>3. last = Last(q)
      BY <1>1 DEF InOrder, LastPiece
    <2>q. QED
      BY <2>1, <2>2, <2>3 DEF Last
  <1>3. y \in Seq(Nat) /\ y # <<>> /\ DOMAIN y = 1 .. Len(q) + 1 /\ Last(y) = last + 1
        /\ y[Len(q) + 1] = last + 1 /\ \A k \in 1 .. Len(q) : y[k] = q[k]
    <2> HIDE DEF q
    <2>q. QED
      BY <1>2 DEF Last
  <1>4. x \in Streams \X Seq(Nat) /\ x[2] = y
    BY <1>3
  <1> HIDE DEF x
  <1>5. /\ Len(t) = m /\ DOMAIN t = 1 .. m /\ t[m] = x
        /\ \A r \in 1 .. m : r < m => t[r] = s[r]
    <2> DEFINE R == Streams \X Seq(Nat)
    <2>1. s \in Seq(R) /\ x \in R
      BY <1>4 DEF Records
    <2> HIDE DEF R
    <2>2. /\ Len(Append(Front(s), x)) = Len(s) /\ DOMAIN Append(Front(s), x) = DOMAIN s
          /\ Append(Front(s), x)[Len(s)] = x
          /\ \A r \in DOMAIN s : r < Len(s) => Append(Front(s), x)[r] = s[r]
      BY <2>1, Replaced
    <2>q. QED
      BY <2>2, <1>1
  <1> HIDE DEF t, m, q, y
  <1>6. \A r \in 0 .. m - 1 : LastPiece(n, t, r) = LastPiece(n, s, r)
    BY <1>1, <1>5 DEF LastPiece
  <1>7. LastPiece(n, t, m) = last + 1
    BY <1>1, <1>3, <1>4, <1>5 DEF LastPiece
  <1>8. ASSUME NEW r \in DOMAIN t
        PROVE  /\ t[r][2] # <<>>
               /\ \A k \in DOMAIN t[r][2] :
                    t[r][2][k] = LastPiece(n, t, r - 1) + k /\ t[r][2][k] <= last + 1
    <2>1. CASE r = m
      <3>1. t[r][2] = y /\ LastPiece(n, t, r - 1) = LastPiece(n, s, m - 1)
        BY <2>1, <1>1, <1>4, <1>5, <1>6
      <3> DEFINE p == LastPiece(n, s, m - 1)
      <3>2. \A k \in 1 .. Len(q) : q[k] = p + k /\ q[k] <= last
        BY <1>2
      <3>p. p + Len(q) = last
        BY <1>2
      <3>3. p \in Int
        <4>1. CASE m - 1 = 0
          BY <4>1 DEF LastPiece
        <4>2. CASE m - 1 # 0
          <5>1. m - 1 \in DOMAIN s
            BY <4>2, <1>1
          <5>2. s[m - 1][2] \in Seq(Nat) /\ s[m - 1][2] # <<>>
            BY <5>1, RecordIs DEF InOrder, GoOn
          <5>3. Last(s[m - 1][2]) \in Nat
            BY <5>2 DEF Last
          <5>q. QED
            BY <4>2, <5>3 DEF LastPiece
        <4>q. QED
          BY <4>1, <4>2
      <3> HIDE DEF p
      <3>4. ASSUME NEW k \in 1 .. Len(q) + 1
            PROVE  y[k] = p + k /\ y[k] <= last + 1
        <4>1. CASE k \in 1 .. Len(q)
          <5>1. y[k] = p + k /\ y[k] <= last
            BY <4>1, <3>2, <1>3
          <5>q. QED
            BY <5>1, <3>3, <4>1
        <4>2. CASE k = Len(q) + 1
          BY <4>2, <1>2, <1>3, <3>3, <3>p
        <4>q. QED
          BY <4>1, <4>2, <1>2, <3>4
      <3>q. QED
        BY <3>1, <3>4, <1>3 DEF p
    <2>2. CASE r # m
      <3>1. r \in 1 .. m - 1 /\ r - 1 \in 0 .. m - 1 /\ r \in DOMAIN s
        BY <2>2, <1>1, <1>5, <1>8
      <3>2. t[r] = s[r] /\ LastPiece(n, t, r - 1) = LastPiece(n, s, r - 1)
        BY <3>1, <1>1, <1>5, <1>6
      <3>3. s[r][2] \in Seq(Nat)
        BY <3>1, RecordIs
      <3>4. /\ s[r][2] # <<>>
            /\ \A k \in DOMAIN s[r][2] :
                 s[r][2][k] = LastPiece(n, s, r - 1) + k /\ s[r][2][k] <= last
        BY <3>1 DEF InOrder, GoOn
      <3>q. QED
        BY <3>2, <3>3, <3>4
    <2>q. QED
      BY <2>1, <2>2
  <1>9. InOrder(n, t, last + 1)
    BY <1>5, <1>7, <1>8 DEF InOrder, GoOn
  <1>q. QED
    BY <1>1, <1>9 DEF t, x, y, q

\* A record that is written is what follows, and what follows it is left.
LEMMA WrittenInOrder ==
    ASSUME NEW n \in Nat, NEW last \in Nat, NEW s \in Records, s # <<>>, InOrder(n, s, last)
    PROVE  LET q == Head(s)[2] IN
           /\ q \in Seq(Nat) /\ \A k \in 1 .. Len(q) : q[k] = n + k
           /\ InOrder(n + Len(q), Tail(s), last)
  <1> DEFINE q == Head(s)[2]
             t == Tail(s)
             m == Len(s)
  <1>1. m \in Nat \ {0} /\ DOMAIN s = 1 .. m /\ Head(s) = s[1] /\ 1 \in DOMAIN s
        /\ Len(t) = m - 1 /\ DOMAIN t = 1 .. m - 1 /\ \A r \in 1 .. m - 1 : t[r] = s[r + 1]
    BY DEF Records
  <1>2. q \in Seq(Nat) /\ q # <<>> /\ Last(q) = q[Len(q)] /\ Len(q) \in Nat \ {0}
        /\ DOMAIN q = 1 .. Len(q)
    <2>1. q \in Seq(Nat)
      BY <1>1, RecordIs
    <2>2. q # <<>>
      BY <1>1 DEF InOrder, GoOn
    <2>q. QED
      BY <2>1, <2>2 DEF Last
  <1>3. \A k \in 1 .. Len(q) : q[k] = n + k /\ q[k] <= last
    <2>1. LastPiece(n, s, 0) = n
      BY DEF LastPiece
    <2>q. QED
      BY <2>1, <1>1, <1>2 DEF InOrder, GoOn
  <1>4. q[Len(q)] = n + Len(q) /\ n + Len(q) <= last
    BY <1>2, <1>3
  <1> HIDE DEF q, t, m
  <1>5. \A r \in 0 .. m - 1 : LastPiece(n + Len(q), t, r) = LastPiece(n, s, r + 1)
    <2> TAKE r \in 0 .. m - 1
    <2>1. CASE r = 0
      <3>1. LastPiece(n, s, 1) = Last(q)
        BY <1>1 DEF LastPiece, q
      <3>q. QED
        BY <3>1, <2>1, <1>2, <1>4 DEF LastPiece
    <2>2. CASE r # 0
      BY <2>2, <1>1 DEF LastPiece
    <2>q. QED
      BY <2>1, <2>2
  <1>6. ASSUME NEW r \in DOMAIN t
        PROVE  /\ t[r][2] # <<>>
               /\ \A k \in DOMAIN t[r][2] :
                    t[r][2][k] = LastPiece(n + Len(q), t, r - 1) + k /\ t[r][2][k] <= last
    <2>1. r \in 1 .. m - 1 /\ r - 1 \in 0 .. m - 1 /\ r + 1 \in DOMAIN s /\ (r + 1) - 1 = (r - 1) + 1
      BY <1>1
    <2>2. t[r] = s[r + 1] /\ LastPiece(n + Len(q), t, r - 1) = LastPiece(n, s, (r + 1) - 1)
      BY <2>1, <1>1, <1>5
    <2>3. /\ s[r + 1][2] # <<>>
          /\ \A k \in DOMAIN s[r + 1][2] :
               /\ s[r + 1][2][k] = LastPiece(n, s, (r + 1) - 1) + k
               /\ s[r + 1][2][k] <= last
      BY <2>1 DEF InOrder, GoOn
    <2>q. QED
      BY <2>2, <2>3
  <1>7. LastPiece(n + Len(q), t, Len(t)) = last
    <2>1. LastPiece(n, s, m) = last
      BY DEF InOrder, m
    <2>q. QED
      BY <2>1, <1>1, <1>5
  <1>8. InOrder(n + Len(q), t, last)
    BY <1>1, <1>4, <1>6, <1>7 DEF InOrder, GoOn
  <1>q. QED
    BY <1>2, <1>3, <1>8 DEF q, t

\* What is shown goes on with it.
LEMMA ShownOn ==
    ASSUME NEW o \in Seq(Nat), o = [i \in 1 .. Len(o) |-> i], NEW q \in Seq(Nat),
           \A k \in 1 .. Len(q) : q[k] = Len(o) + k
    PROVE  /\ o \o q = [i \in 1 .. Len(o \o q) |-> i] /\ Len(o \o q) = Len(o) + Len(q)
  <1>1. Len(o \o q) = Len(o) + Len(q) /\ DOMAIN (o \o q) = 1 .. Len(o) + Len(q)
        /\ o \o q \in Seq(Nat)
    OBVIOUS
  <1>2. ASSUME NEW i \in 1 .. Len(o) + Len(q)
        PROVE  (o \o q)[i] = i
    <2>1. CASE i <= Len(o)
      BY <2>1
    <2>2. CASE i > Len(o)
      <3>1. i - Len(o) \in 1 .. Len(q) /\ (o \o q)[i] = q[i - Len(o)]
        BY <2>2
      <3>q. QED
        BY <3>1
    <2>q. QED
      BY <2>1, <2>2
  <1> DEFINE w == o \o q
  <1> HIDE DEF w
  <1>3. w \in Seq(Nat) /\ DOMAIN w = 1 .. Len(w) /\ \A i \in 1 .. Len(w) : w[i] = i
    BY <1>1, <1>2 DEF w
  <1>4. w = [i \in 1 .. Len(w) |-> i]
    BY <1>3
  <1>q. QED
    BY <1>1, <1>4 DEF w

-----------------------------------------------------------------------------
(* What a step makes of the stack. *)

SameDepth == Len(stack') = Len(stack) /\ KeptBelow
OneLess == Len(stack) > 1 /\ Len(stack') = Len(stack) - 1 /\ KeptBelow
OneMore ==
    /\ Len(stack') = Len(stack) + 1 /\ Len(stack) < MaxDepth /\ KeptBelow
    /\ stack'[Len(stack)].mode = "native" => stack'[Len(stack)].touched
Moves == (SameDepth \/ OneLess \/ OneMore) /\ stack'[1].fn = stack[1].fn

\* What every step is shown to do.
Goes ==
    /\ Moves /\ Ordered' /\ FirstKept'
    /\ after' = "python" => Len(stack') < MaxDepth
    /\ printed' <= MaxPrinted

LEMMA StackIs ==
    ASSUME Ruled
    PROVE  /\ stack \in Seq(Frames) /\ stack # <<>> /\ Len(stack) \in Nat \ {0}
           /\ DOMAIN stack = 1 .. Len(stack) /\ Top \in Frames /\ Top = stack[Len(stack)]
           /\ 1 \in DOMAIN stack
  <1>1. stack \in Seq(Frames) /\ stack # <<>>
    BY DEF Ruled, Typed
  <1>2. Len(stack) \in Nat \ {0} /\ DOMAIN stack = 1 .. Len(stack) /\ Top \in Frames
        /\ Top = stack[Len(stack)]
    BY TopFrame DEF Ruled
  <1>q. QED
    BY <1>1, <1>2

LEMMA StackWillBe ==
    ASSUME Ruled'
    PROVE  /\ Len(stack') \in Nat \ {0} /\ DOMAIN stack' = 1 .. Len(stack')
           /\ Top' = stack'[Len(stack')]
  <1>1. stack' \in Seq(Frames)' /\ stack' # <<>>
    BY DEF Ruled, Typed
  <1> DEFINE S == Frames'
  <1>2. stack' \in Seq(S)
    BY <1>1
  <1> HIDE DEF S
  <1>q. QED
    BY <1>1, <1>2 DEF Top, Last

\* Depths before and after.
LEMMA DepthIs ==
    ASSUME NEW n \in Nat \ {0}, NEW m \in Nat, NEW most \in Nat,
           m = n \/ m = n - 1 \/ (m = n + 1 /\ n < most)
    PROVE  /\ n <= most => m <= most
           /\ \A i \in 1 .. m : i < m /\ ~(i < n) => i = n /\ m = n + 1
           /\ n # 1 => 1 < n
  OBVIOUS

LEMMA UnderKept ==
    ASSUME Ruled, Ruled', Under, Moves
    PROVE  Under' /\ (Len(stack) <= MaxDepth => Len(stack') <= MaxDepth)
  <1>1. Len(stack) \in Nat \ {0} /\ DOMAIN stack = 1 .. Len(stack)
    BY StackIs
  <1>2. DOMAIN stack' = 1 .. Len(stack') /\ Len(stack') \in Nat
    BY StackWillBe
  <1>5. \/ Len(stack') = Len(stack) \/ Len(stack') = Len(stack) - 1
        \/ OneMore /\ Len(stack') = Len(stack) + 1 /\ Len(stack) < MaxDepth
    BY DEF Moves, SameDepth, OneLess, OneMore
  <1>6. MaxDepth \in Nat
    BY BoundsAssumption
  <1>7. /\ Len(stack) <= MaxDepth => Len(stack') <= MaxDepth
        /\ \A i \in 1 .. Len(stack') : i < Len(stack') /\ ~(i < Len(stack)) =>
                i = Len(stack) /\ Len(stack') = Len(stack) + 1
    BY <1>1, <1>2, <1>5, <1>6, DepthIs
  <1>3. ASSUME NEW i \in DOMAIN stack', i < Len(stack'), stack'[i].mode = "native"
        PROVE  stack'[i].touched
    <2>1. CASE i < Len(stack)
      <3>1. i \in DOMAIN stack
        BY <2>1, <1>1, <1>2
      <3>2. stack'[i].mode = stack[i].mode /\ stack'[i].touched = stack[i].touched
        BY <3>1, <2>1 DEF Moves, SameDepth, OneLess, OneMore, KeptBelow
      <3>q. QED
        BY <3>1, <3>2, <2>1, <1>3 DEF Under
    <2>2. CASE ~(i < Len(stack))
      <3>1. i = Len(stack) /\ Len(stack') = Len(stack) + 1
        BY <2>2, <1>2, <1>3, <1>7
      <3>2. OneMore
        BY <3>1, <1>1, <1>5
      <3>q. QED
        BY <3>1, <3>2, <1>3 DEF OneMore
    <2>q. QED
      BY <2>1, <2>2
  <1>q. QED
    BY <1>3, <1>7 DEF Under

\* Who is the innermost again is marked, if it is a native call.
LEMMA BackMarked ==
    ASSUME Ruled, Ruled', Told', Under, OneLess, after' = "none", Top'.mode = "native"
    PROVE  crossed'
  <1> DEFINE n == Len(stack')
  <1>1. Len(stack) \in Nat \ {0} /\ DOMAIN stack = 1 .. Len(stack)
    BY StackIs
  <1>2. n \in Nat \ {0} /\ DOMAIN stack' = 1 .. n /\ Top' = stack'[n]
    BY StackWillBe
  <1>3. n \in DOMAIN stack /\ n < Len(stack)
    BY <1>1, <1>2 DEF OneLess
  <1>4. stack'[n].touched
    BY <1>2, <1>3 DEF OneLess, KeptBelow, Under
  <1>5. Entered' = {i \in 1 .. n : stack'[i].mode = "native"}
    BY <1>2 DEF Entered
  <1>6. n \in Entered' /\ \A k \in Entered' : k <= n
    BY <1>2, <1>5
  <1>q. QED
    BY <1>4, <1>6 DEF Told

LEMMA StayMoves ==
    ASSUME Ruled, stack' = stack
    PROVE  SameDepth /\ Moves /\ Top' = Top
  BY DEF SameDepth, Moves, KeptBelow, Top

LEMMA SwapMoves ==
    ASSUME Ruled, NEW frame, stack' = Append(Front(stack), frame), frame.fn = Top.fn
    PROVE  SameDepth /\ Moves /\ Top' = frame
  <1>1. SameDepth
    BY TopReplaced DEF SameDepth
  <1>2. stack \in Seq(Frames \cup {frame}) /\ stack # <<>> /\ frame \in Frames \cup {frame}
    BY StackIs, Wider
  <1>3. /\ stack'[Len(stack)] = frame /\ Last(stack') = frame
        /\ \A i \in DOMAIN stack : i < Len(stack) => stack'[i] = stack[i]
    BY <1>2, Replaced
  <1>4. stack'[1].fn = stack[1].fn
    <2>1. CASE Len(stack) = 1
      BY <2>1, <1>3, StackIs
    <2>2. CASE Len(stack) # 1
      <3>1. 1 \in DOMAIN stack /\ 1 < Len(stack)
        BY <2>2, StackIs
      <3>q. QED
        BY <3>1, <1>3
    <2>q. QED
      BY <2>1, <2>2
  <1>q. QED
    BY <1>1, <1>3, <1>4 DEF Moves, Top

LEMMA PopMoves ==
    ASSUME Ruled, Len(stack) > 1, stack' = Below
    PROVE  OneLess /\ Moves
  <1>1. OneLess
    BY TopPopped DEF OneLess
  <1>2. stack \in Seq(Frames)
    BY StackIs
  <1>3. DOMAIN stack' = 1 .. Len(stack) - 1 /\ \A i \in DOMAIN stack' : stack'[i] = stack[i]
    BY <1>2, Popped DEF Below
  <1>4. 1 \in 1 .. Len(stack) - 1
    BY StackIs
  <1>5. stack'[1] = stack[1]
    BY <1>3, <1>4
  <1>q. QED
    BY <1>1, <1>5 DEF Moves

LEMMA ReturnMoves ==
    ASSUME Ruled, Still, Len(stack) > 1, stack' = Returned
    PROVE  OneLess /\ Moves
  <1>1. OneLess
    BY ReturnStacked DEF Ruled, OneLess, KeptBelow
  <1>2. stack \in Seq(Frames) /\ Len(stack) \in Nat
    BY StackIs
  <1>3. /\ Below \in Seq(Frames) /\ Below # <<>> /\ Len(Below) = Len(stack) - 1
        /\ DOMAIN Below = 1 .. Len(stack) - 1 /\ \A i \in DOMAIN Below : Below[i] = stack[i]
    <2>1. LET t == Front(stack) IN
          /\ t \in Seq(Frames) /\ t # <<>> /\ Len(t) = Len(stack) - 1
          /\ DOMAIN t = 1 .. Len(stack) - 1 /\ \A i \in DOMAIN t : t[i] = stack[i]
      BY <1>2, Popped
    <2>q. QED
      BY <2>1 DEF Below
  <1> DEFINE b == Below
             caller == Last(b)
             moved == [caller EXCEPT !.at = Moved(@)]
  <1>4. caller = b[Len(b)] /\ Len(b) \in Nat \ {0} /\ 1 \in DOMAIN b /\ caller \in Frames
    BY <1>2, <1>3 DEF Last
  <1>5. stack'[1].fn = b[1].fn
    <2>1. CASE caller.at = <<>>
      BY <2>1 DEF Returned
    <2>2. CASE caller.at # <<>>
      <3>1. stack' = Append(Front(b), moved)
        BY <2>2 DEF Returned
      <3>2. moved.fn = caller.fn
        BY <1>4 DEF Frames
      <3> HIDE DEF moved, caller
      <3>3. b \in Seq(Frames \cup {moved}) /\ moved \in Frames \cup {moved}
        BY <1>3, Wider
      <3>4. /\ stack'[Len(b)] = moved
            /\ \A i \in DOMAIN b : i < Len(b) => stack'[i] = b[i]
        BY <3>1, <3>3, <1>3, Replaced
      <3>5. CASE Len(b) = 1
        BY <3>2, <3>4, <3>5, <1>4
      <3>6. CASE Len(b) # 1
        <4>1. 1 < Len(b)
          BY <3>6, <1>4, DepthIs
        <4>q. QED
          BY <4>1, <3>4, <1>4
      <3>q. QED
        BY <3>5, <3>6
    <2>q. QED
      BY <2>1, <2>2
  <1>6. b[1] = stack[1]
    BY <1>3, <1>4
  <1>q. QED
    BY <1>1, <1>5, <1>6 DEF Moves

LEMMA PushMoves ==
    ASSUME Ruled, Len(stack) < MaxDepth, Top.mode = "python", NEW frame \in Frames,
           stack' = Append(stack, frame)
    PROVE  OneMore /\ Moves /\ Top' = frame
  <1>1. stack \in Seq(Frames)
    BY StackIs
  <1>2. /\ Len(stack') = Len(stack) + 1 /\ Last(stack') = frame
        /\ \A i \in DOMAIN stack : stack'[i] = stack[i]
    BY <1>1, Pushed
  <1>3. Len(stack) \in DOMAIN stack /\ 1 \in DOMAIN stack /\ Top = stack[Len(stack)]
    BY StackIs
  <1>4. KeptBelow /\ stack'[Len(stack)].mode = "python"
    BY <1>2, <1>3 DEF KeptBelow
  <1>q. QED
    BY <1>2, <1>3, <1>4 DEF OneMore, Moves, Top

-----------------------------------------------------------------------------
(* The steps. *)

Before == Ruled /\ Calling /\ Ruled' /\ Told' /\ Ordered /\ FirstKept /\ Under /\ Bounded

\* Output stays as it is.
LEMMA OrderedStays ==
    ASSUME Before, out' = out, held' = held, writing' = writing, printed' = printed,
           after' = "none" <=> after = "none"
    PROVE  Ordered' /\ printed' <= MaxPrinted
  BY DEF Before, Ordered, Bounded

\* The innermost call is popped.
LEMMA BackKept ==
    ASSUME Before, OneLess, after' = "none"
    PROVE  FirstKept'
  BY BackMarked DEF Before, FirstKept

LEMMA EmptyBefore ==
    ASSUME Before
    PROVE  /\ out \in Seq(Nat) /\ Len(out) \in Nat /\ held \in Records /\ writing \in Records
           /\ printed \in Nat
           /\ after # "none" \/ Top.mode = "python" => held = <<>>
           /\ after = "none" => writing = <<>> /\ InOrder(Len(out), held, printed)
           /\ after = "none" /\ Top.mode = "python" => printed = Len(out)
           /\ Len(out) <= printed
  <1>1. out \in Seq(Nat) /\ held \in Records /\ writing \in Records /\ printed \in Nat
    BY DEF Before, Ruled, Typed, Data
  <1>2. Len(out) \in Nat
    BY <1>1
  <1>3. after # "none" \/ Top.mode = "python" => held = <<>>
    BY DEF Before, Ruled, HeldByNative
  <1>4. /\ after = "none" => writing = <<>> /\ InOrder(Len(out), held, printed)
        /\ Len(out) <= printed
    BY DEF Before, Ordered, InOrder
  <1>5. after = "none" /\ Top.mode = "python" => printed = Len(out)
    BY <1>2, <1>3, <1>4, NothingWaits
  <1>q. QED
    BY <1>1, <1>2, <1>3, <1>4, <1>5

LEMMA ElsewhereSame ==
    ASSUME NEW frame \in Frames, NEW at
    PROVE  /\ [frame EXCEPT !.at = at].mode = frame.mode
           /\ [frame EXCEPT !.at = at].fn = frame.fn
           /\ [frame EXCEPT !.at = at].first = frame.first
  BY DEF Frames

LEMMA TouchedSame ==
    ASSUME NEW frame \in Frames
    PROVE  /\ Touch(frame) \in Frames
           /\ Touch(frame).mode = frame.mode /\ Touch(frame).fn = frame.fn
           /\ Touch(frame).first = frame.first /\ Touch(frame).touched = TRUE
  BY DEF Frames, Touch

\* The innermost frame goes elsewhere.
LEMMA SwapKept ==
    ASSUME Before, NEW at, stack' = Append(Front(stack), [Top EXCEPT !.at = at]),
           crossed' = crossed, after = "none", out' = out
    PROVE  Moves /\ FirstKept'
  <1> DEFINE frame == [Top EXCEPT !.at = at]
  <1>1. frame.mode = Top.mode /\ frame.fn = Top.fn /\ frame.first = Top.first
    BY StackIs, ElsewhereSame DEF Before
  <1>2. stack' = Append(Front(stack), frame)
    OBVIOUS
  <1> HIDE DEF frame
  <1>3. Moves /\ Top' = frame
    BY <1>1, <1>2, SwapMoves DEF Before
  <1>q. QED
    BY <1>1, <1>3 DEF Before, FirstKept

LEMMA WithinGoes ==
    ASSUME Before,
           Pass \/ NativeCall \/ NativeReturn \/ Branch \/ Unwind \/ PythonPass \/ PureReturn
    PROVE  Goes
  <1>1. /\ after = "none" /\ after' = "none" /\ crossed' = crossed /\ out' = out /\ held' = held
        /\ writing' = writing /\ printed' = printed
    BY DEF Pass, NativeCall, NativeReturn, Branch, Unwind, PythonPass, PureReturn, AtOp, AtEnd, Runs,
           Ready, Before, Calling, Stands, ioVars
  <1>2. \E at : stack' = Append(Front(stack), [Top EXCEPT !.at = at])
    BY DEF Pass, NativeCall, NativeReturn, Branch, Unwind, PythonPass, PureReturn, Advance, Replace,
           Below
  <1>3. Moves /\ FirstKept'
    BY <1>1, <1>2, SwapKept
  <1>q. QED
    BY <1>1, <1>3, OrderedStays DEF Goes

LEMMA RaiseGoes ==
    ASSUME Before, Raise \/ PureCall \/ PureRaise \/ UNCHANGED vars
    PROVE  Goes
  <1>1. /\ stack' = stack /\ after' = after /\ crossed' = crossed /\ out' = out /\ held' = held
        /\ writing' = writing /\ printed' = printed
    BY DEF Raise, PureCall, PureRaise, vars, ioVars
  <1>2. Moves /\ Top' = Top
    BY <1>1, StayMoves DEF Before
  <1>3. FirstKept' /\ (after' = "python" => Len(stack') < MaxDepth)
    BY <1>1, <1>2 DEF Before, FirstKept, Bounded
  <1>q. QED
    BY <1>1, <1>2, <1>3, OrderedStays DEF Goes

LEMMA CatchGoes ==
    ASSUME Before, Catch
    PROVE  Goes
  <1>1. /\ after = "none" /\ after' = "none" /\ crossed' = crossed /\ out' = out /\ held' = held
        /\ writing' = writing /\ printed' = printed
    BY DEF Catch, ioVars
  <1>2. CASE Top.at = <<>>
    <2>1. Moves /\ Top' = Top
      BY <1>2, StayMoves DEF Catch, Before
    <2>2. FirstKept'
      BY <1>1, <2>1 DEF Before, FirstKept
    <2>q. QED
      BY <1>1, <2>1, <2>2, OrderedStays DEF Goes
  <1>3. CASE Top.at # <<>>
    <2>1. stack' = Append(Front(stack), [Top EXCEPT !.at = Moved(@)])
      BY <1>3 DEF Catch, Below
    <2>2. Moves /\ FirstKept'
      BY <1>1, <2>1, SwapKept
    <2>q. QED
      BY <1>1, <2>2, OrderedStays DEF Goes
  <1>q. QED
    BY <1>2, <1>3

\* A print goes into a record, new or open.
LEMMA PrintGoes ==
    ASSUME Before, NativePrint
    PROVE  Goes
  <1>1. /\ after = "none" /\ after' = "none" /\ crossed' = crossed /\ out' = out
        /\ writing' = writing /\ printed' = printed + 1 /\ printed < MaxPrinted
        /\ stack' = Append(Front(stack), [Top EXCEPT !.at = Moved(@)])
        /\ Put(Op[2])
    BY DEF NativePrint, Prints, Advance, Replace, Below, AtOp, Runs, Ready
  <1>2. Op[2] \in Streams
    BY AtOperation, Kinds DEF NativePrint, Before
  <1>3. Moves /\ FirstKept'
    BY <1>1, SwapKept
  <1>4. InOrder(Len(out), held', printed + 1)
    <2>1. InOrder(Len(out), held, printed) /\ Len(out) \in Nat /\ printed \in Nat /\ held \in Records
      BY <1>1, EmptyBefore
    <2>2. CASE held # <<>> /\ Last(held)[1] = Op[2]
      BY <2>1, <2>2, <1>1, <1>2, GoneOnInOrder DEF Put
    <2>3. CASE ~(held # <<>> /\ Last(held)[1] = Op[2])
      BY <2>1, <2>3, <1>1, <1>2, OpenedInOrder DEF Put
    <2>q. QED
      BY <2>2, <2>3
  <1>5. Ordered'
    BY <1>1, <1>4 DEF Before, Ordered
  <1>6. printed + 1 <= MaxPrinted
    BY <1>1, EmptyBefore, BoundsAssumption
  <1>q. QED
    BY <1>1, <1>3, <1>5, <1>6 DEF Goes

\* What is held is what is to be written.
LEMMA Committed ==
    ASSUME Before, after = "none", NEW then, then # "none", Commit(then), printed' = printed
    PROVE  Ordered' /\ printed' <= MaxPrinted
  BY EmptyBefore DEF Commit, Before, Ordered, Bounded

LEMMA ReachBarrierGoes ==
    ASSUME Before, ReachBarrier
    PROVE  Goes
  <1>1. after = "none" /\ Len(stack) < MaxDepth /\ stack' = stack /\ crossed' /\ printed' = printed
        /\ Op[1] # "none" /\ Commit(Op[1])
    BY DEF ReachBarrier, CallPython, AtOp, Runs, Ready, Barriers
  <1>2. Moves /\ FirstKept'
    BY <1>1, StayMoves DEF Before, FirstKept
  <1>q. QED
    BY <1>1, <1>2, Committed DEF Goes

LEMMA EndGoes ==
    ASSUME Before, after = "none", stack' = stack, NEW then \in {"answer", "raise"}, Commit(then),
           printed' = printed
    PROVE  Goes
  <1>1. Moves /\ FirstKept'
    BY StayMoves DEF Before, FirstKept, Commit
  <1>2. Ordered' /\ printed' <= MaxPrinted /\ after' # "python"
    BY Committed DEF Commit
  <1>q. QED
    BY <1>1, <1>2 DEF Goes

\* A call that falls back printed nothing that was shown.
LEMMA FallBackGoes ==
    ASSUME Before, after = "none", after' = "none", Top.mode = "native", ~crossed, FallBack,
           writing' = writing, out' = out
    PROVE  Goes
  <1> DEFINE frame == [Frame(Top.fn, "python", FALSE) EXCEPT !.first = Top.first]
  <1>1. frame.mode = "python" /\ frame.fn = Top.fn
    BY DEF Frame
  <1>2. stack' = Append(Front(stack), frame) /\ held' = <<>> /\ printed' = Top.first
    BY DEF FallBack, Replace, Below
  <1> HIDE DEF frame
  <1>3. Moves /\ Top' = frame
    BY <1>1, <1>2, SwapMoves DEF Before
  <1>4. printed' = Len(out) /\ Len(out) <= printed /\ Len(out) \in Nat /\ printed \in Nat
        /\ writing = <<>>
    BY <1>2, EmptyBefore DEF Before, FirstKept
  <1>5. Ordered'
    BY <1>2, <1>4, NothingWaits DEF Before, Ordered
  <1>6. printed' <= MaxPrinted
    <2>1. MaxPrinted \in Nat /\ printed <= MaxPrinted
      BY BoundsAssumption DEF Before, Bounded
    <2>q. QED
      BY <2>1, <1>4
  <1>q. QED
    BY <1>1, <1>3, <1>5, <1>6 DEF Goes, FirstKept

\* What a call held is dropped as it is popped.
LEMMA DroppedGoes ==
    ASSUME Before, Top.mode = "native", stack' = Below, after' = "none", held' = <<>>,
           writing' = <<>>, out' = out, printed' = Len(out)
    PROVE  Goes
  <1>1. OneLess /\ Moves
    BY NativeAbove, PopMoves DEF Before
  <1>2. FirstKept'
    BY <1>1, BackKept
  <1>3. Len(out) <= printed /\ Len(out) \in Nat /\ printed \in Nat
    BY EmptyBefore
  <1>4. Ordered'
    BY <1>3, NothingWaits DEF Before, Ordered
  <1>5. printed' <= MaxPrinted
    <2>1. MaxPrinted \in Nat /\ printed <= MaxPrinted
      BY BoundsAssumption DEF Before, Bounded
    <2>2. printed' = Len(out)
      OBVIOUS
    <2>q. QED
      BY <2>1, <2>2, <1>3
  <1>q. QED
    BY <1>1, <1>2, <1>4, <1>5 DEF Goes

LEMMA EndsGoes ==
    ASSUME Before, Answer \/ CheckFails \/ Leaves \/ Abandon
    PROVE  Goes
  <1>1. CASE Answer
    BY <1>1, AtTheEnd, EndGoes DEF Answer, Before
  <1>2. CASE CheckFails
    <2>1. Top.mode = "native" /\ after = "none" /\ ~crossed
      BY <1>2, AtOperation, BackUncrossed DEF CheckFails, Backs, Before
    <2>q. QED
      BY <1>2, <2>1, FallBackGoes DEF CheckFails
  <1>3. CASE Leaves
    <2>1. Top.mode = "native" /\ after = "none"
      BY <1>3 DEF Leaves
    <2>2. CASE ~crossed
      BY <1>3, <2>1, <2>2, FallBackGoes DEF Leaves
    <2>3. CASE crossed
      BY <1>3, <2>1, <2>3, EndGoes DEF Leaves
    <2>q. QED
      BY <2>2, <2>3
  <1>4. CASE Abandon
    <2>1. Top.mode = "native" /\ after = "none"
      BY <1>4, AtOperation DEF Abandon, Before
    <2>2. writing = <<>>
      BY <2>1, EmptyBefore
    <2>q. QED
      BY <1>4, <2>1, <2>2, DroppedGoes DEF Abandon
  <1>q. QED
    BY <1>1, <1>2, <1>3, <1>4

\* The next record of those that are written.
LEMMA WriteGoes ==
    ASSUME Before, Write
    PROVE  Goes
  <1>1. /\ after # "none" /\ writing # <<>> /\ after' = after /\ crossed' = crossed
        /\ out' = out \o Head(writing)[2] /\ writing' = Tail(writing) /\ printed' = printed
    BY DEF Write
  <1>2. Ordered'
    <2>1. /\ out \in Seq(Nat) /\ Len(out) \in Nat /\ writing \in Records /\ printed \in Nat
          /\ out = [i \in 1 .. Len(out) |-> i] /\ InOrder(Len(out), writing, printed)
      BY <1>1, EmptyBefore DEF Before, Ordered
    <2> DEFINE q == Head(writing)[2]
    <2>2. /\ q \in Seq(Nat) /\ \A k \in 1 .. Len(q) : q[k] = Len(out) + k
          /\ InOrder(Len(out) + Len(q), Tail(writing), printed)
      BY <2>1, <1>1, WrittenInOrder
    <2>3. out' = out \o q
      BY <1>1
    <2> HIDE DEF q
    <2>4. out' = [i \in 1 .. Len(out') |-> i] /\ Len(out') = Len(out) + Len(q)
      BY <2>1, <2>2, <2>3, ShownOn
    <2>q. QED
      BY <2>2, <2>4, <1>1 DEF Ordered
  <1>3. printed' <= MaxPrinted
    BY <1>1 DEF Before, Bounded
  <1>4. CASE after \in {"python", "flush"}
    <2>1. Top.mode = "native" /\ crossed /\ stack' = Append(Front(stack), Touch(Top))
      BY <1>4, AfterStalled DEF Write, Below, Before
    <2>2. Touch(Top).fn = Top.fn
      BY StackIs, TouchedSame DEF Before
    <2>3. Moves /\ SameDepth
      BY <2>1, <2>2, SwapMoves DEF Before
    <2>q. QED
      BY <2>1, <2>3, <1>1, <1>2, <1>3 DEF Goes, FirstKept, SameDepth, Before, Bounded
  <1>5. CASE after \notin {"python", "flush"}
    <2>1. stack' = stack /\ after \in {"answer", "raise"}
      BY <1>1, <1>5 DEF Write, Before, Ruled, Typed, Data
    <2>2. Moves
      BY <2>1, StayMoves DEF Before
    <2>q. QED
      BY <2>1, <2>2, <1>1, <1>2, <1>3 DEF Goes, FirstKept
  <1>q. QED
    BY <1>4, <1>5

LEMMA WriteRaisesGoes ==
    ASSUME Before, WriteRaises
    PROVE  Goes
  <1>1. /\ after # "none" /\ after' = "none" /\ crossed' = crossed /\ held' = held
        /\ out' = out /\ writing' = <<>> /\ printed' = Len(out)
    BY DEF WriteRaises
  <1>2. held = <<>> /\ Len(out) \in Nat /\ Len(out) <= printed /\ printed \in Nat
    BY <1>1, EmptyBefore
  <1>3. CASE after \in {"python", "flush"}
    <2>1. crossed /\ stack' = stack
      BY <1>3, AfterStalled DEF WriteRaises, Before
    <2>2. Moves
      BY <2>1, StayMoves DEF Before
    <2>3. Ordered'
      BY <1>1, <1>2, NothingWaits DEF Before, Ordered
    <2>4. MaxPrinted \in Nat /\ printed <= MaxPrinted
      BY BoundsAssumption DEF Before, Bounded
    <2>5. printed' <= MaxPrinted
      BY <2>4, <1>1, <1>2
    <2>q. QED
      BY <2>1, <2>2, <2>3, <2>5, <1>1 DEF Goes, FirstKept
  <1>4. CASE after \notin {"python", "flush"}
    <2>1. stack' = Below /\ Top.mode = "native"
      BY <1>1, <1>4 DEF WriteRaises, Before, Ruled, Writing
    <2>q. QED
      BY <2>1, <1>1, <1>2, DroppedGoes
  <1>q. QED
    BY <1>3, <1>4

\* All was written: nothing waits.
LEMMA AllWritten ==
    ASSUME Before, after # "none", writing = <<>>, after' = "none", out' = out, held' = held,
           writing' = writing, printed' = printed
    PROVE  Ordered' /\ printed' <= MaxPrinted
  <1>1. held = <<>> /\ InOrder(Len(out), <<>>, printed)
    BY EmptyBefore DEF Before, Ordered
  <1>q. QED
    BY <1>1 DEF Before, Ordered, Bounded

LEMMA EnterPythonGoes ==
    ASSUME Before, EnterPython
    PROVE  Goes
  <1> DEFINE caller == Touch(Top)
             middle == Append(Front(stack), caller)
             frame == Frame("", "python", FALSE)
  <1>1. Ordered' /\ printed' <= MaxPrinted /\ after' = "none" /\ Len(stack) < MaxDepth
    BY AllWritten DEF EnterPython, Before, Bounded
  <1>2. stack \in Seq(Frames) /\ stack # <<>> /\ Len(stack) \in Nat \ {0} /\ Top \in Frames
        /\ DOMAIN stack = 1 .. Len(stack) /\ Top = stack[Len(stack)] /\ 1 \in DOMAIN stack
    BY StackIs DEF Before
  <1>3. caller \in Frames /\ caller.fn = Top.fn /\ caller.touched = TRUE
    BY <1>2, TouchedSame
  <1>4. "" \in Names
    BY DEF Names
  <1>5. frame \in Frames /\ frame.mode = "python"
    BY <1>4, NewFrame DEF Before, Ruled
  <1>6. stack' = Append(middle, frame)
    BY DEF EnterPython, Below
  <1> HIDE DEF caller, frame
  <1>7. /\ middle \in Seq(Frames) /\ Len(middle) = Len(stack) /\ middle[Len(stack)] = caller
        /\ DOMAIN middle = DOMAIN stack
        /\ \A i \in DOMAIN stack : i < Len(stack) => middle[i] = stack[i]
    <2>1. stack \in Seq(Frames) /\ stack # <<>>
      BY <1>2
    <2>q. QED
      BY <2>1, <1>3, Replaced
  <1> HIDE DEF middle
  <1>8. /\ Len(stack') = Len(middle) + 1 /\ Last(stack') = frame
        /\ \A i \in DOMAIN middle : stack'[i] = middle[i]
    BY <1>5, <1>6, <1>7, Pushed
  <1>9. /\ KeptBelow /\ stack'[Len(stack)] = caller
    BY <1>2, <1>7, <1>8 DEF KeptBelow
  <1>10. stack'[1].fn = stack[1].fn
    <2>1. CASE Len(stack) = 1
      BY <2>1, <1>2, <1>3, <1>9
    <2>2. CASE Len(stack) # 1
      <3>1. 1 < Len(stack)
        BY <2>2, <1>2, DepthIs
      <3>q. QED
        BY <3>1, <1>2, <1>7, <1>8
    <2>q. QED
      BY <2>1, <2>2
  <1>11. OneMore /\ Moves
    BY <1>1, <1>3, <1>7, <1>8, <1>9, <1>10 DEF OneMore, Moves
  <1>12. Top' = frame
    BY <1>8 DEF Top
  <1>q. QED
    BY <1>1, <1>5, <1>11, <1>12 DEF Goes, FirstKept

LEMMA FlushGoes ==
    ASSUME Before, Flush \/ FlushRaises
    PROVE  Goes
  <1>1. Ordered' /\ printed' <= MaxPrinted /\ after' = "none" /\ crossed' = crossed
    BY AllWritten DEF Flush, FlushRaises
  <1>2. Top \in Frames /\ crossed
    BY StackIs, AfterStalled DEF Flush, FlushRaises, Before
  <1>3. Touch(Top) \in Frames /\ Touch(Top).fn = Top.fn
    BY <1>2, TouchedSame
  <1>4. \E frame : stack' = Append(Front(stack), frame) /\ frame.fn = Top.fn
    <2>1. CASE Flush
      <3> DEFINE touched == Touch(Top)
                 frame == [touched EXCEPT !.at = Moved(@)]
      <3>1. stack' = Append(Front(stack), frame)
        BY <2>1 DEF Flush, Below
      <3> HIDE DEF touched
      <3>2. frame.fn = touched.fn
        BY <1>3, ElsewhereSame DEF touched
      <3> HIDE DEF frame
      <3>q. QED
        BY <3>1, <3>2, <1>3 DEF touched
    <2>2. CASE FlushRaises
      BY <2>2, <1>3 DEF FlushRaises, Below
    <2>q. QED
      BY <2>1, <2>2
  <1>5. Moves
    BY <1>4, SwapMoves DEF Before
  <1>q. QED
    BY <1>1, <1>2, <1>5 DEF Goes, FirstKept

LEMMA DoneGoes ==
    ASSUME Before, Done
    PROVE  Goes
  <1>1. Ordered' /\ printed' <= MaxPrinted /\ after' = "none" /\ Still
    BY AllWritten DEF Done, Quiet, Still
  <1>2. Top.mode = "native" /\ Len(stack) > 1
    BY NativeAbove DEF Done, Before, Ruled, Writing
  <1>3. OneLess /\ Moves
    BY <1>1, <1>2, PopMoves, ReturnMoves DEF Done, Before
  <1>q. QED
    BY <1>1, <1>3, BackKept DEF Goes

-----------------------------------------------------------------------------
(* The steps of Python. *)

LEMMA PythonPrintGoes ==
    ASSUME Before, NEW s \in Streams, PythonPrint(s)
    PROVE  Goes
  <1>1. Top.mode = "python"
    BY DEF PythonPrint, Outside, AtOp, Runs
  <1>2. /\ after = "none" /\ after' = "none" /\ held = <<>> /\ printed = Len(out)
        /\ out \in Seq(Nat) /\ writing = <<>> /\ printed \in Nat /\ Len(out) \in Nat
    BY <1>1, PythonQuiet, EmptyBefore DEF PythonPrint, Before
  <1>3. /\ held' = <<>> /\ writing' = <<>> /\ printed' = printed + 1 /\ printed < MaxPrinted
        /\ out' = Append(out, printed + 1) /\ crossed' = crossed
    BY <1>2 DEF PythonPrint, Prints
  <1>4. Ordered'
    <2>1. <<printed + 1>> \in Seq(Nat) /\ out' = out \o <<printed + 1>>
          /\ \A k \in 1 .. Len(<<printed + 1>>) : <<printed + 1>>[k] = Len(out) + k
      BY <1>2, <1>3
    <2>2. out' = [i \in 1 .. Len(out') |-> i] /\ Len(out') = Len(out) + Len(<<printed + 1>>)
      BY <2>1, <1>2, ShownOn DEF Before, Ordered
    <2>3. Len(out') = printed' /\ Len(out') \in Nat
      BY <2>2, <1>2, <1>3
    <2>q. QED
      BY <2>2, <2>3, <1>2, <1>3, NothingWaits DEF Ordered
  <1>5. printed' <= MaxPrinted
    BY <1>2, <1>3, BoundsAssumption
  <1>6. Moves /\ Top'.mode = "python"
    <2>1. CASE Outside
      BY <2>1, <1>1, StayMoves DEF PythonPrint, Before
    <2>2. CASE ~Outside
      <3> DEFINE frame == [Top EXCEPT !.at = Moved(@)]
      <3>1. stack' = Append(Front(stack), frame)
        BY <2>2 DEF PythonPrint, Below
      <3>2. frame.fn = Top.fn /\ frame.mode = Top.mode
        BY StackIs, ElsewhereSame DEF Before
      <3> HIDE DEF frame
      <3>q. QED
        BY <3>1, <3>2, <1>1, SwapMoves DEF Before
    <2>q. QED
      BY <2>1, <2>2
  <1>q. QED
    BY <1>2, <1>4, <1>5, <1>6 DEF Goes, FirstKept

LEMMA PythonCallGoes ==
    ASSUME Before, NEW f \in Functions, PythonCall(f)
    PROVE  Goes
  <1>1. Top.mode = "python" /\ f \in Names /\ crossed \in BOOLEAN /\ Len(stack) < MaxDepth
    BY DEF PythonCall, Outside, AtOp, Runs, Before, Ruled, Typed, Data, Names
  <1>2. after = "none" /\ after' = "none" /\ printed = Len(out) /\ out' = out /\ Ordered'
        /\ printed' <= MaxPrinted
    BY <1>1, PythonQuiet, EmptyBefore, OrderedStays DEF PythonCall, Before
  <1>3. CASE f \in native
    <2> DEFINE frame == Frame(f, "native", crossed)
    <2>1. frame \in Frames
      BY <1>1, <1>3, NewFrame DEF Before, Ruled
    <2>2. stack' = Append(stack, frame) /\ frame.first = Len(out)
      BY <1>2, <1>3 DEF PythonCall, Frame
    <2> HIDE DEF frame
    <2>3. Moves /\ Top' = frame
      BY <2>1, <2>2, <1>1, PushMoves DEF Before
    <2>q. QED
      BY <2>2, <2>3, <1>2 DEF Goes, FirstKept
  <1>4. CASE f \notin native
    <2> DEFINE frame == Frame(f, "python", FALSE)
    <2>1. frame \in Frames /\ frame.mode = "python"
      BY <1>1, NewFrame DEF Before, Ruled
    <2>2. stack' = Append(stack, frame)
      BY <1>4 DEF PythonCall
    <2> HIDE DEF frame
    <2>3. Moves /\ Top' = frame
      BY <2>1, <2>2, <1>1, PushMoves DEF Before
    <2>q. QED
      BY <2>1, <2>3, <1>2 DEF Goes, FirstKept
  <1>q. QED
    BY <1>3, <1>4

LEMMA PythonGoes ==
    ASSUME Before, PythonCallsOut \/ PythonReturn \/ PythonRaise \/ PythonLeaves
    PROVE  Goes
  <1>1. Top.mode = "python"
    BY DEF PythonCallsOut, PythonReturn, PythonRaise, PythonLeaves, Outside, AtOp, AtEnd, Runs
  <1>2. after = "none" /\ after' = "none" /\ Still /\ Ordered' /\ printed' <= MaxPrinted
    BY <1>1, PythonQuiet, OrderedStays
       DEF PythonCallsOut, PythonReturn, PythonRaise, PythonLeaves, ioVars, Quiet, Still, Before
  <1>3. CASE PythonCallsOut
    <2>1. "" \in Names
      BY DEF Names
    <2> DEFINE frame == Frame("", "python", FALSE)
    <2>2. frame \in Frames /\ frame.mode = "python"
      BY <2>1, NewFrame DEF Before, Ruled
    <2>3. stack' = Append(stack, frame) /\ Len(stack) < MaxDepth
      BY <1>3 DEF PythonCallsOut
    <2> HIDE DEF frame
    <2>4. Moves /\ Top' = frame
      BY <2>2, <2>3, <1>1, PushMoves DEF Before
    <2>q. QED
      BY <2>2, <2>4, <1>2 DEF Goes, FirstKept
  <1>4. CASE PythonReturn
    <2>1. OneLess /\ Moves
      BY <1>2, <1>4, ReturnMoves DEF PythonReturn, Before
    <2>q. QED
      BY <2>1, <1>2, BackKept DEF Goes
  <1>5. CASE PythonRaise \/ PythonLeaves
    <2>1. OneLess /\ Moves
      BY <1>5, PopMoves DEF PythonRaise, PythonLeaves, Before
    <2>q. QED
      BY <2>1, <1>2, BackKept DEF Goes
  <1>q. QED
    BY <1>3, <1>4, <1>5

-----------------------------------------------------------------------------
(* The invariant, and what it says. *)

LEMMA FaultsCounted ==
    ASSUME Before, [Next]_vars
    PROVE  faults' \in 0 .. MaxFaults /\ wrong' \in BOOLEAN
  <1>1. faults \in 0 .. MaxFaults /\ wrong \in BOOLEAN /\ MaxFaults \in Nat
    BY BoundsAssumption DEF Before, Bounded
  <1>2. CASE Output
    <2>1. CASE WriteRaises \/ FlushRaises
      <3>1. faults' = faults + 1 /\ faults < MaxFaults /\ wrong' = wrong
        BY <2>1 DEF WriteRaises, FlushRaises
      <3>q. QED
        BY <3>1, <1>1
    <2>2. CASE Write \/ EnterPython \/ Flush \/ Done
      BY <2>2, <1>1 DEF Write, EnterPython, Flush, Done, Quiet
    <2>q. QED
      BY <2>1, <2>2, <1>2 DEF Output
  <1>3. CASE NativeStep
    BY <1>1, <1>3 DEF NativeStep, NativePrint, Pass, NativeCall, NativeReturn, Branch, ReachBarrier,
       PureCall, PureReturn, PureRaise, Raise, Catch, Unwind, Answer, CheckFails, Leaves, Abandon,
       Quiet
  <1>4. CASE PythonStep
    BY <1>1, <1>4 DEF PythonStep, PythonPrint, PythonCall, PythonPass, PythonCallsOut, PythonReturn,
       PythonRaise, PythonLeaves, Quiet
  <1>q. QED
    BY <1>1, <1>2, <1>3, <1>4 DEF Next, vars

LEMMA NextOutput == Output_IInv /\ [Next]_vars => Output_IInv'
  <1> SUFFICES ASSUME Output_IInv, [Next]_vars PROVE Output_IInv'
    OBVIOUS
  <1>1. IInv'
    BY NextTold DEF Output_IInv
  <1>2. Before
    BY <1>1 DEF Output_IInv, IInv, Before
  <1>3. Goes
    <2>1. CASE Output
      BY <2>1, <1>2, WriteGoes, WriteRaisesGoes, EnterPythonGoes, FlushGoes, DoneGoes DEF Output
    <2>2. CASE NativeStep
      BY <2>2, <1>2, PrintGoes, WithinGoes, ReachBarrierGoes, RaiseGoes, CatchGoes, EndsGoes
         DEF NativeStep
    <2>3. CASE PythonStep
      BY <2>3, <1>2, PythonPrintGoes, PythonCallGoes, WithinGoes, PythonGoes DEF PythonStep
    <2>4. CASE UNCHANGED vars
      BY <2>4, <1>2, RaiseGoes
    <2>q. QED
      BY <2>1, <2>2, <2>3, <2>4 DEF Next
  <1>4. Under' /\ Len(stack') <= MaxDepth
    BY <1>2, <1>3, UnderKept DEF Goes, Before, Bounded
  <1>5. Bounded'
    BY <1>2, <1>3, <1>4, FaultsCounted DEF Goes, Moves, Before, Bounded
  <1>q. QED
    BY <1>1, <1>3, <1>4, <1>5 DEF Goes, Output_IInv

LEMMA InitOutput == Init => Output_IInv
  <1> SUFFICES ASSUME Init PROVE Output_IInv
    OBVIOUS
  <1>1. IInv /\ Ruled
    BY InitTold DEF IInv
  <1> DEFINE frame == Frame("", "python", FALSE)
  <1>2. stack = <<frame>> /\ frame.mode = "python" /\ frame.fn = ""
    BY DEF Init, Frame
  <1> HIDE DEF frame
  <1>a. stack = <<frame>>
    BY <1>2
  <1>3. Len(stack) = 1 /\ stack[1] = frame /\ DOMAIN stack = 1 .. 1
    BY <1>a
  <1>4. Top = frame
    BY <1>1, <1>3, StackIs
  <1>5. FirstKept /\ Under
    <2>1. Top.mode = "python"
      BY <1>2, <1>4
    <2>2. \A i \in DOMAIN stack : ~(i < Len(stack))
      BY <1>3
    <2>q. QED
      BY <2>1, <2>2 DEF FirstKept, Under
  <1>6. Ordered
    <2>1. out = <<>> /\ held = <<>> /\ writing = <<>> /\ after = "none" /\ printed = 0
      BY DEF Init
    <2>2. <<>> = [i \in 1 .. 0 |-> i] /\ Len(<<>>) = 0
      OBVIOUS
    <2>3. InOrder(0, <<>>, 0)
      BY NothingWaits
    <2>q. QED
      BY <2>1, <2>2, <2>3 DEF Ordered
  <1>7. Bounded
    <2>1. stack[1].fn = ""
      BY <1>2, <1>3
    <2>2. printed = 0 /\ faults = 0 /\ wrong = FALSE /\ after = "none"
      BY DEF Init
    <2>3. Len(stack) <= MaxDepth /\ 0 <= MaxPrinted /\ 0 \in 0 .. MaxFaults
      BY <1>3, BoundsAssumption
    <2>q. QED
      BY <2>1, <2>2, <2>3 DEF Bounded
  <1>q. QED
    BY <1>1, <1>5, <1>6, <1>7 DEF Output_IInv

\* What the program printed is shown or waits to be, once and in the order of the program,
\* over all streams, whichever calls fall back, raise, are nested or fail to write.
THEOREM ShownOnce == Spec => []OutputOnce
  <1>1. Output_IInv => OutputOnce
    <2> SUFFICES ASSUME Ruled, Ordered PROVE OutputOnce
      BY DEF Output_IInv, IInv
    <2>1. held \in Records /\ writing \in Records
      BY DEF Ruled, Typed, Data
    <2>2. CASE after = "none"
      <3>1. writing = <<>> /\ writing \o held = held
        BY <2>1, <2>2 DEF Ordered, Records
      <3>q. QED
        BY <3>1, <2>2 DEF Ordered, InOrder, OutputOnce
    <2>3. CASE after # "none"
      <3>1. held = <<>> /\ writing \o held = writing
        BY <2>1, <2>3 DEF Ruled, HeldByNative, Records
      <3>q. QED
        BY <3>1, <2>3 DEF Ordered, InOrder, OutputOnce
    <2>q. QED
      BY <2>2, <2>3
  <1>q. QED
    BY <1>1, InitOutput, NextOutput, PTL DEF Spec

\* Every reachable state is of its types: frames stand in functions of the module, native
\* ones only in functions that went native.
THEOREM OutputTyping == Spec => []TypeOK
  <1>1. Output_IInv => TypeOK
    <2> SUFFICES ASSUME Ruled, Calling, Bounded PROVE TypeOK
      BY DEF Output_IInv, IInv
    <2>1. native \subseteq Functions
      BY DEF Ruled, Typed, Native
    <2>2. Len(stack) \in 1 .. MaxDepth /\ stack[1].fn = ""
      <3>1. MaxDepth \in Nat /\ Len(stack) \in Nat \ {0} /\ Len(stack) <= MaxDepth
        BY StackIs, BoundsAssumption DEF Bounded
      <3>2. Len(stack) \in 1 .. MaxDepth
        BY <3>1
      <3>q. QED
        BY <3>2 DEF Bounded
    <2>3. ASSUME NEW i \in DOMAIN stack
          PROVE  /\ stack[i].fn \in Functions \cup {""} /\ stack[i].mode \in {"native", "python"}
                 /\ stack[i].mode = "native" => stack[i].at # <<>>
                 /\ \A p \in DOMAIN stack[i].at :
                     /\ stack[i].at[p] \in Functions \X Blocks \X Nat
                     /\ stack[i].mode = "native" => stack[i].at[p][1] \in native
      <3>1. stack[i] \in Frames
        BY StackIs
      <3>2. stack[i].fn \in Names /\ stack[i].mode \in {"native", "python"} /\ stack[i].at \in Spots
        BY <3>1 DEF Frames
      <3>3. stack[i].mode = "native" => stack[i].at \in NativeAts
        BY DEF Ruled, Stacked
      <3>4. \A p \in DOMAIN stack[i].at : stack[i].at[p] \in Places
        BY <3>2 DEF Spots
      <3>5. \A x \in Places : x \in Functions \X Blocks \X Nat
        BY DEF Places
      <3>6. stack[i].fn \in Functions \cup {""}
        BY <3>2 DEF Names
      <3>q. QED
        BY <3>2, <3>3, <3>4, <3>5, <3>6 DEF NativeAts
    <2>4. held \in Records /\ writing \in Records /\ {crossed, raising, inPure, wrong} \subseteq BOOLEAN
          /\ (inPure => after = "none" /\ ~raising /\ Top.at # <<>> /\ Op[1] = "pure")
          /\ after \in {"none", "python", "flush", "answer", "raise"}
          /\ (after # "none" => Top.mode = "native")
      BY DEF Ruled, Typed, Data, Writing, Calling, Stands, Bounded
    <2>5. out \in Seq(Nat) /\ printed \in 0 .. MaxPrinted /\ faults \in 0 .. MaxFaults
      <3>1. out \in Seq(Nat) /\ printed \in Nat /\ printed <= MaxPrinted /\ MaxPrinted \in Nat
            /\ faults \in 0 .. MaxFaults
        BY BoundsAssumption DEF Ruled, Typed, Data, Bounded
      <3>q. QED
        BY <3>1
    <2>q. QED
      BY <2>1, <2>2, <2>3, <2>4, <2>5 DEF TypeOK
  <1>q. QED
    BY <1>1, InitOutput, NextOutput, PTL DEF Spec

=============================================================================
