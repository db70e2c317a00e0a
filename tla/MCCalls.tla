------------------------------- MODULE MCCalls -------------------------------
(* An instance for TLC of what a native call may leave undone or do twice:  *)
(* the output it holds, with small programs of two functions, and the       *)
(* handles it makes.  The two share nothing: a behaviour is of one of them, *)
(* and the other stands still.                                              *)
EXTENDS Effects, HandleHeap, TLC

VARIABLE subject

CallVars == <<vars, heapVars, subject>>

UpTo(n, S) == UNION {[1 .. k -> S] : k \in 0 .. n}

\* What the function called first may do, and what the one it calls may do.
OuterOps == {<<"print", "out">>, <<"check", "">>, <<"python", "">>, <<"call", "inner">>}
RuleOps == {<<"print", "out">>, <<"check", "">>, <<"python", "">>}
InnerOps == {<<"print", "err">>, <<"check", "">>, <<"python", "">>, <<"flush", "out">>,
             <<"raise", "">>, <<"odd", "">>, <<"sanitize", "">>, <<"pure", "">>}

\* One block after the other, the first a loop, and both one.
Shapes == {<<{2}, {}>>, <<{1, 2}, {}>>, <<{2}, {1}>>}

Compiled(b1, b2, c, shape) ==
    [ops |-> [outer |-> <<b1, b2>>, inner |-> <<c, <<>>>>],
     next |-> [outer |-> shape, inner |-> <<{}, {}>>]]

\* All that the rule tells apart, an inner function that is never called but empty.
Sketches ==
    {<<b1, b2, c>> \in UpTo(2, OuterOps) \X UpTo(1, OuterOps) \X UpTo(2, RuleOps) :
        c = <<>> \/ <<"call", "inner">> \in Range(b1 \o b2)}

\* Those, and all that an inner function may do in a few places.
SmallPrograms ==
    {Compiled(s[1], s[2], s[3], shape) : s \in Sketches, shape \in Shapes}
    \cup {Compiled(b1, <<<<"print", "out">>>>, c, <<{2}, {}>>) :
            b1 \in {<<<<"call", "inner">>>>, <<<<"print", "out">>, <<"call", "inner">>>>,
                     <<<<"python", "">>, <<"call", "inner">>>>},
            c \in UpTo(2, InnerOps)}

Symmetric == Permutations(Holders \ Maps) \cup Permutations(Maps)

CallInit ==
    /\ Init /\ HeapInit
    /\ subject \in {"output", "handles"}
    /\ subject # "output" => program = Compiled(<<>>, <<>>, <<>>, <<{2}, {}>>)

\* The output comes to a stop at its bounds; the handles never do.
CallNext ==
    \/ subject = "output" /\ Next /\ UNCHANGED <<heapVars, subject>>
    \/ subject = "output" /\ UNCHANGED CallVars
    \/ subject = "handles" /\ HeapNext /\ UNCHANGED <<vars, subject>>

CallSpec == CallInit /\ [][CallNext]_CallVars
=============================================================================
