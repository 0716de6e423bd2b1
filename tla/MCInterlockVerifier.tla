------------------------ MODULE MCInterlockVerifier ------------------------
(***************************************************************************)
(* The interlock checks on every two-coil program built from a small       *)
(* library of coil lines, and on three-coil programs in which an auxiliary *)
(* relay M delays or carries the guard, so that one step is not enough.    *)
(***************************************************************************)
EXTENDS InterlockVerifier, TLC

CONSTANTS x, y, lo, A, B, M

MCSymbols == {x, y, lo, A, B, M}
MCComparisons == {lo}
MCLevels == {0, 1}
MCSat == lo :> {0}

Latch(on, cut, guards) ==
    [on |-> on, seal |-> TRUE, cut |-> cut, guards |-> guards]

ForA == {Latch(Is(x), Never, {B}), Latch(Is(x), Is(y), {}),
         Latch(Is(lo), Never, {}), Plain(Is(x)),
         Plain({[on |-> {M}, off |-> {B}]})}

ForB == {Latch(Is(y), Never, {A}), Latch(Is(x), Not(x), {}),
         Plain(Not(lo)), Plain({[on |-> {y}, off |-> {A, M}]}),
         Plain(Not(x))}

ForM == {Latch(Is(x), Never, {B}), Plain(Is(A)), Plain(Not(A))}

MakeProgram(order, ca, cb, cm, hidden) ==
    [order |-> order,
     coil |-> [s \in MCSymbols |-> CASE s = A -> ca [] s = B -> cb [] OTHER -> cm],
     locks |-> {<<A, B>>}, hidden |-> hidden, broken |-> FALSE]

Orders == {<<A, B>>, <<B, A>>, <<M, A, B>>, <<A, B, M>>}

Plainly == {MakeProgram(o, ca, cb, cm, {}) :
              o \in Orders, ca \in ForA, cb \in ForB, cm \in ForM}

Commented == {MakeProgram(<<A, B>>, ca, cb, Plain(Is(A)), {B}) :
                ca \in ForA, cb \in ForB}
=============================================================================
