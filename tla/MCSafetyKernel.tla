--------------------------- MODULE MCSafetyKernel ---------------------------
(***************************************************************************)
(* The kernel in front of four programs with one interlocked pair A, B:    *)
(* two derived outputs, the guarded latches the synthesiser emits, a latch *)
(* beside an unguarded derived output, and a specification whose synthesis *)
(* raises.                                                                 *)
(***************************************************************************)
EXTENDS SafetyKernel, TLC

CONSTANTS x, y, A, B, stranger, notBool

MCSymbols == {x, y, A, B}
MCInputs == {x, y}
MCRank == x :> 1 @@ y :> 2
MCLevels == {0}
MCSat == [c \in {} |-> {}]

Latch(on, cut, guards) ==
    [on |-> on, seal |-> TRUE, cut |-> cut, guards |-> guards]

MakeProgram(ca, cb, broken) ==
    [order |-> <<A, B>>, coil |-> (A :> ca) @@ [s \in MCSymbols |-> cb],
     locks |-> {<<A, B>>}, hidden |-> {}, broken |-> broken]

DerivedPair == MakeProgram(Plain(Is(x)), Plain(Is(y)), FALSE)
CrossedPair == MakeProgram(Plain(Is(x) \cup Is(y)),
                           Plain({[on |-> {x, y}, off |-> {}]}), FALSE)
GuardedLatches == MakeProgram(Latch(Is(x), Not(y), {B}),
                              Latch(Is(y), Not(x), {A}), FALSE)
LatchBesideDerived == MakeProgram(Latch(Is(x), Never, {}), Plain(Is(y)), FALSE)
Raising == MakeProgram(Plain(Is(x)), Plain(Is(y)), TRUE)

MCPrograms == {DerivedPair, GuardedLatches, LatchBesideDerived, Raising}
CombinationalPrograms == {DerivedPair, CrossedPair, GuardedLatches}
Unguarded == {DerivedPair}

Complete == [MCInputs -> BOOLEAN]
Partial == {x :> TRUE, y :> TRUE, y :> FALSE}
Malformed == {stranger :> TRUE, x :> notBool}

MCCommands == Partial \cup {[s \in MCInputs |-> s = x], [s \in MCInputs |-> TRUE]}
                \cup Malformed \cup {<<>>}
PartialCommands == Partial
CompleteBlocks == {MCInputs}
FewCommands == {x :> TRUE, [s \in MCInputs |-> s = y]}
=============================================================================
