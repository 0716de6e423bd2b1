---------------------------- MODULE MCScanCycle ----------------------------
(***************************************************************************)
(* The scan over every program synthesised from a family of two-direction  *)
(* drives: a state machine Idle / Fwd / Rev whose outputs are interlocked, *)
(* with all combinations of start and stop conditions, both declaration    *)
(* orders, and the reverse direction possibly given as a derived output.   *)
(***************************************************************************)
EXTENDS ScanCycle, TLC

CONSTANTS x, y, q, lo, F, R   \* q: a timer bit; lo: a comparison

MCSymbols == {x, y, q, lo, F, R}
MCComparisons == {lo}
MCLevels == {0, 1}
MCSat == lo :> {0}

Syn == INSTANCE Synth

Starts == {Is(x), Is(lo), {[on |-> {x}, off |-> {y, R}]}}
Stops == {Is(q) \cup Is(y), Not(lo)}

SpecOf(fwdOn, revOn, stop, order, derived) ==
    [outputs     |-> order,
     entry       |-> ("Idle" :> {}) @@
                     ("Fwd" :> ({F} \ derived)) @@ ("Rev" :> ({R} \ derived)),
     transitions |-> {[from |-> "Idle", to |-> "Fwd", cond |-> fwdOn],
                      [from |-> "Idle", to |-> "Rev", cond |-> revOn],
                      [from |-> "Fwd", to |-> "Idle", cond |-> stop],
                      [from |-> "Rev", to |-> "Fwd", cond |-> Is(q)]},
     locks       |-> {<<F, R>>},
     derived     |-> {[output |-> o, expr |-> IF o = F THEN fwdOn ELSE revOn]
                        : o \in derived}]

MCSpecs == {SpecOf(f, r, s, order, derived) :
              f \in Starts, r \in Starts, s \in Stops,
              order \in {<<F, R>>, <<R, F>>}, derived \in {{}, {R}}}

MCPrograms == {Syn!SynthesizeST(s) : s \in MCSpecs}
=============================================================================
