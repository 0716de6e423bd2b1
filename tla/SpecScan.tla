------------------------------ MODULE SpecScan ------------------------------
(***************************************************************************)
(* A program synthesised from a specification, scanned for ever under free *)
(* inputs, with its timers and counters.  One step is one scan.            *)
(***************************************************************************)
EXTENDS StEngine

CONSTANTS
    Specs,       \* the specifications
    Charted,     \* those that can only move along their transitions
    ScanTime     \* the scan period

IsList(s) == s \in Seq({s[i] : i \in DOMAIN s})

(* Lists are lists, no output has the name of a timer's or counter's bit,  *)
(* and interlocks are between outputs that states drive (the recipes       *)
(* declare no others).                                                     *)
WellNamed(s) ==
    /\ ValidSpec(s)
    /\ IsList(s.outputs) /\ IsList(s.timers) /\ IsList(s.counters)
    /\ \A b \in BlockNames(s) : Bit(b) \notin OutputNames(s)
    /\ \A l \in s.locks : ~Derived(s, l[1]) /\ ~Derived(s, l[2])

ASSUME SpecsAssumption == \A s \in Specs : WellNamed(s)

VARIABLES
    spec,      \* the specification the program was synthesised from, fixed
    state,     \* table and blocks after the last scan
    sensed     \* the table the coil lines of the last scan started from

vars == <<spec, state, sensed>>

Init ==
    /\ spec \in Specs
    /\ state = PowerOn(spec)
    /\ sensed = state.table

ScanUnder(on) ==
    /\ state' = StScan(spec, state, on, ScanTime)
    /\ sensed' = ScanBlocks(spec, [state EXCEPT !.table = Sense(spec, @, on)], ScanTime).table
    /\ UNCHANGED spec

Scan == \E on \in SUBSET spec.inputs : ScanUnder(on)

Spec == Init /\ [][Scan]_vars

Image == OnOutputs(spec, state.table)

StateDriven == {o \in OutputNames(spec) : ~Derived(spec, o)}

----------------------------------------------------------------------------
(* No declared interlock is ever violated by the program a recipe makes,   *)
(* whichever signals the user gave the same name.                          *)
InterlocksHold ==
    \A lock \in spec.locks : ~({lock[1], lock[2]} \subseteq Image)

Chart == INSTANCE SequenceChart WITH
    driven <- IF spec \in Charted THEN Image \cap StateDriven ELSE {},
    settled <- state.table

(* The program implements the state machine it was synthesised from: the   *)
(* outputs are those of one state, and change along declared transitions   *)
(* whose condition holds, although a coil line knows no states at all.     *)
RefinesChart == Chart!ChartSpec

(* A step that runs for a set time ends on time, whatever the inputs do:   *)
(* no coil of a sequence or of a flasher keeps itself ON past its timer.   *)
StepsEndOnTime ==
    spec \in Charted => \A i \in 1..Len(spec.timers), o \in Image :
        spec.timers[i].on = Is(o) => ~state.table[Bit(spec.timers[i].name)]
=============================================================================
