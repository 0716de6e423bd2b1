------------------------------ MODULE StEngine ------------------------------
(***************************************************************************)
(* simulate() of app/simulator.py with the state of its timers and         *)
(* counters: what one whole scan of a synthesised program makes of the     *)
(* symbol table.  ScanCycle shows the same scan line by line with the bits *)
(* of the blocks left free.                                                *)
(*                                                                         *)
(* The state of the engine is a record: table, the value of every name;    *)
(* blocks, the state of every block.  Names and specifications are those   *)
(* of module Synth, extended with inputs, timers and counters.             *)
(***************************************************************************)
EXTENDS Synth, FunctionBlocks

Bit(block) == block \o ".Q"

(* synthesize_fb_calls, and what _add_fb reads from the lines: timers with *)
(* the kind of the comment above them, and every counter as a CTU, because *)
(* the call is written with CU whatever the counter's type.                *)
FbCalls(spec) ==
    [i \in 1..Len(spec.timers) |->
        [name |-> spec.timers[i].name, kind |-> spec.timers[i].kind,
         preset |-> spec.timers[i].preset, in |-> spec.timers[i].on, reset |-> Never]]
    \o
    [i \in 1..Len(spec.counters) |->
        [name |-> spec.counters[i].name, kind |-> "CTU",
         preset |-> spec.counters[i].preset, in |-> spec.counters[i].count,
         reset |-> spec.counters[i].reset]]

BlockNames(spec) == {FbCalls(spec)[i].name : i \in 1..Len(FbCalls(spec))}

OutputNames(spec) == {spec.outputs[i] : i \in 1..Len(spec.outputs)}

Names(spec) == spec.inputs \cup OutputNames(spec) \cup {Bit(b) : b \in BlockNames(spec)}

(* _validate_spec: what it lets through. *)
ValidSpec(spec) ==
    /\ \A i, j \in 1..Len(spec.outputs) : spec.outputs[i] = spec.outputs[j] => i = j
    /\ \A i \in 1..Len(spec.outputs) : spec.outputs[i] \notin spec.inputs
    /\ \A l \in spec.locks : l[1] # l[2]

PowerOn(spec) ==
    [table |-> AllOff(Names(spec)), blocks |-> [b \in BlockNames(spec) |-> Fresh]]

(* Step 1: the inputs enter the table. *)
Sense(spec, table, on) ==
    [n \in DOMAIN table |-> IF n \in spec.inputs THEN n \in on ELSE table[n]]

ScanBlock(call, block, table, dt) ==
    IF call.kind \in TimerKinds
    THEN ScanTimer(call.kind, block, call.preset, Holds(call.in, table), dt)
    ELSE ScanCounter(call.kind, block, call.preset, Holds(call.in, table), Holds(call.reset, table))

(* Step 2: the blocks in order, each sees the bits of the earlier ones. *)
ScanBlocks(spec, state, dt) ==
    LET calls == FbCalls(spec)
        after[i \in 0..Len(calls)] ==
            IF i = 0 THEN state
            ELSE LET before == after[i - 1]
                     call == calls[i]
                     block == ScanBlock(call, before.blocks[call.name], before.table, dt)
                 IN  [table |-> [before.table EXCEPT ![Bit(call.name)] = block.q],
                      blocks |-> [before.blocks EXCEPT ![call.name] = block]]
    IN  after[Len(calls)]

(* Mutation: every coil line sees the outputs of the last scan. *)
ScanCoilsAtOnce(spec, table) ==
    [n \in DOMAIN table |->
        IF n \in OutputNames(spec) /\ Synthesizable(spec, n)
        THEN CoilValue(SynthOne(spec, n), n, table)
        ELSE table[n]]

(* Step 3: the coil lines in order, one for each output that can be        *)
(* synthesised.                                                            *)
ScanCoils(spec, table) ==
    LET after[i \in 0..Len(spec.outputs)] ==
            IF i = 0 THEN table
            ELSE LET before == after[i - 1]
                     out == spec.outputs[i]
                 IN  IF Synthesizable(spec, out)
                     THEN [before EXCEPT ![out] = CoilValue(SynthOne(spec, out), out, before)]
                     ELSE before
    IN  after[Len(spec.outputs)]

StScan(spec, state, on, dt) ==
    LET scanned == ScanBlocks(spec, [state EXCEPT !.table = Sense(spec, @, on)], dt)
    IN  [scanned EXCEPT !.table = ScanCoils(spec, @)]

(* The outputs that are ON. *)
OnOutputs(spec, table) == {o \in OutputNames(spec) : table[o]}
=============================================================================
