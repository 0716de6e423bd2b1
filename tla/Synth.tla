------------------------------- MODULE Synth -------------------------------
(***************************************************************************)
(* app/synth.py: a state-machine specification becomes an ST program, one  *)
(* coil line per output, never by a language model.                        *)
(*                                                                         *)
(* A specification is a record                                             *)
(*   outputs     : the OUTPUT symbols in declaration order,                *)
(*   entry       : entry[s] the outputs that on_entry of state s sets,     *)
(*   transitions : records [from, to, cond],                               *)
(*   locks       : the declared interlocks,                                *)
(*   derived     : records [output, expr], the combinational outputs, one  *)
(*                 for each of them.                                       *)
(***************************************************************************)
EXTENDS LadderLogic

OnStates(spec, out) == {s \in DOMAIN spec.entry : out \in spec.entry[s]}

(* A derived output that a state also drives: synthesis raises ValueError  *)
(* as soon as there is an output to synthesise.                            *)
DoublyDefined(spec) ==
    spec.outputs # <<>> /\ \E d \in spec.derived : OnStates(spec, d.output) # {}

(* Mutation: the interlock protects the output it names first only. *)
PartnersOfFirst(spec, out) == {l[2] : l \in {m \in spec.locks : m[1] = out}}

Partners(spec, out) ==
    {l[2] : l \in {m \in spec.locks : m[1] = out}} \cup
    {l[1] : l \in {m \in spec.locks : m[2] = out}}

TurnOn(spec, out) ==
    {t \in spec.transitions : t.to \in OnStates(spec, out)}

(* Mutation: only a transition into a state that drives nothing cuts.      *)
TurnOffToRest(spec, out) ==
    {t \in spec.transitions : t.from \in OnStates(spec, out) /\ spec.entry[t.to] = {}}

TurnOff(spec, out) ==
    {t \in spec.transitions : /\ t.from \in OnStates(spec, out)
                              /\ t.to \notin OnStates(spec, out)}

AnyOf(transitions) == UNION {t.cond : t \in transitions}

Derived(spec, out) == \E d \in spec.derived : d.output = out

(* The outputs _synth_one can synthesise; the others get no coil line. *)
Synthesizable(spec, out) ==
    Derived(spec, out) \/ TurnOn(spec, out) # {}

SynthOne(spec, out) ==
    IF Derived(spec, out)
    THEN Plain((CHOOSE d \in spec.derived : d.output = out).expr)
    ELSE [on     |-> AnyOf(TurnOn(spec, out)),
          seal   |-> TRUE,
          cut    |-> AnyOf(TurnOff(spec, out)),
          guards |-> Partners(spec, out)]

CoversAllOutputs(spec) ==
    /\ spec.outputs # <<>>
    /\ \A i \in 1..Len(spec.outputs) : Synthesizable(spec, spec.outputs[i])

SynthesizeST(spec) ==
    [order  |-> SelectSeq(spec.outputs, LAMBDA o : Synthesizable(spec, o)),
     coil   |-> [s \in Symbols |-> SynthOne(spec, s)],
     locks  |-> spec.locks,
     hidden |-> {},
     broken |-> DoublyDefined(spec)]
=============================================================================
