----------------------------- MODULE RecipeClaims ---------------------------
(***************************************************************************)
(* What the forms and docstrings of single recipes, and the metamorphic    *)
(* relations of app/simulator.py, say of the programs of the library.      *)
(***************************************************************************)
EXTENDS SpecScan, RecipeInstances

CONSTANT Stoppable   \* the specifications in which the stop button has to win

AllButDuty == RecipeIds \ {"duty_standby"}

(* coil_block_is_idempotent: a second pass of the coil lines under the     *)
(* same inputs and block bits changes nothing.                             *)
Idempotent(sp, table) ==
    LET once == ScanCoils(sp, table)
    IN  OnOutputs(sp, ScanCoils(sp, once)) = OnOutputs(sp, once)

StopInputs(sp) ==
    sp.inputs \cap {"STOP", "STOP_PB", "SYS_STOP", "HEAT_STOP", "PLATE_STOP", "WELD_STOP", "DIV_STOP"}

(* A stop button is one if it alone is a way out of every state, for every *)
(* output: a transition that leaves what drives the output has it as a     *)
(* condition by itself.                                                    *)
ASSUME StopsAreWaysOut ==
    \A sp \in Stoppable : \A s \in StopInputs(sp), o \in OutputNames(sp) :
        ~Derived(sp, o) /\ Synthesizable(sp, o) => Is(s) \subseteq AnyOf(TurnOff(sp, o))

----------------------------------------------------------------------------
(* The shapes of the library's charts.                                     *)

StateOutputs(sp) == {o \in OutputNames(sp) : ~Derived(sp, o)}

(* Conditions are over names of the program, interlocks over outputs that  *)
(* states drive, and a state is told by what it drives: one output or, in  *)
(* one state at most, none.                                                *)
StateForEach(sp) ==
    /\ \A t \in sp.transitions :
          /\ {t.from, t.to} \subseteq DOMAIN sp.entry
          /\ \A term \in t.cond : term.on \cup term.off \subseteq Names(sp)
    /\ \A l \in sp.locks : {l[1], l[2]} \subseteq StateOutputs(sp)
    /\ \A s, u \in DOMAIN sp.entry : sp.entry[s] = sp.entry[u] => s = u
    /\ \A s \in DOMAIN sp.entry :
          sp.entry[s] = {} \/ \E o \in StateOutputs(sp) : sp.entry[s] = {o}

AsksNoOutput(sp, cond) ==
    \A term \in cond : (term.on \cup term.off) \cap OutputNames(sp) = {}

Locked(sp, o, p) == \E l \in sp.locks : (l[1] = o /\ l[2] = p) \/ (l[1] = p /\ l[2] = o)

(* A latch, or states that are entered from rest and left for rest, any    *)
(* two of which exclude one another, by an interlock or by the conditions  *)
(* that enter them.                                                        *)
IsSelector(sp) ==
    /\ StateForEach(sp)
    /\ \A t \in sp.transitions :
          \/ sp.entry[t.to] = {} /\ AsksNoOutput(sp, t.cond)
          \/ /\ sp.entry[t.from] = {}
             /\ \A term \in t.cond :
                   /\ term.on \cap OutputNames(sp) = {}
                   /\ term.off \cap OutputNames(sp) \subseteq StateOutputs(sp) \ sp.entry[t.to]
    /\ \A o, p \in StateOutputs(sp) :
          \/ o = p \/ Locked(sp, o, p)
          \/ \A t \in sp.transitions : \A term \in t.cond :
                 /\ sp.entry[t.to] = {o} => p \in term.off
                 /\ sp.entry[t.to] = {p} => o \in term.off

(* The bits of the timers that run while o is ON and of nothing else. *)
EndBits(sp, o) ==
    {Bit(sp.timers[i].name) : i \in
        {j \in 1..Len(sp.timers) :
            /\ sp.timers[j].kind = "TON" /\ sp.timers[j].on = Is(o)
            /\ \A k \in 1..Len(FbCalls(sp)) :
                  Bit(FbCalls(sp)[k].name) = Bit(sp.timers[j].name) => k = j}}

(* Steps in the order of the outputs: the first is entered from rest when  *)
(* all outputs are OFF, each of the others when the timer of the step      *)
(* before has elapsed.                                                     *)
IsSequence(sp) ==
    LET n == Len(sp.outputs)
    IN  /\ StateForEach(sp) /\ sp.locks = {} /\ n > 1
        /\ StateOutputs(sp) = OutputNames(sp)
        /\ \A t \in sp.transitions :
              \/ /\ sp.entry[t.from] = {} /\ sp.entry[t.to] = {sp.outputs[1]}
                 /\ \A term \in t.cond : OutputNames(sp) \subseteq term.off
              \/ sp.entry[t.to] = {} /\ AsksNoOutput(sp, t.cond)
              \/ \E k, m \in 1..n :
                    /\ m = k + 1 \/ (k = n /\ m = 1)
                    /\ sp.entry[t.from] = {sp.outputs[k]} /\ sp.entry[t.to] = {sp.outputs[m]}
                    /\ AsksNoOutput(sp, t.cond)
                    /\ \A term \in t.cond : EndBits(sp, sp.outputs[k]) \cap term.on # {}

(* The star-delta starter, the one chart whose states share an output.     *)
Starter(sp, main, star, delta, start, stop, run) ==
    /\ sp.outputs = <<main, star, delta>> /\ sp.locks = {<<star, delta>>}
    /\ {main, star, delta} \subseteq StateOutputs(sp) /\ {start, stop} \subseteq sp.inputs
    /\ sp.entry = [IDLE |-> {}, STAR |-> {main, star}, DELTA |-> {main, delta}]
    /\ sp.transitions =
          {Tr("IDLE", "STAR", When({start}, {stop, run}) \cup When({main}, {stop, run})),
           Tr("STAR", "DELTA", When({run, main}, {stop})),
           Tr("DELTA", "IDLE", Is(stop)), Tr("STAR", "IDLE", Is(stop))}
    /\ run \in EndBits(sp, star)
    /\ \A i \in 1..Len(sp.timers) : Bit(sp.timers[i].name) = run

IsStarDelta(sp) ==
    \E main, star, delta \in StateOutputs(sp), start, stop \in sp.inputs, run \in Names(sp) :
        Starter(sp, main, star, delta, start, stop, run)

ASSUME ChartShapes ==
    \A sp \in Charted : IsSelector(sp) \/ IsSequence(sp) \/ IsStarDelta(sp)

(* Where a timer ends a step, whatever the other names are, some           *)
(* transition that leaves what drives the output can be taken when it has  *)
(* elapsed.  In the starter that depends on the other contactor.           *)
EndsStep(sp, bit, o) ==
    LET leaving == UNION {t.cond : t \in {u \in sp.transitions :
                              /\ u.from \in OnStates(sp, o) /\ u.to \notin OnStates(sp, o)}}
    IN  /\ ~Derived(sp, o)
        /\ \A term \in leaving : term.on \cup term.off \subseteq Names(sp)
        /\ \A v \in [Names(sp) -> BOOLEAN] : v[bit] => Holds(leaving, v)

ASSUME TimersEndSteps ==
    \A sp \in Charted : \A i \in 1..Len(sp.timers), o \in OutputNames(sp) :
        sp.timers[i].on = Is(o) => IsStarDelta(sp) \/ EndsStep(sp, Bit(sp.timers[i].name), o)

----------------------------------------------------------------------------
(* The coil block reaches its fixed point in one pass from every table the *)
(* program reaches, not only from those with all outputs OFF.              *)
CoilsSettleInOnePass == Idempotent(spec, sensed)

(* In every scan that sees the stop button ON no output a state drives is  *)
(* ON at the end, whatever else is pressed.                                *)
StopCutsOutputs ==
    spec \in Stoppable /\ (\E s \in StopInputs(spec) : sensed[s])
        => Image \cap StateDriven = {}

(* PUMP_LEAD starts on demand only. *)
LeadPumpNeedsDemand ==
    LET starts == state.table["PUMP_LEAD"] /\ ~sensed["PUMP_LEAD"]
    IN  starts => sensed["DEMAND"] \/ sensed["PUMP_LAG"]

(* The downstream conveyor stops only after the two that feed it. *)
CascadeStopsUpstreamFirst ==
    LET stops == sensed["CONV_DOWN"] /\ ~state.table["CONV_DOWN"]
    IN  stops => ~sensed["CONV_MID"] /\ ~sensed["CONV_UP"]

(* The output of the one-shot is ON for one scan only. *)
PulseIsOneScan == ~(sensed["ONE_SHOT"] /\ state.table["ONE_SHOT"])
=============================================================================
