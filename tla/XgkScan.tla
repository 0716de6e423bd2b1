------------------------------- MODULE XgkScan ------------------------------
(***************************************************************************)
(* The differential test of app/xgk/interpreter.py over every input        *)
(* timeline: the ST program of a specification and the XGK instructions    *)
(* emitted for it, scanned side by side under the same inputs.             *)
(***************************************************************************)
EXTENDS SpecScan, XgkEngine

VARIABLES
    prog,      \* the instruction list emitted for the specification, fixed
    il         \* table and blocks of the interpreter

xgkVars == <<vars, prog, il>>

XgkInit ==
    /\ Init
    /\ prog = IlProgram(spec)
    /\ il = IlPowerOn(spec)

IlScan(on) ==
    LET scanned == IlScanBlocks(prog, [il EXCEPT !.table = Sense(spec, @, on)], ScanTime)
    IN  [scanned EXCEPT !.table = IlScanCoils(prog, @)]

BothScan ==
    /\ \E on \in SUBSET spec.inputs : ScanUnder(on) /\ il' = IlScan(on)
    /\ UNCHANGED prog

XgkSpec == XgkInit /\ [][BothScan]_xgkVars

----------------------------------------------------------------------------
(* What the translation needs to keep the meaning, of a specification:     *)
(* every product that is drawn has a contact, all of names the program     *)
(* knows; timers are on-delays; and no block reads the bit of a block      *)
(* above it, because the interpreter takes the power of all blocks first.  *)
Reads(cond) == UNION {t.on \cup t.off : t \in cond}

Drawable(sp, cond) ==
    /\ IsFiniteSet(cond) /\ Reads(cond) \subseteq Names(sp)
    /\ \A t \in cond : IsFiniteSet(Literals(t)) /\ Literals(t) # {}

Translatable(sp) ==
    LET calls == FbCalls(sp)
    IN  /\ \A i, j \in 1..Len(calls) : calls[i].name = calls[j].name => i = j
        /\ \A i, j \in 1..Len(calls) :
              i < j => Bit(calls[i].name) \notin Reads(calls[j].in) \cup Reads(calls[j].reset)
        /\ \A i \in 1..Len(calls) :
              /\ calls[i].kind \in {"TON", "CTU"}
              /\ Drawable(sp, Consistent(calls[i].in)) /\ Drawable(sp, Consistent(calls[i].reset))
        /\ \A o \in OutputNames(sp) :
              Synthesizable(sp, o) => Drawable(sp, CoilDnf(SynthOne(sp, o), o))

ASSUME TranslationAssumption == \A sp \in Specs : Translatable(sp)

(* After every scan of every timeline the two engines have the same        *)
(* outputs ON: the instructions are equivalent to the verified program.    *)
SameOutputs == OnOutputs(spec, il.table) = Image

(* The SCL text of every coil line means what the line means, in every     *)
(* table the program reaches.                                              *)
SclSaysTheSame ==
    \A out \in DOMAIN prog.rungs :
        LET coil == SynthOne(spec, out)
        IN  SclValue(CoilDnf(coil, out), state.table) = CoilValue(coil, out, state.table)
=============================================================================
