----------------------------- MODULE WriteGate -----------------------------
(***************************************************************************)
(* The checks of app/comms/safety_kernel.py that look at one input command *)
(* and nothing else: whitelist, types, and the interlock dry run.          *)
(*                                                                         *)
(* A command is a function from the names it mentions to the values it     *)
(* asks for; a name may be foreign to the specification and a value need   *)
(* not be a BOOL.                                                          *)
(***************************************************************************)
EXTENDS LadderLogic

CONSTANTS
    Inputs,    \* the INPUT symbols of the specification
    Commands   \* the input commands a caller may issue

ASSUME GateAssumption ==
    /\ Inputs \subseteq Symbols
    /\ \A l \in Levels : l \in Int
    /\ \A cmd \in Commands : cmd = [s \in DOMAIN cmd |-> cmd[s]]

(* Mutation: symbols the specification does not know are let through. *)
WhitelistedAll(cmd) == TRUE

Whitelisted(cmd) == DOMAIN cmd \subseteq Inputs

WellTyped(cmd) == \A s \in DOMAIN cmd : cmd[s] \in BOOLEAN

(* Mutation: the dry run forgets to apply the command. *)
DryInputsIdle(p, cmd) ==
    [s \in Free(p) |-> s \in Comparisons /\ 0 \in Sat[s]]

(* The inputs of a dry run: a name the command does not mention is OFF, an *)
(* unmentioned register reads 0.  FB bits are OFF in the first scan (TON,  *)
(* preset above zero).                                                     *)
DryInputs(p, cmd) ==
    [s \in Free(p) |->
        IF s \in DOMAIN cmd THEN cmd[s]
        ELSE s \in Comparisons /\ 0 \in Sat[s]]

(* One scan of the synthesised program from image cur under the command. *)
DryRun(p, cur, cmd) ==
    {nxt \in [Driven(p) -> BOOLEAN] : IsScan(p, cur, DryInputs(p, cmd), nxt)}

DryRunImages(p, cmd) ==
    DryRun(p, AllOff(Driven(p)), cmd) \cup DryRun(p, AllOn(Driven(p)), cmd)

BreaksInterlock(p, cmd) ==
    \E lock \in p.locks : \E img \in DryRunImages(p, cmd) : Clash(lock, img)

(* synthesize_st raises for a specification that defines an output twice;  *)
(* the exception refuses the command.                                      *)
SynthesisRaises(p) == p.locks # {} /\ p.broken

Safe(p, cmd) ==
    /\ Whitelisted(cmd)
    /\ WellTyped(cmd)
    /\ ~SynthesisRaises(p)
    /\ ~BreaksInterlock(p, cmd)
=============================================================================
