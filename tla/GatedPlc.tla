------------------------------ MODULE GatedPlc ------------------------------
(***************************************************************************)
(* What the safety kernel promises about the machine behind it, whatever   *)
(* the link does: the input image of the PLC only ever changes to values   *)
(* that a single command which passes every check asks for.  A link that   *)
(* fails half way may deliver a part of such a command, and nothing else.  *)
(***************************************************************************)
EXTENDS WriteGate

CONSTANT Programs

VARIABLES
    prog,    \* the program the PLC runs
    held,    \* its input image
    image    \* its output image after the last scan

vars == <<prog, held, image>>

Init ==
    /\ prog \in Programs
    /\ held = AllOff(Inputs)
    /\ image = AllOff(Driven(prog))

Deliver ==
    /\ \E cmd \in Commands :
          /\ Safe(prog, cmd)
          /\ \E part \in SUBSET DOMAIN cmd :
                held' = [s \in Inputs |->
                           IF s \in part THEN cmd[s] ELSE held[s]]
    /\ UNCHANGED <<prog, image>>

Scan ==
    /\ image' \in [Driven(prog) -> BOOLEAN]
    /\ \E level \in Levels : \E ins \in Valuations(Free(prog), level) :
          /\ \A s \in Inputs \cap Free(prog) : ins[s] = held[s]
          /\ IsScan(prog, image, ins, image')
    /\ UNCHANGED <<prog, held>>

Next == Deliver \/ Scan

Spec == Init /\ [][Next]_vars
=============================================================================
