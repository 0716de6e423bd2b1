---------------------------- MODULE ScanRelation ---------------------------
(***************************************************************************)
(* The transition system the verifier reasons about (_trans_at in          *)
(* app/verifier.py): a state is the output image, the initial state is all *)
(* OFF, and a step is one whole scan under inputs that are free at every   *)
(* step.  Timer and counter bits are free inputs of it.                    *)
(***************************************************************************)
EXTENDS LadderLogic

CONSTANT Programs

VARIABLES
    prog,    \* the program, fixed for the whole behaviour
    image    \* the output image between scans

vars == <<prog, image>>

Init ==
    /\ prog \in Programs
    /\ image = AllOff(Driven(prog))

Scan ==
    /\ image' \in [Driven(prog) -> BOOLEAN]
    /\ \E level \in Levels : \E ins \in Valuations(Free(prog), level) :
          IsScan(prog, image, ins, image')
    /\ UNCHANGED prog

Spec == Init /\ [][Scan]_vars
=============================================================================
