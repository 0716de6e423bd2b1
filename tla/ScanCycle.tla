----------------------------- MODULE ScanCycle -----------------------------
(***************************************************************************)
(* The scan of app/simulator.py: read the inputs, update the function      *)
(* blocks, then evaluate the coil lines from top to bottom, each into the  *)
(* symbol table the next line reads.  One action is one of those steps.    *)
(*                                                                         *)
(* The bits of timers and counters are free here: every scan may find any  *)
(* value in them.                                                          *)
(***************************************************************************)
EXTENDS LadderLogic

CONSTANT Programs

ASSUME ProgramsAssumption ==
    \A p \in Programs : p \in Program /\ SingleCoils(p) /\ p.order # <<>>

VARIABLES
    prog,     \* the program that runs
    table,    \* the symbol table of simulate()
    pc,       \* the coil line to evaluate next, 0 between two scans
    ins,      \* the inputs the current scan has read
    image     \* the outputs of the last finished scan (SimSample.outputs)

vars == <<prog, table, pc, ins, image>>

Init ==
    /\ prog \in Programs
    /\ table = AllOff(Symbols)
    /\ pc = 0
    /\ ins = AllOff(Free(prog))
    /\ image = AllOff(Driven(prog))

(* Steps 1 and 2 of the scan: inputs and FB bits enter the table. *)
ReadInputs ==
    /\ pc = 0
    /\ \E level \in Levels : \E v \in Valuations(Free(prog), level) :
          /\ ins' = v
          /\ table' = [s \in Symbols |->
                         IF s \in Free(prog) THEN v[s] ELSE table[s]]
    /\ pc' = 1
    /\ UNCHANGED <<prog, image>>

(* Mutation: every line reads the outputs of the previous scan. *)
EvalCoilSimultaneous ==
    /\ pc # 0
    /\ LET o == prog.order[pc]
           before == [s \in Symbols |->
                        IF s \in Driven(prog) THEN image[s] ELSE table[s]]
       IN  table' = [table EXCEPT ![o] = CoilValue(prog.coil[o], o, before)]
    /\ IF pc = Len(prog.order)
       THEN /\ pc' = 0
            /\ image' = [s \in Driven(prog) |-> table'[s]]
       ELSE /\ pc' = pc + 1
            /\ UNCHANGED image
    /\ UNCHANGED <<prog, ins>>

(* Step 3: one coil line; after the last one the sample is recorded. *)
EvalCoil ==
    /\ pc # 0
    /\ LET o == prog.order[pc]
       IN  table' = [table EXCEPT ![o] = CoilValue(prog.coil[o], o, table)]
    /\ IF pc = Len(prog.order)
       THEN /\ pc' = 0
            /\ image' = [s \in Driven(prog) |-> table'[s]]
       ELSE /\ pc' = pc + 1
            /\ UNCHANGED image
    /\ UNCHANGED <<prog, ins>>

Next == ReadInputs \/ EvalCoil

Spec == Init /\ [][Next]_vars

----------------------------------------------------------------------------
(* The table holds BOOLs only, pc is a coil line of the program or 0, and  *)
(* a recorded image has exactly the driven outputs.                        *)
TypeOK ==
    /\ prog \in Programs
    /\ table \in [Symbols -> BOOLEAN]
    /\ pc \in 0..Len(prog.order)
    /\ ins \in [Free(prog) -> BOOLEAN]
    /\ image \in [Driven(prog) -> BOOLEAN]

(* The later coil of an interlocked pair carries AND NOT of the earlier. *)
LaterIsGuarded(p, lock) ==
    \/ Earlier(p, lock[1], lock[2]) /\ lock[1] \in p.coil[lock[2]].guards
    \/ Earlier(p, lock[2], lock[1]) /\ lock[2] \in p.coil[lock[1]].guards

(* An interlocked pair is never ON together in an image that leaves the    *)
(* scan, as soon as the coil evaluated LATER carries the NOT of the other: *)
(* the guard of the earlier coil reads the partner's previous value and    *)
(* settles nothing.  This is what makes the order in which _synth_one      *)
(* emits the lines, and the guards it puts on them, sufficient.            *)
GuardedPairsExclude ==
    \A lock \in prog.locks : LaterIsGuarded(prog, lock) => ~Clash(lock, image)

(* No interlocked pair of outputs that states drive is ever ON together in *)
(* a finished scan, in whichever order and position the two are declared:  *)
(* the synthesiser puts the guard on both lines, so the later one has it.  *)
StateDrivenPairsExclude ==
    \A lock \in prog.locks :
        /\ lock[1] # lock[2]
        /\ {lock[1], lock[2]} \subseteq Driven(prog)
        /\ prog.coil[lock[1]].seal
        /\ prog.coil[lock[2]].seal
        => ~Clash(lock, image)

Verifier == INSTANCE ScanRelation

(* The symbol table that is updated line by line computes exactly the      *)
(* transition relation the verifier hands to Z3: every finished scan is a  *)
(* step of it, everything in between is invisible.                         *)
RefinesVerifier == Verifier!Spec
=============================================================================
