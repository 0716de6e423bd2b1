-------------------------------- MODULE Field -------------------------------
(***************************************************************************)
(* Everything that talks to a PLC over the wire: a client's connection     *)
(* (FieldClient), the links that map symbols to devices (PlcLinks), and    *)
(* the drivers of the OpenPLC runtime (HalDriver).  They share no state:   *)
(* `part` is the one that runs, the others wait in an initial state.       *)
(***************************************************************************)
EXTENDS FieldClient, HalDriver

CONSTANTS
    Families, InSymbols, OutSymbols, OutputBase,
    MaxBlocks, MaxBits, MaxWriteBits, ByteBits, Commands, MaxLate   \* of PlcLinks

VARIABLES
    part,
    family, kind, on, sent, replies, asked,
    call, todo, values, got, result, written, seen

Links == INSTANCE PlcLinks WITH NIn <- InSymbols, NOut <- OutSymbols

ASSUME LinksAreMapped == Links!LinkAssumption

links == <<family, kind, on, sent, replies, asked,
           call, todo, values, got, result, written, seen>>
fieldVars == <<part, vars, links, halVars>>

FieldInit ==
    /\ part \in {"client", "links", "driver"}
    /\ Init /\ Links!Init /\ HalInit
    /\ part # "links" => family = (CHOOSE f \in Families : TRUE) /\ kind = "coil"
    /\ part # "driver" => setup = CHOOSE s \in Setups : TRUE

ClientRuns == part = "client" /\ Next /\ UNCHANGED <<links, halVars>>
LinkRuns == part = "links" /\ Links!Next /\ UNCHANGED <<vars, halVars>>
DriverRuns == part = "driver" /\ HalNext /\ UNCHANGED <<vars, links>>

FieldNext == (ClientRuns \/ LinkRuns \/ DriverRuns) /\ UNCHANGED part

FieldSpec ==
    FieldInit /\ [][FieldNext]_fieldVars /\ WF_vars(ClientSteps) /\ HalFairness

----------------------------------------------------------------------------
(* The connection, the buffers and the lock keep their types, and ids      *)
(* their two bytes.                                                        *)
FieldTypeOK == TypeOK /\ DriverTypeOK

(* Between two calls of a link every input whose last write returned is    *)
(* still at its device, where the PLC program does not set the device and  *)
(* a MELSEC link has nothing left over from a call that failed.            *)
InputsStayWritten == Links!InputsStayWritten

(* What a read of the outputs returns is true of the PLC during the call,  *)
(* where a MELSEC link has nothing left over from a call that failed.      *)
ReadsAreTrue == Links!ReadsAreTrue
=============================================================================
