------------------------------- MODULE Service ------------------------------
(***************************************************************************)
(* The service around the compiler: a co-simulation session (CosimSession),*)
(* a run of the generation pipeline (Pipeline), the merge of double coils  *)
(* in its architect step (DoubleCoil), calls that write project            *)
(* directories (ProjectFiles) and the progress stream of one of them       *)
(* (ProgressStream).  They share no state: `part` is the one that runs,    *)
(* the others wait in an initial state.                                    *)
(***************************************************************************)
EXTENDS CosimSession

CONSTANTS
    None,
    Limit, Attempts,                     \* of Pipeline
    Calls, Setups, FilesOf, Torn,        \* of ProjectFiles
    Events, Wakes,                       \* of ProgressStream
    CoilPrograms, Coils, CoilInputs, CoilPoints, Hints, Profile, MaxIndex   \* of DoubleCoil

VARIABLES
    part,
    pc, attempt, spec, program, feedback, report, revision, error, ladder, calls,
    setup, at, exists, disk, failed, entries, written,
    thread, emitted, queue, worker, handed, reader, scheduled, loop, sent, wakes,
    addrOf, symOf, nextIndex, handedOut, merging, source, code, order, aux

Pipe == INSTANCE Pipeline
Files == INSTANCE ProjectFiles WITH pc <- at
Stream == INSTANCE ProgressStream
Merging == INSTANCE DoubleCoil WITH
    Points <- CoilPoints, Programs <- CoilPrograms, Inputs <- CoilInputs,
    answer <- handedOut, phase <- merging

ASSUME PipeAssumption == Pipe!PipelineAssumption
ASSUME FilesAreMade == Files!FilesAssumption
ASSUME StreamIsBounded == Stream!StreamAssumption
ASSUME CoilProgramsAreMade == Merging!MergeAssumption

pipeVars == <<pc, attempt, spec, program, feedback, report, revision, error, ladder, calls>>
fileVars == <<setup, at, exists, disk, failed, entries, written>>
streamVars ==
    <<thread, emitted, queue, worker, handed, reader, scheduled, loop, sent, wakes>>
coilVars == <<addrOf, symOf, nextIndex, handedOut, merging, source, code, order, aux>>
serviceVars == <<part, vars, pipeVars, fileVars, streamVars, coilVars>>

ServiceInit ==
    /\ part \in {"cosim", "pipeline", "files", "stream", "merge"}
    /\ Init /\ Pipe!Init /\ Files!Init /\ Stream!Init /\ Merging!Init
    /\ part # "files" => setup = CHOOSE s \in Setups : TRUE

CosimRuns == part = "cosim" /\ Next /\ UNCHANGED <<pipeVars, fileVars, streamVars, coilVars>>
PipeRuns == part = "pipeline" /\ Pipe!Next /\ UNCHANGED <<vars, fileVars, streamVars, coilVars>>
FilesRun == part = "files" /\ Files!Next /\ UNCHANGED <<vars, pipeVars, streamVars, coilVars>>
StreamRuns == part = "stream" /\ Stream!Next /\ UNCHANGED <<vars, pipeVars, fileVars, coilVars>>
MergeRuns == part = "merge" /\ Merging!Next /\ UNCHANGED <<vars, pipeVars, fileVars, streamVars>>

ServiceNext ==
    /\ CosimRuns \/ PipeRuns \/ FilesRun \/ StreamRuns \/ MergeRuns
    /\ UNCHANGED part

ServiceSafety == ServiceInit /\ [][ServiceNext]_serviceVars

(* Each component's own fairness, while it is the one that runs. *)
ServiceSpec ==
    /\ ServiceSafety
    /\ WF_pipeVars(part = "pipeline" /\ Pipe!Next)
    /\ Files!Fairness
    /\ WF_streamVars(part = "stream" /\ Stream!LoopStep)
    /\ WF_streamVars(part = "stream" /\ Stream!EndThread)

----------------------------------------------------------------------------
(* A report that found nothing is about the program that is returned. *)
PassedMeansThisProgram == Pipe!PassedMeansThisProgram

(* Revisions and model calls keep within the limit, and use it up when nothing helps. *)
RevisionsAreBounded == Pipe!RevisionsAreBounded

(* After the merge each coil is assigned once, the OR of what it was assigned. *)
MergeKeepsTheProgram == Merging!MergeKeepsTheProgram

(* A manifest without an error stands beside the files it lists. *)
ProjectsAreWhole == Files!ProjectsAreWhole

(* Of calls in turn, only forced ones change a project that exists. *)
UnforcedCallsKeepProjects == Files!UnforcedCallsKeepProjects

(* Progress events are sent in order, and the end after all of them. *)
SentInOrder == Stream!SentInOrder

(* Whatever begins ends: the pipeline's loop, every generate_project, and  *)
(* the stream of a generation that ends.                                   *)
EverythingEnds ==
    /\ part = "pipeline" => Pipe!RequestsEnd
    /\ Files!CallsEnd
    /\ part = "stream" => Stream!StreamsEnd
=============================================================================
