------------------------------ MODULE Pipeline ------------------------------
(***************************************************************************)
(* run_pipeline (app/graph.py) with the agents it calls (app/agents.py):    *)
(* analyst, architect, verifier, and the loop that sends the verifier's     *)
(* report back to the architect.  The language model is external: an answer *)
(* is any specification or any program, or an exception.                    *)
(*                                                                         *)
(* Of a specification only what the verifier's report depends on is kept:   *)
(*   initial   it has no states, or an initial one                          *)
(*   safe      no condition-level violation of an interlock                 *)
(*   parses    check_interlocks_z3 can parse every condition it looks at    *)
(*   covered   every output is driven by the states (covers_all_outputs)    *)
(*   synth     what the synthesiser makes of it: a program that keeps the   *)
(*             interlocks, one that does not, or an exception               *)
(* and of a program whether it keeps the interlocks and whether an output   *)
(* is assigned twice, in a layout merge_double_coils rewrites or not.       *)
(***************************************************************************)
EXTENDS Naturals, FiniteSets

CONSTANTS Limit,        \* max_revisions
          Attempts,     \* attempts of _retry
          None

VARIABLES pc,           \* next agent, or "done" (returned), "raised" (exception)
          attempt,      \* attempts of the current _retry that have failed
          spec, program, feedback, report,
          revision,     \* revision_count
          error,        \* PipelineState.error
          ladder,
          calls         \* model invocations so far (history)

vars == <<pc, attempt, spec, program, feedback, report, revision, error, ladder, calls>>

Drafts == [initial: BOOLEAN, safe: BOOLEAN, parses: BOOLEAN, covered: BOOLEAN,
          synth: {"keeps", "breaks", "raises"}]
RawPrograms == [keeps: BOOLEAN, double: {"no", "mergeable", "odd"}]

Codes == {"DOUBLE_COIL", "INTERLOCK", "DEADLOCK"}

(* None is neither a specification nor a report, the empty one included. *)
PipelineAssumption ==
  /\ Limit \in Nat /\ Attempts \in Nat \ {0}
  /\ \A d \in Drafts : d # None
  /\ \A r \in SUBSET Codes : r # None

(* merge_double_coils on the answer: the layouts it recognises disappear *)
Merge(raw) == [raw EXCEPT !.double = IF @ = "mergeable" THEN "no" ELSE @]

(* Mutation: only the program is looked at. *)
ReportProgramOnly(s, p) ==
  {c \in {"DOUBLE_COIL", "INTERLOCK"} :
     \/ c = "DOUBLE_COIL" /\ p.double # "no"
     \/ c = "INTERLOCK" /\ ~p.keeps}

(* verify: the error codes; warnings do not fail a program *)
Report(s, p) ==
  {c \in Codes :
     \/ c = "DOUBLE_COIL" /\ p.double # "no"
     \/ c = "INTERLOCK" /\ ~(s.safe /\ p.keeps)
     \/ c = "DEADLOCK" /\ ~s.initial}

Init ==
  /\ pc = "analyst" /\ attempt = 0
  /\ spec = None /\ program = None /\ feedback = None /\ report = None
  /\ revision = 0 /\ error = None /\ ladder = FALSE /\ calls = 0

Stop(why) == pc' = "done" /\ error' = why

(* _retry around one model call that raised: again after a pause, or the last error *)
Retry(agent) ==
  /\ calls' = calls + 1
  /\ IF attempt + 1 < Attempts
     THEN attempt' = attempt + 1 /\ UNCHANGED <<pc, error>>
     ELSE attempt' = 0 /\ Stop(agent)

-----------------------------------------------------------------------------
(* _llm or with_structured_output raises: no module, no key, unknown provider *)
AnalystUnavailable ==
  /\ pc = "analyst" /\ attempt = 0
  /\ Stop("analyst")
  /\ UNCHANGED <<attempt, spec, program, feedback, report, revision, ladder, calls>>

AnalystRaises ==
  /\ pc = "analyst"
  /\ Retry("analyst")
  /\ UNCHANGED <<spec, program, feedback, report, revision, ladder>>

(* an answer that is no StateMachineSpec fails in model_validate, outside the retry *)
AnalystAnswers ==
  /\ pc = "analyst"
  /\ calls' = calls + 1 /\ attempt' = 0
  /\ \/ \E s \in Drafts : spec' = s /\ pc' = "architect" /\ UNCHANGED error
     \/ Stop("analyst") /\ UNCHANGED spec
  /\ UNCHANGED <<program, feedback, report, revision, ladder>>

(* the deterministic path of run_architect *)
UsesSynth == feedback = None /\ spec.covered

Synthesise ==
  /\ pc = "architect" /\ UsesSynth
  /\ IF spec.synth = "raises" THEN Stop("architect") /\ UNCHANGED program
     ELSE /\ program' = [keeps |-> spec.synth = "keeps", double |-> "no"]
          /\ pc' = "verifier" /\ UNCHANGED error
  /\ UNCHANGED <<attempt, spec, feedback, report, revision, ladder, calls>>

ArchitectRaises ==
  /\ pc = "architect" /\ ~UsesSynth
  /\ Retry("architect")
  /\ UNCHANGED <<spec, program, feedback, report, revision, ladder>>

(* build_from_spec comes before the model call: addresses that collide or run out *)
ArchitectAllocatesInVain ==
  /\ pc = "architect" /\ ~UsesSynth /\ attempt = 0
  /\ Stop("architect")
  /\ UNCHANGED <<attempt, spec, program, feedback, report, revision, ladder, calls>>

(* merge_double_coils is outside the retry: no relay left for a coil it splits *)
ArchitectAnswers ==
  /\ pc = "architect" /\ ~UsesSynth
  /\ calls' = calls + 1 /\ attempt' = 0
  /\ \/ /\ \E raw \in RawPrograms : program' = Merge(raw)
        /\ pc' = "verifier" /\ UNCHANGED error
     \/ Stop("architect") /\ UNCHANGED program
  /\ UNCHANGED <<spec, feedback, report, revision, ladder>>

(* Mutation: only the first program is verified. *)
RunVerifierOnce ==
  /\ pc = "verifier" /\ spec.parses
  /\ report' = IF report = None THEN Report(spec, program) ELSE {}
  /\ \/ report' = {} /\ pc' = "renderer" /\ UNCHANGED <<revision, feedback, error>>
     \/ report' # {} /\ revision >= Limit /\ Stop("give_up") /\ UNCHANGED <<revision, feedback>>
     \/ /\ report' # {} /\ revision < Limit
        /\ revision' = revision + 1 /\ feedback' = report'
        /\ pc' = "architect" /\ UNCHANGED error
  /\ UNCHANGED <<attempt, spec, program, ladder, calls>>

RunVerifier ==
  /\ pc = "verifier" /\ spec.parses
  /\ report' = Report(spec, program)
  /\ \/ report' = {} /\ pc' = "renderer" /\ UNCHANGED <<revision, feedback, error>>
     \/ report' # {} /\ revision >= Limit /\ Stop("give_up") /\ UNCHANGED <<revision, feedback>>
     \/ /\ report' # {} /\ revision < Limit
        /\ revision' = revision + 1 /\ feedback' = report'
        /\ pc' = "architect" /\ UNCHANGED error
  /\ UNCHANGED <<attempt, spec, program, ladder, calls>>

(* run_verifier is outside every try: a condition it cannot parse escapes as ValueError *)
VerifierRaises ==
  /\ pc = "verifier" /\ ~spec.parses
  /\ pc' = "raised"
  /\ UNCHANGED <<attempt, spec, program, feedback, report, revision, error, ladder, calls>>

(* run_renderer is outside every try, too: an expression the transpiler cannot parse escapes *)
RunRenderer ==
  /\ pc = "renderer"
  /\ \/ ladder' = TRUE /\ pc' = "done"
     \/ pc' = "raised" /\ UNCHANGED ladder
  /\ UNCHANGED <<attempt, spec, program, feedback, report, revision, error, calls>>

Next ==
  \/ AnalystUnavailable \/ AnalystRaises \/ AnalystAnswers
  \/ Synthesise \/ ArchitectRaises \/ ArchitectAllocatesInVain \/ ArchitectAnswers
  \/ RunVerifier \/ VerifierRaises \/ RunRenderer

(* One thread runs the whole call: a step that can be taken is taken. *)
Spec == Init /\ [][Next]_vars /\ WF_vars(Next)

-----------------------------------------------------------------------------
Passed == report = {} /\ error = None

TypeOK ==
  /\ pc \in {"analyst", "architect", "verifier", "renderer", "done", "raised"}
  /\ attempt \in 0..(Attempts - 1)
  /\ spec \in Drafts \cup {None} /\ program \in RawPrograms \cup {None}
  /\ report \in {None} \cup SUBSET Codes
  /\ revision \in 0..Limit /\ calls \in Nat

(* What is returned as passed is the program the last report is about, and that report found  *)
(* nothing: no report of an earlier revision is ever taken for it (PipelineState.passed).     *)
PassedMeansThisProgram ==
  pc \in {"done", "raised"} /\ Passed => Report(spec, program) = {}

(* An error only the specification can cure (no initial state, contradictory conditions) is   *)
(* sent to the architect all the same: the request then ends in an error, never passed, and   *)
(* never with fewer than Limit revisions unless the architect itself fails.  A condition the  *)
(* verifier cannot parse ends it too, but with an exception nothing catches, at the first     *)
(* program and with no report (verifier.py:139 under graph.py:74).                            *)
HopelessSpecsUseUpTheLimit ==
  pc \in {"done", "raised"} /\ spec # None =>
    /\ ~(spec.initial /\ spec.safe) /\ spec.parses =>
         error = "architect" \/ (error = "give_up" /\ revision = Limit)
    /\ ~spec.parses =>
         /\ report = None /\ revision = 0
         /\ error = IF pc = "done" THEN "architect" ELSE None

(* A specification the synthesiser covers costs no architect call before its program failed,  *)
(* and no request makes more model calls than its retries and revisions allow.                *)
CallsAreBounded ==
  /\ calls <= Attempts * (Limit + 2)
  /\ spec # None /\ spec.covered /\ revision = 0 => calls <= Attempts
  /\ spec # None /\ spec.covered => calls <= Attempts * (revision + 1)

(* Every request ends: the loop cannot run for ever whatever the reports say (graph.py:66).   *)
RequestsEnd == <>(pc \in {"done", "raised"})

(* The revision loop stops at its limit, reaches it when nothing helps, and calls the model   *)
(* no more often than that.                                                                   *)
RevisionsAreBounded == TypeOK /\ HopelessSpecsUseUpTheLimit /\ CallsAreBounded
=============================================================================
