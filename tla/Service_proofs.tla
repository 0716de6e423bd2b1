---------------------------- MODULE Service_proofs --------------------------
(***************************************************************************)
(* Proofs about the service around the compiler (Service), one part for    *)
(* each component that runs in it: the generation pipeline, the progress   *)
(* stream, the project directories, the co-simulation session and the      *)
(* merge of double coils.  Each has an inductive invariant of its own, and *)
(* the other parts leave its variables alone.                              *)
(***************************************************************************)
EXTENDS Service, SequenceTheorems, FiniteSetTheorems, FunctionTheorems,
    WellFoundedInduction, TLAPS

----------------------------------------------------------------------------
(* The pipeline: an empty report is about the program in hand, and the     *)
(* model calls keep within what the revisions and the retries allow.       *)

Working == {"architect", "verifier", "renderer"}
Ended == {"done", "raised"}
Hopeless(s) == ~(s.initial /\ s.safe)

(* What n model calls with all their retries may cost. *)
Budget(n) == Attempts * n

(* An empty report is about the program in hand, which no longer changes. *)
ReportInv ==
  /\ report = {} => pc \in {"renderer"} \cup Ended /\ Pipe!Report(spec, program) = {}
  /\ pc = "renderer" => report = {}

(* What each agent finds. *)
AgentInv ==
  /\ pc = "analyst" => spec = None /\ revision = 0 /\ report = None
  /\ pc \in Working => spec \in Pipe!Drafts
  /\ pc \in {"verifier", "renderer"} => program \in Pipe!RawPrograms
  /\ feedback = None <=> revision = 0
  /\ pc # "done" => error = None

(* A specification that is at fault itself never gets past the verifier,   *)
(* and one that does not parse not even to its report.                     *)
HopelessInv ==
  spec # None =>
    /\ Hopeless(spec) \/ ~spec.parses => pc # "renderer"
    /\ Hopeless(spec) /\ spec.parses /\ pc \in Ended =>
         error = "architect" \/ (error = "give_up" /\ revision = Limit)
    /\ ~spec.parses => report = None /\ revision = 0 /\ (pc = "done" => error = "architect")

(* The calls made so far.  The first program of a covered specification    *)
(* costs none.                                                             *)
CallsInv ==
  /\ pc = "analyst" => calls <= attempt
  /\ pc = "architect" =>
       IF spec.covered /\ revision = 0 THEN calls <= Budget(1)
       ELSE IF spec.covered THEN calls <= Budget(revision) + attempt
       ELSE calls <= Budget(revision + 1) + attempt
  /\ pc \in {"verifier", "renderer"} \cup Ended =>
       IF spec = None THEN calls <= Budget(1)
       ELSE IF spec.covered THEN calls <= Budget(revision + 1)
       ELSE calls <= Budget(revision + 2)

(* Together with the types they are inductive. *)
PipeInv == Pipe!TypeOK /\ ReportInv /\ AgentInv /\ HopelessInv /\ CallsInv

----------------------------------------------------------------------------
(* The arithmetic of the budget. *)
LEMMA BudgetFacts ==
  ASSUME Pipe!PipelineAssumption
  PROVE  /\ Budget(1) = Attempts
         /\ \A n \in Nat : Budget(n) \in Nat /\ Budget(n + 1) = Budget(n) + Attempts
         /\ \A m, n \in Nat : m <= n => Budget(m) <= Budget(n)
<1> USE DEF Pipe!PipelineAssumption, Budget
<1>1. Budget(1) = Attempts
  OBVIOUS
<1>2. \A n \in Nat : Budget(n) \in Nat /\ Budget(n + 1) = Budget(n) + Attempts
  OBVIOUS
<1>3. \A m, n \in Nat : m <= n => Budget(m) <= Budget(n)
  OBVIOUS
<1> QED BY <1>1, <1>2, <1>3

(* The same at a revision. *)
LEMMA BudgetSteps ==
  ASSUME Pipe!PipelineAssumption, NEW r \in 0..Limit
  PROVE  /\ Budget(1) = Attempts /\ Attempts \in Nat
         /\ Budget(r) \in Nat /\ Budget(r + 1) \in Nat /\ Budget(r + 2) \in Nat
         /\ Budget(r + 1) = Budget(r) + Attempts
         /\ Budget(r + 2) = Budget(r + 1) + Attempts
         /\ Budget(1) <= Budget(Limit + 2) /\ Budget(r + 2) <= Budget(Limit + 2)
<1>1. /\ r \in Nat /\ r + 1 \in Nat /\ r + 2 \in Nat /\ r + 2 = (r + 1) + 1
      /\ Limit + 2 \in Nat /\ r + 2 <= Limit + 2 /\ 1 <= Limit + 2 /\ Attempts \in Nat
  BY DEF Pipe!PipelineAssumption
<1>2. /\ Budget(1) = Attempts
      /\ \A n \in Nat : Budget(n) \in Nat /\ Budget(n + 1) = Budget(n) + Attempts
      /\ \A m, n \in Nat : m <= n => Budget(m) <= Budget(n)
  BY BudgetFacts
<1>3. Budget(r) \in Nat /\ Budget(r + 1) = Budget(r) + Attempts
  BY <1>1, <1>2
<1>4. Budget(r + 1) \in Nat /\ Budget((r + 1) + 1) = Budget(r + 1) + Attempts
  BY <1>1, <1>2
<1>5. Budget(r + 2) \in Nat
  BY <1>1, <1>2
<1>6. Budget(1) <= Budget(Limit + 2) /\ Budget(r + 2) <= Budget(Limit + 2)
  BY <1>1, <1>2
<1> QED BY <1>1, <1>2, <1>3, <1>4, <1>5, <1>6

(* A report is one of the codes, and one on a hopeless specification is    *)
(* never empty, whatever the program.                                      *)
LEMMA ReportFacts ==
  ASSUME NEW s, NEW p
  PROVE  /\ Pipe!Report(s, p) \in SUBSET Pipe!Codes
         /\ Hopeless(s) => Pipe!Report(s, p) # {}
<1>1. Hopeless(s) => "INTERLOCK" \in Pipe!Report(s, p) \/ "DEADLOCK" \in Pipe!Report(s, p)
  BY DEF Hopeless, Pipe!Report, Pipe!Codes
<1> QED BY <1>1 DEF Pipe!Report

(* What the synthesiser delivers is a program. *)
LEMMA SynthesisedPrograms ==
  ASSUME NEW s
  PROVE  [keeps |-> s.synth = "keeps", double |-> "no"] \in Pipe!RawPrograms
<1> DEFINE keeps == s.synth = "keeps"
<1>1. keeps \in BOOLEAN
  OBVIOUS
<1> HIDE DEF keeps
<1>2. [keeps |-> keeps, double |-> "no"] \in Pipe!RawPrograms
  BY <1>1 DEF Pipe!RawPrograms
<1> QED BY <1>2 DEF keeps

(* A step of the pipeline keeps the types. *)
LEMMA TypesStep ==
  ASSUME Pipe!PipelineAssumption, PipeInv, Pipe!Next
  PROVE  Pipe!TypeOK'
<1> USE DEF Pipe!PipelineAssumption, PipeInv, Pipe!TypeOK, AgentInv, Working, Pipe!Stop, Pipe!Retry
<1>1. CASE Pipe!AnalystUnavailable
  BY <1>1 DEF Pipe!AnalystUnavailable
<1>2. CASE Pipe!AnalystRaises
  BY <1>2 DEF Pipe!AnalystRaises
<1>3. CASE Pipe!AnalystAnswers
  BY <1>3 DEF Pipe!AnalystAnswers
<1>4. CASE Pipe!Synthesise
  BY <1>4, SynthesisedPrograms DEF Pipe!Synthesise
<1>5. CASE Pipe!ArchitectRaises \/ Pipe!ArchitectAllocatesInVain
  BY <1>5 DEF Pipe!ArchitectRaises, Pipe!ArchitectAllocatesInVain
<1>6. CASE Pipe!ArchitectAnswers
  BY <1>6 DEF Pipe!ArchitectAnswers, Pipe!Merge, Pipe!RawPrograms
<1>7. CASE Pipe!RunVerifier
  BY <1>7, ReportFacts DEF Pipe!RunVerifier
<1>8. CASE Pipe!VerifierRaises \/ Pipe!RunRenderer
  BY <1>8 DEF Pipe!VerifierRaises, Pipe!RunRenderer
<1> QED BY <1>1, <1>2, <1>3, <1>4, <1>5, <1>6, <1>7, <1>8 DEF Pipe!Next

(* A step of the pipeline keeps the report about the program that is       *)
(* returned.                                                               *)
LEMMA ReportStep ==
  ASSUME Pipe!PipelineAssumption, PipeInv, Pipe!Next
  PROVE  ReportInv'
<1> USE DEF Pipe!PipelineAssumption, PipeInv, ReportInv, Ended, Pipe!Stop, Pipe!Retry
<1>1. CASE Pipe!RunVerifier
  BY <1>1 DEF Pipe!RunVerifier
<1>2. CASE Pipe!VerifierRaises \/ Pipe!RunRenderer
  BY <1>2 DEF Pipe!VerifierRaises, Pipe!RunRenderer
<1>3. CASE \/ Pipe!AnalystUnavailable \/ Pipe!AnalystRaises \/ Pipe!AnalystAnswers
           \/ Pipe!Synthesise \/ Pipe!ArchitectRaises \/ Pipe!ArchitectAllocatesInVain
           \/ Pipe!ArchitectAnswers
  BY <1>3 DEF Pipe!AnalystUnavailable, Pipe!AnalystRaises, Pipe!AnalystAnswers, Pipe!Synthesise,
              Pipe!ArchitectRaises, Pipe!ArchitectAllocatesInVain, Pipe!ArchitectAnswers
<1> QED BY <1>1, <1>2, <1>3 DEF Pipe!Next

(* A step of the pipeline keeps what is known between the agents. *)
LEMMA AgentStep ==
  ASSUME Pipe!PipelineAssumption, PipeInv, Pipe!Next
  PROVE  AgentInv'
<1> USE DEF Pipe!PipelineAssumption, PipeInv, Pipe!TypeOK, AgentInv, Working, Pipe!Stop, Pipe!Retry
<1>1. CASE \/ Pipe!AnalystUnavailable \/ Pipe!AnalystRaises \/ Pipe!AnalystAnswers
  BY <1>1 DEF Pipe!AnalystUnavailable, Pipe!AnalystRaises, Pipe!AnalystAnswers
<1>2. CASE Pipe!Synthesise
  <2>1. program' = program \/ program' \in Pipe!RawPrograms
    BY <1>2, SynthesisedPrograms DEF Pipe!Synthesise
  <2> QED BY <1>2, <2>1, SynthesisedPrograms DEF Pipe!Synthesise
<1>3. CASE Pipe!ArchitectRaises \/ Pipe!ArchitectAllocatesInVain
  BY <1>3 DEF Pipe!ArchitectRaises, Pipe!ArchitectAllocatesInVain
<1>4. CASE Pipe!ArchitectAnswers
  BY <1>4 DEF Pipe!ArchitectAnswers, Pipe!Merge, Pipe!RawPrograms
<1>5. CASE Pipe!RunVerifier
  <2>1. report' \in SUBSET Pipe!Codes /\ report' # None
    BY <1>5, ReportFacts DEF Pipe!RunVerifier
  <2> QED BY <1>5, <2>1 DEF Pipe!RunVerifier
<1>6. CASE Pipe!VerifierRaises \/ Pipe!RunRenderer
  BY <1>6 DEF Pipe!VerifierRaises, Pipe!RunRenderer
<1> QED BY <1>1, <1>2, <1>3, <1>4, <1>5, <1>6 DEF Pipe!Next

(* A specification at fault itself stays away from the renderer. *)
LEMMA HopelessStep ==
  ASSUME Pipe!PipelineAssumption, PipeInv, Pipe!Next
  PROVE  HopelessInv'
<1> USE DEF Pipe!PipelineAssumption, PipeInv, Pipe!TypeOK, AgentInv, HopelessInv, Working, Ended,
            Pipe!Stop, Pipe!Retry
<1>1. CASE \/ Pipe!AnalystUnavailable \/ Pipe!AnalystRaises \/ Pipe!AnalystAnswers
  BY <1>1 DEF Pipe!AnalystUnavailable, Pipe!AnalystRaises, Pipe!AnalystAnswers
<1>2. CASE Pipe!Synthesise
  BY <1>2 DEF Pipe!Synthesise
<1>3. CASE Pipe!ArchitectRaises \/ Pipe!ArchitectAllocatesInVain \/ Pipe!ArchitectAnswers
  BY <1>3 DEF Pipe!ArchitectRaises, Pipe!ArchitectAllocatesInVain, Pipe!ArchitectAnswers
<1>4. CASE Pipe!RunVerifier
  <2>1. Hopeless(spec) => report' # {}
    BY <1>4, ReportFacts DEF Pipe!RunVerifier
  <2> QED BY <1>4, <2>1 DEF Pipe!RunVerifier
<1>5. CASE Pipe!VerifierRaises \/ Pipe!RunRenderer
  BY <1>5 DEF Pipe!VerifierRaises, Pipe!RunRenderer
<1> QED BY <1>1, <1>2, <1>3, <1>4, <1>5 DEF Pipe!Next

(* A step of the pipeline keeps the model calls within the budget of the   *)
(* revisions.                                                              *)
LEMMA CallsStep ==
  ASSUME Pipe!PipelineAssumption, PipeInv, Pipe!Next
  PROVE  CallsInv'
<1>0. /\ Budget(1) = Attempts /\ Attempts \in Nat
      /\ Budget(revision) \in Nat /\ Budget(revision + 1) \in Nat
      /\ Budget(revision + 2) \in Nat
      /\ Budget(revision + 1) = Budget(revision) + Attempts
      /\ Budget(revision + 2) = Budget(revision + 1) + Attempts
  BY BudgetSteps DEF PipeInv, Pipe!TypeOK
<1> USE <1>0
    DEF Pipe!PipelineAssumption, PipeInv, Pipe!TypeOK, AgentInv, CallsInv, Working, Ended,
        Pipe!UsesSynth, Pipe!Stop, Pipe!Retry
<1>1. CASE \/ Pipe!AnalystUnavailable \/ Pipe!AnalystRaises
  BY <1>1 DEF Pipe!AnalystUnavailable, Pipe!AnalystRaises
<1>2. CASE Pipe!AnalystAnswers
  BY <1>2 DEF Pipe!AnalystAnswers
<1>3. CASE Pipe!Synthesise
  BY <1>3 DEF Pipe!Synthesise
<1>4. CASE Pipe!ArchitectRaises \/ Pipe!ArchitectAllocatesInVain
  BY <1>4 DEF Pipe!ArchitectRaises, Pipe!ArchitectAllocatesInVain
<1>5. CASE Pipe!ArchitectAnswers
  BY <1>5 DEF Pipe!ArchitectAnswers
<1>6. CASE Pipe!RunVerifier
  BY <1>6 DEF Pipe!RunVerifier
<1>7. CASE Pipe!VerifierRaises \/ Pipe!RunRenderer
  BY <1>7 DEF Pipe!VerifierRaises, Pipe!RunRenderer
<1> QED BY <1>1, <1>2, <1>3, <1>4, <1>5, <1>6, <1>7 DEF Pipe!Next

(* The invariant holds of every run. *)
THEOREM PipelineInvariant == ServiceSpec => []PipeInv
<1>1. ServiceInit => PipeInv
  <2> SUFFICES ASSUME Pipe!Init PROVE PipeInv
    BY DEF ServiceInit
  <2> QED BY PipeAssumption DEF Pipe!PipelineAssumption, Pipe!Init, PipeInv, Pipe!TypeOK,
             ReportInv, AgentInv, HopelessInv, CallsInv, Working, Ended
<1>2. PipeInv /\ [ServiceNext]_serviceVars => PipeInv'
  <2>1. ASSUME PipeInv, Pipe!Next PROVE PipeInv'
    BY <2>1, PipeAssumption, TypesStep, ReportStep, AgentStep, HopelessStep, CallsStep DEF PipeInv
  <2>2. ASSUME PipeInv, UNCHANGED pipeVars PROVE PipeInv'
    BY <2>2 DEF pipeVars, PipeInv, Pipe!TypeOK, ReportInv, AgentInv, HopelessInv, CallsInv
  <2>3. [ServiceNext]_serviceVars => Pipe!Next \/ UNCHANGED pipeVars
    BY DEF ServiceNext, CosimRuns, PipeRuns, FilesRun, StreamRuns, MergeRuns, serviceVars
  <2> QED BY <2>1, <2>2, <2>3
<1> QED BY <1>1, <1>2, PTL DEF ServiceSpec, ServiceSafety

(* No report of an earlier revision ever passes for one of the program     *)
(* that is returned.                                                       *)
THEOREM PassedIsVerified == ServiceSpec => []PassedMeansThisProgram
<1>1. PipeInv => PassedMeansThisProgram
  BY DEF PipeInv, ReportInv, PassedMeansThisProgram, Pipe!PassedMeansThisProgram, Pipe!Passed, Ended
<1> QED BY <1>1, PipelineInvariant, PTL

(* Whatever the limit and the retries: hopeless specifications use them    *)
(* up, and no request asks the model more often than they allow.           *)
THEOREM RevisionsBounded == ServiceSpec => []RevisionsAreBounded
<1>1. PipeInv => Pipe!HopelessSpecsUseUpTheLimit
  BY DEF PipeInv, AgentInv, HopelessInv, Hopeless, Ended, Pipe!HopelessSpecsUseUpTheLimit
<1>2. PipeInv => Pipe!CallsAreBounded
  <2> SUFFICES ASSUME PipeInv PROVE Pipe!CallsAreBounded
    OBVIOUS
  <2>1. /\ Budget(1) = Attempts /\ Attempts \in Nat
        /\ Budget(revision) \in Nat /\ Budget(revision + 1) \in Nat
        /\ Budget(revision + 2) \in Nat /\ Budget(Limit + 2) \in Nat
        /\ Budget(revision + 1) = Budget(revision) + Attempts
        /\ Budget(revision + 2) = Budget(revision + 1) + Attempts
        /\ Budget(1) <= Budget(Limit + 2) /\ Budget(revision + 2) <= Budget(Limit + 2)
    BY PipeAssumption, BudgetSteps DEF PipeInv, Pipe!TypeOK, Pipe!PipelineAssumption, Budget
  <2> USE PipeAssumption
      DEF Pipe!PipelineAssumption, PipeInv, Pipe!TypeOK, AgentInv, CallsInv, Working, Ended
  <2>2. spec # None /\ spec.covered => calls <= Budget(revision + 1)
    BY <2>1
  <2>3. calls <= Budget(Limit + 2)
    BY <2>1
  <2>4. revision = 0 => Budget(revision + 1) = Attempts
    BY <2>1
  <2> QED BY <2>2, <2>3, <2>4 DEF Pipe!CallsAreBounded, Budget
<1>3. PipeInv => RevisionsAreBounded
  BY <1>1, <1>2 DEF PipeInv, RevisionsAreBounded, Pipe!RevisionsAreBounded
<1> QED BY <1>3, PipelineInvariant, PTL

----------------------------------------------------------------------------
(* The progress stream: what was sent and what is queued are together what *)
(* happened.                                                               *)

Items == {Stream!ProgressEvent(n) : n \in 1..Events}
         \cup {[kind |-> how, n |-> 0] : how \in {"manifest", "error"}} \cup {None}

(* Where the thread and the two coroutines of the loop are. *)
StreamTypes ==
    /\ thread \in {"runs", "returned", "raised"}
    /\ emitted \in 0..Events
    /\ queue \in Seq(Items) /\ sent \in Seq(Items)
    /\ worker \in {"awaits", "ended"} /\ handed \in BOOLEAN
    /\ handed => thread # "runs"
    /\ worker = "ended" => handed
    /\ reader \in {"checks", "found", "empty", "waits", "ended", "gone"}
    /\ reader = "found" => queue # <<>>

(* What has been sent and what is still queued are together what happened, *)
(* in its order; and the queue is closed once, behind the final event.     *)
FlowInv ==
    /\ worker = "awaits" => reader # "ended" /\ sent \o queue = Stream!Progress
    /\ worker = "ended" /\ reader # "ended" =>
          queue # <<>> /\ sent \o queue = (Stream!Progress \o Stream!Final) \o <<None>>
    /\ reader = "ended" => sent = Stream!Progress \o Stream!Final

StreamInv == StreamTypes /\ FlowInv

(* The progress events are a sequence without the end mark. *)
LEMMA ProgressFacts ==
    ASSUME emitted \in 0..Events
    PROVE  /\ Stream!Progress \in Seq(Items) /\ Len(Stream!Progress) = emitted
           /\ \A i \in 1..emitted : Stream!Progress[i] = Stream!ProgressEvent(i) /\ Stream!Progress[i] # None
<1>1. \A i \in 1..emitted : Stream!ProgressEvent(i) \in Items /\ Stream!ProgressEvent(i) # None
  BY StreamIsBounded DEF Stream!StreamAssumption, Items
<1>2. Stream!Progress \in [1..emitted -> Items]
  BY <1>1 DEF Stream!Progress
<1>3. emitted \in Nat
  BY StreamIsBounded DEF Stream!StreamAssumption
<1> HIDE DEF Items
<1>4. Stream!Progress \in Seq(Items) /\ Len(Stream!Progress) = emitted
  BY <1>2, <1>3, SeqDef, LenProperties
<1> QED BY <1>1, <1>4 DEF Stream!Progress

(* The last event is an event and not the end mark. *)
LEMMA FinalFacts ==
    /\ Stream!FinalEvent \in Items /\ Stream!FinalEvent # None
    /\ Stream!Final = <<Stream!FinalEvent>> /\ Stream!Final \in Seq(Items)
    /\ None \in Items
<1>1. PICK how \in {"manifest", "error"} : Stream!FinalEvent = [kind |-> how, n |-> 0]
  BY DEF Stream!FinalEvent
<1>2. Stream!FinalEvent \in Items /\ Stream!FinalEvent # None
  BY <1>1, StreamIsBounded DEF Stream!StreamAssumption, Items
<1>3. None \in Items
  BY DEF Items
<1> HIDE DEF Items
<1> QED BY <1>2, <1>3 DEF Stream!Final

(* Moving the head of the queue to the end of what was sent changes        *)
(* nothing of the two together.                                            *)
LEMMA MoveHead ==
    ASSUME NEW S, NEW s \in Seq(S), NEW q \in Seq(S), q # <<>>
    PROVE  /\ Append(s, Head(q)) \o Tail(q) = s \o q
           /\ Head(q) \in S /\ Tail(q) \in Seq(S)
           /\ (s \o q)[Len(s) + 1] = Head(q) /\ Len(s) + 1 \in 1..Len(s \o q)
           /\ Len(s \o q) = Len(s) + 1 + Len(Tail(q))
<1>1. /\ Head(q) \in S /\ Tail(q) \in Seq(S) /\ Len(q) \in Nat /\ Len(q) >= 1
      /\ Len(Tail(q)) = Len(q) - 1 /\ Head(q) = q[1]
      /\ \A i \in 1..(Len(q) - 1) : Tail(q)[i] = q[i + 1]
  BY HeadTailProperties, LenProperties, EmptySeq
<1>2. <<Head(q)>> \o Tail(q) = q
  BY <1>1, HeadTailProperties
<1>3. Append(s, Head(q)) = s \o <<Head(q)>>
  BY <1>1, AppendIsConcat
<1>4. Append(s, Head(q)) \o Tail(q) = s \o q
  BY <1>1, <1>2, <1>3, ConcatAssociative
<1>5. (s \o q)[Len(s) + 1] = Head(q) /\ Len(s \o q) = Len(s) + Len(q) /\ Len(s) \in Nat
  BY <1>1, ConcatProperties, LenProperties
<1> QED BY <1>1, <1>4, <1>5

(* The last item of a sequence, and no other, is where it was put.         *)
LEMMA LastItem ==
    ASSUME NEW S, NEW s \in Seq(S), NEW e \in S
    PROVE  /\ s \o <<e>> \in Seq(S) /\ Len(s \o <<e>>) = Len(s) + 1
           /\ (s \o <<e>>)[Len(s) + 1] = e
           /\ \A i \in 1..Len(s) : (s \o <<e>>)[i] = s[i]
BY ConcatProperties, LenProperties

(* A step of the worker or of the event loop keeps the types of the stream. *)
LEMMA StreamTypesStep == ASSUME StreamTypes, Stream!Next PROVE StreamTypes'
<1> USE StreamIsBounded DEF StreamTypes, Stream!StreamAssumption
<1>1. CASE Stream!EmitProgress
  <2>1. emitted' \in 1..Events /\ Stream!ProgressEvent(emitted') \in Items
    BY <1>1 DEF Stream!EmitProgress, Items
  <2> HIDE DEF Items
  <2>2. queue' \in Seq(Items) /\ (reader = "found" => queue' # <<>>)
    BY <1>1, <2>1, EmptySeq DEF Stream!EmitProgress, Stream!PutOn
  <2> QED BY <1>1, <2>1, <2>2 DEF Stream!EmitProgress, Stream!PutOn
<1>2. CASE Stream!EndThread
  BY <1>2 DEF Stream!EndThread
<1>3. CASE Stream!ResumeWorker
  <2>1. <<Stream!FinalEvent, None>> \in Seq(Items)
    BY FinalFacts
  <2> HIDE DEF Items
  <2>2. queue' \in Seq(Items)
    BY <1>3, <2>1 DEF Stream!ResumeWorker, Stream!PutOn
  <2>3. reader # "found"
    BY <1>3 DEF Stream!ResumeWorker, Stream!Taking
  <2> QED BY <1>3, <2>2, <2>3 DEF Stream!ResumeWorker, Stream!PutOn
<1>4. CASE Stream!CheckQueue
  BY <1>4 DEF Stream!CheckQueue
<1>5. CASE Stream!WaitForItem
  BY <1>5 DEF Stream!WaitForItem
<1>6. CASE Stream!ResumeReader
  BY <1>6 DEF Stream!ResumeReader
<1>7. CASE Stream!TakeItem
  <2>1. queue # <<>>
    BY <1>7 DEF Stream!TakeItem
  <2> HIDE DEF Items
  <2>2. Head(queue) \in Items /\ Tail(queue) \in Seq(Items)
    BY <2>1
  <2>3. sent' \in Seq(Items)
    BY <1>7, <2>2, SMTT(30) DEF Stream!TakeItem
  <2> QED BY <1>7, <2>2, <2>3 DEF Stream!TakeItem
<1>8. CASE Stream!SelectorSleeps
  BY <1>8 DEF Stream!SelectorSleeps
<1>9. CASE Stream!OtherWake
  BY <1>9 DEF Stream!OtherWake
<1>10. CASE Stream!Disconnect
  BY <1>10 DEF Stream!Disconnect
<1> QED BY <1>1, <1>2, <1>3, <1>4, <1>5, <1>6, <1>7, <1>8, <1>9, <1>10
        DEF Stream!Next, Stream!LoopStep

(* A step of the worker or of the event loop keeps sent and queued together*)
(* the events in order.                                                    *)
LEMMA FlowStep == ASSUME StreamInv, Stream!Next PROVE FlowInv'
<1> HIDE DEF Items
<1>0. emitted \in 0..Events /\ queue \in Seq(Items) /\ sent \in Seq(Items)
  BY DEF StreamInv, StreamTypes
<1>1. CASE Stream!EmitProgress
  <2>1. /\ worker = "awaits" /\ reader' # "ended" /\ worker' = worker /\ reader' = reader /\ sent' = sent
        /\ sent \o queue = Stream!Progress
        /\ emitted' = emitted + 1 /\ emitted' \in 1..Events
        /\ queue' = queue \o <<Stream!ProgressEvent(emitted')>>
    BY <1>1, StreamIsBounded DEF Stream!StreamAssumption, StreamInv, StreamTypes, FlowInv,
            Stream!EmitProgress, Stream!PutOn
  <2>2. Stream!Progress' = Stream!Progress \o <<Stream!ProgressEvent(emitted')>>
    <3> DEFINE e == Stream!ProgressEvent(emitted')
               p == Stream!Progress \o <<e>>
    <3>1. e \in Items
      BY <2>1 DEF Items
    <3>2. Stream!Progress \in Seq(Items) /\ Len(Stream!Progress) = emitted /\ emitted \in Nat
      BY <1>0, <2>1, ProgressFacts, StreamIsBounded DEF Stream!StreamAssumption
    <3>3. /\ p \in Seq(Items) /\ Len(p) = emitted + 1 /\ p[emitted + 1] = e
          /\ \A i \in 1..emitted : p[i] = Stream!ProgressEvent(i)
      <4> DEFINE s == Stream!Progress
      <4>1. \A i \in 1..emitted : s[i] = Stream!ProgressEvent(i)
        BY <1>0, ProgressFacts
      <4>2. s \in Seq(Items) /\ Len(s) = emitted
        BY <3>2
      <4> HIDE DEF e, s
      <4>3. /\ s \o <<e>> \in Seq(Items) /\ Len(s \o <<e>>) = emitted + 1
            /\ (s \o <<e>>)[emitted + 1] = e
            /\ \A i \in 1..emitted : (s \o <<e>>)[i] = s[i]
        BY <3>1, <4>2, LastItem
      <4>4. p = s \o <<e>>
        BY DEF s
      <4> HIDE DEF p
      <4> QED BY <4>1, <4>3, <4>4
    <3>4. p = [i \in 1..(emitted + 1) |-> p[i]]
      <4> HIDE DEF p
      <4> QED BY <3>3, LenProperties
    <3>5. \A i \in 1..(emitted + 1) : p[i] = Stream!ProgressEvent(i)
      <4> HIDE DEF p
      <4> SUFFICES ASSUME NEW i \in 1..(emitted + 1) PROVE p[i] = Stream!ProgressEvent(i)
        OBVIOUS
      <4>1. i = emitted + 1 \/ i \in 1..emitted
        BY <3>2
      <4>2. CASE i = emitted + 1
        BY <2>1, <3>3, <4>2
      <4>3. CASE i \in 1..emitted
        BY <3>3, <4>3
      <4> QED BY <4>1, <4>2, <4>3
    <3>6. Stream!Progress' = [i \in 1..(emitted + 1) |-> Stream!ProgressEvent(i)]
      BY <2>1 DEF Stream!Progress
    <3> HIDE DEF p
    <3>7. Stream!Progress' = p
      BY <3>4, <3>5, <3>6
    <3> QED BY <3>7 DEF p
  <2>3. sent' \o queue' = Stream!Progress'
    <3>1. <<Stream!ProgressEvent(emitted')>> \in Seq(Items)
      BY <2>1 DEF Items
    <3> DEFINE x == <<Stream!ProgressEvent(emitted')>>
    <3> HIDE DEF x
    <3>2. (sent \o queue) \o x = sent \o (queue \o x)
      BY <1>0, <3>1, ConcatAssociative DEF x
    <3> QED BY <2>1, <2>2, <3>2 DEF x
  <2> QED BY <2>1, <2>3 DEF FlowInv
<1>2. CASE Stream!ResumeWorker
  <2>1. /\ worker = "awaits" /\ worker' = "ended" /\ sent' = sent /\ reader' = reader
        /\ reader # "ended" /\ sent \o queue = Stream!Progress
        /\ queue' = queue \o <<Stream!FinalEvent, None>> /\ queue' # <<>>
        /\ Stream!Progress' = Stream!Progress /\ Stream!Final' = Stream!Final
    <3>1. <<Stream!FinalEvent, None>> \in Seq(Items)
      BY FinalFacts
    <3>2. queue \o <<Stream!FinalEvent, None>> # <<>>
      <4> DEFINE x == <<Stream!FinalEvent, None>>
      <4>1. Len(x) = 2 /\ x \in Seq(Items)
        BY <3>1
      <4> HIDE DEF x
      <4>2. Len(queue \o x) = Len(queue) + 2 /\ Len(queue) \in Nat
        <5>1. x \in Seq(Items) /\ queue \in Seq(Items) /\ Len(x) = 2
          BY <1>0, <4>1
        <5>2. Len(queue \o x) = Len(queue) + Len(x)
          BY ONLY <5>1, ConcatProperties
        <5>3. Len(queue) \in Nat
          BY <5>1, LenProperties
        <5> QED BY <5>1, <5>2, <5>3
      <4>3. Len(<<>>) = 0
        OBVIOUS
      <4>4. queue \o x # <<>>
        BY <4>2, <4>3
      <4> QED BY <4>4 DEF x
    <3> QED BY <1>2, <3>2 DEF StreamInv, FlowInv, Stream!ResumeWorker, Stream!PutOn, Stream!Progress, Stream!Final,
               Stream!FinalEvent
  <2>2. <<Stream!FinalEvent, None>> = Stream!Final \o <<None>>
    BY FinalFacts
  <2>3. sent \o queue' = (Stream!Progress \o Stream!Final) \o <<None>>
    <3>1. Stream!Final \in Seq(Items) /\ <<None>> \in Seq(Items) /\ Stream!Progress \in Seq(Items)
      BY <1>0, FinalFacts, ProgressFacts
    <3>2. sent \o queue' = Stream!Progress \o (Stream!Final \o <<None>>)
      <4>1. Stream!Final \o <<None>> \in Seq(Items)
        BY <3>1
      <4> DEFINE x == Stream!Final \o <<None>>
      <4> HIDE DEF x
      <4>2. (sent \o queue) \o x = sent \o (queue \o x)
        BY <1>0, <4>1, ConcatAssociative DEF x
      <4> QED BY <2>1, <2>2, <4>2 DEF x
    <3>3. (Stream!Progress \o Stream!Final) \o <<None>> = Stream!Progress \o (Stream!Final \o <<None>>)
      BY <3>1, ConcatAssociative
    <3> QED BY <3>2, <3>3
  <2> QED BY <2>1, <2>3 DEF FlowInv
<1>3. CASE Stream!TakeItem
  <2>1. /\ queue # <<>> /\ queue' = Tail(queue) /\ reader = "found"
        /\ worker' = worker /\ Stream!Progress' = Stream!Progress /\ Stream!Final' = Stream!Final
        /\ worker \in {"awaits", "ended"}
    BY <1>3 DEF StreamInv, StreamTypes, Stream!TakeItem, Stream!Progress, Stream!Final, Stream!FinalEvent
  <2> DEFINE told == Stream!Progress \o Stream!Final
             at1 == Len(sent) + 1
  <2>2. /\ Stream!Progress \in Seq(Items) /\ Len(Stream!Progress) = emitted
        /\ \A i \in 1..emitted : Stream!Progress[i] # None
        /\ Stream!Final = <<Stream!FinalEvent>> /\ Stream!FinalEvent \in Items /\ Stream!FinalEvent # None
        /\ None \in Items /\ emitted \in Nat
    BY <1>0, ProgressFacts, FinalFacts, StreamIsBounded DEF Stream!StreamAssumption
  <2>3. /\ told \in Seq(Items) /\ Len(told) = emitted + 1
        /\ \A i \in 1..(emitted + 1) : told[i] # None
    <3>1. /\ told \in Seq(Items) /\ Len(told) = emitted + 1 /\ told[emitted + 1] = Stream!FinalEvent
          /\ \A i \in 1..emitted : told[i] = Stream!Progress[i]
      BY <2>2, LastItem
    <3> HIDE DEF told
    <3>2. \A i \in 1..(emitted + 1) : i = emitted + 1 \/ i \in 1..emitted
      BY <2>2
    <3> QED BY <2>2, <3>1, <3>2
  <2>4. /\ Append(sent, Head(queue)) \o Tail(queue) = sent \o queue
        /\ Head(queue) \in Items /\ Tail(queue) \in Seq(Items)
        /\ (sent \o queue)[at1] = Head(queue) /\ at1 \in 1..Len(sent \o queue)
        /\ Len(sent \o queue) = Len(sent) + 1 + Len(Tail(queue))
    BY <1>0, <2>1, MoveHead
  <2>5. CASE worker = "awaits"
    <3>1. sent \o queue = Stream!Progress
      BY <2>5 DEF StreamInv, FlowInv
    <3>2. Head(queue) # None
      <4> HIDE DEF at1
      <4> QED BY <2>2, <2>4, <3>1
    <3>3. sent' = Append(sent, Head(queue)) /\ reader' = "checks"
      BY <1>3, <3>2 DEF Stream!TakeItem
    <3> QED BY <2>1, <2>4, <2>5, <3>1, <3>3 DEF FlowInv
  <2>6. CASE worker = "ended" /\ Head(queue) # None
    <3>1. sent \o queue = (Stream!Progress \o Stream!Final) \o <<None>>
      BY <2>1, <2>6 DEF StreamInv, FlowInv
    <3>2. sent' = Append(sent, Head(queue)) /\ reader' = "checks"
      BY <1>3, <2>6 DEF Stream!TakeItem
    <3> HIDE DEF told
    <3>3. Len(told \o <<None>>) = emitted + 2 /\ (told \o <<None>>)[emitted + 2] = None
      BY <2>2, <2>3, LastItem
    <3>4. Len(sent) \in Nat /\ at1 # emitted + 2
      <4>1. Len(sent) \in Nat
        BY <1>0, LenProperties
      <4> QED BY <2>2, <2>4, <2>6, <3>1, <3>3, <4>1 DEF told
    <3>5. Tail(queue) # <<>>
      <4>1. Len(Tail(queue)) # 0
        BY <2>2, <2>4, <3>1, <3>3, <3>4 DEF told
      <4> QED BY <2>4, <4>1, EmptySeq
    <3> QED BY <2>1, <2>4, <2>6, <3>1, <3>2, <3>5 DEF FlowInv, told
  <2>7. CASE worker = "ended" /\ Head(queue) = None
    <3>1. sent \o queue = told \o <<None>>
      BY <2>1, <2>7 DEF StreamInv, FlowInv
    <3>2. reader' = "ended" /\ sent' = sent
      BY <1>3, <2>7 DEF Stream!TakeItem
    <3> HIDE DEF told
    <3>3. /\ Len(told \o <<None>>) = emitted + 2
          /\ \A i \in 1..(emitted + 1) : (told \o <<None>>)[i] # None
      BY <2>2, <2>3, LastItem
    <3>4. Len(sent) \in Nat /\ at1 = emitted + 2
      <4>1. Len(sent) \in Nat
        BY <1>0, LenProperties
      <4> QED BY <2>2, <2>4, <2>7, <3>1, <3>3, <4>1
    <3>5. Len(Tail(queue)) = 0 /\ Tail(queue) = <<>>
      BY <2>2, <2>4, <3>1, <3>3, <3>4, LenProperties, EmptySeq
    <3>6. sent = told
      <4>1. /\ Len(sent) = Len(told) /\ sent \in Seq(Items) /\ told \in Seq(Items)
            /\ Len(sent) \in Nat
        BY <1>0, <2>2, <2>3, <3>4
      <4>2. \A i \in 1..Len(sent) : (sent \o queue)[i] = sent[i] /\ (told \o <<None>>)[i] = told[i]
        BY <1>0, <2>2, <2>3, <4>1, ConcatProperties
      <4> QED BY <3>1, <4>1, <4>2, SeqEqual
    <3> QED BY <2>1, <2>7, <3>2, <3>6 DEF FlowInv, told
  <2> QED BY <2>1, <2>5, <2>6, <2>7
<1>4. CASE Stream!EndThread
  BY <1>4 DEF StreamInv, StreamTypes, FlowInv, Stream!EndThread, Stream!Progress
<1>5. CASE \/ Stream!CheckQueue \/ Stream!WaitForItem \/ Stream!ResumeReader
           \/ Stream!SelectorSleeps \/ Stream!OtherWake \/ Stream!Disconnect
  BY <1>5 DEF StreamInv, FlowInv, Stream!Progress, Stream!Final, Stream!FinalEvent,
              Stream!CheckQueue, Stream!WaitForItem, Stream!ResumeReader,
              Stream!SelectorSleeps, Stream!OtherWake, Stream!Disconnect
<1> QED BY <1>1, <1>2, <1>3, <1>4, <1>5 DEF Stream!Next, Stream!LoopStep

(* The first part of a whole is a prefix of it.                            *)
LEMMA PartIsPrefix ==
    ASSUME NEW S, NEW s \in Seq(S), NEW q \in Seq(S), NEW t \in Seq(S), NEW x \in Seq(S),
           s \o q = t \o x, Len(s) <= Len(t)
    PROVE  Stream!IsPrefix(s, t)
<1>1. Len(s) \in Nat /\ Len(t) \in Nat
  BY LenProperties
<1>2. \A i \in 1..Len(s) : s[i] = t[i]
  <2> SUFFICES ASSUME NEW i \in 1..Len(s) PROVE s[i] = t[i]
    OBVIOUS
  <2>1. (s \o q)[i] = s[i]
    BY ConcatProperties
  <2>2. i \in 1..Len(t)
    BY <1>1
  <2>3. (t \o x)[i] = t[i]
    BY <2>2, ConcatProperties
  <2> QED BY <2>1, <2>3
<1>3. /\ SubSeq(s, 1, Len(s)) = [i \in 1..Len(s) |-> s[i]]
      /\ SubSeq(t, 1, Len(s)) = [i \in 1..Len(s) |-> t[i]]
  BY <1>1
<1>4. SubSeq(s, 1, Len(s)) = SubSeq(t, 1, Len(s))
  BY <1>2, <1>3
<1> QED BY <1>4 DEF Stream!IsPrefix

(* What is sent and queued being the events in order, what is sent is a    *)
(* prefix of them.                                                         *)
LEMMA FlowIsOrder == StreamInv => SentInOrder
<1> HIDE DEF Items
<1> SUFFICES ASSUME StreamInv PROVE SentInOrder
  OBVIOUS
<1>0. /\ emitted \in 0..Events /\ queue \in Seq(Items) /\ sent \in Seq(Items)
      /\ worker \in {"awaits", "ended"}
  BY DEF StreamInv, StreamTypes
<1> DEFINE told == Stream!Progress \o Stream!Final
<1>1. /\ Stream!Progress \in Seq(Items) /\ told \in Seq(Items) /\ <<None>> \in Seq(Items)
      /\ <<>> \in Seq(Items)
  BY <1>0, ProgressFacts, FinalFacts
<1>2. /\ Len(sent) \in Nat /\ Len(queue) \in Nat /\ Len(told) \in Nat
      /\ Len(Stream!Progress) \in Nat
      /\ Len(sent \o queue) = Len(sent) + Len(queue)
      /\ Len(told \o <<None>>) = Len(told) + 1
      /\ (queue # <<>> => Len(queue) # 0)
      /\ sent \o <<>> = sent /\ told \o <<>> = told /\ Stream!Progress \o <<>> = Stream!Progress
  <2> HIDE DEF told
  <2>1. Len(told \o <<None>>) = Len(told) + 1
    BY <1>1, FinalFacts, LastItem
  <2> QED BY <1>0, <1>1, <2>1, ConcatProperties, LenProperties, EmptySeq
<1>3. worker = "awaits" => Stream!IsPrefix(sent, Stream!Progress)
  <2> HAVE worker = "awaits"
  <2>1. sent \o queue = Stream!Progress
    BY DEF StreamInv, FlowInv
  <2>2. sent \o queue = Stream!Progress \o <<>> /\ Len(sent) <= Len(Stream!Progress)
    BY <1>2, <2>1
  <2> QED BY <1>0, <1>1, <2>2, PartIsPrefix
<1>4. worker = "ended" => Stream!IsPrefix(sent, told)
  <2> HAVE worker = "ended"
  <2>1. CASE reader = "ended"
    <3>1. sent = told
      BY <2>1 DEF StreamInv, FlowInv
    <3> HIDE DEF told
    <3>2. sent \o <<>> = told \o <<>> /\ Len(sent) <= Len(told)
      BY <1>2, <3>1
    <3> QED BY <1>0, <1>1, <3>2, PartIsPrefix
  <2>2. CASE reader # "ended"
    <3>1. queue # <<>> /\ sent \o queue = told \o <<None>>
      BY <2>2 DEF StreamInv, FlowInv
    <3> HIDE DEF told
    <3>2. Len(sent) <= Len(told)
      BY <1>2, <3>1
    <3> QED BY <1>0, <1>1, <3>1, <3>2, PartIsPrefix
  <2> QED BY <2>1, <2>2
<1>5. reader = "ended" => sent = told
  BY DEF StreamInv, FlowInv
<1> QED BY <1>0, <1>3, <1>4, <1>5 DEF SentInOrder, Stream!SentInOrder

(* The invariant of the stream holds in every state. *)
THEOREM StreamInvariant == ServiceSpec => []StreamInv
<1>1. ServiceInit => StreamInv
  <2> HIDE DEF Items
  <2> SUFFICES ASSUME Stream!Init PROVE StreamInv
    BY DEF ServiceInit
  <2> USE DEF Stream!Init
  <2>1. emitted \in 0..Events
    BY StreamIsBounded DEF Stream!StreamAssumption
  <2>2. <<>> \in Seq(Items)
    OBVIOUS
  <2>3. StreamTypes
    BY <2>1, <2>2 DEF StreamTypes
  <2>4. sent \o queue = Stream!Progress
    <3>1. Stream!Progress \in Seq(Items) /\ Len(Stream!Progress) = 0
      BY <2>1, ProgressFacts
    <3> QED BY <2>2, <3>1, EmptySeq, ConcatProperties
  <2> QED BY <2>3, <2>4 DEF StreamInv, FlowInv
<1>2. StreamInv /\ [ServiceNext]_serviceVars => StreamInv'
  <2> HIDE DEF Items
  <2>1. StreamInv /\ Stream!Next => StreamInv'
    BY StreamTypesStep, FlowStep DEF StreamInv
  <2>2. StreamInv /\ UNCHANGED streamVars => StreamInv'
    BY DEF StreamInv, StreamTypes, FlowInv, streamVars, Stream!Progress, Stream!Final,
           Stream!FinalEvent
  <2>3. [ServiceNext]_serviceVars => Stream!Next \/ UNCHANGED streamVars
    BY DEF ServiceNext, CosimRuns, PipeRuns, FilesRun, StreamRuns, MergeRuns, serviceVars
  <2> QED BY <2>1, <2>2, <2>3
<1> QED BY <1>1, <1>2, PTL DEF ServiceSpec, ServiceSafety

(* However the thread, the worker and the reader interleave, the client is *)
(* sent a prefix of what happened, in its order, and the final event after *)
(* all of it.                                                              *)
THEOREM EventsInOrder == ServiceSpec => []SentInOrder
BY StreamInvariant, FlowIsOrder, PTL

----------------------------------------------------------------------------
(* The project directories: what a call finds in its own, when no other    *)
(* call works on it (AloneInv) and when calls come in turn (TurnInv).      *)

Kept == Files!Names \cup {Files!Manifest}
Folder(c) == setup.dir[c]
Empty(d) == \A n \in Kept : disk[d][n] = None

(* Before its first file a call has put none. *)
Early == {"idle", "build", "clear", "unlink", "mkdir", "refused", "record", "record_write"}

FileTypes ==
    /\ setup \in Setups
    /\ Files!TypeOK
    /\ written \in [Calls -> Nat]
    /\ entries \in [Calls -> SUBSET Kept]
    /\ \A c \in Calls : at[c] \in Early => written[c] = 0

(* A call whose project no other call works on finds no file there, and    *)
(* what it has put stays.                                                  *)
Alone(c) == \A b \in Calls : Folder(b) = Folder(c) => b = c
HasPut(c, n) == \A i \in 1..n : disk[Folder(c)][FilesOf[c][i]] = c
AloneInv ==
    \A c \in Calls : Alone(c) =>
      /\ at[c] \in Early => Empty(Folder(c))
      /\ at[c] = "put" => disk[Folder(c)][Files!Manifest] = None /\ HasPut(c, written[c])
      /\ disk[Folder(c)][Files!Manifest] \in Calls /\ ~failed[Folder(c)] =>
            disk[Folder(c)][Files!Manifest] = c /\ HasPut(c, Len(FilesOf[c]))

Spoiled == {"killed", "uncleared"}
Quiet(d) == \A c \in Calls : Folder(c) = d => c \notin Files!Running /\ at[c] \notin Spoiled
Whole(d) ==
    \E c \in Calls :
      /\ disk[d][Files!Manifest] = c
      /\ \A n \in Files!Names :
           disk[d][n] = IF \E i \in 1..Len(FilesOf[c]) : n = FilesOf[c][i] THEN c ELSE None

(* Nobody else has spoiled the project of this call. *)
Unspoiled(c) == \A b \in Calls \ {c} : Folder(b) = Folder(c) => at[b] \notin Spoiled

(* Where a call has not touched its project, and may end without. *)
Untouched == {"build", "record", "record_write"}

(* What the one call that runs may rely on when no other starts meanwhile. *)
InTurn(c) ==
    /\ (c \notin setup.forced /\ at[c] \in Early) \/ at[c] = "mkdir" => Empty(Folder(c))
    /\ at[c] \in Untouched =>
          (Unspoiled(c) /\ disk[Folder(c)][Files!Manifest] \in Calls /\ ~failed[Folder(c)]
             => Whole(Folder(c)))
    /\ at[c] = "unlink" =>
          /\ c \in setup.forced /\ Folder(c) \in exists
          /\ entries[c] = {n \in Kept : disk[Folder(c)][n] # None}
    /\ at[c] \in {"record_write", "put"} => Folder(c) \in exists
    /\ at[c] = "put" =>
          /\ disk[Folder(c)][Files!Manifest] = None /\ HasPut(c, written[c])
          /\ \A n \in Kept : disk[Folder(c)][n] # None => \E i \in 1..written[c] : n = FilesOf[c][i]

TurnInv ==
    setup.serial =>
      /\ \A b, c \in Files!Running : b = c
      /\ \A d \in Files!Dirs \ exists : Empty(d)
      /\ \A c \in Files!Running : InTurn(c)
      /\ \A d \in Files!Dirs :
           Quiet(d) /\ disk[d][Files!Manifest] \in Calls /\ ~failed[d] => Whole(d)

FilesInv == FileTypes /\ AloneInv /\ TurnInv

----------------------------------------------------------------------------
(* Every call has a folder and a list of files, and the manifest is none of*)
(* them.                                                                   *)
LEMMA FolderFacts ==
    ASSUME setup \in Setups
    PROVE  /\ Files!Dirs = {Folder(c) : c \in Calls} /\ setup.forced \subseteq Calls
           /\ \A c \in Calls : /\ Folder(c) \in Files!Dirs /\ FilesOf[c] \in Seq(Files!Names)
                               /\ Len(FilesOf[c]) \in Nat
                               /\ \A i \in 1..Len(FilesOf[c]) : FilesOf[c][i] \in Files!Names
                               /\ \A k, l \in 1..Len(FilesOf[c]) :
                                    FilesOf[c][k] = FilesOf[c][l] => k = l
           /\ Files!Manifest \in Kept /\ Files!Manifest \notin Files!Names /\ None \notin Calls
           /\ Files!Names \subseteq Kept /\ Torn \notin Calls /\ Torn # None
<1>1. \A c \in Calls : /\ FilesOf[c] \in Seq(Files!Names) /\ DOMAIN FilesOf[c] = 1..Len(FilesOf[c])
                         /\ Files!IsInjective(FilesOf[c])
  BY FilesAreMade, LenProperties DEF Files!FilesAssumption
<1>2. \A c \in Calls : \A k, l \in 1..Len(FilesOf[c]) : FilesOf[c][k] = FilesOf[c][l] => k = l
  BY <1>1 DEF Files!IsInjective
<1> QED BY <1>1, <1>2, FilesAreMade DEF Files!FilesAssumption, Files!Dirs, Files!Dir, Folder, Kept

(* A step of one call leaves the other calls and the other projects alone. *)
LEMMA OneActs ==
    ASSUME FileTypes, NEW c \in Calls, Files!Start(c) \/ Files!Step(c)
    PROVE  /\ \A b \in Calls \ {c} :
                at'[b] = at[b] /\ entries'[b] = entries[b] /\ written'[b] = written[b]
           /\ \A d \in Files!Dirs \ {Folder(c)} :
                disk'[d] = disk[d] /\ failed'[d] = failed[d] /\ (d \in exists' <=> d \in exists)
<1> USE DEF FileTypes, Files!TypeOK, Folder, Files!Dir, Files!Goto, Files!WriteFile
<1>1. CASE Files!Start(c)
  BY <1>1 DEF Files!Start
<1>2. CASE Files!Build(c)
  BY <1>2 DEF Files!Build
<1>3. CASE Files!RecordMkdir(c)
  BY <1>3 DEF Files!RecordMkdir
<1>4. CASE Files!RecordWrite(c)
  BY <1>4 DEF Files!RecordWrite
<1>5. CASE Files!Clear(c)
  BY <1>5 DEF Files!Clear
<1>6. CASE Files!Unlink(c)
  BY <1>6 DEF Files!Unlink
<1>7. CASE Files!RmDir(c)
  BY <1>7 DEF Files!RmDir
<1>8. CASE Files!MkDir(c)
  BY <1>8 DEF Files!MkDir
<1>9. CASE Files!Put(c)
  BY <1>9 DEF Files!Put
<1>10. CASE Files!WriteManifest(c)
  BY <1>10 DEF Files!WriteManifest
<1>11. CASE Files!MkDirFails(c)
  BY <1>11 DEF Files!MkDirFails
<1>12. CASE Files!WriteFails(c)
  BY <1>12 DEF Files!WriteFails
<1>13. CASE Files!RmTreeFails(c)
  BY <1>13 DEF Files!RmTreeFails
<1> QED BY <1>1, <1>2, <1>3, <1>4, <1>5, <1>6, <1>7, <1>8, <1>9, <1>10, <1>11, <1>12, <1>13
     DEF Files!Step

(* A step of a call, or a crash, keeps the types of the disk. *)
LEMMA FileTypesStep ==
    ASSUME FileTypes, Files!Next
    PROVE  FileTypes'
<1>0. setup' = setup
  BY DEF Files!Next
<1>1. CASE Files!Crash
  <2>1. /\ Files!Dirs' = Files!Dirs /\ setup' \in Setups
        /\ exists' = exists /\ disk' = disk /\ failed' = failed /\ entries' = entries
        /\ written' = written
    BY <1>0, <1>1 DEF Files!Crash, FileTypes, Files!Dirs, Files!Dir
  <2>2. at' \in [Calls -> Files!Final \cup {"idle", "build", "record", "record_write", "clear",
                                         "unlink", "mkdir", "put"}]
    BY <1>1 DEF Files!Crash, FileTypes, Files!TypeOK, Files!Final
  <2>3. \A c \in Calls : at'[c] \in Early => at[c] = at'[c]
    BY <1>1 DEF Files!Crash, Early
  <2> QED BY <2>1, <2>2, <2>3 DEF FileTypes, Files!TypeOK
<1>2. ASSUME NEW c \in Calls, Files!Start(c) \/ Files!Step(c) PROVE FileTypes'
  <2>1. /\ setup \in Setups /\ Folder(c) \in Files!Dirs /\ Files!Dirs' = Files!Dirs
        /\ Files!Manifest \in Kept /\ Len(FilesOf[c]) \in Nat
        /\ \A i \in 1..Len(FilesOf[c]) : FilesOf[c][i] \in Kept
    BY <1>0, FolderFacts DEF FileTypes, Files!Dirs, Files!Dir
  <2>2. /\ at \in [Calls -> Files!Final \cup {"idle", "build", "record", "record_write", "clear",
                                         "unlink", "mkdir", "put"}]
        /\ exists \subseteq Files!Dirs
        /\ disk \in [Files!Dirs -> [Kept -> Calls \cup {Torn, None}]]
        /\ failed \in [Files!Dirs -> BOOLEAN]
        /\ \A b \in Calls : written[b] \in 0..Len(FilesOf[b])
        /\ written \in [Calls -> Nat] /\ entries \in [Calls -> SUBSET Kept]
        /\ \A b \in Calls : at[b] \in Early => written[b] = 0
    BY DEF FileTypes, Files!TypeOK, Kept
  <2> SUFFICES /\ at' \in [Calls -> Files!Final \cup {"idle", "build", "record", "record_write", "clear",
                                         "unlink", "mkdir", "put"}]
               /\ exists' \subseteq Files!Dirs
               /\ disk' \in [Files!Dirs -> [Kept -> Calls \cup {Torn, None}]]
               /\ failed' \in [Files!Dirs -> BOOLEAN]
               /\ \A b \in Calls : written'[b] \in 0..Len(FilesOf[b])
               /\ written' \in [Calls -> Nat] /\ entries' \in [Calls -> SUBSET Kept]
               /\ \A b \in Calls : at'[b] \in Early => written'[b] = 0
    BY <1>0, <2>1 DEF FileTypes, Files!TypeOK, Kept
  <2> HIDE DEF Kept
  <2> USE <2>1, <2>2 DEF Folder, Files!Dir, Files!Goto, Files!WriteFile, Files!Final, Early
  <2>13. /\ \A n \in Kept, v \in Calls \cup {Torn, None} :
              [disk EXCEPT ![Folder(c)][n] = v] \in [Files!Dirs -> [Kept -> Calls \cup {Torn, None}]]
         /\ \A v \in BOOLEAN : [failed EXCEPT ![Folder(c)] = v] \in [Files!Dirs -> BOOLEAN]
         /\ \A v \in SUBSET Kept : [entries EXCEPT ![c] = v] \in [Calls -> SUBSET Kept]
         /\ c \in Calls \cup {Torn, None} /\ None \in Calls \cup {Torn, None}
         /\ Torn \in Calls \cup {Torn, None}
    OBVIOUS
  <2>3. CASE Files!Start(c)
    BY <2>3 DEF Files!Start
  <2>4. CASE Files!Build(c)
    BY <2>4 DEF Files!Build
  <2>5. CASE Files!RecordMkdir(c)
    BY <2>5 DEF Files!RecordMkdir
  <2>6. CASE Files!RecordWrite(c)
    <3>1. disk' \in [Files!Dirs -> [Kept -> Calls \cup {Torn, None}]] /\ failed' \in [Files!Dirs -> BOOLEAN]
      <4>1. \/ /\ disk' = [disk EXCEPT ![Folder(c)][Files!Manifest] = c]
               /\ failed' = [failed EXCEPT ![Folder(c)] = TRUE]
            \/ disk' = disk /\ failed' = failed
        BY <2>6 DEF Files!RecordWrite
      <4>2. disk' \in [Files!Dirs -> [Kept -> Calls \cup {Torn, None}]]
        <5>1. [disk EXCEPT ![Folder(c)][Files!Manifest] = c] \in [Files!Dirs -> [Kept -> Calls \cup {Torn, None}]]
          BY <2>13
        <5> QED BY <4>1, <5>1
      <4>3. failed' \in [Files!Dirs -> BOOLEAN]
        BY <4>1
      <4> QED BY <4>2, <4>3
    <3>2. exists' = exists /\ entries' = entries /\ written' = written
      BY <2>6 DEF Files!RecordWrite
    <3>3. at[c] \in Early /\ (at' = [at EXCEPT ![c] = "error"] \/ at' = [at EXCEPT ![c] = "raised"])
      BY <2>6 DEF Files!RecordWrite
    <3> QED BY <3>1, <3>2, <3>3
  <2>7. CASE Files!Clear(c)
    <3>1. Files!Present(Folder(c)) \in SUBSET Kept
      BY DEF Files!Present, Kept
    <3>2. entries' \in [Calls -> SUBSET Kept]
      <4>1. entries' = [entries EXCEPT ![c] = Files!Present(Folder(c))] \/ entries' = entries
        BY <2>7 DEF Files!Clear
      <4> QED BY <2>13, <3>1, <4>1
    <3>3. exists' = exists /\ disk' = disk /\ failed' = failed /\ written' = written
      BY <2>7 DEF Files!Clear
    <3>4. at[c] \in Early /\ (at' = [at EXCEPT ![c] = "unlink"] \/ at' = [at EXCEPT ![c] = "mkdir"])
      BY <2>7 DEF Files!Clear
    <3> QED BY <3>2, <3>3, <3>4
  <2>8. CASE Files!Unlink(c)
    <3>1. PICK n \in entries[c] :
             /\ entries' = [entries EXCEPT ![c] = entries[c] \ {n}]
             /\ disk' = [disk EXCEPT ![Folder(c)][n] = None]
             /\ failed' = [failed EXCEPT ![Folder(c)] = IF n = Files!Manifest THEN FALSE ELSE failed[Folder(c)]]
             /\ at' = at \/ at' = [at EXCEPT ![c] = "uncleared"]
      BY <2>8 DEF Files!Unlink
    <3>2. n \in Kept /\ entries[c] \ {n} \in SUBSET Kept /\ failed[Folder(c)] \in BOOLEAN
      OBVIOUS
    <3>3. disk' \in [Files!Dirs -> [Kept -> Calls \cup {Torn, None}]]
      BY <2>13, <3>1, <3>2
    <3>4. entries' \in [Calls -> SUBSET Kept]
      BY <2>13, <3>1, <3>2
    <3>5. failed' \in [Files!Dirs -> BOOLEAN]
      BY <2>13, <3>1, <3>2
    <3>6. exists' = exists /\ written' = written
      BY <2>8 DEF Files!Unlink
    <3> QED BY <3>1, <3>3, <3>4, <3>5, <3>6
  <2>9. CASE Files!RmDir(c)
    BY <2>9 DEF Files!RmDir
  <2>10. CASE Files!MkDir(c)
    BY <2>10 DEF Files!MkDir
  <2>11. CASE Files!Put(c)
    <3>1. FilesOf[c][written[c] + 1] \in Kept /\ written[c] + 1 \in 0..Len(FilesOf[c])
      BY <2>11 DEF Files!Put
    <3> QED BY <2>11, <3>1 DEF Files!Put
  <2>12. CASE Files!WriteManifest(c)
    <3>1. disk' \in [Files!Dirs -> [Kept -> Calls \cup {Torn, None}]] /\ failed' \in [Files!Dirs -> BOOLEAN]
      <4>1. \/ /\ disk' = [disk EXCEPT ![Folder(c)][Files!Manifest] = c]
               /\ failed' = [failed EXCEPT ![Folder(c)] = FALSE]
            \/ disk' = disk /\ failed' = failed
        BY <2>12 DEF Files!WriteManifest
      <4>2. disk' \in [Files!Dirs -> [Kept -> Calls \cup {Torn, None}]]
        <5>1. [disk EXCEPT ![Folder(c)][Files!Manifest] = c] \in [Files!Dirs -> [Kept -> Calls \cup {Torn, None}]]
          BY <2>13
        <5> QED BY <4>1, <5>1
      <4>3. failed' \in [Files!Dirs -> BOOLEAN]
        BY <4>1
      <4> QED BY <4>2, <4>3
    <3>2. exists' = exists /\ entries' = entries /\ written' = written
      BY <2>12 DEF Files!WriteManifest
    <3>3. at' = [at EXCEPT ![c] = "ok"] \/ at' = [at EXCEPT ![c] = "raised"]
      BY <2>12 DEF Files!WriteManifest
    <3> QED BY <3>1, <3>2, <3>3
  <2>14. CASE Files!MkDirFails(c)
    BY <2>14 DEF Files!MkDirFails
  <2>15. CASE Files!WriteFails(c)
    <3>1. Files!NextFile(c) \in Kept
      BY DEF Files!NextFile
    <3> DEFINE m == Files!NextFile(c)
    <3>5. disk' = disk \/ disk' = [disk EXCEPT ![Folder(c)][m] = Torn]
      BY <2>15 DEF Files!WriteFails
    <3>6. [disk EXCEPT ![Folder(c)][m] = Torn] \in [Files!Dirs -> [Kept -> Calls \cup {Torn, None}]]
      BY <2>13, <3>1
    <3>2. disk' \in [Files!Dirs -> [Kept -> Calls \cup {Torn, None}]]
      <4>1. disk \in [Files!Dirs -> [Kept -> Calls \cup {Torn, None}]]
        BY <2>2
      <4> QED BY ONLY <3>5, <3>6, <4>1
    <3>3. exists' = exists \/ exists' = exists \cup {Folder(c)}
      BY <2>15 DEF Files!WriteFails
    <3>4. at' = [at EXCEPT ![c] = "raised"] /\ failed' = failed /\ entries' = entries
          /\ written' = written
      BY <2>15 DEF Files!WriteFails
    <3> QED BY <3>2, <3>3, <3>4
  <2>16. CASE Files!RmTreeFails(c)
    BY <2>16 DEF Files!RmTreeFails
  <2> QED BY <1>2, <2>3, <2>4, <2>5, <2>6, <2>7, <2>8, <2>9, <2>10, <2>11, <2>12, <2>14, <2>15, <2>16
       DEF Files!Step
<1> QED BY <1>1, <1>2 DEF Files!Next

(* What each operation does to the project of its call. *)
LEMMA OwnEffect ==
    ASSUME FileTypes, NEW c \in Calls
    PROVE  /\ Files!Start(c) \/ Files!Build(c) \/ Files!RecordMkdir(c) \/ Files!Clear(c)
              \/ Files!RmDir(c) \/ Files!MkDir(c) \/ Files!MkDirFails(c) \/ Files!RmTreeFails(c) =>
                disk' = disk /\ failed' = failed /\ written' = written
           /\ Files!RecordWrite(c) =>
                /\ written' = written
                /\ \/ Folder(c) \notin exists /\ at'[c] = "raised" /\ disk' = disk /\ failed' = failed
                   \/ /\ Folder(c) \in exists /\ at'[c] = "error" /\ failed'[Folder(c)]
                      /\ \A n \in Kept : n # Files!Manifest => disk'[Folder(c)][n] = disk[Folder(c)][n]
           /\ Files!WriteManifest(c) =>
                /\ written' = written
                /\ \/ Folder(c) \notin exists /\ at'[c] = "raised" /\ disk' = disk /\ failed' = failed
                   \/ /\ Folder(c) \in exists /\ at'[c] = "ok" /\ ~failed'[Folder(c)]
                      /\ disk'[Folder(c)][Files!Manifest] = c
                      /\ \A n \in Kept : n # Files!Manifest => disk'[Folder(c)][n] = disk[Folder(c)][n]
           /\ Files!Put(c) =>
                /\ at' = at /\ failed' = failed /\ Folder(c) \in exists'
                /\ written'[c] = written[c] + 1 /\ written'[c] \in 1..Len(FilesOf[c])
                /\ disk'[Folder(c)][FilesOf[c][written'[c]]] = c
                /\ \A n \in Kept : n # FilesOf[c][written'[c]] => disk'[Folder(c)][n] = disk[Folder(c)][n]
           /\ Files!Unlink(c) =>
                /\ written' = written /\ exists' = exists
                /\ \E m \in entries[c] :
                     /\ entries'[c] = entries[c] \ {m}
                     /\ disk'[Folder(c)][m] = None
                     /\ \A n \in Kept : n # m => disk'[Folder(c)][n] = disk[Folder(c)][n]
                     /\ at' = at \/ (disk[Folder(c)][m] = None /\ at'[c] = "uncleared")
                     /\ m # Files!Manifest => failed' = failed
                     /\ m = Files!Manifest => ~failed'[Folder(c)]
           /\ Files!WriteFails(c) =>
                /\ at[c] \in {"record_write", "put"} /\ at'[c] = "raised"
                /\ written' = written /\ failed' = failed
                /\ exists \subseteq exists'
                /\ \/ disk' = disk
                   \/ /\ Folder(c) \in exists'
                      /\ disk'[Folder(c)][Files!NextFile(c)] = Torn
                      /\ \A n \in Kept : n # Files!NextFile(c) => disk'[Folder(c)][n] = disk[Folder(c)][n]
<1>0. /\ Folder(c) \in Files!Dirs /\ Files!Manifest \in Kept /\ Len(FilesOf[c]) \in Nat
      /\ \A i \in 1..Len(FilesOf[c]) : FilesOf[c][i] \in Kept
      /\ at \in [Calls -> Files!Final \cup {"idle", "build", "record", "record_write", "clear",
                                         "unlink", "mkdir", "put"}]
      /\ disk \in [Files!Dirs -> [Kept -> Calls \cup {Torn, None}]]
      /\ failed \in [Files!Dirs -> BOOLEAN]
      /\ written[c] \in 0..Len(FilesOf[c])
      /\ written \in [Calls -> Nat] /\ entries \in [Calls -> SUBSET Kept]
  BY FolderFacts DEF FileTypes, Files!TypeOK, Kept
<1> HIDE DEF Kept
<1> USE <1>0 DEF Folder, Files!Dir, Files!Goto, Files!WriteFile
<1>1. ASSUME Files!Start(c) \/ Files!Build(c) \/ Files!RecordMkdir(c) \/ Files!Clear(c)
              \/ Files!RmDir(c) \/ Files!MkDir(c) \/ Files!MkDirFails(c) \/ Files!RmTreeFails(c)
      PROVE  disk' = disk /\ failed' = failed /\ written' = written
  BY <1>1 DEF Files!Start, Files!Build, Files!RecordMkdir, Files!Clear, Files!RmDir, Files!MkDir,
     Files!MkDirFails, Files!RmTreeFails
<1>2. ASSUME Files!RecordWrite(c)
      PROVE  /\ written' = written
             /\ \/ Folder(c) \notin exists /\ at'[c] = "raised" /\ disk' = disk /\ failed' = failed
                \/ /\ Folder(c) \in exists /\ at'[c] = "error" /\ failed'[Folder(c)]
                   /\ \A n \in Kept : n # Files!Manifest => disk'[Folder(c)][n] = disk[Folder(c)][n]
  BY <1>2 DEF Files!RecordWrite
<1>3. ASSUME Files!WriteManifest(c)
      PROVE  /\ written' = written
             /\ \/ Folder(c) \notin exists /\ at'[c] = "raised" /\ disk' = disk /\ failed' = failed
                \/ /\ Folder(c) \in exists /\ at'[c] = "ok" /\ ~failed'[Folder(c)]
                   /\ disk'[Folder(c)][Files!Manifest] = c
                   /\ \A n \in Kept : n # Files!Manifest => disk'[Folder(c)][n] = disk[Folder(c)][n]
  BY <1>3 DEF Files!WriteManifest
<1>4. ASSUME Files!Put(c)
      PROVE  /\ at' = at /\ failed' = failed /\ Folder(c) \in exists'
             /\ written'[c] = written[c] + 1 /\ written'[c] \in 1..Len(FilesOf[c])
             /\ disk'[Folder(c)][FilesOf[c][written'[c]]] = c
             /\ \A n \in Kept : n # FilesOf[c][written'[c]] => disk'[Folder(c)][n] = disk[Folder(c)][n]
  <2>1. written'[c] = written[c] + 1 /\ written'[c] \in 1..Len(FilesOf[c])
    BY <1>4 DEF Files!Put
  <2>2. FilesOf[c][written[c] + 1] \in Kept
    BY <2>1
  <2> QED BY <1>4, <2>1, <2>2 DEF Files!Put
<1>5. ASSUME Files!Unlink(c)
      PROVE  /\ written' = written /\ exists' = exists
             /\ \E m \in entries[c] :
                  /\ entries'[c] = entries[c] \ {m}
                  /\ disk'[Folder(c)][m] = None
                  /\ \A n \in Kept : n # m => disk'[Folder(c)][n] = disk[Folder(c)][n]
                  /\ at' = at \/ (disk[Folder(c)][m] = None /\ at'[c] = "uncleared")
                  /\ m # Files!Manifest => failed' = failed
                  /\ m = Files!Manifest => ~failed'[Folder(c)]
  <2>1. written' = written /\ exists' = exists
    BY <1>5 DEF Files!Unlink
  <2>2. PICK m \in entries[c] :
           /\ entries' = [entries EXCEPT ![c] = entries[c] \ {m}]
           /\ disk' = [disk EXCEPT ![Folder(c)][m] = None]
           /\ failed' = [failed EXCEPT ![Folder(c)] = IF m = Files!Manifest THEN FALSE ELSE failed[Folder(c)]]
           /\ at' = at \/ (disk[Folder(c)][m] = None /\ at' = [at EXCEPT ![c] = "uncleared"])
    BY <1>5 DEF Files!Unlink
  <2>3. m \in Kept
    OBVIOUS
  <2>4. /\ entries'[c] = entries[c] \ {m}
        /\ disk'[Folder(c)][m] = None
        /\ \A n \in Kept : n # m => disk'[Folder(c)][n] = disk[Folder(c)][n]
    BY <2>2, <2>3
  <2>5. at' = at \/ (disk[Folder(c)][m] = None /\ at'[c] = "uncleared")
    BY <2>2
  <2>6. m # Files!Manifest => failed' = failed
    BY <2>2
  <2>7. m = Files!Manifest => ~failed'[Folder(c)]
    BY <2>2
  <2> QED BY <2>1, <2>4, <2>5, <2>6, <2>7
<1>6. ASSUME Files!WriteFails(c)
      PROVE  /\ at[c] \in {"record_write", "put"} /\ at'[c] = "raised"
             /\ written' = written /\ failed' = failed
             /\ exists \subseteq exists'
             /\ \/ disk' = disk
                \/ /\ Folder(c) \in exists'
                   /\ disk'[Folder(c)][Files!NextFile(c)] = Torn
                   /\ \A n \in Kept : n # Files!NextFile(c) => disk'[Folder(c)][n] = disk[Folder(c)][n]
  <2>1. Files!NextFile(c) \in Kept
    BY DEF Files!NextFile
  <2>2. /\ at[c] \in {"record_write", "put"} /\ at'[c] = "raised"
        /\ written' = written /\ failed' = failed /\ exists \subseteq exists'
    BY <1>6 DEF Files!WriteFails
  <2>3. \/ disk' = disk
        \/ Folder(c) \in exists' /\ disk' = [disk EXCEPT ![Folder(c)][Files!NextFile(c)] = Torn]
    BY <1>6 DEF Files!WriteFails
  <2> QED BY <2>1, <2>2, <2>3
<1> QED BY <1>1, <1>2, <1>3, <1>4, <1>5, <1>6

(* A step of any call, or a crash, keeps what a call alone in its folder   *)
(* has written.                                                            *)
LEMMA AloneStep ==
    ASSUME FileTypes, AloneInv, Files!Next
    PROVE  AloneInv'
<1>0. setup' = setup
  BY DEF Files!Next
<1> SUFFICES ASSUME NEW c \in Calls, Alone(c)
             PROVE  /\ at'[c] \in Early => Empty(Folder(c))'
                    /\ at'[c] = "put" => disk'[Folder(c)][Files!Manifest] = None /\ HasPut(c, written[c])'
                    /\ disk'[Folder(c)][Files!Manifest] \in Calls /\ ~failed'[Folder(c)] =>
                         disk'[Folder(c)][Files!Manifest] = c /\ HasPut(c, Len(FilesOf[c]))'
  BY <1>0 DEF AloneInv, Alone, Folder
<1> DEFINE d == Folder(c)
<1>1. /\ at[c] \in Early => Empty(d)
      /\ at[c] = "put" => disk[d][Files!Manifest] = None /\ HasPut(c, written[c])
      /\ disk[d][Files!Manifest] \in Calls /\ ~failed[d] =>
           disk[d][Files!Manifest] = c /\ HasPut(c, Len(FilesOf[c]))
  BY DEF AloneInv
<1>2. /\ d \in Files!Dirs /\ Files!Manifest \in Kept /\ Files!Manifest \notin Files!Names
      /\ c # None /\ None \notin Calls /\ Torn \notin Calls /\ Len(FilesOf[c]) \in Nat /\ d' = d
      /\ \A i \in 1..Len(FilesOf[c]) : FilesOf[c][i] \in Kept /\ FilesOf[c][i] # Files!Manifest
      /\ written[c] \in 0..Len(FilesOf[c]) /\ (at[c] \in Early => written[c] = 0)
  BY <1>0, FolderFacts DEF FileTypes, Files!TypeOK, Folder
<1>3. CASE /\ disk'[d] = disk[d] /\ (failed'[d] <=> failed[d])
           /\ written'[c] = written[c]
           /\ \/ at'[c] \in Early => at[c] \in Early
           /\ at'[c] = "put" => at[c] = "put" \/ at[c] \in Early
  BY <1>0, <1>1, <1>2, <1>3 DEF Empty, HasPut, Folder
<1>4. CASE Files!Crash
  BY <1>3, <1>4 DEF Files!Crash, Early
<1>5. ASSUME NEW b \in Calls, b # c, Files!Start(b) \/ Files!Step(b)
      PROVE  /\ at'[c] \in Early => Empty(d)'
             /\ at'[c] = "put" => disk'[d][Files!Manifest] = None /\ HasPut(c, written[c])'
             /\ disk'[d][Files!Manifest] \in Calls /\ ~failed'[d] =>
                  disk'[d][Files!Manifest] = c /\ HasPut(c, Len(FilesOf[c]))'
  <2>1. c \in Calls \ {b} /\ d \in Files!Dirs \ {Folder(b)}
    BY <1>2, <1>5 DEF Alone
  <2>2. /\ disk'[d] = disk[d] /\ failed'[d] = failed[d]
        /\ written'[c] = written[c] /\ at'[c] = at[c]
    BY <1>5, <2>1, OneActs
  <2> QED BY <1>3, <2>2
<1>6. ASSUME Files!Start(c) \/ Files!Step(c)
      PROVE  /\ at'[c] \in Early => Empty(d)'
             /\ at'[c] = "put" => disk'[d][Files!Manifest] = None /\ HasPut(c, written[c])'
             /\ disk'[d][Files!Manifest] \in Calls /\ ~failed'[d] =>
                  disk'[d][Files!Manifest] = c /\ HasPut(c, Len(FilesOf[c]))'
  <2>0. at[c] \in Files!Final \cup {"idle", "build", "record", "record_write", "clear",
                                         "unlink", "mkdir", "put"} /\ c \in DOMAIN at
    BY DEF FileTypes, Files!TypeOK
  <2>1. CASE Files!Start(c) \/ Files!Build(c) \/ Files!RecordMkdir(c) \/ Files!Clear(c)
              \/ Files!RmDir(c) \/ Files!MkDir(c) \/ Files!MkDirFails(c) \/ Files!RmTreeFails(c)
    <3>1. disk' = disk /\ failed' = failed /\ written' = written
      BY <2>1, OwnEffect
    <3>2. at[c] \in Early
      BY <2>1 DEF Early, Files!Start, Files!Build, Files!RecordMkdir, Files!Clear, Files!RmDir,
         Files!MkDir, Files!MkDirFails, Files!RmTreeFails
    <3> QED BY <1>3, <3>1, <3>2
  <2>2. CASE Files!RecordWrite(c)
    <3>1. at[c] = "record_write"
      BY <2>2 DEF Files!RecordWrite
    <3> QED BY <1>0, <1>1, <1>2, <2>2, <3>1, OwnEffect DEF Empty, HasPut, Early, Folder
  <2>3. CASE Files!WriteManifest(c)
    <3>1. at[c] = "put" /\ written[c] = Len(FilesOf[c])
      BY <2>3 DEF Files!WriteManifest
    <3> QED BY <1>0, <1>1, <1>2, <2>3, <3>1, OwnEffect DEF Empty, HasPut, Early, Folder
  <2>4. CASE Files!Put(c)
    <3>1. at[c] = "put"
      BY <2>4 DEF Files!Put
    <3>2. \A i \in 1..written'[c] : i = written'[c] \/ i \in 1..written[c]
      BY <1>2, <2>4, OwnEffect
    <3>3. /\ written'[c] = written[c] + 1 /\ written'[c] \in 1..Len(FilesOf[c])
          /\ disk'[d][FilesOf[c][written'[c]]] = c
          /\ \A n \in Kept : n # FilesOf[c][written'[c]] => disk'[d][n] = disk[d][n]
      BY <2>4, OwnEffect
    <3>4. ASSUME NEW i \in 1..written'[c] PROVE disk'[d][FilesOf[c][i]] = c
      <4>1. CASE i = written'[c] \/ FilesOf[c][i] = FilesOf[c][written'[c]]
        BY <3>3, <4>1
      <4>2. CASE i # written'[c] /\ FilesOf[c][i] # FilesOf[c][written'[c]]
        <5>1. i \in 1..written[c] /\ i \in 1..Len(FilesOf[c])
          BY <1>2, <3>2, <3>3, <4>2
        <5>2. disk[d][FilesOf[c][i]] = c
          BY <1>1, <3>1, <5>1 DEF HasPut
        <5> QED BY <1>2, <3>3, <4>2, <5>1, <5>2
      <4> QED BY <4>1, <4>2
    <3>5. HasPut(c, written[c])'
      BY <1>2, <3>4 DEF HasPut, Folder
    <3> QED BY <1>0, <1>1, <1>2, <2>4, <3>1, <3>5, OwnEffect DEF Early, Folder
  <2>5. CASE Files!Unlink(c)
    <3>1. at[c] = "unlink" /\ at[c] \in Early
      BY <2>5 DEF Files!Unlink, Early
    <3>2. \A n \in Kept : disk'[d][n] = None
      BY <1>1, <2>5, <3>1, OwnEffect DEF Empty
    <3>3. at'[c] # "put"
      BY <2>5, <3>1, OwnEffect
    <3> QED BY <1>0, <1>2, <3>2, <3>3 DEF Empty, Folder
  <2>6. CASE Files!WriteFails(c)
    <3>1. at'[c] \notin Early /\ at'[c] # "put" /\ disk[d][Files!Manifest] = None
      BY <1>1, <1>2, <2>6, OwnEffect DEF Early, Empty
    <3>2. disk'[d][Files!Manifest] \in {None, Torn}
      BY <1>2, <2>6, <3>1, OwnEffect
    <3> QED BY <1>2, <3>1, <3>2, FolderFacts DEF FileTypes
  <2> QED BY <1>6, <2>1, <2>2, <2>3, <2>4, <2>5, <2>6 DEF Files!Step
<1> QED BY <1>4, <1>5, <1>6 DEF Files!Next

(* Calls in turn: what one of them does to its project. *)
LEMMA TurnOwn ==
    ASSUME FileTypes, TurnInv, setup.serial, NEW c \in Calls, setup' = setup,
           Files!Start(c) \/ Files!Step(c)
    PROVE  /\ Folder(c) \notin exists' => Empty(Folder(c))'
           /\ c \in Files!Running' => InTurn(c)'
           /\ Quiet(Folder(c))' /\ disk'[Folder(c)][Files!Manifest] \in Calls /\ ~failed'[Folder(c)] =>
                Whole(Folder(c))'
           /\ Files!Running \subseteq {c}
<1> DEFINE d == Folder(c)
<1> DEFINE Goal == /\ d \notin exists' => Empty(d)'
                   /\ c \in Files!Running' => InTurn(c)'
                   /\ Quiet(d)' /\ disk'[d][Files!Manifest] \in Calls /\ ~failed'[d] => Whole(d)'
<1>1. /\ \A a, b \in Files!Running : a = b
      /\ d \notin exists => Empty(d)
      /\ c \in Files!Running => InTurn(c)
      /\ Quiet(d) /\ disk[d][Files!Manifest] \in Calls /\ ~failed[d] => Whole(d)
  BY FolderFacts DEF FileTypes, TurnInv
<1>2. /\ d \in Files!Dirs /\ Files!Manifest \in Kept /\ Files!Manifest \notin Files!Names
      /\ c # None /\ None \notin Calls /\ Torn \notin Calls /\ Len(FilesOf[c]) \in Nat /\ d' = d /\ Files!Names \subseteq Kept
      /\ \A i \in 1..Len(FilesOf[c]) : FilesOf[c][i] \in Files!Names
      /\ written[c] \in 0..Len(FilesOf[c]) /\ (at[c] \in Early => written[c] = 0)
      /\ c \in DOMAIN at /\ c \in DOMAIN entries
      /\ \A n \in Kept : n \in Files!Names \/ n = Files!Manifest
      /\ entries[c] \subseteq Kept
  BY FolderFacts DEF FileTypes, Files!TypeOK, Folder, Kept
<1>3. ASSUME Files!Step(c) PROVE c \in Files!Running /\ InTurn(c)
  <2>1. c \in Files!Running
    BY <1>3 DEF Files!Running, Files!Final, Files!Step, Files!Build, Files!RecordMkdir,
       Files!RecordWrite, Files!Clear, Files!Unlink, Files!RmDir, Files!MkDir, Files!Put,
       Files!WriteManifest, Files!MkDirFails, Files!WriteFails, Files!RmTreeFails
  <2> QED BY <1>1, <2>1
<1>4. Files!Running \subseteq {c}
  <2>1. CASE Files!Start(c)
    BY <2>1 DEF Files!Start
  <2>2. CASE Files!Step(c)
    BY <1>1, <1>3, <2>2
  <2> QED BY <2>1, <2>2
<1>5. c \in Files!Running' => ~Quiet(d)'
  BY <1>2 DEF Quiet
<1>6. c \in Files!Running' <=> at'[c] \notin Files!Final \cup {"idle"}
  BY DEF Files!Running
<1>17. Quiet(d)' => Unspoiled(c)'
  BY <1>2 DEF Quiet, Unspoiled, Folder
<1>18. ASSUME Files!Step(c), at[c] \in Untouched, disk' = disk, failed' = failed,
              Unspoiled(c)', disk'[d][Files!Manifest] \in Calls, ~failed'[d]
       PROVE  Whole(d)'
  <2>1. Unspoiled(c)
    BY <1>18, OneActs DEF Unspoiled, Folder
  <2>2. Whole(d)
    BY <1>3, <1>18, <2>1 DEF InTurn
  <2> QED BY <1>2, <1>18, <2>2 DEF Whole
<1> USE DEF Files!Goto, Files!Dir
<1>7. CASE Files!Start(c)
  <2>1. disk' = disk /\ failed' = failed /\ written' = written /\ exists' = exists
    BY <1>7, OwnEffect DEF Files!Start
  <2>2. /\ Files!Running = {} /\ at[c] = "idle"
        /\ at'[c] = IF Files!MayBuild(c) THEN "build" ELSE "refused"
        /\ \A b \in Calls : at'[b] \in Spoiled <=> at[b] \in Spoiled
    BY <1>2, <1>7 DEF Files!Start, Spoiled
  <2>3. CASE Files!MayBuild(c)
    <3>1. c \notin setup.forced => Empty(d)
      BY <1>1, <2>3 DEF Files!MayBuild, Files!Forced, Files!Present, Empty, Folder, Kept
    <3>2. c \in Files!Running' /\ at'[c] = "build"
      BY <1>6, <2>2, <2>3 DEF Files!Final
    <3>3. Unspoiled(c)' => Quiet(d)
      <4>1. c \notin Files!Running /\ at[c] \notin Spoiled
        BY <2>2 DEF Spoiled
      <4> QED BY <2>2, <4>1 DEF Quiet, Unspoiled, Folder
    <3>4. Unspoiled(c)' /\ disk'[d][Files!Manifest] \in Calls /\ ~failed'[d] => Whole(d)'
      BY <1>1, <1>2, <2>1, <3>3 DEF Whole
    <3>5. InTurn(c)'
      BY <1>2, <2>1, <3>1, <3>2, <3>4 DEF InTurn, Empty, Folder
    <3> QED BY <1>1, <1>2, <1>4, <1>5, <2>1, <3>2, <3>5 DEF Empty, Folder
  <2>4. CASE ~Files!MayBuild(c)
    <3>1. c \notin Files!Running'
      BY <1>6, <2>2, <2>4 DEF Files!Final
    <3>3. Quiet(d)' => Quiet(d)
      BY <1>2, <2>2 DEF Quiet, Folder
    <3> QED BY <1>1, <1>2, <1>4, <2>1, <3>1, <3>3 DEF Whole, Empty, Folder
  <2> QED BY <2>3, <2>4
<1>8. CASE Files!Build(c)
  <2>1. disk' = disk /\ failed' = failed /\ written' = written /\ exists' = exists
    BY <1>8, OwnEffect DEF Files!Build
  <2>2. at[c] = "build" /\ at'[c] \in {"clear", "record", "raised"} /\ Files!Step(c)
    BY <1>2, <1>8 DEF Files!Build, Files!Step
  <2>3. Unspoiled(c)' /\ disk'[d][Files!Manifest] \in Calls /\ ~failed'[d] => Whole(d)'
    BY <1>18, <2>1, <2>2 DEF Untouched
  <2>4. CASE at'[c] = "raised"
    <3>1. c \notin Files!Running'
      BY <1>6, <2>4 DEF Files!Final
    <3> QED BY <1>1, <1>2, <1>4, <1>17, <2>1, <2>3, <3>1 DEF Empty, Folder
  <2>5. CASE at'[c] \in {"clear", "record"}
    <3>1. c \in Files!Running'
      BY <1>6, <2>5 DEF Files!Final
    <3>2. c \notin setup.forced => Empty(d)
      BY <1>3, <2>2 DEF InTurn, Early
    <3>3. InTurn(c)'
      BY <1>2, <2>1, <2>3, <2>5, <3>2 DEF InTurn, Empty, Folder
    <3> QED BY <1>1, <1>2, <1>4, <1>5, <2>1, <3>1, <3>3 DEF Empty, Folder
  <2> QED BY <2>2, <2>4, <2>5
<1>9. CASE Files!RecordMkdir(c)
  <2>1. disk' = disk /\ failed' = failed /\ written' = written /\ d \in exists'
    BY <1>9, OwnEffect DEF Files!RecordMkdir, Folder
  <2>2. at[c] = "record" /\ at'[c] = "record_write" /\ Files!Step(c)
    BY <1>2, <1>9 DEF Files!RecordMkdir, Files!Step
  <2>3. c \in Files!Running'
    BY <1>6, <2>2 DEF Files!Final
  <2>4. Unspoiled(c)' /\ disk'[d][Files!Manifest] \in Calls /\ ~failed'[d] => Whole(d)'
    BY <1>18, <2>1, <2>2 DEF Untouched
  <2>5. c \notin setup.forced => Empty(d)
    BY <1>3, <2>2 DEF InTurn, Early
  <2>6. InTurn(c)'
    BY <1>2, <2>1, <2>2, <2>4, <2>5 DEF InTurn, Empty, Folder
  <2> QED BY <1>2, <1>4, <1>5, <2>1, <2>3, <2>6
<1>10. CASE Files!RecordWrite(c)
  <2>1. at[c] = "record_write" /\ exists' = exists
    BY <1>10 DEF Files!RecordWrite
  <2>2. d \in exists
    BY <1>3, <1>10, <2>1 DEF InTurn, Files!Step
  <2>3. at'[c] = "error" /\ failed'[d]
    BY <1>10, <2>2, OwnEffect
  <2>4. c \notin Files!Running'
    BY <1>6, <2>3 DEF Files!Final
  <2> QED BY <1>4, <2>1, <2>2, <2>3, <2>4, <1>2
<1>11. CASE Files!Clear(c)
  <2>1. disk' = disk /\ failed' = failed /\ written' = written /\ exists' = exists
    BY <1>11, OwnEffect DEF Files!Clear
  <2>2. at[c] = "clear"
    BY <1>11 DEF Files!Clear
  <2>3. CASE d \in exists /\ c \in setup.forced
    <3>1. at'[c] = "unlink" /\ entries'[c] = {n \in Kept : disk[d][n] # None}
      BY <1>2, <1>11, <2>3 DEF Files!Clear, Files!Present, Files!Forced, Folder, Kept
    <3>2. c \in Files!Running'
      BY <1>6, <3>1 DEF Files!Final
    <3> QED BY <1>1, <1>2, <1>4, <1>5, <2>1, <2>3, <3>1, <3>2 DEF InTurn, Empty, Folder, Early, Untouched
  <2>4. CASE ~(d \in exists /\ c \in setup.forced)
    <3>1. at'[c] = "mkdir"
      BY <1>2, <1>11, <2>4 DEF Files!Clear, Files!Forced, Folder
    <3>2. Empty(d)
      BY <1>1, <1>3, <1>11, <2>2, <2>4 DEF InTurn, Early, Files!Step
    <3>3. c \in Files!Running'
      BY <1>6, <3>1 DEF Files!Final
    <3> QED BY <1>1, <1>2, <1>4, <1>5, <2>1, <3>1, <3>2, <3>3 DEF InTurn, Empty, Folder, Untouched
  <2> QED BY <2>3, <2>4
<1>12. CASE Files!Unlink(c)
  <2>1. at[c] = "unlink"
    BY <1>12 DEF Files!Unlink
  <2>2. /\ c \in setup.forced /\ d \in exists
        /\ entries[c] = {n \in Kept : disk[d][n] # None}
    BY <1>3, <1>12, <2>1 DEF InTurn, Files!Step
  <2>3. /\ exists' = exists /\ at' = at
        /\ entries'[c] = {n \in Kept : disk'[d][n] # None}
    <3>1. exists' = exists
      BY <1>12, OwnEffect
    <3>2. PICK m \in entries[c] :
            /\ entries'[c] = entries[c] \ {m}
            /\ disk'[d][m] = None
            /\ \A n \in Kept : n # m => disk'[d][n] = disk[d][n]
            /\ at' = at \/ (disk[d][m] = None /\ at'[c] = "uncleared")
      BY <1>12, OwnEffect
    <3>3. at' = at
      BY <2>2, <3>2
    <3>4. entries'[c] = {n \in Kept : disk'[d][n] # None}
      BY <2>2, <3>2
    <3> QED BY <3>1, <3>3, <3>4
  <2>4. c \in Files!Running'
    BY <1>6, <2>1, <2>3 DEF Files!Final
  <2> QED BY <1>2, <1>4, <1>5, <2>1, <2>2, <2>3, <2>4 DEF InTurn, Folder, Untouched
<1>13. CASE Files!RmDir(c)
  <2>1. disk' = disk /\ at[c] = "unlink" /\ entries[c] = {}
    BY <1>13, OwnEffect DEF Files!RmDir
  <2>2. c \in setup.forced /\ d \in exists /\ Empty(d)
    BY <1>3, <1>13, <2>1 DEF InTurn, Files!Step, Empty
  <2>3. at'[c] = "mkdir"
    BY <1>2, <1>13, <2>2 DEF Files!RmDir, Files!Present, Empty, Folder, Kept
  <2>4. c \in Files!Running'
    BY <1>6, <2>3 DEF Files!Final
  <2> QED BY <1>2, <1>4, <1>5, <2>1, <2>2, <2>3, <2>4 DEF InTurn, Folder, Empty, Untouched
<1>14. CASE Files!MkDir(c)
  <2>1. disk' = disk /\ written' = written /\ at[c] = "mkdir" /\ d \in exists' /\ at'[c] = "put"
    BY <1>2, <1>14, OwnEffect DEF Files!MkDir, Folder
  <2>2. Empty(d) /\ written[c] = 0
    BY <1>2, <1>3, <1>14, <2>1 DEF InTurn, Files!Step, Early
  <2>3. c \in Files!Running'
    BY <1>6, <2>1 DEF Files!Final
  <2> QED BY <1>2, <1>4, <1>5, <2>1, <2>2, <2>3 DEF InTurn, Folder, Empty, Early, HasPut, Untouched
<1>15. CASE Files!Put(c)
  <2>1. at[c] = "put"
    BY <1>15 DEF Files!Put
  <2>2. /\ disk[d][Files!Manifest] = None /\ HasPut(c, written[c])
        /\ \A n \in Kept : disk[d][n] # None => \E i \in 1..written[c] : n = FilesOf[c][i]
    BY <1>3, <1>15, <2>1 DEF InTurn, Files!Step
  <2> DEFINE w == written[c] + 1
  <2>3. /\ at' = at /\ d \in exists' /\ written'[c] = w /\ w \in 1..Len(FilesOf[c])
        /\ disk'[d][FilesOf[c][w]] = c
        /\ \A n \in Kept : n # FilesOf[c][w] => disk'[d][n] = disk[d][n]
    BY <1>15, OwnEffect
  <2>4. \A i \in 1..w : i = w \/ i \in 1..written[c]
    BY <1>2
  <2>5. \A i \in 1..written[c] : i \in 1..w
    BY <1>2
  <2>6. w \in 1..w
    BY <1>2
  <2>7. c \in Files!Running'
    BY <1>6, <2>1, <2>3 DEF Files!Final
  <2> HIDE DEF w
  <2>8. disk'[d][Files!Manifest] = None
    BY <1>2, <2>2, <2>3
  <2>9. \A i \in 1..w : disk'[d][FilesOf[c][i]] = c
    <3> SUFFICES ASSUME NEW i \in 1..w PROVE disk'[d][FilesOf[c][i]] = c
      OBVIOUS
    <3>1. i \in 1..Len(FilesOf[c])
      BY <1>2, <2>3, <2>4
    <3> QED BY <1>2, <2>2, <2>3, <2>4, <3>1 DEF HasPut
  <2>10. \A n \in Kept : disk'[d][n] # None => \E i \in 1..w : n = FilesOf[c][i]
    BY <1>2, <2>2, <2>3, <2>5, <2>6
  <2>11. InTurn(c)'
    BY <1>2, <2>1, <2>3, <2>8, <2>9, <2>10 DEF InTurn, Folder, Early, HasPut, Untouched
  <2> QED BY <1>2, <1>4, <1>5, <2>3, <2>7, <2>11
<1>16. CASE Files!WriteManifest(c)
  <2>1. at[c] = "put" /\ written[c] = Len(FilesOf[c]) /\ exists' = exists
    BY <1>16 DEF Files!WriteManifest
  <2>2. /\ d \in exists /\ HasPut(c, Len(FilesOf[c]))
        /\ \A n \in Kept : disk[d][n] # None => \E i \in 1..Len(FilesOf[c]) : n = FilesOf[c][i]
    BY <1>3, <1>16, <2>1 DEF InTurn, Files!Step
  <2>3. /\ at'[c] = "ok" /\ disk'[d][Files!Manifest] = c
        /\ \A n \in Kept : n # Files!Manifest => disk'[d][n] = disk[d][n]
    BY <1>16, <2>2, OwnEffect
  <2>4. c \notin Files!Running'
    BY <1>6, <2>3 DEF Files!Final
  <2>5. ASSUME NEW n \in Files!Names
        PROVE disk'[d][n] = IF \E i \in 1..Len(FilesOf[c]) : n = FilesOf[c][i] THEN c ELSE None
    <3>1. disk'[d][n] = disk[d][n]
      BY <1>2, <2>3
    <3> QED BY <1>2, <2>2, <3>1 DEF HasPut
  <2>6. Whole(d)'
    BY <1>2, <2>3, <2>5 DEF Whole
  <2> QED BY <1>2, <1>4, <2>1, <2>2, <2>4, <2>6
<1>19. CASE Files!MkDirFails(c)
  <2>1. disk' = disk /\ failed' = failed /\ written' = written /\ exists' = exists
    BY <1>19, OwnEffect DEF Files!MkDirFails
  <2>2. at[c] \in {"record", "mkdir"} /\ at'[c] = "raised" /\ Files!Step(c)
    BY <1>2, <1>19 DEF Files!MkDirFails, Files!Step
  <2>3. c \notin Files!Running'
    BY <1>6, <2>2 DEF Files!Final
  <2>4. Quiet(d)' /\ disk'[d][Files!Manifest] \in Calls /\ ~failed'[d] => Whole(d)'
    <3>1. CASE at[c] = "record"
      BY <1>17, <1>18, <2>1, <2>2, <3>1 DEF Untouched
    <3>2. CASE at[c] = "mkdir"
      BY <1>2, <1>3, <2>1, <2>2, <3>2, FolderFacts DEF InTurn, Empty, FileTypes
    <3> QED BY <2>2, <3>1, <3>2
  <2> QED BY <1>1, <1>2, <1>4, <2>1, <2>3, <2>4 DEF Empty, Folder
<1>20. CASE Files!WriteFails(c)
  <2>1. /\ at[c] \in {"record_write", "put"} /\ at'[c] = "raised"
        /\ failed' = failed /\ exists \subseteq exists' /\ Files!Step(c)
    BY <1>20, OwnEffect DEF Files!Step
  <2>2. c \notin Files!Running'
    BY <1>6, <2>1 DEF Files!Final
  <2>3. d \in exists'
    BY <1>3, <2>1 DEF InTurn
  <2>4. Quiet(d)' /\ disk'[d][Files!Manifest] \in Calls /\ ~failed'[d] => Whole(d)'
    <3>1. CASE at[c] = "record_write"
      <4>1. disk' = disk \/ disk'[d][Files!Manifest] = Torn
        <5>1. Files!NextFile(c) = Files!Manifest
          BY <3>1 DEF Files!NextFile
        <5> QED BY <1>20, <5>1, OwnEffect
      <4>2. CASE disk' = disk
        BY <1>17, <1>18, <2>1, <3>1, <4>2 DEF Untouched
      <4>3. CASE disk'[d][Files!Manifest] = Torn
        BY <4>3, FolderFacts DEF FileTypes
      <4> QED BY <4>1, <4>2, <4>3
    <3>2. CASE at[c] = "put"
      <4>1. disk[d][Files!Manifest] = None
        BY <1>3, <2>1, <3>2 DEF InTurn
      <4>2. disk'[d][Files!Manifest] \in {None, Torn}
        BY <1>2, <1>20, <4>1, OwnEffect
      <4> QED BY <4>2, FolderFacts DEF FileTypes
    <3> QED BY <2>1, <3>1, <3>2
  <2> QED BY <1>2, <1>4, <2>2, <2>3, <2>4
<1>21. CASE Files!RmTreeFails(c)
  <2>1. disk' = disk /\ exists' = exists
    BY <1>21, OwnEffect DEF Files!RmTreeFails
  <2>2. at'[c] = "uncleared"
    BY <1>2, <1>21 DEF Files!RmTreeFails
  <2>3. c \notin Files!Running' /\ ~Quiet(d)'
    BY <1>2, <1>6, <2>2 DEF Files!Final, Quiet, Spoiled
  <2> QED BY <1>1, <1>2, <1>4, <2>1, <2>3 DEF Empty, Folder
<1> QED BY <1>7, <1>8, <1>9, <1>10, <1>11, <1>12, <1>13, <1>14, <1>15, <1>16, <1>19, <1>20, <1>21
     DEF Files!Step

(* A step of the running call, or a crash, keeps what calls in turn have   *)
(* written.                                                                *)
LEMMA TurnStep ==
    ASSUME FileTypes, TurnInv, Files!Next
    PROVE  TurnInv'
<1>0. setup' = setup /\ Files!Dirs' = Files!Dirs
  BY DEF Files!Next, Files!Dirs, Files!Dir
<1> SUFFICES ASSUME setup.serial
             PROVE  /\ \A b, c \in Files!Running' : b = c
                    /\ \A d \in Files!Dirs \ exists' : Empty(d)'
                    /\ \A c \in Files!Running' : InTurn(c)'
                    /\ \A d \in Files!Dirs :
                         Quiet(d)' /\ disk'[d][Files!Manifest] \in Calls /\ ~failed'[d] => Whole(d)'
  BY <1>0 DEF TurnInv
<1>1. /\ \A d \in Files!Dirs \ exists : Empty(d)
      /\ \A d \in Files!Dirs :
           Quiet(d) /\ disk[d][Files!Manifest] \in Calls /\ ~failed[d] => Whole(d)
  BY DEF TurnInv
<1>2. CASE Files!Crash
  <2>1. exists' = exists /\ disk' = disk /\ failed' = failed
    BY <1>2 DEF Files!Crash
  <2>2. Files!Running' = {}
    BY <1>2 DEF Files!Crash, Files!Running, Files!Final
  <2>3. \A d \in Files!Dirs : Quiet(d)' => Quiet(d)
    BY <1>0, <1>2 DEF Files!Crash, Quiet, Folder, Spoiled
  <2>4. \A d \in Files!Dirs : (Empty(d)' <=> Empty(d)) /\ (Whole(d)' <=> Whole(d))
    BY <2>1 DEF Empty, Whole
  <2> QED BY <1>1, <2>1, <2>2, <2>3, <2>4
<1>3. ASSUME NEW c \in Calls, Files!Start(c) \/ Files!Step(c)
      PROVE  /\ \A a, b \in Files!Running' : a = b
             /\ \A d \in Files!Dirs \ exists' : Empty(d)'
             /\ \A a \in Files!Running' : InTurn(a)'
             /\ \A d \in Files!Dirs :
                  Quiet(d)' /\ disk'[d][Files!Manifest] \in Calls /\ ~failed'[d] => Whole(d)'
  <2>1. /\ Folder(c) \notin exists' => Empty(Folder(c))'
        /\ c \in Files!Running' => InTurn(c)'
        /\ Quiet(Folder(c))' /\ disk'[Folder(c)][Files!Manifest] \in Calls /\ ~failed'[Folder(c)] =>
             Whole(Folder(c))'
        /\ Files!Running \subseteq {c} /\ Folder(c)' = Folder(c)
    BY <1>0, <1>3, TurnOwn DEF Folder
  <2>2. /\ \A b \in Calls \ {c} : at'[b] = at[b]
        /\ \A d \in Files!Dirs \ {Folder(c)} :
             disk'[d] = disk[d] /\ failed'[d] = failed[d] /\ (d \in exists' <=> d \in exists)
    BY <1>3, OneActs
  <2>3. Files!Running' \subseteq {c}
    BY <2>1, <2>2 DEF Files!Running
  <2>4. ASSUME NEW d \in Files!Dirs, d # Folder(c)
        PROVE  /\ d \notin exists' => Empty(d)'
               /\ Quiet(d)' /\ disk'[d][Files!Manifest] \in Calls /\ ~failed'[d] => Whole(d)'
    <3>1. disk'[d] = disk[d] /\ failed'[d] = failed[d] /\ (d \in exists' <=> d \in exists)
      BY <2>2, <2>4
    <3>2. Quiet(d)' => Quiet(d)
      BY <1>0, <2>2, <2>4 DEF Quiet, Folder, Files!Running
    <3>3. (Empty(d)' <=> Empty(d)) /\ (Whole(d)' <=> Whole(d))
      BY <3>1 DEF Empty, Whole
    <3>4. ~failed'[d] => ~failed[d]
      BY <3>1
    <3> QED BY <1>1, <3>1, <3>2, <3>3, <3>4
  <2> QED BY <2>1, <2>3, <2>4
<1> QED BY <1>2, <1>3 DEF Files!Next

(* The invariant of the project folders holds in every state. *)
THEOREM FilesInvariant == ServiceSpec => []FilesInv
<1>1. ServiceInit => FilesInv
  <2> SUFFICES ASSUME Files!Init PROVE FilesInv
    BY DEF ServiceInit
  <2> USE DEF Files!Init
  <2>1. FileTypes
    <3>1. \A c \in Calls : Len(FilesOf[c]) \in Nat
      BY FolderFacts
    <3>2. setup \in Setups /\ entries \in [Calls -> SUBSET Kept] /\ written \in [Calls -> Nat]
      OBVIOUS
    <3>3. Files!TypeOK
      BY <3>1 DEF Files!TypeOK, Files!Final
    <3> QED BY <3>2, <3>3 DEF FileTypes
  <2>2. \A d \in Files!Dirs : Empty(d) /\ disk[d][Files!Manifest] = None
    BY DEF Empty, Kept
  <2>3. Files!Running = {}
    BY DEF Files!Running
  <2>4. AloneInv
    BY <2>1, <2>2, FolderFacts DEF FileTypes, AloneInv
  <2>5. TurnInv
    BY <2>1, <2>2, <2>3, FolderFacts DEF TurnInv, FileTypes
  <2> QED BY <2>1, <2>4, <2>5 DEF FilesInv
<1>2. FilesInv /\ [ServiceNext]_serviceVars => FilesInv'
  <2>1. FilesInv /\ Files!Next => FilesInv'
    BY FileTypesStep, AloneStep, TurnStep DEF FilesInv
  <2>2. FilesInv /\ UNCHANGED fileVars => FilesInv'
    <3> SUFFICES ASSUME FilesInv, UNCHANGED fileVars PROVE FilesInv'
      OBVIOUS
    <3> USE DEF fileVars
    <3>1. Files!Dirs' = Files!Dirs /\ Files!Running' = Files!Running
      BY DEF Files!Dirs, Files!Dir, Files!Running
    <3>2. FileTypes'
      BY <3>1 DEF FilesInv, FileTypes, Files!TypeOK
    <3>3. AloneInv'
      BY DEF FilesInv, AloneInv, Alone, Folder, Empty, HasPut
    <3>4. TurnInv'
      BY <3>1 DEF FilesInv, TurnInv, Empty, InTurn, Folder, HasPut, Quiet, Whole, Unspoiled
    <3> QED BY <3>2, <3>3, <3>4 DEF FilesInv
  <2>3. [ServiceNext]_serviceVars => Files!Next \/ UNCHANGED fileVars
    BY DEF ServiceNext, CosimRuns, PipeRuns, FilesRun, StreamRuns, MergeRuns, serviceVars
  <2> QED BY <2>1, <2>2, <2>3
<1> QED BY <1>1, <1>2, PTL DEF ServiceSpec, ServiceSafety

(* What a manifest without an error promises is on the disk, of any number *)
(* of calls and files.                                                     *)
THEOREM ProjectsStayWhole == ServiceSpec => []ProjectsAreWhole
<1>1. FilesInv => Files!ManifestMeansComplete
  <2> SUFFICES ASSUME FilesInv, NEW d \in Files!Dirs,
                      \A b, c \in Calls : Folder(b) = d /\ Folder(c) = d => b = c,
                      disk[d][Files!Manifest] \in Calls, ~failed[d],
                      NEW n \in Files!ToSet(FilesOf[disk[d][Files!Manifest]])
               PROVE  disk[d][n] = disk[d][Files!Manifest]
    BY DEF Files!ManifestMeansComplete, Files!Signed, Files!ListedAreThere, Files!Dir, Folder
  <2>1. PICK c \in Calls : d = Folder(c)
    BY FolderFacts DEF FilesInv, FileTypes
  <2>2. disk[d][Files!Manifest] = c /\ HasPut(c, Len(FilesOf[c]))
    BY <2>1 DEF FilesInv, AloneInv, Alone
  <2>3. \E i \in 1..Len(FilesOf[c]) : n = FilesOf[c][i]
    BY <2>2, FolderFacts, LenProperties DEF FilesInv, FileTypes, Files!ToSet
  <2> QED BY <2>1, <2>2, <2>3 DEF HasPut
<1>2. FilesInv => Files!QuietProjectsAreWhole
  <2> SUFFICES ASSUME FilesInv, setup.serial, NEW d \in Files!Dirs,
                      disk[d][Files!Manifest] \in Calls, ~failed[d],
                      Quiet(d)
               PROVE  Files!Complete(d) /\ \A n \in Files!Present(d) : disk[d][n] = disk[d][Files!Manifest]
    BY DEF Files!QuietProjectsAreWhole, Files!Signed, Files!Dir, Folder, Quiet, Spoiled
  <2>1. Whole(d)
    BY DEF FilesInv, TurnInv
  <2>2. PICK c \in Calls :
          /\ disk[d][Files!Manifest] = c
          /\ \A n \in Files!Names :
               disk[d][n] = IF \E i \in 1..Len(FilesOf[c]) : n = FilesOf[c][i] THEN c ELSE None
    BY <2>1 DEF Whole
  <2>3. /\ c # None /\ Files!Manifest \notin Files!Names /\ FilesOf[c] \in Seq(Files!Names)
        /\ \A i \in 1..Len(FilesOf[c]) : FilesOf[c][i] \in Files!Names
    BY FolderFacts DEF FilesInv, FileTypes
  <2>4. Files!ToSet(FilesOf[c]) = {FilesOf[c][i] : i \in 1..Len(FilesOf[c])}
    BY <2>3, LenProperties DEF Files!ToSet
  <2>5. Files!Complete(d)
    BY <2>2, <2>3, <2>4 DEF Files!Complete, Files!Present
  <2>6. \A n \in Files!Present(d) : disk[d][n] = disk[d][Files!Manifest]
    BY <2>2 DEF Files!Present
  <2> QED BY <2>5, <2>6
<1>3. FilesInv => ProjectsAreWhole
  BY <1>1, <1>2 DEF ProjectsAreWhole, Files!ProjectsAreWhole, FilesInv, FileTypes
<1> QED BY <1>3, FilesInvariant, PTL

(* Of calls that do not overlap, only a forced one that runs changes or    *)
(* removes a file of a project that is there.                              *)
THEOREM ForcedCallsAlone == ServiceSpec => UnforcedCallsKeepProjects
<1> DEFINE Keeps ==
      setup.serial =>
        \A d \in Files!Dirs, n \in Files!Names \cup {Files!Manifest} :
          disk[d][n] # None /\ disk'[d][n] # disk[d][n] =>
            \E c \in Files!Forced \cap Files!Running : Files!Dir[c] = d
<1>1. FilesInv /\ Files!Next => Keeps
  <2> SUFFICES ASSUME FilesInv, setup.serial, Files!Next, NEW d \in Files!Dirs, NEW n \in Kept,
                      disk[d][n] # None, disk'[d][n] # disk[d][n]
               PROVE  \E c \in setup.forced \cap Files!Running : Folder(c) = d
    BY DEF Kept, Folder, Files!Forced, Files!Dir
  <2>1. PICK c \in Calls : Files!Start(c) \/ Files!Step(c)
    BY DEF Files!Next, Files!Crash
  <2>2. d = Folder(c)
    BY <2>1, OneActs DEF FilesInv
  <2>3. Files!Step(c)
    BY <2>1, OwnEffect DEF FilesInv
  <2>4. c \in Files!Running
    BY <2>3 DEF Files!Running, Files!Final, Files!Step, Files!Build, Files!RecordMkdir,
       Files!RecordWrite, Files!Clear, Files!Unlink, Files!RmDir, Files!MkDir, Files!Put,
       Files!WriteManifest, Files!MkDirFails, Files!WriteFails, Files!RmTreeFails
  <2>5. InTurn(c) /\ FileTypes
    BY <2>4 DEF FilesInv, TurnInv
  <2>6. c \in setup.forced
    <3> SUFFICES ASSUME c \notin setup.forced PROVE FALSE
      OBVIOUS
    <3>1. at[c] \notin Early
      BY <2>2, <2>5 DEF InTurn, Empty
    <3>2. (Files!Put(c) \/ Files!WriteManifest(c) \/ Files!WriteFails(c)) /\ at[c] = "put"
      BY <2>3, <3>1 DEF Early, Files!Step, Files!Build, Files!RecordMkdir,
         Files!RecordWrite, Files!Clear, Files!Unlink, Files!RmDir, Files!MkDir,
         Files!Put, Files!WriteManifest, Files!MkDirFails, Files!WriteFails, Files!RmTreeFails
    <3>3. /\ at[c] = "put" /\ disk[d][Files!Manifest] = None /\ HasPut(c, written[c])
          /\ \E i \in 1..written[c] : n = FilesOf[c][i]
      BY <2>2, <2>5, <3>2 DEF InTurn
    <3>4. disk[d][n] = c
      BY <2>2, <3>3 DEF HasPut
    <3>5. CASE Files!Put(c)
      BY <2>2, <2>5, <3>4, <3>5, OwnEffect
    <3>6. CASE Files!WriteManifest(c)
      BY <2>2, <2>5, <3>3, <3>6, OwnEffect
    <3>7. CASE Files!WriteFails(c)
      <4>1. n = Files!NextFile(c)
        BY <2>2, <2>5, <3>7, OwnEffect
      <4>2. n # Files!Manifest
        BY <3>3
      <4>3. written[c] + 1 \in 1..Len(FilesOf[c]) /\ n = FilesOf[c][written[c] + 1]
        <5>1. written[c] \in 0..Len(FilesOf[c]) /\ Len(FilesOf[c]) \in Nat
          BY <2>5, FolderFacts DEF FileTypes, Files!TypeOK
        <5> QED BY <4>1, <4>2, <5>1 DEF Files!NextFile
      <4>4. PICK i \in 1..written[c] : n = FilesOf[c][i]
        BY <3>3
      <4>5. \A k, l \in 1..Len(FilesOf[c]) : FilesOf[c][k] = FilesOf[c][l] => k = l
        BY <2>5, FolderFacts DEF FileTypes
      <4>6. written[c] \in Nat /\ i \in 1..Len(FilesOf[c])
        BY <2>5, <4>3, FolderFacts DEF FileTypes
      <4>7. i = written[c] + 1
        BY ONLY <4>3, <4>4, <4>5, <4>6
      <4> QED BY ONLY <4>6, <4>7
    <3> QED BY <3>2, <3>5, <3>6, <3>7
  <2> QED BY <2>2, <2>4, <2>6
<1>2. [ServiceNext]_serviceVars => [Files!Next]_(Files!filesVars)
  BY DEF ServiceNext, CosimRuns, PipeRuns, FilesRun, StreamRuns, MergeRuns, serviceVars,
     fileVars, Files!filesVars, Files!moving
<1>3. FilesInv /\ [ServiceNext]_serviceVars => [Keeps]_(Files!filesVars)
  BY <1>1, <1>2
<1> QED BY <1>3, FilesInvariant, PTL DEF ServiceSpec, ServiceSafety,
        UnforcedCallsKeepProjects, Files!UnforcedCallsKeepProjects

----------------------------------------------------------------------------
(* The co-simulation session: it stands where a simulation of its history  *)
(* ends (Follows).                                                         *)

(* Induction: a set that holds 0 and, with n, n + 1, holds every number.   *)
LEMMA SetInduction ==
    ASSUME NEW S, 0 \in S, \A n \in Nat : n \in S => n + 1 \in S
    PROVE  Nat \subseteq S
<1> DEFINE Less == {ss \in Nat \X Nat : ss[1] < ss[2]}
           Rest == Nat \ S
<1> SUFFICES ASSUME Rest # {} PROVE FALSE
  OBVIOUS
<1>1. IsWellFoundedOn(Less, Nat)
  BY NatLessThanWellFounded DEF OpToRel
<1>2. Rest \subseteq Nat
  OBVIOUS
<1>3. PICK n \in Rest : \A m \in Rest : <<m, n>> \notin Less
  <2> HIDE DEF Less, Rest
  <2> QED BY <1>1, <1>2, WFMin
<1>4. n \in Nat /\ n # 0 /\ n - 1 \in Nat /\ n - 1 < n
  OBVIOUS
<1>5. n - 1 \in S
  <2>1. <<n - 1, n>> \in Less
    BY <1>4
  <2> QED BY <1>3, <1>4, <2>1
<1> QED BY <1>4, <1>5

(* The inputs a session may have on.                                       *)
Ons == SUBSET UNION {sp.inputs : sp \in Specs}

(* The engine's states when it scans with the inputs of h.                 *)
Scans(sp, dt, h, f) ==
    f = [i \in 0..Len(h) |-> IF i = 0 THEN PowerOn(sp) ELSE StScan(sp, f[i - 1], h[i], dt)]

Sample(sp, dt, h, f, i) == [t |-> i * dt, i |-> h[i], o |-> OnOutputs(sp, f[i].table)]
Shown(n) == IF n > MaxTrace THEN MaxTrace ELSE n
Cut(g, n) == [j \in 1..Shown(n) |-> g[n - Shown(n) + j]]
LastSamples(sp, dt, h, f) ==
    [j \in 1..Shown(Len(h)) |-> Sample(sp, dt, h, f, Len(h) - Shown(Len(h)) + j)]

IsSession(s) ==
    /\ s = [spec |-> s.spec, dt |-> s.dt, t |-> s.t, engine |-> s.engine, scanned |-> s.scanned,
            inputs |-> s.inputs, trace |-> s.trace, truncated |-> s.truncated]
    /\ s.spec \in Specs /\ s.dt \in Nat /\ s.inputs \subseteq s.spec.inputs
    /\ s.truncated \in BOOLEAN

(* A session that has scanned with the inputs of h stands where a          *)
(* simulation of h ends, and shows its last samples.                       *)
Follows(s, h) ==
    /\ IsSession(s)
    /\ h \in Seq(Ons)
    /\ \E f : /\ Scans(s.spec, s.dt, h, f)
              /\ s.engine = f[Len(h)] /\ s.t = Len(h) * s.dt
              /\ s.trace = LastSamples(s.spec, s.dt, h, f)
              /\ s.truncated <=> Len(h) > MaxTrace

SessionInv == session # NoSession => Follows(session, history)

----------------------------------------------------------------------------
(* A new sample is appended, and the oldest dropped when there are too     *)
(* many: the last samples are shown again.                                 *)
LEMMA SamplesMove ==
    ASSUME NEW n \in Nat, NEW g
    PROVE  /\ Len(Append(Cut(g, n), g[n + 1])) = Shown(n) + 1
           /\ Truncate(Append(Cut(g, n), g[n + 1])) = Cut(g, n + 1)
<1> DEFINE X == {g[i] : i \in 1..(n + 1)}
           old == Cut(g, n)
           e == g[n + 1]
           new == Append(old, e)
<1>0. /\ old = [j \in 1..Shown(n) |-> g[n - Shown(n) + j]]
      /\ Cut(g, n + 1) = [j \in 1..Shown(n + 1) |-> g[(n + 1) - Shown(n + 1) + j]]
  BY DEF Cut
<1> HIDE DEF old
<1>1. /\ Shown(n) \in Nat /\ Shown(n) <= n /\ MaxTrace \in Nat \ {0}
      /\ n < MaxTrace => Shown(n) = n /\ Shown(n + 1) = n + 1
      /\ n >= MaxTrace => Shown(n) = MaxTrace /\ Shown(n + 1) = MaxTrace
  BY CosimAssumption DEF Shown
<1> HIDE DEF Shown
<1>2. \A j \in 1..Shown(n) : n - Shown(n) + j \in 1..(n + 1)
  BY <1>1
<1>3. old \in Seq(X) /\ e \in X
  <2>1. old \in [1..Shown(n) -> X]
    BY <1>0, <1>2
  <2>2. n + 1 \in 1..(n + 1)
    OBVIOUS
  <2>3. e \in X
    BY <2>2
  <2> HIDE DEF X
  <2> QED BY <1>1, <2>1, <2>3, SeqDef
<1>4. Len(old) = Shown(n) /\ \A i \in 1..Shown(n) : old[i] = g[n - Shown(n) + i]
  BY <1>0, <1>1
<1>5. /\ new \in Seq(X) /\ new # <<>> /\ Len(new) = Shown(n) + 1
      /\ \A i \in 1..Shown(n) : new[i] = g[n - Shown(n) + i]
      /\ new[Shown(n) + 1] = g[n + 1]
  <2> HIDE DEF X
  <2>1. /\ new \in Seq(X) /\ new # <<>> /\ Len(new) = Len(old) + 1
        /\ \A i \in 1..Len(old) : new[i] = old[i]
        /\ new[Len(old) + 1] = e
    BY ONLY <1>3, AppendProperties
  <2> QED BY <1>4, <2>1
<1>6. \A i \in 1..(Shown(n) + 1) : new[i] = g[n - Shown(n) + i]
  <2> HIDE DEF new, X
  <2> SUFFICES ASSUME NEW i \in 1..(Shown(n) + 1) PROVE new[i] = g[n - Shown(n) + i]
    OBVIOUS
  <2>1. i \in 1..Shown(n) \/ (i = Shown(n) + 1 /\ n - Shown(n) + i = n + 1)
    BY <1>1
  <2> QED BY <1>5, <2>1
<1> HIDE DEF new, X
<1>7. CASE n < MaxTrace
  <2>1. Truncate(new) = new
    BY <1>1, <1>5, <1>7 DEF Truncate
  <2>2. new = [i \in 1..(n + 1) |-> new[i]]
    <3>1. Len(new) = n + 1
      BY <1>1, <1>5, <1>7
    <3> QED BY <1>5, <3>1, LenProperties
  <2>3. \A i \in 1..(n + 1) : new[i] = g[(n + 1) - (n + 1) + i]
    BY <1>1, <1>6, <1>7
  <2>4. Truncate(new) = [i \in 1..Shown(n + 1) |-> g[(n + 1) - Shown(n + 1) + i]]
    <3>1. Shown(n + 1) = n + 1
      BY <1>1, <1>7
    <3>2. /\ new = [i \in 1..Shown(n + 1) |-> new[i]]
          /\ \A i \in 1..Shown(n + 1) : new[i] = g[(n + 1) - Shown(n + 1) + i]
      BY <2>2, <2>3, <3>1
    <3> QED BY ONLY <2>1, <3>2
  <2> QED BY <1>0, <1>5, <2>4 DEF new, old
<1>8. CASE n >= MaxTrace
  <2>1. Truncate(new) = Tail(new)
    BY <1>1, <1>5, <1>8 DEF Truncate
  <2>2. /\ Tail(new) \in Seq(X) /\ Len(Tail(new)) = MaxTrace
        /\ \A i \in 1..MaxTrace : Tail(new)[i] = new[i + 1]
    <3>1. /\ Tail(new) \in Seq(X) /\ Len(Tail(new)) = Len(new) - 1
          /\ \A i \in 1..Len(Tail(new)) : Tail(new)[i] = new[i + 1]
      BY <1>5, HeadTailProperties
    <3> QED BY <1>1, <1>5, <1>8, <3>1
  <2>3. Tail(new) = [i \in 1..MaxTrace |-> Tail(new)[i]]
    BY <2>2, LenProperties
  <2>4. \A i \in 1..MaxTrace : Tail(new)[i] = g[(n + 1) - MaxTrace + i]
    <3> SUFFICES ASSUME NEW i \in 1..MaxTrace PROVE Tail(new)[i] = g[(n + 1) - MaxTrace + i]
      OBVIOUS
    <3>1. /\ i + 1 \in 1..(Shown(n) + 1)
          /\ n - Shown(n) + (i + 1) = (n + 1) - MaxTrace + i
      BY <1>1, <1>8
    <3> QED BY <1>6, <2>2, <3>1
  <2>5. Truncate(new) = [i \in 1..Shown(n + 1) |-> g[(n + 1) - Shown(n + 1) + i]]
    <3>1. Shown(n + 1) = MaxTrace
      BY <1>1, <1>8
    <3>2. /\ Tail(new) = [i \in 1..Shown(n + 1) |-> Tail(new)[i]]
          /\ \A i \in 1..Shown(n + 1) : Tail(new)[i] = g[(n + 1) - Shown(n + 1) + i]
      BY <2>3, <2>4, <3>1
    <3> QED BY ONLY <2>1, <3>2
  <2> QED BY <1>0, <1>5, <2>5 DEF new, old
<1> QED BY <1>1, <1>7, <1>8 DEF new, old

(* One scan more: the session follows the history with its inputs added.   *)
LEMMA OneScanFollows ==
    ASSUME NEW s, NEW h, Follows(s, h)
    PROVE  /\ Follows(OneScan(s), Append(h, s.inputs))
           /\ OneScan(s).inputs = s.inputs
<1> DEFINE n == Len(h)
           h1 == Append(h, s.inputs)
           engine == StScan(s.spec, s.engine, s.inputs, s.dt)
           e == [t |-> s.t + s.dt, i |-> s.inputs, o |-> OnOutputs(s.spec, engine.table)]
           s1 == OneScan(s)
<1>1. IsSession(s) /\ h \in Seq(Ons) /\ n \in Nat /\ s.inputs \in Ons /\ s.dt \in Nat
  <2>1. IsSession(s) /\ h \in Seq(Ons)
    BY DEF Follows
  <2>2. s.inputs \in Ons
    BY <2>1 DEF IsSession, Ons
  <2> QED BY <2>1, <2>2, LenProperties DEF IsSession
<1>2. PICK f : /\ Scans(s.spec, s.dt, h, f)
               /\ s.engine = f[n] /\ s.t = n * s.dt
               /\ s.trace = LastSamples(s.spec, s.dt, h, f)
               /\ s.truncated <=> n > MaxTrace
  BY DEF Follows
<1>3. /\ h1 \in Seq(Ons) /\ Len(h1) = n + 1 /\ h1[n + 1] = s.inputs
      /\ \A i \in 1..n : h1[i] = h[i]
  <2> HIDE DEF Ons
  <2> QED BY <1>1, AppendProperties
<1>4. /\ s1.spec = s.spec /\ s1.dt = s.dt /\ s1.t = s.t + s.dt /\ s1.engine = engine
      /\ s1.inputs = s.inputs /\ s1.trace = Truncate(Append(s.trace, e))
      /\ s1.truncated = (s.truncated \/ Len(Append(s.trace, e)) > MaxTrace)
      /\ IsSession(s1)
  <2>1. s1 = [s EXCEPT !.engine = engine, !.t = @ + s.dt, !.scanned = TRUE,
                       !.trace = Truncate(Append(s.trace, e)),
                       !.truncated = @ \/ Len(Append(s.trace, e)) > MaxTrace]
    BY DEF OneScan
  <2> DEFINE tr == Truncate(Append(s.trace, e))
             cut == s.truncated \/ Len(Append(s.trace, e)) > MaxTrace
             yes == TRUE
  <2>2. s1 = [spec |-> s.spec, dt |-> s.dt, t |-> s.t + s.dt, engine |-> engine, scanned |-> yes,
              inputs |-> s.inputs, trace |-> tr, truncated |-> cut]
    <3>1. s = [spec |-> s.spec, dt |-> s.dt, t |-> s.t, engine |-> s.engine, scanned |-> s.scanned,
            inputs |-> s.inputs, trace |-> s.trace, truncated |-> s.truncated]
      BY <1>1 DEF IsSession
    <3>2. s1 = [s EXCEPT !.engine = engine, !.t = s.t + s.dt, !.scanned = yes,
                       !.trace = tr, !.truncated = cut]
      BY <2>1
    <3> HIDE DEF engine, tr, cut, s1, yes
    <3> QED BY <3>1, <3>2
  <2>3. cut \in BOOLEAN
    OBVIOUS
  <2> HIDE DEF engine, tr, cut, s1, yes
  <2>4. IsSession(s1)
    BY <1>1, <2>2, <2>3 DEF IsSession
  <2> QED BY <2>2, <2>4 DEF tr, cut
<1> DEFINE f1 == [i \in 0..(n + 1) |-> IF i = n + 1 THEN engine ELSE f[i]]
<1>5. Scans(s.spec, s.dt, h1, f1)
  <2> DEFINE k == [i \in 0..(n + 1) |->
                    IF i = 0 THEN PowerOn(s.spec) ELSE StScan(s.spec, f1[i - 1], h1[i], s.dt)]
  <2> HIDE DEF h1
  <2>0. f = [i \in 0..n |-> IF i = 0 THEN PowerOn(s.spec) ELSE StScan(s.spec, f[i - 1], h[i], s.dt)]
    BY <1>2 DEF Scans
  <2>1. \A i \in 0..(n + 1) : f1[i] = k[i]
    <3> SUFFICES ASSUME NEW i \in 0..(n + 1) PROVE f1[i] = k[i]
      OBVIOUS
    <3>1. CASE i = 0
      BY <1>1, <2>0, <3>1
    <3>2. CASE i \in 1..n
      <4>1. i - 1 \in 0..n /\ i \in 0..n /\ f1[i - 1] = f[i - 1] /\ f1[i] = f[i] /\ h1[i] = h[i]
        BY <1>1, <1>3, <3>2
      <4>2. f[i] = StScan(s.spec, f[i - 1], h[i], s.dt)
        BY <2>0, <3>2, SMTT(30)
      <4> QED BY <3>2, <4>1, <4>2
    <3>3. CASE i = n + 1
      <4>1. f1[n] = f[n] /\ i # 0 /\ i - 1 = n /\ h1[i] = s.inputs
        BY <1>1, <1>3, <3>3
      <4> QED BY <1>2, <3>3, <4>1
    <3> QED BY <1>1, <3>1, <3>2, <3>3
  <2>2. f1 = k
    <3>1. f1 = [i \in 0..(n + 1) |-> f1[i]] /\ k = [i \in 0..(n + 1) |-> k[i]]
      OBVIOUS
    <3> HIDE DEF f1, k
    <3> QED BY <2>1, <3>1
  <2> HIDE DEF f1
  <2> QED BY <1>3, <2>2 DEF Scans
<1>6. f1[n + 1] = engine /\ \A i \in 0..n : f1[i] = f[i]
  BY <1>1
<1>7. s1.t = (n + 1) * s.dt
  <2>1. (n + 1) * s.dt = n * s.dt + s.dt
    BY <1>1
  <2> QED BY <1>2, <1>4, <2>1
<1> HIDE DEF f1, h1
<1> DEFINE g == [i \in 1..(n + 1) |-> Sample(s.spec, s.dt, h1, f1, i)]
<1>8. e = g[n + 1]
  <2>1. e = Sample(s.spec, s.dt, h1, f1, n + 1)
    BY <1>3, <1>4, <1>6, <1>7 DEF Sample
  <2> QED BY <1>1, <2>1
<1>9. s.trace = Cut(g, n)
  <2>1. \A j \in 1..Shown(n) : n - Shown(n) + j \in 1..n /\ n - Shown(n) + j \in 1..(n + 1)
    <3>1. Shown(n) \in Nat /\ Shown(n) <= n
      BY <1>1, CosimAssumption DEF Shown
    <3> QED BY <1>1, <3>1
  <2>2. \A i \in 1..n : Sample(s.spec, s.dt, h, f, i) = Sample(s.spec, s.dt, h1, f1, i)
    BY <1>3, <1>6 DEF Sample
  <2>3. \A j \in 1..Shown(n) : Sample(s.spec, s.dt, h, f, n - Shown(n) + j) = g[n - Shown(n) + j]
    BY <2>1, <2>2
  <2> HIDE DEF g
  <2> QED BY <1>2, <2>3 DEF LastSamples, Cut
<1> HIDE DEF e, g, s1
<1>10. Len(Append(s.trace, e)) = Shown(n) + 1 /\ s1.trace = Cut(g, n + 1)
  BY <1>1, <1>4, <1>8, <1>9, SamplesMove
<1>11. s1.trace = LastSamples(s1.spec, s1.dt, h1, f1)
  <2>1. \A j \in 1..Shown(n + 1) : (n + 1) - Shown(n + 1) + j \in 1..(n + 1)
    <3>1. Shown(n + 1) \in Nat /\ Shown(n + 1) <= n + 1
      BY <1>1, CosimAssumption DEF Shown
    <3> QED BY <1>1, <3>1
  <2>2. \A j \in 1..Shown(n + 1) : g[(n + 1) - Shown(n + 1) + j]
                                   = Sample(s.spec, s.dt, h1, f1, (n + 1) - Shown(n + 1) + j)
    BY <2>1 DEF g
  <2>3. s1.trace = [j \in 1..Shown(n + 1) |-> Sample(s.spec, s.dt, h1, f1, (n + 1) - Shown(n + 1) + j)]
    <3> DEFINE t == Cut(g, n + 1)
    <3>1. t = [j \in 1..Shown(n + 1) |-> g[(n + 1) - Shown(n + 1) + j]]
      BY DEF Cut
    <3>2. t = [j \in 1..Shown(n + 1) |-> t[j]] /\ \A j \in 1..Shown(n + 1) : t[j] = g[(n + 1) - Shown(n + 1) + j]
      <4> HIDE DEF t
      <4> QED BY <3>1
    <3> HIDE DEF t
    <3>3. t = [j \in 1..Shown(n + 1) |-> Sample(s.spec, s.dt, h1, f1, (n + 1) - Shown(n + 1) + j)]
      BY ONLY <2>2, <3>2
    <3> QED BY <1>10, <3>3 DEF t
  <2>4. Len(h1) = n + 1 /\ s1.spec = s.spec /\ s1.dt = s.dt
    BY <1>3, <1>4
  <2> DEFINE shown == LastSamples(s1.spec, s1.dt, h1, f1)
  <2> HIDE DEF n
  <2>5. /\ shown = [j \in 1..Shown(Len(h1)) |-> shown[j]]
        /\ \A j \in 1..Shown(Len(h1)) :
             shown[j] = Sample(s1.spec, s1.dt, h1, f1, Len(h1) - Shown(Len(h1)) + j)
    BY ONLY DEF LastSamples
  <2> HIDE DEF shown
  <2>6. s1.trace = shown
    <3>1. /\ shown = [j \in 1..Shown(n + 1) |-> shown[j]]
          /\ \A j \in 1..Shown(n + 1) : shown[j] = Sample(s.spec, s.dt, h1, f1, (n + 1) - Shown(n + 1) + j)
      <4>1. Len(h1) = n + 1 /\ s1.spec = s.spec /\ s1.dt = s.dt
        BY <2>4
      <4> QED BY ONLY <2>5, <4>1, Zenon
    <3> QED BY ONLY <2>3, <3>1
  <2> QED BY <2>6 DEF shown
<1>12. s1.truncated <=> n + 1 > MaxTrace
  <2>1. (s.truncated \/ Shown(n) + 1 > MaxTrace) <=> n + 1 > MaxTrace
    BY <1>1, <1>2, CosimAssumption DEF Shown
  <2> QED BY <1>4, <1>10, <2>1
<1>13. Follows(s1, h1)
  BY <1>3, <1>4, <1>5, <1>6, <1>7, <1>11, <1>12 DEF Follows
<1> QED BY <1>4, <1>13 DEF s1, h1

(* The scans of one step message, with the inputs the session had.         *)
LEMMA StepFollows ==
    ASSUME NEW s, NEW h, Follows(s, h), NEW scans \in Nat
    PROVE  LET after[i \in 0..scans] == IF i = 0 THEN s ELSE OneScan(after[i - 1])
           IN  Follows(after[scans], h \o [i \in 1..scans |-> s.inputs])
<1> DEFINE Upto(n, f) == f = [i \in 0..n |-> IF i = 0 THEN s ELSE OneScan(f[i - 1])]
           S == {n \in Nat : \E f : Upto(n, f)}
           last == CHOOSE f : Upto(scans, f)
           later(n) == h \o [i \in 1..n |-> s.inputs]
           T == {n \in Nat : n <= scans => /\ Follows(last[n], later(n))
                                           /\ last[n].inputs = s.inputs}
<1>1. 0 \in S
  <2> DEFINE f == [i \in 0..0 |-> s]
  <2>1. Upto(0, f)
    OBVIOUS
  <2> QED BY <2>1
<1>2. ASSUME NEW n \in Nat, n \in S PROVE n + 1 \in S
  <2>1. PICK f : Upto(n, f)
    BY <1>2
  <2> DEFINE g == [i \in 0..(n + 1) |-> IF i = n + 1 THEN OneScan(f[n]) ELSE f[i]]
             k == [i \in 0..(n + 1) |-> IF i = 0 THEN s ELSE OneScan(g[i - 1])]
  <2>2. \A i \in 0..(n + 1) : g[i] = k[i]
    <3> SUFFICES ASSUME NEW i \in 0..(n + 1) PROVE g[i] = k[i]
      OBVIOUS
    <3>1. CASE i = 0
      BY <2>1, <3>1
    <3>2. CASE i \in 1..n
      <4>1. i - 1 \in 0..n /\ g[i - 1] = f[i - 1] /\ g[i] = f[i]
        BY <3>2
      <4>2. f[i] = OneScan(f[i - 1])
        BY <2>1, <3>2
      <4> QED BY <3>2, <4>1, <4>2
    <3>3. CASE i = n + 1
      <4>1. g[n] = f[n] /\ i # 0 /\ i - 1 = n
        BY <3>3
      <4> QED BY <3>3, <4>1
    <3> QED BY <3>1, <3>2, <3>3
  <2>3. g = k
    <3>1. g = [i \in 0..(n + 1) |-> g[i]] /\ k = [i \in 0..(n + 1) |-> k[i]]
      OBVIOUS
    <3> HIDE DEF g, k
    <3> QED BY <2>2, <3>1
  <2>4. Upto(n + 1, g)
    BY <2>3
  <2> HIDE DEF g, k, Upto
  <2> QED BY <2>4
<1>3. scans \in S
  <2> HIDE DEF S
  <2> QED BY <1>1, <1>2, SetInduction
<1>4. Upto(scans, last)
  BY <1>3
<1>5. last[0] = s /\ \A i \in 1..scans : last[i] = OneScan(last[i - 1])
  <2> HIDE DEF last
  <2> QED BY <1>4
<1> HIDE DEF S
<1>6. h \in Seq(Ons) /\ s.inputs \in Ons
  BY DEF Follows, IsSession, Ons
<1>7. ASSUME NEW n \in Nat
      PROVE  /\ later(n) \in Seq(Ons) /\ Len(later(n)) = Len(h) + n /\ Len(h) \in Nat
             /\ \A i \in 1..Len(h) : later(n)[i] = h[i]
             /\ \A i \in 1..n : later(n)[Len(h) + i] = s.inputs
  <2> DEFINE more == [i \in 1..n |-> s.inputs]
  <2> HIDE DEF Ons
  <2>1. more \in Seq(Ons) /\ Len(more) = n
    BY <1>6, SeqDef
  <2>2. /\ h \o more \in Seq(Ons) /\ Len(h \o more) = Len(h) + n /\ Len(h) \in Nat
        /\ \A i \in 1..(Len(h) + n) : (h \o more)[i] = IF i <= Len(h) THEN h[i] ELSE more[i - Len(h)]
    <3> HIDE DEF more
    <3> QED BY <1>6, <2>1, ConcatProperties, LenProperties
  <2>3. \A i \in 1..Len(h) : (h \o more)[i] = h[i]
    BY <2>2
  <2>4. \A i \in 1..n : (h \o more)[Len(h) + i] = s.inputs
    <3> SUFFICES ASSUME NEW i \in 1..n PROVE (h \o more)[Len(h) + i] = s.inputs
      OBVIOUS
    <3>1. Len(h) + i \in 1..(Len(h) + n) /\ ~(Len(h) + i <= Len(h)) /\ (Len(h) + i) - Len(h) = i
      BY <2>2
    <3>2. more[i] = s.inputs
      OBVIOUS
    <3> HIDE DEF more
    <3> QED BY <2>2, <3>1, <3>2
  <2> QED BY <2>2, <2>3, <2>4
<1> HIDE DEF last, later
<1>8. 0 \in T
  <2>1. Len(later(0)) = Len(h) /\ later(0) \in Seq(Ons) /\ \A i \in 1..Len(h) : later(0)[i] = h[i]
    BY <1>7
  <2> HIDE DEF later
  <2>2. later(0) = h
    BY <1>6, <2>1, SeqEqual
  <2> QED BY <1>5, <2>2
<1>9. ASSUME NEW n \in Nat, n \in T PROVE n + 1 \in T
  <2> SUFFICES ASSUME n + 1 <= scans
               PROVE  Follows(last[n + 1], later(n + 1)) /\ last[n + 1].inputs = s.inputs
    OBVIOUS
  <2>1. Follows(last[n], later(n)) /\ last[n].inputs = s.inputs
    BY <1>9
  <2>2. last[n + 1] = OneScan(last[n])
    BY <1>5
  <2>3. /\ Follows(last[n + 1], Append(later(n), s.inputs))
        /\ last[n + 1].inputs = s.inputs
    <3> HIDE DEF later
    <3> QED BY <2>1, <2>2, OneScanFollows
  <2>4. later(n + 1) = Append(later(n), s.inputs)
    <3>1. /\ later(n) \in Seq(Ons) /\ Len(later(n)) = Len(h) + n /\ Len(h) \in Nat
          /\ \A i \in 1..Len(h) : later(n)[i] = h[i]
          /\ \A i \in 1..n : later(n)[Len(h) + i] = s.inputs
      BY <1>7
    <3>2. /\ later(n + 1) \in Seq(Ons) /\ Len(later(n + 1)) = Len(h) + n + 1
          /\ \A i \in 1..Len(h) : later(n + 1)[i] = h[i]
          /\ \A i \in 1..(n + 1) : later(n + 1)[Len(h) + i] = s.inputs
      <4>1. n + 1 \in Nat
        OBVIOUS
      <4>2. /\ later(n + 1) \in Seq(Ons) /\ Len(later(n + 1)) = Len(h) + (n + 1)
            /\ \A i \in 1..Len(h) : later(n + 1)[i] = h[i]
            /\ \A i \in 1..(n + 1) : later(n + 1)[Len(h) + i] = s.inputs
        BY ONLY <1>7, <4>1
      <4> QED BY <3>1, <4>2
    <3> DEFINE a == Append(later(n), s.inputs)
    <3>3. /\ a \in Seq(Ons) /\ Len(a) = Len(h) + n + 1
          /\ \A i \in 1..(Len(h) + n) : a[i] = later(n)[i]
          /\ a[Len(h) + n + 1] = s.inputs
      <4> HIDE DEF later, Ons
      <4>1. /\ a \in Seq(Ons) /\ Len(a) = Len(later(n)) + 1
            /\ \A i \in 1..Len(later(n)) : a[i] = later(n)[i]
            /\ a[Len(later(n)) + 1] = s.inputs
        BY ONLY <1>6, <3>1, AppendProperties
      <4> QED BY <3>1, <4>1
    <3> HIDE DEF a, later
    <3>4. \A i \in 1..Len(a) : a[i] = later(n + 1)[i]
      <4> SUFFICES ASSUME NEW i \in 1..Len(a) PROVE a[i] = later(n + 1)[i]
        OBVIOUS
      <4>1. CASE i \in 1..Len(h)
        <5>1. i \in 1..(Len(h) + n)
          BY <3>1, <4>1
        <5> QED BY <3>1, <3>2, <3>3, <4>1, <5>1
      <4>2. CASE i \notin 1..Len(h)
        <5> DEFINE j == i - Len(h)
        <5>1. j \in 1..(n + 1) /\ i = Len(h) + j
          BY <3>1, <3>3, <4>2
        <5> HIDE DEF j
        <5>2. later(n + 1)[i] = s.inputs
          BY <3>2, <5>1
        <5>3. CASE j \in 1..n
          <6>1. i \in 1..(Len(h) + n)
            BY <3>1, <5>1, <5>3
          <6>2. a[i] = s.inputs
            BY <3>1, <3>3, <5>1, <5>3, <6>1
          <6> QED BY <5>2, <6>2
        <5>4. CASE j = n + 1
          BY <3>1, <3>3, <5>1, <5>2, <5>4
        <5> QED BY <5>1, <5>3, <5>4
      <4> QED BY <4>1, <4>2
    <3>5. a = later(n + 1)
      BY ONLY <3>2, <3>3, <3>4, SeqEqual
    <3> QED BY <3>5 DEF a
  <2> QED BY <2>3, <2>4
<1>10. scans \in T
  <2> HIDE DEF T
  <2> QED BY <1>8, <1>9, SetInduction
<1>11. Follows(last[scans], later(scans))
  BY <1>10
<1> QED BY <1>11 DEF last, later

(* A message to the session keeps the trace a simulation of the inputs that*)
(* were set.                                                               *)
LEMMA SessionStep ==
    ASSUME SessionInv, Next
    PROVE  SessionInv'
<1>1. ASSUME NEW sp \in Specs, NEW dt \in StepTimes, InitMessage(sp, dt) PROVE SessionInv'
  <2> DEFINE s == NewSession(sp, dt)
             f == [i \in 0..0 |-> PowerOn(sp)]
  <2>1. session' = s /\ history' = <<>>
    BY <1>1 DEF InitMessage
  <2>2. /\ s.spec = sp /\ s.dt = dt /\ s.t = 0 /\ s.engine = PowerOn(sp) /\ s.inputs = {}
        /\ s.trace = <<>> /\ ~s.truncated /\ s.truncated \in BOOLEAN
        /\ s = [spec |-> s.spec, dt |-> s.dt, t |-> s.t, engine |-> s.engine, scanned |-> s.scanned,
                inputs |-> s.inputs, trace |-> s.trace, truncated |-> s.truncated]
    BY DEF NewSession
  <2>3. dt \in Nat /\ MaxTrace \in Nat \ {0}
    BY CosimAssumption
  <2> HIDE DEF s
  <2>4. IsSession(s)
    BY <2>2, <2>3 DEF IsSession
  <2>5. <<>> \in Seq(Ons) /\ Len(<<>>) = 0
    OBVIOUS
  <2>6. Scans(sp, dt, <<>>, f) /\ f[0] = PowerOn(sp)
    BY DEF Scans
  <2>7. LastSamples(sp, dt, <<>>, f) = <<>>
    <3>1. 1..Shown(Len(<<>>)) = {}
      BY <2>3, <2>5 DEF Shown
    <3> HIDE DEF f
    <3> QED BY <3>1 DEF LastSamples
  <2> HIDE DEF f
  <2>8. Follows(s, <<>>)
    <3>1. s.t = Len(<<>>) * s.dt
      BY <2>2, <2>3, <2>5
    <3>2. s.truncated <=> Len(<<>>) > MaxTrace
      BY <2>2, <2>3, <2>5
    <3>3. s.engine = f[Len(<<>>)] /\ s.trace = LastSamples(s.spec, s.dt, <<>>, f)
          /\ Scans(s.spec, s.dt, <<>>, f)
      BY <2>2, <2>5, <2>6, <2>7
    <3> QED BY <2>4, <2>5, <3>1, <3>2, <3>3 DEF Follows
  <2> QED BY <2>1, <2>8 DEF SessionInv
<1>2. CASE Malformed
  BY <1>2 DEF Malformed, SessionInv
<1>3. ASSUME session # NoSession, NEW values \in Values, SetMessage(values) PROVE SessionInv'
  <2>1. history' = history /\ Follows(session, history)
    BY <1>3 DEF SetMessage, SessionInv
  <2> DEFINE Good(i) == values[i][1] \in session.spec.inputs /\ values[i][2] \in {"true", "false"}
             on == {values[i][1] : i \in {k \in DOMAIN values : values[k][2] = "true"}}
             off == {values[i][1] : i \in {k \in DOMAIN values : values[k][2] = "false"}}
  <2>2. \/ session' = session
        \/ /\ session' = [session EXCEPT !.inputs = (@ \cup on) \ off]
           /\ \A i \in DOMAIN values : Good(i)
    BY <1>3 DEF SetMessage, SetInputs
  <2>3. CASE session' = session
    BY <2>1, <2>3 DEF SessionInv
  <2>4. CASE session' = [session EXCEPT !.inputs = (@ \cup on) \ off] /\ \A i \in DOMAIN values : Good(i)
    <3> DEFINE ins == (session.inputs \cup on) \ off
    <3>1. IsSession(session)
      BY <2>1 DEF Follows
    <3>2. ins \subseteq session.spec.inputs
      BY <2>4, <3>1 DEF IsSession
    <3>3. session' = [session EXCEPT !.inputs = ins]
      BY <2>4
    <3> HIDE DEF ins
    <3>4. /\ session' = [spec |-> session.spec, dt |-> session.dt, t |-> session.t,
                         engine |-> session.engine, scanned |-> session.scanned, inputs |-> ins,
                         trace |-> session.trace, truncated |-> session.truncated]
      BY <3>1, <3>3 DEF IsSession
    <3>5. IsSession(session)'
      BY <3>1, <3>2, <3>4 DEF IsSession
    <3>6. /\ session'.spec = session.spec /\ session'.dt = session.dt /\ session'.t = session.t
          /\ session'.engine = session.engine /\ session'.trace = session.trace
          /\ session'.truncated = session.truncated
      BY <3>4
    <3>7. Follows(session, history)'
      BY <2>1, <3>5, <3>6 DEF Follows
    <3> QED BY <3>7 DEF SessionInv
  <2> QED BY <2>2, <2>3, <2>4
<1>4. ASSUME NEW scans \in 1..MaxScans, StepMessage(scans) PROVE SessionInv'
  <2>1. Follows(session, history) /\ scans \in Nat
    BY <1>4, CosimAssumption DEF StepMessage, SessionInv
  <2>2. LET after[i \in 0..scans] == IF i = 0 THEN session ELSE OneScan(after[i - 1])
        IN  Follows(after[scans], history \o [i \in 1..scans |-> session.inputs])
    BY <2>1, StepFollows
  <2>3. Follows(session', history')
    BY <1>4, <2>2 DEF StepMessage
  <2> QED BY <2>3 DEF SessionInv
<1>5. CASE StateMessage \/ TraceMessage
  BY <1>5 DEF StateMessage, TraceMessage, SessionInv
<1> QED BY <1>1, <1>2, <1>3, <1>4, <1>5 DEF Next

(* The simulation of a history is determined by it.                        *)
LEMMA FollowedIsSimulated == SessionInv => TraceShowsSimulatedScans
<1> SUFFICES ASSUME session # NoSession, Follows(session, history) PROVE TraceShowsSimulatedScans
  BY DEF SessionInv, TraceShowsSimulatedScans
<1> DEFINE n == Len(history)
           sp == session.spec
           dt == session.dt
           after == CHOOSE f : f = [i \in 0..n |-> IF i = 0 THEN PowerOn(sp)
                                                   ELSE StScan(sp, f[i - 1], history[i], dt)]
<1>1. n \in Nat /\ history \in Seq(Ons)
  BY LenProperties DEF Follows
<1>2. PICK f : /\ Scans(sp, dt, history, f)
               /\ session.trace = LastSamples(sp, dt, history, f)
               /\ session.truncated <=> n > MaxTrace
  BY DEF Follows
<1>3. f = [i \in 0..n |-> IF i = 0 THEN PowerOn(sp) ELSE StScan(sp, f[i - 1], history[i], dt)]
  BY <1>2 DEF Scans
<1>4. after = [i \in 0..n |-> IF i = 0 THEN PowerOn(sp) ELSE StScan(sp, after[i - 1], history[i], dt)]
  BY <1>3
<1>5. SimulatedEnds = [i \in 1..n |-> [t |-> i * dt, i |-> history[i], o |-> OnOutputs(sp, after[i].table)]]
  <2> DEFINE Out(i) == OnOutputs(sp, after[i].table)
             raw == [i \in 1..n |-> [t |-> (i - 1) * dt, i |-> history[i], o |-> Out(i)]]
  <2>1. Simulated = raw
    BY DEF Simulated
  <2>2. dt \in Nat
    BY DEF Follows, IsSession
  <2>3. SimulatedEnds = [i \in 1..n |-> [raw[i] EXCEPT !.t = @ + dt]]
    BY <2>1 DEF SimulatedEnds
  <2> HIDE DEF Out, n, dt
  <2>4. \A i \in 1..n : [raw[i] EXCEPT !.t = @ + dt] = [t |-> i * dt, i |-> history[i], o |-> Out(i)]
    <3> SUFFICES ASSUME NEW i \in 1..n
                 PROVE  [raw[i] EXCEPT !.t = @ + dt] = [t |-> i * dt, i |-> history[i], o |-> Out(i)]
      OBVIOUS
    <3>1. i \in Int /\ (i - 1) * dt + dt = i * dt
      BY <1>1, <2>2
    <3>2. raw[i] = [t |-> (i - 1) * dt, i |-> history[i], o |-> Out(i)]
      OBVIOUS
    <3> QED BY <3>1, <3>2
  <2> HIDE DEF raw
  <2>5. SimulatedEnds = [i \in 1..n |-> [t |-> i * dt, i |-> history[i], o |-> Out(i)]]
    BY <2>3, <2>4
  <2> QED BY <2>5 DEF Out, n, dt
<1> HIDE DEF n, after
<1>6. \A i \in 0..n : after[i] = f[i]
  <2> DEFINE S == {i \in Nat : i <= n => after[i] = f[i]}
  <2>1. 0 \in S
    BY <1>1, <1>3, <1>4
  <2>2. ASSUME NEW i \in Nat, i \in S PROVE i + 1 \in S
    <3> SUFFICES ASSUME i + 1 <= n PROVE after[i + 1] = f[i + 1]
      OBVIOUS
    <3>1. i + 1 \in 0..n /\ i + 1 # 0 /\ (i + 1) - 1 = i /\ after[i] = f[i]
      BY <1>1, <2>2
    <3>2. after[i + 1] = StScan(sp, after[i], history[i + 1], dt)
      BY <1>4, <3>1
    <3>3. f[i + 1] = StScan(sp, f[i], history[i + 1], dt)
      BY <1>3, <3>1
    <3> QED BY <3>1, <3>2, <3>3
  <2> HIDE DEF S
  <2>3. Nat \subseteq S
    BY <2>1, <2>2, SetInduction
  <2> QED BY <1>1, <2>3 DEF S
<1> DEFINE from == IF n > MaxTrace THEN n - MaxTrace + 1 ELSE 1
<1>7. /\ from = (n - Shown(n)) + 1 /\ Shown(n) \in Nat /\ Shown(n) <= n
  BY <1>1, CosimAssumption DEF Shown
<1> HIDE DEF from
<1>8. /\ from \in Int /\ n \in Int /\ (n - from) + 1 = Shown(n) /\ from \in 1..(n + 1)
      /\ \A j \in 1..Shown(n) : (from + j) - 1 = (n - Shown(n)) + j /\ (n - Shown(n)) + j \in 1..n
  BY <1>1, <1>7
<1>9. SubSeq(SimulatedEnds, from, n) = [j \in 1..Shown(n) |-> SimulatedEnds[(from + j) - 1]]
  <2>1. SubSeq(SimulatedEnds, from, n) = [j \in 1..((n - from) + 1) |-> SimulatedEnds[(from + j) - 1]]
    BY <1>8
  <2> QED BY <1>8, <2>1
<1>10. \A j \in 1..Shown(n) : SimulatedEnds[(from + j) - 1] = Sample(sp, dt, history, f, (n - Shown(n)) + j)
  <2> SUFFICES ASSUME NEW j \in 1..Shown(n)
               PROVE  SimulatedEnds[(from + j) - 1] = Sample(sp, dt, history, f, (n - Shown(n)) + j)
    OBVIOUS
  <2> DEFINE k == (n - Shown(n)) + j
  <2>1. k \in 1..n /\ (from + j) - 1 = k
    BY <1>8
  <2> HIDE DEF k
  <2>2. after[k] = f[k]
    BY <1>1, <1>6, <2>1
  <2>3. SimulatedEnds[k] = [t |-> k * dt, i |-> history[k], o |-> OnOutputs(sp, after[k].table)]
    BY <1>5, <2>1
  <2> QED BY <2>1, <2>2, <2>3 DEF Sample, k
<1>11. session.trace = SubSeq(SimulatedEnds, from, n)
  <2>1. LastSamples(sp, dt, history, f) = [j \in 1..Shown(n) |-> Sample(sp, dt, history, f, (n - Shown(n)) + j)]
    BY DEF LastSamples, n
  <2> HIDE DEF sp, dt
  <2> QED BY <1>2, <1>9, <1>10, <2>1
<1> QED BY <1>2, <1>11 DEF TraceShowsSimulatedScans, from, n

(* However the scans are cut into messages, the trace shows the scans of a *)
(* simulation of the same inputs, stamped one scan later, for any program, *)
(* period and number of scans.                                             *)
THEOREM TraceShowsSimulation == ServiceSpec => []TraceShowsSimulatedScans
<1>1. ServiceInit => SessionInv
  BY DEF ServiceInit, Init, SessionInv
<1>2. SessionInv /\ [ServiceNext]_serviceVars => SessionInv'
  <2>1. SessionInv /\ UNCHANGED vars => SessionInv'
    BY DEF SessionInv, vars
  <2>2. [ServiceNext]_serviceVars => Next \/ UNCHANGED vars
    BY DEF ServiceNext, CosimRuns, PipeRuns, FilesRun, StreamRuns, MergeRuns, serviceVars
  <2> QED BY <2>1, <2>2, SessionStep
<1> QED BY <1>1, <1>2, FollowedIsSimulated, PTL DEF ServiceSpec, ServiceSafety

(* A message answered with an error has changed nothing.                   *)
THEOREM ErrorsAreHarmless == ServiceSpec => ErrorsChangeNothing
<1>1. [ServiceNext]_serviceVars => [reply' = Error => UNCHANGED <<session, history>>]_vars
  <2> SUFFICES ASSUME Next, reply' = Error PROVE UNCHANGED <<session, history>>
    BY DEF ServiceNext, CosimRuns, PipeRuns, FilesRun, StreamRuns, MergeRuns, serviceVars
  <2>1. \A s : StateReply(s).type = "state"
    BY DEF StateReply
  <2>2. reply'.type = "error"
    BY DEF Error
  <2>3. ASSUME NEW sp \in Specs, NEW dt \in StepTimes, InitMessage(sp, dt) PROVE FALSE
    BY <2>2, <2>3 DEF InitMessage
  <2>4. ASSUME NEW values \in Values, SetMessage(values) PROVE UNCHANGED <<session, history>>
    BY <2>1, <2>2, <2>4 DEF SetMessage, SetInputs
  <2>5. ASSUME NEW scans \in 1..MaxScans, StepMessage(scans) PROVE FALSE
    BY <2>1, <2>2, <2>5 DEF StepMessage
  <2>6. CASE Malformed \/ StateMessage \/ TraceMessage
    BY <2>1, <2>2, <2>6 DEF Malformed, StateMessage, TraceMessage
  <2> QED BY <2>3, <2>4, <2>5, <2>6 DEF Next
<1> QED BY <1>1, PTL DEF ServiceSpec, ServiceSafety, ErrorsChangeNothing
----------------------------------------------------------------------------
(* The merge of double coils.  Of a program with at most one statement on  *)
(* a line, thin here, all that matters of a line is the name it assigns.   *)

Thin(lines) ==
    /\ Len(lines) \in Nat /\ DOMAIN lines = 1..Len(lines)
    /\ \A i \in 1..Len(lines) :
         /\ DOMAIN lines[i].stmts = 1..Len(lines[i].stmts)
         /\ Len(lines[i].stmts) \in {0, 1}

Writes(line) == IF Len(line.stmts) = 1 THEN line.stmts[1].lhs ELSE None
Reading(line) == line.stmts[1].ins
LinesOf(lines, c) == {i \in 1..Len(lines) : Writes(lines[i]) = c}

(* The merge counts with the library's own cardinality.                    *)
LEMMA SameCardinality == \A S : Merging!Cardinality(S) = Cardinality(S)
BY DEF Merging!Cardinality, Cardinality

(* The statements of a thin program stand first on their lines.            *)
LEMMA ThinPlaces ==
    ASSUME NEW lines, Thin(lines)
    PROVE  /\ \A p : p \in Merging!Places(lines) <=>
                \E i \in 1..Len(lines) : p = <<i, 1>> /\ Len(lines[i].stmts) = 1
           /\ \A i : Merging!At(lines, <<i, 1>>) = lines[i].stmts[1]
<1>1. \A p : p \in Merging!Places(lines) <=>
         \E i \in 1..Len(lines) : p \in {i} \X (1..Len(lines[i].stmts))
  BY DEF Merging!Places, Thin
<1>2. \A i \in 1..Len(lines) : Len(lines[i].stmts) \in {0, 1}
  BY DEF Thin
<1>3. \A i, p : p \in {i} \X (1..1) <=> p = <<i, 1>>
  OBVIOUS
<1>4. \A i, p : p \notin {i} \X (1..0)
  OBVIOUS
<1>5. \A i : Merging!At(lines, <<i, 1>>) = lines[i].stmts[1]
  BY DEF Merging!At
<1>6. ASSUME NEW p, p \in Merging!Places(lines)
      PROVE  \E i \in 1..Len(lines) : p = <<i, 1>> /\ Len(lines[i].stmts) = 1
  <2>1. PICK i \in 1..Len(lines) : p \in {i} \X (1..Len(lines[i].stmts))
    BY <1>1, <1>6
  <2>2. Len(lines[i].stmts) # 0
    BY <1>4, <2>1
  <2>3. Len(lines[i].stmts) = 1
    BY <1>2, <2>2
  <2> QED BY <1>3, <2>1, <2>3
<1>7. ASSUME NEW i \in 1..Len(lines), Len(lines[i].stmts) = 1
      PROVE  <<i, 1>> \in Merging!Places(lines)
  BY <1>1, <1>3, <1>7
<1> QED BY <1>5, <1>6, <1>7

(* A name's occurrences are the lines that assign it.                      *)
LEMMA ThinOccurrences ==
    ASSUME NEW lines, Thin(lines)
    PROVE  /\ \A c : c \in Merging!Assigned(lines) <=> c # None /\ LinesOf(lines, c) # {}
           /\ \A c : c # None =>
                /\ \A p : p \in Merging!Occurrences(lines, c) <=> \E i \in LinesOf(lines, c) : p = <<i, 1>>
                /\ IsFiniteSet(LinesOf(lines, c))
                /\ Merging!Count(lines, c) = Cardinality(LinesOf(lines, c))
<1>1. ASSUME NEW c, c # None, NEW p
      PROVE  p \in Merging!Occurrences(lines, c) <=> \E i \in LinesOf(lines, c) : p = <<i, 1>>
  BY <1>1, ThinPlaces DEF Merging!Occurrences, LinesOf, Writes
<1>2. ASSUME NEW c
      PROVE  c \in Merging!Assigned(lines) <=> c # None /\ LinesOf(lines, c) # {}
  <2>1. c \in Merging!Assigned(lines) <=>
          c # None /\ \E p \in Merging!Places(lines) : Merging!At(lines, p).lhs = c
    BY DEF Merging!Assigned
  <2>2. ASSUME NEW p \in Merging!Places(lines), Merging!At(lines, p).lhs = c, c # None
        PROVE  LinesOf(lines, c) # {}
    <3>1. PICK i \in 1..Len(lines) : p = <<i, 1>> /\ Len(lines[i].stmts) = 1
      BY ThinPlaces
    <3>2. i \in LinesOf(lines, c)
      BY <2>2, <3>1, ThinPlaces DEF LinesOf, Writes
    <3> QED BY <3>2
  <2>3. ASSUME NEW i \in LinesOf(lines, c), c # None
        PROVE  \E p \in Merging!Places(lines) : Merging!At(lines, p).lhs = c
    <3>1. i \in 1..Len(lines) /\ Len(lines[i].stmts) = 1 /\ lines[i].stmts[1].lhs = c
      BY <2>3 DEF LinesOf, Writes
    <3>2. <<i, 1>> \in Merging!Places(lines) /\ Merging!At(lines, <<i, 1>>).lhs = c
      BY <3>1, ThinPlaces
    <3> QED BY <3>2
  <2> QED BY <2>1, <2>2, <2>3
<1>3. ASSUME NEW c, c # None
      PROVE  /\ IsFiniteSet(LinesOf(lines, c))
             /\ Merging!Count(lines, c) = Cardinality(LinesOf(lines, c))
  <2> DEFINE F == [i \in LinesOf(lines, c) |-> <<i, 1>>]
             O == Merging!Occurrences(lines, c)
  <2>1. IsFiniteSet(1..Len(lines))
    <3>1. Len(lines) \in Int
      BY DEF Thin
    <3> QED BY <3>1, FS_Interval
  <2>2. IsFiniteSet(LinesOf(lines, c))
    BY <2>1, FS_Subset DEF LinesOf
  <2>3. F \in [LinesOf(lines, c) -> O]
    BY <1>1, <1>3
  <2>4. \A a, b \in LinesOf(lines, c) : F[a] = F[b] => a = b
    OBVIOUS
  <2>5. \A p \in O : \E i \in LinesOf(lines, c) : F[i] = p
    BY <1>1, <1>3
  <2> HIDE DEF F, O
  <2>6. F \in Bijection(LinesOf(lines, c), O)
    BY <2>3, <2>4, <2>5, Fun_IsBij
  <2>7. ExistsBijection(LinesOf(lines, c), O)
    BY <2>6 DEF ExistsBijection
  <2>8. Cardinality(O) = Cardinality(LinesOf(lines, c))
    BY <2>2, <2>7, FS_Bijection
  <2> QED BY <2>2, <2>8, SameCardinality DEF O, Merging!Count
<1> QED BY <1>1, <1>2, <1>3

(* One line of a scan. *)
RunLine(line, on) ==
    IF Writes(line) = None THEN on
    ELSE IF Reading(line) \cap on # {} THEN on \cup {Writes(line)}
    ELSE on \ {Writes(line)}

(* A line is run by running its statement, if it has one.                  *)
LEMMA StatementsRun ==
    ASSUME NEW stmts, NEW on
    PROVE  /\ Merging!AfterStatements(stmts, on, 0) = on
           /\ Merging!AfterStatements(stmts, on, 1) = Merging!RunStatement(stmts[1], on)
<1> DEFINE Upto(k, f) ==
             f = [j \in 0..k |-> IF j = 0 THEN on ELSE Merging!RunStatement(stmts[j], f[j - 1])]
           last(k) == CHOOSE f : Upto(k, f)
           one == [j \in 0..1 |-> IF j = 0 THEN on ELSE Merging!RunStatement(stmts[1], on)]
<1>1. \A k : Merging!AfterStatements(stmts, on, k) = last(k)[k]
  BY DEF Merging!AfterStatements
<1>2. Upto(0, [j \in 0..0 |-> on])
  OBVIOUS
<1>3. Upto(1, one)
  <2>1. \A j \in 0..1 : j # 0 => j = 1 /\ one[j - 1] = on
    OBVIOUS
  <2> QED BY <2>1
<1>4. Upto(0, last(0)) /\ Upto(1, last(1))
  BY <1>2, <1>3
<1>5. ASSUME NEW k \in {0, 1}, NEW f, Upto(k, f)
      PROVE  f[0] = on /\ (k = 1 => f[1] = Merging!RunStatement(stmts[1], f[1 - 1]))
  BY <1>5
<1>6. /\ last(0)[0] = on /\ last(1)[0] = on
      /\ last(1)[1] = Merging!RunStatement(stmts[1], last(1)[1 - 1])
  <2> HIDE DEF last, Upto
  <2> QED BY <1>4, <1>5
<1>7. last(1)[1] = Merging!RunStatement(stmts[1], on)
  BY <1>6
<1> HIDE DEF last
<1> QED BY <1>1, <1>6, <1>7

(* A scan of a thin program runs line after line.                          *)
LEMMA LinesRun ==
    ASSUME NEW lines, Thin(lines), NEW on
    PROVE  /\ Merging!AfterLines(lines, on, 0) = on
           /\ \A n \in 0..(Len(lines) - 1) :
                Merging!AfterLines(lines, on, n + 1)
                  = RunLine(lines[n + 1], Merging!AfterLines(lines, on, n))
<1> DEFINE Next1(i, was) == Merging!AfterStatements(lines[i].stmts, was, Len(lines[i].stmts))
           Upto(n, f) == f = [i \in 0..n |-> IF i = 0 THEN on ELSE Next1(i, f[i - 1])]
           last(n) == CHOOSE f : Upto(n, f)
           S == {n \in Nat : \E f : Upto(n, f)}
<1>1. \A n : Merging!AfterLines(lines, on, n) = last(n)[n]
  BY DEF Merging!AfterLines
<1>2. ASSUME NEW i \in 1..Len(lines), NEW was PROVE Next1(i, was) = RunLine(lines[i], was)
  <2>1. Len(lines[i].stmts) \in {0, 1}
    BY DEF Thin
  <2>2. Next1(i, was) = IF Len(lines[i].stmts) = 1 THEN Merging!RunStatement(lines[i].stmts[1], was)
                        ELSE was
    BY <2>1, StatementsRun
  <2> QED BY <2>1, <2>2 DEF RunLine, Writes, Reading, Merging!RunStatement
<1> HIDE DEF Next1
<1>3. 0 \in S
  <2>1. Upto(0, [i \in 0..0 |-> on])
    OBVIOUS
  <2> QED BY <2>1
<1>4. ASSUME NEW n \in Nat, n \in S PROVE n + 1 \in S
  <2>1. PICK f : Upto(n, f)
    BY <1>4
  <2> DEFINE g == [i \in 0..(n + 1) |-> IF i = n + 1 THEN Next1(i, f[n]) ELSE f[i]]
             h == [i \in 0..(n + 1) |-> IF i = 0 THEN on ELSE Next1(i, g[i - 1])]
  <2>2. \A i \in 0..(n + 1) : g[i] = h[i]
    <3> SUFFICES ASSUME NEW i \in 0..(n + 1) PROVE g[i] = h[i]
      OBVIOUS
    <3>1. CASE i = 0
      BY <2>1, <3>1
    <3>2. CASE i \in 1..n
      <4>1. i - 1 \in 0..n /\ g[i - 1] = f[i - 1] /\ g[i] = f[i]
        BY <3>2
      <4>2. f[i] = Next1(i, f[i - 1])
        BY <2>1, <3>2
      <4> QED BY <3>2, <4>1, <4>2
    <3>3. CASE i = n + 1
      <4>1. g[n] = f[n] /\ i # 0 /\ i - 1 = n
        BY <3>3
      <4> QED BY <3>3, <4>1
    <3> QED BY <3>1, <3>2, <3>3
  <2>3. g = [i \in 0..(n + 1) |-> g[i]] /\ h = [i \in 0..(n + 1) |-> h[i]]
    OBVIOUS
  <2>4. g = h
    <3> HIDE DEF g, h
    <3> QED BY <2>2, <2>3
  <2>5. Upto(n + 1, g)
    BY <2>4
  <2> HIDE DEF g, h, Upto
  <2> QED BY <2>5
<1>5. \A n \in Nat : Upto(n, last(n))
  <2>1. Nat \subseteq S
    <3> HIDE DEF S
    <3> QED BY <1>3, <1>4, SetInduction
  <2> QED BY <2>1
<1>6. \A n \in Nat : last(n)[0] = on /\ \A i \in 1..n : last(n)[i] = Next1(i, last(n)[i - 1])
  <2>1. ASSUME NEW n \in Nat, NEW f, Upto(n, f)
        PROVE  f[0] = on /\ \A i \in 1..n : f[i] = Next1(i, f[i - 1])
    BY <2>1
  <2> HIDE DEF last, Upto
  <2> QED BY <1>5, <2>1
<1> HIDE DEF last, Upto, S
<1>7. ASSUME NEW n \in Nat PROVE last(n + 1)[n] = last(n)[n]
  <2> DEFINE P == {i \in Nat : i <= n => last(n + 1)[i] = last(n)[i]}
  <2>1. 0 \in P
    BY <1>6
  <2>2. ASSUME NEW i \in Nat, i \in P PROVE i + 1 \in P
    <3> SUFFICES ASSUME i + 1 <= n PROVE last(n + 1)[i + 1] = last(n)[i + 1]
      OBVIOUS
    <3>1. i + 1 \in 1..n /\ i + 1 \in 1..(n + 1) /\ (i + 1) - 1 = i /\ n + 1 \in Nat
          /\ last(n + 1)[i] = last(n)[i]
      BY <2>2
    <3>2. last(n + 1)[i + 1] = Next1(i + 1, last(n + 1)[(i + 1) - 1])
      BY <1>6, <3>1
    <3>3. last(n)[i + 1] = Next1(i + 1, last(n)[(i + 1) - 1])
      BY <1>6, <3>1
    <3> QED BY <3>1, <3>2, <3>3
  <2>3. Nat \subseteq P
    <3> HIDE DEF P
    <3> QED BY <2>1, <2>2, SetInduction
  <2> QED BY <2>3
<1>8. last(0)[0] = on
  BY <1>6
<1>9. ASSUME NEW n \in 0..(Len(lines) - 1)
      PROVE  last(n + 1)[n + 1] = RunLine(lines[n + 1], last(n)[n])
  <2>1. n \in Nat /\ n + 1 \in Nat /\ n + 1 \in 1..(n + 1) /\ (n + 1) - 1 = n
        /\ n + 1 \in 1..Len(lines)
    BY DEF Thin
  <2>2. last(n + 1)[n + 1] = Next1(n + 1, last(n + 1)[(n + 1) - 1])
    BY <1>6, <2>1
  <2>3. last(n + 1)[n + 1] = Next1(n + 1, last(n)[n])
    BY <1>7, <2>1, <2>2
  <2> QED BY <1>2, <2>1, <2>3
<1> QED BY <1>1, <1>8, <1>9

(* A name keeps its value over lines that assign others.                   *)
LEMMA NameKept ==
    ASSUME NEW lines, Thin(lines), NEW on, NEW x, x # None,
           NEW m \in 0..Len(lines), NEW n \in m..Len(lines),
           \A i \in (m + 1)..n : Writes(lines[i]) # x
    PROVE  x \in Merging!AfterLines(lines, on, n) <=> x \in Merging!AfterLines(lines, on, m)
<1> DEFINE A(i) == Merging!AfterLines(lines, on, i)
           S == {i \in Nat : m + i <= n => (x \in A(m + i) <=> x \in A(m))}
<1>1. Len(lines) \in Nat /\ m \in Nat /\ n \in Nat
  BY DEF Thin
<1>2. 0 \in S
  BY <1>1
<1>3. ASSUME NEW i \in Nat, i \in S PROVE i + 1 \in S
  <2> SUFFICES ASSUME m + (i + 1) <= n PROVE x \in A(m + (i + 1)) <=> x \in A(m)
    OBVIOUS
  <2> DEFINE j == m + i
  <2>1. /\ j \in 0..(Len(lines) - 1) /\ m + (i + 1) = j + 1 /\ j + 1 \in (m + 1)..n
        /\ x \in A(j) <=> x \in A(m)
    BY <1>1, <1>3
  <2> HIDE DEF j
  <2>2. A(j + 1) = RunLine(lines[j + 1], A(j))
    BY <2>1, LinesRun
  <2>3. Writes(lines[j + 1]) # x
    BY <2>1
  <2> HIDE DEF A
  <2>4. x \in A(j + 1) <=> x \in A(j)
    BY <2>2, <2>3 DEF RunLine
  <2> QED BY <2>1, <2>4
<1>4. Nat \subseteq S
  <2> HIDE DEF S
  <2> QED BY <1>2, <1>3, SetInduction
<1>5. n - m \in Nat /\ m + (n - m) = n
  BY <1>1
<1>6. n - m \in S
  BY <1>4, <1>5
<1>7. m + (n - m) <= n => (x \in A(m + (n - m)) <=> x \in A(m))
  BY <1>6
<1> HIDE DEF A
<1>8. x \in A(n) <=> x \in A(m)
  BY <1>1, <1>5, <1>7
<1> QED BY <1>8 DEF A

(* After the last line that assigns it a name is what that line read.      *)
LEMMA LastWrite ==
    ASSUME NEW lines, Thin(lines), NEW on, NEW i \in 1..Len(lines), Writes(lines[i]) # None,
           NEW n \in i..Len(lines), \A j \in (i + 1)..n : Writes(lines[j]) # Writes(lines[i])
    PROVE  Writes(lines[i]) \in Merging!AfterLines(lines, on, n) <=>
             Reading(lines[i]) \cap Merging!AfterLines(lines, on, i - 1) # {}
<1> DEFINE x == Writes(lines[i])
           A(j) == Merging!AfterLines(lines, on, j)
<1>1. i \in 0..Len(lines) /\ i - 1 \in 0..(Len(lines) - 1) /\ (i - 1) + 1 = i
  BY DEF Thin
<1>2. x \in A(n) <=> x \in A(i)
  BY <1>1, NameKept
<1>3. A((i - 1) + 1) = RunLine(lines[(i - 1) + 1], A(i - 1))
  BY <1>1, LinesRun
<1>4. A(i) = RunLine(lines[i], A(i - 1))
  BY <1>1, <1>3
<1> HIDE DEF A
<1>5. x \in A(i) <=> Reading(lines[i]) \cap A(i - 1) # {}
  BY <1>4 DEF RunLine
<1>6. x \in A(n) <=> Reading(lines[i]) \cap A(i - 1) # {}
  BY <1>2, <1>5
<1> QED BY <1>6 DEF A

Doubles(src) == Merging!DoubleCoils(src)

(* A relay of its own for every occurrence that has one so far. *)
RelaysIssued(src, dups, relays) ==
    /\ dups \in Merging!Orders(src)
    /\ relays \in [Doubles(src) -> Seq(Merging!Addresses)]
    /\ \A c \in Doubles(src) : Len(relays[c]) <= Merging!Count(src, c)
    /\ \A c, d \in Doubles(src) : \A k \in 1..Len(relays[c]), l \in 1..Len(relays[d]) :
         relays[c][k] = relays[d][l] => c = d /\ k = l

AllIssued(src, relays) ==
    \A c \in Doubles(src) : Len(relays[c]) = Merging!Count(src, c)

(* A program of one assignment a line. *)
IsSource(src) == src \in Seq(Merging!Lines) /\ Merging!OnePerLine(src)

(* What the rewriting loop sees of a line is what the line writes.         *)
LEMMA SourceLines ==
    ASSUME NEW src, IsSource(src)
    PROVE  /\ Thin(src)
           /\ \A i \in 1..Len(src) :
                /\ src[i] = [stmts |-> src[i].stmts, comment |-> FALSE]
                /\ Writes(src[i]) \in Coils \cup {None}
                /\ Merging!IsPlain(src[i]) <=> Writes(src[i]) # None
                /\ Writes(src[i]) # None => src[i].stmts[1].lhs = Writes(src[i])
                /\ Len(src[i].stmts) = 1 => Reading(src[i]) \subseteq CoilInputs \cup Coils
<1>1. Len(src) \in Nat /\ DOMAIN src = 1..Len(src) /\ \A i \in 1..Len(src) : src[i] \in Merging!Lines
  BY LenProperties, ElementOfSeq DEF IsSource
<1>2. ASSUME NEW i \in 1..Len(src)
      PROVE  /\ DOMAIN src[i].stmts = 1..Len(src[i].stmts)
             /\ Len(src[i].stmts) \in {0, 1}
             /\ src[i] = [stmts |-> src[i].stmts, comment |-> FALSE]
             /\ Len(src[i].stmts) = 1 => src[i].stmts[1] \in Merging!Statements
  <2>1. src[i] \in [stmts: Seq(Merging!Statements), comment: BOOLEAN]
    BY <1>1 DEF Merging!Lines
  <2>2. src[i].stmts \in Seq(Merging!Statements)
    BY <2>1
  <2>3. DOMAIN src[i].stmts = 1..Len(src[i].stmts) /\ Len(src[i].stmts) \in Nat
    BY <2>2, LenProperties
  <2>4. Len(src[i].stmts) <= 1 /\ src[i].comment = FALSE
    BY <1>1, <2>1 DEF IsSource, Merging!OnePerLine
  <2>5. Len(src[i].stmts) = 1 => src[i].stmts[1] \in Merging!Statements
    BY <2>2, ElementOfSeq
  <2>6. src[i] = [stmts |-> src[i].stmts, comment |-> src[i].comment]
    BY <2>1
  <2>7. src[i] = [stmts |-> src[i].stmts, comment |-> FALSE]
    BY <2>4, <2>6
  <2>8. Len(src[i].stmts) \in {0, 1}
    <3>1. \A n \in Nat : n <= 1 => n \in {0, 1}
      OBVIOUS
    <3> QED BY <2>3, <2>4, <3>1
  <2> QED BY <2>3, <2>5, <2>7, <2>8
<1>3. Thin(src)
  BY <1>1, <1>2 DEF Thin
<1>4. ASSUME NEW i \in 1..Len(src)
      PROVE  /\ Writes(src[i]) \in Coils \cup {None}
             /\ Merging!IsPlain(src[i]) <=> Writes(src[i]) # None
             /\ Writes(src[i]) # None => src[i].stmts[1].lhs = Writes(src[i])
             /\ Len(src[i].stmts) = 1 => Reading(src[i]) \subseteq CoilInputs \cup Coils
  <2>1. src[i] = [stmts |-> src[i].stmts, comment |-> FALSE]
    BY <1>2
  <2>2. [stmts |-> src[i].stmts, comment |-> FALSE].comment = FALSE
    OBVIOUS
  <2>3. src[i].comment = FALSE
    BY <2>1, <2>2
  <2> QED BY <1>2, <2>3 DEF Merging!IsPlain, Merging!Statements, Writes, Reading
<1> QED BY <1>2, <1>3, <1>4

(* The double coils are finitely many, and in an order each of them has    *)
(* one place.                                                              *)
LEMMA DoublesInOrder ==
    ASSUME NEW src, IsSource(src), NEW dups \in Merging!Orders(src)
    PROVE  /\ Doubles(src) \subseteq Coils \ {None}
           /\ Cardinality(Doubles(src)) \in Nat
           /\ Len(dups) = Cardinality(Doubles(src))
           /\ dups \in [1..Len(dups) -> Doubles(src)]
           /\ \A i, j \in 1..Len(dups) : dups[i] = dups[j] => i = j
           /\ \A c \in Doubles(src) : \E j \in 1..Len(dups) : dups[j] = c
<1> DEFINE D == Doubles(src)
           F == [i \in {k \in 1..Len(src) : Writes(src[k]) # None} |-> Writes(src[i])]
<1>1. Thin(src) /\ Len(src) \in Nat
  BY SourceLines DEF Thin
<1>2. \A c : c \in Merging!Assigned(src) <=> c # None /\ LinesOf(src, c) # {}
  BY <1>1, ThinOccurrences
<1>3. D \subseteq Coils \ {None}
  <2>1. \A i \in 1..Len(src) : Writes(src[i]) \in Coils \cup {None}
    BY SourceLines
  <2>2. Merging!Assigned(src) \subseteq Coils \ {None}
    BY <1>2, <2>1 DEF LinesOf
  <2> QED BY <2>2 DEF Merging!DoubleCoils, Doubles
<1>4. IsFiniteSet(D)
  <2> DEFINE I == {k \in 1..Len(src) : Writes(src[k]) # None}
             A == Merging!Assigned(src)
  <2>1. IsFiniteSet(1..Len(src))
    BY <1>1, FS_Interval
  <2>2. IsFiniteSet(I)
    BY <2>1, FS_Subset
  <2>3. F \in [I -> A]
    BY <1>2 DEF LinesOf
  <2>4. \A c \in A : \E i \in I : F[i] = c
    BY <1>2 DEF LinesOf
  <2> HIDE DEF I, A, F
  <2>5. F \in Surjection(I, A)
    BY <2>3, <2>4, Fun_IsSurj
  <2>6. IsFiniteSet(A)
    BY <2>2, <2>5, FS_Surjection
  <2> QED BY <2>6, FS_Subset DEF A, Merging!DoubleCoils, Doubles
<1>5. Cardinality(D) \in Nat
  BY <1>4, FS_CardinalityType
<1> DEFINE n == Cardinality(D)
<1>6. dups \in [1..n -> D]
  BY SameCardinality DEF Merging!Orders, Doubles
<1>7. Len(dups) = n
  BY <1>5, <1>6
<1>8. ASSUME NEW i \in 1..n, NEW j \in 1..n, i < j PROVE dups[i] # dups[j]
  <2>1. \E p \in Merging!Occurrences(src, dups[i]) : \A q \in Merging!Occurrences(src, dups[j]) :
          Merging!Precedes(p, q)
    BY <1>6, <1>8 DEF Merging!Orders
  <2> SUFFICES ASSUME dups[i] = dups[j] PROVE FALSE
    OBVIOUS
  <2>2. PICK p : p \in Merging!Occurrences(src, dups[i]) /\ Merging!Precedes(p, p)
    BY <2>1
  <2>3. dups[i] # None
    BY <1>3, <1>6
  <2>4. PICK k \in LinesOf(src, dups[i]) : p = <<k, 1>>
    BY <1>1, <2>2, <2>3, ThinOccurrences
  <2>5. k \in Nat
    BY <1>1 DEF LinesOf
  <2> QED BY <2>2, <2>4, <2>5 DEF Merging!Precedes
<1>9. \A i, j \in 1..n : dups[i] = dups[j] => i = j
  BY <1>5, <1>8
<1>10. \A c \in D : \E j \in 1..n : dups[j] = c
  <2>1. dups \in Injection(1..n, D)
    <3> HIDE DEF D
    <3> QED BY <1>6, <1>9, Fun_IsInj
  <2>2. IsFiniteSet(1..n) /\ Cardinality(1..n) = n
    BY <1>5, FS_Interval
  <2> HIDE DEF D, n
  <2>3. dups \in Surjection(1..n, D)
    BY <1>4, <2>1, <2>2, FS_Injection DEF n
  <2> QED BY <2>3 DEF Surjection
<1> HIDE DEF D
<1>11. /\ D \subseteq Coils \ {None} /\ Cardinality(D) \in Nat /\ Len(dups) = Cardinality(D)
       /\ dups \in [1..Len(dups) -> D]
       /\ \A i, j \in 1..Len(dups) : dups[i] = dups[j] => i = j
       /\ \A c \in D : \E j \in 1..Len(dups) : dups[j] = c
  BY <1>3, <1>5, <1>6, <1>7, <1>9, <1>10
<1> QED BY <1>11 DEF D

(* The rewriting loop numbers the occurrences of a coil from 1 on.         *)
LEMMA OccurrencesNumbered ==
    ASSUME NEW src, IsSource(src), NEW c, c # None
    PROVE  LET number(i) == Merging!Rewritten(src, c, i) + 1
               count == Merging!Count(src, c)
           IN  /\ count \in Nat
               /\ \A i \in LinesOf(src, c) : number(i) \in 1..count
               /\ \A i, j \in LinesOf(src, c) : number(i) = number(j) => i = j
               /\ \A k \in 1..count : \E i \in LinesOf(src, c) : number(i) = k
<1> DEFINE LL == LinesOf(src, c)
           count == Merging!Count(src, c)
           earlier(i) == {j \in LL : j < i}
           F == [i \in LL |-> Cardinality(earlier(i)) + 1]
<1>1. Thin(src) /\ Len(src) \in Nat /\ LL \subseteq 1..Len(src)
  BY SourceLines DEF Thin, LinesOf
<1>2. IsFiniteSet(LL) /\ count = Cardinality(LL) /\ count \in Nat
  <2>1. IsFiniteSet(LL) /\ count = Cardinality(LL)
    BY <1>1, ThinOccurrences
  <2> QED BY <2>1, FS_CardinalityType
<1>3. ASSUME NEW i \in LL PROVE Merging!Rewritten(src, c, i) = Cardinality(earlier(i))
  <2> DEFINE R == {j \in 1..(i - 1) : Merging!IsPlain(src[j]) /\ src[j].stmts[1].lhs = c}
  <2>1. \A j \in 1..(i - 1) : j \in 1..Len(src) /\ j < i
    BY <1>1
  <2>2. \A j \in 1..Len(src) : j < i => j \in 1..(i - 1)
    BY <1>1
  <2>3. \A j \in 1..Len(src) : j \in LL <=> Merging!IsPlain(src[j]) /\ src[j].stmts[1].lhs = c
    <3> SUFFICES ASSUME NEW j \in 1..Len(src)
                 PROVE  Writes(src[j]) = c <=> Merging!IsPlain(src[j]) /\ src[j].stmts[1].lhs = c
      BY DEF LinesOf
    <3>1. /\ Merging!IsPlain(src[j]) <=> Writes(src[j]) # None
          /\ Writes(src[j]) # None => src[j].stmts[1].lhs = Writes(src[j])
      BY SourceLines
    <3> QED BY <3>1
  <2>4. R = earlier(i)
    BY <1>1, <2>1, <2>2, <2>3
  <2>5. Merging!Rewritten(src, c, i) = Cardinality(R)
    BY SameCardinality DEF Merging!Rewritten
  <2> QED BY <2>4, <2>5
<1>4. ASSUME NEW i \in LL
      PROVE  /\ IsFiniteSet(earlier(i)) /\ Cardinality(earlier(i)) \in Nat
             /\ IsFiniteSet(earlier(i) \cup {i})
             /\ Cardinality(earlier(i) \cup {i}) = Cardinality(earlier(i)) + 1
  <2>1. IsFiniteSet(earlier(i)) /\ i \notin earlier(i)
    BY <1>1, <1>2, FS_Subset
  <2> HIDE DEF earlier
  <2> QED BY <2>1, FS_CardinalityType, FS_AddElement
<1>5. ASSUME NEW i \in LL PROVE F[i] \in 1..count
  <2>1. earlier(i) \cup {i} \subseteq LL
    OBVIOUS
  <2>2. Cardinality(earlier(i) \cup {i}) <= count
    <3> HIDE DEF earlier, LL, count
    <3> QED BY <1>2, <2>1, FS_Subset
  <2>3. F[i] = Cardinality(earlier(i)) + 1
    OBVIOUS
  <2> HIDE DEF earlier, LL, count, F
  <2> QED BY <1>2, <1>4, <2>2, <2>3
<1>6. ASSUME NEW i \in LL, NEW j \in LL, i < j PROVE F[i] < F[j]
  <2>1. earlier(i) \cup {i} \subseteq earlier(j)
    BY <1>1, <1>6
  <2>2. IsFiniteSet(earlier(j)) /\ Cardinality(earlier(j)) \in Nat
    BY <1>4
  <2>3. Cardinality(earlier(i) \cup {i}) <= Cardinality(earlier(j))
    <3> HIDE DEF earlier, LL
    <3> QED BY <2>1, <2>2, FS_Subset
  <2>4. F[i] = Cardinality(earlier(i)) + 1 /\ F[j] = Cardinality(earlier(j)) + 1
    OBVIOUS
  <2> HIDE DEF earlier, LL, F
  <2> QED BY <1>4, <2>2, <2>3, <2>4
<1>7. \A i, j \in LL : F[i] = F[j] => i = j
  <2>1. \A i \in LL : i \in Nat /\ F[i] \in Nat
    <3> HIDE DEF F, LL, count
    <3> QED BY <1>1, <1>2, <1>5
  <2> HIDE DEF F, LL
  <2> QED BY <1>6, <2>1
<1>8. \A k \in 1..count : \E i \in LL : F[i] = k
  <2>1. F \in [LL -> 1..count]
    <3>1. F = [i \in LL |-> F[i]]
      OBVIOUS
    <3> HIDE DEF F, LL, count
    <3> QED BY <1>5, <3>1
  <2>2. IsFiniteSet(1..count) /\ Cardinality(1..count) = count
    BY <1>2, FS_Interval
  <2> HIDE DEF F, LL, count
  <2>3. F \in Injection(LL, 1..count)
    BY <1>7, <2>1, Fun_IsInj
  <2>4. F \in Surjection(LL, 1..count)
    BY <1>2, <2>2, <2>3, FS_Injection
  <2> QED BY <2>4, Fun_SurjectionProperties
<1>9. \A i \in LL : F[i] = Merging!Rewritten(src, c, i) + 1
  BY <1>3
<1> HIDE DEF F
<1> QED BY <1>2, <1>5, <1>7, <1>8, <1>9

(* The name a line of the source has in the result. *)
NewName(src, relays, i) ==
    LET name == Writes(src[i])
    IN  IF name \in Doubles(src) THEN relays[name][Merging!Rewritten(src, name, i) + 1] ELSE name

RelaysOf(relays, c) == {relays[c][k] : k \in 1..Len(relays[c])}

(* The lines of the result: those of the source with their new names, and  *)
(* one that assigns each double coil the OR of its relays.                 *)
LEMMA MergedLines ==
    ASSUME NEW src, IsSource(src), NEW dups, NEW relays, RelaysIssued(src, dups, relays)
    PROVE  LET new == Merging!Merged(src, relays, dups)
           IN  /\ Len(new) = Len(src) + Len(dups) /\ Len(src) \in Nat /\ Len(dups) \in Nat
               /\ Thin(new)
               /\ \A i \in 1..Len(src) :
                    /\ Writes(new[i]) = NewName(src, relays, i)
                    /\ Writes(src[i]) # None => Reading(new[i]) = Reading(src[i])
               /\ \A j \in 1..Len(dups) :
                    /\ Writes(new[Len(src) + j]) = dups[j]
                    /\ Reading(new[Len(src) + j]) = RelaysOf(relays, dups[j])
<1> DEFINE new == Merging!Merged(src, relays, dups)
           L == Len(src)
           m == Len(dups)
<1>1. L \in Nat /\ m \in Nat
  BY SourceLines, DoublesInOrder DEF Thin, RelaysIssued
<1>2. new = [i \in 1..(L + m) |-> IF i <= L THEN Merging!RewriteLine(src, relays, i)
                                  ELSE Merging!OrLine(dups[i - L], relays)]
  BY DEF Merging!Merged
<1> HIDE DEF new, L, m
<1>3. DOMAIN new = 1..(L + m) /\ Len(new) = L + m
  BY <1>1, <1>2
<1>4. \A i \in 1..L : new[i] = Merging!RewriteLine(src, relays, i)
  BY <1>1, <1>2
<1>5. \A j \in 1..m : L + j \in 1..(L + m) /\ ~(L + j <= L) /\ (L + j) - L = j
  BY <1>1
<1>6. ASSUME NEW j \in 1..m PROVE new[L + j] = Merging!OrLine(dups[j], relays)
  BY <1>2, <1>5
<1>7. ASSUME NEW j \in 1..m
      PROVE  /\ DOMAIN new[L + j].stmts = 1..1 /\ Len(new[L + j].stmts) = 1
             /\ Writes(new[L + j]) = dups[j]
             /\ Reading(new[L + j]) = RelaysOf(relays, dups[j])
  <2> DEFINE s == [lhs |-> dups[j], ins |-> RelaysOf(relays, dups[j])]
  <2>1. new[L + j] = [stmts |-> <<s>>, comment |-> FALSE]
    BY <1>6 DEF Merging!OrLine, RelaysOf
  <2>2. s.lhs = dups[j] /\ s.ins = RelaysOf(relays, dups[j])
    OBVIOUS
  <2> HIDE DEF s
  <2>3. new[L + j].stmts = <<s>>
    BY <2>1
  <2>4. DOMAIN <<s>> = 1..1 /\ Len(<<s>>) = 1 /\ <<s>>[1] = s
    OBVIOUS
  <2> QED BY <2>2, <2>3, <2>4 DEF Writes, Reading
<1>8. ASSUME NEW i \in 1..L
      PROVE  /\ DOMAIN new[i].stmts = 1..Len(new[i].stmts)
             /\ Len(new[i].stmts) \in {0, 1}
             /\ Writes(new[i]) = NewName(src, relays, i)
             /\ Writes(src[i]) # None => Reading(new[i]) = Reading(src[i])
  <2>1. /\ src[i] = [stmts |-> src[i].stmts, comment |-> FALSE]
        /\ Merging!IsPlain(src[i]) <=> Writes(src[i]) # None
        /\ Writes(src[i]) # None => src[i].stmts[1].lhs = Writes(src[i])
    BY SourceLines DEF L
  <2>2. /\ DOMAIN src[i].stmts = 1..Len(src[i].stmts)
        /\ Len(src[i].stmts) \in {0, 1}
    BY SourceLines DEF Thin, L
  <2>3. None \notin Doubles(src)
    BY DoublesInOrder DEF RelaysIssued
  <2>4. CASE Writes(src[i]) \in Doubles(src)
    <3> DEFINE s == [lhs |-> NewName(src, relays, i), ins |-> Reading(src[i])]
    <3>1. new[i] = Merging!Renamed(src[i], NewName(src, relays, i))
      BY <1>4, <2>1, <2>3, <2>4 DEF Merging!RewriteLine, NewName, Doubles
    <3>2. new[i] = [src[i] EXCEPT !.stmts = <<s>>]
      BY <3>1 DEF Merging!Renamed, Reading
    <3>3. s.lhs = NewName(src, relays, i) /\ s.ins = Reading(src[i])
      OBVIOUS
    <3> HIDE DEF s
    <3>4. new[i].stmts = <<s>>
      BY <2>1, <3>2
    <3>5. DOMAIN <<s>> = 1..1 /\ Len(<<s>>) = 1 /\ <<s>>[1] = s
      OBVIOUS
    <3> QED BY <3>3, <3>4, <3>5 DEF Writes, Reading
  <2>5. CASE Writes(src[i]) \notin Doubles(src)
    <3>1. new[i] = src[i]
      BY <1>4, <2>1, <2>5 DEF Merging!RewriteLine, Doubles
    <3> QED BY <2>2, <2>5, <3>1 DEF NewName
  <2> QED BY <2>4, <2>5
<1>9. Thin(new)
  <2> SUFFICES ASSUME NEW i \in 1..(L + m)
               PROVE  /\ DOMAIN new[i].stmts = 1..Len(new[i].stmts)
                      /\ Len(new[i].stmts) \in {0, 1}
    BY <1>1, <1>3 DEF Thin
  <2>1. CASE i \in 1..L
    BY <1>8, <2>1
  <2>2. CASE i \notin 1..L
    <3>1. i - L \in 1..m /\ L + (i - L) = i
      BY <1>1, <2>2
    <3> QED BY <1>7, <3>1
  <2> QED BY <2>1, <2>2
<1>10. /\ Len(new) = L + m /\ L \in Nat /\ m \in Nat /\ Thin(new)
       /\ \A i \in 1..L :
            /\ Writes(new[i]) = NewName(src, relays, i)
            /\ Writes(src[i]) # None => Reading(new[i]) = Reading(src[i])
       /\ \A j \in 1..m : Writes(new[L + j]) = dups[j] /\ Reading(new[L + j]) = RelaysOf(relays, dups[j])
  BY <1>1, <1>3, <1>7, <1>8, <1>9
<1> QED BY <1>10 DEF new, L, m

(* The new name of a line is a relay of its coil, or the only coil of that *)
(* name; no two lines have the same.                                       *)
LEMMA NewNames ==
    ASSUME Merging!MergeAssumption, NEW src, IsSource(src),
           NEW dups, NEW relays, RelaysIssued(src, dups, relays), AllIssued(src, relays)
    PROVE  /\ \A i \in 1..Len(src) :
                /\ Writes(src[i]) = None <=> NewName(src, relays, i) = None
                /\ Writes(src[i]) \in Doubles(src) =>
                     /\ NewName(src, relays, i) \in RelaysOf(relays, Writes(src[i]))
                     /\ NewName(src, relays, i) \in Merging!Addresses
                /\ Writes(src[i]) \notin Doubles(src) => NewName(src, relays, i) = Writes(src[i])
           /\ \A i, j \in 1..Len(src) :
                NewName(src, relays, i) = NewName(src, relays, j) /\ Writes(src[i]) # None => i = j
           /\ \A c \in Doubles(src) : \A a \in RelaysOf(relays, c) :
                \E i \in 1..Len(src) : Writes(src[i]) = c /\ NewName(src, relays, i) = a
<1> DEFINE D == Doubles(src)
           W(i) == Writes(src[i])
           R(c, i) == Merging!Rewritten(src, c, i) + 1
<1>1. /\ None \notin Merging!Addresses /\ Coils \cap Merging!Addresses = {}
      /\ D \subseteq Coils \ {None} /\ None \notin D
  BY DoublesInOrder DEF Merging!MergeAssumption, RelaysIssued
<1>2. \A i \in 1..Len(src) : W(i) \in Coils \cup {None}
  BY SourceLines
<1>3. ASSUME NEW c \in D
      PROVE  /\ \A i \in LinesOf(src, c) : R(c, i) \in 1..Len(relays[c])
             /\ \A i, j \in LinesOf(src, c) : R(c, i) = R(c, j) => i = j
             /\ \A k \in 1..Len(relays[c]) : \E i \in LinesOf(src, c) : R(c, i) = k
  <2>1. c # None /\ Len(relays[c]) = Merging!Count(src, c)
    BY <1>1 DEF AllIssued
  <2> HIDE DEF D
  <2> QED BY <2>1, OccurrencesNumbered
<1>4. ASSUME NEW c \in D, NEW k \in 1..Len(relays[c]) PROVE relays[c][k] \in Merging!Addresses
  <2>1. relays[c] \in Seq(Merging!Addresses)
    BY DEF RelaysIssued
  <2> QED BY <2>1, ElementOfSeq
<1>5. \A c, d \in D : \A k \in 1..Len(relays[c]), l \in 1..Len(relays[d]) :
        relays[c][k] = relays[d][l] => c = d /\ k = l
  BY DEF RelaysIssued
<1>6. \A i \in 1..Len(src) : i \in LinesOf(src, W(i))
  BY DEF LinesOf
<1>7. \A i \in 1..Len(src) :
        NewName(src, relays, i) = IF W(i) \in D THEN relays[W(i)][R(W(i), i)] ELSE W(i)
  BY DEF NewName
<1> HIDE DEF D, R, W
<1>8. ASSUME NEW i \in 1..Len(src), W(i) \in D
      PROVE  /\ NewName(src, relays, i) = relays[W(i)][R(W(i), i)]
             /\ R(W(i), i) \in 1..Len(relays[W(i)])
             /\ NewName(src, relays, i) \in RelaysOf(relays, W(i))
             /\ NewName(src, relays, i) \in Merging!Addresses
  <2>1. NewName(src, relays, i) = relays[W(i)][R(W(i), i)] /\ R(W(i), i) \in 1..Len(relays[W(i)])
    BY <1>3, <1>6, <1>7, <1>8
  <2> QED BY <1>4, <1>8, <2>1 DEF RelaysOf
<1>9. ASSUME NEW i \in 1..Len(src)
      PROVE  W(i) = None <=> NewName(src, relays, i) = None
  BY <1>1, <1>7, <1>8
<1>10. ASSUME NEW i \in 1..Len(src), NEW j \in 1..Len(src),
              NewName(src, relays, i) = NewName(src, relays, j), W(i) # None
       PROVE  i = j
  <2>1. W(i) \in Coils /\ W(j) \in Coils
    BY <1>2, <1>9, <1>10
  <2>2. CASE W(i) \in D /\ W(j) \in D
    <3>1. W(i) = W(j) /\ R(W(i), i) = R(W(j), j)
      BY <1>5, <1>8, <1>10, <2>2
    <3> QED BY <1>3, <1>6, <2>2, <3>1
  <2>3. CASE W(i) \notin D /\ W(j) \notin D
    <3>1. W(i) = W(j) /\ W(i) # None /\ W(i) \notin D
      BY <1>7, <1>10, <2>3
    <3>2. IsFiniteSet(LinesOf(src, W(i))) /\ Merging!Count(src, W(i)) = Cardinality(LinesOf(src, W(i)))
          /\ W(i) \in Merging!Assigned(src)
      BY <1>6, <3>1, SourceLines, ThinOccurrences
    <3>3. ~(Cardinality(LinesOf(src, W(i))) >= 2)
      BY <3>1, <3>2 DEF D, Doubles, Merging!DoubleCoils
    <3>4. i \in LinesOf(src, W(i)) /\ j \in LinesOf(src, W(i))
      BY <1>6, <3>1
    <3> SUFFICES ASSUME i # j PROVE FALSE
      OBVIOUS
    <3>5. IsFiniteSet({i}) /\ Cardinality({i}) = 1
      BY FS_Singleton
    <3>6. IsFiniteSet({i} \cup {j}) /\ Cardinality({i} \cup {j}) = 2
      BY <3>5, FS_AddElement
    <3>7. {i} \cup {j} \subseteq LinesOf(src, W(i))
      BY <3>4
    <3>8. 2 <= Cardinality(LinesOf(src, W(i))) /\ Cardinality(LinesOf(src, W(i))) \in Nat
      BY <3>2, <3>6, <3>7, FS_Subset, FS_CardinalityType
    <3> QED BY <3>3, <3>8
  <2>4. CASE W(i) \in D /\ W(j) \notin D
    BY <1>1, <1>7, <1>8, <1>10, <2>1, <2>4
  <2>5. CASE W(i) \notin D /\ W(j) \in D
    BY <1>1, <1>7, <1>8, <1>10, <2>1, <2>5
  <2> QED BY <2>2, <2>3, <2>4, <2>5
<1>11. ASSUME NEW c \in D, NEW a \in RelaysOf(relays, c)
       PROVE  \E i \in 1..Len(src) : W(i) = c /\ NewName(src, relays, i) = a
  <2>1. PICK k \in 1..Len(relays[c]) : a = relays[c][k]
    BY DEF RelaysOf
  <2>2. PICK i \in LinesOf(src, c) : R(c, i) = k
    BY <1>3, <2>1
  <2>3. i \in 1..Len(src) /\ W(i) = c
    BY DEF LinesOf, W
  <2> QED BY <1>7, <2>1, <2>2, <2>3
<1>12. /\ \A i \in 1..Len(src) :
            /\ W(i) = None <=> NewName(src, relays, i) = None
            /\ W(i) \in D => /\ NewName(src, relays, i) \in RelaysOf(relays, W(i))
                             /\ NewName(src, relays, i) \in Merging!Addresses
            /\ W(i) \notin D => NewName(src, relays, i) = W(i)
       /\ \A i, j \in 1..Len(src) :
            NewName(src, relays, i) = NewName(src, relays, j) /\ W(i) # None => i = j
       /\ \A c \in D : \A a \in RelaysOf(relays, c) :
            \E i \in 1..Len(src) : W(i) = c /\ NewName(src, relays, i) = a
  BY <1>7, <1>8, <1>9, <1>10, <1>11
<1> QED BY <1>12 DEF D, W

(* The result assigns every name on one line, and no input.                *)
LEMMA WrittenOnce ==
    ASSUME Merging!MergeAssumption, NEW src, IsSource(src),
           NEW dups, NEW relays, RelaysIssued(src, dups, relays), AllIssued(src, relays)
    PROVE  LET new == Merging!Merged(src, relays, dups)
           IN  /\ \A i, j \in 1..Len(new) :
                    Writes(new[i]) = Writes(new[j]) /\ Writes(new[i]) # None => i = j
               /\ \A i \in 1..Len(new) : Writes(new[i]) \notin CoilInputs
<1> DEFINE new == Merging!Merged(src, relays, dups)
           L == Len(src)
           m == Len(dups)
           N(i) == NewName(src, relays, i)
<1>1. /\ Len(new) = L + m /\ L \in Nat /\ m \in Nat
      /\ \A i \in 1..L : Writes(new[i]) = N(i)
      /\ \A j \in 1..m : Writes(new[L + j]) = dups[j]
  BY MergedLines
<1>2. /\ \A i \in 1..L : Writes(src[i]) = None <=> N(i) = None
      /\ \A i \in 1..L : N(i) \in Merging!Addresses \/ (N(i) = Writes(src[i]) /\ N(i) \notin Doubles(src))
      /\ \A i, j \in 1..L : N(i) = N(j) /\ Writes(src[i]) # None => i = j
  BY NewNames
<1>3. /\ \A j \in 1..m : dups[j] \in Doubles(src)
      /\ \A i, j \in 1..m : dups[i] = dups[j] => i = j
      /\ Doubles(src) \subseteq Coils \ {None}
  <2>1. dups \in Merging!Orders(src)
    BY DEF RelaysIssued
  <2> QED BY <2>1, DoublesInOrder
<1>4. /\ None \notin Merging!Addresses /\ Coils \cap Merging!Addresses = {}
      /\ CoilInputs \cap Coils = {} /\ CoilInputs \cap Merging!Addresses = {} /\ None \notin CoilInputs
  BY DEF Merging!MergeAssumption
<1>5. \A i \in 1..L : Writes(src[i]) \in Coils \cup {None}
  BY SourceLines
<1> HIDE DEF new, L, m, N
<1>6. ASSUME NEW i \in 1..L, NEW j \in 1..m PROVE Writes(new[i]) # Writes(new[L + j])
  <2>1. Writes(new[i]) = N(i) /\ Writes(new[L + j]) = dups[j]
    BY <1>1
  <2>2. dups[j] \in Doubles(src) /\ dups[j] \in Coils
    BY <1>3
  <2>3. N(i) \in Merging!Addresses \/ N(i) \notin Doubles(src)
    BY <1>2
  <2> QED BY <1>4, <2>1, <2>2, <2>3
<1>7. \A i \in 1..Len(new) : i \in 1..L \/ (i - L \in 1..m /\ L + (i - L) = i)
  BY <1>1
<1>8. ASSUME NEW i \in 1..Len(new), NEW j \in 1..Len(new),
             Writes(new[i]) = Writes(new[j]), Writes(new[i]) # None
      PROVE  i = j
  <2>1. CASE i \in 1..L /\ j \in 1..L
    BY <1>1, <1>2, <1>8, <2>1
  <2>2. CASE i \in 1..L /\ j \notin 1..L
    BY <1>6, <1>7, <1>8, <2>2
  <2>3. CASE i \notin 1..L /\ j \in 1..L
    BY <1>6, <1>7, <1>8, <2>3
  <2>4. CASE i \notin 1..L /\ j \notin 1..L
    <3>1. dups[i - L] = dups[j - L] /\ i - L \in 1..m /\ j - L \in 1..m
      BY <1>1, <1>7, <1>8, <2>4
    <3>2. i - L = j - L
      BY <1>3, <3>1
    <3> QED BY <1>1, <3>2
  <2> QED BY <2>1, <2>2, <2>3, <2>4
<1>9. ASSUME NEW i \in 1..Len(new) PROVE Writes(new[i]) \notin CoilInputs
  <2>1. CASE i \in 1..L
    BY <1>1, <1>2, <1>4, <1>5, <2>1
  <2>2. CASE i \notin 1..L
    <3>1. Writes(new[i]) \in Coils
      BY <1>1, <1>3, <1>7, <2>2
    <3> QED BY <1>4, <3>1
  <2> QED BY <2>1, <2>2
<1>10. /\ \A i, j \in 1..Len(new) :
            Writes(new[i]) = Writes(new[j]) /\ Writes(new[i]) # None => i = j
       /\ \A i \in 1..Len(new) : Writes(new[i]) \notin CoilInputs
  BY <1>8, <1>9
<1> QED BY <1>10 DEF new

(* No coil of the result is assigned twice.                                *)
LEMMA ResultHasNoDoubles ==
    ASSUME Merging!MergeAssumption, NEW src, IsSource(src),
           NEW dups, NEW relays, RelaysIssued(src, dups, relays), AllIssued(src, relays)
    PROVE  Doubles(Merging!Merged(src, relays, dups)) = {}
<1> DEFINE new == Merging!Merged(src, relays, dups)
<1>1. Thin(new)
  BY MergedLines
<1>2. \A i, j \in 1..Len(new) : Writes(new[i]) = Writes(new[j]) /\ Writes(new[i]) # None => i = j
  BY WrittenOnce
<1> HIDE DEF new
<1>3. ASSUME NEW c \in Merging!Assigned(new) PROVE ~(Merging!Count(new, c) >= 2)
  <2>1. c # None /\ LinesOf(new, c) # {}
    BY <1>1, ThinOccurrences
  <2>2. PICK i : LinesOf(new, c) = {i}
    <3>1. PICK i \in LinesOf(new, c) : TRUE
      BY <2>1
    <3>2. \A j \in LinesOf(new, c) : j = i
      BY <1>2, <2>1, <3>1 DEF LinesOf
    <3> QED BY <3>1, <3>2
  <2>3. Merging!Count(new, c) = 1
    BY <1>1, <2>1, <2>2, ThinOccurrences, FS_Singleton
  <2> QED BY <2>3
<1>4. Doubles(new) = {}
  BY <1>3 DEF Doubles, Merging!DoubleCoils
<1> QED BY <1>4 DEF new

(* A scan of the result leaves each coil with the OR of what the source    *)
(* assigned to it, and the inputs as they were.                            *)
LEMMA ResultIsOr ==
    ASSUME Merging!MergeAssumption, NEW src, IsSource(src),
           NEW dups, NEW relays, RelaysIssued(src, dups, relays), AllIssued(src, relays), NEW on
    PROVE  LET new == Merging!Merged(src, relays, dups)
           IN  /\ \A c \in Merging!Assigned(src) :
                    c \in Merging!Scan(new, on) <=>
                      \E p \in Merging!Occurrences(src, c) :
                        Merging!At(src, p).ins \cap Merging!Before(new, on, p) # {}
               /\ Merging!Scan(new, on) \cap CoilInputs = on \cap CoilInputs
<1> DEFINE new == Merging!Merged(src, relays, dups)
           L == Len(src)
           m == Len(dups)
           T == Len(new)
           W(i) == Writes(src[i])
           N(i) == NewName(src, relays, i)
           A(i) == Merging!AfterLines(new, on, i)
           D == Doubles(src)
           On(i) == Reading(src[i]) \cap A(i - 1) # {}
<1>1. /\ T = L + m /\ L \in Nat /\ m \in Nat /\ Thin(new)
      /\ \A i \in 1..L : Writes(new[i]) = N(i) /\ (W(i) # None => Reading(new[i]) = Reading(src[i]))
      /\ \A j \in 1..m : Writes(new[L + j]) = dups[j] /\ Reading(new[L + j]) = RelaysOf(relays, dups[j])
  BY MergedLines
<1>2. /\ \A i \in 1..L :
           /\ W(i) = None <=> N(i) = None
           /\ W(i) \in D => N(i) \in RelaysOf(relays, W(i))
           /\ W(i) \notin D => N(i) = W(i)
      /\ \A c \in D : \A a \in RelaysOf(relays, c) : \E i \in 1..L : W(i) = c /\ N(i) = a
  BY NewNames
<1>3. /\ \A i, j \in 1..T : Writes(new[i]) = Writes(new[j]) /\ Writes(new[i]) # None => i = j
      /\ \A i \in 1..T : Writes(new[i]) \notin CoilInputs
  BY WrittenOnce
<1>4. D \subseteq Coils \ {None} /\ \A c \in D : \E j \in 1..m : dups[j] = c
  BY DoublesInOrder DEF RelaysIssued
<1>5. Merging!Scan(new, on) = A(T) /\ A(0) = on
  BY <1>1, LinesRun DEF Merging!Scan
<1>6. \A c : c \in Merging!Assigned(src) <=> c # None /\ LinesOf(src, c) # {}
  BY SourceLines, ThinOccurrences
<1>7. ASSUME NEW i \in 1..L, W(i) # None, NEW n \in i..T PROVE N(i) \in A(n) <=> On(i)
  <2>1. i \in 1..T /\ Writes(new[i]) = N(i) /\ N(i) # None /\ Reading(new[i]) = Reading(src[i])
    BY <1>1, <1>2, <1>7
  <2>2. \A j \in (i + 1)..n : j \in 1..T /\ j # i
    BY <1>1
  <2>3. \A j \in (i + 1)..n : Writes(new[j]) # Writes(new[i])
    BY <1>3, <2>1, <2>2
  <2>4. Writes(new[i]) \in A(n) <=> Reading(new[i]) \cap A(i - 1) # {}
    <3> HIDE DEF new
    <3> QED BY <1>1, <2>1, <2>3, LastWrite
  <2> QED BY <2>1, <2>4
<1>8. ASSUME NEW c \in D PROVE c \in A(T) <=> \E i \in LinesOf(src, c) : On(i)
  <2>1. PICK j \in 1..m : dups[j] = c
    BY <1>4
  <2> DEFINE e == L + j
  <2>2. /\ e \in 1..T /\ T \in e..T /\ e - 1 \in 0..T /\ \A i \in 1..L : e - 1 \in i..T
        /\ Writes(new[e]) = c /\ Reading(new[e]) = RelaysOf(relays, c) /\ c # None
        /\ \A k \in (e + 1)..T : k \in 1..T /\ k # e
    BY <1>1, <1>4, <2>1
  <2> HIDE DEF e
  <2>3. \A k \in (e + 1)..T : Writes(new[k]) # Writes(new[e])
    BY <1>3, <2>2
  <2>4. c \in A(T) <=> RelaysOf(relays, c) \cap A(e - 1) # {}
    <3>1. Writes(new[e]) \in A(T) <=> Reading(new[e]) \cap A(e - 1) # {}
      <4> HIDE DEF new
      <4> QED BY <1>1, <2>2, <2>3, LastWrite
    <3> QED BY <2>2, <3>1
  <2> HIDE DEF new, A, N, W, D, On
  <2>5. ASSUME NEW a \in RelaysOf(relays, c), a \in A(e - 1)
        PROVE  \E i \in LinesOf(src, c) : On(i)
    <3>1. PICK i \in 1..L : W(i) = c /\ N(i) = a
      BY <1>2
    <3>2. On(i)
      BY <1>7, <2>2, <2>5, <3>1
    <3> QED BY <3>1, <3>2 DEF LinesOf, W
  <2>6. ASSUME NEW i \in LinesOf(src, c), On(i)
        PROVE  RelaysOf(relays, c) \cap A(e - 1) # {}
    <3>1. i \in 1..L /\ W(i) = c
      BY DEF LinesOf, W
    <3>2. N(i) \in RelaysOf(relays, c)
      BY <1>2, <3>1
    <3>3. N(i) \in A(e - 1)
      BY <1>7, <2>2, <2>6, <3>1
    <3> QED BY <3>2, <3>3
  <2> QED BY <2>4, <2>5, <2>6
<1>9. ASSUME NEW c \in Merging!Assigned(src), c \notin D
      PROVE  c \in A(T) <=> \E i \in LinesOf(src, c) : On(i)
  <2>1. c # None /\ LinesOf(src, c) # {}
    BY <1>6
  <2>2. \A i \in LinesOf(src, c) : i \in 1..L /\ T \in i..T /\ W(i) = c /\ N(i) = c
    BY <1>1, <1>2, <1>9 DEF LinesOf
  <2> HIDE DEF new, A, N, W, D, On, T
  <2>3. \A i \in LinesOf(src, c) : c \in A(T) <=> On(i)
    BY <1>7, <2>1, <2>2
  <2> QED BY <2>1, <2>3
<1>10. ASSUME NEW c \in Merging!Assigned(src)
       PROVE  (\E p \in Merging!Occurrences(src, c) :
                 Merging!At(src, p).ins \cap Merging!Before(new, on, p) # {})
                <=> \E i \in LinesOf(src, c) : On(i)
  <2>1. \A p : p \in Merging!Occurrences(src, c) <=> \E i \in LinesOf(src, c) : p = <<i, 1>>
    BY <1>6, SourceLines, ThinOccurrences
  <2>2. ASSUME NEW i \in LinesOf(src, c)
        PROVE  Merging!At(src, <<i, 1>>).ins \cap Merging!Before(new, on, <<i, 1>>) # {} <=> On(i)
    <3>1. Merging!At(src, <<i, 1>>).ins = Reading(src[i])
      BY DEF Merging!At, Reading
    <3>2. Merging!Before(new, on, <<i, 1>>) = Merging!AfterStatements(new[i].stmts, A(i - 1), 0)
      <4>1. <<i, 1>>[1] = i /\ <<i, 1>>[2] - 1 = 0
        OBVIOUS
      <4> HIDE DEF new
      <4> QED BY <4>1 DEF Merging!Before
    <3>3. Merging!Before(new, on, <<i, 1>>) = A(i - 1)
      BY <3>2, StatementsRun
    <3> HIDE DEF A
    <3> QED BY <3>1, <3>3
  <2> HIDE DEF new, On
  <2> QED BY <2>1, <2>2
<1>11. ASSUME NEW x \in CoilInputs PROVE x \in A(T) <=> x \in on
  <2>1. x # None
    BY DEF Merging!MergeAssumption
  <2>2. 0 \in 0..T /\ T \in 0..T /\ \A i \in (0 + 1)..T : i \in 1..T
    BY <1>1
  <2>3. \A i \in (0 + 1)..T : Writes(new[i]) # x
    BY <1>3, <2>2
  <2>4. x \in A(T) <=> x \in A(0)
    <3> HIDE DEF new
    <3> QED BY <1>1, <2>1, <2>2, <2>3, NameKept
  <2> HIDE DEF A
  <2> QED BY <1>5, <2>4
<1>12. /\ \A c \in Merging!Assigned(src) :
            c \in A(T) <=> \E p \in Merging!Occurrences(src, c) :
                             Merging!At(src, p).ins \cap Merging!Before(new, on, p) # {}
       /\ A(T) \cap CoilInputs = on \cap CoilInputs
  <2> HIDE DEF A, On, new, T, D
  <2> QED BY <1>8, <1>9, <1>10, <1>11
<1> HIDE DEF A, new, T
<1>13. /\ \A c \in Merging!Assigned(src) :
            c \in Merging!Scan(new, on) <=>
              \E p \in Merging!Occurrences(src, c) :
                Merging!At(src, p).ins \cap Merging!Before(new, on, p) # {}
       /\ Merging!Scan(new, on) \cap CoilInputs = on \cap CoilInputs
  BY <1>5, <1>12
<1> QED BY <1>13 DEF new

----------------------------------------------------------------------------
(* The invariant of the merge, for programs of one assignment a line: the  *)
(* relays are distinct addresses the allocator knows as taken, and in the  *)
(* end the result is the source rewritten with a relay an occurrence.      *)

OwnersTyped == symOf \in [Merging!Addresses -> Merging!Names \cup {None}]

RelaysTaken ==
    \A c \in Doubles(source) : \A k \in 1..Len(aux[c]) : symOf[aux[c][k]] # None

MergeInv ==
    /\ merging \in {"spec", "relays", "done"}
    /\ merging = "spec" => OwnersTyped
    /\ merging # "spec" => source \in CoilPrograms
    /\ merging # "spec" /\ IsSource(source) =>
         OwnersTyped /\ RelaysIssued(source, order, aux) /\ RelaysTaken
    /\ merging = "done" /\ IsSource(source) =>
         AllIssued(source, aux) /\ code = Merging!Merged(source, aux, order)

(* The result of the invariant is right.                                   *)
LEMMA MergedIsRight ==
    ASSUME MergeInv PROVE MergeKeepsTheProgram
<1> SUFFICES ASSUME merging = "done", Merging!OnePerLine(source)
             PROVE  /\ \A on : Merging!IsOrOfItsExpressions(on)
                    /\ Merging!DoubleCoils(code) = {}
  BY DEF MergeKeepsTheProgram, Merging!MergeKeepsTheProgram, Merging!MergeIsOr, Merging!MergedOnce
<1>1. IsSource(source)
  BY CoilProgramsAreMade DEF IsSource, MergeInv, Merging!MergeAssumption
<1>2. /\ RelaysIssued(source, order, aux) /\ AllIssued(source, aux)
      /\ code = Merging!Merged(source, aux, order)
  BY <1>1 DEF MergeInv
<1>3. Doubles(code) = {}
  BY <1>1, <1>2, CoilProgramsAreMade, ResultHasNoDoubles
<1>4. ASSUME NEW on PROVE Merging!IsOrOfItsExpressions(on)
  <2>1. /\ \A c \in Merging!Assigned(source) :
             c \in Merging!Scan(code, on) <=>
               \E p \in Merging!Occurrences(source, c) :
                 Merging!At(source, p).ins \cap Merging!Before(code, on, p) # {}
        /\ Merging!Scan(code, on) \cap CoilInputs = on \cap CoilInputs
    BY <1>1, <1>2, CoilProgramsAreMade, ResultIsOr
  <2> QED BY <2>1 DEF Merging!IsOrOfItsExpressions, Merging!AssignedValue
<1> QED BY <1>3, <1>4 DEF Doubles

(* A relay is an address that was free, and taken addresses stay taken.    *)
LEMMA RelayIsFresh ==
    ASSUME OwnersTyped, NEW hint \in Hints, Merging!AllocateRelay(hint)
    PROVE  /\ OwnersTyped'
           /\ handedOut' \in Merging!Addresses
           /\ symOf[handedOut'] = None /\ symOf'[handedOut'] # None
           /\ \A a \in Merging!Addresses : symOf[a] # None => symOf'[a] # None
<1> DEFINE relay(n) == <<"_AUX_", hint, n>>
           key == Merging!IndexKey("M", "OUTPUT")
<1>1. PICK n \in 0..MaxIndex :
        addrOf[relay(n)] = None /\ Merging!Allocate(relay(n), "M", None, "OUTPUT")
  BY DEF Merging!AllocateRelay, Merging!UnusedRelay
<1>2. PICK idx \in 0..MaxIndex :
        /\ symOf[Merging!FormatAddress(key, idx)] = None
        /\ Merging!Claim(relay(n), Merging!FormatAddress(key, idx))
  BY <1>1 DEF Merging!Allocate, Merging!FirstFree
<1> DEFINE a == Merging!FormatAddress(key, idx)
<1>3. a \in Merging!Addresses
  <2>1. key \in Merging!Letters
    BY DEF Merging!IndexKey, Merging!RoleOf, Merging!Letters, Merging!Roles
  <2> HIDE DEF key
  <2> QED BY <2>1 DEF Merging!FormatAddress, Merging!Addresses
<1>4. relay(n) \in Merging!Names /\ relay(n) # None
  <2>1. relay(n) \in Merging!Relays
    BY DEF Merging!Relays
  <2> QED BY <2>1, CoilProgramsAreMade DEF Merging!Names, Merging!MergeAssumption
<1> HIDE DEF a, relay, key
<1>5. symOf[a] = None /\ Merging!Claim(relay(n), a)
  BY <1>2 DEF a
<1>6. symOf' = [symOf EXCEPT ![a] = relay(n)] /\ handedOut' = a
  BY <1>5 DEF Merging!Claim
<1> QED BY <1>3, <1>4, <1>5, <1>6 DEF OwnersTyped

(* A point of the specification only changes what the allocator holds.     *)
LEMMA PointStep ==
    ASSUME MergeInv, NEW symbol \in CoilPoints, NEW fixed \in {None} \cup Merging!Addresses,
           Merging!SpecPoint(symbol, fixed)
    PROVE  MergeInv'
<1>1. merging = "spec" /\ merging' = "spec" /\ OwnersTyped
  BY DEF Merging!SpecPoint, MergeInv
<1>2. Merging!Allocate(symbol, "M", fixed, "OUTPUT")
  BY DEF Merging!SpecPoint
<1>3. symOf' = symOf \/ \E a : symOf' = [symOf EXCEPT ![a] = symbol]
  BY <1>2 DEF Merging!Allocate, Merging!Claim
<1>4. symbol \in Merging!Names
  BY DEF Merging!Names
<1>5. OwnersTyped'
  BY <1>1, <1>3, <1>4 DEF OwnersTyped
<1> QED BY <1>1, <1>5 DEF MergeInv

(* At first no relay is issued, and without a double coil none is needed.  *)
LEMMA BeginStep ==
    ASSUME MergeInv, NEW lines \in CoilPrograms, Merging!BeginMerge(lines)
    PROVE  MergeInv'
<1>1. /\ merging = "spec" /\ OwnersTyped /\ UNCHANGED symOf
      /\ source' = lines /\ code' = lines /\ order' \in Merging!Orders(lines)
      /\ aux' = [c \in Doubles(lines) |-> <<>>]
      /\ merging' = IF Doubles(lines) = {} THEN "done" ELSE "relays"
  BY DEF Merging!BeginMerge, MergeInv, Doubles, Merging!allocVars
<1>2. OwnersTyped'
  BY <1>1 DEF OwnersTyped
<1>3. ASSUME IsSource(lines)
      PROVE  /\ RelaysIssued(lines, order', aux') /\ RelaysTaken'
             /\ Doubles(lines) = {} => AllIssued(lines, aux') /\ lines = Merging!Merged(lines, aux', order')
  <2>1. /\ \A c \in Doubles(lines) : aux'[c] = <<>> /\ Len(aux'[c]) = 0
        /\ aux' \in [Doubles(lines) -> Seq(Merging!Addresses)]
    BY <1>1
  <2>2. \A c \in Doubles(lines) : Merging!Count(lines, c) \in Nat
    BY <1>1, <1>3, DoublesInOrder, OccurrencesNumbered
  <2>3. RelaysIssued(lines, order', aux')
    BY <1>1, <2>1, <2>2 DEF RelaysIssued
  <2>4. RelaysTaken'
    BY <1>1, <2>1 DEF RelaysTaken
  <2>5. ASSUME Doubles(lines) = {}
        PROVE  AllIssued(lines, aux') /\ lines = Merging!Merged(lines, aux', order')
    <3> DEFINE L == Len(lines)
    <3>1. Len(order') = 0 /\ L \in Nat /\ lines \in Seq(Merging!Lines)
      BY <1>1, <1>3, <2>5, DoublesInOrder, FS_EmptySet, SourceLines DEF Thin, IsSource
    <3>2. lines = [i \in 1..L |-> lines[i]]
      BY <3>1, LenProperties
    <3>3. \A i : Merging!RewriteLine(lines, aux', i) = lines[i]
      BY <2>5 DEF Merging!RewriteLine, Doubles
    <3>4. Merging!Merged(lines, aux', order')
            = [i \in 1..(L + 0) |-> IF i <= L THEN Merging!RewriteLine(lines, aux', i)
                                    ELSE Merging!OrLine(order'[i - L], aux')]
      BY <3>1 DEF Merging!Merged
    <3> HIDE DEF L
    <3>5. L + 0 = L /\ \A i \in 1..L : i <= L
      BY <3>1
    <3>6. Merging!Merged(lines, aux', order') = [i \in 1..L |-> lines[i]]
      BY <3>3, <3>4, <3>5
    <3> QED BY <2>5, <3>2, <3>6 DEF AllIssued
  <2> QED BY <2>3, <2>4, <2>5
<1>4. merging' \in {"spec", "relays", "done"} /\ merging' # "spec"
      /\ (merging' = "done" => Doubles(lines) = {})
  BY <1>1
<1> QED BY <1>1, <1>2, <1>3, <1>4 DEF MergeInv

(* The next relay is none of those already issued.                         *)
LEMMA IssueStep ==
    ASSUME MergeInv, Merging!IssueRelay PROVE MergeInv'
<1>1. /\ merging = "relays" /\ merging' = "relays" /\ source \in CoilPrograms
      /\ UNCHANGED <<source, code, order>>
  BY DEF Merging!IssueRelay, MergeInv
<1>2. SUFFICES ASSUME IsSource(source)
               PROVE  OwnersTyped' /\ RelaysIssued(source, order, aux') /\ RelaysTaken'
  BY <1>1 DEF MergeInv
<1>3. OwnersTyped /\ RelaysIssued(source, order, aux) /\ RelaysTaken
  BY <1>1, <1>2 DEF MergeInv
<1>4. PICK i \in DOMAIN order :
        /\ Merging!Short(order[i])
        /\ Merging!AllocateRelay(<<order[i], Len(aux[order[i]]) + 1>>)
        /\ aux' = [aux EXCEPT ![order[i]] = Append(@, handedOut')]
  BY DEF Merging!IssueRelay
<1> DEFINE c == order[i]
           n == Len(aux[c])
           a == handedOut'
           D == Doubles(source)
<1>5. c \in D /\ c \in Coils \ {None} /\ D \subseteq Coils \ {None}
  <2>1. order \in Merging!Orders(source)
    BY <1>3 DEF RelaysIssued
  <2>2. order \in [1..Len(order) -> D] /\ D \subseteq Coils \ {None}
    BY <1>2, <2>1, DoublesInOrder
  <2> QED BY <2>2
<1>6. aux \in [D -> Seq(Merging!Addresses)]
  BY <1>3 DEF RelaysIssued
<1>7. aux[c] \in Seq(Merging!Addresses) /\ n \in Nat /\ Merging!Count(source, c) \in Nat
      /\ n < Merging!Count(source, c)
  <2>1. aux[c] \in Seq(Merging!Addresses)
    BY <1>5, <1>6
  <2>2. Merging!Count(source, c) \in Nat
    BY <1>2, <1>5, OccurrencesNumbered
  <2> QED BY <1>4, <2>1, <2>2, LenProperties DEF Merging!Short
<1>8. <<c, n + 1>> \in Hints
  <2>1. {c} \X (1..Merging!Count(source, c)) \subseteq Hints
    BY <1>1, <1>5, CoilProgramsAreMade DEF Merging!MergeAssumption
  <2>2. n + 1 \in 1..Merging!Count(source, c)
    BY <1>7
  <2> QED BY <2>1, <2>2
<1>9. /\ OwnersTyped' /\ a \in Merging!Addresses
      /\ symOf[a] = None /\ symOf'[a] # None
      /\ \A b \in Merging!Addresses : symOf[b] # None => symOf'[b] # None
  BY <1>3, <1>4, <1>8, RelayIsFresh
<1>10. /\ aux' \in [D -> Seq(Merging!Addresses)]
       /\ \A d \in D : d # c => aux'[d] = aux[d]
       /\ Len(aux'[c]) = n + 1 /\ aux'[c][n + 1] = a
       /\ \A k \in 1..n : aux'[c][k] = aux[c][k]
  <2>1. aux' = [aux EXCEPT ![c] = Append(aux[c], a)]
    BY <1>4
  <2> HIDE DEF c, n, a, D
  <2>2. Append(aux[c], a) \in Seq(Merging!Addresses)
    BY <1>7, <1>9
  <2>3. aux' \in [D -> Seq(Merging!Addresses)] /\ aux'[c] = Append(aux[c], a)
        /\ \A d \in D : d # c => aux'[d] = aux[d]
    BY <1>5, <1>6, <2>1, <2>2
  <2>4. Len(Append(aux[c], a)) = n + 1 /\ Append(aux[c], a)[n + 1] = a
        /\ \A k \in 1..n : Append(aux[c], a)[k] = aux[c][k]
    BY <1>7 DEF n
  <2> QED BY <2>3, <2>4
<1>11. /\ \A d \in D : \A k \in 1..Len(aux[d]) :
            aux[d][k] \in Merging!Addresses /\ aux[d][k] # a /\ symOf'[aux[d][k]] # None
       /\ \A d \in D : Len(aux[d]) \in Nat
  <2>1. \A d \in D : aux[d] \in Seq(Merging!Addresses)
    BY <1>6
  <2>2. \A d \in D : \A k \in 1..Len(aux[d]) : aux[d][k] \in Merging!Addresses
    BY <2>1, ElementOfSeq
  <2>3. \A d \in D : \A k \in 1..Len(aux[d]) : symOf[aux[d][k]] # None
    BY <1>3 DEF RelaysTaken
  <2>4. \A d \in D : Len(aux[d]) \in Nat
    BY <2>1, LenProperties
  <2> HIDE DEF a, D
  <2> QED BY <1>9, <2>2, <2>3, <2>4
<1>12. \A d \in D : \A k \in 1..Len(aux'[d]) :
         IF d = c /\ k = n + 1 THEN aux'[d][k] = a
         ELSE k \in 1..Len(aux[d]) /\ aux'[d][k] = aux[d][k]
  <2> HIDE DEF c, a, D
  <2> SUFFICES ASSUME NEW d \in D, NEW k \in 1..Len(aux'[d])
               PROVE  IF d = c /\ k = n + 1 THEN aux'[d][k] = a
                      ELSE k \in 1..Len(aux[d]) /\ aux'[d][k] = aux[d][k]
    OBVIOUS
  <2>1. CASE d = c
    <3>1. k \in 1..(n + 1)
      BY <1>10, <2>1
    <3>2. k = n + 1 \/ k \in 1..n
      BY <1>7, <3>1
    <3> QED BY <1>7, <1>10, <2>1, <3>2
  <2>2. CASE d # c
    BY <1>10, <2>2
  <2> QED BY <2>1, <2>2
<1>13. \A d, e \in D : \A k \in 1..Len(aux[d]), l \in 1..Len(aux[e]) :
         aux[d][k] = aux[e][l] => d = e /\ k = l
  BY <1>3 DEF RelaysIssued
<1>14. \A d \in D : Len(aux'[d]) <= Merging!Count(source, d)
  <2>1. \A d \in D : Len(aux[d]) <= Merging!Count(source, d)
    BY <1>3 DEF RelaysIssued
  <2>2. n + 1 <= Merging!Count(source, c)
    BY <1>7
  <2> HIDE DEF c, n, D
  <2> QED BY <1>10, <2>1, <2>2
<1> HIDE DEF c, n, a, D
<1>15. ASSUME NEW d \in D, NEW e \in D, NEW k \in 1..Len(aux'[d]), NEW l \in 1..Len(aux'[e]),
              aux'[d][k] = aux'[e][l]
       PROVE  d = e /\ k = l
  <2> DEFINE newD == d = c /\ k = n + 1
             newE == e = c /\ l = n + 1
  <2>1. CASE newD /\ newE
    BY <2>1
  <2>2. CASE newD /\ ~newE
    <3>1. l \in 1..Len(aux[e]) /\ aux[e][l] = a
      BY <1>12, <1>15, <2>2
    <3> QED BY <1>11, <3>1
  <2>3. CASE ~newD /\ newE
    <3>1. k \in 1..Len(aux[d]) /\ aux[d][k] = a
      BY <1>12, <1>15, <2>3
    <3> QED BY <1>11, <3>1
  <2>4. CASE ~newD /\ ~newE
    <3>1. k \in 1..Len(aux[d]) /\ l \in 1..Len(aux[e]) /\ aux[d][k] = aux[e][l]
      BY <1>12, <1>15, <2>4
    <3> QED BY <1>13, <3>1
  <2> QED BY <2>1, <2>2, <2>3, <2>4
<1>16. RelaysIssued(source, order, aux')
  BY <1>3, <1>10, <1>14, <1>15 DEF RelaysIssued, D
<1>17. RelaysTaken'
  <2>1. \A d \in D : \A k \in 1..Len(aux'[d]) : symOf'[aux'[d][k]] # None
    BY <1>9, <1>11, <1>12
  <2> QED BY <1>1, <2>1 DEF RelaysTaken, D
<1> QED BY <1>9, <1>16, <1>17

(* When no coil is short of relays every occurrence has one.               *)
LEMMA RewriteStep ==
    ASSUME MergeInv, Merging!Rewrite PROVE MergeInv'
<1>1. /\ merging = "relays" /\ merging' = "done" /\ source \in CoilPrograms
      /\ UNCHANGED <<symOf, source, order, aux>>
      /\ code' = Merging!Merged(source, aux, order)
      /\ \A i \in DOMAIN order : ~Merging!Short(order[i])
  BY DEF Merging!Rewrite, MergeInv, Merging!allocVars
<1>2. SUFFICES ASSUME IsSource(source)
               PROVE  OwnersTyped' /\ RelaysIssued(source, order, aux) /\ RelaysTaken'
                      /\ AllIssued(source, aux)
  BY <1>1 DEF MergeInv
<1>3. OwnersTyped /\ RelaysIssued(source, order, aux) /\ RelaysTaken
  BY <1>1, <1>2 DEF MergeInv
<1>4. OwnersTyped' /\ RelaysTaken'
  BY <1>1, <1>3 DEF OwnersTyped, RelaysTaken
<1>5. ASSUME NEW c \in Doubles(source) PROVE Len(aux[c]) = Merging!Count(source, c)
  <2>1. order \in Merging!Orders(source) /\ aux \in [Doubles(source) -> Seq(Merging!Addresses)]
        /\ Len(aux[c]) <= Merging!Count(source, c)
    BY <1>3 DEF RelaysIssued
  <2>2. c # None /\ \E j \in DOMAIN order : order[j] = c
    <3>1. /\ Doubles(source) \subseteq Coils \ {None}
          /\ order \in [1..Len(order) -> Doubles(source)]
          /\ \E j \in 1..Len(order) : order[j] = c
      BY <1>2, <2>1, DoublesInOrder
    <3> QED BY <3>1
  <2>3. ~(Len(aux[c]) < Merging!Count(source, c))
    BY <1>1, <2>2 DEF Merging!Short
  <2>4. Merging!Count(source, c) \in Nat
    BY <1>2, <2>2, OccurrencesNumbered
  <2>5. Len(aux[c]) \in Nat
    BY <2>1, LenProperties
  <2> QED BY <2>1, <2>3, <2>4, <2>5
<1> QED BY <1>3, <1>4, <1>5 DEF AllIssued

(* Whatever the specification had taken before, the merge leaves each coil *)
(* assigned once, the OR of what it was assigned; for any programs, any    *)
(* number of points and any state the last scan left.                      *)
THEOREM MergesKeepPrograms == ServiceSpec => []MergeKeepsTheProgram
<1>1. ServiceInit => MergeInv
  <2> SUFFICES ASSUME ServiceInit PROVE MergeInv
    OBVIOUS
  <2>1. merging = "spec" /\ symOf = [a \in Merging!Addresses |-> None]
    BY DEF ServiceInit, Merging!Init, Merging!AllocInit
  <2> QED BY <2>1 DEF MergeInv, OwnersTyped
<1>2. MergeInv /\ [ServiceNext]_serviceVars => MergeInv'
  <2> SUFFICES ASSUME MergeInv, [ServiceNext]_serviceVars PROVE MergeInv'
    OBVIOUS
  <2>1. CASE UNCHANGED coilVars
    BY <2>1 DEF MergeInv, OwnersTyped, RelaysTaken, coilVars
  <2>2. CASE Merging!Next
    <3>1. ASSUME NEW symbol \in CoilPoints,
                 NEW fixed \in {None} \cup {a \in Merging!Addresses : a.letter = Profile["INTERNAL"]},
                 Merging!SpecPoint(symbol, fixed)
          PROVE  MergeInv'
      BY <3>1, PointStep
    <3>2. ASSUME NEW lines \in CoilPrograms, Merging!BeginMerge(lines) PROVE MergeInv'
      BY <3>2, BeginStep
    <3> QED BY <2>2, <3>1, <3>2, IssueStep, RewriteStep DEF Merging!Next
  <2>3. [ServiceNext]_serviceVars => Merging!Next \/ UNCHANGED coilVars
    BY DEF ServiceNext, CosimRuns, PipeRuns, FilesRun, StreamRuns, MergeRuns, serviceVars
  <2> QED BY <2>1, <2>2, <2>3
<1> QED BY <1>1, <1>2, MergedIsRight, PTL DEF ServiceSpec, ServiceSafety
=============================================================================
