---------------------------- MODULE CosimSession ----------------------------
(***************************************************************************)
(* The co-simulation session of app/cosim.py behind the WebSocket           *)
(* /api/cosim: one client drives one virtual PLC scan by scan with          *)
(* messages, each answered by a state, a trace or an error.                 *)
(*                                                                         *)
(* The scans are those of StEngine.  A message is well formed JSON here     *)
(* (the endpoint answers anything else with an error and keeps the          *)
(* session); what handle_message rejects is Malformed.                      *)
(***************************************************************************)
EXTENDS StEngine, FiniteSets, SequencesExt

CONSTANTS Specs,        \* specifications whose programs init is sent
          StepTimes,    \* valid step_ms
          MaxScans,     \* MAX_SCANS_PER_STEP
          MaxTrace,     \* MAX_TRACE_SCANS
          MaxHistory,   \* bound: scans of one session
          NoSession

ASSUME CosimAssumption ==
  MaxScans \in Nat \ {0} /\ MaxTrace \in Nat \ {0} /\ StepTimes \subseteq Nat \ {0}

VARIABLES session,      \* the session of this connection, or NoSession
          reply,        \* the last reply
          history       \* inputs of every scan since init (history)

vars == <<session, reply, history>>

Error == [type |-> "error"]

(* state(): the value an input had in the last scan; the value set, before the first one *)
StateReply(s) ==
  [type |-> "state", t |-> s.t,
   inputs |-> IF s.scanned THEN {n \in s.spec.inputs : s.engine.table[n]} ELSE s.inputs,
   outputs |-> OnOutputs(s.spec, s.engine.table)]

Init == session = NoSession /\ reply = Error /\ history = <<>>

(* CosimSession(...): a fresh program, everything off *)
NewSession(spec, dt) ==
  [spec |-> spec, dt |-> dt, t |-> 0, engine |-> PowerOn(spec), scanned |-> FALSE,
   inputs |-> {}, trace |-> <<>>, truncated |-> FALSE]

InitMessage(spec, dt) ==
  /\ session' = NewSession(spec, dt)
  /\ reply' = [type |-> "ready", t |-> 0, inputs |-> spec.inputs, outputs |-> OutputNames(spec)]
  /\ history' = <<>>

(* an init with an empty or unparsable program or a bad step, any message before a good *)
(* init, an unknown type, a field of the wrong kind                                     *)
Malformed == reply' = Error /\ UNCHANGED <<session, history>>

(* Mutation: every value is applied as it is looked at. *)
SetInputsOneByOne(values) ==
  LET Good(i) == values[i][1] \in session.spec.inputs /\ values[i][2] \in {"true", "false"}
      bad == {i \in DOMAIN values : ~Good(i)}
      seen == {i \in DOMAIN values : \A j \in bad : i < j}
      on == {values[i][1] : i \in {k \in seen : values[k][2] = "true"}}
      off == {values[i][1] : i \in {k \in seen : values[k][2] = "false"}}
  IN  /\ session' = [session EXCEPT !.inputs = (@ \cup on) \ off]
      /\ reply' = IF bad # {} THEN Error ELSE StateReply(session')

(* set_inputs: all values are looked at before one is applied *)
SetInputs(values) ==
  LET Good(i) == values[i][1] \in session.spec.inputs /\ values[i][2] \in {"true", "false"}
      on == {values[i][1] : i \in {k \in DOMAIN values : values[k][2] = "true"}}
      off == {values[i][1] : i \in {k \in DOMAIN values : values[k][2] = "false"}}
  IN  IF \E i \in DOMAIN values : ~Good(i)
      THEN reply' = Error /\ UNCHANGED session
      ELSE /\ session' = [session EXCEPT !.inputs = (@ \cup on) \ off]
           /\ reply' = StateReply(session')

SetMessage(values) ==
  /\ session # NoSession
  /\ SetInputs(values)
  /\ UNCHANGED history

(* Mutation: the oldest samples are kept. *)
TruncateNewest(trace) == IF Len(trace) > MaxTrace THEN Front(trace) ELSE trace

Truncate(trace) == IF Len(trace) > MaxTrace THEN Tail(trace) ELSE trace

(* one scan: inputs, blocks, coils, clock, trace *)
OneScan(s) ==
  LET engine == StScan(s.spec, s.engine, s.inputs, s.dt)
      trace == Append(s.trace, [t |-> s.t + s.dt, i |-> s.inputs,
                                o |-> OnOutputs(s.spec, engine.table)])
  IN  [s EXCEPT !.engine = engine, !.t = @ + s.dt, !.scanned = TRUE,
                !.trace = Truncate(trace), !.truncated = @ \/ Len(trace) > MaxTrace]

StepMessage(scans) ==
  /\ session # NoSession
  /\ Len(history) + scans <= MaxHistory
  /\ LET after[i \in 0..scans] == IF i = 0 THEN session ELSE OneScan(after[i - 1])
     IN  session' = after[scans]
  /\ reply' = StateReply(session')
  /\ history' = history \o [i \in 1..scans |-> session.inputs]

StateMessage ==
  /\ session # NoSession
  /\ reply' = StateReply(session)
  /\ UNCHANGED <<session, history>>

TraceMessage ==
  /\ session # NoSession
  /\ reply' = [type |-> "trace", samples |-> session.trace, truncated |-> session.truncated]
  /\ UNCHANGED <<session, history>>

(* dicts of one or two symbols, an unknown one and a value that is no bool among them *)
Values ==
  LET Pairs == (session.spec.inputs \cup {"NOBODY"}) \X {"true", "false", "1"}
  IN  {<<p>> : p \in Pairs} \cup {v \in Pairs \X Pairs : v[1][1] # v[2][1]}

Next ==
  \/ \E spec \in Specs, dt \in StepTimes : InitMessage(spec, dt)
  \/ Malformed
  \/ session # NoSession /\ \E values \in Values : SetMessage(values)
  \/ \E scans \in 1..MaxScans : StepMessage(scans)
  \/ StateMessage
  \/ TraceMessage

Spec == Init /\ [][Next]_vars

-----------------------------------------------------------------------------
(* What simulate() (app/simulator.py) records for the inputs of the history: its first sample *)
(* is stamped 0.                                                                              *)
Simulated ==
  LET after[i \in 0..Len(history)] ==
        IF i = 0 THEN PowerOn(session.spec)
        ELSE StScan(session.spec, after[i - 1], history[i], session.dt)
  IN  [i \in 1..Len(history) |->
         [t |-> (i - 1) * session.dt, i |-> history[i], o |-> OnOutputs(session.spec, after[i].table)]]

(* the same samples, stamped at the end of their scans *)
SimulatedEnds ==
  [i \in DOMAIN Simulated |-> [Simulated[i] EXCEPT !.t = @ + session.dt]]

(* However the scans are cut into messages, and whatever errors and second inits come in      *)
(* between, the trace shows the scans simulate() makes of the same inputs, cut to its last    *)
(* samples, and says so exactly when samples are missing (the record and replay of            *)
(* cosim.py:13).  Its stamps are never those of simulate() but one scan later: the session    *)
(* stamps the end of a scan (cosim.py:93, test_cosim.py:135), simulate() the begin            *)
(* (simulator.py:291).                                                                        *)
TraceShowsSimulatedScans ==
  session # NoSession =>
    /\ session.trace = SubSeq(SimulatedEnds, IF Len(history) > MaxTrace
                                             THEN Len(history) - MaxTrace + 1 ELSE 1, Len(history))
    /\ session.truncated <=> Len(history) > MaxTrace

(* A message answered with an error changes nothing: no input of a rejected set is applied,   *)
(* and a failed init keeps the session that was there (cosim.py:127).                         *)
ErrorsChangeNothing ==
  [][reply' = Error => UNCHANGED <<session, history>>]_vars

(* The answer to a set shows the values that were set (cosim.py:5, inputs take effect at      *)
(* once).  Fails after the first scan: the answer shows the inputs of the last scan.          *)
SetIsReflected ==
  reply.type = "state" => reply.inputs = session.inputs
=============================================================================
