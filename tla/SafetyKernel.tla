---------------------------- MODULE SafetyKernel ----------------------------
(***************************************************************************)
(* The write path of app/comms/safety_kernel.py in front of a PlcLink and  *)
(* of the PLC that scans behind it.                                        *)
(*                                                                         *)
(* A write is several steps: the checks, one frame after the other on the  *)
(* link (sent, applied by the PLC, acknowledged), and the audit entry.     *)
(* The PLC scans and the clock ticks between any two of them.  A frame can *)
(* be refused or lost, and a frame whose answer timed out can still be     *)
(* applied later, because the request is already on its way.               *)
(***************************************************************************)
EXTENDS WriteGate

CONSTANTS
    Programs,
    Rank,         \* Rank[s]: the position of input symbol s in sorted order
    Blocks,       \* the symbol sets the link writes in a single frame
    MinInterval,  \* min_interval of the rate limit, 0 disables it
    Reliable,     \* TRUE: every frame is applied and answered in time
    MaxTime,      \* bound on the clock
    MaxCalls      \* bound on the number of write_inputs calls

ASSUME KernelAssumption ==
    /\ Rank \in [Inputs -> Nat]
    /\ \A s, t \in Inputs : Rank[s] = Rank[t] => s = t
    /\ MinInterval \in Nat
    /\ Reliable \in BOOLEAN
    /\ MaxTime \in Nat
    /\ MaxCalls \in Nat

VARIABLES
    prog,         \* the specification's program, on the PLC and in the dry run
    now,          \* the injected clock
    seq,          \* _seq
    lastWriteAt,  \* _last_write_at
    audit,        \* the audit log
    writing,      \* TRUE while write_inputs is inside link.write_inputs
    todo,         \* the frames of the current write not yet sent
    awaiting,     \* TRUE while the answer to a frame is awaited
    net,          \* frames sent and not yet applied by the PLC
    held,         \* the input image of the PLC
    image,        \* its output image after the last scan
    calls         \* history: what each call asked for and what became of it

kernelVars == <<seq, lastWriteAt, audit, writing, todo, awaiting>>
vars == <<prog, now, kernelVars, net, held, image, calls>>

NoWrite == -1

Init ==
    /\ prog \in Programs
    /\ now = 0
    /\ seq = 0
    /\ lastWriteAt = NoWrite
    /\ audit = <<>>
    /\ writing = FALSE
    /\ todo = {}
    /\ awaiting = FALSE
    /\ net = <<>>
    /\ held = AllOff(Inputs)
    /\ image = AllOff(Driven(prog))
    /\ calls = <<>>

----------------------------------------------------------------------------
(* Mutation: one time unit too lenient. *)
RateLimitedLate ==
    /\ MinInterval > 0
    /\ lastWriteAt # NoWrite
    /\ now - lastWriteAt < MinInterval - 1

(* The gap is measured from the end of the last write that succeeded. *)
RateLimited ==
    /\ MinInterval > 0
    /\ lastWriteAt # NoWrite
    /\ now - lastWriteAt < MinInterval

(* Mutation: an exception inside the checks lets the command pass. *)
VerdictFailsOpen(cmd) ==
    IF ~Whitelisted(cmd) THEN "whitelist"
    ELSE IF ~WellTyped(cmd) THEN "types"
    ELSE IF RateLimited THEN "rate"
    ELSE IF ~SynthesisRaises(prog) /\ BreaksInterlock(prog, cmd)
         THEN "interlock" ELSE "ok"

(* The pipeline of _validate: the first check that objects names the       *)
(* reason, "ok" when none does.                                            *)
Verdict(cmd) ==
    IF ~Whitelisted(cmd) THEN "whitelist"
    ELSE IF ~WellTyped(cmd) THEN "types"
    ELSE IF RateLimited THEN "rate"
    ELSE IF SynthesisRaises(prog) THEN "internal"
    ELSE IF BreaksInterlock(prog, cmd) THEN "interlock" ELSE "ok"

Entry(decision, reason, n) ==
    [decision |-> decision, reason |-> reason, seq |-> n]

(* A contiguous block is one frame, otherwise every symbol is a frame of   *)
(* its own; an empty command writes nothing.                               *)
FramesOf(cmd) ==
    IF DOMAIN cmd \in Blocks THEN {cmd}
    ELSE {[s \in {t} |-> cmd[s]] : t \in DOMAIN cmd}

(* The frames of one write go out in sorted order. *)
First(frame) ==
    \A other \in todo \ {frame} : \A s \in DOMAIN frame, t \in DOMAIN other :
        Rank[s] <= Rank[t]

(* write_inputs up to the verdict, when a check refuses the command. *)
Refuse(cmd) ==
    /\ ~writing /\ seq < MaxCalls
    /\ Verdict(cmd) # "ok"
    /\ seq' = seq + 1
    /\ audit' = Append(audit, Entry("DENY", Verdict(cmd), seq + 1))
    /\ calls' = Append(calls, [cmd |-> cmd, begun |-> now, applied |-> {}])
    /\ UNCHANGED <<prog, now, lastWriteAt, writing, todo, awaiting,
                   net, held, image>>

(* write_inputs up to the verdict, when every check passes. *)
Admit(cmd) ==
    /\ ~writing /\ seq < MaxCalls
    /\ Verdict(cmd) = "ok"
    /\ seq' = seq + 1
    /\ writing' = TRUE
    /\ todo' = FramesOf(cmd)
    /\ calls' = Append(calls, [cmd |-> cmd, begun |-> now, applied |-> {}])
    /\ UNCHANGED <<prog, now, lastWriteAt, audit, awaiting, net, held, image>>

(* The link sends the next frame and waits. *)
Send ==
    /\ writing /\ ~awaiting
    /\ \E frame \in todo :
          /\ First(frame)
          /\ todo' = todo \ {frame}
          /\ net' = Append(net, [call |-> seq, frame |-> frame])
    /\ awaiting' = TRUE
    /\ UNCHANGED <<prog, now, seq, lastWriteAt, audit, writing,
                   held, image, calls>>

(* Mutation: the link does not wait for the answer. *)
AcknowledgeUnseen ==
    /\ awaiting
    /\ awaiting' = FALSE
    /\ UNCHANGED <<prog, now, seq, lastWriteAt, audit, writing, todo, net,
                   held, image, calls>>

(* The answer arrives: the PLC has applied everything sent so far. *)
Acknowledge ==
    /\ awaiting /\ net = <<>>
    /\ awaiting' = FALSE
    /\ UNCHANGED <<prog, now, seq, lastWriteAt, audit, writing, todo, net,
                   held, image, calls>>

(* Mutation: the failure of the link is not logged. *)
LinkFailsUnlogged ==
    /\ ~Reliable
    /\ writing /\ (awaiting \/ todo # {})
    /\ net' \in {net, <<>>}
    /\ writing' = FALSE
    /\ todo' = {}
    /\ awaiting' = FALSE
    /\ UNCHANGED <<prog, now, seq, lastWriteAt, audit, held, image, calls>>

(* The link raises: connecting or sending fails, the PLC refuses the frame *)
(* or the connection breaks with what is in flight, or the answer is late  *)
(* and the frame remains on its way.                                       *)
LinkFails ==
    /\ ~Reliable
    /\ writing /\ (awaiting \/ todo # {})
    /\ net' \in {net, <<>>}
    /\ audit' = Append(audit, Entry("DENY", "link", seq))
    /\ writing' = FALSE
    /\ todo' = {}
    /\ awaiting' = FALSE
    /\ UNCHANGED <<prog, now, seq, lastWriteAt, held, image, calls>>

(* link.write_inputs returns. *)
Finish ==
    /\ writing /\ ~awaiting /\ todo = {}
    /\ lastWriteAt' = now
    /\ audit' = Append(audit, Entry("ALLOW", "ok", seq))
    /\ writing' = FALSE
    /\ UNCHANGED <<prog, now, seq, todo, awaiting, net, held, image, calls>>

(* close() between two writes; what was in flight may be lost with it, or  *)
(* still reach the PLC.                                                    *)
Close ==
    /\ ~writing
    /\ net' \in {net, <<>>}
    /\ UNCHANGED <<prog, now, kernelVars, held, image, calls>>

(* The PLC takes the oldest frame in flight. *)
Apply ==
    /\ net # <<>>
    /\ LET m == Head(net)
       IN  /\ held' = [s \in Inputs |->
                         IF s \in DOMAIN m.frame THEN m.frame[s] ELSE held[s]]
           /\ calls' = [calls EXCEPT ![m.call].applied = @ \cup {m.frame}]
    /\ net' = Tail(net)
    /\ UNCHANGED <<prog, now, kernelVars, image>>

PlcScan ==
    /\ image' \in [Driven(prog) -> BOOLEAN]
    /\ \E level \in Levels : \E ins \in Valuations(Free(prog), level) :
          /\ \A s \in Inputs \cap Free(prog) : ins[s] = held[s]
          /\ IsScan(prog, image, ins, image')
    /\ UNCHANGED <<prog, now, kernelVars, net, held, calls>>

Tick ==
    /\ now < MaxTime
    /\ now' = now + 1
    /\ UNCHANGED <<prog, kernelVars, net, held, image, calls>>

Next ==
    \/ \E cmd \in Commands : Refuse(cmd) \/ Admit(cmd)
    \/ Send \/ Acknowledge \/ LinkFails \/ Finish \/ Close
    \/ Apply \/ PlcScan \/ Tick

Spec == Init /\ [][Next]_vars

----------------------------------------------------------------------------
WireFrame == UNION {[d -> BOOLEAN] : d \in SUBSET Inputs}

Reasons == {"whitelist", "types", "rate", "internal", "interlock", "link", "ok"}

(* Frames on the wire carry known inputs and BOOL values only: nothing     *)
(* foreign or malformed gets past the checks.                              *)
TypeOK ==
    /\ prog \in Programs
    /\ now \in 0..MaxTime
    /\ seq \in 0..MaxCalls
    /\ lastWriteAt \in {NoWrite} \cup 0..MaxTime
    /\ audit \in Seq([decision : {"ALLOW", "DENY"}, reason : Reasons, seq : Nat])
    /\ writing \in BOOLEAN
    /\ todo \subseteq WireFrame
    /\ awaiting \in BOOLEAN
    /\ net \in Seq([call : 1..MaxCalls, frame : WireFrame])
    /\ held \in [Inputs -> BOOLEAN]
    /\ image \in [Driven(prog) -> BOOLEAN]
    /\ calls \in Seq([cmd : Commands, begun : 0..MaxTime,
                     applied : SUBSET WireFrame])

(* Every write_inputs call that has ended left exactly one audit entry,    *)
(* under its own number and in call order, whether it was refused, failed  *)
(* on the link at any frame, or succeeded.                                 *)
AuditIsComplete ==
    /\ Len(audit) = IF writing THEN seq - 1 ELSE seq
    /\ \A i \in 1..Len(audit) : audit[i].seq = i

(* ALLOW is logged only for a command of which the PLC holds, or has held, *)
(* every frame.                                                            *)
AllowMeansDelivered ==
    \A i \in 1..Len(audit) :
        audit[i].decision = "ALLOW" =>
            calls[i].applied = FramesOf(calls[i].cmd)

(* Two calls that are both logged ALLOW passed their checks at least       *)
(* MinInterval apart, however long the link took.                          *)
AllowedCallsAreSpaced ==
    \A i, j \in 1..Len(audit) :
        i < j /\ audit[i].decision = "ALLOW" /\ audit[j].decision = "ALLOW"
            => calls[j].begun - calls[i].begun >= MinInterval

Gated == INSTANCE GatedPlc

(* Behind the kernel the input image only ever takes values that one       *)
(* command passing every check asks for, even when frames are lost, late   *)
(* or applied after the call was reported as failed.                       *)
RefinesGatedPlc == Gated!Spec

----------------------------------------------------------------------------
(* The coils read inputs only. *)
Combinational(p) ==
    \A o \in Driven(p) :
        /\ ~p.coil[o].seal
        /\ p.coil[o].guards = {}
        /\ \A t \in p.coil[o].on \cup p.coil[o].cut :
              t.on \cup t.off \subseteq Inputs

(* For combinational programs the dry run predicts the PLC exactly, so     *)
(* commands that mention every input and travel in one frame keep every    *)
(* interlock, provided the all-OFF inputs the PLC starts with do.          *)
CompleteCommandsKeepInterlocks ==
    Combinational(prog) /\ Safe(prog, AllOff(Inputs))
        => \A lock \in prog.locks : ~Clash(lock, image)

(* Commands that could break an interlock are suppressed before they reach *)
(* the real link (module docstring of safety_kernel.py).                   *)
InterlocksHoldOnPlc ==
    Safe(prog, AllOff(Inputs)) => \A lock \in prog.locks : ~Clash(lock, image)

(* A call that ended in WriteRejected wrote nothing to the PLC.  *)
RejectedMeansBlocked ==
    \A i \in 1..Len(audit) :
        audit[i].decision = "DENY" => calls[i].applied = {}

(* Any two calls that changed the PLC are MinInterval apart. *)
EffectiveWritesAreSpaced ==
    \A i, j \in 1..Len(calls) :
        i < j /\ calls[i].applied # {} /\ calls[j].applied # {}
            => calls[j].begun - calls[i].begun >= MinInterval
=============================================================================
