------------------------- MODULE SafetyKernel_proofs -------------------------
(***************************************************************************)
(* Proofs about the write path of the safety kernel: for every program,    *)
(* every set of commands, every split of a command into frames and every   *)
(* way in which the link loses, delays or refuses them.                    *)
(***************************************************************************)
EXTENDS SafetyKernel, TLAPS

(* A command nothing objects to passes every check on its own and is not   *)
(* too early.                                                              *)
LEMMA VerdictOk ==
    ASSUME NEW cmd, Verdict(cmd) = "ok"
    PROVE  Safe(prog, cmd) /\ ~RateLimited
BY DEF Verdict, Safe

(* The frames of a command that passes the checks are BOOL writes to input *)
(* symbols, each asking for what the command asks for.                     *)
LEMMA FramesTyped ==
    ASSUME NEW cmd \in Commands, Safe(prog, cmd),
           NEW f \in FramesOf(cmd)
    PROVE  /\ f \in WireFrame
           /\ DOMAIN f \subseteq DOMAIN cmd
           /\ \A s \in DOMAIN f : f[s] = cmd[s]
<1>1. DOMAIN cmd \subseteq Inputs /\ \A s \in DOMAIN cmd : cmd[s] \in BOOLEAN
  BY DEF Safe, Whitelisted, WellTyped
<1>2. CASE DOMAIN cmd \in Blocks
  <2>1. f = cmd
    BY <1>2 DEF FramesOf
  <2>2. f = [s \in DOMAIN f |-> f[s]]
    BY <2>1, GateAssumption
  <2>3. f \in [DOMAIN f -> BOOLEAN]
    BY <1>1, <2>1, <2>2
  <2> QED BY <1>1, <2>1, <2>3 DEF WireFrame
<1>3. CASE DOMAIN cmd \notin Blocks
  <2>1. PICK t \in DOMAIN cmd : f = [s \in {t} |-> cmd[s]]
    BY <1>3 DEF FramesOf
  <2>2. f \in [{t} -> BOOLEAN]
    BY <1>1, <2>1
  <2> QED BY <1>1, <2>1, <2>2 DEF WireFrame
<1> QED BY <1>2, <1>3

----------------------------------------------------------------------------
AuditEntry == [decision : {"ALLOW", "DENY"}, reason : Reasons, seq : Nat]
Call == [cmd : Commands, begun : 0..MaxTime, applied : SUBSET WireFrame]
Packet == [call : Nat, frame : WireFrame]

(* The kernel's own books: one audit entry per call that has ended, none   *)
(* for the one inside the link.                                            *)
Books ==
    /\ seq \in Nat
    /\ writing \in BOOLEAN
    /\ writing => seq >= 1
    /\ calls \in Seq(Call)
    /\ Len(calls) = seq
    /\ audit \in Seq(AuditEntry)
    /\ AuditIsComplete
    /\ now \in 0..MaxTime
    /\ net \in Seq(Packet)
    /\ todo \subseteq WireFrame
    /\ prog \in Programs

(* Appending the next number to a log numbered 1, 2, ... keeps it so. *)
LEMMA AuditAppend ==
    ASSUME NEW a \in Seq(AuditEntry), NEW e \in AuditEntry,
           e.seq = Len(a) + 1, \A i \in 1..Len(a) : a[i].seq = i
    PROVE  /\ Append(a, e) \in Seq(AuditEntry)
           /\ Len(Append(a, e)) = Len(a) + 1
           /\ \A i \in 1..Len(Append(a, e)) : Append(a, e)[i].seq = i
OBVIOUS

(* An entry under the number of the call that ends now fits the log. *)
LEMMA EntryTyped ==
    ASSUME NEW d \in {"ALLOW", "DENY"}, NEW r \in Reasons, NEW n \in Nat
    PROVE  Entry(d, r, n) \in AuditEntry /\ Entry(d, r, n).seq = n
BY DEF Entry, AuditEntry

(* Receiving a frame changes what one call has applied, nothing else. *)
LEMMA ApplyKeepsCalls ==
    ASSUME calls \in Seq(Call), net \in Seq(Packet), Apply
    PROVE  /\ calls' \in Seq(Call)
           /\ Len(calls') = Len(calls)
           /\ \A i \in 1..Len(calls) :
                 /\ calls'[i].cmd = calls[i].cmd
                 /\ calls'[i].begun = calls[i].begun
                 /\ calls'[i].applied =
                      IF i = Head(net).call
                      THEN calls[i].applied \cup {Head(net).frame}
                      ELSE calls[i].applied
<1>1. Head(net) \in Packet
  BY DEF Apply
<1>2. Head(net).frame \in WireFrame
  BY <1>1 DEF Packet
<1> DEFINE n == Head(net).call
           fr == Head(net).frame
<1>3. calls' = [calls EXCEPT ![n].applied = @ \cup {fr}]
  BY DEF Apply
<1> HIDE DEF n, fr
<1>4. fr \in WireFrame /\ n \in Nat
  BY <1>1, <1>2 DEF fr, n, Packet
<1>5. DOMAIN calls = 1..Len(calls) /\ \A i \in 1..Len(calls) : calls[i] \in Call
  OBVIOUS
<1>6. Len(calls') = Len(calls) /\ DOMAIN calls' = 1..Len(calls)
  BY <1>3
<1>7. \A i \in 1..Len(calls) : 
        calls'[i] = IF i = n THEN [calls[i] EXCEPT !.applied = @ \cup {fr}]
                    ELSE calls[i]
  BY <1>3, <1>4, <1>5
<1>8. ASSUME NEW i \in 1..Len(calls) PROVE calls'[i] \in Call
  <2>1. CASE i = n
    <3>1. calls[i].applied \cup {fr} \in SUBSET WireFrame
      BY <1>4, <1>5 DEF Call
    <3> QED BY <1>5, <1>7, <2>1, <3>1 DEF Call
  <2>2. CASE i # n
    BY <1>5, <1>7, <2>2
  <2> QED BY <2>1, <2>2
<1>9. calls' \in Seq(Call)
  <2>1. calls' = [i \in 1..Len(calls) |-> calls'[i]]
    BY <1>3, <1>5
  <2>2. calls' \in [1..Len(calls) -> Call]
    BY <1>8, <2>1
  <2>3. Len(calls) \in Nat
    OBVIOUS
  <2> QED BY <2>2, <2>3
<1>10. \A i \in 1..Len(calls) :
         /\ calls'[i].cmd = calls[i].cmd
         /\ calls'[i].begun = calls[i].begun
         /\ calls'[i].applied = IF i = n THEN calls[i].applied \cup {fr}
                                 ELSE calls[i].applied
  BY <1>5, <1>7 DEF Call
<1> QED BY <1>6, <1>9, <1>10 DEF n, fr

(* The types of the kernel's books and the numbering of the audit log,     *)
(* through every step of kernel, link, PLC and clock.                      *)
THEOREM BooksAreKept == Spec => []Books
<1>1. Init => Books
  <2> SUFFICES ASSUME Init PROVE Books
    OBVIOUS
  <2>1. AuditIsComplete
    BY DEF Init, AuditIsComplete
  <2>2. calls = <<>> /\ audit = <<>> /\ net = <<>> /\ seq = 0 /\ now = 0
    BY DEF Init
  <2>3. calls \in Seq(Call) /\ audit \in Seq(AuditEntry) /\ net \in Seq(Packet)
    BY <2>2
  <2>4. now \in 0..MaxTime
    BY <2>2, KernelAssumption
  <2>5. writing = FALSE /\ todo = {} /\ prog \in Programs
    BY DEF Init
  <2> QED BY <2>1, <2>2, <2>3, <2>4, <2>5 DEF Books
<1>2. Books /\ [Next]_vars => Books'
  <2> SUFFICES ASSUME Books, [Next]_vars PROVE Books'
    OBVIOUS
  <2> USE DEF Books
  <2>0. Len(audit) \in Nat /\ \A i \in 1..Len(audit) : audit[i].seq = i
    BY DEF AuditIsComplete
  <2>1. ASSUME NEW cmd \in Commands, Refuse(cmd) PROVE Books'
    <3>1. Verdict(cmd) \in Reasons
      BY DEF Verdict, Reasons
    <3>2. ~writing /\ writing' = FALSE /\ Len(audit) + 1 = seq + 1
      BY <2>1 DEF Refuse, AuditIsComplete
    <3>3. /\ audit' \in Seq(AuditEntry)
          /\ Len(audit') = seq + 1
          /\ \A i \in 1..Len(audit') : audit'[i].seq = i
      <4>1. Entry("DENY", Verdict(cmd), seq + 1) \in AuditEntry
            /\ Entry("DENY", Verdict(cmd), seq + 1).seq = seq + 1
        BY <3>1, EntryTyped
      <4>2. audit' = Append(audit, Entry("DENY", Verdict(cmd), seq + 1))
        BY <2>1 DEF Refuse
      <4> QED BY <2>0, <3>2, <4>1, <4>2, AuditAppend
    <3>4. AuditIsComplete'
      BY <2>1, <3>2, <3>3 DEF Refuse, AuditIsComplete
    <3>5. calls' \in Seq(Call) /\ Len(calls') = seq'
      BY <2>1 DEF Refuse, Call
    <3> QED BY <2>1, <3>3, <3>4, <3>5 DEF Refuse
  <2>2. ASSUME NEW cmd \in Commands, Admit(cmd) PROVE Books'
    <3>1. calls' \in Seq(Call) /\ Len(calls') = seq'
      BY <2>2 DEF Admit, Call
    <3>2. todo' \subseteq WireFrame
      BY <2>2, VerdictOk, FramesTyped DEF Admit
    <3>3. AuditIsComplete'
      BY <2>2 DEF Admit, AuditIsComplete
    <3> QED BY <2>2, <3>1, <3>2, <3>3 DEF Admit
  <2>3. CASE Send
    <3>1. PICK frame \in todo :
            /\ todo' = todo \ {frame}
            /\ net' = Append(net, [call |-> seq, frame |-> frame])
      BY <2>3 DEF Send
    <3>2. net' \in Seq(Packet)
      BY <3>1 DEF Packet
    <3> QED BY <2>3, <3>1, <3>2 DEF Send, AuditIsComplete
  <2>4. CASE Acknowledge
    BY <2>4 DEF Acknowledge, AuditIsComplete
  <2>5. CASE LinkFails \/ Finish
    <3>1. PICK e \in AuditEntry : audit' = Append(audit, e) /\ e.seq = seq
      BY <2>5, EntryTyped DEF LinkFails, Finish, Reasons
    <3>2. writing /\ ~writing' /\ Len(audit) + 1 = seq
      BY <2>5 DEF LinkFails, Finish, AuditIsComplete
    <3>3. /\ audit' \in Seq(AuditEntry)
          /\ Len(audit') = seq
          /\ \A i \in 1..Len(audit') : audit'[i].seq = i
      BY <2>0, <3>1, <3>2, AuditAppend
    <3>4. UNCHANGED <<seq, calls, now, prog>>
      BY <2>5 DEF LinkFails, Finish
    <3>5. AuditIsComplete'
      BY <3>2, <3>3, <3>4 DEF AuditIsComplete
    <3>6. net' \in Seq(Packet) /\ todo' \subseteq WireFrame /\ writing' = FALSE
      <4>1. net' = net \/ net' = <<>>
        BY <2>5 DEF LinkFails, Finish
      <4>2. net' \in Seq(Packet)
        <5>1. CASE net' = net
          BY <5>1
        <5>2. CASE net' = <<>>
          BY <5>2
        <5> QED BY <4>1, <5>1, <5>2
      <4> QED BY <2>5, <4>2 DEF LinkFails, Finish
    <3> QED BY <3>3, <3>4, <3>5, <3>6
  <2>6. CASE Close
    <3>1. (net' = net \/ net' = <<>>) /\ UNCHANGED <<prog, now, kernelVars, held, image, calls>>
      BY <2>6 DEF Close
    <3>2. net' \in Seq(Packet)
      <4>1. CASE net' = net
        BY <4>1
      <4>2. CASE net' = <<>>
        BY <4>2
      <4> QED BY <3>1, <4>1, <4>2
    <3> QED BY <3>1, <3>2 DEF kernelVars, AuditIsComplete
  <2>7. CASE Apply
    <3>1. calls' \in Seq(Call) /\ Len(calls') = Len(calls)
      BY <2>7, ApplyKeepsCalls
    <3>2. net' \in Seq(Packet)
      BY <2>7 DEF Apply
    <3> QED BY <2>7, <3>1, <3>2 DEF Apply, kernelVars, AuditIsComplete
  <2>8. CASE PlcScan
    BY <2>8 DEF PlcScan, kernelVars, AuditIsComplete
  <2>9. CASE Tick
    BY <2>9, KernelAssumption DEF Tick, kernelVars, AuditIsComplete
  <2>10. CASE UNCHANGED vars
    BY <2>10 DEF vars, kernelVars, AuditIsComplete
  <2> QED BY <2>1, <2>2, <2>3, <2>4, <2>5, <2>6, <2>7, <2>8, <2>9, <2>10
          DEF Next
<1> QED BY <1>1, <1>2, PTL DEF Spec

(* What is left of the kernel's types once the books are kept. *)
Registers ==
    /\ seq <= MaxCalls
    /\ lastWriteAt \in {NoWrite} \cup 0..MaxTime
    /\ awaiting \in BOOLEAN
    /\ held \in [Inputs -> BOOLEAN]
    /\ image \in [Driven(prog) -> BOOLEAN]
    /\ \A k \in 1..Len(net) : net[k].call \in 1..MaxCalls

(* A frame on the wire sets inputs to BOOL values. *)
LEMMA FrameValues ==
    ASSUME NEW f \in WireFrame
    PROVE  \A s \in DOMAIN f : f[s] \in BOOLEAN
BY DEF WireFrame

(* Nothing foreign or malformed gets past the checks, onto the wire or     *)
(* into the PLC: all the state of kernel, link and PLC keeps its type.     *)
THEOREM KernelTypeCorrect == Spec => []TypeOK
<1>1. Init => Registers
  <2> SUFFICES ASSUME Init PROVE Registers
    OBVIOUS
  <2>1. held \in [Inputs -> BOOLEAN] /\ image \in [Driven(prog) -> BOOLEAN]
    BY DEF Init, AllOff
  <2>2. Len(net) = 0 /\ seq <= MaxCalls /\ lastWriteAt = NoWrite /\ awaiting = FALSE
    BY KernelAssumption DEF Init
  <2>3. \A k \in 1..Len(net) : net[k].call \in 1..MaxCalls
    BY <2>2
  <2>4. seq <= MaxCalls /\ lastWriteAt \in {NoWrite} \cup 0..MaxTime
    BY <2>2
  <2>5. awaiting \in BOOLEAN
    BY <2>2
  <2> QED BY <2>1, <2>3, <2>4, <2>5 DEF Registers
<1>2. Registers /\ Books /\ Books' /\ [Next]_vars => Registers'
  <2> SUFFICES ASSUME Registers, Books, Books', [Next]_vars
               PROVE  Registers'
    OBVIOUS
  <2>0. net \in Seq(Packet) /\ net' \in Seq(Packet) /\ seq \in Nat /\ seq' \in Nat /\ MaxCalls \in Nat
    BY KernelAssumption DEF Books
  <2>1. ASSUME NEW cmd \in Commands, Refuse(cmd) \/ Admit(cmd) PROVE Registers'
    BY <2>0, <2>1 DEF Registers, Refuse, Admit
  <2>2. CASE Send
    <3>1. PICK frame \in todo :
              net' = Append(net, [call |-> seq, frame |-> frame])
      BY <2>2 DEF Send
    <3>2. seq \in 1..MaxCalls
      BY <2>0, <2>2 DEF Send, Books, Registers
    <3>3. \A k \in 1..Len(net') : net'[k].call \in 1..MaxCalls
      BY <2>0, <3>1, <3>2 DEF Registers
    <3> QED BY <2>2, <3>3 DEF Send, Registers
  <2>3. CASE Acknowledge
    BY <2>3 DEF Acknowledge, Registers
  <2>4. ASSUME net' \in {net, <<>>}, UNCHANGED <<prog, seq, held, image>>,
               awaiting' \in BOOLEAN, lastWriteAt' \in {NoWrite} \cup 0..MaxTime
        PROVE  Registers'
    <3>1. \A k \in 1..Len(net') : net'[k].call \in 1..MaxCalls
      BY <2>0, <2>4 DEF Registers
    <3> QED BY <2>4, <3>1 DEF Registers
  <2>5. CASE LinkFails
    BY <2>4, <2>5 DEF LinkFails, Registers
  <2>6. CASE Finish
    BY <2>4, <2>6 DEF Finish, Registers, Books
  <2>7. CASE Close
    BY <2>4, <2>7 DEF Close, kernelVars, Registers
  <2>8. CASE Apply
    <3>1. net # <<>> /\ net' = Tail(net) /\ Head(net) \in Packet
      BY <2>0, <2>8 DEF Apply
    <3>2. \A s \in DOMAIN Head(net).frame : Head(net).frame[s] \in BOOLEAN
      BY <3>1, FrameValues DEF Packet
    <3>3. held' \in [Inputs -> BOOLEAN]
      BY <2>8, <3>2 DEF Apply, Registers
    <3>4. \A k \in 1..Len(net') : net'[k].call \in 1..MaxCalls
      BY <2>0, <3>1 DEF Registers
    <3> QED BY <2>8, <3>3, <3>4 DEF Apply, kernelVars, Registers
  <2>9. CASE PlcScan
    BY <2>9 DEF PlcScan, kernelVars, Registers
  <2>10. CASE Tick
    BY <2>10 DEF Tick, kernelVars, Registers
  <2>11. CASE UNCHANGED vars
    BY <2>11 DEF vars, kernelVars, Registers
  <2> QED BY <2>1, <2>2, <2>3, <2>5, <2>6, <2>7, <2>8, <2>9, <2>10, <2>11 DEF Next
<1>3. Registers /\ Books => TypeOK
  <2> SUFFICES ASSUME Registers, Books PROVE TypeOK
    OBVIOUS
  <2> DEFINE Known == [call : 1..MaxCalls, frame : WireFrame]
  <2>1. net \in Seq(Known)
    <3>1. net \in Seq(Packet)
      BY DEF Books
    <3>2. \A k \in 1..Len(net) : net[k] \in [call : 1..MaxCalls, frame : WireFrame]
      <4> SUFFICES ASSUME NEW k \in 1..Len(net)
                   PROVE  net[k] \in [call : 1..MaxCalls, frame : WireFrame]
        OBVIOUS
      <4>1. net[k] \in Packet
        BY <3>1
      <4>2. net[k].call \in 1..MaxCalls
        BY DEF Registers
      <4> QED BY <4>1, <4>2 DEF Packet
    <3>3. Len(net) \in Nat /\ net = [k \in 1..Len(net) |-> net[k]]
      BY <3>1
    <3>4. net \in [1..Len(net) -> Known]
      BY <3>2, <3>3
    <3> HIDE DEF Known
    <3> QED BY <3>3, <3>4
  <2>2. seq \in 0..MaxCalls
    BY KernelAssumption DEF Registers, Books
  <2>3. /\ audit \in Seq([decision : {"ALLOW", "DENY"}, reason : Reasons, seq : Nat])
        /\ calls \in Seq([cmd : Commands, begun : 0..MaxTime,
                         applied : SUBSET WireFrame])
    BY DEF Books, AuditEntry, Call
  <2> QED BY <2>1, <2>2, <2>3 DEF Registers, Books, TypeOK
<1> QED BY <1>1, <1>2, <1>3, BooksAreKept, PTL DEF Spec

(* Whatever the link does, every write_inputs call that has ended left one *)
(* entry in the audit log, under its own number.                           *)
THEOREM AuditNeverMissesACall == Spec => []AuditIsComplete
<1>1. Books => AuditIsComplete
  BY DEF Books
<1> QED BY <1>1, BooksAreKept, PTL

----------------------------------------------------------------------------
(* The rate limit needs to know that no allowed call began after the last  *)
(* recorded write, and that the call inside the link is already spaced.    *)
Spacing ==
    /\ lastWriteAt \in {NoWrite} \cup Nat
    /\ lastWriteAt <= now
    /\ AllowedCallsAreSpaced
    /\ \A i \in 1..Len(audit) :
          audit[i].decision = "ALLOW" =>
            /\ lastWriteAt # NoWrite
            /\ calls[i].begun <= lastWriteAt
            /\ writing => calls[seq].begun - calls[i].begun >= MinInterval
    /\ \A i \in 1..Len(calls) : calls[i].begun \in 0..MaxTime /\ calls[i].begun <= now

(* Any two calls logged ALLOW passed their checks at least MinInterval     *)
(* apart, although the clock the limit compares is read only when the      *)
(* earlier write has returned.                                             *)
THEOREM AllowedCallsSpaced == Spec => []AllowedCallsAreSpaced
<1>1. Init => Spacing
  BY DEF Init, Spacing, AllowedCallsAreSpaced, NoWrite
<1>2. Books /\ Books' /\ Spacing /\ [Next]_vars => Spacing'
  <2> SUFFICES ASSUME Books, Books', Spacing, [Next]_vars PROVE Spacing'
    OBVIOUS
  <2>0. /\ MinInterval \in Nat /\ seq \in Nat /\ now \in Nat
        /\ Len(calls) = seq /\ Len(audit) = IF writing THEN seq - 1 ELSE seq
        /\ calls \in Seq(Call) /\ audit \in Seq(AuditEntry)
        /\ writing \in BOOLEAN /\ (writing => seq >= 1)
        /\ now \in 0..MaxTime
    BY KernelAssumption DEF Books, AuditIsComplete
  <2>1. ASSUME NEW cmd \in Commands, Refuse(cmd) PROVE Spacing'
    <3> DEFINE e == Entry("DENY", Verdict(cmd), seq + 1)
    <3>1. audit' = Append(audit, e) /\ e.decision = "DENY"
      BY <2>1 DEF Refuse, Entry
    <3> HIDE DEF e
    <3>2. /\ Len(audit') = seq + 1 /\ Len(audit) = seq
          /\ audit'[seq + 1] = e
          /\ \A i \in 1..seq : audit'[i] = audit[i]
      BY <2>0, <2>1, <3>1 DEF Refuse
    <3>3. /\ Len(calls') = seq + 1
          /\ calls'[seq + 1].begun = now
          /\ \A i \in 1..seq : calls'[i] = calls[i]
      BY <2>0, <2>1 DEF Refuse
    <3>4. UNCHANGED <<lastWriteAt, now, writing>> /\ ~writing
      BY <2>1 DEF Refuse
    <3>5. AllowedCallsAreSpaced'
      <4> SUFFICES ASSUME NEW i \in 1..seq + 1, NEW j \in 1..seq + 1, i < j,
                          audit'[i].decision = "ALLOW",
                          audit'[j].decision = "ALLOW"
                   PROVE  calls'[j].begun - calls'[i].begun >= MinInterval
        BY <2>1, <3>2 DEF AllowedCallsAreSpaced, Refuse
      <4>1. i \in 1..seq /\ j \in 1..seq
        BY <2>0, <3>1, <3>2
      <4>2. audit[i].decision = "ALLOW" /\ audit[j].decision = "ALLOW"
        BY <3>2, <4>1
      <4>3. calls[j].begun - calls[i].begun >= MinInterval
        BY <3>2, <4>1, <4>2 DEF Spacing, AllowedCallsAreSpaced
      <4> QED BY <3>3, <4>1, <4>3
    <3>6. \A i \in 1..Len(audit') :
            audit'[i].decision = "ALLOW" =>
              lastWriteAt # NoWrite /\ calls'[i].begun <= lastWriteAt
      BY <2>0, <3>1, <3>2, <3>3 DEF Spacing
    <3>7. \A i \in 1..Len(calls') :
            calls'[i].begun \in 0..MaxTime /\ calls'[i].begun <= now
      BY <2>0, <3>3 DEF Spacing
    <3> QED BY <3>4, <3>5, <3>6, <3>7 DEF Spacing
  <2>2. ASSUME NEW cmd \in Commands, Admit(cmd) PROVE Spacing'
    <3>1. /\ Len(calls') = seq + 1
          /\ calls'[seq + 1].begun = now
          /\ \A i \in 1..seq : calls'[i] = calls[i]
          /\ seq' = seq + 1
      BY <2>0, <2>2 DEF Admit
    <3>2. UNCHANGED <<lastWriteAt, now, audit>> /\ ~writing /\ Len(audit) = seq
      BY <2>0, <2>2 DEF Admit
    <3>3. ~RateLimited
      BY <2>2, VerdictOk DEF Admit
    <3>4. ASSUME NEW i \in 1..Len(audit), audit[i].decision = "ALLOW"
          PROVE  now - calls[i].begun >= MinInterval
      <4>1. /\ lastWriteAt # NoWrite /\ calls[i].begun <= lastWriteAt
            /\ calls[i].begun \in Nat /\ lastWriteAt \in Nat
        BY <2>0, <3>2, <3>4 DEF Spacing
      <4>2. now - lastWriteAt >= MinInterval \/ MinInterval = 0
        BY <2>0, <3>3, <4>1 DEF RateLimited
      <4> QED BY <2>0, <4>1, <4>2 DEF Spacing
    <3>5. AllowedCallsAreSpaced'
      BY <2>0, <3>1, <3>2 DEF Spacing, AllowedCallsAreSpaced
    <3>6. \A i \in 1..Len(audit') :
            audit'[i].decision = "ALLOW" =>
              /\ lastWriteAt # NoWrite /\ calls'[i].begun <= lastWriteAt
              /\ calls'[seq'].begun - calls'[i].begun >= MinInterval
      BY <2>0, <3>1, <3>2, <3>4 DEF Spacing
    <3>7. \A i \in 1..Len(calls') :
            calls'[i].begun \in 0..MaxTime /\ calls'[i].begun <= now
      BY <2>0, <3>1 DEF Spacing
    <3> QED BY <3>2, <3>5, <3>6, <3>7 DEF Spacing
  <2>3. CASE Send \/ Acknowledge \/ Close \/ PlcScan \/ UNCHANGED vars
    <3>1. UNCHANGED <<lastWriteAt, now, writing, audit, calls, seq>>
      BY <2>3 DEF Send, Acknowledge, Close, PlcScan, vars, kernelVars
    <3> QED BY <3>1 DEF Spacing, AllowedCallsAreSpaced
  <2>4. CASE LinkFails
    <3> DEFINE e == Entry("DENY", "link", seq)
    <3>1. audit' = Append(audit, e) /\ e.decision = "DENY"
      BY <2>4 DEF LinkFails, Entry
    <3> HIDE DEF e
    <3>2. /\ Len(audit') = Len(audit) + 1
          /\ audit'[Len(audit) + 1] = e
          /\ \A i \in 1..Len(audit) : audit'[i] = audit[i]
      BY <2>0, <3>1
    <3>3. UNCHANGED <<lastWriteAt, now, calls, seq>> /\ writing' = FALSE
      BY <2>4 DEF LinkFails
    <3>4. AllowedCallsAreSpaced'
      BY <2>0, <3>1, <3>2, <3>3 DEF Spacing, AllowedCallsAreSpaced
    <3>5. \A i \in 1..Len(audit') :
            audit'[i].decision = "ALLOW" =>
              lastWriteAt # NoWrite /\ calls[i].begun <= lastWriteAt
      BY <2>0, <3>1, <3>2 DEF Spacing
    <3> QED BY <3>3, <3>4, <3>5 DEF Spacing
  <2>5. CASE Finish
    <3> DEFINE e == Entry("ALLOW", "ok", seq)
    <3>1. audit' = Append(audit, e)
      BY <2>5 DEF Finish
    <3> HIDE DEF e
    <3>2. /\ writing /\ Len(audit) = seq - 1 /\ Len(audit') = seq
          /\ \A i \in 1..Len(audit) : audit'[i] = audit[i]
      BY <2>0, <2>5, <3>1 DEF Finish
    <3>3. UNCHANGED <<now, calls, seq>> /\ lastWriteAt' = now /\ writing' = FALSE
      BY <2>5 DEF Finish
    <3>4. AllowedCallsAreSpaced'
      <4> SUFFICES ASSUME NEW i \in 1..seq, NEW j \in 1..seq, i < j,
                          audit'[i].decision = "ALLOW",
                          audit'[j].decision = "ALLOW"
                   PROVE  calls[j].begun - calls[i].begun >= MinInterval
        BY <3>2, <3>3 DEF AllowedCallsAreSpaced
      <4>1. i \in 1..Len(audit) /\ audit[i].decision = "ALLOW"
        BY <2>0, <3>2
      <4>2. CASE j = seq
        BY <3>2, <4>1, <4>2 DEF Spacing
      <4>3. CASE j # seq
        <5>1. j \in 1..Len(audit) /\ audit[j].decision = "ALLOW"
          BY <2>0, <3>2, <4>3
        <5> QED BY <4>1, <5>1 DEF Spacing, AllowedCallsAreSpaced
      <4> QED BY <4>2, <4>3
    <3>5. now # NoWrite /\ \A i \in 1..Len(audit') : calls[i].begun <= now
      BY <2>0, <3>2 DEF Spacing, NoWrite
    <3> QED BY <2>0, <3>3, <3>4, <3>5 DEF Spacing
  <2>6. CASE Apply
    <3>1. UNCHANGED <<lastWriteAt, now, writing, audit, seq>>
      BY <2>6 DEF Apply, kernelVars
    <3>2. /\ Len(calls') = Len(calls)
          /\ \A i \in 1..Len(calls) : calls'[i].begun = calls[i].begun
      BY <2>6, ApplyKeepsCalls DEF Books
    <3>3. Len(audit) \in Nat /\ Len(audit) <= Len(calls)
      BY <2>0
    <3>4. AllowedCallsAreSpaced'
      BY <2>0, <3>1, <3>2, <3>3 DEF Spacing, AllowedCallsAreSpaced
    <3> QED BY <2>0, <3>1, <3>2, <3>3, <3>4, SMTT(30) DEF Spacing
  <2>7. CASE Tick
    <3>1. UNCHANGED <<lastWriteAt, writing, audit, calls, seq>> /\ now' = now + 1
      BY <2>7 DEF Tick, kernelVars
    <3>2. lastWriteAt \in Int /\ lastWriteAt <= now + 1
      BY <2>0 DEF Spacing, NoWrite
    <3>3. \A i \in 1..Len(calls) : calls[i].begun <= now + 1
      BY <2>0 DEF Spacing
    <3> QED BY <3>1, <3>2, <3>3 DEF Spacing, AllowedCallsAreSpaced
  <2> QED BY <2>1, <2>2, <2>3, <2>4, <2>5, <2>6, <2>7 DEF Next
<1>3. Spacing => AllowedCallsAreSpaced
  BY DEF Spacing
<1> QED BY <1>1, <1>2, <1>3, BooksAreKept, PTL DEF Spec

----------------------------------------------------------------------------
(* What is waiting to be sent or in flight is a part of a safe command. *)
PartOfSafe(f) ==
    \E cmd \in Commands :
        /\ Safe(prog, cmd)
        /\ DOMAIN f \subseteq DOMAIN cmd
        /\ \A s \in DOMAIN f : f[s] = cmd[s]

InFlight ==
    /\ \A f \in todo : PartOfSafe(f)
    /\ \A i \in 1..Len(net) : PartOfSafe(net[i].frame)

(* Nothing else ever waits or travels, frames of failed calls included. *)
THEOREM OnlySafeFrames == Spec => []InFlight
<1>1. Init => InFlight
  BY DEF Init, InFlight
<1>2. Books /\ Books' /\ InFlight /\ [Next]_vars => InFlight'
  <2> SUFFICES ASSUME Books, Books', InFlight, [Next]_vars PROVE InFlight'
    OBVIOUS
  <2>0. net \in Seq(Packet) /\ net' \in Seq(Packet) /\ prog' = prog
    BY DEF Books, Next, Refuse, Admit, Send, Acknowledge, LinkFails, Finish,
           Close, Apply, PlcScan, Tick, vars
  <2>1. \A f : PartOfSafe(f)' <=> PartOfSafe(f)
    BY <2>0 DEF PartOfSafe
  <2>2. ASSUME NEW cmd \in Commands, Admit(cmd) PROVE InFlight'
    <3>1. \A f \in FramesOf(cmd) : PartOfSafe(f)
      BY <2>2, VerdictOk, FramesTyped DEF Admit, PartOfSafe
    <3>2. todo' = FramesOf(cmd) /\ net' = net
      BY <2>2 DEF Admit
    <3> QED BY <2>1, <3>1, <3>2 DEF InFlight
  <2>3. CASE Send
    <3>1. PICK f \in todo : /\ todo' = todo \ {f}
                            /\ net' = Append(net, [call |-> seq, frame |-> f])
      BY <2>3 DEF Send
    <3>2. /\ Len(net') = Len(net) + 1
          /\ net'[Len(net) + 1].frame = f
          /\ \A i \in 1..Len(net) : net'[i] = net[i]
      BY <2>0, <3>1
    <3>3. \A i \in 1..Len(net') : PartOfSafe(net'[i].frame)
      BY <2>0, <3>1, <3>2 DEF InFlight
    <3>4. \A g \in todo' : PartOfSafe(g)
      BY <3>1 DEF InFlight
    <3> QED BY <2>1, <3>3, <3>4 DEF InFlight
  <2>4. CASE Apply
    <3>1. todo' = todo /\ net' = Tail(net) /\ net # <<>>
      BY <2>4 DEF Apply, kernelVars
    <3>2. Len(net') = Len(net) - 1 /\ \A i \in 1..Len(net') : net'[i] = net[i + 1]
      BY <2>0, <3>1
    <3>3. \A i \in 1..Len(net') : PartOfSafe(net'[i].frame)
      BY <2>0, <3>2 DEF InFlight
    <3> QED BY <2>1, <3>1, <3>3 DEF InFlight
  <2>5. CASE LinkFails \/ Close
    <3>1. todo' \subseteq todo /\ (net' = net \/ net' = <<>>)
      BY <2>5 DEF LinkFails, Close, kernelVars
    <3>2. CASE net' = net
      BY <2>1, <3>1, <3>2 DEF InFlight
    <3>3. CASE net' = <<>>
      BY <2>1, <3>1, <3>3 DEF InFlight
    <3> QED BY <3>1, <3>2, <3>3
  <2>6. ASSUME UNCHANGED <<todo, net>> PROVE InFlight'
    BY <2>1, <2>6 DEF InFlight
  <2>7. ASSUME NEW cmd \in Commands, Refuse(cmd) PROVE UNCHANGED <<todo, net>>
    BY <2>7 DEF Refuse
  <2>8. CASE Acknowledge \/ Finish \/ PlcScan \/ Tick \/ UNCHANGED vars
    BY <2>6, <2>8 DEF Acknowledge, Finish, PlcScan, Tick, vars, kernelVars
  <2> QED BY <2>2, <2>3, <2>4, <2>5, <2>6, <2>7, <2>8 DEF Next
<1> QED BY <1>1, <1>2, BooksAreKept, PTL DEF Spec

(* The two copies of the gate's checks are the same checks. *)
LEMMA SameSafe ==
    ASSUME NEW p, NEW cmd
    PROVE  Safe(p, cmd) <=> Gated!Safe(p, cmd)
<1>1. \A q, cur, v, nxt : IsScan(q, cur, v, nxt) <=> Gated!IsScan(q, cur, v, nxt)
  BY DEF IsScan, Gated!IsScan, CoilValue, Gated!CoilValue, Holds, Gated!Holds,
         Frame, Gated!Frame, Earlier, Gated!Earlier, Driven, Gated!Driven
<1>2. \A cur : DryRun(p, cur, cmd) = Gated!DryRun(p, cur, cmd)
  BY <1>1 DEF DryRun, Gated!DryRun, DryInputs, Gated!DryInputs, Driven,
              Gated!Driven, Free, Gated!Free
<1>3. DryRunImages(p, cmd) = Gated!DryRunImages(p, cmd)
  BY <1>2 DEF DryRunImages, Gated!DryRunImages, AllOff, Gated!AllOff, AllOn,
              Gated!AllOn, Driven, Gated!Driven
<1>4. BreaksInterlock(p, cmd) <=> Gated!BreaksInterlock(p, cmd)
  BY <1>3 DEF BreaksInterlock, Gated!BreaksInterlock, Clash, Gated!Clash
<1> QED BY <1>4 DEF Safe, Gated!Safe, Whitelisted, Gated!Whitelisted, WellTyped,
                    Gated!WellTyped, SynthesisRaises, Gated!SynthesisRaises

(* The kernel keeps its promise about the machine behind it: every change  *)
(* of the PLC's inputs is a part of one command that passes every check,   *)
(* with frames lost, late, or applied after the call was refused.          *)
THEOREM KernelRefinesGate == Spec => RefinesGatedPlc
<1>1. Init => Gated!Init
  BY DEF Init, Gated!Init, AllOff, Gated!AllOff, Driven, Gated!Driven
<1>2. Books /\ InFlight /\ [Next]_vars => [Gated!Next]_Gated!vars
  <2> SUFFICES ASSUME Books, InFlight, [Next]_vars
               PROVE  [Gated!Next]_Gated!vars
    OBVIOUS
  <2>1. CASE Apply
    <3> DEFINE f == Head(net).frame
    <3>1. net \in Seq(Packet) /\ net # <<>>
      BY <2>1 DEF Books, Apply
    <3>2. PartOfSafe(f)
      BY <3>1 DEF InFlight
    <3>3. /\ held' = [s \in Inputs |-> IF s \in DOMAIN f THEN f[s] ELSE held[s]]
          /\ UNCHANGED <<prog, image>>
      BY <2>1 DEF Apply
    <3> HIDE DEF f
    <3>4. PICK cmd \in Commands :
            Safe(prog, cmd) /\ DOMAIN f \subseteq DOMAIN cmd
              /\ \A s \in DOMAIN f : f[s] = cmd[s]
      BY <3>2 DEF PartOfSafe
    <3>5. Gated!Safe(prog, cmd)
      BY <3>4, SameSafe
    <3>6. held' = [s \in Inputs |-> IF s \in DOMAIN f THEN cmd[s] ELSE held[s]]
      BY <3>3, <3>4
    <3>7. Gated!Deliver
      BY <3>3, <3>4, <3>5, <3>6 DEF Gated!Deliver
    <3> QED BY <3>7 DEF Gated!Next
  <2>2. CASE PlcScan
    <3>1. PICK level \in Levels : \E v \in Valuations(Free(prog), level) :
            /\ \A s \in Inputs \cap Free(prog) : v[s] = held[s]
            /\ IsScan(prog, image, v, image')
      BY <2>2 DEF PlcScan
    <3>2. PICK v \in Valuations(Free(prog), level) :
            /\ \A s \in Inputs \cap Free(prog) : v[s] = held[s]
            /\ IsScan(prog, image, v, image')
      BY <3>1
    <3>3. Gated!IsScan(prog, image, v, image')
      BY <3>2 DEF IsScan, Gated!IsScan, CoilValue, Gated!CoilValue, Holds,
                  Gated!Holds, Frame, Gated!Frame, Earlier, Gated!Earlier,
                  Driven, Gated!Driven
    <3>4. /\ v \in Gated!Valuations(Gated!Free(prog), level)
          /\ \A s \in Inputs \cap Gated!Free(prog) : v[s] = held[s]
      BY <3>2 DEF Valuations, Gated!Valuations, Free, Gated!Free, Driven,
                  Gated!Driven
    <3>5. image' \in [Gated!Driven(prog) -> BOOLEAN] /\ UNCHANGED <<prog, held>>
      BY <2>2 DEF PlcScan, Driven, Gated!Driven
    <3>6. Gated!Scan
      BY <3>3, <3>4, <3>5 DEF Gated!Scan
    <3> QED BY <3>6 DEF Gated!Next
  <2>3. ASSUME UNCHANGED <<prog, held, image>> PROVE [Gated!Next]_Gated!vars
    BY <2>3 DEF Gated!vars
  <2>4. ASSUME NEW cmd \in Commands, Refuse(cmd) \/ Admit(cmd)
        PROVE  UNCHANGED <<prog, held, image>>
    BY <2>4 DEF Refuse, Admit
  <2>5. CASE Send \/ Acknowledge \/ LinkFails \/ Finish \/ Close \/ Tick
              \/ UNCHANGED vars
    <3>1. UNCHANGED <<prog, held, image>>
      BY <2>5 DEF Send, Acknowledge, LinkFails, Finish, Close, Tick, vars
    <3> QED BY <2>3, <3>1
  <2> QED BY <2>1, <2>2, <2>3, <2>4, <2>5 DEF Next
<1> QED BY <1>1, <1>2, BooksAreKept, OnlySafeFrames, PTL
        DEF Spec, RefinesGatedPlc, Gated!Spec

----------------------------------------------------------------------------
(* Where every frame of a call is: applied, in flight, or still to send.   *)
Sent(c) == {net[k].frame : k \in {m \in 1..Len(net) : net[m].call = c}}

Delivery ==
    /\ ~writing => todo = {} /\ ~awaiting
    /\ \A i \in 1..Len(calls) : calls[i].applied \subseteq FramesOf(calls[i].cmd)
    /\ \A k \in 1..Len(net) :
          /\ net[k].call \in 1..seq
          /\ net[k].frame \in FramesOf(calls[net[k].call].cmd)
    /\ writing =>
          /\ todo \subseteq FramesOf(calls[seq].cmd)
          /\ FramesOf(calls[seq].cmd) \subseteq calls[seq].applied \cup todo \cup Sent(seq)
          /\ ~awaiting => Sent(seq) = {}
    /\ AllowMeansDelivered

(* ALLOW is logged only when the PLC has applied every frame of the        *)
(* command and, for that call, nothing besides.                            *)
THEOREM AllowedCallsAreDelivered == Spec => []AllowMeansDelivered
<1>1. Init => Delivery
  BY DEF Init, Delivery, AllowMeansDelivered
<1>2. Books /\ Books' /\ Delivery /\ [Next]_vars => Delivery'
  <2> SUFFICES ASSUME Books, Books', Delivery, [Next]_vars PROVE Delivery'
    OBVIOUS
  <2>0. /\ seq \in Nat /\ Len(calls) = seq
        /\ Len(audit) = IF writing THEN seq - 1 ELSE seq
        /\ calls \in Seq(Call) /\ audit \in Seq(AuditEntry)
        /\ net \in Seq(Packet)
        /\ writing \in BOOLEAN /\ (writing => seq >= 1)
    BY DEF Books, AuditIsComplete
  <2>1. ASSUME NEW cmd \in Commands, Refuse(cmd) \/ Admit(cmd) PROVE Delivery'
    <3>1. /\ ~writing /\ todo = {} /\ ~awaiting /\ Len(audit) = seq
          /\ net' = net /\ awaiting' = awaiting /\ seq' = seq + 1
      BY <2>0, <2>1 DEF Refuse, Admit, Delivery
    <3>2. calls' = Append(calls, [cmd |-> cmd, begun |-> now, applied |-> {}])
      BY <2>1 DEF Refuse, Admit
    <3>3. /\ Len(calls') = seq + 1
          /\ calls'[seq + 1].applied = {} /\ calls'[seq + 1].cmd = cmd
          /\ \A i \in 1..seq : calls'[i] = calls[i]
      BY <2>0, <3>2
    <3>4. \A i \in 1..Len(calls') :
            calls'[i].applied \subseteq FramesOf(calls'[i].cmd)
      BY <2>0, <3>3 DEF Delivery
    <3>5. \A k \in 1..Len(net') :
            /\ net'[k].call \in 1..seq'
            /\ net'[k].frame \in FramesOf(calls'[net'[k].call].cmd)
      BY <2>0, <3>1, <3>3 DEF Delivery
    <3>6. Sent(seq)' = {}
      BY <2>0, <3>1 DEF Delivery, Sent
    <3>7. AllowMeansDelivered'
      <4>1. CASE Admit(cmd)
        BY <2>0, <3>1, <3>3, <4>1 DEF Admit, Delivery, AllowMeansDelivered
      <4>2. CASE Refuse(cmd)
        <5>1. /\ audit'[seq + 1].decision = "DENY" /\ Len(audit') = seq + 1
              /\ \A i \in 1..seq : audit'[i] = audit[i]
          BY <2>0, <3>1, <4>2 DEF Refuse, Entry
        <5> SUFFICES ASSUME NEW i \in 1..seq + 1, audit'[i].decision = "ALLOW"
                     PROVE  calls'[i].applied = FramesOf(calls'[i].cmd)
          BY <5>1 DEF AllowMeansDelivered
        <5>2. i \in 1..seq /\ audit[i].decision = "ALLOW"
          BY <2>0, <5>1
        <5> QED BY <3>1, <3>3, <5>2 DEF Delivery, AllowMeansDelivered
      <4> QED BY <2>1, <4>1, <4>2
    <3>8. CASE Admit(cmd)
      <4>1. writing' = TRUE /\ todo' = FramesOf(cmd)
        BY <3>8 DEF Admit
      <4> QED BY <3>1, <3>3, <3>4, <3>5, <3>6, <3>7, <4>1 DEF Delivery
    <3>9. CASE Refuse(cmd)
      <4>1. writing' = writing /\ todo' = todo
        BY <3>9 DEF Refuse
      <4> QED BY <3>1, <3>4, <3>5, <3>7, <4>1 DEF Delivery
    <3> QED BY <2>1, <3>8, <3>9
  <2>2. CASE Send
    <3>1. PICK f \in todo : /\ todo' = todo \ {f}
                            /\ net' = Append(net, [call |-> seq, frame |-> f])
      BY <2>2 DEF Send
    <3>2. /\ Len(net') = Len(net) + 1
          /\ net'[Len(net) + 1] = [call |-> seq, frame |-> f]
          /\ \A i \in 1..Len(net) : net'[i] = net[i]
      BY <2>0, <3>1
    <3>3. /\ writing /\ writing' = writing /\ ~awaiting /\ awaiting' = TRUE
          /\ UNCHANGED <<seq, calls, audit>>
      BY <2>2 DEF Send
    <3>4. \A k \in 1..Len(net') :
            /\ net'[k].call \in 1..seq
            /\ net'[k].frame \in FramesOf(calls[net'[k].call].cmd)
      BY <2>0, <3>1, <3>2, <3>3 DEF Delivery
    <3>5. f \in Sent(seq)'
      <4>1. Len(net) + 1 \in {m \in 1..Len(net') : net'[m].call = seq'}
        BY <2>0, <3>2, <3>3
      <4> QED BY <3>2, <3>3, <4>1 DEF Sent
    <3>6. FramesOf(calls[seq].cmd) \subseteq calls[seq].applied \cup todo' \cup Sent(seq)'
      BY <3>1, <3>3, <3>5 DEF Delivery
    <3>7. AllowMeansDelivered'
      BY <3>3 DEF Delivery, AllowMeansDelivered
    <3> QED BY <3>1, <3>3, <3>4, <3>6, <3>7 DEF Delivery
  <2>3. CASE Acknowledge
    <3>1. net = <<>> /\ UNCHANGED <<seq, calls, audit, todo, writing, net>> /\ awaiting' = FALSE
      BY <2>3 DEF Acknowledge
    <3>2. Sent(seq)' = {} /\ Sent(seq) = {}
      BY <3>1 DEF Sent
    <3> QED BY <3>1, <3>2 DEF Delivery, AllowMeansDelivered
  <2>4. CASE LinkFails
    <3>1. /\ audit' = Append(audit, Entry("DENY", "link", seq))
          /\ UNCHANGED <<seq, calls>> /\ writing' = FALSE /\ todo' = {}
          /\ awaiting' = FALSE /\ (net' = net \/ net' = <<>>)
      BY <2>4 DEF LinkFails
    <3>2. /\ Len(audit') = Len(audit) + 1
          /\ audit'[Len(audit) + 1].decision = "DENY"
          /\ \A i \in 1..Len(audit) : audit'[i] = audit[i]
      <4> DEFINE e == Entry("DENY", "link", seq)
      <4>1. e.decision = "DENY" /\ audit' = Append(audit, e)
        BY <3>1 DEF Entry
      <4> HIDE DEF e
      <4> QED BY <2>0, <4>1
    <3>3. AllowMeansDelivered'
      BY <2>0, <3>1, <3>2 DEF Delivery, AllowMeansDelivered
    <3>4. CASE net' = net
      BY <3>1, <3>3, <3>4 DEF Delivery
    <3>5. CASE net' = <<>>
      BY <3>1, <3>3, <3>5 DEF Delivery
    <3> QED BY <3>1, <3>4, <3>5
  <2>5. CASE Finish
    <3>1. /\ audit' = Append(audit, Entry("ALLOW", "ok", seq))
          /\ UNCHANGED <<seq, calls, net, todo, awaiting>>
          /\ writing /\ ~awaiting /\ todo = {} /\ writing' = FALSE
      BY <2>5 DEF Finish
    <3>2. /\ Len(audit') = seq /\ Len(audit) = seq - 1
          /\ \A i \in 1..Len(audit) : audit'[i] = audit[i]
      BY <2>0, <3>1
    <3>3. calls[seq].applied = FramesOf(calls[seq].cmd)
      <4>1. seq \in 1..Len(calls)
        BY <2>0, <3>1
      <4>2. calls[seq].applied \subseteq FramesOf(calls[seq].cmd)
        BY <4>1 DEF Delivery
      <4>3. FramesOf(calls[seq].cmd) \subseteq calls[seq].applied
        BY <3>1 DEF Delivery
      <4> QED BY <4>2, <4>3
    <3>4. AllowMeansDelivered'
      <4> SUFFICES ASSUME NEW i \in 1..seq, audit'[i].decision = "ALLOW"
                   PROVE  calls[i].applied = FramesOf(calls[i].cmd)
        BY <3>1, <3>2 DEF AllowMeansDelivered
      <4>1. CASE i = seq
        BY <3>3, <4>1
      <4>2. CASE i # seq
        <5>1. i \in 1..Len(audit) /\ audit[i].decision = "ALLOW"
          BY <2>0, <3>2, <4>2
        <5> QED BY <5>1 DEF Delivery, AllowMeansDelivered
      <4> QED BY <4>1, <4>2
    <3> QED BY <3>1, <3>4 DEF Delivery
  <2>6. CASE Close
    <3>1. /\ ~writing /\ (net' = net \/ net' = <<>>)
          /\ UNCHANGED <<seq, calls, audit, todo, awaiting, writing>>
      BY <2>6 DEF Close, kernelVars
    <3>2. CASE net' = net
      BY <3>1, <3>2 DEF Delivery, AllowMeansDelivered
    <3>3. CASE net' = <<>>
      BY <3>1, <3>3 DEF Delivery, AllowMeansDelivered
    <3> QED BY <3>1, <3>2, <3>3
  <2>7. CASE Apply
    <3> DEFINE c == Head(net).call
               f == Head(net).frame
    <3>1. /\ net # <<>> /\ net' = Tail(net)
          /\ UNCHANGED <<seq, audit, todo, writing, awaiting>>
      BY <2>7 DEF Apply, kernelVars
    <3>2. /\ Len(calls') = Len(calls)
          /\ \A i \in 1..Len(calls) :
                /\ calls'[i].cmd = calls[i].cmd
                /\ calls'[i].applied = IF i = c THEN calls[i].applied \cup {f}
                                       ELSE calls[i].applied
      BY <2>0, <2>7, ApplyKeepsCalls
    <3>3. c \in 1..seq /\ f \in FramesOf(calls[c].cmd)
      BY <2>0, <3>1 DEF Delivery
    <3>4. /\ Len(net') = Len(net) - 1 /\ Len(net) >= 1
          /\ \A k \in 1..Len(net') : net'[k] = net[k + 1]
          /\ net[1].call = c /\ net[1].frame = f
      BY <2>0, <3>1
    <3> HIDE DEF c, f
    <3>5. \A i \in 1..Len(calls') :
            calls'[i].applied \subseteq FramesOf(calls'[i].cmd)
      BY <3>2, <3>3 DEF Delivery
    <3>6. \A k \in 1..Len(net') :
            /\ net'[k].call \in 1..seq
            /\ net'[k].frame \in FramesOf(calls'[net'[k].call].cmd)
      <4> SUFFICES ASSUME NEW k \in 1..Len(net')
                   PROVE  /\ net'[k].call \in 1..seq
                          /\ net'[k].frame \in FramesOf(calls'[net'[k].call].cmd)
        OBVIOUS
      <4>1. k + 1 \in 1..Len(net) /\ net'[k] = net[k + 1]
        BY <2>0, <3>4
      <4> QED BY <2>0, <3>2, <4>1, ZenonT(30) DEF Delivery
    <3>7. Sent(seq) \subseteq Sent(seq)' \cup (IF c = seq THEN {f} ELSE {})
      <4> SUFFICES ASSUME NEW k \in 1..Len(net), net[k].call = seq
                   PROVE  net[k].frame \in Sent(seq)' \cup (IF c = seq THEN {f} ELSE {})
        BY DEF Sent
      <4>1. CASE k = 1
        BY <3>4, <4>1
      <4>2. CASE k # 1
        <5>1. k - 1 \in 1..Len(net') /\ net'[k - 1] = net[k]
          BY <2>0, <3>4, <4>2
        <5> QED BY <3>1, <5>1 DEF Sent
      <4> QED BY <4>1, <4>2
    <3>8. Sent(seq)' \subseteq Sent(seq)
      <4> SUFFICES ASSUME NEW k \in 1..Len(net'), net'[k].call = seq
                   PROVE  net'[k].frame \in Sent(seq)
        BY <3>1 DEF Sent
      <4>1. k + 1 \in 1..Len(net) /\ net'[k] = net[k + 1]
        BY <2>0, <3>4
      <4> QED BY <4>1 DEF Sent
    <3>9. AllowMeansDelivered'
      <4> SUFFICES ASSUME NEW i \in 1..Len(audit), audit[i].decision = "ALLOW"
                   PROVE  calls'[i].applied = FramesOf(calls'[i].cmd)
        BY <3>1 DEF AllowMeansDelivered
      <4>1. i \in 1..Len(calls)
        BY <2>0
      <4>2. calls[i].applied = FramesOf(calls[i].cmd)
        BY DEF Delivery, AllowMeansDelivered
      <4> QED BY <3>2, <3>3, <4>1, <4>2
    <3>10. writing =>
             /\ todo \subseteq FramesOf(calls'[seq].cmd)
             /\ FramesOf(calls'[seq].cmd)
                   \subseteq calls'[seq].applied \cup todo \cup Sent(seq)'
             /\ ~awaiting => Sent(seq)' = {}
      <4> SUFFICES ASSUME writing
                   PROVE  /\ todo \subseteq FramesOf(calls'[seq].cmd)
                          /\ FramesOf(calls'[seq].cmd)
                                \subseteq calls'[seq].applied \cup todo \cup Sent(seq)'
                          /\ ~awaiting => Sent(seq)' = {}
        OBVIOUS
      <4>1. seq \in 1..Len(calls)
        BY <2>0
      <4> QED BY <3>2, <3>7, <3>8, <4>1 DEF Delivery
    <3> QED BY <3>1, <3>5, <3>6, <3>9, <3>10 DEF Delivery
  <2>8. CASE PlcScan \/ Tick \/ UNCHANGED vars
    <3>1. UNCHANGED <<seq, calls, audit, todo, writing, awaiting, net>>
      BY <2>8 DEF PlcScan, Tick, vars, kernelVars
    <3>2. Sent(seq)' = Sent(seq)
      BY <3>1 DEF Sent
    <3> QED BY <3>1, <3>2 DEF Delivery, AllowMeansDelivered
  <2> QED BY <2>1, <2>2, <2>3, <2>4, <2>5, <2>6, <2>7, <2>8 DEF Next
<1>3. Delivery => AllowMeansDelivered
  BY DEF Delivery
<1> QED BY <1>1, <1>2, <1>3, BooksAreKept, PTL DEF Spec

----------------------------------------------------------------------------
(* The condition under which the dry run predicts the PLC: a command that  *)
(* is let through mentions every input, all of them travel in one frame,   *)
(* and no coil writes an input.                                            *)
CompleteCommands ==
    /\ \A cmd \in Commands : DOMAIN cmd \subseteq Inputs => DOMAIN cmd = Inputs
    /\ Inputs \in Blocks
    /\ \A p \in Programs : Inputs \subseteq Free(p)

(* What a scan of a combinational program makes of the inputs depends on   *)
(* nothing but the inputs.                                                 *)
LEMMA SameImage ==
    ASSUME NEW p, Combinational(p), Inputs \subseteq Free(p),
           NEW cur1, NEW cur2, NEW ins1, NEW ins2, NEW nxt,
           \A s \in Inputs : ins1[s] = ins2[s],
           IsScan(p, cur1, ins1, nxt)
    PROVE  IsScan(p, cur2, ins2, nxt)
<1> SUFFICES ASSUME NEW o \in Driven(p)
             PROVE  nxt[o] = CoilValue(p.coil[o], o, Frame(p, o, cur2, ins2, nxt))
  BY DEF IsScan
<1> DEFINE t1 == Frame(p, o, cur1, ins1, nxt)
           t2 == Frame(p, o, cur2, ins2, nxt)
           c == p.coil[o]
<1>1. \A s \in Inputs : t1[s] = t2[s]
  BY GateAssumption DEF Frame, Free
<1>2. /\ ~c.seal /\ c.guards = {}
      /\ \A t \in c.on \cup c.cut : t.on \cup t.off \subseteq Inputs
  BY DEF Combinational
<1>3. nxt[o] = CoilValue(c, o, t1)
  BY DEF IsScan
<1> HIDE DEF t1, t2, c
<1>4. Holds(c.on, t1) <=> Holds(c.on, t2)
  BY <1>1, <1>2 DEF Holds
<1>5. Holds(c.cut, t1) <=> Holds(c.cut, t2)
  BY <1>1, <1>2 DEF Holds
<1>6. CoilValue(c, o, t1) = CoilValue(c, o, t2)
  BY <1>2, <1>4, <1>5 DEF CoilValue
<1> QED BY <1>3, <1>6 DEF t2, c

(* A PLC that holds exactly the inputs of a command the dry run passes     *)
(* scans to an image without a clash.                                      *)
LEMMA PredictedScanIsSafe ==
    ASSUME NEW p, Combinational(p), Inputs \subseteq Free(p),
           NEW cmd \in [Inputs -> BOOLEAN], Safe(p, cmd),
           NEW cur, NEW ins, \A s \in Inputs : ins[s] = cmd[s],
           NEW nxt \in [Driven(p) -> BOOLEAN], IsScan(p, cur, ins, nxt)
    PROVE  \A lock \in p.locks : ~Clash(lock, nxt)
<1>1. \A s \in Inputs : DryInputs(p, cmd)[s] = ins[s]
  BY DEF DryInputs
<1>2. IsScan(p, AllOff(Driven(p)), DryInputs(p, cmd), nxt)
  BY <1>1, SameImage
<1>3. nxt \in DryRunImages(p, cmd)
  BY <1>2 DEF DryRun, DryRunImages
<1> QED BY <1>3 DEF Safe, BreaksInterlock

(* Frames of complete commands are whole commands. *)
Unsplit ==
    /\ \A f \in todo : DOMAIN f = Inputs
    /\ \A i \in 1..Len(net) : DOMAIN net[i].frame = Inputs

(* The PLC never holds a mixture of two commands. *)
HeldIsSafe ==
    Combinational(prog) /\ Safe(prog, AllOff(Inputs)) =>
        /\ held \in [Inputs -> BOOLEAN] /\ Safe(prog, held)
        /\ \A lock \in prog.locks : ~Clash(lock, image)

(* A complete command that is admitted travels as it is. *)
LEMMA UnsplitStep ==
    ASSUME CompleteCommands, Books, Books', Unsplit, [Next]_vars
    PROVE  Unsplit'
<1>0. net \in Seq(Packet) /\ net' \in Seq(Packet)
  BY DEF Books
<1>1. ASSUME NEW cmd \in Commands, Admit(cmd) PROVE Unsplit'
  <2>1. Safe(prog, cmd)
    BY <1>1, VerdictOk DEF Admit
  <2>2. DOMAIN cmd = Inputs
    BY <2>1 DEF Safe, Whitelisted, CompleteCommands
  <2>3. FramesOf(cmd) = {cmd}
    BY <2>2 DEF FramesOf, CompleteCommands
  <2> QED BY <1>1, <2>2, <2>3 DEF Admit, Unsplit
<1>2. CASE Send
  <2>1. PICK f \in todo : /\ todo' = todo \ {f}
                          /\ net' = Append(net, [call |-> seq, frame |-> f])
    BY <1>2 DEF Send
  <2>2. /\ Len(net') = Len(net) + 1
        /\ net'[Len(net) + 1].frame = f
        /\ \A i \in 1..Len(net) : net'[i] = net[i]
    BY <1>0, <2>1
  <2>3. \A i \in 1..Len(net') : DOMAIN net'[i].frame = Inputs
    BY <1>0, <2>1, <2>2 DEF Unsplit
  <2> QED BY <2>1, <2>3 DEF Unsplit
<1>3. CASE Apply
  <2>1. todo' = todo /\ net' = Tail(net) /\ net # <<>>
    BY <1>3 DEF Apply, kernelVars
  <2>2. Len(net') = Len(net) - 1 /\ \A i \in 1..Len(net') : net'[i] = net[i + 1]
    BY <1>0, <2>1
  <2>3. \A i \in 1..Len(net') : DOMAIN net'[i].frame = Inputs
    BY <1>0, <2>2 DEF Unsplit
  <2> QED BY <2>1, <2>3 DEF Unsplit
<1>4. ASSUME todo' \subseteq todo, net' = net \/ net' = <<>> PROVE Unsplit'
  <2>1. CASE net' = net
    BY <1>4, <2>1 DEF Unsplit
  <2>2. CASE net' = <<>>
    BY <1>4, <2>2 DEF Unsplit
  <2> QED BY <1>4, <2>1, <2>2
<1>5. ASSUME NEW cmd \in Commands, Refuse(cmd) PROVE Unsplit'
  BY <1>4, <1>5 DEF Refuse
<1>6. CASE Acknowledge \/ LinkFails \/ Finish \/ Close \/ PlcScan \/ Tick \/ UNCHANGED vars
  <2>1. todo' \subseteq todo /\ (net' = net \/ net' = <<>>)
    BY <1>6 DEF Acknowledge, LinkFails, Finish, Close, PlcScan, Tick, vars, kernelVars
  <2> QED BY <1>4, <2>1
<1> QED BY <1>1, <1>2, <1>3, <1>5, <1>6 DEF Next

(* For combinational programs, when commands are complete and travel in    *)
(* one frame, the dry run of the checks keeps every interlock on the PLC,  *)
(* however the link loses or delays frames.                                *)
THEOREM CompleteCommandsAreSafe ==
    ASSUME CompleteCommands
    PROVE  Spec => []CompleteCommandsKeepInterlocks
<1>1. Init => Unsplit /\ HeldIsSafe
  <2> SUFFICES ASSUME Init PROVE Unsplit /\ HeldIsSafe
    OBVIOUS
  <2>1. todo = {} /\ Len(net) = 0 /\ held = AllOff(Inputs) /\ image = AllOff(Driven(prog))
    BY DEF Init
  <2>2. held \in [Inputs -> BOOLEAN]
    BY <2>1 DEF AllOff
  <2>3. \A lock : ~Clash(lock, image)
    BY <2>1 DEF AllOff, Clash
  <2> QED BY <2>1, <2>2, <2>3 DEF Unsplit, HeldIsSafe
<1>2. HeldIsSafe /\ Books /\ InFlight /\ Unsplit /\ [Next]_vars => HeldIsSafe'
  <2> SUFFICES ASSUME HeldIsSafe, Books, InFlight, Unsplit, [Next]_vars,
                      Combinational(prog'), Safe(prog', AllOff(Inputs))
               PROVE  /\ held' \in [Inputs -> BOOLEAN] /\ Safe(prog', held')
                      /\ \A lock \in prog'.locks : ~Clash(lock, image')
    BY DEF HeldIsSafe
  <2>1. prog' = prog /\ prog \in Programs /\ Inputs \subseteq Free(prog)
    BY DEF Books, CompleteCommands, Next, Refuse, Admit, Send, Acknowledge,
           LinkFails, Finish, Close, Apply, PlcScan, Tick, vars
  <2>2. /\ held \in [Inputs -> BOOLEAN] /\ Safe(prog, held)
        /\ \A lock \in prog.locks : ~Clash(lock, image)
    BY <2>1 DEF HeldIsSafe
  <2>3. CASE Apply
    <3>1. net \in Seq(Packet) /\ net # <<>> /\ image' = image
      BY <2>3 DEF Apply, Books
    <3>2. 1 \in 1..Len(net) /\ Head(net) = net[1]
      BY <3>1
    <3> DEFINE f == Head(net).frame
    <3>3. DOMAIN f = Inputs /\ PartOfSafe(f)
      BY <3>2 DEF Unsplit, InFlight
    <3>4. held' = [s \in Inputs |-> f[s]]
      BY <2>3, <3>3 DEF Apply
    <3> HIDE DEF f
    <3>5. PICK cmd \in Commands : /\ Safe(prog, cmd)
                                  /\ DOMAIN f \subseteq DOMAIN cmd
                                  /\ \A s \in DOMAIN f : f[s] = cmd[s]
      BY <3>3 DEF PartOfSafe
    <3>6. /\ DOMAIN cmd = Inputs /\ cmd = [s \in Inputs |-> cmd[s]]
          /\ \A s \in Inputs : cmd[s] \in BOOLEAN
      <4>1. DOMAIN cmd = Inputs
        BY <3>5 DEF Safe, Whitelisted, CompleteCommands
      <4>2. cmd = [s \in DOMAIN cmd |-> cmd[s]]
        BY GateAssumption
      <4> QED BY <3>5, <4>1, <4>2 DEF Safe, WellTyped
    <3>7. held' = cmd
      BY <3>3, <3>4, <3>5, <3>6
    <3>8. cmd \in [Inputs -> BOOLEAN]
      BY <3>6
    <3> QED BY <2>1, <2>2, <3>1, <3>5, <3>7, <3>8
  <2>4. CASE PlcScan
    <3>1. PICK level \in Levels : \E i \in Valuations(Free(prog), level) :
              /\ \A s \in Inputs \cap Free(prog) : i[s] = held[s]
              /\ IsScan(prog, image, i, image')
      BY <2>4 DEF PlcScan
    <3>2. PICK ins : /\ \A s \in Inputs \cap Free(prog) : ins[s] = held[s]
                     /\ IsScan(prog, image, ins, image')
      BY <3>1
    <3>3. image' \in [Driven(prog) -> BOOLEAN] /\ held' = held
      BY <2>4 DEF PlcScan
    <3>4. \A s \in Inputs : ins[s] = held[s]
      BY <2>1, <3>2
    <3>5. \A lock \in prog.locks : ~Clash(lock, image')
      BY <2>1, <2>2, <3>2, <3>3, <3>4, PredictedScanIsSafe
    <3> QED BY <2>1, <2>2, <3>3, <3>5
  <2>5. CASE UNCHANGED <<held, image>>
    BY <2>1, <2>2, <2>5
  <2>6. ASSUME NEW cmd \in Commands, Refuse(cmd) \/ Admit(cmd)
        PROVE  UNCHANGED <<held, image>>
    BY <2>6 DEF Refuse, Admit
  <2>7. CASE Send \/ Acknowledge \/ LinkFails \/ Finish \/ Close \/ Tick \/ UNCHANGED vars
    BY <2>5, <2>7 DEF Send, Acknowledge, LinkFails, Finish, Close, Tick, vars
  <2> QED BY <2>3, <2>4, <2>5, <2>6, <2>7 DEF Next
<1>3. Unsplit /\ Books /\ Books' /\ [Next]_vars => Unsplit'
  BY UnsplitStep
<1>4. HeldIsSafe => CompleteCommandsKeepInterlocks
  BY DEF HeldIsSafe, CompleteCommandsKeepInterlocks
<1> QED BY <1>1, <1>2, <1>3, <1>4, BooksAreKept, OnlySafeFrames, PTL DEF Spec
=============================================================================
