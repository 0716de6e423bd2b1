------------------------------ MODULE PlcLinks ------------------------------
(***************************************************************************)
(* The links of app/comms between symbols and the bits of a PLC:           *)
(* ModbusPlcLink, FenetPlcLink and MelsecPlcLink with the maps they make   *)
(* from the symbols of a specification, the requests write_inputs and      *)
(* read_outputs send, and the device that executes them (the slaves        *)
(* of the three modules).  Between two requests the PLC may scan.          *)
(*                                                                         *)
(* Symbols are their positions in the sorted list.  A call that gives up   *)
(* leaves its request and the answer on the connection: the device may     *)
(* execute the one and send the other at any later time.  Modbus and FEnet *)
(* take only the answer with their id, MELSEC the next that comes.  Ids    *)
(* and headers are FieldClient's subject.                                  *)
(***************************************************************************)
EXTENDS Integers, Sequences

CONSTANTS
    Families,      \* the links: "modbus", "fenet", "melsec"
    NIn, NOut,     \* input and output symbols
    OutputBase,    \* first output device (FEnet 16, MELSEC 1000)
    MaxBlocks,     \* names in one FEnet request (16)
    MaxBits,       \* bits in one Modbus read (2000)
    MaxWriteBits,  \* coils in one Modbus write (0x07B0)
    ByteBits,      \* bits the Modbus packing puts in a byte (8)
    Commands,      \* what write_inputs is called with; NIn + 1 is unmapped
    MaxLate        \* requests of earlier calls that are still on the wire

LinkAssumption ==
    /\ Families \subseteq {"modbus", "fenet", "melsec"}
    /\ {NIn, NOut, MaxBlocks, MaxBits, MaxWriteBits, ByteBits} \subseteq Nat \ {0}
    /\ {OutputBase, MaxLate} \subseteq Nat
    /\ \A cmd \in Commands : DOMAIN cmd \subseteq 1..NIn + 1 /\ cmd \in [DOMAIN cmd -> BOOLEAN]

VARIABLES
    family,     \* which link it is, fixed
    kind,       \* Modbus: outputs are read as "coil" or "discrete", fixed
    on,         \* devices that are ON
    sent,       \* requests on the connection the device has not executed
    replies,    \* its answers the client has not read
    asked,      \* the call has sent a request and reads for the answer
    call,       \* "idle", "write" or "read"
    todo,       \* requests of the call not yet answered
    values,     \* the command being written
    got,        \* bits read so far
    result,     \* how the last call ended
    written,    \* inputs whose last write call returned, with its values
    seen        \* output images the PLC has had since the read began

line == <<sent, replies, asked>>
calling == <<call, todo, values, got, result, written>>
linkVars == <<family, kind, on, line, calling, seen>>

Inputs == 1..NIn
Outputs == 1..NOut
Unmapped == NIn + 1

(* The default maps: AddressMap, FenetMap, MelsecMap.                      *)
ModbusInput(i) == [area |-> "coil", at |-> i - 1]
ModbusOutput(o) == [area |-> IF kind = "discrete" THEN "discrete" ELSE "coil", at |-> o - 1]
FenetInput(i) == [area |-> "%MX", at |-> i - 1]
FenetOutput(o) == [area |-> "%MX", at |-> OutputBase + o - 1]
MelsecInput(i) == [area |-> "M", at |-> i - 1]
MelsecOutput(o) == [area |-> "M", at |-> OutputBase + o - 1]

InputOf(i) ==
    CASE family = "modbus" -> ModbusInput(i)
      [] family = "fenet"  -> FenetInput(i)
      [] family = "melsec" -> MelsecInput(i)

OutputOf(o) ==
    CASE family = "modbus" -> ModbusOutput(o)
      [] family = "fenet"  -> FenetOutput(o)
      [] family = "melsec" -> MelsecOutput(o)

----------------------------------------------------------------------------
(* Bits travel in bytes; a byte is the set of its bits that are 1.         *)

(* pack_bits: bit i is bit i % 8 of byte i \div 8. *)
PackBits(bits) ==
    [b \in 1..(Len(bits) + ByteBits - 1) \div ByteBits |->
        {j \in 0..ByteBits - 1 : /\ ByteBits * (b - 1) + j < Len(bits)
                                 /\ bits[ByteBits * (b - 1) + j + 1]}]

(* Mutation: the first bit is the highest one of its byte. *)
UnpackBitsHighFirst(bytes, count) ==
    [i \in 1..count |->
        /\ (i - 1) \div ByteBits < Len(bytes)
        /\ ByteBits - 1 - ((i - 1) % ByteBits) \in bytes[(i - 1) \div ByteBits + 1]]

UnpackBits(bytes, count) ==
    [i \in 1..count |->
        /\ (i - 1) \div ByteBits < Len(bytes)
        /\ (i - 1) % ByteBits \in bytes[(i - 1) \div ByteBits + 1]]

(* pack_bits_nibble: two points in a byte, the even one in the high half.  *)
Half(i) == IF i % 2 = 0 THEN 4 ELSE 0

PackNibbles(bits) ==
    [b \in 1..(Len(bits) + 1) \div 2 |->
        {Half(i) : i \in {n \in 0..Len(bits) - 1 : n \div 2 = b - 1 /\ bits[n + 1]}}]

UnpackNibbles(bytes, count) ==
    [i \in 1..count |-> Half(i - 1) \in bytes[(i - 1) \div 2 + 1]]

----------------------------------------------------------------------------
(* A request: an operation on `count` devices from `first` on, or on the   *)
(* devices named (FEnet).                                                  *)
Span(first, count) == [j \in 1..count |-> [first EXCEPT !.at = @ + j - 1]]

Write(devices, bytes) == [op |-> "write", devices |-> devices, bytes |-> bytes]
Read(devices) == [op |-> "read", devices |-> devices, bytes |-> <<>>]

(* The symbols of a command, in order. *)
Sorted(S) ==
    CHOOSE s \in UNION {[1..n -> S] : n \in 0..NIn} :
        /\ \A i \in S : \E j \in DOMAIN s : s[j] = i
        /\ \A j, l \in DOMAIN s : j < l => s[j] < s[l]

(* write_inputs of Modbus: contiguous coils in one FC0F, else one FC05     *)
(* each.                                                                   *)
ModbusWrites(cmd) ==
    LET ins == Sorted(DOMAIN cmd)
        n == Len(ins)
    IN  IF n > 1 /\ ins[n] - ins[1] = n - 1
        THEN <<Write(Span(ModbusInput(ins[1]), n), PackBits([j \in 1..n |-> cmd[ins[j]]]))>>
        ELSE [j \in 1..n |-> Write(<<ModbusInput(ins[j])>>, PackBits(<<cmd[ins[j]]>>))]

(* write_inputs of FEnet: one request per symbol, the byte 0x00 or 0x01.   *)
FenetWrites(cmd) ==
    LET ins == Sorted(DOMAIN cmd)
    IN  [j \in 1..Len(ins) |->
            Write(<<FenetInput(ins[j])>>, <<IF cmd[ins[j]] THEN {0} ELSE {}>>)]

(* write_inputs of MELSEC: one request of one point per symbol.            *)
MelsecWrites(cmd) ==
    LET ins == Sorted(DOMAIN cmd)
    IN  [j \in 1..Len(ins) |-> Write(<<MelsecInput(ins[j])>>, PackNibbles(<<cmd[ins[j]]>>))]

WritesOf(cmd) ==
    CASE family = "modbus" -> ModbusWrites(cmd)
      [] family = "fenet"  -> FenetWrites(cmd)
      [] family = "melsec" -> MelsecWrites(cmd)

(* read_outputs: Modbus reads the span of all outputs, FEnet names all of  *)
(* them in one request, MELSEC asks for one after the other.               *)
ModbusReads == <<Read(Span(ModbusOutput(1), NOut))>>
FenetReads == <<Read([o \in Outputs |-> FenetOutput(o)])>>
MelsecReads == [o \in Outputs |-> Read(<<MelsecOutput(o)>>)]

ReadsOf ==
    CASE family = "modbus" -> ModbusReads
      [] family = "fenet"  -> FenetReads
      [] family = "melsec" -> MelsecReads

(* The limits the request builders check before they send. *)
TooLong(request) ==
    LET count == Len(request.devices)
    IN  \/ family = "fenet" /\ count > MaxBlocks
        \/ family = "modbus" /\ count > (IF request.op = "read" THEN MaxBits ELSE MaxWriteBits)

(* Bits in the bytes of a frame: what the device and the client decode,    *)
(* and the data the device answers with.                                   *)
Decoded(bytes, count) ==
    CASE family = "modbus" -> UnpackBits(bytes, count)
      [] family = "fenet"  -> [j \in 1..count |-> bytes[j] # {}]
      [] family = "melsec" -> UnpackNibbles(bytes, count)

Encoded(bits) ==
    CASE family = "modbus" -> PackBits(bits)
      [] family = "fenet"  -> [j \in DOMAIN bits |-> IF bits[j] THEN {0} ELSE {}]
      [] family = "melsec" -> PackNibbles(bits)

DecodedWrite(request) == Decoded(request.bytes, Len(request.devices))

WriteDevices(request) ==
    LET bits == DecodedWrite(request)
        at(v) == {request.devices[j] : j \in {i \in DOMAIN bits : bits[i] = v}}
    IN  (on \ at(FALSE)) \cup at(TRUE)

ReadBytes(request) ==
    Encoded([j \in DOMAIN request.devices |-> request.devices[j] \in on])

----------------------------------------------------------------------------
ImageOf(devices) == {o \in Outputs : OutputOf(o) \in devices}

Init ==
    /\ family \in Families
    /\ kind \in {"coil", "discrete"} /\ (family # "modbus" => kind = "coil")
    /\ on = {} /\ sent = <<>> /\ replies = <<>> /\ asked = FALSE
    /\ call = "idle" /\ todo = <<>>
    /\ values = <<>> /\ got = <<>> /\ result = "none"
    /\ written = <<>> /\ seen = {}

(* write_inputs(): an empty command returns, an unmapped symbol is refused *)
(* before anything is sent, and so are more coils than one request takes.  *)
WriteInputs(cmd) ==
    /\ call = "idle"
    /\ IF \/ DOMAIN cmd = {} \/ Unmapped \in DOMAIN cmd
          \/ \E j \in DOMAIN WritesOf(cmd) : TooLong(WritesOf(cmd)[j])
       THEN /\ result' = CASE DOMAIN cmd = {} -> "ok"
                           [] Unmapped \in DOMAIN cmd -> "rejected"
                           [] OTHER -> "raised"
            /\ UNCHANGED <<call, values, todo>>
       ELSE /\ call' = "write" /\ values' = cmd /\ todo' = WritesOf(cmd)
            /\ result' = "none"
    /\ got' = <<>> /\ seen' = {}
    /\ UNCHANGED <<on, line, written>>

(* read_outputs(): a request over the limit raises ValueError. *)
ReadOutputs ==
    /\ call = "idle"
    /\ got' = <<>> /\ seen' = {ImageOf(on)}
    /\ IF \E j \in DOMAIN ReadsOf : TooLong(ReadsOf[j])
       THEN result' = "raised" /\ UNCHANGED <<call, todo>>
       ELSE call' = "read" /\ todo' = ReadsOf /\ result' = "none"
    /\ UNCHANGED <<on, line, values, written>>

(* _transaction(), first half: the request goes out. *)
Send ==
    /\ todo # <<>> /\ ~asked /\ Len(sent) + Len(replies) <= MaxLate
    /\ sent' = Append(sent, Head(todo)) /\ asked' = TRUE
    /\ UNCHANGED <<on, replies, calling, seen>>

Watched == seen' = IF call = "read" THEN seen \cup {ImageOf(on')} ELSE seen

(* The device takes the next request of the connection and executes it, or *)
(* refuses it, and answers.                                                *)
Serve ==
    /\ sent # <<>> /\ sent' = Tail(sent)
    /\ LET request == Head(sent)
       IN  \/ /\ on' = IF request.op = "write" THEN WriteDevices(request) ELSE on
              /\ LET data == IF request.op = "read" THEN ReadBytes(request) ELSE <<>>
                 IN  replies' = Append(replies, [ok |-> TRUE, bytes |-> data])
           \/ on' = on /\ replies' = Append(replies, [ok |-> FALSE, bytes |-> <<>>])
    /\ Watched
    /\ UNCHANGED <<asked, calling>>

Return(outcome, now) ==
    call' = "idle" /\ result' = outcome /\ written' = now /\ values' = <<>>

(* The inputs written so far, with the command that has gone through. *)
Updated ==
    [i \in DOMAIN values \cup DOMAIN written |->
        IF i \in DOMAIN values THEN values[i] ELSE written[i]]

(* The call raises: the inputs of its command are uncertain. *)
Fail ==
    /\ todo' = <<>> /\ got' = <<>> /\ seen' = {}
    /\ Return("failed", [i \in DOMAIN written \ DOMAIN values |-> written[i]])

(* Mutation: any answer will do, on every link. *)
HasAnswerNoId == asked /\ replies # <<>>

(* _transaction(), second half: the next answer is one the client takes.   *)
(* The answer to its own request is the last on the connection; a 3E frame *)
(* has no id to tell it by.                                                *)
HasAnswer ==
    /\ asked /\ replies # <<>>
    /\ family # "melsec" => Len(replies) + Len(sent) = 1

(* read_bits() wants data in the answer to a read. *)
GoodAnswer == Head(replies).ok /\ (Head(todo).op = "read" => Head(replies).bytes # <<>>)

(* The answer is taken; the last one ends the call. *)
TakeReply ==
    /\ HasAnswer /\ GoodAnswer
    /\ replies' = Tail(replies) /\ asked' = FALSE
    /\ got' = IF call = "read"
              THEN got \o Decoded(Head(replies).bytes, Len(Head(todo).devices)) ELSE got
    /\ todo' = Tail(todo)
    /\ \/ Len(todo) > 1 /\ UNCHANGED <<call, result, written, values>>
       \/ Len(todo) = 1 /\ call = "read" /\ Return("read", written)
       \/ Len(todo) = 1 /\ call = "write" /\ Return("ok", Updated)
    /\ UNCHANGED <<on, sent, seen>>

(* The answer is a refusal, or too short: it is read, and the call raises. *)
Refused ==
    /\ HasAnswer /\ ~GoodAnswer
    /\ replies' = Tail(replies) /\ asked' = FALSE
    /\ Fail
    /\ UNCHANGED <<on, sent>>

(* The transaction fails without its answer: nothing could be sent, nothing*)
(* came in time, or what came was not its own.  Whatever is on the         *)
(* connection stays there.                                                 *)
LinkFails ==
    /\ todo # <<>>
    /\ asked' = FALSE
    /\ Fail
    /\ UNCHANGED <<on, sent, replies>>

(* The PLC scans: its program sets every output device. *)
PlcScan ==
    \E now \in SUBSET Outputs :
        /\ on' = (on \ {OutputOf(o) : o \in Outputs}) \cup {OutputOf(o) : o \in now}
        /\ Watched
        /\ UNCHANGED <<line, calling>>

Next ==
    /\ \/ \E cmd \in Commands : WriteInputs(cmd)
       \/ ReadOutputs \/ Send \/ Serve \/ TakeReply \/ Refused \/ LinkFails \/ PlcScan
    /\ UNCHANGED <<family, kind>>

Spec == Init /\ [][Next]_linkVars

----------------------------------------------------------------------------
(* Requests and answers of calls that have given up.                       *)
Late == Len(sent) + Len(replies) - (IF asked THEN 1 ELSE 0)

(* What a link without ids says holds until a call leaves something behind.*)
InStep == family = "melsec" => Late = 0

(* Between two calls every input whose last write returned still has at    *)
(* its device the value written: no other symbol shares the device, and    *)
(* neither a later request of the same command nor a late one of a call    *)
(* that failed has touched it.  Not for inputs at a device the PLC program *)
(* sets (the default coils of Modbus are those of the outputs), and not    *)
(* through a MELSEC link once a call has left its answer behind.           *)
InputsStayWritten ==
    call = "idle" /\ InStep =>
        \A i \in DOMAIN written :
            (\A o \in Outputs : InputOf(i) # OutputOf(o)) => (InputOf(i) \in on) = written[i]

(* A read that returns gives the outputs of one moment of the PLC during   *)
(* the call, each at its own symbol.  Not through the MELSEC link, which   *)
(* reads point by point.                                                   *)
OutputsAreOneMoment ==
    family # "melsec" /\ result = "read" => {o \in Outputs : got[o]} \in seen

(* Whatever moments a read mixes, no output is older than the call, unless *)
(* a MELSEC link reads what an earlier call left behind.                   *)
OutputsAreOfThisCall ==
    InStep /\ result = "read" => \A o \in Outputs : \E now \in seen : got[o] = (o \in now)

(* A call for mapped symbols ends with an answer or with a failure of the  *)
(* link, never because the map is too large for one request.               *)
MappedCallsReturn == result # "raised"

(* What a call of read_outputs says of the PLC is true: of one moment      *)
(* where the link reads in one request, of the time of the call anyway,    *)
(* and it says it for every mapped output.                                 *)
ReadsAreTrue == OutputsAreOneMoment /\ OutputsAreOfThisCall /\ MappedCallsReturn
=============================================================================
