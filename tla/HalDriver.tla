----------------------------- MODULE HalDriver ------------------------------
(***************************************************************************)
(* The OpenPLC I/O drivers openplc_driver/fenet_hal.cpp and                *)
(* melsec_hal.cpp: a blocking client moves the field inputs into the       *)
(* process image before the program runs (cycle_start) and the process     *)
(* outputs to the field after it (cycle_end).  The runtime calls the hooks *)
(* of the driver and the program from one thread; another thread of the    *)
(* runtime uses the image under the buffer mutex.                          *)
(*                                                                         *)
(* Values are ages.  Every input of the field carries the number of its    *)
(* last change (the PLC answers a request between two of its own scans),   *)
(* every output the number of the critical section that wrote it.          *)
(***************************************************************************)
EXTENDS Integers

CONSTANTS
    Setups,     \* the drivers: records of
                \*   family  "fenet": all inputs in one request; "melsec": one by one
                \*   abi     "v4": init gets the runtime's buffers; "v3": it gets NULL
                \*   answers  the field PLC never leaves a request without an end
    NIn, NOut,  \* entries of the device map
    MaxField,   \* bound: changes of the field inputs
    MaxGen      \* bound: writes of the output image

ASSUME HalAssumption ==
    /\ Setups \subseteq [family : {"fenet", "melsec"}, abi : {"v4", "v3"}, answers : BOOLEAN]
    /\ NIn \in 1..16              \* MAX_BLOCKS: more names throw
    /\ NOut \in Nat \ {0}
    /\ MaxField \in Nat /\ MaxGen \in Nat

VARIABLES
    setup,      \* the driver, fixed
    pc,         \* where the runtime's scan thread is in the driver
    k,          \* the map entry it works on
    args,       \* g_args_valid
    fd,         \* the socket is open
    astray,     \* unread bytes of an alien answer are left on the socket
    request,    \* the request and its answer, as far as they have come
    bits,       \* the answer of the last successful read
    snap,       \* bit_writes and word_writes, the output snapshot
    lock,       \* holder of buffer_mutex
    inImage, outImage,
    field,      \* age of the field inputs
    plcOut,     \* the field outputs
    gen,        \* critical sections that wrote outputs so far
    due,        \* age of the outputs when the program last ended
    faulty,     \* a transaction of this cycle failed
    other, ok   \* where the other thread is, and its map entry

socket == <<fd, astray, request>>
image == <<lock, inImage, outImage, gen>>
moving == <<pc, k, args, socket, bits, snap, image, field, plcOut, due, faulty, other, ok>>
halVars == <<setup, moving>>

Ins == 1..NIn
Outs == 1..NOut
Batch == setup.family = "fenet"

HalInit ==
    /\ setup \in Setups
    /\ pc = "down" /\ k = 1 /\ args = FALSE
    /\ fd = FALSE /\ astray = FALSE /\ request = "none"
    /\ bits = [i \in Ins |-> 0] /\ snap = [o \in Outs |-> 0]
    /\ lock = "free"
    /\ inImage = [i \in Ins |-> 0] /\ outImage = [o \in Outs |-> 0]
    /\ field = 0 /\ plcOut = [o \in Outs |-> 0]
    /\ gen = 0 /\ due = 0 /\ faulty = FALSE
    /\ other = "away" /\ ok = 1

----------------------------------------------------------------------------
(* connect(): an open socket stays, a closed one may not come up again. *)
Connect == fd' \in BOOLEAN

(* init(): the first connection decides the result, but the buffers stay   *)
(* valid after a failure too.                                              *)
InitDriver ==
    /\ pc = "down"
    /\ args' = (args \/ setup.abi = "v4")
    /\ Connect
    /\ pc' = IF fd' THEN "ready" ELSE "down"
    /\ UNCHANGED <<k, astray, request, bits, snap, image, field, plcOut, due, faulty, other, ok>>

(* cleanup() *)
Cleanup ==
    /\ pc = "ready"
    /\ pc' = "down"
    /\ args' = FALSE /\ fd' = FALSE /\ astray' = FALSE
    /\ UNCHANGED <<k, request, bits, snap, image, field, plcOut, due, faulty, other, ok>>

CycleStart ==
    /\ pc = "ready"
    /\ pc' = IF args THEN "ask" ELSE "program"
    /\ k' = 1 /\ faulty' = FALSE
    /\ UNCHANGED <<args, socket, bits, snap, image, field, plcOut, due, other, ok>>

(* The rest of the cycle after the entry k of a hook is done with. *)
NextIn ==
    IF Batch \/ k = NIn THEN pc' = "program" /\ k' = 1
                        ELSE pc' = "ask" /\ k' = k + 1

NextOut ==
    IF k = NOut THEN pc' = "ready" /\ k' = 1 ELSE pc' = "send" /\ k' = k + 1

(* read_bits returned nothing, or write_bit FALSE: the entry is skipped. *)
Skip ==
    /\ faulty' = TRUE
    /\ IF pc \in {"ask", "read"} THEN NextIn ELSE NextOut

(* transaction(): connect if need be, send; a failure closes the socket.   *)
Send ==
    /\ pc \in {"ask", "send"}
    /\ Connect
    /\ \/ /\ fd' /\ request' = "sent"
          /\ pc' = IF pc = "ask" THEN "read" ELSE "written"
          /\ UNCHANGED <<k, astray, faulty>>
       \/ /\ ~fd' /\ astray' = FALSE
          /\ Skip
          /\ UNCHANGED request
    /\ UNCHANGED <<args, bits, snap, image, field, plcOut, due, other, ok>>

(* recv_exact: it returns when there is an answer or the peer is gone,     *)
(* there is no timeout.  An answer with a foreign header, and any answer   *)
(* behind the bytes such a one left, fails without closing the socket.     *)
Receive ==
    /\ pc \in {"read", "written"}
    /\ request \in {"done", "refused", "alien", "gone"}
    /\ request' = "none"
    /\ fd' = (request # "gone")
    /\ astray' = (fd' /\ (astray \/ request = "alien"))
    /\ IF request = "done" /\ ~astray
       THEN /\ IF pc = "read" THEN pc' = "store" /\ UNCHANGED k ELSE NextOut
            /\ UNCHANGED faulty
       ELSE Skip
    /\ UNCHANGED <<args, bits, snap, image, field, plcOut, due, other, ok>>

(* buffers_lock() of cycle_start *)
LockInImage ==
    /\ pc = "store"
    /\ lock = "free"
    /\ lock' = "driver"
    /\ pc' = "storing"
    /\ UNCHANGED <<k, args, socket, bits, snap, inImage, outImage, gen, field, plcOut, due,
                   faulty, other, ok>>

(* set_input_bit for the bits read, one after the other, then unlock. *)
StoreBit ==
    /\ pc = "storing"
    /\ inImage' = [inImage EXCEPT ![k] = bits[k]]
    /\ IF Batch /\ k < NIn
       THEN k' = k + 1 /\ UNCHANGED <<pc, lock>>
       ELSE lock' = "free" /\ NextIn
    /\ UNCHANGED <<args, socket, bits, snap, outImage, gen, field, plcOut, due, faulty, other, ok>>

(* The runtime executes the program and publishes its outputs. *)
Program ==
    /\ pc = "program"
    /\ lock = "free"
    /\ gen' = IF gen < MaxGen THEN gen + 1 ELSE gen
    /\ outImage' = IF gen < MaxGen THEN [o \in Outs |-> gen'] ELSE outImage
    /\ due' = gen'
    /\ pc' = IF args THEN "snapshot" ELSE "ready"
    /\ UNCHANGED <<k, args, socket, bits, snap, lock, inImage, field, plcOut, faulty, other, ok>>

(* Mutation: the outputs are copied without the buffer lock. *)
LockOutImageNever ==
    /\ pc = "snapshot"
    /\ pc' = "copying"
    /\ UNCHANGED <<k, args, socket, bits, snap, image, field, plcOut, due, faulty, other, ok>>

(* buffers_lock() of cycle_end *)
LockOutImage ==
    /\ pc = "snapshot"
    /\ lock = "free"
    /\ lock' = "driver"
    /\ pc' = "copying"
    /\ UNCHANGED <<k, args, socket, bits, snap, inImage, outImage, gen, field, plcOut, due,
                   faulty, other, ok>>

(* Mutation: the buffer lock is kept while the outputs are sent. *)
CopyOutputKeepsLock ==
    /\ pc = "copying"
    /\ snap' = [snap EXCEPT ![k] = outImage[k]]
    /\ IF k < NOut THEN k' = k + 1 /\ UNCHANGED pc ELSE k' = 1 /\ pc' = "send"
    /\ UNCHANGED <<args, socket, bits, image, field, plcOut, due, faulty, other, ok>>

(* Mutation: the snapshot copies but the last output. *)
CopyOutputShort ==
    /\ pc = "copying"
    /\ snap' = [snap EXCEPT ![k] = IF k = NOut THEN @ ELSE outImage[k]]
    /\ IF k < NOut THEN k' = k + 1 /\ UNCHANGED <<pc, lock>>
       ELSE k' = 1 /\ lock' = "free" /\ pc' = "send"
    /\ UNCHANGED <<args, socket, bits, inImage, outImage, gen, field, plcOut, due, faulty, other, ok>>

(* The snapshot, entry by entry, then unlock before any socket I/O. *)
CopyOutput ==
    /\ pc = "copying"
    /\ snap' = [snap EXCEPT ![k] = outImage[k]]
    /\ IF k < NOut THEN k' = k + 1 /\ UNCHANGED <<pc, lock>>
       ELSE k' = 1 /\ lock' = "free" /\ pc' = "send"
    /\ UNCHANGED <<args, socket, bits, inImage, outImage, gen, field, plcOut, due, faulty, other, ok>>

----------------------------------------------------------------------------
(* The PLC: it answers, refuses, answers nonsense or goes away, and its    *)
(* inputs change.  What a dead connection still held is never executed.    *)
Answer ==
    /\ request = "sent"
    /\ request' = "done"
    /\ IF pc = "read"
       THEN /\ bits' = [i \in Ins |-> IF Batch \/ i = k THEN field ELSE bits[i]]
            /\ UNCHANGED plcOut
       ELSE /\ plcOut' = [plcOut EXCEPT ![k] = snap[k]]
            /\ UNCHANGED bits
    /\ UNCHANGED <<pc, k, args, fd, astray, snap, image, field, due, faulty, other, ok>>

Misserve ==
    /\ request = "sent"
    /\ request' \in {"refused", "alien"}
    /\ UNCHANGED <<pc, k, args, fd, astray, bits, snap, image, field, plcOut, due, faulty, other, ok>>

HangUp ==
    /\ request \in {"sent", "done"}
    /\ request' = "gone"
    /\ UNCHANGED <<pc, k, args, fd, astray, bits, snap, image, field, plcOut, due, faulty, other, ok>>

FieldChanges ==
    /\ field < MaxField
    /\ field' = field + 1
    /\ UNCHANGED <<pc, k, args, socket, bits, snap, image, plcOut, due, faulty, other, ok>>

(* Another thread writes all outputs in one critical section. *)
OtherWants ==
    /\ other = "away" /\ gen < MaxGen
    /\ other' = "waiting"
    /\ UNCHANGED <<pc, k, args, socket, bits, snap, image, field, plcOut, due, faulty, ok>>

OtherLocks ==
    /\ other = "waiting" /\ lock = "free"
    /\ lock' = "other" /\ other' = "inside" /\ ok' = 1
    /\ gen' = gen + 1
    /\ UNCHANGED <<pc, k, args, socket, bits, snap, inImage, outImage, field, plcOut, due, faulty>>

OtherWrites ==
    /\ other = "inside"
    /\ outImage' = [outImage EXCEPT ![ok] = gen]
    /\ IF ok < NOut THEN ok' = ok + 1 /\ UNCHANGED <<lock, other>>
       ELSE ok' = 1 /\ lock' = "free" /\ other' = "away"
    /\ UNCHANGED <<pc, k, args, socket, bits, snap, inImage, gen, field, plcOut, due, faulty>>

InCycle ==
    \/ Send \/ Receive \/ LockInImage \/ StoreBit
    \/ Program \/ LockOutImage \/ CopyOutput

OtherThread == OtherLocks \/ OtherWrites

HalNext ==
    /\ \/ InitDriver \/ Cleanup \/ CycleStart \/ InCycle
       \/ Answer \/ Misserve \/ HangUp \/ FieldChanges
       \/ OtherWants \/ OtherThread
    /\ UNCHANGED setup

HalSpec == HalInit /\ [][HalNext]_halVars

(* A cycle that has begun goes on, so does the other thread, and the mutex *)
(* lets every waiter in at last.  Of the PLC nothing is assumed, unless it *)
(* is one that answers or hangs up.                                        *)
HalFairness ==
    /\ SF_moving(InCycle) /\ SF_moving(OtherThread)
    /\ WF_moving(setup.answers /\ (Answer \/ Misserve \/ HangUp))

HalFairSpec == HalSpec /\ HalFairness

----------------------------------------------------------------------------
Pcs == {"down", "ready", "ask", "read", "store", "storing", "program",
        "snapshot", "copying", "send", "written"}

DriverTypeOK ==
    /\ pc \in Pcs /\ k \in Ins \cup Outs
    /\ args \in BOOLEAN /\ fd \in BOOLEAN /\ astray \in BOOLEAN /\ faulty \in BOOLEAN
    /\ request \in {"none", "sent", "done", "refused", "alien", "gone"}
    /\ bits \in [Ins -> Nat] /\ inImage \in [Ins -> Nat]
    /\ snap \in [Outs -> Nat] /\ outImage \in [Outs -> Nat] /\ plcOut \in [Outs -> Nat]
    /\ lock \in {"free", "driver", "other"}
    /\ field \in Nat /\ gen \in Nat /\ due \in Nat
    /\ other \in {"away", "waiting", "inside"} /\ ok \in Outs

(* Whoever uses the image under the lock finds the inputs of one moment of *)
(* the field, and not a mixture of two reads.  For the FEnet driver: the   *)
(* MELSEC one reads and stores point by point.                             *)
InputsAreOneMoment ==
    Batch /\ lock # "driver" => \A i, j \in Ins : inImage[i] = inImage[j]

(* The snapshot being sent is one state of the output image: never half of *)
(* what another thread was writing.                                        *)
SnapshotIsOneMoment ==
    pc \in {"send", "written"} => \A o, p \in Outs : snap[o] = snap[p]

(* After a cycle in which no transaction failed, every field output is at  *)
(* least as recent as what the program left in the image.  For the v4      *)
(* hooks: through the v3 shims the driver never gets its buffers.          *)
CleanCycleReachesField ==
    setup.abi = "v4" /\ pc = "ready" /\ ~faulty => \A o \in Outs : plcOut[o] >= due

(* A PLC that never answers blocks the scan thread, but not the threads    *)
(* that wait for the buffer lock.                                          *)
OthersAreLetIn == other = "waiting" ~> other = "inside"

(* Every cycle ends, whatever fails, if requests are answered or refused   *)
(* or the connection breaks.                                               *)
CyclesEnd == setup.answers /\ pc \notin {"down", "ready"} ~> pc \in {"down", "ready"}

(* Whoever holds the buffer lock sees whole images: the program the inputs *)
(* of one moment of the field, the field PLC the outputs of one of the     *)
(* program.                                                                *)
ImagesAreOneMoment == InputsAreOneMoment /\ SnapshotIsOneMoment

(* The hooks come back to the runtime and let its other threads in: no     *)
(* path through cycle_start or cycle_end keeps the buffer lock.            *)
HooksComeBack == OthersAreLetIn /\ CyclesEnd
=============================================================================
