--------------------------- MODULE FunctionBlocks ---------------------------
(***************************************************************************)
(* The timers and counters of app/simulator.py (_Timer, _Counter), which   *)
(* app/xgk/interpreter.py runs as well: one scan of one block.  Time and   *)
(* presets are in scan periods or in multiples of them.                    *)
(*                                                                         *)
(* The state of a block is a record                                        *)
(*   acc  : the accumulated time of a timer, the count of a counter,       *)
(*   q    : the bit the program reads as NAME.Q,                           *)
(*   run  : TRUE while a TP pulse is running,                              *)
(*   prev : the input at the last scan (of a counter: at the last scan     *)
(*          that was not a reset).                                         *)
(***************************************************************************)
EXTENDS Integers

TimerKinds == {"TON", "TOF", "TP"}
CounterKinds == {"CTU", "CTD"}

Fresh == [acc |-> 0, q |-> FALSE, run |-> FALSE, prev |-> FALSE]

Capped(n, bound) == IF n < bound THEN n ELSE bound

ScanTon(b, preset, in, dt) ==
    LET acc == IF in /\ b.prev THEN Capped(b.acc + dt, preset) ELSE 0
    IN  [b EXCEPT !.acc = acc, !.q = in /\ acc >= preset]

ScanTof(b, preset, in, dt) ==
    LET acc == IF b.prev THEN 0 ELSE Capped(b.acc + dt, preset)
    IN  IF in THEN [b EXCEPT !.acc = 0, !.q = TRUE]
        ELSE IF ~b.q THEN b
        ELSE [b EXCEPT !.acc = acc, !.q = b.prev \/ acc < preset]

(* Mutation: an edge while the pulse runs starts it again. *)
ScanTpRetriggers(b, preset, in, dt) ==
    LET acc == Capped(b.acc + dt, preset)
    IN  IF in /\ ~b.prev THEN [b EXCEPT !.acc = 0, !.run = TRUE, !.q = preset > 0]
        ELSE IF b.run
             THEN [b EXCEPT !.acc = acc, !.q = b.q /\ acc < preset, !.run = acc < preset]
             ELSE b

ScanTp(b, preset, in, dt) ==
    LET acc == Capped(b.acc + dt, preset)
    IN  IF b.run
        THEN [b EXCEPT !.acc = acc, !.q = b.q /\ acc < preset, !.run = acc < preset]
        ELSE IF in /\ ~b.prev
             THEN [b EXCEPT !.acc = 0, !.run = TRUE, !.q = preset > 0]
             ELSE b

ScanTimer(kind, b, preset, in, dt) ==
    [CASE kind = "TON" -> ScanTon(b, preset, in, dt)
       [] kind = "TOF" -> ScanTof(b, preset, in, dt)
       [] kind = "TP"  -> ScanTp(b, preset, in, dt)
     EXCEPT !.prev = in]

(* The count saturates at the preset upwards and at -1 downwards: nothing  *)
(* but Q reads it, a CTU only rises and a CTD only falls between resets.   *)
ScanCounter(kind, b, preset, cu, reset) ==
    LET edge == cu /\ ~b.prev
        cnt == IF reset THEN 0
               ELSE IF ~edge THEN b.acc
               ELSE IF kind = "CTD" THEN -1 ELSE Capped(b.acc + 1, preset)
    IN  [b EXCEPT !.acc = cnt, !.prev = IF reset THEN @ ELSE cu,
                  !.q = IF kind = "CTD" THEN cnt <= 0 ELSE cnt >= preset]
=============================================================================
