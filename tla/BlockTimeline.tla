---------------------------- MODULE BlockTimeline ---------------------------
(***************************************************************************)
(* One timer or counter under every input timeline, next to a record of    *)
(* what the input really did.  The blocks are what every timing promise of *)
(* a generated program rests on; their edge memory, the scan in which a    *)
(* count or a pulse ends, and a preset of zero are where they go wrong.    *)
(***************************************************************************)
EXTENDS FunctionBlocks

CONSTANTS
    Presets,    \* the presets tried (PT in time units, PV in counts)
    Steps,      \* the scan periods tried
    Horizon     \* history stops counting here, beyond every preset

ASSUME TimelineAssumption ==
    /\ Presets \subseteq Nat
    /\ Steps \subseteq Nat \ {0}
    /\ Horizon \in Nat
    /\ \A p \in Presets : p < Horizon

VARIABLES
    kind, preset, dt,   \* the block and the scan period, fixed
    block,              \* its state
    in,                 \* its input at the last scan
    onFor,              \* time since the scan that saw the input rise, -1 when OFF
    offFor,             \* time since the scan that saw it fall, -1 before that
    pulseFor,           \* time since the edge that started the last pulse, -1 before it
    edges,              \* rising edges the input made since the last reset
    scanned             \* there has been a scan

timelineVars == <<kind, preset, dt, block, in, onFor, offFor, pulseFor, edges, scanned>>

TimelineInit ==
    /\ kind \in TimerKinds \cup CounterKinds
    /\ preset \in Presets
    /\ dt \in Steps
    /\ block = Fresh
    /\ in = FALSE
    /\ onFor = -1 /\ offFor = -1 /\ pulseFor = -1
    /\ edges = 0
    /\ scanned = FALSE

Later(t) == IF t < 0 THEN t ELSE Capped(t + dt, Horizon)

History(now) ==
    /\ in' = now
    /\ onFor' = IF ~now THEN -1 ELSE IF in THEN Later(onFor) ELSE 0
    /\ offFor' = IF now THEN -1 ELSE IF in THEN 0 ELSE Later(offFor)

TimerScan ==
    /\ kind \in TimerKinds
    /\ \E now \in BOOLEAN :
          /\ block' = ScanTimer(kind, block, preset, now, dt)
          /\ History(now)
          /\ pulseFor' = IF now /\ ~in /\ ~(pulseFor >= 0 /\ pulseFor < preset)
                          THEN 0 ELSE Later(pulseFor)
    /\ UNCHANGED <<kind, preset, dt, edges>>

CounterScan ==
    /\ kind \in CounterKinds
    /\ \E now, reset \in BOOLEAN :
          /\ block' = ScanCounter(kind, block, preset, now, reset)
          /\ History(now)
          /\ edges' = IF reset THEN 0
                      ELSE IF now /\ ~in THEN Capped(edges + 1, Horizon) ELSE edges
    /\ UNCHANGED <<kind, preset, dt, pulseFor>>

TimelineNext == (TimerScan \/ CounterScan) /\ scanned' = TRUE

TimelineSpec == TimelineInit /\ [][TimelineNext]_timelineVars

----------------------------------------------------------------------------
(* A TON bit says exactly that its input has been ON for the preset time,  *)
(* counted from the scan that saw it rise: neither a scan early nor late,  *)
(* and for a preset of zero at once.                                       *)
TonMeansHeld ==
    kind = "TON" => (block.q <=> onFor >= preset)

(* A TOF bit says exactly that its input is ON or fell less than the       *)
(* preset ago; with a preset of zero it still outlives the falling scan.   *)
TofMeansRecent ==
    kind = "TOF" => (block.q <=> in \/ (offFor >= 0 /\ (offFor = 0 \/ offFor < preset)))

(* A TP pulse lasts exactly the preset from the edge that started it,      *)
(* whatever the input does meanwhile: no edge prolongs, cuts or splits it. *)
(* An edge in the scan that ends the pulse is one of these: it starts no   *)
(* other, for the code looks for edges only where no pulse runs.           *)
TpPulseIsExact ==
    kind = "TP" => (block.q <=> pulseFor >= 0 /\ pulseFor < preset)

(* A CTU count and the edges its input really made since the last reset    *)
(* differ by one at most.  They may differ: a reset scan does not update   *)
(* the edge memory, so an edge it hides is counted one scan later and a    *)
(* fall it hides costs the next edge.                                      *)
CountIsOffByAtMostOne ==
    kind = "CTU" =>
        /\ block.acc <= edges + 1
        /\ block.acc < preset => edges <= block.acc + 1

(* The bit of a CTD is ON from its first scan on, whatever is counted and  *)
(* reset: nothing ever loads the preset, so the count starts at zero, a    *)
(* reset brings it back there, and edges only take it lower.               *)
CtdIsAlwaysOn ==
    kind = "CTD" => (block.q <=> scanned)

(* The bit of each timer follows from what its input did, to the scan; a   *)
(* CTU is one edge off at most; and a CTD follows nothing.                 *)
BlockBitsFollowInputs ==
    TonMeansHeld /\ TofMeansRecent /\ TpPulseIsExact /\ CountIsOffByAtMostOne /\ CtdIsAlwaysOn

(* A CTD counts down (models.py:59): its bit is ON once there have been as *)
(* many edges as its preset since the last reset.  Fails in the first scan *)
(* of any preset above zero.                                               *)
CtdCountsDown ==
    kind = "CTD" /\ scanned => (block.q <=> edges >= preset)
=============================================================================
