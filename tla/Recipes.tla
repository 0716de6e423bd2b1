------------------------------ MODULE Recipes ------------------------------
(***************************************************************************)
(* app/wizard.py: the control tasks a user picks from, each a function     *)
(* from the answers of a form to a state-machine specification.            *)
(*                                                                         *)
(* Answers are a record from the keys of the form to signal names, seconds *)
(* and counts.  A specification is the record of module Synth with         *)
(*   inputs   : the INPUT symbols,                                         *)
(*   timers   : records [name, kind, preset, on],                          *)
(*   counters : records [name, kind, preset, count, reset].                *)
(* Titles, labels and safety notes are left out.  One second of a preset   *)
(* is one scan, and the default presets are scaled down to 1..3.           *)
(***************************************************************************)
EXTENDS StEngine, FiniteSets

When(on, off) == {[on |-> on, off |-> off]}
AllOn_(on) == When(on, {})

(* _tr *)
Tr(from, to, cond) == [from |-> from, to |-> to, cond |-> cond]

(* StateMachineSpec(...) with the lists a recipe leaves out empty. *)
Machine(inputs, outputs, entry, transitions) ==
    [inputs |-> inputs, outputs |-> outputs, entry |-> entry, transitions |-> transitions,
     locks |-> {}, derived |-> {}, timers |-> <<>>, counters |-> <<>>]

Ton(name, preset, on) == [name |-> name, kind |-> "TON", preset |-> preset, on |-> on]

Ctu(name, preset, count, reset) ==
    [name |-> name, kind |-> "CTU", preset |-> preset, count |-> count, reset |-> reset]

(* _pint: the smallest value a form field accepts. *)
AtLeast(lo, n) == IF n < lo THEN lo ELSE n

Latch(inputs, out, on, off) ==
    Machine(inputs, <<out>>, [OFF |-> {}, ON |-> {out}],
            {Tr("OFF", "ON", on), Tr("ON", "OFF", off)})

----------------------------------------------------------------------------
MotorStartStop(a) ==
    Latch({a.start, a.stop}, a.motor, When({a.start}, {a.stop}), Is(a.stop))

FwdRev(a) ==
    LET machine ==
          Machine({a.fwd, a.rev, a.stop}, <<a.motor_fwd, a.motor_rev>>,
              [IDLE |-> {}, FWD |-> {a.motor_fwd}, REV |-> {a.motor_rev}],
              {Tr("IDLE", "FWD", When({a.fwd}, {a.rev, a.stop})),
               Tr("FWD", "IDLE", Is(a.stop) \cup Is(a.rev)),
               Tr("IDLE", "REV", When({a.rev}, {a.fwd, a.stop})),
               Tr("REV", "IDLE", Is(a.stop) \cup Is(a.fwd))})
    IN  [machine EXCEPT !.locks = {<<a.motor_fwd, a.motor_rev>>}]

OnDelay(a) ==
    [Latch({a.start, a.stop}, a.output, When({"T1.Q"}, {a.stop}), Is(a.stop))
     EXCEPT !.timers = <<Ton("T1", AtLeast(0, a.delay_sec), Is(a.start))>>]

HiLoLevel(a) ==
    Latch({a.lo, a.hi}, a.pump, When({a.lo}, {a.hi}), Is(a.hi))

CountEject(a) ==
    [Latch({a.sensor, a.reset}, a.eject, When({"C1.Q"}, {a.reset}), Is(a.reset))
     EXCEPT !.counters = <<Ctu("C1", AtLeast(1, a.count), Is(a.sensor), Is(a.reset))>>]

AutoManual(a) ==
    [Machine({a.mode, a.auto_cmd, a.man_cmd, a.stop}, <<a.valve>>, <<>>, {})
     EXCEPT !.derived = {[output |-> a.valve,
                          expr |-> When({a.mode, a.auto_cmd}, {a.stop}) \cup
                                   When({a.man_cmd}, {a.mode, a.stop})]}]

JogRun(a) ==
    LET machine ==
          Machine({a.start, a.stop, a.jog}, <<a.motor_run, a.motor_jog>>,
              [IDLE |-> {}, RUNNING |-> {a.motor_run}, JOGGING |-> {a.motor_jog}],
              {Tr("IDLE", "RUNNING", When({a.start}, {a.jog, a.stop})),
               Tr("RUNNING", "IDLE", Is(a.stop)),
               Tr("IDLE", "JOGGING", When({a.jog}, {a.start})),
               Tr("JOGGING", "IDLE", Not(a.jog))})
    IN  [machine EXCEPT !.locks = {<<a.motor_run, a.motor_jog>>}]

StarDelta(a) ==
    LET machine ==
          Machine({a.start, a.stop}, <<a.main, a.star, a.delta>>,
              [IDLE |-> {}, STAR |-> {a.main, a.star}, DELTA |-> {a.main, a.delta}],
              {Tr("IDLE", "STAR", When({a.start}, {a.stop, "T1.Q"}) \cup
                                  When({a.main}, {a.stop, "T1.Q"})),
               Tr("STAR", "DELTA", When({"T1.Q", a.main}, {a.stop})),
               Tr("DELTA", "IDLE", Is(a.stop)),
               Tr("STAR", "IDLE", Is(a.stop))})
    IN  [machine EXCEPT !.timers = <<Ton("T1", AtLeast(0, a.delay_sec), Is(a.star))>>,
                        !.locks = {<<a.star, a.delta>>}]

LatchAlarm(a) ==
    LET faults == {a.fault_a, a.fault_b, a.fault_c}
    IN  Latch(faults \cup {a.reset}, a.alarm,
              UNION {Is(f) : f \in faults}, When({a.reset}, faults))

FirstOutAlarm(a) ==
    LET machine ==
          Machine({a.fault_a, a.fault_b, a.ack, a.reset}, <<a.latch_a, a.latch_b, a.horn>>,
              [NORMAL |-> {}, FIRST_A |-> {a.latch_a}, FIRST_B |-> {a.latch_b}],
              {Tr("NORMAL", "FIRST_A", When({a.fault_a}, {a.latch_b})),
               Tr("NORMAL", "FIRST_B", When({a.fault_b}, {a.latch_a})),
               Tr("FIRST_A", "NORMAL", When({a.reset}, {a.fault_a})),
               Tr("FIRST_B", "NORMAL", When({a.reset}, {a.fault_b}))})
    IN  [machine EXCEPT !.derived =
            {[output |-> a.horn,
              expr |-> When({a.latch_a}, {a.ack}) \cup When({a.latch_b}, {a.ack})]}]

DutyStandby(a) ==
    Machine({a.demand, a.high_demand, a.stop}, <<a.lead, a.lag>>,
        [OFF |-> {}, LEAD |-> {a.lead}, LAG_ON |-> {a.lag}],
        {Tr("OFF", "LEAD", When({a.demand}, {a.stop})),
         Tr("LEAD", "OFF", Is(a.stop)),
         Tr("LEAD", "LAG_ON", When({a.high_demand}, {a.stop})),
         Tr("LAG_ON", "LEAD", Not(a.high_demand))})

(* Equal buttons are refused: BothHands. *)
TwoHand(a) ==
    LET needed == {a.lh, a.rh, a.guard, a.estop_ok}
    IN  Latch(needed, a.enable, AllOn_(needed), UNION {Not(s) : s \in needed})

BothHands(id, a) == id \in {"two_hand_safety", "press_muting"} => a.lh # a.rh

----------------------------------------------------------------------------
(* A stop is the term that has to hold for it: one literal, a button that  *)
(* is ON or a safety contact that is OFF.                                  *)
BuildSequencer(steps, start, stop, loop) ==
    LET n == Len(steps)
        state == <<"S0", "S1", "S2", "S3">>
        timer == <<"T0", "T1", "T2", "T3">>
        bit == <<"T0.Q", "T1.Q", "T2.Q", "T3.Q">>
        outs == {steps[k].out : k \in 1..n}
        advance(k) == When({bit[k]} \cup stop.off, stop.on)
        last == IF loop THEN Tr(state[n], state[1], advance(n))
                ELSE Tr(state[n], "IDLE", Is(bit[n]))
    IN  [Machine({start} \cup stop.on \cup stop.off, [k \in 1..n |-> steps[k].out],
            [s \in {"IDLE"} \cup {state[k] : k \in 1..n} |->
               {steps[k].out : k \in {j \in 1..n : state[j] = s}}],
            {Tr("IDLE", state[1], When({start} \cup stop.off, stop.on \cup outs)), last}
            \cup {Tr(state[k], "IDLE", {stop}) : k \in 1..n}
            \cup {Tr(state[k], state[k + 1], advance(k)) : k \in 1..(n - 1)})
         EXCEPT !.timers = [k \in 1..n |-> Ton(timer[k], AtLeast(1, steps[k].sec), Is(steps[k].out))]]

Step(out, sec) == [out |-> out, sec |-> sec]
Pressed(stop) == [on |-> {stop}, off |-> {}]

CarWash(a) ==
    BuildSequencer(<<Step(a.out1, a.t1), Step(a.out2, a.t2), Step(a.out3, a.t3)>>,
                   a.start, Pressed(a.stop), FALSE)

TimedTraffic(a) ==
    BuildSequencer(<<Step(a.red, a.t_red), Step(a.green, a.t_green), Step(a.yellow, a.t_yellow)>>,
                   a.start, Pressed(a.stop), TRUE)

Batch(a) ==
    BuildSequencer(<<Step(a.fill, a.t_fill), Step(a.mixer, a.t_mix), Step(a.drain, a.t_drain)>>,
                   a.start, Pressed(a.stop), FALSE)

HeatTreat(a) ==
    BuildSequencer(<<Step(a.ramp, a.t_ramp), Step(a.hold, a.t_hold), Step(a.cool, a.t_cool)>>,
                   a.start, Pressed(a.stop), FALSE)

PlatingLine(a) ==
    BuildSequencer(<<Step(a.degrease, a.t_deg), Step(a.rinse, a.t_rinse),
                     Step(a.plate, a.t_plate), Step(a.dry, a.t_dry)>>,
                   a.start, Pressed(a.stop), FALSE)

WeldCell(a) ==
    BuildSequencer(<<Step(a.clamp, a.t_clamp), Step(a.weld, a.t_weld),
                     Step(a.unclamp, a.t_unclamp)>>,
                   a.start, Pressed(a.stop), FALSE)

ConveyorDivert(a) ==
    LET machine ==
          Machine({a.sel_a, a.sel_b, a.stop}, <<a.gate_a, a.gate_b>>,
              [STRAIGHT |-> {}, DIVERT_A |-> {a.gate_a}, DIVERT_B |-> {a.gate_b}],
              {Tr("STRAIGHT", "DIVERT_A", When({a.sel_a}, {a.sel_b, a.stop})),
               Tr("DIVERT_A", "STRAIGHT", Is(a.stop) \cup Is(a.sel_b)),
               Tr("STRAIGHT", "DIVERT_B", When({a.sel_b}, {a.sel_a, a.stop})),
               Tr("DIVERT_B", "STRAIGHT", Is(a.stop) \cup Is(a.sel_a))})
    IN  [machine EXCEPT !.locks = {<<a.gate_a, a.gate_b>>}]

(* Built by hand in the code, but for the last transition it is the        *)
(* sequencer with the safety contact as the stop: T2.Q OR NOT estop_ok.    *)
MotionHomeMove(a) ==
    BuildSequencer(<<Step(a.homing, a.t_home), Step(a.moving, a.t_move), Step(a.in_pos, a.t_pos)>>,
                   a.start, [on |-> {}, off |-> {a.estop_ok}], FALSE)

PressMuting(a) ==
    LET hands == {a.lh, a.rh}
        needed == hands \cup {a.guard, a.estop_ok}
    IN  Latch(needed \cup {a.mute}, a.enable, AllOn_(needed),
              Not(a.guard) \cup Not(a.estop_ok) \cup UNION {When({}, {h, a.mute}) : h \in hands})

----------------------------------------------------------------------------
ThreeWire(a) ==
    Latch({a.start, a.stop}, a.motor, When({a.start}, {a.stop}), Is(a.stop))

CascadeConveyor(a) ==
    LET one == {a.down}
        two == {a.down, a.mid}
        machine ==
          Machine({a.start, a.stop}, <<a.down, a.mid, a.up>>,
              [IDLE |-> {}, RUN_DOWN |-> one, RUN_MID |-> two, RUN_ALL |-> two \cup {a.up},
               STOP_UP |-> two, STOP_MID |-> one],
              {Tr("IDLE", "RUN_DOWN", When({a.start}, {a.stop})),
               Tr("RUN_DOWN", "RUN_MID", When({"T0.Q"}, {a.stop})),
               Tr("RUN_MID", "RUN_ALL", When({"T1.Q"}, {a.stop})),
               Tr("RUN_DOWN", "IDLE", Is(a.stop)),
               Tr("RUN_MID", "STOP_MID", Is(a.stop)),
               Tr("RUN_ALL", "STOP_UP", Is(a.stop)),
               Tr("STOP_UP", "STOP_MID", Is("T2.Q")),
               Tr("STOP_MID", "IDLE", Is("T3.Q"))})
        t == AtLeast(1, a.step_sec)
    IN  [machine EXCEPT !.timers = <<Ton("T0", t, Is(a.down)), Ton("T1", t, Is(a.mid)),
                                     Ton("T2", t, AllOn_({a.stop, a.up})),
                                     Ton("T3", t, AllOn_({a.stop, a.mid}))>>]

OverloadLatch(a) ==
    Latch({a.overload, a.reset}, a.tripped, Is(a.overload), When({a.reset}, {a.overload}))

GuardInterlock(a) ==
    Latch({a.start, a.stop, a.guard, a.estop_ok}, a.motor,
          When({a.start, a.guard, a.estop_ok}, {a.stop}),
          Is(a.stop) \cup Not(a.guard) \cup Not(a.estop_ok))

TowerLamp(a) ==
    [Machine({a.running, a.fault}, <<a.green, a.red, a.amber>>, <<>>, {})
     EXCEPT !.derived = {[output |-> a.red, expr |-> Is(a.fault)],
                         [output |-> a.green, expr |-> When({a.running}, {a.fault})],
                         [output |-> a.amber, expr |-> When({}, {a.running, a.fault})]}]

Flasher(a) ==
    [Latch({a.start, a.stop}, a.lamp,
           When({a.start, "T1.Q"}, {a.stop}) \cup When({a.start}, {a.stop, a.start}),
           Is("T0.Q") \cup Is(a.stop))
     EXCEPT !.timers = <<Ton("T0", AtLeast(1, a.period_sec), Is(a.lamp)),
                         Ton("T1", AtLeast(1, a.period_sec), When({a.start}, {a.stop, a.lamp}))>>]

OneShot(a) ==
    Latch({a.trigger, a.reset}, a.pulse, Is(a.trigger), Not(a.trigger) \cup Is(a.reset))

ConveyorJam(a) ==
    [Latch({a.start, a.reset, a.jam_sensor}, a.upstream,
           When({a.start}, {"T1.Q"}) \cup When({a.reset, a.start}, {a.jam_sensor}),
           Is("T1.Q") \cup Not(a.start))
     EXCEPT !.timers = <<Ton("T1", AtLeast(1, a.jam_sec), Is(a.jam_sensor))>>]

RetryAlarm(a) ==
    [Latch({a.fail, a.reset}, a.alarm, When({"C1.Q"}, {a.reset}), Is(a.reset))
     EXCEPT !.counters = <<Ctu("C1", AtLeast(1, a.retries), Is(a.fail), Is(a.reset))>>]

ShutterGate(a) ==
    LET machine ==
          Machine({a.open_pb, a.close_pb, a.stop, a.open_ls, a.close_ls},
              <<a.open_motor, a.close_motor>>,
              [IDLE |-> {}, OPENING |-> {a.open_motor}, CLOSING |-> {a.close_motor}],
              {Tr("IDLE", "OPENING", When({a.open_pb}, {a.close_pb, a.stop, a.open_ls})),
               Tr("OPENING", "IDLE", Is(a.stop) \cup Is(a.open_ls) \cup Is(a.close_pb)),
               Tr("IDLE", "CLOSING", When({a.close_pb}, {a.open_pb, a.stop, a.close_ls})),
               Tr("CLOSING", "IDLE", Is(a.stop) \cup Is(a.close_ls) \cup Is(a.open_pb))})
    IN  [machine EXCEPT !.locks = {<<a.open_motor, a.close_motor>>}]

RuntimeMaint(a) ==
    [Latch({a.run_pulse, a.reset}, a.alarm, When({"C1.Q"}, {a.reset}), Is(a.reset))
     EXCEPT !.counters = <<Ctu("C1", AtLeast(1, a.hours), Is(a.run_pulse), Is(a.reset))>>]

----------------------------------------------------------------------------
(* RECIPES: the form of every recipe with its default answers. *)
BasicForms ==
    [motor_start_stop |-> [start |-> "START", stop |-> "STOP", motor |-> "MOTOR"],
     fwd_rev |-> [fwd |-> "FWD_PB", rev |-> "REV_PB", stop |-> "STOP",
                  motor_fwd |-> "MOTOR_FWD", motor_rev |-> "MOTOR_REV"],
     on_delay |-> [start |-> "START", stop |-> "STOP", output |-> "OUTPUT", delay_sec |-> 2],
     hi_lo_level |-> [lo |-> "LO_LS", hi |-> "HI_LS", pump |-> "PUMP"],
     count_eject |-> [sensor |-> "PART_SENSOR", reset |-> "RESET_PB", eject |-> "EJECT", count |-> 2],
     auto_manual |-> [mode |-> "MODE_AUTO", auto_cmd |-> "AUTO_CMD", man_cmd |-> "MAN_CMD",
                      stop |-> "SYS_STOP", valve |-> "VALVE"],
     jog_run |-> [start |-> "START_PB", stop |-> "STOP_PB", jog |-> "JOG_PB",
                  motor_run |-> "MOTOR_RUN", motor_jog |-> "MOTOR_JOG"],
     star_delta |-> [start |-> "START_PB", stop |-> "STOP_PB", main |-> "MAIN_CON",
                     star |-> "STAR_CON", delta |-> "DELTA_CON", delay_sec |-> 2],
     latch_alarm |-> [fault_a |-> "FAULT_A", fault_b |-> "FAULT_B", fault_c |-> "FAULT_C",
                      reset |-> "ALARM_RST", alarm |-> "ALARM"],
     first_out_alarm |-> [fault_a |-> "FAULT_A", fault_b |-> "FAULT_B", ack |-> "ALM_ACK",
                          reset |-> "ALM_RST", latch_a |-> "LATCH_A", latch_b |-> "LATCH_B",
                          horn |-> "HORN"],
     duty_standby |-> [demand |-> "DEMAND", high_demand |-> "HIGH_DEMAND", stop |-> "SYS_STOP",
                       lead |-> "PUMP_LEAD", lag |-> "PUMP_LAG"],
     two_hand_safety |-> [lh |-> "LH_BTN", rh |-> "RH_BTN", guard |-> "GUARD_CLOSED",
                          estop_ok |-> "ESTOP_OK", enable |-> "PRESS_ENABLE"],
     car_wash |-> [start |-> "START", stop |-> "STOP", out1 |-> "SOAP", t1 |-> 2,
                   out2 |-> "RINSE", t2 |-> 1, out3 |-> "DRY", t3 |-> 2],
     timed_traffic |-> [start |-> "START", stop |-> "STOP", red |-> "LIGHT_RED", t_red |-> 3,
                        green |-> "LIGHT_GREEN", t_green |-> 2, yellow |-> "LIGHT_YELLOW",
                        t_yellow |-> 1],
     batch_fill_mix_drain |-> [start |-> "START", stop |-> "STOP", fill |-> "FILL_VALVE",
                               t_fill |-> 2, mixer |-> "MIXER", t_mix |-> 3,
                               drain |-> "DRAIN_VALVE", t_drain |-> 1]]

IndustryForms ==
    [heat_treat |-> [start |-> "HEAT_START", stop |-> "HEAT_STOP", ramp |-> "HEATER",
                     t_ramp |-> 1, hold |-> "SOAK", t_hold |-> 3, cool |-> "COOL_FAN", t_cool |-> 2],
     plating_line |-> [start |-> "PLATE_START", stop |-> "PLATE_STOP", degrease |-> "DEGREASE",
                       t_deg |-> 2, rinse |-> "RINSE", t_rinse |-> 1, plate |-> "PLATE",
                       t_plate |-> 2, dry |-> "DRY", t_dry |-> 1],
     weld_cell |-> [start |-> "WELD_START", stop |-> "WELD_STOP", clamp |-> "CLAMP",
                    t_clamp |-> 1, weld |-> "WELD", t_weld |-> 2, unclamp |-> "UNCLAMP",
                    t_unclamp |-> 1],
     conveyor_divert |-> [sel_a |-> "SEL_A", sel_b |-> "SEL_B", stop |-> "DIV_STOP",
                          gate_a |-> "GATE_A", gate_b |-> "GATE_B"],
     motion_home_move |-> [start |-> "CYCLE_START", estop_ok |-> "ESTOP_OK", homing |-> "HOMING",
                           t_home |-> 2, moving |-> "MOVING", t_move |-> 3,
                           in_pos |-> "IN_POS_LAMP", t_pos |-> 1],
     press_muting |-> [lh |-> "LH_BTN", rh |-> "RH_BTN", guard |-> "GUARD_CLOSED",
                       mute |-> "MUTE_ZONE", estop_ok |-> "ESTOP_OK", enable |-> "PRESS_ENABLE"],
     three_wire |-> [start |-> "START_PB", stop |-> "STOP_PB", motor |-> "MTR"],
     cascade_conveyor |-> [start |-> "START_PB", stop |-> "STOP_PB", up |-> "CONV_UP",
                           mid |-> "CONV_MID", down |-> "CONV_DOWN", step_sec |-> 2],
     overload_latch |-> [overload |-> "OL_TRIP", reset |-> "TRIP_RST", tripped |-> "TRIPPED"],
     guard_interlock |-> [start |-> "START_PB", stop |-> "STOP_PB", guard |-> "GUARD_CLOSED",
                          estop_ok |-> "ESTOP_OK", motor |-> "MACHINE"],
     tower_lamp |-> [running |-> "RUNNING", fault |-> "FAULT", green |-> "LAMP_GREEN",
                     red |-> "LAMP_RED", amber |-> "LAMP_AMBER"],
     flasher |-> [start |-> "START_PB", stop |-> "STOP_PB", lamp |-> "FLASH_LAMP",
                  period_sec |-> 2],
     one_shot |-> [trigger |-> "TRIG_PB", reset |-> "OS_RST", pulse |-> "ONE_SHOT"],
     conveyor_jam |-> [start |-> "START_PB", reset |-> "JAM_RST", jam_sensor |-> "JAM_LS",
                       upstream |-> "CONV_UP", jam_sec |-> 2],
     retry_alarm |-> [fail |-> "FAIL_PULSE", reset |-> "RETRY_RST", alarm |-> "RETRY_ALARM",
                      retries |-> 3],
     shutter_gate |-> [open_pb |-> "OPEN_PB", close_pb |-> "CLOSE_PB", stop |-> "STOP_PB",
                       open_ls |-> "OPEN_LS", close_ls |-> "CLOSE_LS",
                       open_motor |-> "MTR_OPEN", close_motor |-> "MTR_CLOSE"],
     runtime_maint |-> [run_pulse |-> "RUN_1S", reset |-> "MAINT_RST", alarm |-> "MAINT_DUE",
                        hours |-> 2]]

RecipeIds == DOMAIN BasicForms \cup DOMAIN IndustryForms

DefaultAnswers(id) ==
    IF id \in DOMAIN BasicForms THEN BasicForms[id] ELSE IndustryForms[id]

BuildRecipe(id, a) ==
    CASE id = "motor_start_stop" -> MotorStartStop(a)
      [] id = "fwd_rev"          -> FwdRev(a)
      [] id = "on_delay"         -> OnDelay(a)
      [] id = "hi_lo_level"      -> HiLoLevel(a)
      [] id = "count_eject"      -> CountEject(a)
      [] id = "auto_manual"      -> AutoManual(a)
      [] id = "jog_run"          -> JogRun(a)
      [] id = "star_delta"       -> StarDelta(a)
      [] id = "latch_alarm"      -> LatchAlarm(a)
      [] id = "first_out_alarm"  -> FirstOutAlarm(a)
      [] id = "duty_standby"     -> DutyStandby(a)
      [] id = "two_hand_safety"  -> TwoHand(a)
      [] id = "car_wash"         -> CarWash(a)
      [] id = "timed_traffic"    -> TimedTraffic(a)
      [] id = "batch_fill_mix_drain" -> Batch(a)
      [] id = "heat_treat"       -> HeatTreat(a)
      [] id = "plating_line"     -> PlatingLine(a)
      [] id = "weld_cell"        -> WeldCell(a)
      [] id = "conveyor_divert"  -> ConveyorDivert(a)
      [] id = "motion_home_move" -> MotionHomeMove(a)
      [] id = "press_muting"     -> PressMuting(a)
      [] id = "three_wire"       -> ThreeWire(a)
      [] id = "cascade_conveyor" -> CascadeConveyor(a)
      [] id = "overload_latch"   -> OverloadLatch(a)
      [] id = "guard_interlock"  -> GuardInterlock(a)
      [] id = "tower_lamp"       -> TowerLamp(a)
      [] id = "flasher"          -> Flasher(a)
      [] id = "one_shot"         -> OneShot(a)
      [] id = "conveyor_jam"     -> ConveyorJam(a)
      [] id = "retry_alarm"      -> RetryAlarm(a)
      [] id = "shutter_gate"     -> ShutterGate(a)
      [] id = "runtime_maint"    -> RuntimeMaint(a)

(* build_spec: the answers it accepts. *)
Accepted(id, a) == BothHands(id, a) /\ ValidSpec(BuildRecipe(id, a))
=============================================================================
