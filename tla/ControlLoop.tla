---------------------------- MODULE ControlLoop ----------------------------
(***************************************************************************)
(* The control loop of the firmware: the tasks that share the thermostat   *)
(* core, at the granularity of their accesses to shared memory, pins and   *)
(* queues.                                                                 *)
(*                                                                         *)
(*   SENSORS  overwrites the depth-1 queue g_q_sensor_samples              *)
(*   CONTROL  takes a sample, runs thermostat_core_process_sample, puts    *)
(*            the snapshot in the depth-1 queue g_q_thermostat_state and   *)
(*            drives the two relay pins                                    *)
(*   BUTTONS  serves one accepted press at a time: the setpoint, through   *)
(*            s_cfg_mutex, or the mode, through no lock at all             *)
(*   DISPLAY  takes the snapshot from its queue, which is then empty, and  *)
(*            writes it to the display, which takes milliseconds           *)
(*   main     calls thermostat_set_mode(AUTO) once, after it has started   *)
(*            the others                                                   *)
(*                                                                         *)
(* The ESP32 has two cores and no task is pinned, so any two tasks may     *)
(* interleave whatever their priorities are.  A depth-1 queue is the set   *)
(* of what it holds.  A local variable that is dead until it is next       *)
(* assigned is reset, so that it does not tell equal states apart.         *)
(*                                                                         *)
(* Debouncing and the button queue are in module Buttons: here any press   *)
(* may be accepted whenever BUTTONS waits.  The data fields of s_state     *)
(* (temperatures, setpoint, timestamp) are written by CONTROL only and     *)
(* read by no task in place: s_state is its mode and its output here, and  *)
(* of the snapshot CONTROL takes of it only the output is followed, the    *)
(* field that drives the pins.                                             *)
(***************************************************************************)
EXTENDS ThermostatLogic

CONSTANT
    \* thermostat.c:156 stores back the mode process_sample read at line 92.
    \* The variable is not volatile and the race is undefined behaviour: the
    \* compiler may keep the store (TRUE, as at -O0) or drop it (FALSE, as
    \* the image in the repository's build directory does): the outcomes
    \* considered.
    StoresMode

ASSUME StoresModeAssumption == StoresMode \subseteq BOOLEAN

VARIABLES
    s_cfg,              \* thermostat_config.c: the configuration
    s_cfg_mutex,        \* thermostat_config.c: who holds the mutex
    s_state,            \* thermostat.c: the core's mode and output
    g_q_sensor_samples, \* task_common.c
    g_q_thermostat_state,
    gpio,               \* the levels of GPIO_HEAT_OUTPUT and GPIO_COOL_OUTPUT
    dsp,                \* the snapshot DISPLAY holds, if any
    lcd,                \* the output the display's second row names, none
                        \* while the row is blank or being written
    \* CONTROL and the locals of task_control and process_sample
    ctl_pc, sample, zone, output, mode, th_state, prev_output,
    \* BUTTONS and the locals of apply_setpoint_delta and cycle_mode
    btn_pc, delta, btn_cfg, next,
    main_pc

ctlLocals == <<sample, zone, output, mode, th_state, prev_output>>
btnLocals == <<delta, btn_cfg, next>>
queues    == <<g_q_sensor_samples, g_q_thermostat_state>>
core      == <<s_cfg, s_cfg_mutex, s_state>>
display   == <<dsp, lcd>>

vars == <<core, queues, gpio, display, ctl_pc, ctlLocals, btn_pc, btnLocals, main_pc>>

CtlSteps == {"wait", "cfg_take", "cfg_copy", "rd_output", "rd_mode", "wr_output",
             "wr_mode", "cp_output", "publish", "heat_pin", "cool_pin"}
BtnSteps == {"wait", "get1_take", "get1_copy", "get2_take", "get2_copy",
             "set_take", "set_copy", "set_mode", "set_output"}

Init ==
    /\ s_cfg = DefaultConfig
    /\ s_cfg_mutex = "free"
    /\ s_state = [mode |-> "HEAT", output |-> "OFF"]
    /\ g_q_sensor_samples = {}
    /\ g_q_thermostat_state = {}
    /\ gpio = Levels("OFF")
    /\ dsp = {} /\ lcd = {}
    /\ ctl_pc = "wait" /\ sample = {} /\ zone = "none" /\ output = "OFF"
    /\ mode = "OFF" /\ th_state = "OFF" /\ prev_output = "OFF"
    /\ btn_pc = "wait" /\ delta = 0 /\ btn_cfg = DefaultConfig /\ next = "HEAT"
    /\ main_pc = "running"

-----------------------------------------------------------------------------
(***************************************************************************)
(* SENSORS.  One round of task_sensors whose drv_temp_read succeeded; a    *)
(* round that failed is reported to the log and touches nothing here.      *)
(***************************************************************************)
SensorRead ==
    /\ \E t \in Temps : g_q_sensor_samples' = {t}
    /\ UNCHANGED <<core, g_q_thermostat_state, gpio, display, ctl_pc, ctlLocals,
                   btn_pc, btnLocals, main_pc>>

-----------------------------------------------------------------------------
(***************************************************************************)
(* CONTROL.  othersOfCtl: what every step of CONTROL leaves alone.         *)
(***************************************************************************)
CtlGoto(from, to) == ctl_pc = from /\ ctl_pc' = to

othersOfCtl == <<display, btn_pc, btnLocals, main_pc>>

\* xQueueReceive(g_q_sensor_samples, ...), blocking until there is a sample.
CtlReceive ==
    /\ CtlGoto("wait", "cfg_take")
    /\ g_q_sensor_samples # {}
    /\ sample' = g_q_sensor_samples
    /\ g_q_sensor_samples' = {}
    /\ UNCHANGED <<core, g_q_thermostat_state, gpio, zone, output, mode, th_state,
                   prev_output, othersOfCtl>>

\* thermostat_config_get: take the mutex, ...
CtlTakeConfig ==
    /\ CtlGoto("cfg_take", "cfg_copy")
    /\ s_cfg_mutex = "free"
    /\ s_cfg_mutex' = "CONTROL"
    /\ UNCHANGED <<s_cfg, s_state, queues, gpio, ctlLocals, othersOfCtl>>

\* ... copy s_cfg and give the mutex back.  From here on the sample and the
\* copy matter only through the zone of the one in the other.
CtlCopyConfig ==
    /\ CtlGoto("cfg_copy", "rd_output")
    /\ \E t \in sample : zone' = Zone(t, s_cfg)
    /\ sample' = {}
    /\ s_cfg_mutex' = "free"
    /\ UNCHANGED <<s_cfg, s_state, queues, gpio, output, mode, th_state,
                   prev_output, othersOfCtl>>

\* output = s_state.output
CtlReadOutput ==
    /\ CtlGoto("rd_output", "rd_mode")
    /\ output' = s_state.output
    /\ UNCHANGED <<core, queues, gpio, sample, zone, mode, th_state, prev_output,
                   othersOfCtl>>

\* mode = s_state.mode, and the switch that decides the new output
CtlReadMode ==
    /\ CtlGoto("rd_mode", "wr_output")
    /\ mode' = s_state.mode
    /\ output' = Decide(s_state.mode, output, zone)
    /\ UNCHANGED <<core, queues, gpio, sample, zone, th_state, prev_output,
                   othersOfCtl>>

\* s_state.output = output
CtlWriteOutput ==
    /\ \E stored \in StoresMode :
          CtlGoto("wr_output", IF stored THEN "wr_mode" ELSE "cp_output")
    /\ s_state' = [s_state EXCEPT !.output = output]
    /\ UNCHANGED <<s_cfg, s_cfg_mutex, queues, gpio, ctlLocals, othersOfCtl>>

\* s_state.mode = mode
CtlWriteMode ==
    /\ CtlGoto("wr_mode", "cp_output")
    /\ s_state' = [s_state EXCEPT !.mode = mode]
    /\ UNCHANGED <<s_cfg, s_cfg_mutex, queues, gpio, ctlLocals, othersOfCtl>>

\* *out_state = s_state, of which the output
CtlCopyOutput ==
    /\ CtlGoto("cp_output", "publish")
    /\ th_state' = s_state.output
    /\ UNCHANGED <<core, queues, gpio, sample, zone, output, mode, prev_output,
                   othersOfCtl>>

CtlEndOfRound_KeepsPrev ==  \* mutant: prev_output is not updated
    /\ sample' = {} /\ zone' = "none" /\ output' = "OFF" /\ mode' = "OFF"
    /\ th_state' = "OFF"
    /\ UNCHANGED prev_output

\* The end of one iteration: the locals are dead until the next sample.
CtlEndOfRound ==
    /\ sample' = {} /\ zone' = "none" /\ output' = "OFF" /\ mode' = "OFF"
    /\ th_state' = "OFF"
    /\ prev_output' = th_state

CtlPublish_Decision ==      \* mutant: the decision is published, not the snapshot
    /\ ctl_pc = "publish"
    /\ g_q_thermostat_state' = {output}
    /\ \/ /\ th_state # prev_output
          /\ ctl_pc' = "heat_pin"
          /\ UNCHANGED ctlLocals
       \/ /\ th_state = prev_output
          /\ ctl_pc' = "wait"
          /\ CtlEndOfRound
    /\ UNCHANGED <<core, g_q_sensor_samples, gpio, othersOfCtl>>

\* xQueueOverwrite(g_q_thermostat_state, &th_state), then the comparison with
\* prev_output that decides whether the pins are driven.
CtlPublish ==
    /\ ctl_pc = "publish"
    /\ g_q_thermostat_state' = {th_state}
    /\ \/ /\ th_state # prev_output
          /\ ctl_pc' = "heat_pin"
          /\ UNCHANGED ctlLocals
       \/ /\ th_state = prev_output
          /\ ctl_pc' = "wait"
          /\ CtlEndOfRound
    /\ UNCHANGED <<core, g_q_sensor_samples, gpio, othersOfCtl>>

\* apply_outputs drives the pins one after the other.
CtlHeatPin ==
    /\ CtlGoto("heat_pin", "cool_pin")
    /\ gpio' = [gpio EXCEPT !.heat = Levels(th_state).heat]
    /\ UNCHANGED <<core, queues, ctlLocals, othersOfCtl>>

CtlCoolPin_HeatLevel ==     \* mutant: the heater's level on the cooler's pin
    /\ CtlGoto("cool_pin", "wait")
    /\ gpio' = [gpio EXCEPT !.cool = Levels(th_state).heat]
    /\ CtlEndOfRound
    /\ UNCHANGED <<core, queues, othersOfCtl>>

CtlCoolPin_OnlyCloses ==    \* mutant: the cooler's pin is driven for COOL_ON only
    /\ CtlGoto("cool_pin", "wait")
    /\ gpio' = [gpio EXCEPT !.cool = @ \/ Levels(th_state).cool]
    /\ CtlEndOfRound
    /\ UNCHANGED <<core, queues, othersOfCtl>>

CtlCoolPin ==
    /\ CtlGoto("cool_pin", "wait")
    /\ gpio' = [gpio EXCEPT !.cool = Levels(th_state).cool]
    /\ CtlEndOfRound
    /\ UNCHANGED <<core, queues, othersOfCtl>>

Control ==
    \/ CtlReceive \/ CtlTakeConfig \/ CtlCopyConfig
    \/ CtlReadOutput \/ CtlReadMode \/ CtlWriteOutput \/ CtlWriteMode
    \/ CtlCopyOutput \/ CtlPublish
    \/ CtlHeatPin \/ CtlCoolPin

-----------------------------------------------------------------------------
(***************************************************************************)
(* BUTTONS.                                                                *)
(***************************************************************************)
BtnGoto(from, to) == btn_pc = from /\ btn_pc' = to

othersOfBtn == <<queues, gpio, display, ctl_pc, ctlLocals, main_pc>>

\* An UP or DOWN event was received and is not a bounce.
BtnSetpointPress ==
    /\ BtnGoto("wait", "get1_take")
    /\ delta' \in {SetpointStep, -SetpointStep}
    /\ UNCHANGED <<core, btn_cfg, next, othersOfBtn>>

\* thermostat_config_get and thermostat_config_set begin with the mutex.
BtnTake(from, to) ==
    /\ BtnGoto(from, to)
    /\ s_cfg_mutex = "free"
    /\ s_cfg_mutex' = "BUTTONS"
    /\ UNCHANGED <<s_cfg, s_state, btnLocals, othersOfBtn>>

BtnTakeGet1 == BtnTake("get1_take", "get1_copy")
BtnTakeGet2 == BtnTake("get2_take", "get2_copy")
BtnTakeSet  == BtnTake("set_take", "set_copy")

BtnCopyGet1_NoGive ==       \* mutant: the mutex is not given back
    /\ BtnGoto("get1_copy", "get2_take")
    /\ btn_cfg' = [s_cfg EXCEPT !.setpoint_c = @ + delta]
    /\ UNCHANGED <<s_cfg, s_cfg_mutex, s_state, delta, next, othersOfBtn>>

\* The first thermostat_config_get, and the first cfg.setpoint_c += delta_c.
BtnCopyGet1 ==
    /\ BtnGoto("get1_copy", "get2_take")
    /\ btn_cfg' = [s_cfg EXCEPT !.setpoint_c = @ + delta]
    /\ s_cfg_mutex' = "free"
    /\ UNCHANGED <<s_cfg, s_state, delta, next, othersOfBtn>>

BtnCopyGet2_NoCopy ==       \* mutant: the delta is added a second time
    /\ BtnGoto("get2_copy", "set_take")
    /\ btn_cfg' = [btn_cfg EXCEPT !.setpoint_c = Clamp(@ + delta)]
    /\ s_cfg_mutex' = "free"
    /\ UNCHANGED <<s_cfg, s_state, delta, next, othersOfBtn>>

\* The second one overwrites the sum; then the delta again, and the limits.
BtnCopyGet2 ==
    /\ BtnGoto("get2_copy", "set_take")
    /\ btn_cfg' = [s_cfg EXCEPT !.setpoint_c = Clamp(@ + delta)]
    /\ s_cfg_mutex' = "free"
    /\ UNCHANGED <<s_cfg, s_state, delta, next, othersOfBtn>>

\* thermostat_config_set
BtnCopySet ==
    /\ BtnGoto("set_copy", "wait")
    /\ s_cfg' = btn_cfg
    /\ s_cfg_mutex' = "free"
    /\ btn_cfg' = DefaultConfig /\ delta' = 0
    /\ UNCHANGED <<s_state, next, othersOfBtn>>

\* A MODE event was accepted: cycle_mode reads the mode ...
BtnModePress ==
    /\ BtnGoto("wait", "set_mode")
    /\ next' = NextMode(s_state.mode)
    /\ UNCHANGED <<core, delta, btn_cfg, othersOfBtn>>

\* ... and calls thermostat_set_mode, which stores the mode ...
BtnSetMode ==
    /\ BtnGoto("set_mode", IF next = "OFF" THEN "set_output" ELSE "wait")
    /\ s_state' = [s_state EXCEPT !.mode = next]
    /\ next' = "HEAT"
    /\ UNCHANGED <<s_cfg, s_cfg_mutex, delta, btn_cfg, othersOfBtn>>

\* ... and, for OFF, the output.
BtnForceOff ==
    /\ BtnGoto("set_output", "wait")
    /\ s_state' = [s_state EXCEPT !.output = "OFF"]
    /\ UNCHANGED <<s_cfg, s_cfg_mutex, btnLocals, othersOfBtn>>

Buttons ==
    \/ BtnSetpointPress \/ BtnModePress
    \/ BtnTakeGet1 \/ BtnCopyGet1 \/ BtnTakeGet2 \/ BtnCopyGet2
    \/ BtnTakeSet \/ BtnCopySet
    \/ BtnSetMode \/ BtnForceOff

-----------------------------------------------------------------------------
\* The last statement of app_main.
MainSetAuto ==
    /\ main_pc = "running"
    /\ main_pc' = "done"
    /\ s_state' = [s_state EXCEPT !.mode = "AUTO"]
    /\ UNCHANGED <<s_cfg, s_cfg_mutex, queues, gpio, display, ctl_pc, ctlLocals,
                   btn_pc, btnLocals>>

-----------------------------------------------------------------------------
(***************************************************************************)
(* DISPLAY.                                                                *)
(***************************************************************************)
othersOfDsp == <<core, g_q_sensor_samples, gpio, ctl_pc, ctlLocals, btn_pc,
                 btnLocals, main_pc>>

\* xQueueReceive(g_q_thermostat_state, ...)
DisplayReceive ==
    /\ dsp = {} /\ g_q_thermostat_state # {}
    /\ dsp' = g_q_thermostat_state
    /\ g_q_thermostat_state' = {}
    /\ UNCHANGED <<lcd, othersOfDsp>>

\* drv_display_show_state begins to write the second row over an old text, ...
DisplayWrite ==
    /\ dsp # {} /\ lcd # {}
    /\ lcd' = {}
    /\ UNCHANGED <<queues, dsp, othersOfDsp>>

\* ... and has written it.
DisplayShow ==
    /\ dsp # {} /\ lcd = {}
    /\ lcd' = dsp
    /\ dsp' = {}
    /\ UNCHANGED <<queues, othersOfDsp>>

Display == DisplayReceive \/ DisplayWrite \/ DisplayShow

Next == SensorRead \/ Control \/ Buttons \/ MainSetAuto \/ Display

Spec == Init /\ [][Next]_vars

(***************************************************************************)
(* Fairness.  A ready task runs: the preemptive scheduler gives it a core. *)
(* The mutex is free again microseconds after it is taken while CONTROL    *)
(* asks for it once per sample (500 ms), so a waiter that finds it free    *)
(* again and again gets it: strong fairness of the three places that take  *)
(* it for BUTTONS and the one for CONTROL.  Nothing makes a person press a *)
(* button, and nothing makes the sensor answer: no fairness for            *)
(* BtnSetpointPress, BtnModePress and SensorRead.                          *)
(***************************************************************************)
Fairness ==
    /\ WF_vars(Control)
    /\ SF_vars(CtlTakeConfig)
    /\ WF_vars(BtnCopyGet1 \/ BtnCopyGet2 \/ BtnCopySet \/ BtnSetMode \/ BtnForceOff)
    /\ SF_vars(BtnTakeGet1 \/ BtnTakeGet2 \/ BtnTakeSet)
    /\ WF_vars(MainSetAuto)
    /\ WF_vars(Display)

FairSpec == Spec /\ Fairness
-----------------------------------------------------------------------------
(***************************************************************************)
(* Properties.                                                             *)
(***************************************************************************)
TypeOK ==
    /\ s_cfg \in Configs
    /\ s_cfg_mutex \in {"free", "CONTROL", "BUTTONS"}
    /\ s_state \in [mode : Modes, output : Outputs]
    /\ g_q_sensor_samples \in {{}} \cup {{t} : t \in Temps}
    /\ g_q_thermostat_state \in {{}} \cup {{o} : o \in Outputs}
    /\ gpio \in [heat : BOOLEAN, cool : BOOLEAN]
    /\ dsp \in {{}} \cup {{o} : o \in Outputs}
    /\ lcd \in {{}} \cup {{o} : o \in Outputs}
    /\ ctl_pc \in CtlSteps
    /\ sample \in {{}} \cup {{t} : t \in Temps}
    /\ zone \in Zones \cup {"none"}
    /\ output \in Outputs
    /\ mode \in Modes
    /\ th_state \in Outputs
    /\ prev_output \in Outputs
    /\ btn_pc \in BtnSteps
    /\ delta \in {SetpointStep, -SetpointStep, 0}
    /\ btn_cfg \in [setpoint_c : Int, hysteresis_c : {Hysteresis}]
    /\ next \in Modes
    /\ main_pc \in {"running", "done"}

\* What the loop is to its user: module ThermostatPromise, read off the
\* shared variables and the judgement CONTROL holds in its locals.
P == INSTANCE ThermostatPromise WITH
        setpoint <- s_cfg,
        mode     <- s_state.mode,
        judged   <- [zone |-> zone,
                     mode |-> IF ctl_pc \in {"wait", "cfg_take", "cfg_copy",
                                             "rd_output", "rd_mode"}
                              THEN "unread" ELSE mode],
        relays   <- gpio

\* The two pins close, and the setpoint moves, only as ThermostatPromise
\* allows, whatever the tasks interleave: a relay never closes for a reading
\* inside the band, on a stale output, or in a mode that excludes it.
KeepsPromise == P!PSpec

\* Between two rounds of CONTROL the pins show the core's output, except that
\* the core may already be OFF (task_control.c:149-169, thermostat.c:194).
CoreDiffersOnlyTowardsOff ==
    ctl_pc = "wait" => gpio = Levels(s_state.output) \/ s_state.output = "OFF"

\* What CONTROL has published last: it waits in the mailbox, or DISPLAY has it
\* in hand, or the display shows it.
Newest ==
    IF g_q_thermostat_state # {} THEN g_q_thermostat_state
    ELSE IF dsp # {} THEN dsp ELSE lcd

\* Between two rounds the newest snapshot on its way to the display names the
\* output the pins really have, so the display comes to tell the truth as soon
\* as DISPLAY has nothing left to do, and not before (task_control.c:136-150,
\* task_display.c:39-50).
DisplayTellsRelays == ctl_pc = "wait" => \A o \in Newest : gpio = Levels(o)

\* Both relays are closed together only between the two pin writes of a round
\* that goes from cooling to heating: never between rounds, and never for
\* longer than CONTROL needs for its next step (task_control.c:87-88, 149-169).
BothOnlyInPassing ==
    gpio.heat /\ gpio.cool =>
        ctl_pc = "cool_pin" /\ prev_output = "COOL_ON" /\ th_state = "HEAT_ON"

\* A round that has read the mode OFF ends with both relays open, whatever
\* BUTTONS and main do meanwhile (thermostat.c:96-99 through task_control.c:169).
OffRoundOpensRelays ==
    [][ctl_pc # "wait" /\ ctl_pc' = "wait" /\ mode = "OFF"
         => gpio' = Levels("OFF")]_vars

\* After the snapshot is taken an output that does not belong to the mode of
\* the round was not started by it: it is what the relays already had, and
\* the reading is inside the band (thermostat.c:110-112 and 124-126: "keep").
WrongWayOnlyKept ==
    ctl_pc = "publish" =>
        \A o \in {"HEAT_ON", "COOL_ON"} :
            /\ th_state = o
            /\ mode \notin (IF o = "HEAT_ON" THEN MayHeat ELSE MayCool)
            => zone = "band" /\ prev_output = o

\* Every round of CONTROL and every press BUTTONS has accepted come to their
\* end: neither task keeps the other out of s_cfg_mutex for ever.
CallsReturn ==
    /\ ctl_pc # "wait" ~> ctl_pc = "wait"
    /\ btn_pc # "wait" ~> btn_pc = "wait"

\* If the mode is OFF from some point on and samples keep coming, the relays
\* are open from some point on (thermostat.c:192-195, task_control.c:126-169).
OffPrevails ==
    /\ <>[](s_state.mode = "OFF")
    /\ []<>(g_q_sensor_samples # {})
    => <>[](gpio = Levels("OFF"))
-----------------------------------------------------------------------------
(***************************************************************************)
(* What a comment of the source says and the code does not do, checked by  *)
(* a run that expects its violation.                                       *)
(***************************************************************************)

\* thermostat.c:192 "In OFF mode, force outputs OFF immediately": once
\* thermostat_set_mode(OFF) is over and CONTROL is between two samples.
OffForcesOutput ==
    s_state.mode = "OFF" /\ btn_pc # "set_output" /\ ctl_pc = "wait"
        => s_state.output = "OFF"
=============================================================================
