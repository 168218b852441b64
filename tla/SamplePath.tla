----------------------------- MODULE SamplePath -----------------------------
(***************************************************************************)
(* The way of a sample from SENSORS (module Sensors) through the two       *)
(* mailboxes to CONTROL and to the display, in ticks.  A sample, and the   *)
(* snapshot CONTROL makes from it, are known by their age: the ticks since *)
(* SENSORS published the sample.  A mailbox, a hand, the display hold one  *)
(* or none.                                                                *)
(*                                                                         *)
(* What CONTROL decides is module ControlLoop's.  A receive is served      *)
(* within the tick; CONTROL is at its next receive ControlTicks later at   *)
(* the most, and DISPLAY DisplayTicks later (7 ms of nibbles for the two   *)
(* rows).                                                                  *)
(***************************************************************************)
EXTENDS Sensors

CONSTANTS ControlTicks, DisplayTicks

\* Two samples follow each other no faster than a period less the timeouts.
ASSUME PathAssumption ==
    /\ {ControlTicks, DisplayTicks} \subseteq Nat
    /\ ControlTicks + DisplayTicks < PeriodTicks - 2 * CommandTimeout

VARIABLES
    g_q_sensor_samples,
    ctl,                    \* the sample CONTROL works on
    ctl_for,                \* for so many ticks
    g_q_thermostat_state,
    dsp,                    \* the snapshot DISPLAY works on
    dsp_for,
    shown                   \* the one on the display

path     == <<g_q_sensor_samples, ctl, ctl_for, g_q_thermostat_state, dsp, dsp_for, shown>>
pathVars == <<vars, path>>

\* Ages are followed as far as quiet is.
MaxAge == LongestQuiet + 1
Older(held) == {IF age < MaxAge THEN age + 1 ELSE age : age \in held}

PathInit ==
    /\ Init
    /\ g_q_sensor_samples = {} /\ ctl = {} /\ ctl_for = 0
    /\ g_q_thermostat_state = {} /\ dsp = {} /\ dsp_for = 0
    /\ shown = {}

PathTick ==
    /\ Tick
    /\ IF ctl = {} THEN g_q_sensor_samples = {} ELSE ctl_for < ControlTicks
    /\ IF dsp = {} THEN g_q_thermostat_state = {} ELSE dsp_for < DisplayTicks
    /\ g_q_sensor_samples' = Older(g_q_sensor_samples)
    /\ ctl' = Older(ctl)
    /\ ctl_for' = IF ctl = {} THEN 0 ELSE ctl_for + 1
    /\ g_q_thermostat_state' = Older(g_q_thermostat_state)
    /\ dsp' = Older(dsp)
    /\ dsp_for' = IF dsp = {} THEN 0 ELSE dsp_for + 1
    /\ shown' = Older(shown)

\* A round whose reading did not fail ends with xQueueOverwrite.
Publish ==
    /\ ReadBytes(TRUE)
    /\ g_q_sensor_samples' = {0}
    /\ UNCHANGED <<ctl, ctl_for, g_q_thermostat_state, dsp, dsp_for, shown>>

\* Anything else SENSORS or the bus does.
Elsewhere ==
    /\ BusChange \/ ReadBytes(FALSE) \/ (pc # "read" /\ SensorsStep)
    /\ UNCHANGED path

CtlReceive_Peek ==      \* mutant: xQueuePeek
    /\ ctl = {} /\ g_q_sensor_samples # {}
    /\ ctl' = g_q_sensor_samples /\ ctl_for' = 0
    /\ UNCHANGED <<vars, g_q_sensor_samples, g_q_thermostat_state, dsp, dsp_for, shown>>

CtlReceive ==
    /\ ctl = {} /\ g_q_sensor_samples # {}
    /\ ctl' = g_q_sensor_samples /\ ctl_for' = 0
    /\ g_q_sensor_samples' = {}
    /\ UNCHANGED <<vars, g_q_thermostat_state, dsp, dsp_for, shown>>

CtlPublish_OnChange ==  \* mutant: a snapshot whose output is the old one is kept back
    /\ ctl # {}
    /\ g_q_thermostat_state' \in {g_q_thermostat_state, ctl}
    /\ ctl' = {} /\ ctl_for' = 0
    /\ UNCHANGED <<vars, g_q_sensor_samples, dsp, dsp_for, shown>>

\* xQueueOverwrite of the snapshot, and the rest of the round.
CtlPublish ==
    /\ ctl # {}
    /\ g_q_thermostat_state' = ctl
    /\ ctl' = {} /\ ctl_for' = 0
    /\ UNCHANGED <<vars, g_q_sensor_samples, dsp, dsp_for, shown>>

DspReceive ==
    /\ dsp = {} /\ g_q_thermostat_state # {}
    /\ dsp' = g_q_thermostat_state /\ dsp_for' = 0
    /\ g_q_thermostat_state' = {}
    /\ UNCHANGED <<vars, g_q_sensor_samples, ctl, ctl_for, shown>>

\* The end of drv_display_show_state.
DspShow ==
    /\ dsp # {}
    /\ shown' = dsp
    /\ dsp' = {} /\ dsp_for' = 0
    /\ UNCHANGED <<vars, g_q_sensor_samples, ctl, ctl_for, g_q_thermostat_state>>

PathNext ==
    \/ PathTick
    \/ Publish \/ Elsewhere
    \/ CtlReceive \/ CtlPublish \/ DspReceive \/ DspShow

PathSpec == PathInit /\ [][PathNext]_pathVars

\* Time passes and ready tasks run.
PathFairSpec ==
    /\ PathSpec
    /\ WF_pathVars(PathTick)
    /\ WF_pathVars(Publish \/ (SensorsStep /\ Elsewhere))
    /\ WF_pathVars(CtlReceive \/ CtlPublish)
    /\ WF_pathVars(DspReceive \/ DspShow)
-----------------------------------------------------------------------------
Holders == {{}} \cup {{age} : age \in 0 .. MaxAge}

PathTypeOK ==
    /\ TypeOK
    /\ g_q_sensor_samples \in Holders /\ ctl \in Holders
    /\ g_q_thermostat_state \in Holders /\ dsp \in Holders /\ shown \in Holders
    /\ ctl_for \in 0 .. ControlTicks /\ dsp_for \in 0 .. DisplayTicks

\* No sample is overwritten before CONTROL has taken it, and no snapshot
\* before DISPLAY has: however the timeouts of the bus squeeze two rounds
\* together, the mailboxes are empty again by then, and what waits in one
\* only grows older (task_sensors.c:53-57, task_control.c:145).
NothingOverwritten ==
    [][\A box \in {<<g_q_sensor_samples, g_q_sensor_samples'>>,
                   <<g_q_thermostat_state, g_q_thermostat_state'>>} :
          \A before \in box[1], after \in box[2] : after >= before]_pathVars

\* The display names the newest sample from the end of the ticks on that
\* CONTROL and DISPLAY need (task_control.c:136-146, task_display.c:39-50),
\* whether its output is a new one or not.
DisplayCatchesUp ==
    sample # "none" /\ quiet > ControlTicks + DisplayTicks => shown = {quiet}
=============================================================================
