-------------------------- MODULE ThermostatLogic --------------------------
(***************************************************************************)
(* The pure part of the thermostat: the decision table of                  *)
(* thermostat_core_process_sample, the mode cycle and the setpoint clamp   *)
(* of the buttons task, and the pin levels of apply_outputs.               *)
(*                                                                         *)
(* Temperatures, setpoints and the hysteresis are integers that count half *)
(* degrees.  Every constant of core/config.h is a multiple of 0.5 C, which *)
(* a float holds exactly, so sums and comparisons of these values are the  *)
(* exact ones; a reading between two half degrees falls in the same zone   *)
(* as some integer of Temps.                                               *)
(***************************************************************************)
EXTENDS Integers

CONSTANTS
    SetpointMin,        \* THERMOSTAT_SP_MIN_C
    SetpointMax,        \* THERMOSTAT_SP_MAX_C
    SetpointStep,       \* THERMOSTAT_SP_STEP_C
    SetpointDefault,    \* THERMOSTAT_SETPOINT_C
    Hysteresis,         \* THERMOSTAT_HYSTERESIS_C
    Temps               \* the indoor readings the sensor may deliver

ASSUME LogicAssumption ==
    /\ {SetpointMin, SetpointMax, SetpointDefault} \subseteq Int
    /\ SetpointMin <= SetpointDefault
    /\ SetpointDefault <= SetpointMax
    /\ SetpointStep \in Nat \ {0}
    /\ Hysteresis \in Nat
    /\ Temps \subseteq Int
    /\ Temps # {}

Modes   == {"OFF", "HEAT", "COOL", "AUTO"}
Outputs == {"OFF", "HEAT_ON", "COOL_ON"}

\* s_cfg: apply_setpoint_delta copies the hysteresis back as it found it.
Setpoints == SetpointMin .. SetpointMax
Configs   == [setpoint_c : Setpoints, hysteresis_c : {Hysteresis}]
DefaultConfig == [setpoint_c |-> SetpointDefault, hysteresis_c |-> Hysteresis]

(***************************************************************************)
(* Where a reading lies relative to the band.  Both comparisons of the     *)
(* code are strict: the two ends belong to the band.                       *)
(***************************************************************************)
Zones == {"below", "band", "above"}

Zone(t, c) ==
    CASE t < c.setpoint_c - c.hysteresis_c -> "below"
      [] t > c.setpoint_c + c.hysteresis_c -> "above"
      [] OTHER                             -> "band"

Decide_OffKeeps(mode, previous, zone) ==    \* mutant: no case for OFF
    CASE mode = "OFF"                             -> previous
      [] mode \in {"HEAT", "AUTO"} /\ zone = "below" -> "HEAT_ON"
      [] mode \in {"COOL", "AUTO"} /\ zone = "above" -> "COOL_ON"
      [] mode \in {"HEAT", "COOL"} /\ zone = "band"  -> previous
      [] OTHER                                    -> "OFF"

Decide_CoolKeeps(mode, previous, zone) ==   \* mutant: COOL never switches off
    CASE mode \in {"HEAT", "AUTO"} /\ zone = "below" -> "HEAT_ON"
      [] mode \in {"COOL", "AUTO"} /\ zone = "above" -> "COOL_ON"
      [] mode = "COOL"                            -> previous
      [] mode = "HEAT" /\ zone = "band"           -> previous
      [] OTHER                                    -> "OFF"

(***************************************************************************)
(* The switch of thermostat_core_process_sample: the new output, from the  *)
(* mode, the previous output and the zone of the reading.                  *)
(***************************************************************************)
Decide(mode, previous, zone) ==
    CASE mode = "OFF"                       -> "OFF"
      [] mode = "HEAT" /\ zone = "below"    -> "HEAT_ON"
      [] mode = "HEAT" /\ zone = "above"    -> "OFF"
      [] mode = "HEAT" /\ zone = "band"     -> previous
      [] mode = "COOL" /\ zone = "above"    -> "COOL_ON"
      [] mode = "COOL" /\ zone = "below"    -> "OFF"
      [] mode = "COOL" /\ zone = "band"     -> previous
      [] mode = "AUTO" /\ zone = "below"    -> "HEAT_ON"
      [] mode = "AUTO" /\ zone = "above"    -> "COOL_ON"
      [] mode = "AUTO" /\ zone = "band"     -> "OFF"

\* cycle_mode
NextMode(mode) ==
    CASE mode = "HEAT" -> "COOL"
      [] mode = "COOL" -> "OFF"
      [] mode = "OFF"  -> "AUTO"
      [] mode = "AUTO" -> "HEAT"

Clamp_NoMin(setpoint) ==    \* mutant: only the upper limit
    IF setpoint > SetpointMax THEN SetpointMax ELSE setpoint

\* The limits apply_setpoint_delta imposes after adding its delta.
Clamp(setpoint) ==
    IF setpoint < SetpointMin THEN SetpointMin
    ELSE IF setpoint > SetpointMax THEN SetpointMax
    ELSE setpoint

\* The pin levels apply_outputs derives from an output.
Levels(output) == [heat |-> output = "HEAT_ON", cool |-> output = "COOL_ON"]

\* The modes in which a sample may make the core ask for an output.
MayHeat == {"HEAT", "AUTO"}
MayCool == {"COOL", "AUTO"}
=============================================================================
