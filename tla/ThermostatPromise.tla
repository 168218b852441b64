------------------------- MODULE ThermostatPromise -------------------------
(***************************************************************************)
(* What the firmware promises about its two relays and its setpoint,       *)
(* without tasks, queues, locks or copies:                                 *)
(*                                                                         *)
(*   - one accepted press moves the setpoint by one step, or to the limit  *)
(*     it would have crossed, and nothing else moves it;                   *)
(*   - a relay closes only on the strength of a judgement: a reading was   *)
(*     on the wrong side of the band around a setpoint that was in force,  *)
(*     and a mode in which that relay may be used was in force after that; *)
(*   - a relay may open at any time.                                       *)
(*                                                                         *)
(* A judgement has two instants on purpose.  The firmware looks at the     *)
(* setpoint and at the mode at different moments, and a press may fall in  *)
(* between; a specification with one instant would promise too much.       *)
(***************************************************************************)
EXTENDS ThermostatLogic

VARIABLES
    setpoint,   \* the configuration in force
    mode,       \* the mode in force
    judged,     \* the zone of the reading under judgement and, once it has
                \* been looked at, the mode it is judged in
    relays      \* [heat |-> closed?, cool |-> closed?]

pvars == <<setpoint, mode, judged, relays>>

\* "none": no reading judged; "unread": the mode has not been looked at yet.
Unjudged  == [zone |-> "none", mode |-> "unread"]
Judgments == [zone : Zones, mode : Modes \cup {"unread"}] \cup {Unjudged}

PInit ==
    /\ setpoint = DefaultConfig
    /\ mode = "HEAT"
    /\ judged = Unjudged
    /\ relays = Levels("OFF")

Adjust ==
    /\ \E delta \in {SetpointStep, -SetpointStep} :
          setpoint' = [setpoint EXCEPT !.setpoint_c = Clamp(@ + delta)]
    /\ UNCHANGED <<mode, judged, relays>>

ChangeMode ==
    /\ mode' \in Modes
    /\ UNCHANGED <<setpoint, judged, relays>>

JudgeReading ==
    /\ judged = Unjudged
    /\ \E t \in Temps : judged' = [zone |-> Zone(t, setpoint), mode |-> "unread"]
    /\ UNCHANGED <<setpoint, mode, relays>>

JudgeMode ==
    /\ judged.zone # "none"
    /\ judged' = [judged EXCEPT !.mode = mode]
    /\ UNCHANGED <<setpoint, mode, relays>>

Forget ==
    /\ judged' = Unjudged
    /\ UNCHANGED <<setpoint, mode, relays>>

\* A relay that changes may close the judgement in the same instant.
SwitchHeat ==
    /\ \E on \in BOOLEAN :
          /\ on => judged.zone = "below" /\ judged.mode \in MayHeat
          /\ relays' = [relays EXCEPT !.heat = on]
    /\ judged' \in {judged, Unjudged}
    /\ UNCHANGED <<setpoint, mode>>

SwitchCool ==
    /\ \E on \in BOOLEAN :
          /\ on => judged.zone = "above" /\ judged.mode \in MayCool
          /\ relays' = [relays EXCEPT !.cool = on]
    /\ judged' \in {judged, Unjudged}
    /\ UNCHANGED <<setpoint, mode>>

PNext ==
    \/ Adjust \/ ChangeMode
    \/ JudgeReading \/ JudgeMode \/ Forget
    \/ SwitchHeat \/ SwitchCool

PSpec == PInit /\ [][PNext]_pvars
=============================================================================
