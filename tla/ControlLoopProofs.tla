------------------------- MODULE ControlLoopProofs -------------------------
(***************************************************************************)
(* Theorems about ControlLoop, for every band, setpoint range and set of   *)
(* readings, and for either treatment of the racy store of the mode.       *)
(*                                                                         *)
(* No single property is inductive: what holds between two rounds of       *)
(* CONTROL depends on what the locals held inside the round.  LoopInv says *)
(* how the locals, the core, the pins and the queues are related at every  *)
(* step of a round; PublishInv says it of what the display has or will     *)
(* have.  LoopInv is inductive by itself, which module BootProofs needs: a *)
(* restart keeps it, and leaves an old text on the display.                *)
(***************************************************************************)
EXTENDS ControlLoop, TLAPS

\* The steps of a round, by how far it has come.
Undecided == {"wait", "cfg_take", "cfg_copy", "rd_output", "rd_mode"}
Unstored  == Undecided \cup {"wr_output"}
Driving   == {"publish", "heat_pin", "cool_pin"}

\* A reading has been placed in the band once the configuration is copied.
ZoneInv == (zone = "none") <=> ctl_pc \in {"wait", "cfg_take", "cfg_copy"}

\* The decision in hand was made from the output the relays have, or from OFF.
DecisionInv ==
    /\ ctl_pc = "rd_mode" => output \in {prev_output, "OFF"}
    /\ ctl_pc \notin Undecided =>
          \E o \in {prev_output, "OFF"} : output = Decide(mode, o, zone)

\* The core's output is what CONTROL last made it, or OFF: before the store
\* the output of the relays, then the decision, then the snapshot.
CommandInv ==
    /\ ctl_pc \in Unstored => s_state.output \in {prev_output, "OFF"}
    /\ ctl_pc \in {"wr_mode", "cp_output"} => s_state.output \in {output, "OFF"}
    /\ ctl_pc \in Driving => /\ th_state \in {output, "OFF"}
                             /\ s_state.output \in {th_state, "OFF"}

\* The pins have the levels of prev_output, except between the two writes.
PinInv ==
    IF ctl_pc = "cool_pin"
    THEN gpio = [heat |-> Levels(th_state).heat, cool |-> Levels(prev_output).cool]
    ELSE gpio = Levels(prev_output)

\* The output CONTROL drives, or has driven last.
Driven == IF ctl_pc \in {"heat_pin", "cool_pin"} THEN th_state ELSE prev_output

\* The snapshot in the mailbox is of that output, ...
MailboxInv == \A o \in g_q_thermostat_state : o = Driven

\* ... and so is the newest one, wherever it is.
PublishInv == \A o \in Newest : o = Driven

\* A press on its way knows its direction, and from its second copy of the
\* configuration on it carries the setpoint it will store.
PressInv ==
    /\ btn_pc \in {"get1_take", "get1_copy", "get2_take", "get2_copy",
                   "set_take", "set_copy"} => delta \in {SetpointStep, -SetpointStep}
    /\ btn_pc \in {"set_take", "set_copy"} =>
          btn_cfg = [s_cfg EXCEPT !.setpoint_c = Clamp(@ + delta)]

LoopInv ==
    /\ TypeOK
    /\ ZoneInv /\ DecisionInv /\ CommandInv /\ PinInv /\ MailboxInv /\ PressInv

IInv == LoopInv /\ PublishInv

-----------------------------------------------------------------------------
(***************************************************************************)
(* The operators of ThermostatLogic.                                       *)
(***************************************************************************)

\* The limits apply_setpoint_delta imposes are limits: whatever the sum, the
\* setpoint stored is one of the allowed ones.
LEMMA ClampType == ASSUME NEW s \in Int PROVE Clamp(s) \in Setpoints
BY LogicAssumption DEF Clamp, Setpoints

\* The three branches of the decision cover every reading.
LEMMA ZoneType == ASSUME NEW t, NEW c PROVE Zone(t, c) \in Zones
BY DEF Zone, Zones

\* The mode switch of process_sample always produces an output.
LEMMA DecideType ==
    ASSUME NEW m \in Modes, NEW o \in Outputs, NEW z \in Zones
    PROVE  Decide(m, o, z) \in Outputs
BY DEF Modes, Outputs, Zones, Decide

\* An output of the decision that its previous output does not explain was
\* asked for by the zone, in a mode that allows it.
LEMMA DecideCause ==
    ASSUME NEW m \in Modes, NEW o \in Outputs, NEW z \in Zones
    PROVE  /\ Decide(m, o, z) = "HEAT_ON" =>
                 \/ z = "below" /\ m \in MayHeat
                 \/ o = "HEAT_ON" /\ z = "band" /\ m # "OFF"
           /\ Decide(m, o, z) = "COOL_ON" =>
                 \/ z = "above" /\ m \in MayCool
                 \/ o = "COOL_ON" /\ z = "band" /\ m # "OFF"
           /\ m = "OFF" => Decide(m, o, z) = "OFF"
BY DEF Modes, Outputs, Zones, Decide, MayHeat, MayCool

\* The cycle of the mode button stays among the four modes.
LEMMA NextModeType == ASSUME NEW m \in Modes PROVE NextMode(m) \in Modes
BY DEF Modes, NextMode

\* Every output gives two Boolean levels.
LEMMA LevelsType == ASSUME NEW o PROVE Levels(o) \in [heat : BOOLEAN, cool : BOOLEAN]
BY DEF Levels
-----------------------------------------------------------------------------
(***************************************************************************)
(* Type correctness.                                                       *)
(***************************************************************************)

\* The values thermostat_core_init and the tasks start with are of their types.
LEMMA InitTypeOK == Init => TypeOK
BY LogicAssumption, LevelsType
   DEF Init, TypeOK, DefaultConfig, Configs, Setpoints, Modes, Outputs, CtlSteps, BtnSteps

\* A step from a state of the invariant has values of the right types: the
\* decision is defined because a reading was placed in the band before, the
\* stored configuration is in range because it is a clamped one.
LEMMA NextTypeOK == LoopInv /\ [Next]_vars => TypeOK'
<1> SUFFICES ASSUME TypeOK, ZoneInv, PressInv, [Next]_vars
             PROVE  TypeOK'
  BY DEF LoopInv
<1> USE DEF TypeOK, core, display, queues, ctlLocals, btnLocals, othersOfCtl, othersOfBtn
<1>1. CASE SensorRead
  BY <1>1 DEF SensorRead
<1>2. CASE Control
  <2> USE DEF CtlGoto, CtlSteps
  <2>1. CASE CtlReceive
    BY <2>1 DEF CtlReceive
  <2>2. CASE CtlTakeConfig
    BY <2>2 DEF CtlTakeConfig
  <2>3. CASE CtlCopyConfig
    BY <2>3, ZoneType DEF CtlCopyConfig
  <2>4. CASE CtlReadOutput
    BY <2>4 DEF CtlReadOutput
  <2>5. CASE CtlReadMode
    BY <2>5, DecideType DEF CtlReadMode, ZoneInv
  <2>6. CASE CtlWriteOutput
    BY <2>6 DEF CtlWriteOutput
  <2>7. CASE CtlWriteMode
    BY <2>7 DEF CtlWriteMode
  <2>8. CASE CtlCopyOutput
    BY <2>8 DEF CtlCopyOutput
  <2>9. CASE CtlPublish
    BY <2>9 DEF CtlPublish, CtlEndOfRound, Outputs, Modes
  <2>10. CASE CtlHeatPin
    BY <2>10, ZenonT(60) DEF CtlHeatPin, Levels
  <2>11. CASE CtlCoolPin
    <3>1. gpio' \in [heat : BOOLEAN, cool : BOOLEAN]
      BY <2>11 DEF CtlCoolPin, Levels
    <3> QED
      BY <2>11, <3>1 DEF CtlCoolPin, CtlEndOfRound, Outputs, Modes
  <2> QED
    BY <1>2, <2>1, <2>2, <2>3, <2>4, <2>5, <2>6, <2>7, <2>8, <2>9, <2>10, <2>11
       DEF Control
<1>3. CASE Buttons
  <2> USE DEF BtnGoto, BtnSteps
  <2>1. CASE BtnSetpointPress
    BY <2>1 DEF BtnSetpointPress
  <2>2. CASE BtnModePress
    BY <2>2, NextModeType DEF BtnModePress
  <2>3. CASE BtnTakeGet1 \/ BtnTakeGet2 \/ BtnTakeSet
    BY <2>3 DEF BtnTakeGet1, BtnTakeGet2, BtnTakeSet, BtnTake
  <2>4. CASE BtnCopyGet1
    <3>1. btn_cfg' \in [setpoint_c : Int, hysteresis_c : {Hysteresis}]
      BY <2>4, LogicAssumption DEF BtnCopyGet1, Configs, Setpoints
    <3> QED
      BY <2>4, <3>1 DEF BtnCopyGet1
  <2>5. CASE BtnCopyGet2
    <3>1. s_cfg.setpoint_c + delta \in Int
      BY LogicAssumption DEF Configs, Setpoints
    <3>2. btn_cfg' \in [setpoint_c : Int, hysteresis_c : {Hysteresis}]
      BY <2>5, <3>1, ClampType DEF BtnCopyGet2, Configs, Setpoints
    <3> QED
      BY <2>5, <3>2 DEF BtnCopyGet2
  <2>6. CASE BtnCopySet
    <3>1. btn_cfg \in Configs
      <4>1. s_cfg.setpoint_c + delta \in Int
        BY LogicAssumption DEF Configs, Setpoints
      <4> QED
        BY <2>6, <4>1, ClampType DEF BtnCopySet, PressInv, Configs
    <3>2. DefaultConfig \in [setpoint_c : Int, hysteresis_c : {Hysteresis}]
      BY LogicAssumption DEF DefaultConfig
    <3> QED
      BY <2>6, <3>1, <3>2 DEF BtnCopySet
  <2>7. CASE BtnSetMode
    BY <2>7 DEF BtnSetMode, Modes
  <2>8. CASE BtnForceOff
    BY <2>8 DEF BtnForceOff, Outputs
  <2> QED
    BY <1>3, <2>1, <2>2, <2>3, <2>4, <2>5, <2>6, <2>7, <2>8 DEF Buttons
<1>4. CASE MainSetAuto
  BY <1>4 DEF MainSetAuto, Modes
<1>5. CASE Display
  BY <1>5 DEF Display, DisplayReceive, DisplayWrite, DisplayShow, othersOfDsp
<1>6. CASE UNCHANGED vars
  BY <1>6 DEF vars
<1> QED
  BY <1>1, <1>2, <1>3, <1>4, <1>5, <1>6 DEF Next
-----------------------------------------------------------------------------
(***************************************************************************)
(* The inductive invariant.                                                *)
(***************************************************************************)

\* At the start no round and no press is under way, and the relays are open.
LEMMA InitIInv == Init => IInv
BY InitTypeOK
   DEF Init, IInv, LoopInv, ZoneInv, DecisionInv, CommandInv, PinInv, MailboxInv,
       PublishInv, Newest, PressInv, Undecided, Unstored, Driving

\* What a round decides and stores: every step keeps the relation between
\* the decision, the core's output and the snapshot.
LEMMA NextRoundInv ==
    LoopInv /\ [Next]_vars => (ZoneInv /\ DecisionInv /\ CommandInv)'
<1> SUFFICES ASSUME LoopInv, [Next]_vars
             PROVE  (ZoneInv /\ DecisionInv /\ CommandInv)'
  OBVIOUS
<1> USE DEF LoopInv, ZoneInv, DecisionInv, CommandInv, Undecided, Unstored, Driving,
            core, display, queues, ctlLocals, btnLocals, othersOfCtl, othersOfBtn, CtlSteps
<1>t. /\ TypeOK
      /\ s_state = [mode |-> s_state.mode, output |-> s_state.output]
  BY DEF TypeOK
<1>1. CASE SensorRead
  BY <1>1 DEF SensorRead
<1>2. CASE Control
  <2> USE DEF CtlGoto
  <2>1. CASE CtlReceive
    BY <2>1 DEF CtlReceive
  <2>2. CASE CtlTakeConfig
    BY <2>2 DEF CtlTakeConfig
  <2>3. CASE CtlCopyConfig
    <3>1. zone' \in Zones
      BY <2>3, ZoneType DEF CtlCopyConfig
    <3> QED
      BY <2>3, <3>1 DEF CtlCopyConfig, Zones
  <2>4. CASE CtlReadOutput
    BY <2>4 DEF CtlReadOutput
  <2>5. CASE CtlReadMode
    BY <2>5 DEF CtlReadMode
  <2>6. CASE CtlWriteOutput
    BY <2>6, <1>t DEF CtlWriteOutput
  <2>7. CASE CtlWriteMode
    BY <2>7, <1>t DEF CtlWriteMode
  <2>8. CASE CtlCopyOutput
    BY <2>8 DEF CtlCopyOutput
  <2>9. CASE CtlPublish
    BY <2>9 DEF CtlPublish, CtlEndOfRound
  <2>10. CASE CtlHeatPin
    BY <2>10 DEF CtlHeatPin
  <2>11. CASE CtlCoolPin
    BY <2>11 DEF CtlCoolPin, CtlEndOfRound
  <2> QED
    BY <1>2, <2>1, <2>2, <2>3, <2>4, <2>5, <2>6, <2>7, <2>8, <2>9, <2>10, <2>11
       DEF Control
<1>3. CASE Buttons
  <2>1. CASE BtnSetMode
    BY <2>1, <1>t DEF BtnSetMode
  <2>2. CASE BtnForceOff
    BY <2>2, <1>t DEF BtnForceOff
  <2>3. CASE ~BtnSetMode /\ ~BtnForceOff
    BY <1>3, <2>3 DEF Buttons, BtnSetpointPress, BtnModePress, BtnTakeGet1, BtnTakeGet2,
                      BtnTakeSet, BtnTake, BtnCopyGet1, BtnCopyGet2, BtnCopySet
  <2> QED
    BY <2>1, <2>2, <2>3
<1>4. CASE MainSetAuto
  BY <1>4, <1>t DEF MainSetAuto
<1>5. CASE Display
  BY <1>5 DEF Display, DisplayReceive, DisplayWrite, DisplayShow, othersOfDsp
<1>6. CASE UNCHANGED vars
  BY <1>6 DEF vars
<1> QED
  BY <1>1, <1>2, <1>3, <1>4, <1>5, <1>6 DEF Next

\* What a round drives, and puts in the mailbox.
LEMMA NextDriveInv == LoopInv /\ [Next]_vars => (PinInv /\ MailboxInv)'
<1> SUFFICES ASSUME TypeOK, PinInv, MailboxInv, [Next]_vars
             PROVE  (PinInv /\ MailboxInv)'
  BY DEF LoopInv
<1> USE DEF PinInv, MailboxInv, Driven, core, display, queues, ctlLocals, btnLocals, othersOfCtl,
            othersOfBtn
<1>1. CASE SensorRead
  BY <1>1 DEF SensorRead
<1>2. CASE Control
  <2> USE DEF CtlGoto
  <2>1. CASE CtlPublish
    BY <2>1 DEF CtlPublish, CtlEndOfRound
  <2>2. CASE CtlHeatPin
    <3>1. gpio' = [heat |-> Levels(th_state).heat, cool |-> Levels(prev_output).cool]
      BY <2>2 DEF CtlHeatPin, Levels
    <3> QED
      BY <2>2, <3>1 DEF CtlHeatPin
  <2>3. CASE CtlCoolPin
    <3>1. gpio' = Levels(th_state)
      BY <2>3 DEF CtlCoolPin, Levels
    <3> QED
      BY <2>3, <3>1 DEF CtlCoolPin, CtlEndOfRound
  <2>4. CASE ~CtlPublish /\ ~CtlHeatPin /\ ~CtlCoolPin
    BY <1>2, <2>4 DEF Control, CtlReceive, CtlTakeConfig, CtlCopyConfig, CtlReadOutput,
                      CtlReadMode, CtlWriteOutput, CtlWriteMode, CtlCopyOutput
  <2> QED
    BY <2>1, <2>2, <2>3, <2>4
<1>3. CASE Buttons
  BY <1>3 DEF Buttons, BtnSetpointPress, BtnModePress, BtnTakeGet1, BtnTakeGet2,
              BtnTakeSet, BtnTake, BtnCopyGet1, BtnCopyGet2, BtnCopySet, BtnSetMode,
              BtnForceOff
<1>4. CASE MainSetAuto
  BY <1>4 DEF MainSetAuto
<1>5. CASE Display
  BY <1>5 DEF Display, DisplayReceive, DisplayWrite, DisplayShow, othersOfDsp
<1>6. CASE UNCHANGED vars
  BY <1>6 DEF vars
<1> QED
  BY <1>1, <1>2, <1>3, <1>4, <1>5, <1>6 DEF Next

\* What has left the mailbox: DISPLAY takes only the newest snapshot, and
\* while it writes one down the next waits in the mailbox.
LEMMA NextPublishInv ==
    TypeOK /\ MailboxInv' /\ PublishInv /\ [Next]_vars => PublishInv'
<1> SUFFICES ASSUME TypeOK, MailboxInv', PublishInv, [Next]_vars
             PROVE  PublishInv'
  OBVIOUS
<1>1. CASE g_q_thermostat_state' # {}
  BY <1>1 DEF MailboxInv, PublishInv, Newest
<1>2. CASE g_q_thermostat_state' = {}
  <2> USE <1>2 DEF PublishInv, Newest, Driven, core, display, queues, ctlLocals,
                   btnLocals, othersOfCtl, othersOfBtn
  <2>1. CASE SensorRead
    BY <2>1 DEF SensorRead
  <2>2. CASE Control
    <3> USE DEF CtlGoto
    <3>1. CASE CtlPublish
      BY <3>1 DEF CtlPublish
    <3>2. CASE CtlHeatPin \/ CtlCoolPin
      BY <3>2 DEF CtlHeatPin, CtlCoolPin, CtlEndOfRound
    <3>3. CASE ~CtlPublish /\ ~CtlHeatPin /\ ~CtlCoolPin
      BY <2>2, <3>3 DEF Control, CtlReceive, CtlTakeConfig, CtlCopyConfig, CtlReadOutput,
                        CtlReadMode, CtlWriteOutput, CtlWriteMode, CtlCopyOutput
    <3> QED
      BY <3>1, <3>2, <3>3
  <2>3. CASE Buttons
    BY <2>3 DEF Buttons, BtnSetpointPress, BtnModePress, BtnTakeGet1, BtnTakeGet2,
                BtnTakeSet, BtnTake, BtnCopyGet1, BtnCopyGet2, BtnCopySet, BtnSetMode,
                BtnForceOff
  <2>4. CASE MainSetAuto
    BY <2>4 DEF MainSetAuto
  <2>5. CASE Display
    BY <2>5 DEF Display, DisplayReceive, DisplayWrite, DisplayShow, othersOfDsp
  <2>6. CASE UNCHANGED vars
    BY <2>6 DEF vars
  <2> QED
    BY <2>1, <2>2, <2>3, <2>4, <2>5, <2>6 DEF Next
<1> QED
  BY <1>1, <1>2

\* What a press carries from its second copy of the configuration to its
\* store: only BUTTONS writes s_cfg, so nothing falls in between.
LEMMA NextPressInv == LoopInv /\ [Next]_vars => PressInv'
<1> SUFFICES ASSUME PressInv, [Next]_vars PROVE PressInv'
  BY DEF LoopInv
<1> USE DEF PressInv, core, display, queues, ctlLocals, btnLocals, othersOfCtl,
            othersOfBtn
<1>1. CASE SensorRead
  BY <1>1 DEF SensorRead
<1>2. CASE Control
  BY <1>2 DEF Control, CtlGoto, CtlReceive, CtlTakeConfig, CtlCopyConfig, CtlReadOutput,
              CtlReadMode, CtlWriteOutput, CtlWriteMode, CtlCopyOutput, CtlPublish,
              CtlEndOfRound, CtlHeatPin, CtlCoolPin
<1>3. CASE Buttons
  <2> USE DEF BtnGoto
  <2>1. CASE BtnCopyGet2
    BY <2>1 DEF BtnCopyGet2
  <2>2. CASE ~BtnCopyGet2
    BY <1>3, <2>2 DEF Buttons, BtnSetpointPress, BtnModePress, BtnTakeGet1, BtnTakeGet2,
                BtnTakeSet, BtnTake, BtnCopyGet1, BtnCopySet, BtnSetMode, BtnForceOff
  <2> QED
    BY <2>1, <2>2
<1>4. CASE MainSetAuto
  BY <1>4 DEF MainSetAuto
<1>5. CASE Display
  BY <1>5 DEF Display, DisplayReceive, DisplayWrite, DisplayShow, othersOfDsp
<1>6. CASE UNCHANGED vars
  BY <1>6 DEF vars
<1> QED
  BY <1>1, <1>2, <1>3, <1>4, <1>5, <1>6 DEF Next

\* Every step preserves the invariant, ...
LEMMA NextLoopInv == LoopInv /\ [Next]_vars => LoopInv'
BY NextTypeOK, NextRoundInv, NextDriveInv, NextPressInv DEF LoopInv

LEMMA NextIInv == IInv /\ [Next]_vars => IInv'
BY NextLoopInv, NextPublishInv DEF IInv, LoopInv

\* ... so it holds in every reachable state.
THEOREM Invariance == Spec => []IInv
BY InitIInv, NextIInv, PTL DEF Spec
-----------------------------------------------------------------------------
(***************************************************************************)
(* The properties, read off the invariant.                                 *)
(***************************************************************************)

\* Every variable keeps its type: in particular the setpoint stored never
\* leaves its limits, and the decision is always one of the outputs.
THEOREM TypeCorrect == Spec => []TypeOK
<1>1. IInv => TypeOK
  BY DEF IInv, LoopInv
<1> QED
  BY Invariance, <1>1, PTL

\* Between two rounds no local of CONTROL but prev_output is alive: the pins
\* and the newest snapshot are compared with the core through it.
LEMMA BetweenRounds == LoopInv => CoreDiffersOnlyTowardsOff
BY DEF LoopInv, CommandInv, PinInv, CoreDiffersOnlyTowardsOff, Unstored, Undecided

LEMMA NewestDriven == LoopInv /\ PublishInv => DisplayTellsRelays
BY DEF LoopInv, PinInv, PublishInv, Driven, DisplayTellsRelays

\* The pins are those of two outputs only between the two writes.
LEMMA PinsInPassing == LoopInv => BothOnlyInPassing
<1> SUFFICES ASSUME TypeOK, PinInv, gpio.heat, gpio.cool
             PROVE  ctl_pc = "cool_pin" /\ prev_output = "COOL_ON" /\ th_state = "HEAT_ON"
  BY DEF LoopInv, BothOnlyInPassing
<1>1. \A o : ~(Levels(o).heat /\ Levels(o).cool)
  BY DEF Levels
<1>2. ctl_pc = "cool_pin"
  BY <1>1 DEF PinInv
<1>3. Levels(th_state).heat /\ Levels(prev_output).cool
  BY <1>2 DEF PinInv
<1> QED
  BY <1>2, <1>3 DEF Levels

\* An output that the mode of the round excludes is not the decision's own.
LEMMA AfterSnapshot == LoopInv => WrongWayOnlyKept
<1> SUFFICES ASSUME LoopInv, ctl_pc = "publish", NEW o \in {"HEAT_ON", "COOL_ON"},
                    th_state = o,
                    mode \notin (IF o = "HEAT_ON" THEN MayHeat ELSE MayCool)
             PROVE  zone = "band" /\ prev_output = o
  BY DEF WrongWayOnlyKept
<1>1. output = o
  BY DEF LoopInv, CommandInv, Driving
<1>2. zone \in Zones /\ mode \in Modes /\ prev_output \in Outputs /\ "OFF" \in Outputs
  BY DEF LoopInv, TypeOK, ZoneInv, Outputs
<1>3. PICK p \in {prev_output, "OFF"} : output = Decide(mode, p, zone)
  BY DEF LoopInv, DecisionInv, Undecided
<1> QED
  BY <1>1, <1>2, <1>3, DecideCause

\* Between two rounds the pins show the core's output, or the core is OFF
\* already, whatever BUTTONS and main store in the core during the round.
THEOREM CoreAgreement == Spec => []CoreDiffersOnlyTowardsOff
<1>1. IInv => CoreDiffersOnlyTowardsOff
  BY BetweenRounds DEF IInv
<1> QED
  BY Invariance, <1>1, PTL

\* Between two rounds the newest snapshot names the output of the pins, whether
\* it waits, is in DISPLAY's hand or on the display; while DISPLAY has one in
\* hand nothing is said of the text it is replacing.
THEOREM DisplayAgreement == Spec => []DisplayTellsRelays
<1>1. IInv => DisplayTellsRelays
  BY NewestDriven DEF IInv
<1> QED
  BY Invariance, <1>1, PTL

\* Both relays are closed together only between the two writes of a round that
\* turns from cooling to heating.
THEOREM RelaysMeetInPassing == Spec => []BothOnlyInPassing
<1>1. IInv => BothOnlyInPassing
  BY PinsInPassing DEF IInv
<1> QED
  BY Invariance, <1>1, PTL

\* A relay that the mode of a round excludes was closed before the round.
THEOREM WrongWay == Spec => []WrongWayOnlyKept
<1>1. IInv => WrongWayOnlyKept
  BY AfterSnapshot DEF IInv
<1> QED
  BY Invariance, <1>1, PTL

\* A round that read the mode OFF ends with both relays open.
THEOREM OffRound == Spec => OffRoundOpensRelays
<1>1. IInv /\ [Next]_vars =>
        [ctl_pc # "wait" /\ ctl_pc' = "wait" /\ mode = "OFF"
            => gpio' = Levels("OFF")]_vars
  <2> SUFFICES ASSUME LoopInv, Next, ctl_pc # "wait", ctl_pc' = "wait", mode = "OFF"
               PROVE  gpio' = Levels("OFF")
    BY DEF IInv
  <2>1. CASE (CtlPublish /\ th_state = prev_output) \/ CtlCoolPin
    <3>1. ctl_pc \in {"publish", "cool_pin"}
      BY <2>1 DEF CtlPublish, CtlCoolPin, CtlGoto
    <3>2. zone \in Zones /\ prev_output \in Outputs /\ "OFF" \in Outputs /\ mode \in Modes
      BY <3>1 DEF LoopInv, TypeOK, ZoneInv, Outputs
    <3>3. output = "OFF"
      BY <3>1, <3>2, DecideCause DEF LoopInv, DecisionInv, Undecided
    <3>4. th_state = "OFF"
      BY <3>1, <3>3 DEF LoopInv, CommandInv, Driving
    <3>5. CASE CtlPublish /\ th_state = prev_output
      BY <3>4, <3>5 DEF LoopInv, PinInv, CtlPublish
    <3>6. CASE CtlCoolPin
      BY <3>4, <3>6 DEF LoopInv, PinInv, CtlCoolPin, CtlGoto, Levels
    <3> QED
      BY <2>1, <3>5, <3>6
  <2>2. (CtlPublish /\ th_state = prev_output) \/ CtlCoolPin
    BY DEF Next, SensorRead, MainSetAuto, Display, DisplayReceive, DisplayWrite,
           DisplayShow, othersOfDsp,
           Control, CtlGoto, CtlReceive, CtlTakeConfig, CtlCopyConfig, CtlReadOutput,
           CtlReadMode, CtlWriteOutput, CtlWriteMode, CtlCopyOutput, CtlPublish, CtlHeatPin,
           Buttons, BtnSetpointPress, BtnModePress, BtnTakeGet1, BtnTakeGet2,
           BtnTakeSet, BtnTake, BtnCopyGet1, BtnCopyGet2, BtnCopySet, BtnSetMode,
           BtnForceOff, othersOfBtn
  <2> QED
    BY <2>1, <2>2
<1> QED
  BY Invariance, <1>1, PTL DEF Spec, OffRoundOpensRelays
-----------------------------------------------------------------------------
(***************************************************************************)
(* The loop implements ThermostatPromise.                                  *)
(*                                                                         *)
(* Three steps matter: the store of a press, which moves the setpoint by   *)
(* the clamped step (PressInv); and the two writes to the pins, where       *)
(* a pin that rises was either already high or is justified by the         *)
(* decision in hand (DecisionInv, CommandInv, DecideCause).                *)
(***************************************************************************)

judgment == [zone |-> zone,
             mode |-> IF ctl_pc \in {"wait", "cfg_take", "cfg_copy", "rd_output", "rd_mode"}
                      THEN "unread" ELSE mode]

\* What the decision of a round allows its snapshot to ask for.
LEMMA SnapshotCause ==
    ASSUME LoopInv, ctl_pc \in Driving
    PROVE  /\ th_state = "HEAT_ON" =>
                 (zone = "below" /\ mode \in MayHeat) \/ prev_output = "HEAT_ON"
           /\ th_state = "COOL_ON" =>
                 (zone = "above" /\ mode \in MayCool) \/ prev_output = "COOL_ON"
<1>1. zone \in Zones /\ mode \in Modes /\ prev_output \in Outputs /\ "OFF" \in Outputs
  BY DEF LoopInv, TypeOK, ZoneInv, Outputs, Driving
<1>2. PICK p \in {prev_output, "OFF"} : output = Decide(mode, p, zone)
  BY DEF LoopInv, DecisionInv, Undecided, Driving
<1>3. th_state \in {output, "OFF"}
  BY DEF LoopInv, CommandInv
<1> QED
  BY <1>1, <1>2, <1>3, DecideCause

\* The initial state of the loop is one of the promise.
LEMMA PromiseInit == Init => P!PInit
BY DEF Init, P!PInit, DefaultConfig, P!DefaultConfig, Levels, P!Levels, P!Unjudged

\* Every step of the loop is a step of the promise, or changes nothing in it.
LEMMA PromiseStep == LoopInv /\ LoopInv' /\ [Next]_vars => [P!PNext]_P!pvars
<1> SUFFICES ASSUME LoopInv, LoopInv', [Next]_vars
             PROVE  \/ P!PNext
                    \/ UNCHANGED <<s_cfg, s_state.mode, judgment, gpio>>
  BY DEF P!pvars, judgment
<1> USE DEF core, display, queues, ctlLocals, btnLocals, othersOfCtl, othersOfBtn
<1>t. TypeOK /\ TypeOK'
  BY DEF LoopInv
<1>1. CASE SensorRead
  BY <1>1 DEF SensorRead, judgment
<1>2. CASE Control
  <2> USE DEF CtlGoto
  <2>1. CASE CtlReceive
    BY <2>1 DEF CtlReceive, judgment
  <2>2. CASE CtlTakeConfig
    BY <2>2 DEF CtlTakeConfig, judgment
  <2>3. CASE CtlCopyConfig
    <3>1. PICK t \in sample : zone' = Zone(t, s_cfg)
      BY <2>3 DEF CtlCopyConfig
    <3>2. t \in Temps
      BY <1>t, <3>1 DEF TypeOK
    <3>3. zone = "none"
      BY <2>3 DEF CtlCopyConfig, LoopInv, ZoneInv
    <3>4. P!JudgeReading
      BY <2>3, <3>1, <3>2, <3>3
         DEF CtlCopyConfig, P!JudgeReading, P!Unjudged, P!Zone, Zone
    <3> QED
      BY <3>4 DEF P!PNext
  <2>4. CASE CtlReadOutput
    BY <2>4 DEF CtlReadOutput, judgment
  <2>5. CASE CtlReadMode
    <3>1. zone # "none"
      BY <2>5 DEF CtlReadMode, LoopInv, ZoneInv
    <3>2. P!JudgeMode
      BY <2>5, <3>1 DEF CtlReadMode, P!JudgeMode
    <3> QED
      BY <3>2 DEF P!PNext
  <2>6. CASE CtlWriteOutput
    BY <2>6, <1>t DEF CtlWriteOutput, judgment, TypeOK
  <2>7. CASE CtlWriteMode
    <3>1. s_state.mode' \in P!Modes
      BY <1>t DEF TypeOK, Modes, P!Modes
    <3>2. P!ChangeMode
      BY <2>7, <3>1 DEF CtlWriteMode, P!ChangeMode
    <3> QED
      BY <3>2 DEF P!PNext
  <2>8. CASE CtlCopyOutput
    BY <2>8 DEF CtlCopyOutput, judgment
  <2>9. CASE CtlPublish
    <3>1. CASE th_state # prev_output
      BY <2>9, <3>1 DEF CtlPublish, judgment
    <3>2. CASE th_state = prev_output
      <4>1. P!Forget
        BY <2>9, <3>2 DEF CtlPublish, CtlEndOfRound, P!Forget, P!Unjudged
      <4> QED
        BY <4>1 DEF P!PNext
    <3> QED
      BY <3>1, <3>2
  <2>10. CASE CtlHeatPin
    <3>1. gpio = Levels(prev_output)
      BY <2>10 DEF CtlHeatPin, LoopInv, PinInv
    <3>2. CASE th_state = "HEAT_ON" /\ prev_output = "HEAT_ON"
      <4>1. gpio' = gpio
        BY <2>10, <3>1, <3>2 DEF CtlHeatPin, Levels
      <4> QED
        BY <2>10, <4>1 DEF CtlHeatPin, judgment
    <3>3. CASE ~(th_state = "HEAT_ON" /\ prev_output = "HEAT_ON")
      <4>1. th_state = "HEAT_ON" => zone = "below" /\ mode \in MayHeat
        BY <2>10, <3>3, SnapshotCause DEF CtlHeatPin, Driving
      <4>2. P!SwitchHeat
        BY <2>10, <4>1 DEF CtlHeatPin, P!SwitchHeat, Levels, MayHeat, P!MayHeat
      <4> QED
        BY <4>2 DEF P!PNext
    <3> QED
      BY <3>2, <3>3
  <2>11. CASE CtlCoolPin
    <3>1. gpio = [heat |-> Levels(th_state).heat, cool |-> Levels(prev_output).cool]
      BY <2>11 DEF CtlCoolPin, LoopInv, PinInv
    <3>2. CASE th_state = "COOL_ON" /\ prev_output = "COOL_ON"
      <4>1. gpio' = gpio
        BY <2>11, <3>1, <3>2 DEF CtlCoolPin, Levels
      <4>2. P!Forget
        BY <2>11, <4>1 DEF CtlCoolPin, CtlEndOfRound, P!Forget, P!Unjudged
      <4> QED
        BY <4>2 DEF P!PNext
    <3>3. CASE ~(th_state = "COOL_ON" /\ prev_output = "COOL_ON")
      <4>1. th_state = "COOL_ON" => zone = "above" /\ mode \in MayCool
        BY <2>11, <3>3, SnapshotCause DEF CtlCoolPin, Driving
      <4>2. P!SwitchCool
        BY <2>11, <4>1 DEF CtlCoolPin, CtlEndOfRound, P!SwitchCool, P!Unjudged, Levels,
                           MayCool, P!MayCool
      <4> QED
        BY <4>2 DEF P!PNext
    <3> QED
      BY <3>2, <3>3
  <2> QED
    BY <1>2, <2>1, <2>2, <2>3, <2>4, <2>5, <2>6, <2>7, <2>8, <2>9, <2>10, <2>11
       DEF Control
<1>3. CASE Buttons
  <2>1. CASE BtnCopySet
    <3>1. delta \in {SetpointStep, -SetpointStep}
      BY <2>1 DEF BtnCopySet, BtnGoto, LoopInv, PressInv
    <3>2. s_cfg' = [s_cfg EXCEPT !.setpoint_c = Clamp(@ + delta)]
      BY <2>1 DEF BtnCopySet, BtnGoto, LoopInv, PressInv
    <3>3. P!Adjust
      BY <2>1, <3>1, <3>2 DEF BtnCopySet, P!Adjust, Clamp, P!Clamp
    <3> QED
      BY <3>3 DEF P!PNext
  <2>2. CASE BtnSetMode
    <3>1. s_state.mode' \in P!Modes
      BY <1>t DEF TypeOK, Modes, P!Modes
    <3>2. P!ChangeMode
      BY <2>2, <3>1 DEF BtnSetMode, P!ChangeMode
    <3> QED
      BY <3>2 DEF P!PNext
  <2>3. CASE BtnForceOff
    BY <2>3, <1>t DEF BtnForceOff, judgment, TypeOK
  <2>4. CASE ~BtnCopySet /\ ~BtnSetMode /\ ~BtnForceOff
    BY <1>3, <2>4 DEF Buttons, BtnSetpointPress, BtnModePress, BtnTakeGet1, BtnTakeGet2,
                      BtnTakeSet, BtnTake, BtnCopyGet1, BtnCopyGet2, judgment
  <2> QED
    BY <2>1, <2>2, <2>3, <2>4
<1>4. CASE MainSetAuto
  <2>1. s_state.mode' \in P!Modes
    BY <1>t DEF TypeOK, Modes, P!Modes
  <2>2. P!ChangeMode
    BY <1>4, <2>1 DEF MainSetAuto, P!ChangeMode
  <2> QED
    BY <2>2 DEF P!PNext
<1>5. CASE Display
  BY <1>5 DEF Display, DisplayReceive, DisplayWrite, DisplayShow, othersOfDsp,
         judgment
<1>6. CASE UNCHANGED vars
  BY <1>6 DEF vars, judgment
<1> QED
  BY <1>1, <1>2, <1>3, <1>4, <1>5, <1>6 DEF Next

\* The firmware keeps the promise of ThermostatPromise, whatever the tasks
\* interleave: relays close for cause only, a press moves the setpoint once.
THEOREM Promise == Spec => KeepsPromise
<1>1. Init => P!PInit
  BY PromiseInit
<1>2. IInv /\ IInv' /\ [Next]_vars => [P!PNext]_P!pvars
  BY PromiseStep DEF IInv
<1> QED
  BY Invariance, <1>1, <1>2, PTL DEF Spec, KeepsPromise, P!PSpec
=============================================================================
