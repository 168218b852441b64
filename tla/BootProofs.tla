----------------------------- MODULE BootProofs -----------------------------
(***************************************************************************)
(* Theorems about Boot, for every band, setpoint range and set of readings *)
(* and for either treatment of the racy store of the mode.                 *)
(*                                                                         *)
(* LoopInv of ControlLoop survives because every step of Boot is a step of *)
(* ControlLoop, or one that leaves alone all that LoopInv speaks of        *)
(* (Outside), or leads back to the state ControlLoop begins with, but for  *)
(* the text on the display.  The first pin writes of CONTROL are such a    *)
(* step only because no round comes before them (QuietInv).  Of the        *)
(* display nothing is known until DISPLAY has cleared it (ShownInv).       *)
(***************************************************************************)
EXTENDS Boot, ControlLoopProofs

\* Without CONTROL in its loop no round has begun.
QuietInv == "CONTROL" \notin looping => ctl_pc = "wait" /\ prev_output = "OFF"

\* What app_main has made before it goes on, and which tasks it has started.
Checked == {"g_q_sensor_samples", "g_q_thermostat_state", "s_cfg_mutex"}

MadeInv ==
    /\ app_pc > 2 => "g_q_sensor_samples" \in made
    /\ app_pc > 3 => "g_q_thermostat_state" \in made
    /\ app_pc > 4 => "s_cfg_mutex" \in made /\ s_initialized

StartedInv ==
    \A t \in starting \cup looping : \E i \in 5 .. 11 : i < app_pc /\ Calls[i] = t

\* Without DISPLAY in its loop nobody has taken a snapshot; with it, the
\* newest is of the output driven.
ShownInv == IF "DISPLAY" \in looping THEN PublishInv ELSE dsp = {}

BootIInv == LoopInv /\ BootTypeOK /\ QuietInv /\ MadeInv /\ StartedInv /\ ShownInv
-----------------------------------------------------------------------------
(***************************************************************************)
(* The order of app_main.                                                  *)
(***************************************************************************)

\* The place of each call: the objects first, then the tasks, the mode last.
LEMMA CallPlace ==
    ASSUME app_pc \in 1 .. Len(Calls) + 1
    PROVE  /\ Len(Calls) = 12
           /\ Call("g_log_queue") => app_pc = 1
           /\ Call("g_q_sensor_samples") => app_pc = 2
           /\ Call("g_q_thermostat_state") => app_pc = 3
           /\ Call("s_cfg_mutex") => app_pc = 4
           /\ \A t \in Tasks : Call(t) => app_pc \in 5 .. 11
           /\ Call("AUTO") => app_pc = 12
           /\ \A i, j \in 1 .. 12 : Calls[i] = Calls[j] => i = j
           /\ \A t \in Tasks : Call(t) => Calls[app_pc] = t
<1>1. Len(Calls) = 12 /\ DOMAIN Calls = 1 .. 12
  BY DEF Calls
<1>2. /\ Calls[1] = "g_log_queue" /\ Calls[2] = "g_q_sensor_samples"
      /\ Calls[3] = "g_q_thermostat_state" /\ Calls[4] = "s_cfg_mutex"
      /\ Calls[5] = "NET" /\ Calls[6] = "LOGGER" /\ Calls[7] = "SENSORS"
      /\ Calls[8] = "CONTROL" /\ Calls[9] = "BUTTONS" /\ Calls[10] = "DISPLAY"
      /\ Calls[11] = "HEARTBEAT" /\ Calls[12] = "AUTO"
  BY DEF Calls
<1> QED
  BY <1>1, <1>2 DEF Call, Tasks
-----------------------------------------------------------------------------
(***************************************************************************)
(* The inductive invariant.                                                *)
(***************************************************************************)

\* All of ControlLoop but the text on the display is left alone.
Outside == UNCHANGED <<core, queues, gpio, dsp, ctl_pc, ctlLocals, btn_pc, btnLocals, main_pc>>

\* A task comes to its loop.
LEMMA Entered ==
    ASSUME BootIInv, NEW t \in Starters, EnterLoop(t)
    PROVE  /\ Outside
           /\ lcd' = IF t = "DISPLAY" THEN {} ELSE lcd
<1>1. gpio' = gpio
  <2>1. CASE t = "CONTROL"
    <3>1. ctl_pc = "wait" /\ prev_output = "OFF"
      BY <2>1 DEF BootIInv, BootTypeOK, QuietInv, EnterLoop
    <3> QED
      BY <2>1, <3>1 DEF BootIInv, LoopInv, PinInv, EnterLoop
  <2>2. CASE t # "CONTROL"
    BY <2>2 DEF EnterLoop
  <2> QED BY <2>1, <2>2
<1> QED
  BY <1>1 DEF EnterLoop, Outside

\* The step is one of ControlLoop's, is outside of it, or begins it anew.
LEMMA StepKinds ==
    BootIInv /\ [BootNext]_allVars => [Next]_vars \/ Restart \/ (Outside /\ lcd' \in {{}, lcd})
<1> SUFFICES ASSUME BootIInv, [BootNext]_allVars
             PROVE  [Next]_vars \/ Restart \/ (Outside /\ lcd' \in {{}, lcd})
  OBVIOUS
<1>1. CASE AppMain
  BY <1>1 DEF AppMain, LoggingInit, CreateQueue, CoreInit, StartTask, SetAuto, Next
<1>2. ASSUME NEW t \in Starters, EnterLoop(t)
      PROVE  Outside /\ lcd' \in {{}, lcd}
  BY <1>2, Entered
<1>3. CASE LoopStep
  BY <1>3 DEF LoopStep, Next
<1>4. CASE Restart
  BY <1>4
<1>5. CASE UNCHANGED allVars
  BY <1>5 DEF allVars
<1> QED
  BY <1>1, <1>2, <1>3, <1>4, <1>5 DEF BootNext

\* What is outside of the loop keeps its invariant.
LEMMA OutsideKeeps == LoopInv /\ Outside /\ lcd' \in {{}, lcd} => LoopInv'
<1> SUFFICES ASSUME LoopInv, Outside, lcd' \in {{}, lcd} PROVE LoopInv'
  OBVIOUS
<1> USE DEF Outside, core, queues, ctlLocals, btnLocals
<1>1. TypeOK'
  BY DEF LoopInv, TypeOK
<1>2. (ZoneInv /\ DecisionInv /\ CommandInv /\ PinInv /\ MailboxInv /\ PressInv)'
  BY DEF LoopInv, ZoneInv, DecisionInv, CommandInv, PinInv, MailboxInv, Driven, PressInv
<1> QED
  BY <1>1, <1>2 DEF LoopInv

\* A restart leads to a first state of the loop, but for the display's text.
LEMMA RestartKeeps == LoopInv /\ Restart => LoopInv'
<1> SUFFICES ASSUME LoopInv, Restart PROVE LoopInv'
  OBVIOUS
<1>1. TypeOK'
  <2>1. lcd' \in {{}} \cup {{o} : o \in Outputs}
    BY DEF LoopInv, TypeOK, Restart
  <2> QED
    BY <2>1, LogicAssumption, LevelsType
       DEF Restart, TypeOK, DefaultConfig, Configs, Setpoints, Modes, Outputs,
           CtlSteps, BtnSteps
<1>2. (ZoneInv /\ DecisionInv /\ CommandInv /\ PinInv /\ MailboxInv /\ PressInv)'
  BY DEF Restart, ZoneInv, DecisionInv, CommandInv, PinInv, MailboxInv, Driven,
         PressInv, Undecided, Unstored, Driving
<1> QED
  BY <1>1, <1>2 DEF LoopInv

\* The loop's invariant.
LEMMA NextBootLoopInv == BootIInv /\ [BootNext]_allVars => LoopInv'
BY StepKinds, NextLoopInv, OutsideKeeps, RestartKeeps DEF BootIInv

\* The display's.
LEMMA NextShownInv == BootIInv /\ [BootNext]_allVars => ShownInv'
<1> SUFFICES ASSUME BootIInv, [BootNext]_allVars PROVE ShownInv'
  OBVIOUS
<1>t. TypeOK /\ MailboxInv' /\ ShownInv
  BY NextBootLoopInv DEF BootIInv, LoopInv
<1>1. ASSUME UNCHANGED vars, "DISPLAY" \in looping' <=> "DISPLAY" \in looping
      PROVE  ShownInv'
  BY <1>t, <1>1 DEF ShownInv, PublishInv, Newest, Driven, vars, display, queues, ctlLocals
<1>2. CASE LoggingInit \/ CreateQueue \/ CoreInit
  BY <1>1, <1>2 DEF LoggingInit, CreateQueue, CoreInit
<1>3. CASE SetAuto
  BY <1>t, <1>3 DEF SetAuto, MainSetAuto, ShownInv, PublishInv, Newest, Driven, display,
                    queues, ctlLocals
<1>4. ASSUME NEW t \in Tasks, StartTask(t) PROVE ShownInv'
  BY <1>1, <1>4 DEF StartTask, Starters
<1>5. ASSUME NEW t \in Starters, EnterLoop(t) PROVE ShownInv'
  <2>1. Outside /\ lcd' = (IF t = "DISPLAY" THEN {} ELSE lcd) /\ looping' = looping \cup {t}
    BY <1>5, Entered DEF EnterLoop
  <2>2. CASE t = "DISPLAY"
    <3>1. t \notin looping /\ dsp = {}
      BY <1>t, <1>5, <2>2 DEF BootIInv, BootTypeOK, EnterLoop, ShownInv
    <3> QED
      BY <1>t, <2>1, <2>2, <3>1 DEF ShownInv, PublishInv, Newest, MailboxInv, Outside
  <2>3. CASE t # "DISPLAY"
    BY <1>t, <2>1, <2>3 DEF ShownInv, PublishInv, Newest, Driven, Outside, queues, ctlLocals
  <2> QED BY <2>2, <2>3
<1>6. CASE LoopStep
  <2>1. looping' = looping
    BY <1>6 DEF LoopStep, bootVars
  <2>2. CASE "DISPLAY" \in looping
    <3>1. Next
      BY <1>6 DEF LoopStep, Next
    <3> QED
      BY <1>t, <2>1, <2>2, <3>1, NextPublishInv DEF ShownInv
  <2>3. CASE "DISPLAY" \notin looping
    BY <1>t, <1>6, <2>1, <2>3
       DEF ShownInv, LoopStep, SensorRead, display, othersOfCtl, othersOfBtn,
           Control, CtlReceive, CtlTakeConfig, CtlCopyConfig, CtlReadOutput,
           CtlReadMode, CtlWriteOutput, CtlWriteMode, CtlCopyOutput, CtlPublish,
           CtlHeatPin, CtlCoolPin,
           Buttons, BtnSetpointPress, BtnModePress, BtnTakeGet1, BtnTakeGet2,
           BtnTakeSet, BtnTake, BtnCopyGet1, BtnCopyGet2, BtnCopySet, BtnSetMode,
           BtnForceOff
  <2> QED BY <2>2, <2>3
<1>7. CASE Restart
  BY <1>7 DEF Restart, ShownInv
<1>8. CASE UNCHANGED allVars
  BY <1>1, <1>8 DEF allVars, bootVars
<1> QED
  BY <1>2, <1>3, <1>4, <1>5, <1>6, <1>7, <1>8 DEF BootNext, AppMain

\* The types, and what app_main has done so far.
LEMMA NextBootParts ==
    BootIInv /\ [BootNext]_allVars => (BootTypeOK /\ QuietInv /\ MadeInv /\ StartedInv)'
<1> SUFFICES ASSUME BootIInv, [BootNext]_allVars
             PROVE  (BootTypeOK /\ QuietInv /\ MadeInv /\ StartedInv)'
  OBVIOUS
<1>t. TypeOK' /\ app_pc \in 1 .. Len(Calls) + 1
  BY NextBootLoopInv DEF BootIInv, LoopInv, BootTypeOK
<1>l. Len(Calls) = 12
  BY <1>t, CallPlace
<1> USE DEF BootIInv, BootTypeOK, QuietInv, MadeInv, StartedInv
<1>1. CASE LoggingInit
  BY <1>t, <1>1, CallPlace DEF LoggingInit, Return, Objects, vars, ctlLocals
<1>2. CASE CreateQueue
  BY <1>t, <1>2, CallPlace DEF CreateQueue, Return, Objects, vars, ctlLocals
<1>3. CASE CoreInit
  BY <1>t, <1>3, CallPlace, SMTT(30) DEF CoreInit, Return, Objects, vars, ctlLocals
<1>4. CASE SetAuto
  <2>1. app_pc = 12 /\ app_pc' = 13 /\ main_pc' = "done"
    BY <1>t, <1>4, CallPlace DEF SetAuto, Return, MainSetAuto
  <2>2. BootTypeOK'
    BY <1>t, <1>4, <1>l, <2>1 DEF SetAuto
  <2>3. QuietInv'
    BY <1>4 DEF SetAuto, MainSetAuto, ctlLocals
  <2>4. MadeInv' /\ StartedInv'
    BY <1>4, <2>1 DEF SetAuto
  <2> QED BY <2>2, <2>3, <2>4
<1>5. ASSUME NEW t \in Tasks, StartTask(t)
      PROVE  (BootTypeOK /\ QuietInv /\ MadeInv /\ StartedInv)'
  <2>1. app_pc \in 5 .. 11 /\ app_pc' = app_pc + 1
    BY <1>t, <1>5, CallPlace DEF StartTask, Return
  <2>2. BootTypeOK'
    <3>1. app_pc' \in 1 .. Len(Calls) + 1 /\ (main_pc' = "done" <=> app_pc' = Len(Calls) + 1)
      BY <1>5, <1>l, <2>1 DEF StartTask, vars
    <3>2. t \notin starting \cup looping
      <4>1. \A i \in 1 .. 12 : i < app_pc => Calls[i] # t
        BY <1>t, <1>5, <2>1, CallPlace DEF StartTask
      <4> QED BY <4>1
    <3>3. starting' \subseteq Starters /\ looping' \subseteq Tasks /\ starting' \cap looping' = {}
      BY <1>5, <3>2 DEF StartTask
    <3> QED BY <1>t, <1>5, <3>1, <3>3 DEF StartTask
  <2>3. QuietInv'
    BY <1>5 DEF StartTask, vars, ctlLocals
  <2>5. MadeInv'
    BY <1>5, <2>1 DEF StartTask
  <2>6. Calls[app_pc] = t
    BY <1>t, <1>5, CallPlace DEF StartTask
  <2>7. StartedInv'
    BY <1>5, <2>1, <2>6 DEF StartTask
  <2> QED BY <2>2, <2>3, <2>5, <2>7
<1>6. ASSUME NEW t \in Starters, EnterLoop(t)
      PROVE  (BootTypeOK /\ QuietInv /\ MadeInv /\ StartedInv)'
  BY <1>t, <1>6, <1>l DEF EnterLoop, Starters, Tasks, ctlLocals
<1>7. CASE LoopStep
  <2>1. main_pc' = main_pc
    BY <1>7 DEF LoopStep, SensorRead, Display, DisplayReceive, DisplayWrite,
                DisplayShow, othersOfDsp, othersOfCtl, othersOfBtn,
                Control, CtlReceive, CtlTakeConfig, CtlCopyConfig, CtlReadOutput,
                CtlReadMode, CtlWriteOutput, CtlWriteMode, CtlCopyOutput, CtlPublish,
                CtlHeatPin, CtlCoolPin,
                Buttons, BtnSetpointPress, BtnModePress, BtnTakeGet1, BtnTakeGet2,
                BtnTakeSet, BtnTake, BtnCopyGet1, BtnCopyGet2, BtnCopySet, BtnSetMode,
                BtnForceOff
  <2>2. "CONTROL" \notin looping => UNCHANGED <<ctl_pc, prev_output>>
    BY <1>7 DEF LoopStep, SensorRead, Display, DisplayReceive, DisplayWrite,
                DisplayShow, othersOfDsp, othersOfBtn, ctlLocals,
                Buttons, BtnSetpointPress, BtnModePress, BtnTakeGet1, BtnTakeGet2,
                BtnTakeSet, BtnTake, BtnCopyGet1, BtnCopyGet2, BtnCopySet, BtnSetMode,
                BtnForceOff
  <2> QED
    BY <1>t, <1>7, <2>1, <2>2 DEF LoopStep, bootVars
<1>8. CASE Restart
  <2>1. BootTypeOK'
    <3>1. app_pc' \in 1 .. Len(Calls) + 1 /\ (main_pc' = "done" <=> app_pc' = Len(Calls) + 1)
      BY <1>8, <1>l DEF Restart
    <3> QED BY <1>t, <1>8, <3>1 DEF Restart
  <2>2. QuietInv' /\ MadeInv' /\ StartedInv'
    BY <1>8 DEF Restart
  <2> QED BY <2>1, <2>2
<1>9. CASE UNCHANGED allVars
  BY <1>t, <1>9, <1>l DEF allVars, bootVars, vars, ctlLocals
<1> QED
  BY <1>1, <1>2, <1>3, <1>4, <1>5, <1>6, <1>7, <1>8, <1>9 DEF BootNext, AppMain

\* At power-on nothing is made and nothing runs.
LEMMA InitBootIInv == BootInit => BootIInv
<1> SUFFICES ASSUME BootInit PROVE BootIInv
  OBVIOUS
<1>1. LoopInv
  BY InitIInv DEF BootInit, IInv
<1>2. Len(Calls) = 12
  BY DEF Calls
<1>3. BootTypeOK
  <2>1. app_pc \in 1 .. Len(Calls) + 1 /\ (main_pc = "done" <=> app_pc = Len(Calls) + 1)
    BY <1>2 DEF BootInit, Init
  <2>2. TypeOK
    BY <1>1 DEF LoopInv
  <2> QED BY <2>1, <2>2 DEF BootInit, BootTypeOK
<1>4. QuietInv /\ MadeInv /\ StartedInv /\ ShownInv
  BY DEF BootInit, Init, QuietInv, MadeInv, StartedInv, ShownInv
<1> QED
  BY <1>1, <1>3, <1>4 DEF BootIInv

\* The invariant holds through every start and restart.
THEOREM BootInvariance == BootSpec => []BootIInv
BY InitBootIInv, NextBootLoopInv, NextBootParts, NextShownInv, PTL DEF BootSpec, BootIInv
-----------------------------------------------------------------------------
(***************************************************************************)
(* The theorems.                                                           *)
(***************************************************************************)

\* Every variable keeps its type, and the mode is AUTO last: when app_main is
\* over, and never before.
THEOREM BootTypeCorrect == BootSpec => []BootTypeOK
<1>1. BootIInv => BootTypeOK
  BY DEF BootIInv
<1> QED BY BootInvariance, <1>1, PTL

\* Whichever creations fail, no task but LOGGER comes to its loop before what
\* the loop uses is there (app_main.c:56-79).
THEOREM TasksFindTheirObjects == BootSpec => []FoundReady
<1>1. BootIInv => FoundReady
  <2> SUFFICES ASSUME BootIInv, NEW t \in looping
               PROVE  /\ Needs[t] \subseteq made
                      /\ t \in {"CONTROL", "BUTTONS"} => s_initialized
    BY DEF FoundReady
  <2>1. t \in Tasks /\ app_pc > 4 /\ app_pc \in Int
    BY DEF BootIInv, BootTypeOK, StartedInv
  <2>2. Checked \subseteq made /\ s_initialized
    BY <2>1 DEF BootIInv, MadeInv, Checked
  <2>3. Needs[t] \subseteq Checked
    BY <2>1 DEF Needs, Checked
  <2> QED
    BY <2>2, <2>3
<1> QED BY BootInvariance, <1>1, PTL

\* From the moment DISPLAY has cleared it, the display and what is on its way
\* to it are of this life's relays, whichever tasks are missing and whatever
\* the display had kept over an abort (drv_display.c:107).
THEOREM DisplayClearedFirst == BootSpec => []DisplayOfThisLife
<1>1. BootIInv => DisplayOfThisLife
  BY NewestDriven DEF BootIInv, ShownInv, DisplayOfThisLife
<1> QED BY BootInvariance, <1>1, PTL

\* The promise of ThermostatPromise is kept from every start to the next, with
\* tasks missing and an abort in the middle of any round.
THEOREM PromiseEachLife == BootSpec => KeepsPromiseEachLife
<1>1. BootInit => P!PInit
  BY PromiseInit DEF BootInit
<1>2. BootIInv /\ BootIInv' /\ [BootNext]_allVars => [P!PNext \/ P!PInit']_P!pvars
  <2> SUFFICES ASSUME BootIInv, BootIInv', [BootNext]_allVars
               PROVE  [P!PNext \/ P!PInit']_P!pvars
    OBVIOUS
  <2>1. CASE [Next]_vars
    BY <2>1, PromiseStep DEF BootIInv
  <2>2. CASE Restart
    <3>1. P!PInit'
      BY <2>2 DEF Restart, P!PInit, DefaultConfig, P!DefaultConfig, Levels, P!Levels, P!Unjudged
    <3> QED BY <3>1
  <2>3. CASE Outside
    BY <2>3 DEF Outside, core, ctlLocals, P!pvars
  <2> QED BY <2>1, <2>2, <2>3, StepKinds
<1> QED
  BY BootInvariance, <1>1, <1>2, PTL DEF BootSpec, KeepsPromiseEachLife
=============================================================================
