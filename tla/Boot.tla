-------------------------------- MODULE Boot --------------------------------
(***************************************************************************)
(* The life of the firmware around module ControlLoop: app_main creates    *)
(* the kernel objects and the tasks in its order, a task runs as soon as   *)
(* it exists, and a fatal error restarts the processor in whatever state   *)
(* the loop is.                                                            *)
(*                                                                         *)
(* A call of app_main may fail for want of memory.  Some failures are      *)
(* fatal; a failed xTaskCreate is not noticed, and a task is missing.      *)
(* abort() ends in the panic handler, which restarts                       *)
(* (CONFIG_ESP_SYSTEM_PANIC_PRINT_REBOOT, without a delay): RAM is lost,   *)
(* and the pins are inputs, low, until CONTROL configures them.  The       *)
(* controller of the display keeps its power, and its text until DISPLAY   *)
(* clears it: for ever, if DISPLAY could not be created.                   *)
(*                                                                         *)
(* What thermostat_core_init stores is in ControlLoop's Init already, as   *)
(* nothing reads it before (FoundReady).                                   *)
(***************************************************************************)
EXTENDS ControlLoop, Sequences

CONSTANT
    MayBeMissing    \* the tasks for which there may be no memory: in the code any

VARIABLES
    app_pc,         \* the next call of app_main
    made,           \* the kernel objects there are
    s_initialized,  \* thermostat.c
    starting,       \* the tasks of Starters that have not come to their loop
    looping         \* the tasks that are in their loop

bootVars == <<app_pc, made, s_initialized, starting, looping>>
allVars  == <<vars, bootVars>>

Tasks == {"NET", "LOGGER", "SENSORS", "CONTROL", "BUTTONS", "DISPLAY", "HEARTBEAT"}

ASSUME MissingAssumption == MayBeMissing \subseteq Tasks

\* What these do before their loop can be told from outside.
Starters == {"CONTROL", "BUTTONS", "DISPLAY"}

Objects == {"g_log_queue", "g_q_sensor_samples", "g_q_thermostat_state", "s_cfg_mutex"}

Calls_AutoEarly ==  \* mutant: the mode is set before the tasks start
    <<"g_log_queue", "g_q_sensor_samples", "g_q_thermostat_state", "s_cfg_mutex", "AUTO",
      "NET", "LOGGER", "SENSORS", "CONTROL", "BUTTONS", "DISPLAY", "HEARTBEAT">>

\* What app_main does, in its order: an object it creates (the mutex is that of
\* thermostat_core_init), a task it starts, the last call.
Calls ==
    <<"g_log_queue", "g_q_sensor_samples", "g_q_thermostat_state", "s_cfg_mutex",
      "NET", "LOGGER", "SENSORS", "CONTROL", "BUTTONS", "DISPLAY", "HEARTBEAT",
      "AUTO">>

\* What the loop of a task relies on.  A task that logs does without the queue;
\* LOGGER comes to its loop without it too, and aborts there (MayAbort).
Needs ==
    [t \in Tasks |->
        CASE t = "SENSORS" -> {"g_q_sensor_samples"}
          [] t = "CONTROL" -> {"g_q_sensor_samples", "g_q_thermostat_state", "s_cfg_mutex"}
          [] t = "BUTTONS" -> {"s_cfg_mutex"}
          [] t = "DISPLAY" -> {"g_q_thermostat_state"}
          [] OTHER         -> {}]

BootInit ==
    /\ Init
    /\ app_pc = 1
    /\ made = {}
    /\ s_initialized = FALSE
    /\ starting = {}
    /\ looping = {}

-----------------------------------------------------------------------------
(* app_main *)

Call(what) == app_pc \in DOMAIN Calls /\ Calls[app_pc] = what

Return == app_pc' = app_pc + 1

\* logging_init: nobody looks whether there was memory for the queue.
LoggingInit ==
    /\ Call("g_log_queue")
    /\ made' \in {made, made \cup {"g_log_queue"}}
    /\ Return
    /\ UNCHANGED <<vars, s_initialized, starting, looping>>

CreateQueue_Unchecked ==    \* mutant: the result is not looked at
    \E q \in {"g_q_sensor_samples", "g_q_thermostat_state"} :
        /\ Call(q)
        /\ made' \in {made, made \cup {q}}
        /\ Return
        /\ UNCHANGED <<vars, s_initialized, starting, looping>>

\* tasks_common_init_queues, when it succeeds.
CreateQueue ==
    \E q \in {"g_q_sensor_samples", "g_q_thermostat_state"} :
        /\ Call(q)
        /\ made' = made \cup {q}
        /\ Return
        /\ UNCHANGED <<vars, s_initialized, starting, looping>>

\* thermostat_core_init, when it succeeds.
CoreInit ==
    /\ Call("s_cfg_mutex")
    /\ made' = made \cup {"s_cfg_mutex"}
    /\ s_initialized' = TRUE
    /\ Return
    /\ UNCHANGED <<vars, starting, looping>>

\* The task_..._start functions ignore the result of xTaskCreate.
StartTask(t) ==
    /\ Call(t)
    /\ \/ t \in Starters /\ starting' = starting \cup {t} /\ UNCHANGED looping
       \/ t \notin Starters /\ looping' = looping \cup {t} /\ UNCHANGED starting
       \/ t \in MayBeMissing /\ UNCHANGED <<starting, looping>>
    /\ Return
    /\ UNCHANGED <<vars, made, s_initialized>>

\* thermostat_set_mode(THERMOSTAT_MODE_AUTO)
SetAuto ==
    /\ Call("AUTO")
    /\ MainSetAuto
    /\ Return
    /\ UNCHANGED <<made, s_initialized, starting, looping>>

AppMain ==
    \/ LoggingInit \/ CreateQueue \/ CoreInit \/ SetAuto
    \/ \E t \in Tasks : StartTask(t)
-----------------------------------------------------------------------------
(* The tasks *)

EnterLoop_HeatLevel(t) ==   \* mutant: the heater's pin starts at the other level
    /\ t \in starting
    /\ starting' = starting \ {t}
    /\ looping' = looping \cup {t}
    /\ gpio' = IF t = "CONTROL" THEN Levels("HEAT_ON") ELSE gpio
    /\ lcd' = IF t = "DISPLAY" THEN {} ELSE lcd
    /\ UNCHANGED <<core, queues, dsp, ctl_pc, ctlLocals, btn_pc, btnLocals, main_pc,
                   app_pc, made, s_initialized>>

EnterLoop_TextKept(t) ==    \* mutant: the initialization does not clear the display
    /\ t \in starting
    /\ starting' = starting \ {t}
    /\ looping' = looping \cup {t}
    /\ gpio' = IF t = "CONTROL" THEN Levels("OFF") ELSE gpio
    /\ UNCHANGED <<core, queues, display, ctl_pc, ctlLocals, btn_pc, btnLocals, main_pc,
                   app_pc, made, s_initialized>>

\* The code of a task before its loop, when it does not abort.  CONTROL drives
\* both pins low (control_gpio_init), DISPLAY clears the display
\* (drv_display_init).
EnterLoop(t) ==
    /\ t \in starting
    /\ starting' = starting \ {t}
    /\ looping' = looping \cup {t}
    /\ gpio' = IF t = "CONTROL" THEN Levels("OFF") ELSE gpio
    /\ lcd' = IF t = "DISPLAY" THEN {} ELSE lcd
    /\ UNCHANGED <<core, queues, dsp, ctl_pc, ctlLocals, btn_pc, btnLocals, main_pc,
                   app_pc, made, s_initialized>>

\* A step of ControlLoop by a task that exists.
LoopStep ==
    /\ \/ "SENSORS" \in looping /\ SensorRead
       \/ "CONTROL" \in looping /\ Control
       \/ "BUTTONS" \in looping /\ Buttons
       \/ "DISPLAY" \in looping /\ Display
    /\ UNCHANGED bootVars

\* Where the program may abort: error_fatal for a creation that failed, in
\* app_main, or for the driver of the buttons; the kernel's assertion when
\* LOGGER receives from a queue that was not created; and ESP_ERROR_CHECK, in
\* NET's start-up and again with every address (timeutil.c:37).
MayAbort ==
    \/ \E object \in Objects \ {"g_log_queue"} : Call(object)
    \/ "LOGGER" \in looping /\ "g_log_queue" \notin made
    \/ "BUTTONS" \in starting
    \/ "NET" \in looping

\* abort(): the firmware starts over, the display shows what it showed.
Restart ==
    /\ MayAbort
    /\ app_pc' = 1 /\ made' = {} /\ s_initialized' = FALSE
    /\ starting' = {} /\ looping' = {}
    /\ s_cfg' = DefaultConfig /\ s_cfg_mutex' = "free"
    /\ s_state' = [mode |-> "HEAT", output |-> "OFF"]
    /\ g_q_sensor_samples' = {} /\ g_q_thermostat_state' = {}
    /\ gpio' = Levels("OFF") /\ dsp' = {}
    /\ ctl_pc' = "wait" /\ sample' = {} /\ zone' = "none" /\ output' = "OFF"
    /\ mode' = "OFF" /\ th_state' = "OFF" /\ prev_output' = "OFF"
    /\ btn_pc' = "wait" /\ delta' = 0 /\ btn_cfg' = DefaultConfig /\ next' = "HEAT"
    /\ main_pc' = "running"
    /\ UNCHANGED lcd

BootNext ==
    \/ AppMain
    \/ \E t \in Starters : EnterLoop(t)
    \/ LoopStep
    \/ Restart

BootSpec == BootInit /\ [][BootNext]_allVars
-----------------------------------------------------------------------------
\* With it: set_mode(AUTO) is the last thing app_main does.
BootTypeOK ==
    /\ TypeOK
    /\ app_pc \in 1 .. Len(Calls) + 1
    /\ made \subseteq Objects
    /\ s_initialized \in BOOLEAN
    /\ starting \subseteq Starters /\ looping \subseteq Tasks
    /\ starting \cap looping = {}
    /\ main_pc = "done" <=> app_pc = Len(Calls) + 1

\* A task that has come to its loop finds the objects the loop uses and the
\* core initialized, whatever could not be created: the error returns for a
\* missing mutex or a core that is not initialized (thermostat.c:72-83, 179,
\* 216, thermostat_config.c:42, 62) are never taken, and neither mailbox is
\* ever NULL.  Of LOGGER and its queue this is not so: see MayAbort.
FoundReady ==
    \A t \in looping :
        /\ Needs[t] \subseteq made
        /\ t \in {"CONTROL", "BUTTONS"} => s_initialized

\* Once DISPLAY is in its loop no text of an earlier life of the firmware is
\* taken for the state of the relays, though the display kept it over the
\* abort, whichever of CONTROL and DISPLAY comes first, or at all
\* (drv_display.c:107, task_display.c:25-50).  Before that it may be there.
DisplayOfThisLife == "DISPLAY" \in looping => DisplayTellsRelays

\* Tasks may be missing, AUTO not yet set, and an abort may come in the middle
\* of a round: each life keeps ThermostatPromise from its first state, relays
\* open, on.  No relay closes for a reading, a mode or an output of an earlier
\* life (task_control.c:53, 118, app_main.c:37-96).
KeepsPromiseEachLife == P!PInit /\ [][P!PNext \/ P!PInit']_P!pvars
=============================================================================
