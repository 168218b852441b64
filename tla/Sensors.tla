------------------------------ MODULE Sensors ------------------------------
(***************************************************************************)
(* The SENSORS task and the AHT20 driver below it, in ticks: what each     *)
(* command on the bus may do, the waits between them, and the period of    *)
(* the task.  What a sample does to the rest is module ControlLoop's.      *)
(*                                                                         *)
(* External: the bus, which may fail and recover at any time; a command    *)
(* returns within its timeout, and one that fails may have reached the     *)
(* sensor.  A measurement takes the sensor ConversionTicks full ticks; a   *)
(* sensor that is read before its end gives the result of an earlier one.  *)
(***************************************************************************)
EXTENDS Integers

CONSTANTS
    CommandTimeout,     \* of i2c_master_cmd_begin
    SettleTicks,        \* after the init command
    MeasureTicks,       \* pdMS_TO_TICKS(AHT20_MEASURE_DELAY_MS)
    PeriodTicks,        \* pdMS_TO_TICKS(PERIOD_SENSORS_MS)
    ConversionTicks

ASSUME SensorsAssumption ==
    /\ {CommandTimeout, SettleTicks, MeasureTicks, PeriodTicks, ConversionTicks} \subseteq Nat
    /\ ConversionTicks < MeasureTicks
    /\ 2 * CommandTimeout + MeasureTicks < PeriodTicks
    /\ SettleTicks <= PeriodTicks

VARIABLES
    pc,                     \* where SENSORS is
    g_aht20_initialized,
    timer,                  \* ticks spent at pc
    since,                  \* ticks since last_wake
    bus,                    \* does the bus work?
    busy,                   \* ticks until the sensor has its result
    result,                 \* the latest command's result, or an older one
    \* Not in the code:
    sample,                 \* what was published last
    quiet,                  \* ticks since then
    faulted                 \* has the bus failed since the sample before it?

vars == <<pc, g_aht20_initialized, timer, since, bus, busy, result, sample, quiet, faulted>>

LongestQuiet == PeriodTicks + 2 * CommandTimeout
Blocked == {"install", "init", "settle", "write", "measure", "read", "sleep"}

Init ==
    /\ pc = "install"
    /\ g_aht20_initialized = FALSE
    /\ timer = 0 /\ since = 0
    /\ bus \in BOOLEAN
    /\ busy = 0 /\ result = "old"
    /\ sample = "none" /\ quiet = 0
    /\ faulted = ~bus

Goto(where) == pc' = where /\ timer' = 0

\* The top of the loop: drv_temp_read's first check.
GotoRead(initialized) == Goto(IF initialized THEN "write" ELSE "refuse")

\* Each wait but the sleep ends no later than this.
Limit ==
    [where \in Blocked \ {"sleep"} |->
        CASE where \in {"init", "write", "read"} -> CommandTimeout
          [] where = "settle" -> SettleTicks
          [] where = "measure" -> MeasureTicks
          [] OTHER -> 0]

SleepOver_FromNow == since >= PeriodTicks + MeasureTicks    \* mutant: vTaskDelay

\* vTaskDelayUntil counts from last_wake.
SleepOver == since >= PeriodTicks

Tick ==
    /\ pc \in Blocked
    /\ IF pc = "sleep" THEN ~SleepOver ELSE timer < Limit[pc]
    /\ timer' = IF pc = "sleep" THEN 0 ELSE timer + 1
    /\ since' = since + 1
    /\ busy' = IF busy = 0 THEN 0 ELSE busy - 1
    /\ result' = IF busy = 1 THEN "new" ELSE result
    /\ quiet' = IF quiet <= LongestQuiet THEN quiet + 1 ELSE quiet
    /\ UNCHANGED <<pc, g_aht20_initialized, bus, sample, faulted>>

BusChange ==
    /\ bus' = ~bus
    /\ faulted' = TRUE
    /\ UNCHANGED <<pc, g_aht20_initialized, timer, since, busy, result, sample, quiet>>

\* i2c_master_init: the driver of the bus is installed or not.
Install(ok) ==
    /\ pc = "install"
    /\ IF ok THEN Goto("init") ELSE GotoRead(FALSE)
    /\ since' = 0
    /\ UNCHANGED <<g_aht20_initialized, bus, busy, result, sample, quiet, faulted>>

InitCommand_FlagFirst(ok) ==    \* mutant: ready before it has settled
    /\ pc = "init"
    /\ ok <=> bus
    /\ IF ok THEN Goto("settle") ELSE GotoRead(FALSE)
    /\ since' = 0
    /\ g_aht20_initialized' = TRUE
    /\ UNCHANGED <<bus, busy, result, sample, quiet, faulted>>

\* aht20_init sends its command.
InitCommand(ok) ==
    /\ pc = "init"
    /\ ok <=> bus
    /\ IF ok THEN Goto("settle") ELSE GotoRead(FALSE)
    /\ since' = 0
    /\ UNCHANGED <<g_aht20_initialized, bus, busy, result, sample, quiet, faulted>>

\* The end of drv_temp_sensors_init; last_wake is set after it.
Settled ==
    /\ pc = "settle"
    /\ timer = SettleTicks
    /\ g_aht20_initialized' = TRUE
    /\ GotoRead(TRUE)
    /\ since' = 0
    /\ UNCHANGED <<bus, busy, result, sample, quiet, faulted>>

\* drv_temp_read without a driver that was initialized.
Refuse ==
    /\ pc = "refuse"
    /\ Goto("sleep")
    /\ UNCHANGED <<g_aht20_initialized, since, bus, busy, result, sample, quiet, faulted>>

\* The command starts the measurement in the middle of a tick; one that
\* fails may have started it or not.
Measure(ok) ==
    /\ busy' = ConversionTicks + 1 \/ (~ok /\ busy' = busy)
    /\ result' = "old"

WriteCommand_Unchecked(ok) ==   \* mutant: reads on after a failed command
    /\ pc = "write"
    /\ ok <=> bus
    /\ Goto("measure")
    /\ Measure(ok)
    /\ UNCHANGED <<g_aht20_initialized, since, bus, sample, quiet, faulted>>

WriteCommand_Fatal(ok) ==       \* mutant: error_fatal for error_report
    /\ pc = "write"
    /\ ok <=> bus
    /\ Goto(IF ok THEN "measure" ELSE "aborted")
    /\ Measure(ok)
    /\ UNCHANGED <<g_aht20_initialized, since, bus, sample, quiet, faulted>>

\* aht20_measure_raw sends the command, and gives up when it fails.
WriteCommand(ok) ==
    /\ pc = "write"
    /\ ok <=> bus
    /\ Goto(IF ok THEN "measure" ELSE "sleep")
    /\ Measure(ok)
    /\ UNCHANGED <<g_aht20_initialized, since, bus, sample, quiet, faulted>>

MeasureDelay ==
    /\ pc = "measure"
    /\ timer = MeasureTicks
    /\ Goto("read")
    /\ UNCHANGED <<g_aht20_initialized, since, bus, busy, result, sample, quiet, faulted>>

ReadBytes_Retry(ok) ==  \* mutant: again until it succeeds
    /\ pc = "read"
    /\ ok <=> bus
    /\ Goto(IF ok THEN "sleep" ELSE "read")
    /\ \/ ok /\ sample' = result /\ result' = "old" /\ quiet' = 0 /\ faulted' = FALSE
       \/ ~ok /\ UNCHANGED <<sample, result, quiet, faulted>>
    /\ UNCHANGED <<g_aht20_initialized, since, bus, busy>>

\* The read, the conversion of its bytes and, when it did not fail, the
\* publication of the sample.
ReadBytes(ok) ==
    /\ pc = "read"
    /\ ok <=> bus
    /\ Goto("sleep")
    /\ \/ ok /\ sample' = result /\ result' = "old" /\ quiet' = 0 /\ faulted' = FALSE
       \/ ~ok /\ UNCHANGED <<sample, result, quiet, faulted>>
    /\ UNCHANGED <<g_aht20_initialized, since, bus, busy>>

Wake ==
    /\ pc = "sleep"
    /\ SleepOver
    /\ since' = since - PeriodTicks
    /\ GotoRead(g_aht20_initialized)
    /\ UNCHANGED <<g_aht20_initialized, bus, busy, result, sample, quiet, faulted>>

SensorsStep ==
    \/ \E ok \in BOOLEAN :
          Install(ok) \/ InitCommand(ok) \/ WriteCommand(ok) \/ ReadBytes(ok)
    \/ Settled \/ Refuse \/ MeasureDelay \/ Wake

Next == Tick \/ BusChange \/ SensorsStep

Spec == Init /\ [][Next]_vars
FairSpec == Spec /\ WF_vars(Tick) /\ WF_vars(SensorsStep)
-----------------------------------------------------------------------------
\* The driver's flag is set when, and only when, the whole initialization is
\* behind SENSORS.
TypeOK ==
    /\ g_aht20_initialized \in BOOLEAN
    /\ pc \in IF g_aht20_initialized THEN {"write", "measure", "read", "sleep"}
                ELSE {"install", "init", "settle", "refuse", "sleep"}
    /\ timer \in Nat /\ since \in Nat
    /\ bus \in BOOLEAN /\ faulted \in BOOLEAN
    /\ busy \in 0 .. ConversionTicks + 1
    /\ result \in {"old", "new"} /\ sample \in {"none", "old", "new"}
    /\ quiet \in 0 .. LongestQuiet + 1

\* Each published sample was measured for the command of its own round,
\* whichever commands failed before (drv_temp_sensors.c:201-214): the status
\* byte is not looked at, and need not be while the wait is long enough.
SampleIsNew == sample # "old"

\* No round outlasts the period, though its commands time out and fail: the
\* rounds do not bunch up behind vTaskDelayUntil (task_sensors.c:88).
NoRoundOverruns == since <= PeriodTicks

\* While the bus works the samples follow each other within a period, give
\* or take the time the commands need: no drift (task_sensors.c:41, 88).
Cadence == sample # "none" /\ ~faulted => quiet <= LongestQuiet

\* Once the driver is initialized, samples come again whenever the bus does
\* (task_sensors.c:79-82: a failed read is reported, and tried again).
SamplesResume ==
    <>[](g_aht20_initialized /\ bus) => []<>(pc = "sleep" /\ quiet = 0)
=============================================================================
