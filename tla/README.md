# Specifications of the ESP32 FreeRTOS thermostat

TLA+ models of the firmware in `main/` and `components/`, the TLC runs that check
them, and TLAPS proofs of every safety property the runs check. Paths below are relative to
`src/components/` unless they begin with `main/`; file names are unique.

## 1. The system

An ESP32 with two cores runs FreeRTOS. `app_main` creates the queues, initializes
the thermostat core and starts seven tasks, none of them pinned to a core. An
AHT20 sensor hangs on I2C, an HD44780 display on six GPIOs, a heater relay and a
cooler relay on two GPIOs, and three buttons on three GPIOs with interrupts.

| Part | State it keeps | Operations | Talks to |
|---|---|---|---|
| Thermostat core (`thermostat.c`) | `s_state`: mode, output, last readings; no lock | `process_sample`, `set_mode`, `get_mode`, `get_state_snapshot` (no caller) | CONTROL, BUTTONS, `app_main` |
| Configuration (`thermostat_config.c`) | `s_cfg` under `s_cfg_mutex` | `init`, `get`, `set` | core, BUTTONS |
| SENSORS (`task_sensors.c`) | `last_wake` | read every 500 ms, publish or report | sensor driver; overwrites `g_q_sensor_samples` (depth 1) |
| Sensor driver (`drv_temp_sensors.c`) | `g_aht20_initialized` | init, read: command, wait, read bytes | I2C bus |
| CONTROL (`task_control.c`) | `prev_output` | receive a sample, process it, publish, drive the pins on a change | core; overwrites `g_q_thermostat_state` (depth 1); relay pins |
| Button driver (`drv_buttons.c`) | `s_btn_queue` (8 events) | one interrupt per falling edge | BUTTONS |
| BUTTONS (`task_buttons.c`) | time of the last accepted event of each button | debounce; move the setpoint; cycle the mode | configuration, core |
| DISPLAY (`task_display.c`) | none | receive a snapshot, show it | LCD driver |
| LCD driver (`drv_display.c`) | `s_lcd_initialized`; the controller's own state | init, write a row, show a state | HD44780 |
| NET (`task_net.c`) | `s_retry_count`, `s_wifi_ready`, `s_sent_telemetry`; no lock | event handler; 1 s poll loop, one telemetry post per connection | Wi-Fi driver, event loop, HTTP |
| Time (`timeutil.c`) | `s_time_set` | start SNTP, callback, format | NET, SENSORS |
| Log (`logging.c`, `error.c`) | `g_log_queue` (32 records) | `log_post` (never waits), `error_report`, `error_fatal` (aborts) | every task |
| LOGGER (`task_logger.c`) | the record in hand | receive, print | console |
| HEARTBEAT, watchdog | an LED; nothing (a stub) | blink and post each second; nothing | log |
| `app_main` | how far it has come | create queues and mutex, start the tasks, set AUTO | everything |

What is hard about it:

- **Races on the core.** `s_state` has three writers and no lock. `process_sample`
  reads the mode, decides and stores the output later; `set_mode(OFF)` stores mode
  and output in two steps. `app_main` sets AUTO after the other tasks run.
- **Copies.** CONTROL drives the pins only when a snapshot differs from
  `prev_output`; a press is computed from a copy of the configuration that is stored
  back in a second critical section.
- **A slow reader.** DISPLAY takes a snapshot out of its mailbox and needs milliseconds to
  show it; until then the mailbox is empty and the display has the old text, or half of
  the new one, while CONTROL goes on.
- **Lossy hand-over.** Two mailboxes of depth 1, a queue of button events that
  overflows from interrupts, a log that drops.
- **Time.** Debouncing measured at handling time with a wrapping tick count; a period
  kept by `vTaskDelayUntil` while I2C commands time out; an LCD whose busy flag
  nobody reads.
- **Failure.** Creations that fail, some of them unnoticed; a sensor that never
  initializes, a station that gives up, an abort that overtakes its own log record and
  restarts the firmware at any point of the control loop, a reset in the middle of an
  LCD byte.

## 2. The modules

| Module | Stands for | Uses |
|---|---|---|
| `ThermostatLogic` | the pure part: zones of a reading, the decision table of `process_sample`, `cycle_mode`'s order, the setpoint limits, the pin levels | |
| `ControlLoop` | SENSORS, CONTROL, BUTTONS, DISPLAY and `app_main` on the core, the configuration, the mailboxes and the pins | extends `ThermostatLogic` |
| `ThermostatPromise` | the abstract specification: what relays and setpoint may do, without tasks, locks or copies | extends `ThermostatLogic`; `ControlLoop` instantiates it as `P` |
| `Boot` | `app_main` call by call, failed creations, missing tasks, abort and restart, around the loop | extends `ControlLoop` |
| `Buttons` (`MCButtons`) | interrupt handler, event queue and debounce | |
| `Sensors` | SENSORS and its driver in ticks | |
| `SamplePath` | the way of a sample through both mailboxes to CONTROL and the display, in ticks | extends `Sensors` |
| `Lcd` (`MCLcd`) | the LCD driver nibble by nibble, and the controller | |
| `Net` | event handler, NET task, SNTP flag, Wi-Fi driver, an abort with a new address | |
| `Logging` | `log_post`, `error_report`, `error_fatal`, LOGGER | |
| `LossyLog` | the abstract specification of the log: keep or lose, show in order | `Logging` instantiates it as `L` |
| `ControlLoopProofs`, `BootProofs`, `ButtonsProofs`, `SamplePathProofs`, `NetProofs`, `LoggingProofs`, `LcdProofs` | the theorems | extend their module and `TLAPS`; `BootProofs` also `ControlLoopProofs` |

`ControlLoop` composes the parts that share state. The others meet it through one
narrow interface each, where the model on the other side allows every behaviour
this one has: `Buttons` delivers accepted events, of which `ControlLoop` allows any
sequence; `Sensors` delivers samples or none, of which it allows any; `Lcd` shows
whatever snapshot text comes. So what is checked of `ControlLoop` holds with them.
`Boot` puts the loop into the life of the firmware, `SamplePath` its messages into
time.

### ControlLoop

Grain: one action for each access to shared memory, a pin or a queue, in source
order. The eleven steps of a round of CONTROL are named in `CtlSteps`, the nine of a
press in `BtnSteps`. A critical section of `thermostat_config.c` is two steps, take
and copy-and-give, because the other task can block in between. The tasks interleave
freely: there are two cores, so priorities exclude nothing.

- Temperatures count half degrees, as every constant in `config.h` is a multiple of
  0.5. After CONTROL has copied the configuration, the reading matters only by its
  zone (`below`, `band`, `above`; both comparisons of the code are strict).
- The snapshot is a struct copy. Only `output` is followed: it alone drives the pins,
  and both of its racing values are covered by the interleaving. The data fields have
  one writer.
- `s_state.mode = mode` (`thermostat.c:156`) writes back what was read at line 92. The
  race makes it undefined behaviour; the compiler may keep or drop the store. The
  image under `build/` has it dropped; at `-O0` it is kept. `StoresMode` is the set of
  the outcomes considered; the main runs and the proofs take both.
- The comment of `cycle_mode` and the log of `thermostat_core_init` ("mode=AUTO",
  while the mode is HEAT until `app_main` ends) are not followed; the code is.
- `thermostat_config_get`/`set` wait `portMAX_DELAY` and their arguments are never
  NULL, so their error returns are unreachable.
- DISPLAY takes three steps: the receive, after which the snapshot is in its hand (`dsp`)
  and the mailbox is empty, the beginning of the second row, and its end. `lcd` is the
  output the second row names, none while the row is blank or being written. Between the
  first step and the last, CONTROL may publish and drive any number of times.
- Locals that are dead are reset, so that equal states are equal.

`DisplayTellsRelays` is therefore about the newest snapshot, wherever it is: in the
mailbox, else in DISPLAY's hand, else on the display. The display tells the truth between
two rounds of CONTROL when DISPLAY has nothing left to do; while it has, nothing is
promised of the text it is replacing.

### Boot

`app_pc` counts the calls of `app_main` in their order (`Calls`), `made` holds the
kernel objects created so far, `starting` and `looping` the tasks. A task can run as
soon as it is created, so `EnterLoop` and the steps of the loop interleave with the
rest of `app_main`. Each creation may fail: of the log queue and of a task unnoticed,
of the others fatally. `Restart` is an abort followed by the panic handler's reboot
(`CONFIG_ESP_SYSTEM_PANIC_PRINT_REBOOT` in `src/sdkconfig`); `MayAbort` says when there
can be one. With NET running that is always: `timeutil.c:37` aborts when SNTP cannot be
started with a new address, whatever the other tasks are doing. With LOGGER in its loop it
is whenever its queue was not created: the task does not look, and receives from NULL. RAM
is lost. The text on the display is not: `lcd` stays as it is until DISPLAY comes to its
loop, for `drv_display_init` clears it (`EnterLoop`), and for ever if DISPLAY could not be
created. The prologues of NET, SENSORS, LOGGER and HEARTBEAT change nothing another task
could see, and are part of their first step. `watchdog_init` always succeeds.

`FoundReady` excepts LOGGER: that a task finds its objects is what the code ensures for all
the others, and not for it. `DisplayOfThisLife` and `KeepsPromiseEachLife` say what an
abort must not carry over: a text taken for the present state of the relays once DISPLAY
runs, and a reading, mode or output that closes a relay in the next life.

### Buttons

`ticks` is the wrapping tick count, `last` the three `last_*_ticks`; `age` is the true
age of `last` and `press` the history of the latest press, both only for stating
properties. `FirstEdge`, `BounceEdge` and `Release` are the contact, whose falling
edges run the interrupt handler `Isr`; `Handle` is an iteration of `task_buttons`.
Assumptions about the outside: a contact bounces at most `BounceTicks` after it closes
or opens, an event is handled at most `LagTicks` after its edge, a button is not pressed
anew before that.

### Sensors

`pc` is the place SENSORS waits at, `timer` the ticks it has waited, `since` the ticks
since `last_wake`. Each command succeeds exactly when the bus works at its end, and
returns within its timeout, which the I2C driver outside this repository keeps and the
bound on a round rests on; the bus fails and recovers at any time. The sensor needs
`ConversionTicks` for a result; read earlier it gives an older one.

### SamplePath

A sample is known by its age in ticks since it was published, and the snapshot made
from it by the same age; a mailbox, a task's hand and the display hold one age or none.
`Publish` and `Elsewhere` split the steps of `Sensors` into the one that overwrites
the mailbox and all others. A receive is served within the tick (CONTROL and DISPLAY are
waiting, and of two cores DISPLAY's busy waits take one at most); CONTROL is back at its receive after `ControlTicks` at most,
DISPLAY after `DisplayTicks`. Both are assumptions about the outside, generous for the
firmware: a round of CONTROL is microseconds plus a mutex wait of microseconds, the show
of two rows sends 68 nibbles in about 7 ms.

### Lcd

A job of the driver, the initialization or the show of a snapshot, is a sequence of
bytes (`lcd_cmd`, `lcd_data`), each sent as two nibbles with the wait after them (`Sent`,
`lcd_send`); `at` counts the nibbles of the job that are out. The
controller is `Latch`, `Take`, `Execute` and `WriteData`, from its data sheet: bus width,
half byte, address counter, direction, contents, and the time it still needs. Characters
are their codes, and a garbled character may be any of 256; on an 8-bit bus the lower half
of a byte is whatever the open pins read. `Reset` may
come between any two nibbles and leaves the controller in any of the states in
`Anywhere`, more than those the driver can leave it in, since the pins float meanwhile.

### Net

The three flags and the retry count; one action per event the handler treats and per
step of the poll loop. The Wi-Fi driver (`Environment`) is external: an attempt ends in an
association or in a disconnection, an association in an address or a drop. The
stores of the GOT_IP branch are one step: a poll between two of them sees what a poll
before or after all of them does, unless a whole HTTP exchange fits in between.
`Reboot` is the other outcome of that branch: SNTP cannot be started,
`ESP_ERROR_CHECK` aborts, and NET starts from the beginning.

### Logging

`log_post` and `error_fatal` for any task, before and after LOGGER starts; the queue may
not have been created. `LossyLog` is what posters and reader see of it: no queue, no
LOGGER, no record in its hand; the mapping takes the posts, the records taken in, the
console, and whether the program was aborted. The fallback's three prints are one step (they print `"/n"` where
a newline is meant; layout is not modelled).

## 3. The runs

`expect pass`:

| Run | Question | Bounds |
|---|---|---|
| `loop_safe` | Do pins, core and newest snapshot agree between rounds, are both relays closed only in passing, does OFF win the round that saw it, does the loop implement the promise? | three setpoints two apart (both limits and the default) around one reading, so that the reading is below, in and above the band; both `StoresMode`; 5.9 M states |
| `loop_live` | Do rounds and presses end, does a lasting OFF open the relays when samples keep coming? | one setpoint and one cold reading, which close the heat relay that has to be opened; the modes COOL and OFF keep or open it |
| `buttons` | Is each press heard that finds room, acted upon once unless its release bounces late, and is a press dropped only for the events of other buttons? | two interchangeable buttons, two edges per press, debounce 3, tick count modulo 5, so it wraps within a few presses; a queue of 2, which the bounces of one button fill; 5.6 M states |
| `net_safe` | Do the flags follow the link, are retries bounded, does a connection cause one send, does the station come back? | the real retry limit 5; nothing else needs a bound |
| `boot` | Does every loop but LOGGER's find its objects, does each life keep the promise, does the display show no earlier life once DISPLAY runs, with creations that fail, tasks missing and restarts at any point? | one setpoint, a cold reading, both `StoresMode`, the whole of `app_main` with all seven tasks, of which the four of the loop may be missing (`MayBeMissing`), any number of restarts; 1.4 M states |
| `log` | Does the log implement `LossyLog`, losing only when full, does posting never wait, is what was taken in printed? | two tasks with three posts, a queue of 2: it fills and drains several times |
| `sensors` | Is each sample of its own round, do rounds keep the period, do samples come back, does each reach the display, and no mailbox overwrite what its reader has not taken? | the real values in 10 ms ticks (timeout 10, settling 4, wait 10, period 50), a conversion of 8; CONTROL up to 3 ticks, DISPLAY up to 26, the most the assumption allows |
| `lcd_safe` | Does the initialization find the byte boundary from any state, do the rows read what was asked for, is the controller never overrun? | the real 16 columns and delays; a text that is too short and one that is too long |

In `boot` the relay of the heater is closed, kept, opened and caught closed by a restart; a
second reading triples the states, since a restart may come in any of them, and is left to
`loop_safe` and to the theorems of `BootProofs`, which hold for all. A missing NET, LOGGER or
HEARTBEAT only takes ways to abort away, and to a safety property a missing task is like
one that is never scheduled.

The counters that exist only for properties stop growing at the last value that
matters; `MaxPosts`, `MaxEdges` bound posts and edges. Deadlock is checked except
in `Logging` (posts are bounded and an abort ends it), `Boot` (an `app_main` that is
over with every task missing) and `Net` (a station that has
given up, or has sent, does nothing more; a poll that finds its condition false
changes nothing).

`expect violation`, each a line of the source the code does not keep:

| Run | The source says | The trace |
|---|---|---|
| `loop_off_output` | `thermostat.c:192` "force outputs OFF immediately" | a round that read another mode stores its output after `set_mode(OFF)`. TLC's shortest trace presses the button twice within the round, as the mode starts in HEAT; from COOL one press is enough. The next sample repairs it (`OffPrevails`) |
| `buttons_release` | `drv_buttons.c:68` "pressed -> line goes low", `task_buttons.c:112` | a button held past the debounce time bounces as it opens and acts again |
| `net_once` | `task_net.c:26` "once per connection" | a send that outlasts a reconnection marks the new connection as served |
| `net_kept` | `task_net.c:174` "keep it running" | after five refusals in a row nobody connects again. `config.h:134` presents this as intended, "giving up (for now just log)": the two comments disagree, and the code follows that one |

Other differences between comments and code, seen while modelling and left without a
run of their own:

- `logging.c:13` "falls back to printf": tasks do, but LOGGER receives from the missing
  queue, the kernel's assertion aborts, and the firmware starts over (`MayAbort`).
- `app_main.c:70-72` "the logger must be running before others start": NET starts before
  it. Nothing is lost by that but what a full queue drops (`KeepsLossyLog`).
- `app_main.c:53` "defaults or stored values": nothing is stored; after a restart a
  user's setpoint, and a user's OFF, are forgotten.
- `task_control.c:53` "so we never boot into an ON state": true of the pins CONTROL
  configures; if the task could not be created, they stay inputs.
- `task_sensors.c:31` "the system will reset": the watchdog is a stub.
- `thermostat.c:160` "Mode remains whatever was last set": with the store of line 156
  kept, a mode set within a round is undone.
- `task_control.c:61-62` translates an output into levels: from cooling to heating the
  pins have, between the two writes, the levels of no output (`BothOnlyInPassing` says when).
- `thermostat.c:61` "stable inside the band": AUTO switches off as soon as the band is
  entered, as `thermostat.c:133` says.
- `thermostat.c:97` "Everything off regardless of temperature": a relay that is closed
  stays so in OFF until another sample comes.
- `task_buttons.c:55` "OFF -> HEAT": OFF is followed by AUTO.
- `error.h:19` "Log and abort": the abort comes before LOGGER prints the record.
- `drv_temp_sensors.c:314` calls a read before the initialization "a programming or
  startup order bug": after an initialization that failed, every period makes one.

### Fairness

- `ControlLoop`: weak fairness of a ready task (a preemptive scheduler on two cores;
  the one task that spins is DISPLAY, in the driver's delays of at most some
  milliseconds between two receives, so it takes no core for good); strong fairness of the mutex waits, since CONTROL takes the mutex for
  microseconds in 500 ms and FreeRTOS wakes waiters when it is given. None for presses
  and samples; `OffPrevails` assumes samples in its statement.
- `Boot`: none, it states safety only.
- `Net`: weak fairness of NET, of the event task, of the driver's answers, of the lease
  and of the time server while the station stays up. None for success: only
  `FairSpecGoodAP`, used for the violation `KeptRunning`, adds an access point that would
  accept, which makes the counterexample stronger. A firmware that keeps starting over
  is excepted by the statements of `ComesBack` and `KeptRunning`.
- `Logging`: the posters go on, and so does LOGGER once it exists, of the highest priority
  the program uses. It may never exist (the result of its `xTaskCreate` is ignored), so
  posting must not depend on it, and what it prints is demanded once it has started.
- `SamplePath`: time passes, and SENSORS, CONTROL and DISPLAY run when they are ready (DISPLAY
  spins in the delays of the LCD driver, some 7 ms for each snapshot, which leaves the other
  core to the rest and is part of `DisplayTicks`). The bus has none; `SamplesResume` states what
  it needs of it.
- `Buttons` and `Lcd` have no liveness properties; deadlines are in the guard of `Tick`.

## 4. What is proved

Every safety property of the passing runs, invariant or action property, is
proved for all values of the constants, from the named assumptions of its module. In each proofs
module the properties are not inductive as they stand; a strengthening (`IInv`) is, one
lemma per group of conjuncts or per action shows that a step keeps it, and each theorem
follows from it. TLC checked each strengthening on small instances before it was proved.

### ControlLoopProofs

For every setpoint range, step, hysteresis and set of readings (`LogicAssumption`) and
every choice of `StoresMode` (`StoresModeAssumption`):

| Theorem | Statement |
|---|---|
| `Invariance` | `Spec => []IInv` |
| `TypeCorrect` | `[]TypeOK`, with it that the stored setpoint keeps its limits |
| `CoreAgreement` | between rounds the pins show the core's output unless the core is OFF |
| `DisplayAgreement` | between rounds the newest snapshot, in the mailbox, in DISPLAY's hand or shown, names the output of the pins |
| `RelaysMeetInPassing` | both relays are closed together only between the two writes of a round that turns from cooling to heating |
| `WrongWay` | an output against the mode is one that was kept in the band |
| `OffRound` | a round that read OFF ends with both relays open |
| `Promise` | the loop implements `ThermostatPromise` |

What holds between two rounds depends on the locals inside the round. `LoopInv` follows a
round step by step. `ZoneInv`: a reading has a zone exactly from the copy of the
configuration on. `DecisionInv`: the decision in hand was made from `prev_output` or
OFF. `CommandInv`: before the store the core's output is `prev_output` or OFF, then the
decision or OFF, then the snapshot or OFF; "or OFF" is all that `set_mode` can do to it.
`PinInv`: the pins have `prev_output`'s levels, except between the two writes.
`MailboxInv`: what waits in the mailbox is what is driven or being driven. `PressInv` does
the same for a press: only BUTTONS writes the configuration, so what was computed from the
copy is what the store needs. `PublishInv` follows the newest snapshot out of the mailbox,
into DISPLAY's hand and onto the display, and `IInv` is `LoopInv` with it. The two are
apart because a restart keeps the one and not the other.

For `Promise` the refinement mapping reads setpoint and mode off the configuration and
the core, the relays off the pins, and the judgement under way off the locals `zone` and
`mode`. The judgement has two instants, for setpoint and for mode, because the code looks
at them at two moments. The promise says when a relay may close, not that the other is open by then; that is
`RelaysMeetInPassing`.

### BootProofs

`BootTypeCorrect` (set_mode(AUTO) is the last call of `app_main` in every life),
`TasksFindTheirObjects` (`FoundReady`), `DisplayClearedFirst` (`DisplayOfThisLife`) and
`PromiseEachLife` (`KeepsPromiseEachLife`), for every set of tasks that may be missing. Each
step is one of the loop, which keeps `LoopInv` by the lemmas of `ControlLoopProofs`; or
leaves everything but the display's text alone (`Outside`), as `EnterLoop` of CONTROL does,
which drives the pins low, because CONTROL has not run before (`QuietInv`); or is a restart,
which establishes `LoopInv` and not `IInv`, as the old text stays. `ShownInv` takes the
place of `PublishInv`: it demands nothing of the text until DISPLAY is in its loop, and then
that the newest snapshot is of the output driven. `MadeInv` and `StartedInv` say that an
object is in `made` once `app_main` is past its call, and that a task runs only after its
own, which comes later.

### ButtonsProofs

`TypeCorrect`, `TapsActOnce`, `DuePressesHeard`, `AcceptancesApart`, `DropsNeedOthers`,
for any finite number of buttons, length of the queue, bounce time, lag and debounce time, if debounce time and lag
together are less than a turn of the tick count (`ButtonsAssumption`). `ClockInv` ties
the wrapping tick counts to true ages: the modular difference is the age until that is a
whole turn. `EventInv` ties a waiting event to its press: the edge it comes from is no
older than the event has waited. So an event that passes the test after another of the
same press proves that the press has lasted (`ServedInv`), and one that is due waits
in the queue and will pass (`DueInv`).

`DropsNeedOthers` (`DroppedByOthersOnly`) counts. `RankInv` says that the waiting events can be
numbered so that two of one button never have the same number and none has a number
above the edges its button has made in the present press: a new edge gives the next
number, and a press begins only when no event of its button is left, because those have
reached `LagTicks` by then (`NothingWaits`). At a first edge, then, every waiting event
belongs to one of the other buttons, and button and number tell the events apart. If the
queue is full there are as many such pairs as it has places, that is, the other buttons
have made at least that many edges in their latest presses (`OthersFill`, a pigeonhole
argument with the library's theorems on finite sets). Nothing is assumed of the number
of edges, so this is what the real queue of eight does under any bouncing: a press is lost
to eight edges of the two other buttons, never to bounces of its own.

### SamplePathProofs

`PathTypeCorrect`, `SamplesAreNew`, `RoundsFit`, `SamplesInTime`, `MailboxesEmptied`,
`DisplayIsCurrent`, of `PathSpec`: fairness is not needed for safety, deadlines being in
the guards of the ticks. The assumptions relate the times: the driver's waits cover the
conversion, a round's commands and waits fit into the period, and CONTROL and DISPLAY
together are quicker than two squeezed rounds are apart. The invariant bounds `since` at
each place SENSORS waits at, the age of what CONTROL and DISPLAY hold by how long they
have held it, and says that what is in the path behind the newest sample is that sample.

### NetProofs

`TypeCorrect`, `GivesUp`, `FlagFollowsLink`, `ServedAtMostOnce`, for every retry limit.
The invariant orders the events in the queue: which can follow which, and what the flags
will be when they are handled.

### LoggingProofs

`TypeCorrect`, `FirstInFirstOut` and `Lossy`: `Logging` implements
`LossyLog`, for any set of tasks, queue length and number of posts. `Fifo` is inductive
with the types and with what LOGGER can have in its hand: nothing without a queue, one
record, the next to show, while it prints.

### LcdProofs

`TypeCorrect`, `StaysInStep`, `DelaysSuffice`, `ReadsAsAsked`, `RowsApart`, for every width
from 1 to the 40 columns a row of the controller's memory has, and any set of texts of any
length (`LcdAssumption`). The proof has three layers:

- *Bytes.* `SentNibbles`, `InitNibbles` and `ShowNibbles` say which nibble of a job is
  which half of which byte (`ShowByte(k)`), so that the steps need not look into the
  concatenated sequences. `FirstHalf` and `SecondHalf`: a controller on a 4-bit bus that is in step
  takes exactly that byte, and is done with it within the delay.
- *The controller.* `LatchType` and `TakeType`: whatever byte arrives, sent or
  garbled, leaves a controller of the same type and takes 1520 us at most, which only the
  bytes 1 to 3 take. One lemma for each instruction the driver sends says what it changes
  and what it keeps (`WriteEffect`, `AddressEffect`, `ClearEffect`, ...).
- *The jobs.* `InitInv` follows the initialization. After one "3" the controller stands at
  the beginning of a byte or holds a 3; after two it is on its 8-bit bus or holds a
  3; after three it is on the 8-bit bus, whatever it was doing before, and the "2" takes it to
  the 4-bit one. The first "3" may complete any byte that ends in 3. The slowest of them is a
  return home, which the 4.5 ms cover; the 150 us after the third would not, but by then
  only function sets can come out (`Wakes`). Then
  each command settles a part of the state (`Commanded`). `ShowInv` follows a show: after `k` bytes the
  address counter stands at `Cursor(k)` and every cell before it reads what was asked for.
  At 40 columns the counter runs from the end of one row into the other, and the address
  that begins the next row takes it back (`ByteShown`). `InStep` holds across jobs
  because each has an even number of nibbles, and `Done` hands the state from one job to
  the next.

### Only model-checked

- Every liveness property (the prover has neither fairness nor ENABLED): `CallsReturn`,
  `OffPrevails`, `ComesBack`, `PostersFinish`, `Printed`, `SamplesResume`.
  What they need beyond the theorems is fairness only; the states they start from are
  covered by the invariants above.

## 5. What is not modelled

- The watchdog, a stub that never resets anything; the LED of HEARTBEAT (its start is in
  `Boot`, its posts are those of a poster of `Logging`).
- `drv_display_clear` and `thermostat_get_state_snapshot`, which nobody calls;
  `thermostat_get_state`, declared and not defined.
- The conversion of the sensor's 20 bits, the formatting of rows, records, time and JSON.
  The display prints the setpoint with `%2.0f`, so half degrees are rounded on it; the
  model of the LCD begins with the text.
- The data fields of a snapshot: they have one writer and are only shown and logged.
- `timestamp_ms` wraps after 49.7 days; it is only logged.
- Interrupts of buttons and events of the network during the boot: the models of `Buttons`
  and `Net` begin when the driver, or the task, does, and `ControlLoop` allows any press.
- Reads and writes in an order other than the source's. `s_state` is not volatile, but
  the one store whose presence changes the outcome is covered by `StoresMode`.
- The generated files under `build/`.

## 6. Plan

Done since the first version: the boot with its failures and restarts, the path of a
sample, the abstract log, and the proofs of `Boot`, `Buttons`, `SamplePath`, `Net`,
`Logging` and `Lcd`, which leave no safety property of a run without a theorem. What could
follow:

1. A `Boot` that composes `Net` and `Buttons` too, so that an abort in one is seen by all
   the others at once, instead of by the loop and by `Net` separately.
2. A theorem that `Buttons`, seen from the events it accepts, is the environment
   `ControlLoop` assumes, so that the interface in section 2 is proved as well as argued.
