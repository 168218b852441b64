-------------------------- MODULE SamplePathProofs --------------------------
(***************************************************************************)
(* Theorems about Sensors and SamplePath, for all timeouts, waits and      *)
(* periods the two assumptions allow.                                      *)
(*                                                                         *)
(* The age of the newest sample is bounded from both sides by where        *)
(* SENSORS is in its round (QuietInv).  From above that gives the cadence; *)
(* from below it says that the sample before has reached the display when  *)
(* the next is published, so that only one is on its way (WayInv).         *)
(***************************************************************************)
EXTENDS SamplePath, TLAPS

C == CommandTimeout
M == MeasureTicks
P == PeriodTicks

\* How long a round has lasted at each of its places.
RoundInv ==
    /\ pc \in {"install", "init", "settle", "write", "refuse"} => since = timer
    /\ pc \in {"install", "refuse"} => timer = 0
    /\ pc \in {"init", "write"} => timer <= C
    /\ pc = "settle" => timer <= SettleTicks
    /\ pc = "measure" => timer <= M /\ timer <= since /\ since <= C + timer
    /\ pc = "read" => timer <= C /\ M <= since /\ since <= C + M + timer
    /\ pc = "sleep" => since <= P

\* The sensor finishes within the wait.
ResultInv ==
    /\ pc = "measure" => \/ busy > 0 /\ busy + timer = ConversionTicks + 1
                         \/ busy = 0 /\ result = "new"
    /\ pc = "read" => busy = 0 /\ result = "new"

\* The age of the newest sample, for a bus that works and for any.
QuietInv ==
    sample # "none" =>
        /\ g_aht20_initialized
        /\ IF pc = "sleep" THEN since <= quiet + 2 * C + M
                           ELSE since + P <= quiet + 2 * C + M
        /\ ~faulted => /\ bus
                       /\ IF pc = "sleep" THEN quiet + M <= since
                                          ELSE quiet + M <= since + P

\* What is on its way: the newest sample or nothing, once and in one place.
OnTheWay(box, hand, box2, hand2) ==
    /\ g_q_sensor_samples = box /\ ctl = hand
    /\ g_q_thermostat_state = box2 /\ dsp = hand2

WayInv ==
    \/ sample = "none" /\ OnTheWay({}, {}, {}, {}) /\ shown = {}
    \/ /\ sample # "none"
       /\ \/ OnTheWay({quiet}, {}, {}, {}) /\ quiet = 0
          \/ OnTheWay({}, {quiet}, {}, {}) /\ quiet <= ctl_for
          \/ OnTheWay({}, {}, {quiet}, {}) /\ quiet <= ControlTicks
          \/ OnTheWay({}, {}, {}, {quiet}) /\ quiet <= ControlTicks + dsp_for
          \/ OnTheWay({}, {}, {}, {}) /\ shown = {quiet}

HeldInv ==
    shown \in Holders /\ ctl_for \in 0 .. ControlTicks /\ dsp_for \in 0 .. DisplayTicks

SInv == TypeOK /\ RoundInv /\ ResultInv /\ SampleIsNew /\ QuietInv

PathInv == SInv /\ WayInv /\ HeldInv
-----------------------------------------------------------------------------
(***************************************************************************)
(* SENSORS.                                                                *)
(***************************************************************************)

\* The limits of the waits, one by one.
LEMMA Limits ==
    /\ Limit["install"] = 0 /\ Limit["init"] = C /\ Limit["settle"] = SettleTicks
    /\ Limit["write"] = C /\ Limit["measure"] = M /\ Limit["read"] = C
BY DEF Limit, Blocked, C, M

\* Before the first round nothing has been published.
LEMMA InitSInv == Init => SInv
<1> SUFFICES ASSUME Init PROVE SInv
  OBVIOUS
<1>1. LongestQuiet \in Nat /\ ConversionTicks \in Nat
  BY SensorsAssumption DEF LongestQuiet
<1>2. faulted \in BOOLEAN /\ bus \in BOOLEAN
  BY DEF Init
<1>3. TypeOK
  <2>1. busy \in 0 .. ConversionTicks + 1 /\ quiet \in 0 .. LongestQuiet + 1
    BY <1>1 DEF Init
  <2>2. /\ g_aht20_initialized \in BOOLEAN
        /\ pc \in IF g_aht20_initialized THEN {"write", "measure", "read", "sleep"}
                   ELSE {"install", "init", "settle", "refuse", "sleep"}
    BY DEF Init
  <2> QED BY <1>2, <2>1, <2>2 DEF Init, TypeOK
<1>4. RoundInv /\ ResultInv /\ SampleIsNew /\ QuietInv
  BY SensorsAssumption DEF Init, RoundInv, ResultInv, SampleIsNew, QuietInv, P
<1> QED BY <1>3, <1>4 DEF SInv

\* Time passes in a round, within the limit of the place it is at.
LEMMA TickSInv == SInv /\ Tick => SInv'
<1> SUFFICES ASSUME SInv, Tick PROVE SInv'
  OBVIOUS
<1>1. /\ TypeOK /\ RoundInv /\ ResultInv /\ SampleIsNew /\ QuietInv
      /\ pc' = pc /\ since' = since + 1
      /\ timer' = IF pc = "sleep" THEN 0 ELSE timer + 1
      /\ UNCHANGED <<g_aht20_initialized, bus, sample, faulted>>
  BY DEF SInv, Tick
<1>2. pc = "sleep" => since < P
  <2>1. pc = "sleep" => ~SleepOver
    BY DEF Tick
  <2>2. since \in Nat /\ P \in Nat
    BY <1>1, SensorsAssumption DEF TypeOK, P
  <2> QED BY <2>1, <2>2 DEF SleepOver, P
<1>3. pc # "sleep" => pc \in Blocked /\ timer < Limit[pc]
  BY DEF Tick
<1>4. LongestQuiet \in Nat /\ LongestQuiet = P + 2 * C /\ {C, M, P, SettleTicks} \subseteq Nat
  BY SensorsAssumption DEF LongestQuiet, C, M, P
<1>5. TypeOK'
  <2>1. timer' \in Nat /\ since' \in Nat
    BY <1>1 DEF TypeOK
  <2>2. busy' \in 0 .. ConversionTicks + 1 /\ result' \in {"old", "new"}
    BY SensorsAssumption, <1>1 DEF TypeOK, Tick
  <2>3. quiet' \in 0 .. LongestQuiet + 1
    BY <1>1, <1>4 DEF TypeOK, Tick
  <2> QED BY <1>1, <2>1, <2>2, <2>3 DEF TypeOK
<1>6. RoundInv'
  <2>1. CASE pc = "sleep"
    BY <1>1, <1>2, <1>4, <2>1 DEF RoundInv, TypeOK
  <2>2. CASE pc # "sleep"
    BY <1>1, <1>3, <1>4, <2>2, Limits DEF RoundInv, TypeOK, Blocked
  <2> QED BY <2>1, <2>2
<1>7. ResultInv'
  <2>1. /\ busy' = IF busy = 0 THEN 0 ELSE busy - 1
        /\ result' = IF busy = 1 THEN "new" ELSE result
    BY DEF Tick
  <2> QED BY <1>1, <2>1, SensorsAssumption DEF ResultInv, TypeOK
<1>8. SampleIsNew'
  BY <1>1 DEF SampleIsNew
<1>9. QuietInv'
  <2> SUFFICES ASSUME sample # "none" PROVE QuietInv'
    BY <1>1 DEF QuietInv
  <2>1. quiet' = IF quiet <= LongestQuiet THEN quiet + 1 ELSE quiet
    BY DEF Tick
  <2>2. pc \in {"write", "measure", "read", "sleep"} /\ quiet \in 0 .. LongestQuiet + 1
    BY <1>1 DEF QuietInv, TypeOK
  <2>3. pc # "sleep" => since' <= 2 * C + M
    BY <1>1, <1>4, <1>6, <2>2 DEF RoundInv, TypeOK
  <2>4. pc = "sleep" => since' <= P
    BY <1>1, <1>2, <1>4 DEF TypeOK
  <2>5. CASE quiet <= LongestQuiet
    BY <1>1, <1>4, <2>1, <2>2, <2>5 DEF QuietInv, TypeOK
  <2>6. CASE quiet = LongestQuiet + 1
    BY <1>1, <1>4, <2>1, <2>2, <2>3, <2>4, <2>6 DEF QuietInv, TypeOK
  <2> QED BY <1>4, <2>2, <2>5, <2>6
<1> QED BY <1>5, <1>6, <1>7, <1>8, <1>9 DEF SInv

\* The bus fails, or works again.
LEMMA BusSInv == SInv /\ BusChange => SInv'
<1> SUFFICES ASSUME SInv, BusChange PROVE SInv'
  OBVIOUS
<1>1. /\ bus' \in BOOLEAN /\ faulted' = TRUE
      /\ UNCHANGED <<pc, g_aht20_initialized, timer, since, busy, result, sample, quiet>>
  BY DEF BusChange, SInv, TypeOK
<1>2. TypeOK'
  BY <1>1 DEF SInv, TypeOK
<1>3. RoundInv' /\ ResultInv' /\ SampleIsNew'
  BY <1>1 DEF SInv, RoundInv, ResultInv, SampleIsNew
<1>4. QuietInv'
  BY <1>1 DEF SInv, QuietInv
<1> QED BY <1>2, <1>3, <1>4 DEF SInv

\* Where the steps of SENSORS lead: each leaves the bus alone, starts the next
\* wait at zero, and is taken in the place that is its own.
LEMMA StepSInv == SInv /\ SensorsStep => SInv'
<1> SUFFICES ASSUME SInv, SensorsStep PROVE SInv'
  OBVIOUS
<1>1. /\ TypeOK /\ RoundInv /\ ResultInv /\ SampleIsNew /\ QuietInv
      /\ {C, M, P, SettleTicks, ConversionTicks} \subseteq Nat
      /\ ConversionTicks < M /\ 2 * C + M < P /\ SettleTicks <= P
  BY SensorsAssumption DEF SInv, C, M, P
<1> USE DEF Goto, GotoRead
<1>2. ASSUME NEW ok \in BOOLEAN, Install(ok) \/ InitCommand(ok)
      PROVE  SInv'
  <2>1. /\ pc \in {"install", "init"} /\ pc' \in {"init", "settle", "refuse"}
        /\ timer' = 0 /\ since' = 0 /\ ~g_aht20_initialized
        /\ UNCHANGED <<g_aht20_initialized, bus, busy, result, sample, quiet, faulted>>
    BY <1>1, <1>2 DEF Install, InitCommand, TypeOK
  <2>2. TypeOK'
    BY <1>1, <2>1 DEF TypeOK
  <2>3. RoundInv' /\ ResultInv' /\ SampleIsNew'
    BY <1>1, <2>1 DEF RoundInv, ResultInv, SampleIsNew
  <2>4. QuietInv'
    BY <1>1, <2>1 DEF QuietInv
  <2> QED BY <2>2, <2>3, <2>4 DEF SInv
<1>3. CASE Settled
  <2>1. /\ pc' = "write" /\ timer' = 0 /\ since' = 0 /\ g_aht20_initialized' = TRUE
        /\ sample = "none"
        /\ UNCHANGED <<bus, busy, result, sample, quiet, faulted>>
    BY <1>1, <1>3 DEF Settled, TypeOK, QuietInv
  <2>2. TypeOK'
    BY <1>1, <2>1 DEF TypeOK
  <2>3. RoundInv' /\ ResultInv' /\ SampleIsNew'
    BY <1>1, <2>1 DEF RoundInv, ResultInv, SampleIsNew
  <2>4. QuietInv'
    BY <2>1 DEF QuietInv
  <2> QED BY <2>2, <2>3, <2>4 DEF SInv
<1>4. CASE Refuse
  <2>1. /\ pc = "refuse" /\ pc' = "sleep" /\ timer' = 0
        /\ ~g_aht20_initialized /\ sample = "none"
        /\ UNCHANGED <<g_aht20_initialized, since, bus, busy, result, sample, quiet, faulted>>
    BY <1>1, <1>4 DEF Refuse, TypeOK, QuietInv
  <2>2. TypeOK'
    BY <1>1, <2>1 DEF TypeOK
  <2>3. RoundInv' /\ ResultInv' /\ SampleIsNew'
    BY <1>1, <2>1 DEF RoundInv, ResultInv, SampleIsNew
  <2>4. QuietInv'
    BY <2>1 DEF QuietInv
  <2> QED BY <2>2, <2>3, <2>4 DEF SInv
<1>5. ASSUME NEW ok \in BOOLEAN, WriteCommand(ok)
      PROVE  SInv'
  <2>1. /\ pc = "write" /\ (ok <=> bus) /\ pc' = (IF ok THEN "measure" ELSE "sleep")
        /\ timer' = 0 /\ result' = "old" /\ g_aht20_initialized
        /\ busy' = ConversionTicks + 1 \/ (~ok /\ busy' = busy)
        /\ UNCHANGED <<g_aht20_initialized, since, bus, sample, quiet, faulted>>
    BY <1>1, <1>5 DEF WriteCommand, Measure, TypeOK
  <2>2. since <= C
    BY <1>1, <2>1 DEF RoundInv
  <2>3. TypeOK'
    <3>1. busy' \in 0 .. ConversionTicks + 1
      BY <1>1, <2>1 DEF TypeOK
    <3> QED BY <1>1, <2>1, <3>1 DEF TypeOK
  <2>4. RoundInv' /\ ResultInv' /\ SampleIsNew'
    BY <1>1, <2>1, <2>2 DEF RoundInv, ResultInv, SampleIsNew, TypeOK
  <2>5. QuietInv'
    <3> SUFFICES ASSUME sample # "none" PROVE QuietInv'
      BY <2>1 DEF QuietInv
    <3>1. ~faulted => ok
      BY <1>1, <2>1 DEF QuietInv
    <3>2. since + P <= quiet + 2 * C + M /\ (~faulted => bus /\ quiet + M <= since + P)
      BY <1>1, <2>1 DEF QuietInv
    <3>3. since \in Nat /\ quiet \in Nat
      BY <1>1, SensorsAssumption DEF TypeOK, LongestQuiet
    <3> QED BY <1>1, <2>1, <3>1, <3>2, <3>3 DEF QuietInv
  <2> QED BY <2>3, <2>4, <2>5 DEF SInv
<1>6. CASE MeasureDelay
  <2>1. /\ pc = "measure" /\ timer = M /\ pc' = "read" /\ timer' = 0
        /\ UNCHANGED <<g_aht20_initialized, since, bus, busy, result, sample, quiet, faulted>>
    BY <1>6 DEF MeasureDelay, M
  <2>2. busy = 0 /\ result = "new" /\ M <= since /\ since <= C + M
    BY <1>1, <2>1 DEF RoundInv, ResultInv, TypeOK
  <2>3. TypeOK'
    BY <1>1, <2>1 DEF TypeOK
  <2>4. RoundInv' /\ ResultInv' /\ SampleIsNew'
    BY <1>1, <2>1, <2>2 DEF RoundInv, ResultInv, SampleIsNew, TypeOK
  <2>5. QuietInv'
    BY <1>1, <2>1 DEF QuietInv
  <2> QED BY <2>3, <2>4, <2>5 DEF SInv
<1>7. ASSUME NEW ok \in BOOLEAN, ReadBytes(ok)
      PROVE  SInv'
  <2>1. /\ pc = "read" /\ (ok <=> bus) /\ pc' = "sleep" /\ timer' = 0 /\ g_aht20_initialized
        /\ \/ ok /\ sample' = result /\ result' = "old" /\ quiet' = 0 /\ faulted' = FALSE
           \/ ~ok /\ UNCHANGED <<sample, result, quiet, faulted>>
        /\ UNCHANGED <<g_aht20_initialized, since, bus, busy>>
    BY <1>1, <1>7 DEF ReadBytes, TypeOK
  <2>2. result = "new" /\ M <= since /\ since <= 2 * C + M /\ since \in Nat
    BY <1>1, <2>1 DEF RoundInv, ResultInv, TypeOK
  <2>3. TypeOK'
    <3>1. quiet' \in 0 .. LongestQuiet + 1
      BY <1>1, <2>1, SensorsAssumption DEF TypeOK, LongestQuiet
    <3>2. faulted' \in BOOLEAN /\ sample' \in {"none", "old", "new"} /\ result' \in {"old", "new"}
      BY <1>1, <2>1 DEF TypeOK
    <3> QED BY <1>1, <2>1, <3>1, <3>2 DEF TypeOK
  <2>4. RoundInv' /\ ResultInv' /\ SampleIsNew'
    BY <1>1, <2>1, <2>2 DEF RoundInv, ResultInv, SampleIsNew
  <2>5. QuietInv'
    <3>1. CASE ok
      BY <1>1, <2>1, <2>2, <3>1 DEF QuietInv
    <3>2. CASE ~ok
      <4> SUFFICES ASSUME sample # "none" PROVE QuietInv'
        BY <2>1, <3>2 DEF QuietInv
      <4>1. since + P <= quiet + 2 * C + M /\ faulted
        BY <1>1, <2>1, <3>2 DEF QuietInv
      <4>2. quiet \in Nat
        BY <1>1, SensorsAssumption DEF TypeOK, LongestQuiet
      <4>3. since <= quiet + 2 * C + M
        BY <1>1, <2>2, <4>1, <4>2
      <4> QED BY <2>1, <3>2, <4>1, <4>3 DEF QuietInv
    <3> QED BY <3>1, <3>2
  <2> QED BY <2>3, <2>4, <2>5 DEF SInv
<1>8. CASE Wake
  <2>1. /\ pc = "sleep" /\ pc' = (IF g_aht20_initialized THEN "write" ELSE "refuse")
        /\ timer' = 0 /\ since >= P /\ since' = since - P
        /\ UNCHANGED <<g_aht20_initialized, bus, busy, result, sample, quiet, faulted>>
    BY <1>8 DEF Wake, SleepOver, P
  <2>2. since = P /\ since' = 0
    BY <1>1, <2>1 DEF RoundInv, TypeOK
  <2>3. TypeOK'
    BY <1>1, <2>1, <2>2 DEF TypeOK
  <2>4. RoundInv' /\ ResultInv' /\ SampleIsNew'
    BY <1>1, <2>1, <2>2 DEF RoundInv, ResultInv, SampleIsNew
  <2>5. QuietInv'
    BY <1>1, <2>1, <2>2 DEF QuietInv
  <2> QED BY <2>3, <2>4, <2>5 DEF SInv
<1> QED BY <1>2, <1>3, <1>4, <1>5, <1>6, <1>7, <1>8 DEF SensorsStep

\* SENSORS and the bus alone.
LEMMA NextSInv == SInv /\ [Next]_vars => SInv'
<1>1. SInv /\ UNCHANGED vars => SInv'
  BY DEF SInv, TypeOK, RoundInv, ResultInv, SampleIsNew, QuietInv, vars
<1> QED BY <1>1, TickSInv, BusSInv, StepSInv DEF Next
-----------------------------------------------------------------------------
(***************************************************************************)
(* The way to the display.                                                 *)
(***************************************************************************)

\* Whatever path does, SENSORS takes one of its own steps or none.
LEMMA PathStep == [PathNext]_pathVars => [Next]_vars
<1>1. ReadBytes(TRUE) \/ ReadBytes(FALSE) => SensorsStep
  BY DEF SensorsStep
<1>2. Publish \/ Elsewhere => Next
  BY <1>1 DEF Publish, Elsewhere, Next
<1>3. PathTick => Next
  BY DEF PathTick, Next
<1>4. CtlReceive \/ CtlPublish \/ DspReceive \/ DspShow => UNCHANGED vars
  BY DEF CtlReceive, CtlPublish, DspReceive, DspShow
<1> QED BY <1>2, <1>3, <1>4 DEF PathNext, pathVars

\* A sample ages as the time since it was published does.
LEMMA Ageing ==
    ASSUME TypeOK, Tick
    PROVE  /\ Older({}) = {}
           /\ Older({quiet}) = {quiet'}
           /\ \A held \in Holders : Older(held) \in Holders
           /\ quiet \in Nat /\ quiet' \in Nat /\ quiet' <= quiet + 1
<1>1. LongestQuiet \in Nat /\ MaxAge = LongestQuiet + 1 /\ quiet \in 0 .. LongestQuiet + 1
  BY SensorsAssumption DEF LongestQuiet, MaxAge, TypeOK
<1>2. quiet' = IF quiet <= LongestQuiet THEN quiet + 1 ELSE quiet
  BY DEF Tick
<1>3. Older({}) = {}
  BY DEF Older
<1>4. \A age \in 0 .. MaxAge :
        Older({age}) = {IF age < MaxAge THEN age + 1 ELSE age}
  BY DEF Older
<1>5. Older({quiet}) = {quiet'}
  BY <1>1, <1>2, <1>4
<1>6. \A age \in 0 .. MaxAge : (IF age < MaxAge THEN age + 1 ELSE age) \in 0 .. MaxAge
  BY <1>1
<1>7. \A held \in Holders : Older(held) \in Holders
  BY <1>3, <1>4, <1>6 DEF Holders
<1> QED BY <1>1, <1>2, <1>3, <1>5, <1>7

\* When a sample is published the one before it is on the display.
LEMMA WayClear ==
    ASSUME PathInv, pc = "read"
    PROVE  OnTheWay({}, {}, {}, {})
<1>1. CASE sample = "none"
  BY <1>1 DEF PathInv, WayInv
<1>2. CASE sample # "none"
  <2>1. since + P <= quiet + 2 * C + M /\ M <= since
    BY <1>2 DEF PathInv, SInv, QuietInv, RoundInv
  <2>2. since \in Nat /\ quiet \in Nat /\ {C, M, P} \subseteq Nat
    BY SensorsAssumption DEF PathInv, SInv, TypeOK, LongestQuiet, C, M, P
  <2>3. quiet > ControlTicks + DisplayTicks
    BY <2>1, <2>2, PathAssumption DEF C, P
  <2>4. ctl_for <= ControlTicks /\ dsp_for <= DisplayTicks /\ ctl_for \in Nat /\ dsp_for \in Nat
    BY PathAssumption DEF PathInv, HeldInv
  <2> QED BY <1>2, <2>2, <2>3, <2>4, PathAssumption DEF PathInv, WayInv
<1> QED BY <1>1, <1>2

\* Each step leaves one sample on its way at the most, and in time.
LEMMA NextPathInv == PathInv /\ [PathNext]_pathVars => PathInv'
<1> SUFFICES ASSUME PathInv, [PathNext]_pathVars PROVE PathInv'
  OBVIOUS
<1>1. /\ TypeOK /\ WayInv /\ HeldInv /\ SInv' /\ {ControlTicks, DisplayTicks} \subseteq Nat
      /\ quiet \in Nat
  <2>1. SInv' /\ TypeOK
    BY PathStep, NextSInv DEF PathInv, SInv
  <2> QED BY <2>1, PathAssumption, SensorsAssumption DEF PathInv, TypeOK, LongestQuiet
<1> SUFFICES WayInv' /\ HeldInv'
  BY <1>1 DEF PathInv
<1>2. CASE PathTick
  <2>1. /\ Tick /\ sample' = sample
        /\ IF ctl = {} THEN g_q_sensor_samples = {} ELSE ctl_for < ControlTicks
        /\ IF dsp = {} THEN g_q_thermostat_state = {} ELSE dsp_for < DisplayTicks
        /\ g_q_sensor_samples' = Older(g_q_sensor_samples) /\ ctl' = Older(ctl)
        /\ ctl_for' = IF ctl = {} THEN 0 ELSE ctl_for + 1
        /\ g_q_thermostat_state' = Older(g_q_thermostat_state) /\ dsp' = Older(dsp)
        /\ dsp_for' = IF dsp = {} THEN 0 ELSE dsp_for + 1
        /\ shown' = Older(shown)
    BY <1>2 DEF PathTick, Tick
  <2>2. /\ Older({}) = {} /\ Older({quiet}) = {quiet'}
        /\ \A held \in Holders : Older(held) \in Holders
        /\ quiet' \in Nat /\ quiet' <= quiet + 1
    BY <1>1, <2>1, Ageing
  <2>3. HeldInv'
    BY <1>1, <2>1, <2>2 DEF HeldInv
  <2>4. WayInv'
    <3>1. CASE sample = "none"
      BY <1>1, <2>1, <2>2, <3>1 DEF WayInv, OnTheWay
    <3>2. CASE OnTheWay({quiet}, {}, {}, {}) \/ OnTheWay({}, {}, {quiet}, {})
      BY <2>1, <3>2 DEF OnTheWay
    <3>3. CASE sample # "none" /\ OnTheWay({}, {quiet}, {}, {}) /\ quiet <= ctl_for
      <4>1. OnTheWay({}, {quiet}, {}, {})'
        BY <2>1, <2>2, <3>3 DEF OnTheWay
      <4>2. ctl # {}
        BY <3>3 DEF OnTheWay
      <4>3. quiet' <= ctl_for'
        BY <1>1, <2>1, <2>2, <3>3, <4>2 DEF HeldInv
      <4> QED BY <2>1, <3>3, <4>1, <4>3 DEF WayInv, OnTheWay
    <3>4. CASE sample # "none" /\ OnTheWay({}, {}, {}, {quiet}) /\ quiet <= ControlTicks + dsp_for
      BY <1>1, <2>1, <2>2, <3>4 DEF WayInv, OnTheWay, HeldInv
    <3>5. CASE sample # "none" /\ OnTheWay({}, {}, {}, {}) /\ shown = {quiet}
      BY <2>1, <2>2, <3>5 DEF WayInv, OnTheWay
    <3> QED BY <1>1, <3>1, <3>2, <3>3, <3>4, <3>5 DEF WayInv
  <2> QED BY <2>3, <2>4
<1>3. CASE Publish
  <2>1. /\ pc = "read" /\ sample' = result /\ quiet' = 0
        /\ g_q_sensor_samples' = {0}
        /\ UNCHANGED <<ctl, ctl_for, g_q_thermostat_state, dsp, dsp_for, shown>>
    BY <1>3 DEF Publish, ReadBytes
  <2>2. OnTheWay({}, {}, {}, {})
    BY <2>1, WayClear
  <2>3. sample' # "none"
    BY <1>1, <2>1 DEF TypeOK
  <2> QED BY <1>1, <2>1, <2>2, <2>3 DEF WayInv, OnTheWay, HeldInv
<1>4. CASE Elsewhere
  <2>1. UNCHANGED <<sample, quiet, path>>
    <3>1. CASE BusChange
      BY <1>4, <3>1 DEF Elsewhere, BusChange
    <3>2. CASE ReadBytes(FALSE)
      BY <1>4, <3>2 DEF Elsewhere, ReadBytes
    <3>3. CASE pc # "read" /\ SensorsStep
      BY <1>4, <3>3 DEF Elsewhere, SensorsStep, Install, InitCommand, WriteCommand, ReadBytes,
                        Settled, Refuse, MeasureDelay, Wake
    <3> QED BY <1>4, <3>1, <3>2, <3>3 DEF Elsewhere
  <2> QED BY <1>1, <2>1 DEF WayInv, OnTheWay, HeldInv, path
<1>5. CASE CtlReceive
  BY <1>1, <1>5 DEF CtlReceive, WayInv, OnTheWay, HeldInv, vars
<1>6. CASE CtlPublish
  BY <1>1, <1>6 DEF CtlPublish, WayInv, OnTheWay, HeldInv, vars
<1>7. CASE DspReceive
  BY <1>1, <1>7 DEF DspReceive, WayInv, OnTheWay, HeldInv, vars
<1>8. CASE DspShow
  <2>1. quiet \in 0 .. MaxAge
    BY <1>1, SensorsAssumption DEF TypeOK, LongestQuiet, MaxAge
  <2>2. dsp = {quiet} /\ sample # "none" /\ OnTheWay({}, {}, {}, {quiet})
    BY <1>1, <1>8 DEF DspShow, WayInv, OnTheWay
  <2> QED BY <1>1, <1>8, <2>1, <2>2 DEF DspShow, WayInv, OnTheWay, HeldInv, Holders, vars
<1>9. CASE UNCHANGED pathVars
  BY <1>1, <1>9 DEF pathVars, path, vars, WayInv, OnTheWay, HeldInv
<1> QED BY <1>2, <1>3, <1>4, <1>5, <1>6, <1>7, <1>8, <1>9 DEF PathNext

\* At the start nothing is on its way.
LEMMA InitPathInv == PathInit => PathInv
<1> SUFFICES ASSUME PathInit PROVE PathInv
  OBVIOUS
<1>1. SInv
  BY InitSInv DEF PathInit
<1>2. WayInv
  BY DEF PathInit, Init, WayInv, OnTheWay
<1>3. HeldInv
  BY PathAssumption DEF PathInit, HeldInv, Holders
<1> QED BY <1>1, <1>2, <1>3 DEF PathInv

\* PathInv holds in every reachable state.
LEMMA Inductive == PathSpec => []PathInv
BY InitPathInv, NextPathInv, PTL DEF PathSpec
-----------------------------------------------------------------------------
(***************************************************************************)
(* The theorems.                                                           *)
(***************************************************************************)

\* Every variable keeps its type, and the driver's flag its meaning.
THEOREM PathTypeCorrect == PathSpec => []PathTypeOK
<1>1. PathInv => PathTypeOK
  <2> SUFFICES ASSUME PathInv PROVE PathTypeOK
    OBVIOUS
  <2>1. quiet \in 0 .. MaxAge /\ TypeOK
    BY SensorsAssumption DEF PathInv, SInv, TypeOK, LongestQuiet, MaxAge
  <2>2. {} \in Holders /\ {quiet} \in Holders
    BY <2>1 DEF Holders
  <2> QED BY <2>1, <2>2 DEF PathInv, WayInv, OnTheWay, HeldInv, PathTypeOK
<1> QED BY <1>1, Inductive, PTL

\* A published sample was measured for its own round, as long as the wait is
\* longer than the conversion (drv_temp_sensors.c:201-214).
THEOREM SamplesAreNew == PathSpec => []SampleIsNew
<1>1. PathInv => SampleIsNew
  BY DEF PathInv, SInv
<1> QED BY <1>1, Inductive, PTL

\* No round outlasts the period, as long as two timeouts and the wait fit
\* into it (task_sensors.c:88).
THEOREM RoundsFit == PathSpec => []NoRoundOverruns
<1>1. PathInv => NoRoundOverruns
  <2> SUFFICES ASSUME PathInv PROVE since <= PeriodTicks
    BY DEF NoRoundOverruns
  <2>1. /\ TypeOK /\ RoundInv /\ {C, M, P, SettleTicks} \subseteq Nat
        /\ 2 * C + M < P /\ SettleTicks <= P /\ P = PeriodTicks
    BY SensorsAssumption DEF PathInv, SInv, C, M, P
  <2> QED BY <2>1 DEF TypeOK, RoundInv
<1> QED BY <1>1, Inductive, PTL

\* With a working bus no two samples are further apart than a period and the
\* timeouts of one round (task_sensors.c:41 and 88).
THEOREM SamplesInTime == PathSpec => []Cadence
<1>1. PathInv => Cadence
  <2> SUFFICES ASSUME PathInv, sample # "none", ~faulted PROVE quiet <= LongestQuiet
    BY DEF Cadence
  <2>1. /\ TypeOK /\ RoundInv /\ {C, M, P} \subseteq Nat /\ since \in Nat /\ quiet \in Nat
        /\ LongestQuiet = P + 2 * C /\ timer \in Nat
    BY SensorsAssumption DEF PathInv, SInv, TypeOK, LongestQuiet, C, M, P
  <2>2. /\ pc \in {"write", "measure", "read", "sleep"}
        /\ quiet + M <= IF pc = "sleep" THEN since ELSE since + P
    BY DEF PathInv, SInv, TypeOK, QuietInv
  <2>3. pc # "sleep" => since <= 2 * C + M
    BY <2>1, <2>2 DEF RoundInv
  <2>4. pc = "sleep" => since <= P
    BY <2>1 DEF RoundInv
  <2>5. CASE pc = "sleep"
    BY <2>1, <2>2, <2>4, <2>5
  <2>6. CASE pc # "sleep"
    BY <2>1, <2>2, <2>3, <2>6
  <2> QED BY <2>5, <2>6
<1> QED BY <1>1, Inductive, PTL

\* The display names the newest sample once CONTROL and DISPLAY have had
\* their time (task_control.c:136-146, task_display.c:39-50).
THEOREM DisplayIsCurrent == PathSpec => []DisplayCatchesUp
<1>1. PathInv => DisplayCatchesUp
  <2> SUFFICES ASSUME PathInv, sample # "none", quiet > ControlTicks + DisplayTicks
               PROVE  shown = {quiet}
    BY DEF DisplayCatchesUp
  <2>1. /\ quiet \in Nat /\ ctl_for \in 0 .. ControlTicks /\ dsp_for \in 0 .. DisplayTicks
        /\ {ControlTicks, DisplayTicks} \subseteq Nat
    BY SensorsAssumption, PathAssumption DEF PathInv, SInv, TypeOK, LongestQuiet, HeldInv
  <2> QED BY <2>1 DEF PathInv, WayInv
<1> QED BY <1>1, Inductive, PTL

\* No sample and no snapshot is overwritten before it is taken, as long as
\* CONTROL and DISPLAY need less than the shortest time between two samples
\* (task_sensors.c:53-57, task_control.c:145).
THEOREM MailboxesEmptied == PathSpec => NothingOverwritten
<1>1. PathInv /\ [PathNext]_pathVars =>
        [\A box \in {<<g_q_sensor_samples, g_q_sensor_samples'>>,
                     <<g_q_thermostat_state, g_q_thermostat_state'>>} :
            \A before \in box[1], after \in box[2] : after >= before]_pathVars
  <2> SUFFICES ASSUME PathInv, PathNext
               PROVE  /\ \A before \in g_q_sensor_samples, after \in g_q_sensor_samples' :
                            after >= before
                      /\ \A before \in g_q_thermostat_state, after \in g_q_thermostat_state' :
                            after >= before
    OBVIOUS
  <2>1. /\ TypeOK /\ WayInv /\ quiet \in Nat
    BY SensorsAssumption DEF PathInv, SInv, TypeOK, LongestQuiet
  <2>2. CASE PathTick
    <3>1. ctl # {} => g_q_sensor_samples = {}
      BY <2>1, Zenon DEF WayInv, OnTheWay
    <3>2. dsp # {} => g_q_thermostat_state = {}
      BY <2>1, Zenon DEF WayInv, OnTheWay
    <3> QED BY <2>2, <3>1, <3>2 DEF PathTick
  <2>3. CASE Publish
    <3>1. g_q_sensor_samples = {}
      BY <2>3, WayClear DEF Publish, ReadBytes, OnTheWay
    <3>2. g_q_thermostat_state = {}
      BY <2>3, WayClear DEF Publish, ReadBytes, OnTheWay
    <3> QED BY <3>1, <3>2
  <2>4. CASE Elsewhere \/ CtlReceive \/ DspReceive \/ DspShow
    <3>1. /\ g_q_sensor_samples' \subseteq g_q_sensor_samples
          /\ g_q_thermostat_state' \subseteq g_q_thermostat_state
      BY <2>4 DEF Elsewhere, path, CtlReceive, DspReceive, DspShow
    <3>2. g_q_sensor_samples \subseteq {quiet} /\ g_q_thermostat_state \subseteq {quiet}
      BY <2>1 DEF WayInv, OnTheWay
    <3> QED BY <2>1, <3>1, <3>2
  <2>5. CASE CtlPublish
    <3>1. g_q_sensor_samples = {} /\ g_q_thermostat_state = {}
      BY <2>1, <2>5 DEF WayInv, OnTheWay, CtlPublish
    <3> QED BY <3>1
  <2> QED BY <2>2, <2>3, <2>4, <2>5 DEF PathNext
<1> QED BY <1>1, Inductive, PTL DEF PathSpec, NothingOverwritten
=============================================================================
