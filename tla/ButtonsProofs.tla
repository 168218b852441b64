--------------------------- MODULE ButtonsProofs ---------------------------
(***************************************************************************)
(* Theorems about Buttons, for any set of buttons, length of the queue,    *)
(* debounce time, bounce time and lag the assumption allows.               *)
(*                                                                         *)
(* ClockInv ties the wrapping tick count of the code to true ages.  An     *)
(* event that waits is tied to the press it comes from (EventInv), an      *)
(* acceptance to the age of the press (ServedInv); a press that is due and *)
(* has not been served has its first event still in the queue (DueInv).    *)
(***************************************************************************)
EXTENDS Buttons, SequenceTheorems, FiniteSetTheorems, TLAPS

T == TickModulus

\* now - last in the arithmetic of TickType_t is the true age, until that
\* has been a full turn.
ClockInv == \A b \in Buttons : age[b] < T => (ticks - last[b]) % T = age[b]

Waiting(b) == {i \in DOMAIN s_btn_queue : s_btn_queue[i].button = b}

\* An event's edge is not older than the event has waited: it was at most
\* span after the first edge, and at most BounceTicks after the contact moved.
EventInv ==
    \A b \in Buttons : \A i \in Waiting(b) :
        /\ press[b].since <= press[b].span + s_btn_queue[i].waited
        /\ press[b].moved <= BounceTicks + s_btn_queue[i].waited

SpanInv == \A b \in Buttons : press[b].span <= press[b].since

\* A press that was served was served after its first edge; twice only when
\* its edges are far enough apart.
ServedInv ==
    \A b \in Buttons :
        /\ press[b].served >= 1 =>
              age[b] <= press[b].since \/ press[b].since = DebounceTicks
        /\ press[b].served >= 2 => press[b].span + LagTicks >= DebounceTicks

\* A press that is due, not lost and not served waits in the queue, and will
\* pass the test whenever it is handled.
DueInv ==
    \A b \in Buttons :
        press[b].due /\ press[b].room /\ press[b].served = 0 =>
            /\ DebounceTicks <= age[b]
            /\ \E i \in Waiting(b) : /\ press[b].since <= s_btn_queue[i].waited
                                     /\ age[b] + LagTicks < T + s_btn_queue[i].waited

IInv == TypeOK /\ ClockInv /\ EventInv /\ SpanInv /\ ServedInv /\ DueInv
-----------------------------------------------------------------------------
(***************************************************************************)
(* The wrapping tick count.                                                *)
(***************************************************************************)

\* The remainder of a number that is its own.
LEMMA ModSmall ==
    ASSUME NEW n \in Nat \ {0}, NEW x \in 0 .. n - 1
    PROVE  x % n = x
OBVIOUS

\* A number one turn too high or too low.
LEMMA ModTurn ==
    ASSUME NEW n \in Nat \ {0}, NEW x \in 0 .. n - 1
    PROVE  (x + n) % n = x /\ (x - n) % n = x
OBVIOUS

\* The difference of two tick counts.
LEMMA Difference ==
    ASSUME NEW n \in Nat \ {0}, NEW t \in 0 .. n - 1, NEW l \in 0 .. n - 1
    PROVE  (t - l) % n = IF t >= l THEN t - l ELSE t - l + n
<1>1. CASE t >= l
  BY <1>1, ModSmall
<1>2. CASE t < l
  <2>1. t - l + n \in 0 .. n - 1
    BY <1>2
  <2> DEFINE x == t - l + n
  <2>2. (x - n) % n = x
    BY <2>1, ModTurn
  <2>3. x - n = t - l
    OBVIOUS
  <2> QED BY <1>2, <2>2, <2>3
<1> QED BY <1>1, <1>2

\* The next tick.
LEMMA NextTick ==
    ASSUME NEW n \in Nat \ {0}, NEW t \in 0 .. n - 1
    PROVE  (t + 1) % n = IF t + 1 = n THEN 0 ELSE t + 1
<1>1. CASE t + 1 = n
  <2>1. (0 + n) % n = 0
    BY ModTurn
  <2> QED BY <1>1, <2>1
<1>2. CASE t + 1 # n
  BY <1>2, ModSmall
<1> QED BY <1>1, <1>2

\* The difference grows by one with each tick, until it has been a turn.
LEMMA DifferenceGrows ==
    ASSUME NEW n \in Nat \ {0}, NEW t \in 0 .. n - 1, NEW l \in 0 .. n - 1,
           ((t - l) % n) + 1 < n
    PROVE  (((t + 1) % n) - l) % n = ((t - l) % n) + 1
<1>1. (t + 1) % n \in 0 .. n - 1
  BY NextTick
<1>2. (((t + 1) % n) - l) % n = IF (t + 1) % n >= l THEN ((t + 1) % n) - l ELSE ((t + 1) % n) - l + n
  BY <1>1, Difference
<1>3. (t + 1) % n = IF t + 1 = n THEN 0 ELSE t + 1
  BY NextTick
<1>4. (t - l) % n = IF t >= l THEN t - l ELSE t - l + n
  BY Difference
<1> DEFINE next   == (t + 1) % n
           before == (t - l) % n
           after  == (next - l) % n
<1>5. /\ after = IF next >= l THEN next - l ELSE next - l + n
      /\ next = IF t + 1 = n THEN 0 ELSE t + 1
      /\ before = IF t >= l THEN t - l ELSE t - l + n
      /\ before + 1 < n
  BY <1>2, <1>3, <1>4
<1> HIDE DEF next, before, after
<1>6. after = before + 1
  BY <1>5
<1> QED BY <1>6 DEF next, before, after
-----------------------------------------------------------------------------
(***************************************************************************)
(* The queue.                                                              *)
(***************************************************************************)
Event == [button : Buttons, waited : 0 .. LagTicks]

\* An event that was sent is the last of the queue, or was lost; the others
\* stay where they were.
LEMMA Sent ==
    ASSUME TypeOK, NEW b \in Buttons, Isr(b)
    PROVE  /\ s_btn_queue' \in Seq(Event) /\ Len(s_btn_queue') <= BUTTON_EVENT_QUEUE_LEN
           /\ DOMAIN s_btn_queue \subseteq DOMAIN s_btn_queue'
           /\ \A i \in DOMAIN s_btn_queue : s_btn_queue'[i] = s_btn_queue[i]
           /\ \A i \in DOMAIN s_btn_queue' :
                 i \in DOMAIN s_btn_queue \/ s_btn_queue'[i] = [button |-> b, waited |-> 0]
           /\ Room => \E i \in DOMAIN s_btn_queue' :
                          s_btn_queue'[i] = [button |-> b, waited |-> 0]
           /\ \A i, j \in DOMAIN s_btn_queue' \ DOMAIN s_btn_queue : i = j
<1> DEFINE e == [button |-> b, waited |-> 0]
<1>1. /\ e \in Event /\ s_btn_queue \in Seq(Event)
      /\ Len(s_btn_queue) \in Nat /\ Len(s_btn_queue) <= BUTTON_EVENT_QUEUE_LEN
      /\ BUTTON_EVENT_QUEUE_LEN \in Nat
  BY ButtonsAssumption DEF Event, TypeOK
<1>2. s_btn_queue' = IF Room THEN Append(s_btn_queue, e) ELSE s_btn_queue
  BY DEF Isr
<1> HIDE DEF e
<1>3. CASE ~Room
  BY <1>1, <1>2, <1>3
<1>4. CASE Room
  <2>1. /\ s_btn_queue' \in Seq(Event) /\ Len(s_btn_queue') = Len(s_btn_queue) + 1
        /\ s_btn_queue'[Len(s_btn_queue) + 1] = e
        /\ \A i \in 1 .. Len(s_btn_queue) : s_btn_queue'[i] = s_btn_queue[i]
    BY <1>1, <1>2, <1>4
  <2>2. DOMAIN s_btn_queue = 1 .. Len(s_btn_queue) /\ DOMAIN s_btn_queue' = 1 .. Len(s_btn_queue) + 1
    BY <1>1, <2>1, LenProperties
  <2>3. Len(s_btn_queue') <= BUTTON_EVENT_QUEUE_LEN
    BY <1>1, <1>4, <2>1 DEF Room
  <2> QED BY <1>1, <2>1, <2>2, <2>3 DEF e
<1> QED BY <1>3, <1>4

\* An event that was taken is gone; the others move up.
LEMMA Taken ==
    ASSUME TypeOK, s_btn_queue # <<>>, s_btn_queue' = Tail(s_btn_queue)
    PROVE  /\ s_btn_queue' \in Seq(Event) /\ Len(s_btn_queue') <= BUTTON_EVENT_QUEUE_LEN
           /\ Head(s_btn_queue) = s_btn_queue[1] /\ 1 \in DOMAIN s_btn_queue
           /\ Head(s_btn_queue) \in Event
           /\ \A i \in DOMAIN s_btn_queue' :
                 i + 1 \in DOMAIN s_btn_queue /\ s_btn_queue'[i] = s_btn_queue[i + 1]
           /\ \A i \in DOMAIN s_btn_queue :
                 i # 1 => \E k \in DOMAIN s_btn_queue' : s_btn_queue'[k] = s_btn_queue[i]
<1>1. /\ s_btn_queue \in Seq(Event) /\ Len(s_btn_queue) \in Nat \ {0}
      /\ Len(s_btn_queue) <= BUTTON_EVENT_QUEUE_LEN /\ BUTTON_EVENT_QUEUE_LEN \in Nat
  BY ButtonsAssumption, EmptySeq DEF TypeOK, Event
<1>2. /\ s_btn_queue' \in Seq(Event) /\ Len(s_btn_queue') = Len(s_btn_queue) - 1
      /\ Head(s_btn_queue) \in Event
      /\ \A i \in 1 .. Len(s_btn_queue) - 1 : s_btn_queue'[i] = s_btn_queue[i + 1]
  BY <1>1, HeadTailProperties
<1>3. DOMAIN s_btn_queue = 1 .. Len(s_btn_queue) /\ DOMAIN s_btn_queue' = 1 .. Len(s_btn_queue) - 1
  BY <1>1, <1>2, LenProperties
<1>4. Head(s_btn_queue) = s_btn_queue[1]
  BY <1>1
<1>5. ASSUME NEW i \in DOMAIN s_btn_queue, i # 1
      PROVE  \E k \in DOMAIN s_btn_queue' : s_btn_queue'[k] = s_btn_queue[i]
  <2>1. i - 1 \in DOMAIN s_btn_queue' /\ s_btn_queue'[i - 1] = s_btn_queue[i]
    BY <1>1, <1>2, <1>3, <1>5
  <2> QED BY <2>1
<1> QED BY <1>1, <1>2, <1>3, <1>4, <1>5

\* With a tick all that wait have waited one more.
LEMMA Aged ==
    ASSUME TypeOK, Tick
    PROVE  /\ s_btn_queue' \in Seq(Event) /\ Len(s_btn_queue') <= BUTTON_EVENT_QUEUE_LEN
           /\ DOMAIN s_btn_queue' = DOMAIN s_btn_queue
           /\ \A i \in DOMAIN s_btn_queue :
                 /\ s_btn_queue'[i].button = s_btn_queue[i].button
                 /\ s_btn_queue'[i].waited = s_btn_queue[i].waited + 1
<1>1. /\ s_btn_queue \in Seq(Event) /\ Len(s_btn_queue) \in Nat
      /\ Len(s_btn_queue) <= BUTTON_EVENT_QUEUE_LEN
      /\ DOMAIN s_btn_queue = 1 .. Len(s_btn_queue)
      /\ \A i \in DOMAIN s_btn_queue : s_btn_queue[i] \in Event
      /\ LagTicks \in Nat
  <2>1. s_btn_queue \in Seq(Event) /\ Len(s_btn_queue) <= BUTTON_EVENT_QUEUE_LEN
    BY DEF TypeOK, Event
  <2>2. LagTicks \in Nat
    BY ButtonsAssumption
  <2> QED BY <2>1, <2>2, LenProperties, ElementOfSeq
<1>2. /\ s_btn_queue' = [i \in DOMAIN s_btn_queue |->
                            [s_btn_queue[i] EXCEPT !.waited = @ + 1]]
      /\ \A i \in DOMAIN s_btn_queue : s_btn_queue[i].waited < LagTicks
  BY DEF Tick
<1>3. \A i \in DOMAIN s_btn_queue :
          /\ s_btn_queue'[i] \in Event
          /\ s_btn_queue'[i].button = s_btn_queue[i].button
          /\ s_btn_queue'[i].waited = s_btn_queue[i].waited + 1
  BY <1>1, <1>2 DEF Event
<1>4. s_btn_queue' \in [1 .. Len(s_btn_queue) -> Event]
  BY <1>1, <1>2, <1>3
<1>5. s_btn_queue' \in Seq(Event) /\ Len(s_btn_queue') = Len(s_btn_queue)
  BY <1>1, <1>4
<1> QED BY <1>1, <1>2, <1>3, <1>5
-----------------------------------------------------------------------------
(***************************************************************************)
(* The inductive invariant.                                                *)
(***************************************************************************)

\* What the types say of one button.
LEMMA ButtonType ==
    ASSUME TypeOK, NEW b \in Buttons
    PROVE  /\ press[b] \in Presses /\ press[b].since \in 0 .. DebounceTicks
           /\ press[b].moved \in 0 .. Settled /\ press[b].span \in 0 .. DebounceTicks
           /\ press[b].served \in Nat /\ press[b].edges \in 0 .. MaxEdges
           /\ press[b].due \in BOOLEAN /\ press[b].room \in BOOLEAN
           /\ press[b].down \in BOOLEAN
           /\ age[b] \in 0 .. T /\ last[b] \in 0 .. T - 1 /\ ticks \in 0 .. T - 1
           /\ DebounceTicks \in Nat \ {0} /\ T \in Nat \ {0} /\ LagTicks \in Nat
           /\ BounceTicks \in Nat /\ Settled = BounceTicks + LagTicks + 1
           /\ DebounceTicks + LagTicks < T /\ MaxEdges \in Nat \ {0}
<1>1. press[b] \in Presses /\ age[b] \in 0 .. T /\ last[b] \in 0 .. T - 1 /\ ticks \in 0 .. T - 1
  BY DEF TypeOK, T
<1> QED BY <1>1, ButtonsAssumption DEF Presses, Settled, T

\* What the types say of a waiting event.
LEMMA WaitingType ==
    ASSUME TypeOK, NEW i \in DOMAIN s_btn_queue
    PROVE  s_btn_queue[i].waited \in 0 .. LagTicks /\ s_btn_queue[i].button \in Buttons
<1>1. s_btn_queue \in Seq(Event)
  BY DEF TypeOK, Event
<1>2. s_btn_queue[i] \in Event
  BY <1>1, LenProperties, ElementOfSeq
<1> QED BY <1>2 DEF Event

\* At the start all buttons have been quiet.
LEMMA InitIInv == Init => IInv
<1> SUFFICES ASSUME Init PROVE IInv
  OBVIOUS
<1>1. /\ DebounceTicks \in Nat /\ T \in Nat \ {0} /\ LagTicks \in Nat /\ BounceTicks \in Nat
      /\ Settled = BounceTicks + LagTicks + 1 /\ BUTTON_EVENT_QUEUE_LEN \in Nat /\ MaxEdges \in Nat
  BY ButtonsAssumption DEF Settled, T
<1>2. /\ press = [b \in Buttons |->
             [down |-> FALSE, since |-> DebounceTicks, moved |-> Settled, span |-> 0,
              edges |-> 0, served |-> 0, due |-> FALSE, room |-> TRUE]]
      /\ s_btn_queue = <<>> /\ ticks = 0
      /\ last = [b \in Buttons |-> 0] /\ age = [b \in Buttons |-> 0]
  BY DEF Init
<1>3. press \in [Buttons -> Presses]
  BY <1>1, <1>2 DEF Presses
<1>4. s_btn_queue \in Seq(Event) /\ Len(s_btn_queue) = 0 /\ DOMAIN s_btn_queue = {}
  BY <1>2
<1>5. TypeOK
  <2>1. 0 \in 0 .. T - 1 /\ 0 \in 0 .. T
    BY <1>1
  <2>2. last \in [Buttons -> 0 .. T - 1] /\ age \in [Buttons -> 0 .. T]
    BY <1>2, <2>1
  <2>3. ticks \in 0 .. TickModulus - 1 /\ Len(s_btn_queue) <= BUTTON_EVENT_QUEUE_LEN
    BY <1>1, <1>2, <1>4, <2>1 DEF T
  <2> QED BY <1>3, <1>4, <2>2, <2>3, Zenon DEF TypeOK, Event, T
<1>6. ClockInv
  BY <1>1, <1>2, Difference DEF ClockInv
<1>7. EventInv /\ SpanInv /\ ServedInv /\ DueInv
  BY <1>1, <1>2, <1>4 DEF EventInv, SpanInv, ServedInv, DueInv, Waiting
<1> QED BY <1>5, <1>6, <1>7 DEF IInv

\* Time passes for all alike.
LEMMA TickIInv == IInv /\ Tick => IInv'
<1> SUFFICES ASSUME IInv, Tick PROVE IInv'
  OBVIOUS
<1>1. TypeOK /\ ClockInv /\ EventInv /\ SpanInv /\ ServedInv /\ DueInv
  BY DEF IInv
<1>2. /\ s_btn_queue' \in Seq(Event) /\ Len(s_btn_queue') <= BUTTON_EVENT_QUEUE_LEN
      /\ DOMAIN s_btn_queue' = DOMAIN s_btn_queue
      /\ \A i \in DOMAIN s_btn_queue :
            /\ s_btn_queue'[i].button = s_btn_queue[i].button
            /\ s_btn_queue'[i].waited = s_btn_queue[i].waited + 1
  BY <1>1, Aged
<1>3. ticks' = (ticks + 1) % T /\ ticks' \in 0 .. T - 1 /\ last' = last
  <2>1. ticks' = (ticks + 1) % T /\ last' = last
    BY DEF Tick, T
  <2>2. ticks \in 0 .. T - 1 /\ T \in Nat \ {0}
    BY <1>1, ButtonsAssumption DEF TypeOK, T
  <2> QED BY <2>1, <2>2, NextTick
<1>4. ASSUME NEW b \in Buttons
      PROVE  /\ press'[b] \in Presses
             /\ press'[b].since = Grow(press[b].since, DebounceTicks)
             /\ press'[b].moved = Grow(press[b].moved, Settled)
             /\ press'[b].span = press[b].span /\ press'[b].served = press[b].served
             /\ press'[b].due = press[b].due /\ press'[b].room = press[b].room
             /\ age'[b] = Grow(age[b], T) /\ age'[b] \in 0 .. T
  <2>1. /\ press' = [c \in Buttons |->
              [press[c] EXCEPT !.since = Grow(@, DebounceTicks), !.moved = Grow(@, Settled)]]
        /\ age' = [c \in Buttons |-> Grow(age[c], T)]
    BY DEF Tick, T
  <2>2. /\ Grow(press[b].since, DebounceTicks) \in 0 .. DebounceTicks
        /\ Grow(press[b].moved, Settled) \in 0 .. Settled
        /\ Grow(age[b], T) \in 0 .. T
    BY <1>1, ButtonType DEF Grow
  <2>3. press[b] \in Presses
    BY <1>1, ButtonType
  <2> QED BY <2>1, <2>2, <2>3 DEF Presses
<1>5. TypeOK'
  <2>1. press' \in [Buttons -> Presses] /\ age' \in [Buttons -> 0 .. T]
    BY <1>4 DEF Tick
  <2> QED BY <1>1, <1>2, <1>3, <2>1 DEF TypeOK, Event, T
<1>6. ClockInv'
  <2> SUFFICES ASSUME NEW b \in Buttons, age'[b] < T
               PROVE  (ticks' - last'[b]) % T = age'[b]
    BY DEF ClockInv
  <2>1. age[b] < T /\ age'[b] = age[b] + 1
    BY <1>1, <1>4, ButtonType DEF Grow
  <2>2. (ticks - last[b]) % T = age[b]
    BY <1>1, <2>1 DEF ClockInv
  <2>3. ticks \in 0 .. T - 1 /\ last[b] \in 0 .. T - 1 /\ T \in Nat \ {0}
    BY <1>1, ButtonType
  <2>4. ((ticks - last[b]) % T) + 1 < T
    BY <2>1, <2>2
  <2>5. (((ticks + 1) % T) - last[b]) % T = ((ticks - last[b]) % T) + 1
    BY <2>3, <2>4, DifferenceGrows
  <2> QED BY <1>3, <2>1, <2>2, <2>5
<1>7. EventInv'
  <2> SUFFICES ASSUME NEW b \in Buttons, NEW i \in DOMAIN s_btn_queue',
                      s_btn_queue'[i].button = b
               PROVE  /\ press'[b].since <= press'[b].span + s_btn_queue'[i].waited
                      /\ press'[b].moved <= BounceTicks + s_btn_queue'[i].waited
    BY DEF EventInv, Waiting
  <2>1. i \in Waiting(b) /\ s_btn_queue[i].waited \in 0 .. LagTicks
    BY <1>1, <1>2, WaitingType DEF Waiting
  <2>2. /\ press[b].since <= press[b].span + s_btn_queue[i].waited
        /\ press[b].moved <= BounceTicks + s_btn_queue[i].waited
    BY <1>1, <2>1 DEF EventInv
  <2>3. press'[b].since <= press[b].since + 1 /\ press'[b].moved <= press[b].moved + 1
    BY <1>1, <1>4, ButtonType DEF Grow
  <2>4. s_btn_queue'[i].waited = s_btn_queue[i].waited + 1 /\ press'[b].span = press[b].span
    BY <1>2, <1>4
  <2>5. press'[b].since \in Int /\ press'[b].moved \in Int
    BY <1>1, <1>4, ButtonType DEF Grow
  <2> QED BY <1>1, <2>1, <2>2, <2>3, <2>4, <2>5, ButtonType
<1>8. SpanInv' /\ ServedInv'
  <2> SUFFICES ASSUME NEW b \in Buttons
               PROVE  /\ press'[b].span <= press'[b].since
                      /\ press'[b].served >= 1 =>
                            age'[b] <= press'[b].since \/ press'[b].since = DebounceTicks
                      /\ press'[b].served >= 2 => press'[b].span + LagTicks >= DebounceTicks
    BY DEF SpanInv, ServedInv
  <2>1. /\ press[b].span <= press[b].since
        /\ press[b].served >= 1 =>
              age[b] <= press[b].since \/ press[b].since = DebounceTicks
        /\ press[b].served >= 2 => press[b].span + LagTicks >= DebounceTicks
    BY <1>1 DEF SpanInv, ServedInv
  <2> QED BY <1>1, <1>4, <2>1, ButtonType DEF Grow
<1>9. DueInv'
  <2> SUFFICES ASSUME NEW b \in Buttons, press'[b].due, press'[b].room, press'[b].served = 0
               PROVE  /\ DebounceTicks <= age'[b]
                      /\ \E i \in DOMAIN s_btn_queue' :
                            /\ s_btn_queue'[i].button = b
                            /\ press'[b].since <= s_btn_queue'[i].waited
                            /\ age'[b] + LagTicks < T + s_btn_queue'[i].waited
    BY DEF DueInv, Waiting
  <2>1. press[b].due /\ press[b].room /\ press[b].served = 0
    BY <1>4
  <2>2. PICK i \in Waiting(b) : /\ press[b].since <= s_btn_queue[i].waited
                                /\ age[b] + LagTicks < T + s_btn_queue[i].waited
    BY <1>1, <2>1 DEF DueInv
  <2>3. DebounceTicks <= age[b]
    BY <1>1, <2>1 DEF DueInv
  <2>4. i \in DOMAIN s_btn_queue /\ s_btn_queue[i].button = b /\ s_btn_queue[i].waited \in 0 .. LagTicks
    BY <1>1, WaitingType DEF Waiting
  <2>5. /\ s_btn_queue'[i].button = b /\ i \in DOMAIN s_btn_queue'
        /\ s_btn_queue'[i].waited = s_btn_queue[i].waited + 1
    BY <1>2, <2>4
  <2>6. /\ press'[b].since <= press[b].since + 1 /\ age'[b] <= age[b] + 1 /\ age[b] <= age'[b]
        /\ press'[b].since \in Int /\ age'[b] \in Int
    BY <1>1, <1>4, ButtonType DEF Grow
  <2>7. DebounceTicks <= age'[b] /\ press'[b].since <= s_btn_queue'[i].waited
    BY <1>1, <2>2, <2>3, <2>4, <2>5, <2>6, ButtonType
  <2>8. age'[b] + LagTicks < T + s_btn_queue'[i].waited
    BY <1>1, <2>2, <2>4, <2>5, <2>6, ButtonType
  <2> QED BY <2>5, <2>7, <2>8
<1> QED BY <1>5, <1>6, <1>7, <1>8, <1>9 DEF IInv

\* A press begins: all edges of the one before have been handled.
LEMMA FirstEdgeIInv == ASSUME IInv, NEW b \in Buttons, FirstEdge(b) PROVE IInv'
<1>1. TypeOK /\ ClockInv /\ EventInv /\ SpanInv /\ ServedInv /\ DueInv
  BY DEF IInv
<1>2. /\ press[b].moved = Settled /\ Isr(b) /\ UNCHANGED <<ticks, last, age>>
      /\ press' = [press EXCEPT ![b] =
            [down |-> TRUE, since |-> 0, moved |-> 0, span |-> 0,
             edges |-> 1, served |-> 0, room |-> Room,
             due |-> DebounceTicks <= age[b] /\ age[b] + LagTicks < T]]
  BY DEF FirstEdge, T
<1>3. /\ s_btn_queue' \in Seq(Event) /\ Len(s_btn_queue') <= BUTTON_EVENT_QUEUE_LEN
      /\ DOMAIN s_btn_queue \subseteq DOMAIN s_btn_queue'
      /\ \A i \in DOMAIN s_btn_queue : s_btn_queue'[i] = s_btn_queue[i]
      /\ \A i \in DOMAIN s_btn_queue' :
            i \in DOMAIN s_btn_queue \/ s_btn_queue'[i] = [button |-> b, waited |-> 0]
      /\ Room => \E i \in DOMAIN s_btn_queue' :
                     s_btn_queue'[i] = [button |-> b, waited |-> 0]
  BY <1>1, <1>2, Sent
<1>4. /\ press'[b].since = 0 /\ press'[b].moved = 0 /\ press'[b].span = 0
      /\ press'[b].served = 0 /\ press'[b].room = Room
      /\ press'[b].due = (DebounceTicks <= age[b] /\ age[b] + LagTicks < T)
      /\ \A c \in Buttons : c # b => press'[c] = press[c]
  BY <1>1, <1>2 DEF TypeOK
<1>5. \A i \in DOMAIN s_btn_queue : s_btn_queue[i].button # b
  <2> SUFFICES ASSUME NEW i \in DOMAIN s_btn_queue, s_btn_queue[i].button = b PROVE FALSE
    OBVIOUS
  <2>1. press[b].moved <= BounceTicks + s_btn_queue[i].waited
    BY <1>1 DEF EventInv, Waiting
  <2>2. s_btn_queue[i].waited \in 0 .. LagTicks
    BY <1>1, WaitingType
  <2> QED BY <1>1, <1>2, <2>1, <2>2, ButtonType
<1>6. TypeOK'
  <2>1. /\ Room \in BOOLEAN /\ (DebounceTicks <= age[b] /\ age[b] + LagTicks < T) \in BOOLEAN
    BY DEF Room
  <2>2. 0 \in 0 .. DebounceTicks /\ 0 \in 0 .. Settled /\ 1 \in 0 .. MaxEdges
    BY <1>1, ButtonType
  <2>3. press' \in [Buttons -> Presses]
    BY <1>1, <1>2, <2>1, <2>2 DEF Presses, TypeOK
  <2> QED BY <1>1, <1>2, <1>3, <2>3 DEF TypeOK, Event
<1>7. ClockInv'
  BY <1>1, <1>2 DEF ClockInv
<1>8. EventInv'
  <2> SUFFICES ASSUME NEW c \in Buttons, NEW i \in DOMAIN s_btn_queue',
                      s_btn_queue'[i].button = c
               PROVE  /\ press'[c].since <= press'[c].span + s_btn_queue'[i].waited
                      /\ press'[c].moved <= BounceTicks + s_btn_queue'[i].waited
    BY DEF EventInv, Waiting
  <2>1. CASE c = b
    <3>1. s_btn_queue'[i] = [button |-> b, waited |-> 0]
      BY <1>3, <1>5, <2>1
    <3> QED BY <1>1, <1>4, <2>1, <3>1, ButtonType
  <2>2. CASE c # b
    <3>1. i \in Waiting(c) /\ s_btn_queue'[i] = s_btn_queue[i]
      BY <1>3, <2>2 DEF Waiting
    <3> QED BY <1>1, <1>4, <2>2, <3>1 DEF EventInv
  <2> QED BY <2>1, <2>2
<1>9. SpanInv' /\ ServedInv'
  BY <1>1, <1>2, <1>4 DEF SpanInv, ServedInv
<1>10. DueInv'
  <2> SUFFICES ASSUME NEW c \in Buttons, press'[c].due, press'[c].room, press'[c].served = 0
               PROVE  /\ DebounceTicks <= age[c]
                      /\ \E i \in DOMAIN s_btn_queue' :
                            /\ s_btn_queue'[i].button = c
                            /\ press'[c].since <= s_btn_queue'[i].waited
                            /\ age[c] + LagTicks < T + s_btn_queue'[i].waited
    BY <1>2 DEF DueInv, Waiting
  <2>1. CASE c = b
    <3>1. DebounceTicks <= age[b] /\ age[b] + LagTicks < T /\ Room
      BY <1>4, <2>1
    <3>2. PICK i \in DOMAIN s_btn_queue' : s_btn_queue'[i] = [button |-> b, waited |-> 0]
      BY <1>3, <3>1
    <3>3. s_btn_queue'[i].button = b /\ s_btn_queue'[i].waited = 0
      BY <3>2
    <3>4. age[b] + LagTicks < T + 0
      BY <1>1, <3>1, ButtonType
    <3>5. press'[b].since <= 0
      BY <1>4
    <3> QED BY <2>1, <3>1, <3>3, <3>4, <3>5
  <2>2. CASE c # b
    <3>1. PICK i \in Waiting(c) : /\ press[c].since <= s_btn_queue[i].waited
                                  /\ age[c] + LagTicks < T + s_btn_queue[i].waited
      BY <1>1, <1>4, <2>2 DEF DueInv
    <3>2. i \in DOMAIN s_btn_queue' /\ s_btn_queue'[i] = s_btn_queue[i] /\ s_btn_queue[i].button = c
      BY <1>3 DEF Waiting
    <3>3. DebounceTicks <= age[c]
      BY <1>1, <1>4, <2>2 DEF DueInv
    <3> QED BY <1>4, <2>2, <3>1, <3>2, <3>3
  <2> QED BY <2>1, <2>2
<1> QED BY <1>6, <1>7, <1>8, <1>9, <1>10 DEF IInv

\* The contact opens.
LEMMA ReleaseIInv == ASSUME IInv, NEW b \in Buttons, Release(b) PROVE IInv'
<1>1. TypeOK /\ ClockInv /\ EventInv /\ SpanInv /\ ServedInv /\ DueInv
  BY DEF IInv
<1>2. /\ press' = [press EXCEPT ![b].down = FALSE, ![b].moved = 0]
      /\ UNCHANGED <<ticks, s_btn_queue, last, age>>
  BY DEF Release
<1>3. \A c \in Buttons :
         /\ press'[c].since = press[c].since /\ press'[c].span = press[c].span
         /\ press'[c].served = press[c].served /\ press'[c].room = press[c].room
         /\ press'[c].due = press[c].due
         /\ press'[c].moved = IF c = b THEN 0 ELSE press[c].moved
  BY <1>1, <1>2 DEF TypeOK, Presses
<1>4. TypeOK'
  <2>1. 0 \in 0 .. Settled
    BY <1>1, ButtonType
  <2>2. press' \in [Buttons -> Presses]
    BY <1>1, <1>2, <2>1, ZenonT(60) DEF Presses, TypeOK
  <2> QED BY <1>1, <1>2, <2>2 DEF TypeOK
<1>5. ClockInv'
  BY <1>1, <1>2 DEF ClockInv
<1>6. EventInv'
  <2> SUFFICES ASSUME NEW c \in Buttons, NEW i \in Waiting(c)
               PROVE  /\ press'[c].since <= press'[c].span + s_btn_queue[i].waited
                      /\ press'[c].moved <= BounceTicks + s_btn_queue[i].waited
    BY <1>2 DEF EventInv, Waiting
  <2>1. s_btn_queue[i].waited \in Nat /\ BounceTicks \in Nat
    BY <1>1, WaitingType, ButtonType DEF Waiting
  <2> QED BY <1>1, <1>3, <2>1 DEF EventInv
<1>7. SpanInv' /\ ServedInv'
  BY <1>1, <1>2, <1>3 DEF SpanInv, ServedInv
<1>8. DueInv'
  BY <1>1, <1>2, <1>3, ZenonT(60) DEF DueInv, Waiting
<1> QED BY <1>4, <1>5, <1>6, <1>7, <1>8 DEF IInv

\* The contact bounces.
LEMMA BounceIInv == ASSUME IInv, NEW b \in Buttons, BounceEdge(b) PROVE IInv'
<1>1. TypeOK /\ ClockInv /\ EventInv /\ SpanInv /\ ServedInv /\ DueInv
  BY DEF IInv
<1>2. /\ press[b].moved <= BounceTicks /\ press[b].edges < MaxEdges
      /\ Isr(b) /\ UNCHANGED <<ticks, last, age>>
      /\ press' = [press EXCEPT ![b].edges = @ + 1, ![b].span = press[b].since]
  BY DEF BounceEdge
<1>3. /\ s_btn_queue' \in Seq(Event) /\ Len(s_btn_queue') <= BUTTON_EVENT_QUEUE_LEN
      /\ DOMAIN s_btn_queue \subseteq DOMAIN s_btn_queue'
      /\ \A i \in DOMAIN s_btn_queue : s_btn_queue'[i] = s_btn_queue[i]
      /\ \A i \in DOMAIN s_btn_queue' :
            i \in DOMAIN s_btn_queue \/ s_btn_queue'[i] = [button |-> b, waited |-> 0]
  BY <1>1, <1>2, Sent
<1>4. \A c \in Buttons :
         /\ press'[c].since = press[c].since /\ press'[c].moved = press[c].moved
         /\ press'[c].served = press[c].served /\ press'[c].room = press[c].room
         /\ press'[c].due = press[c].due
         /\ press'[c].span = IF c = b THEN press[b].since ELSE press[c].span
  BY <1>1, <1>2 DEF TypeOK, Presses
<1>5. TypeOK'
  <2>1. press[b].edges + 1 \in 0 .. MaxEdges /\ press[b].since \in 0 .. DebounceTicks
    BY <1>1, <1>2, ButtonType
  <2>2. press' \in [Buttons -> Presses]
    BY <1>1, <1>2, <2>1, ZenonT(60) DEF Presses, TypeOK
  <2> QED BY <1>1, <1>2, <1>3, <2>2 DEF TypeOK, Event
<1>6. ClockInv'
  BY <1>1, <1>2 DEF ClockInv
<1>7. EventInv'
  <2> SUFFICES ASSUME NEW c \in Buttons, NEW i \in DOMAIN s_btn_queue',
                      s_btn_queue'[i].button = c
               PROVE  /\ press'[c].since <= press'[c].span + s_btn_queue'[i].waited
                      /\ press'[c].moved <= BounceTicks + s_btn_queue'[i].waited
    BY DEF EventInv, Waiting
  <2>1. CASE s_btn_queue'[i] = [button |-> b, waited |-> 0]
    <3>1. c = b /\ s_btn_queue'[i].waited = 0
      BY <2>1
    <3>2. /\ press'[b].since = press[b].since /\ press'[b].span = press[b].since
          /\ press'[b].moved = press[b].moved
      BY <1>4
    <3>3. press[b].since \in Nat /\ press[b].moved <= BounceTicks /\ BounceTicks \in Nat
      BY <1>1, <1>2, ButtonType
    <3>4. press[b].since <= press[b].since + 0 /\ press[b].moved <= BounceTicks + 0
      BY <3>3
    <3> QED BY <3>1, <3>2, <3>4
  <2>2. CASE i \in DOMAIN s_btn_queue
    <3>1. i \in Waiting(c) /\ s_btn_queue'[i] = s_btn_queue[i]
      BY <1>3, <2>2 DEF Waiting
    <3>2. /\ press[c].since <= press[c].span + s_btn_queue[i].waited
          /\ press[c].moved <= BounceTicks + s_btn_queue[i].waited
      BY <1>1, <3>1 DEF EventInv
    <3>3. s_btn_queue[i].waited \in Nat
      BY <1>1, <2>2, WaitingType
    <3> QED BY <1>1, <1>4, <3>1, <3>2, <3>3, ButtonType
  <2> QED BY <1>3, <2>1, <2>2
<1>8. SpanInv'
  BY <1>1, <1>4, ButtonType DEF SpanInv
<1>9. ServedInv'
  <2> SUFFICES ASSUME NEW c \in Buttons, press[c].served >= 2
               PROVE  press'[c].span + LagTicks >= DebounceTicks
    BY <1>1, <1>2, <1>4 DEF ServedInv
  <2> QED BY <1>1, <1>4, ButtonType DEF ServedInv, SpanInv
<1>10. DueInv'
  <2> SUFFICES ASSUME NEW c \in Buttons, press[c].due, press[c].room, press[c].served = 0
               PROVE  /\ DebounceTicks <= age[c]
                      /\ \E i \in DOMAIN s_btn_queue' :
                            /\ s_btn_queue'[i].button = c
                            /\ press[c].since <= s_btn_queue'[i].waited
                            /\ age[c] + LagTicks < T + s_btn_queue'[i].waited
    BY <1>2, <1>4 DEF DueInv, Waiting
  <2>1. PICK i \in Waiting(c) : /\ press[c].since <= s_btn_queue[i].waited
                                /\ age[c] + LagTicks < T + s_btn_queue[i].waited
    BY <1>1 DEF DueInv
  <2>2. i \in DOMAIN s_btn_queue' /\ s_btn_queue'[i] = s_btn_queue[i] /\ s_btn_queue[i].button = c
    BY <1>3 DEF Waiting
  <2>3. DebounceTicks <= age[c]
    BY <1>1 DEF DueInv
  <2> QED BY <2>1, <2>2, <2>3
<1> QED BY <1>5, <1>6, <1>7, <1>8, <1>9, <1>10 DEF IInv

\* An event of a due press passes the test, and one that passes a second time
\* in a press shows that its edges are far apart.
LEMMA HandledEvent ==
    ASSUME IInv, NEW i \in DOMAIN s_btn_queue, NEW b \in Buttons, s_btn_queue[i].button = b
    PROVE  /\ Quiet(b) => age[b] >= DebounceTicks
           /\ Quiet(b) /\ press[b].served >= 1 => press[b].span + LagTicks >= DebounceTicks
           /\ press[b].due /\ press[b].room /\ press[b].served = 0 => Quiet(b)
<1>1. /\ TypeOK /\ ClockInv /\ EventInv /\ ServedInv /\ DueInv
      /\ i \in Waiting(b) /\ s_btn_queue[i].waited \in 0 .. LagTicks
  BY WaitingType DEF IInv, Waiting
<1>2. /\ age[b] \in 0 .. T /\ T \in Nat /\ DebounceTicks \in Nat /\ LagTicks \in Nat
      /\ DebounceTicks + LagTicks < T
      /\ press[b].since \in Nat /\ press[b].span \in Nat /\ press[b].served \in Nat
  BY <1>1, ButtonType
<1>3. Quiet(b) <=> (ticks - last[b]) % T >= DebounceTicks
  BY DEF Quiet, T
<1>4. age[b] < T => (ticks - last[b]) % T = age[b]
  BY <1>1 DEF ClockInv
<1>5. Quiet(b) => age[b] >= DebounceTicks
  BY <1>2, <1>3, <1>4
<1>6. ASSUME Quiet(b), press[b].served >= 1
      PROVE  press[b].span + LagTicks >= DebounceTicks
  <2>1. press[b].since >= DebounceTicks \/ age[b] <= press[b].since
    BY <1>1, <1>2, <1>6 DEF ServedInv
  <2>2. press[b].since >= DebounceTicks
    BY <1>2, <1>5, <1>6, <2>1
  <2>3. press[b].since <= press[b].span + s_btn_queue[i].waited
    BY <1>1 DEF EventInv
  <2> QED BY <1>1, <1>2, <2>2, <2>3
<1>7. ASSUME press[b].due, press[b].room, press[b].served = 0
      PROVE  Quiet(b)
  <2>1. DebounceTicks <= age[b]
    BY <1>1, <1>7 DEF DueInv
  <2>2. PICK k \in Waiting(b) : age[b] + LagTicks < T + s_btn_queue[k].waited
    BY <1>1, <1>7 DEF DueInv
  <2>3. s_btn_queue[k].waited \in 0 .. LagTicks
    BY <1>1, WaitingType DEF Waiting
  <2>4. age[b] < T
    BY <1>2, <2>2, <2>3
  <2> QED BY <1>2, <1>3, <1>4, <2>1, <2>4
<1> QED BY <1>5, <1>6, <1>7

\* BUTTONS handles the oldest event.
LEMMA HandleIInv == IInv /\ Handle => IInv'
<1> SUFFICES ASSUME IInv, Handle PROVE IInv'
  OBVIOUS
<1>1. TypeOK /\ ClockInv /\ EventInv /\ SpanInv /\ ServedInv /\ DueInv
  BY DEF IInv
<1> DEFINE b == Head(s_btn_queue).button
<1>2. /\ s_btn_queue # <<>> /\ s_btn_queue' = Tail(s_btn_queue) /\ ticks' = ticks
      /\ \/ /\ Quiet(b)
            /\ last' = [last EXCEPT ![b] = ticks] /\ age' = [age EXCEPT ![b] = 0]
            /\ press' = [press EXCEPT ![b].served = @ + 1]
         \/ ~Quiet(b) /\ UNCHANGED <<last, age, press>>
  BY DEF Handle
<1>3. /\ s_btn_queue' \in Seq(Event) /\ Len(s_btn_queue') <= BUTTON_EVENT_QUEUE_LEN
      /\ Head(s_btn_queue) = s_btn_queue[1] /\ 1 \in DOMAIN s_btn_queue
      /\ \A i \in DOMAIN s_btn_queue' :
            i + 1 \in DOMAIN s_btn_queue /\ s_btn_queue'[i] = s_btn_queue[i + 1]
      /\ \A i \in DOMAIN s_btn_queue :
            i # 1 => \E k \in DOMAIN s_btn_queue' : s_btn_queue'[k] = s_btn_queue[i]
  BY <1>1, <1>2, Taken
<1>4. b \in Buttons /\ s_btn_queue[1].button = b
  BY <1>1, <1>3, WaitingType
<1> HIDE DEF b
<1>5. /\ Quiet(b) => age[b] >= DebounceTicks
      /\ Quiet(b) /\ press[b].served >= 1 => press[b].span + LagTicks >= DebounceTicks
      /\ press[b].due /\ press[b].room /\ press[b].served = 0 => Quiet(b)
  BY <1>3, <1>4, HandledEvent
<1>6. \A c \in Buttons :
         /\ press'[c].since = press[c].since /\ press'[c].moved = press[c].moved
         /\ press'[c].span = press[c].span /\ press'[c].room = press[c].room
         /\ press'[c].due = press[c].due
         /\ IF c = b /\ Quiet(b)
            THEN press'[c].served = press[c].served + 1 /\ age'[c] = 0 /\ last'[c] = ticks
            ELSE press'[c].served = press[c].served /\ age'[c] = age[c] /\ last'[c] = last[c]
  <2> SUFFICES ASSUME NEW c \in Buttons
               PROVE  /\ press'[c].since = press[c].since /\ press'[c].moved = press[c].moved
                      /\ press'[c].span = press[c].span /\ press'[c].room = press[c].room
                      /\ press'[c].due = press[c].due
                      /\ IF c = b /\ Quiet(b)
                         THEN /\ press'[c].served = press[c].served + 1
                              /\ age'[c] = 0 /\ last'[c] = ticks
                         ELSE /\ press'[c].served = press[c].served
                              /\ age'[c] = age[c] /\ last'[c] = last[c]
    OBVIOUS
  <2>1. /\ press \in [Buttons -> Presses] /\ press[c] \in Presses
        /\ last \in [Buttons -> 0 .. T - 1] /\ age \in [Buttons -> 0 .. T]
    BY <1>1 DEF TypeOK, T
  <2>2. CASE Quiet(b)
    <3>1. /\ last' = [last EXCEPT ![b] = ticks] /\ age' = [age EXCEPT ![b] = 0]
          /\ press' = [press EXCEPT ![b].served = @ + 1]
      BY <1>2, <2>2
    <3>2. CASE c = b
      <4>1. press'[b] = [press[b] EXCEPT !.served = @ + 1]
        BY <1>4, <2>1, <3>1
      <4>2. last'[b] = ticks /\ age'[b] = 0
        BY <1>4, <2>1, <3>1
      <4> QED BY <2>1, <2>2, <3>2, <4>1, <4>2 DEF Presses
    <3>3. CASE c # b
      BY <2>1, <3>1, <3>3
    <3> QED BY <3>2, <3>3
  <2>3. CASE ~Quiet(b)
    BY <1>2, <2>3
  <2> QED BY <2>2, <2>3
<1>7. TypeOK'
  <2>1. press' \in [Buttons -> Presses]
    <3>1. press \in [Buttons -> Presses] /\ press[b].served + 1 \in Nat
      <4>1. press[b].served \in Nat
        BY <1>1, <1>4, ButtonType
      <4> QED BY <1>1, <4>1 DEF TypeOK
    <3>2. CASE Quiet(b)
      <4>1. press' = [press EXCEPT ![b].served = @ + 1]
        BY <1>2, <3>2
      <4>2. press[b] \in Presses
        BY <1>4, <3>1
      <4>3. [press[b] EXCEPT !.served = @ + 1] \in Presses
        BY <3>1, <4>2 DEF Presses
      <4> QED BY <1>4, <3>1, <4>1, <4>3
    <3>3. CASE ~Quiet(b)
      BY <1>2, <3>1, <3>3
    <3> QED BY <3>2, <3>3
  <2>2. last' \in [Buttons -> 0 .. T - 1] /\ age' \in [Buttons -> 0 .. T]
    <3>1. last \in [Buttons -> 0 .. T - 1] /\ age \in [Buttons -> 0 .. T]
      BY <1>1 DEF TypeOK, T
    <3>2. ticks \in 0 .. T - 1 /\ 0 \in 0 .. T
      BY <1>1, <1>4, ButtonType
    <3>3. CASE Quiet(b)
      <4>1. last' = [last EXCEPT ![b] = ticks] /\ age' = [age EXCEPT ![b] = 0]
        BY <1>2, <3>3
      <4> QED BY <3>1, <3>2, <4>1
    <3>4. CASE ~Quiet(b)
      BY <1>2, <3>1, <3>4
    <3> QED BY <3>3, <3>4
  <2>3. ticks' \in 0 .. T - 1
    BY <1>1, <1>2 DEF TypeOK, T
  <2> QED BY <1>3, <2>1, <2>2, <2>3, Zenon DEF TypeOK, Event, T
<1>8. ClockInv'
  <2> SUFFICES ASSUME NEW c \in Buttons, age'[c] < T
               PROVE  (ticks - last'[c]) % T = age'[c]
    BY <1>2 DEF ClockInv
  <2>1. CASE c = b /\ Quiet(b)
    <3>1. (ticks - ticks) % T = ticks - ticks
      BY <1>1, Difference, ButtonType
    <3>2. ticks - ticks = 0
      BY <1>1, ButtonType
    <3> QED BY <1>6, <2>1, <3>1, <3>2
  <2>2. CASE ~(c = b /\ Quiet(b))
    BY <1>1, <1>6, <2>2 DEF ClockInv
  <2> QED BY <2>1, <2>2
<1>9. EventInv'
  <2> SUFFICES ASSUME NEW c \in Buttons, NEW i \in DOMAIN s_btn_queue',
                      s_btn_queue'[i].button = c
               PROVE  /\ press'[c].since <= press'[c].span + s_btn_queue'[i].waited
                      /\ press'[c].moved <= BounceTicks + s_btn_queue'[i].waited
    BY DEF EventInv, Waiting
  <2>1. i + 1 \in Waiting(c) /\ s_btn_queue'[i] = s_btn_queue[i + 1]
    BY <1>3 DEF Waiting
  <2> QED BY <1>1, <1>6, <2>1 DEF EventInv
<1>10. SpanInv' /\ ServedInv'
  <2> SUFFICES ASSUME NEW c \in Buttons
               PROVE  /\ press'[c].span <= press'[c].since
                      /\ press'[c].served >= 1 =>
                            age'[c] <= press'[c].since \/ press'[c].since = DebounceTicks
                      /\ press'[c].served >= 2 => press'[c].span + LagTicks >= DebounceTicks
    BY DEF SpanInv, ServedInv
  <2>1. /\ press[c].span <= press[c].since
        /\ press[c].served >= 1 =>
              age[c] <= press[c].since \/ press[c].since = DebounceTicks
        /\ press[c].served >= 2 => press[c].span + LagTicks >= DebounceTicks
    BY <1>1 DEF SpanInv, ServedInv
  <2>2. press[c].served \in Nat /\ press[c].since \in Nat
    BY <1>1, ButtonType
  <2> QED BY <1>5, <1>6, <2>1, <2>2
<1>11. DueInv'
  <2> SUFFICES ASSUME NEW c \in Buttons, press'[c].due, press'[c].room, press'[c].served = 0
               PROVE  /\ DebounceTicks <= age'[c]
                      /\ \E i \in DOMAIN s_btn_queue' :
                            /\ s_btn_queue'[i].button = c
                            /\ press'[c].since <= s_btn_queue'[i].waited
                            /\ age'[c] + LagTicks < T + s_btn_queue'[i].waited
    BY DEF DueInv, Waiting
  <2>1. press[c].served \in Nat
    BY <1>1, ButtonType
  <2>2. ~(c = b /\ Quiet(b))
    BY <1>6, <2>1
  <2>3. /\ press[c].due /\ press[c].room /\ press[c].served = 0
        /\ age'[c] = age[c] /\ press'[c].since = press[c].since
    BY <1>6, <2>2
  <2>4. c # b
    BY <1>5, <2>2, <2>3
  <2>5. PICK i \in Waiting(c) : /\ press[c].since <= s_btn_queue[i].waited
                                /\ age[c] + LagTicks < T + s_btn_queue[i].waited
    BY <1>1, <2>3 DEF DueInv
  <2>6. i \in DOMAIN s_btn_queue /\ s_btn_queue[i].button = c /\ i # 1
    BY <1>4, <2>4 DEF Waiting
  <2>7. PICK k \in DOMAIN s_btn_queue' : s_btn_queue'[k] = s_btn_queue[i]
    BY <1>3, <2>6
  <2>8. DebounceTicks <= age[c]
    BY <1>1, <2>3 DEF DueInv
  <2> QED BY <2>3, <2>5, <2>6, <2>7, <2>8
<1> QED BY <1>7, <1>8, <1>9, <1>10, <1>11 DEF IInv

\* IInv holds in every reachable state.
LEMMA Inductive == Spec => []IInv
<1>1. IInv /\ [Next]_vars => IInv'
  <2>1. IInv /\ UNCHANGED vars => IInv'
    <3> SUFFICES ASSUME IInv, UNCHANGED vars PROVE IInv'
      OBVIOUS
    <3>1. TypeOK' /\ ClockInv'
      BY DEF IInv, TypeOK, ClockInv, vars
    <3>2. EventInv' /\ SpanInv' /\ ServedInv' /\ DueInv'
      BY DEF IInv, EventInv, SpanInv, ServedInv, DueInv, Waiting, vars
    <3> QED BY <3>1, <3>2 DEF IInv
  <2> QED BY <2>1, TickIInv, FirstEdgeIInv, ReleaseIInv, BounceIInv, HandleIInv DEF Next
<1> QED BY InitIInv, <1>1, PTL DEF Spec
-----------------------------------------------------------------------------
(***************************************************************************)
(* The room in the queue.                                                  *)
(***************************************************************************)

\* The waiting events can be numbered so that those of one button have
\* different numbers, none higher than the edges of its press so far.
Numbers(rank) ==
    \A i, j \in DOMAIN s_btn_queue :
        /\ rank[i] <= press[s_btn_queue[i].button].edges
        /\ s_btn_queue[i].button = s_btn_queue[j].button /\ rank[i] = rank[j] => i = j

RankInv == \E rank \in [DOMAIN s_btn_queue -> 1 .. MaxEdges] : Numbers(rank)

\* A button whose contact has settled has no event waiting.
LEMMA NothingWaits ==
    ASSUME TypeOK, EventInv, NEW b \in Buttons, press[b].moved = Settled
    PROVE  \A i \in DOMAIN s_btn_queue : s_btn_queue[i].button # b
<1> SUFFICES ASSUME NEW i \in DOMAIN s_btn_queue, s_btn_queue[i].button = b PROVE FALSE
  OBVIOUS
<1>1. press[b].moved <= BounceTicks + s_btn_queue[i].waited
  BY DEF EventInv, Waiting
<1>2. s_btn_queue[i].waited \in 0 .. LagTicks
  BY WaitingType
<1> QED BY <1>1, <1>2, ButtonType

\* Events that stay keep their numbers.
LEMMA RanksStay ==
    ASSUME TypeOK, RankInv, \A c \in Buttons : press'[c].edges = press[c].edges,
           NEW back \in [DOMAIN s_btn_queue' -> DOMAIN s_btn_queue],
           \A i, j \in DOMAIN s_btn_queue' : back[i] = back[j] => i = j,
           \A i \in DOMAIN s_btn_queue' : s_btn_queue'[i].button = s_btn_queue[back[i]].button
    PROVE  RankInv'
<1>1. PICK rank \in [DOMAIN s_btn_queue -> 1 .. MaxEdges] : Numbers(rank)
  BY DEF RankInv
<1> DEFINE moved == [i \in DOMAIN s_btn_queue' |-> rank[back[i]]]
<1>2. moved \in [DOMAIN s_btn_queue' -> 1 .. MaxEdges]
  OBVIOUS
<1>3. ASSUME NEW i \in DOMAIN s_btn_queue', NEW j \in DOMAIN s_btn_queue'
      PROVE  /\ moved[i] <= press'[s_btn_queue'[i].button].edges
             /\ s_btn_queue'[i].button = s_btn_queue'[j].button /\ moved[i] = moved[j] => i = j
  <2>1. back[i] \in DOMAIN s_btn_queue /\ back[j] \in DOMAIN s_btn_queue
    OBVIOUS
  <2>2. s_btn_queue[back[i]].button \in Buttons
    BY <2>1, WaitingType
  <2> QED BY <1>1, <2>1, <2>2 DEF Numbers
<1> HIDE DEF moved
<1> QED BY <1>2, <1>3 DEF RankInv, Numbers

\* A new event gets a number of its own.
LEMMA RankAdded ==
    ASSUME TypeOK, RankInv, NEW b \in Buttons, Isr(b),
           press'[b].edges \in 1 .. MaxEdges,
           \A c \in Buttons \ {b} : press'[c].edges = press[c].edges,
           \A i \in DOMAIN s_btn_queue :
               s_btn_queue[i].button = b => press[b].edges < press'[b].edges
    PROVE  RankInv'
<1>1. PICK rank \in [DOMAIN s_btn_queue -> 1 .. MaxEdges] : Numbers(rank)
  BY DEF RankInv
<1> DEFINE longer == [i \in DOMAIN s_btn_queue' |->
                         IF i \in DOMAIN s_btn_queue THEN rank[i] ELSE press'[b].edges]
<1>2. longer \in [DOMAIN s_btn_queue' -> 1 .. MaxEdges]
  OBVIOUS
<1>3. /\ \A i \in DOMAIN s_btn_queue : s_btn_queue'[i] = s_btn_queue[i]
      /\ \A i \in DOMAIN s_btn_queue' \ DOMAIN s_btn_queue : s_btn_queue'[i].button = b
      /\ \A i, j \in DOMAIN s_btn_queue' \ DOMAIN s_btn_queue : i = j
  <2>1. \A i \in DOMAIN s_btn_queue' :
            i \in DOMAIN s_btn_queue \/ s_btn_queue'[i] = [button |-> b, waited |-> 0]
    BY Sent
  <2>2. /\ \A i \in DOMAIN s_btn_queue : s_btn_queue'[i] = s_btn_queue[i]
        /\ \A i, j \in DOMAIN s_btn_queue' \ DOMAIN s_btn_queue : i = j
    BY Sent
  <2> QED BY <2>1, <2>2
<1>4. ASSUME NEW i \in DOMAIN s_btn_queue
      PROVE  /\ s_btn_queue[i].button \in Buttons
             /\ rank[i] \in Nat /\ press[s_btn_queue[i].button].edges \in Nat
             /\ rank[i] <= press[s_btn_queue[i].button].edges
             /\ rank[i] <= press'[s_btn_queue[i].button].edges
             /\ s_btn_queue[i].button = b => rank[i] < press'[b].edges
  <2>1. s_btn_queue[i].button \in Buttons
    BY WaitingType
  <2>2. press[s_btn_queue[i].button].edges \in Nat /\ MaxEdges \in Nat
    BY <2>1, ButtonType
  <2>3. rank[i] \in Nat /\ rank[i] <= press[s_btn_queue[i].button].edges
    BY <1>1, <2>2 DEF Numbers
  <2> QED BY <2>1, <2>2, <2>3
<1>5. ASSUME NEW i \in DOMAIN s_btn_queue', NEW j \in DOMAIN s_btn_queue'
      PROVE  /\ longer[i] <= press'[s_btn_queue'[i].button].edges
             /\ s_btn_queue'[i].button = s_btn_queue'[j].button /\ longer[i] = longer[j] => i = j
  <2>1. CASE i \in DOMAIN s_btn_queue /\ j \in DOMAIN s_btn_queue
    BY <1>1, <1>3, <1>4, <2>1 DEF Numbers
  <2>2. CASE i \in DOMAIN s_btn_queue /\ j \notin DOMAIN s_btn_queue
    BY <1>3, <1>4, <2>2
  <2>3. CASE i \notin DOMAIN s_btn_queue /\ j \in DOMAIN s_btn_queue
    BY <1>3, <1>4, <2>3
  <2>4. CASE i \notin DOMAIN s_btn_queue /\ j \notin DOMAIN s_btn_queue
    BY <1>3, <2>4
  <2> QED BY <2>1, <2>2, <2>3, <2>4
<1> HIDE DEF longer
<1> QED BY <1>2, <1>5 DEF RankInv, Numbers

\* The numbers go on.
LEMMA NextRank == IInv /\ RankInv /\ [Next]_vars => RankInv'
<1> SUFFICES ASSUME IInv, RankInv, [Next]_vars PROVE RankInv'
  OBVIOUS
<1>1. TypeOK /\ EventInv /\ press \in [Buttons -> Presses]
  BY DEF IInv, TypeOK
<1>2. ASSUME \A c \in Buttons : press'[c].edges = press[c].edges,
             DOMAIN s_btn_queue' = DOMAIN s_btn_queue,
             \A i \in DOMAIN s_btn_queue : s_btn_queue'[i].button = s_btn_queue[i].button
      PROVE  RankInv'
  <2> DEFINE same == [i \in DOMAIN s_btn_queue' |-> i]
  <2>1. same \in [DOMAIN s_btn_queue' -> DOMAIN s_btn_queue]
    BY <1>2
  <2> QED BY <1>1, <1>2, <2>1, RanksStay
<1>3. CASE Tick
  <2>1. \A c \in Buttons : press'[c].edges = press[c].edges
    BY <1>1, <1>3 DEF Tick, Presses
  <2> QED BY <1>1, <1>2, <1>3, <2>1, Aged
<1>4. CASE UNCHANGED vars
  BY <1>2, <1>4 DEF vars
<1>5. ASSUME NEW b \in Buttons, Release(b) PROVE RankInv'
  <2>1. \A c \in Buttons : press'[c].edges = press[c].edges
    BY <1>1, <1>5 DEF Release, Presses
  <2> QED BY <1>2, <1>5, <2>1 DEF Release
<1>6. ASSUME NEW b \in Buttons, FirstEdge(b) PROVE RankInv'
  <2>1. Isr(b) /\ press[b].moved = Settled
    BY <1>6 DEF FirstEdge
  <2>2. press'[b].edges = 1 /\ \A c \in Buttons \ {b} : press'[c].edges = press[c].edges
    BY <1>1, <1>6 DEF FirstEdge, Presses
  <2>3. press'[b].edges \in 1 .. MaxEdges
    BY <1>1, <2>2, ButtonType
  <2>4. \A i \in DOMAIN s_btn_queue : s_btn_queue[i].button # b
    BY <1>1, <2>1, NothingWaits
  <2> QED BY <1>1, <2>1, <2>2, <2>3, <2>4, RankAdded
<1>7. ASSUME NEW b \in Buttons, BounceEdge(b) PROVE RankInv'
  <2>1. Isr(b) /\ press[b].edges < MaxEdges
    BY <1>7 DEF BounceEdge
  <2>2. /\ press'[b].edges = press[b].edges + 1
        /\ \A c \in Buttons \ {b} : press'[c].edges = press[c].edges
    BY <1>1, <1>7 DEF BounceEdge, Presses
  <2>3. press[b].edges < press'[b].edges /\ press'[b].edges \in 1 .. MaxEdges
    BY <1>1, <2>1, <2>2, ButtonType
  <2> QED BY <1>1, <2>1, <2>2, <2>3, RankAdded
<1>8. CASE Handle
  <2>1. s_btn_queue # <<>> /\ s_btn_queue' = Tail(s_btn_queue)
    BY <1>8 DEF Handle
  <2>2. \A c \in Buttons : press'[c].edges = press[c].edges
    BY <1>1, <1>8, SMTT(30) DEF Handle, Presses
  <2>3. \A i \in DOMAIN s_btn_queue' :
            i \in Int /\ i + 1 \in DOMAIN s_btn_queue /\ s_btn_queue'[i] = s_btn_queue[i + 1]
    <3>1. \A i \in DOMAIN s_btn_queue' : i \in Int
      BY <1>1, <2>1, Taken, LenProperties
    <3> QED BY <1>1, <2>1, <3>1, Taken
  <2> DEFINE back == [i \in DOMAIN s_btn_queue' |-> i + 1]
  <2>4. /\ back \in [DOMAIN s_btn_queue' -> DOMAIN s_btn_queue]
        /\ \A i, j \in DOMAIN s_btn_queue' : back[i] = back[j] => i = j
        /\ \A i \in DOMAIN s_btn_queue' : s_btn_queue'[i].button = s_btn_queue[back[i]].button
    BY <2>3
  <2> HIDE DEF back
  <2> QED BY <1>1, <2>2, <2>4, RanksStay
<1> QED BY <1>3, <1>4, <1>5, <1>6, <1>7, <1>8 DEF Next

\* The events of the other buttons fill the queue only with an edge for each
\* of its places, while no event of this one waits.
LEMMA OthersFill ==
    ASSUME TypeOK, RankInv, NEW b \in Buttons,
           \A i \in DOMAIN s_btn_queue : s_btn_queue[i].button # b,
           ~Room
    PROVE  Cardinality(EdgesOfOthers(b)) >= BUTTON_EVENT_QUEUE_LEN
<1>1. PICK rank \in [DOMAIN s_btn_queue -> 1 .. MaxEdges] : Numbers(rank)
  BY DEF RankInv
<1>2. /\ Len(s_btn_queue) \in Nat /\ DOMAIN s_btn_queue = 1 .. Len(s_btn_queue)
      /\ MaxEdges \in Nat \ {0} /\ BUTTON_EVENT_QUEUE_LEN \in Nat /\ IsFiniteSet(Buttons)
      /\ BUTTON_EVENT_QUEUE_LEN <= Len(s_btn_queue)
  <2>1. s_btn_queue \in Seq(Event)
    BY DEF TypeOK, Event
  <2>2. Len(s_btn_queue) \in Nat /\ DOMAIN s_btn_queue = 1 .. Len(s_btn_queue)
    BY <2>1, LenProperties
  <2>3. MaxEdges \in Nat \ {0} /\ BUTTON_EVENT_QUEUE_LEN \in Nat /\ IsFiniteSet(Buttons)
    BY ButtonsAssumption
  <2> QED BY <2>2, <2>3 DEF Room
<1> DEFINE others == Buttons \ {b}
           places == EdgesOfOthers(b)
           place  == [i \in DOMAIN s_btn_queue |-> <<s_btn_queue[i].button, rank[i]>>]
<1>3. IsFiniteSet(others)
  BY <1>2, FS_RemoveElement
<1>4. IsFiniteSet(1 .. MaxEdges)
  <2>1. 1 \in Int /\ MaxEdges \in Int
    BY <1>2
  <2> QED BY <2>1, FS_Interval
<1>5. IsFiniteSet(places) /\ Cardinality(places) \in Nat
  <2>1. IsFiniteSet(others \X (1 .. MaxEdges))
    BY <1>3, <1>4, FS_Product
  <2>2. places \in SUBSET (others \X (1 .. MaxEdges))
    BY DEF EdgesOfOthers
  <2> HIDE DEF places, others
  <2> QED BY <2>1, <2>2, FS_Subset, FS_CardinalityType
<1>6. /\ IsFiniteSet(DOMAIN s_btn_queue)
      /\ Cardinality(DOMAIN s_btn_queue) = Len(s_btn_queue)
  <2> DEFINE n == Len(s_btn_queue)
  <2>1. n \in Nat /\ DOMAIN s_btn_queue = 1 .. n
    BY <1>2
  <2> HIDE DEF n
  <2>2. IsFiniteSet(1 .. n) /\ Cardinality(1 .. n) = n
    BY <2>1, FS_Interval
  <2> QED BY <2>1, <2>2 DEF n
<1>7. place \in [DOMAIN s_btn_queue -> places]
  <2>1. ASSUME NEW i \in DOMAIN s_btn_queue PROVE place[i] \in places
    <3>1. /\ s_btn_queue[i].button \in others /\ rank[i] \in 1 .. MaxEdges
          /\ rank[i] <= press[s_btn_queue[i].button].edges
      BY <1>1, <2>1, WaitingType DEF Numbers
    <3> QED BY <2>1, <3>1 DEF EdgesOfOthers
  <2> HIDE DEF places
  <2> QED BY <2>1
<1> HIDE DEF places, place
<1> SUFFICES ASSUME Cardinality(places) < Cardinality(DOMAIN s_btn_queue) PROVE FALSE
  BY <1>2, <1>5, <1>6 DEF places
<1>9. PICK i, j \in DOMAIN s_btn_queue : i # j /\ place[i] = place[j]
  BY <1>5, <1>6, <1>7, FS_PigeonHole
<1>10. s_btn_queue[i].button = s_btn_queue[j].button /\ rank[i] = rank[j]
  BY <1>9 DEF place
<1> QED BY <1>1, <1>9, <1>10 DEF Numbers
-----------------------------------------------------------------------------
(***************************************************************************)
(* The theorems.                                                           *)
(***************************************************************************)

\* Every variable keeps its type, and the queue its length.
THEOREM TypeCorrect == Spec => []TypeOK
<1>1. IInv => TypeOK
  BY DEF IInv
<1> QED BY <1>1, Inductive, PTL

\* A press over within the debounce time is acted upon at most once, however
\* it bounces and however late BUTTONS is (task_buttons.c:139-165).
THEOREM TapsActOnce == Spec => []OneActionPerTap
<1>1. IInv => OneActionPerTap
  <2> SUFFICES ASSUME IInv, NEW b \in Buttons, press[b].span + LagTicks < DebounceTicks
               PROVE  press[b].served <= 1
    BY DEF OneActionPerTap
  <2>1. press[b].served >= 2 => press[b].span + LagTicks >= DebounceTicks
    BY DEF IInv, ServedInv
  <2>2. /\ press[b].served \in Nat /\ press[b].span \in Nat /\ LagTicks \in Nat
        /\ DebounceTicks \in Nat
    BY ButtonType DEF IInv
  <2> QED BY <2>1, <2>2
<1> QED BY <1>1, Inductive, PTL

\* A press that is due and found room is acted upon once its events are
\* handled (task_buttons.c:143, drv_buttons.c:43).
THEOREM DuePressesHeard == Spec => []PressHeard
<1>1. IInv => PressHeard
  <2> SUFFICES ASSUME IInv, NEW b \in Buttons,
                      press[b].due, press[b].room, press[b].since > LagTicks
               PROVE  press[b].served >= 1
    BY DEF PressHeard
  <2>1. /\ press[b].served \in Nat /\ press[b].since \in Nat /\ LagTicks \in Nat /\ TypeOK
    BY ButtonType DEF IInv
  <2>2. ASSUME press[b].served = 0 PROVE FALSE
    <3>1. PICK i \in Waiting(b) : press[b].since <= s_btn_queue[i].waited
      BY <2>2 DEF IInv, DueInv
    <3>2. s_btn_queue[i].waited \in 0 .. LagTicks
      BY <2>1, WaitingType DEF Waiting
    <3> QED BY <2>1, <3>1, <3>2
  <2> QED BY <2>1, <2>2
<1> QED BY <1>1, Inductive, PTL

\* The first edge of a press finds the queue full only when the other buttons
\* have made an edge for each of its places, whatever their number and however
\* they bounce (drv_buttons.c:43).
THEOREM DropsNeedOthers == Spec => DroppedByOthersOnly
<1>1. Init => RankInv
  <2> SUFFICES ASSUME Init PROVE RankInv
    OBVIOUS
  <2>1. DOMAIN s_btn_queue = {}
    BY DEF Init
  <2>2. [i \in {} |-> 1] \in [DOMAIN s_btn_queue -> 1 .. MaxEdges]
    BY <2>1
  <2> QED BY <2>1, <2>2 DEF Init, RankInv, Numbers
<1>2. IInv /\ RankInv /\ [Next]_vars =>
        [\A b \in Buttons : FirstEdge(b) /\ ~Room
            => Cardinality(EdgesOfOthers(b)) >= BUTTON_EVENT_QUEUE_LEN]_vars
  <2> SUFFICES ASSUME IInv, RankInv, NEW b \in Buttons, FirstEdge(b), ~Room
               PROVE  Cardinality(EdgesOfOthers(b)) >= BUTTON_EVENT_QUEUE_LEN
    OBVIOUS
  <2>1. TypeOK /\ EventInv /\ press[b].moved = Settled
    BY DEF IInv, FirstEdge
  <2>2. \A i \in DOMAIN s_btn_queue : s_btn_queue[i].button # b
    BY <2>1, NothingWaits
  <2> QED BY <2>1, <2>2, OthersFill
<1> QED BY <1>1, <1>2, Inductive, NextRank, PTL DEF Spec, DroppedByOthersOnly

\* Two accepted events of a button are the debounce time apart, also across
\* the wrap of the tick count (task_buttons.c:143-165).
THEOREM AcceptancesApart == Spec => AcceptedApart
<1>1. IInv /\ [Next]_vars =>
        [\A b \in Buttons : press'[b].served > press[b].served => age[b] >= DebounceTicks]_vars
  <2> SUFFICES ASSUME IInv, Next, NEW b \in Buttons, press'[b].served > press[b].served
               PROVE  age[b] >= DebounceTicks
    OBVIOUS
  <2>1. TypeOK /\ press \in [Buttons -> Presses] /\ press[b].served \in Nat
    BY ButtonType DEF IInv, TypeOK
  <2>2. CASE Handle
    <3>1. Head(s_btn_queue).button = b /\ Quiet(b)
      BY <2>1, <2>2, SMTT(30) DEF Handle, Presses
    <3>2. 1 \in DOMAIN s_btn_queue /\ s_btn_queue[1].button = b
      BY <2>1, <2>2, <3>1, Taken DEF Handle
    <3> QED BY <3>1, <3>2, HandledEvent
  <2>3. CASE Tick
    <3>1. press'[b].served = press[b].served
      BY <2>1, <2>3 DEF Tick, Presses
    <3> QED BY <2>1, <3>1
  <2>4. CASE \E c \in Buttons : FirstEdge(c) \/ BounceEdge(c) \/ Release(c)
    BY <2>1, <2>4 DEF FirstEdge, BounceEdge, Release, Presses
  <2> QED BY <2>2, <2>3, <2>4 DEF Next
<1> QED BY <1>1, Inductive, PTL DEF Spec, AcceptedApart
=============================================================================
