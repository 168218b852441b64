------------------------------ MODULE Buttons ------------------------------
(***************************************************************************)
(* The way of a press from the contact to the BUTTONS task: the interrupt  *)
(* handler of drv_buttons.c queues one event per falling edge, and         *)
(* task_buttons drops the events that come too soon after the last one it  *)
(* accepted for the same button.  What an accepted event does is the       *)
(* matter of module ControlLoop.                                           *)
(*                                                                         *)
(* Time is counted in ticks.  The kernel's tick count is a machine word    *)
(* that wraps (TickModulus; 2^32 in the firmware, 497 days), so ages are   *)
(* kept beside it that do not; an age stops growing when it has reached    *)
(* the last value that matters.                                            *)
(*                                                                         *)
(* External: a contact bounces for at most BounceTicks after it closes and *)
(* after it opens, and is not pressed again before its events are handled; *)
(* BUTTONS handles an event at most LagTicks after its edge.               *)
(***************************************************************************)
EXTENDS Integers, Sequences, FiniteSets

CONSTANTS
    Buttons,                    \* UP, DOWN, MODE
    BUTTON_EVENT_QUEUE_LEN,
    DebounceTicks,              \* pdMS_TO_TICKS(BUTTON_DEBOUNCE_MS)
    TickModulus,
    BounceTicks, LagTicks,
    MaxEdges                    \* falling edges of one press and its release

ASSUME ButtonsAssumption ==
    /\ IsFiniteSet(Buttons)
    /\ {BUTTON_EVENT_QUEUE_LEN, DebounceTicks, TickModulus, MaxEdges} \subseteq Nat \ {0}
    /\ {BounceTicks, LagTicks} \subseteq Nat
    /\ DebounceTicks + LagTicks < TickModulus

VARIABLES
    ticks,          \* xTaskGetTickCount()
    s_btn_queue,    \* events, each with the time it has waited
    last,           \* last_up_ticks, last_down_ticks, last_mode_ticks
    \* Not in the code:
    age,            \* the true age of last, up to TickModulus
    press           \* of each button: the press under way or the latest one

vars == <<ticks, s_btn_queue, last, age, press>>

Settled == BounceTicks + LagTicks + 1

\* since: the time since its first edge, up to the debounce time; moved: the
\* time since the contact closed or opened; span: from its first edge to its
\* last; due: the button had been quiet long enough for the press to be
\* accepted; room: its first edge found room in the queue; served: the events
\* of the press that were accepted.
Presses == [down : BOOLEAN, since : 0 .. DebounceTicks, moved : 0 .. Settled,
            span : 0 .. DebounceTicks, edges : 0 .. MaxEdges, served : Nat,
            due : BOOLEAN, room : BOOLEAN]

Init ==
    /\ ticks = 0
    /\ s_btn_queue = <<>>
    /\ last = [b \in Buttons |-> 0]
    /\ age = [b \in Buttons |-> 0]
    /\ press = [b \in Buttons |-> 
          [down |-> FALSE, since |-> DebounceTicks, moved |-> Settled, span |-> 0,
           edges |-> 0, served |-> 0, due |-> FALSE, room |-> TRUE]]

Grow(n, limit) == IF n < limit THEN n + 1 ELSE n

Tick ==
    /\ \A i \in DOMAIN s_btn_queue : s_btn_queue[i].waited < LagTicks
    /\ ticks' = (ticks + 1) % TickModulus
    /\ s_btn_queue' = [i \in DOMAIN s_btn_queue |->
                          [s_btn_queue[i] EXCEPT !.waited = @ + 1]]
    /\ age' = [b \in Buttons |-> Grow(age[b], TickModulus)]
    /\ press' = [b \in Buttons |-> 
          [press[b] EXCEPT !.since = Grow(@, DebounceTicks), !.moved = Grow(@, Settled)]]
    /\ UNCHANGED last

Room_OneLess == Len(s_btn_queue) + 1 < BUTTON_EVENT_QUEUE_LEN   \* mutant

Room_OneMore == Len(s_btn_queue) <= BUTTON_EVENT_QUEUE_LEN      \* mutant

\* Is there room for one more event?
Room == Len(s_btn_queue) < BUTTON_EVENT_QUEUE_LEN

\* button_isr_handler: xQueueSendFromISR does nothing when the queue is full.
Isr(b) ==
    s_btn_queue' = IF Room THEN Append(s_btn_queue, [button |-> b, waited |-> 0])
                           ELSE s_btn_queue

FirstEdge(b) ==
    /\ ~press[b].down /\ press[b].moved = Settled
    /\ Isr(b)
    /\ press' = [press EXCEPT ![b] =
          [down |-> TRUE, since |-> 0, moved |-> 0, span |-> 0,
           edges |-> 1, served |-> 0, room |-> Room,
           due |-> DebounceTicks <= age[b] /\ age[b] + LagTicks < TickModulus]]
    /\ UNCHANGED <<ticks, last, age>>

Release(b) ==
    /\ press[b].down
    /\ press' = [press EXCEPT ![b].down = FALSE, ![b].moved = 0]
    /\ UNCHANGED <<ticks, s_btn_queue, last, age>>

\* The interrupt is of any falling edge (GPIO_INTR_NEGEDGE), that of a
\* contact which bounces as it opens too.
BounceEdge(b) ==
    /\ press[b].moved <= BounceTicks
    /\ press[b].edges < MaxEdges
    /\ Isr(b)
    /\ press' = [press EXCEPT ![b].edges = @ + 1, ![b].span = press[b].since]
    /\ UNCHANGED <<ticks, last, age>>

Quiet_Signed(b) == ticks - last[b] >= DebounceTicks     \* mutant: no wrap-around

Quiet_Any(b) == (ticks - last[b]) % TickModulus > 0     \* mutant: any later tick

\* (now - last) >= debounce_ticks, in the arithmetic of TickType_t.
Quiet(b) == (ticks - last[b]) % TickModulus >= DebounceTicks

\* One iteration of task_buttons.
Handle ==
    /\ s_btn_queue # <<>>
    /\ s_btn_queue' = Tail(s_btn_queue)
    /\ LET b == Head(s_btn_queue).button
       IN  \/ /\ Quiet(b)
              /\ last' = [last EXCEPT ![b] = ticks]
              /\ age' = [age EXCEPT ![b] = 0]
              /\ press' = [press EXCEPT ![b].served = @ + 1]
           \/ /\ ~Quiet(b)
              /\ UNCHANGED <<last, age, press>>
    /\ UNCHANGED ticks

Next ==
    \/ Tick
    \/ \E b \in Buttons : FirstEdge(b) \/ BounceEdge(b) \/ Release(b)
    \/ Handle

Spec == Init /\ [][Next]_vars
-----------------------------------------------------------------------------
TypeOK ==
    /\ ticks \in 0 .. TickModulus - 1
    /\ s_btn_queue \in Seq([button : Buttons, waited : 0 .. LagTicks])
    /\ Len(s_btn_queue) <= BUTTON_EVENT_QUEUE_LEN
    /\ last \in [Buttons -> 0 .. TickModulus - 1]
    /\ age \in [Buttons -> 0 .. TickModulus]
    /\ press \in [Buttons -> Presses]

\* However the contact bounces, a press over within the debounce time is
\* acted upon once: BUTTONS measures the time when it handles an event, not
\* when the edge came, and still no bounce is old enough to pass
\* (task_buttons.c:139-165).
OneActionPerTap ==
    \A b \in Buttons :
        press[b].span + LagTicks < DebounceTicks => press[b].served <= 1

\* A press of a button that was quiet for the debounce time is acted upon,
\* unless the queue was full or the button was quiet for a turn of the tick
\* count (task_buttons.c:143, drv_buttons.c:43).
PressHeard ==
    \A b \in Buttons :
        press[b].due /\ press[b].room /\ press[b].since > LagTicks => press[b].served >= 1

\* What the other buttons have done since they were last pressed.
EdgesOfOthers(b) ==
    {edge \in (Buttons \ {b}) \X (1 .. MaxEdges) : edge[2] <= press[edge[1]].edges}

\* A press is dropped only when the other buttons alone have made as many edges
\* as the queue has places: a button is never in its own way, its earlier edges
\* are handled by then.  With three buttons and 8 places it takes eight edges
\* of the other two (drv_buttons.c:43, config.h:81).
DroppedByOthersOnly ==
    [][\A b \in Buttons :
          FirstEdge(b) /\ ~Room
              => Cardinality(EdgesOfOthers(b)) >= BUTTON_EVENT_QUEUE_LEN]_vars

\* Two events of one button are never both accepted within the debounce
\* time, also when the tick count wraps between them (task_buttons.c:143-165).
AcceptedApart ==
    [][\A b \in Buttons : press'[b].served > press[b].served => age[b] >= DebounceTicks]_vars

\* Every press is acted upon at most once, the comments say: the interrupt
\* means "pressed -> line goes low" (drv_buttons.c:68) and the task
\* "debounces" it (task_buttons.c:112).  The code breaks it: a button held
\* for the debounce time that bounces as it opens is acted upon again.
OneActionPerPress == \A b \in Buttons : press[b].served <= 1
=============================================================================
