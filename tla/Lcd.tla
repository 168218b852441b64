-------------------------------- MODULE Lcd --------------------------------
(***************************************************************************)
(* The display: the nibbles drv_display.c pulses into the HD44780, and     *)
(* what that controller makes of them.  A reset of the processor may come  *)
(* between any two nibbles and leaves the controller, which keeps its      *)
(* power, where it was, or where the floating pins take it: in any state.  *)
(*                                                                         *)
(* External: the controller (Latch, Execute) does what its data sheet      *)
(* says.  The wiring leaves the lower half of its 8-bit bus open.  Times   *)
(* are in microseconds.                                                    *)
(***************************************************************************)
EXTENDS Integers, Sequences

CONSTANTS
    LCD_COLS,
    Texts           \* of the lines the snapshots give: sequences of characters

ASSUME LcdAssumption == LCD_COLS \in 1 .. 40 /\ \A t \in Texts : t \in Seq(32 .. 255)

VARIABLES
    job,            \* "init": lcd_init_sequence; "show": drv_display_show_state
    lines,          \* line0 and line1 (blank after the initialization)
    at,             \* how many nibbles of the job are out
    lcd,            \* the controller
    busy            \* how much longer it executes after the driver's wait

vars == <<job, lines, at, lcd, busy>>

Rows == 0 .. 1
Space == 32
None == 16          \* no nibble
Outside == 200      \* an address outside of the display memory
Blank == [row \in Rows |-> [col \in 0 .. LCD_COLS - 1 |-> Space]]
-----------------------------------------------------------------------------
(* The driver. *)

\* lcd_write_nibble and the delay after it.
Pulse(rs, nib, delay) == [rs |-> rs, nib |-> nib, wait |-> 40 + delay]

lcd_send_Short(val, rs) ==      \* mutant: clear waits no longer than the rest
    <<Pulse(rs, val \div 16, 0), Pulse(rs, val % 16, IF val = 2 THEN 2000 ELSE 50)>>

lcd_send(val, rs) ==
    <<Pulse(rs, val \div 16, 0), Pulse(rs, val % 16, IF val \in {1, 2} THEN 2000 ELSE 50)>>

\* lcd_cmd and lcd_data: the byte, and what it is for.
lcd_cmd(val) == [rs |-> FALSE, val |-> val]
lcd_data(char) == [rs |-> TRUE, val |-> char]

\* Two nibbles for each of the bytes.
Sent(bytes) ==
    [n \in 1 .. 2 * Len(bytes) |->
        LET byte == bytes[(n + 1) \div 2]
        IN  lcd_send(byte.val, byte.rs)[IF n % 2 = 1 THEN 1 ELSE 2]]

Commands == Sent(<<lcd_cmd(40), lcd_cmd(8), lcd_cmd(1), lcd_cmd(6), lcd_cmd(12)>>)

InitSequence_Twice ==           \* mutant: one "3" less
    <<Pulse(FALSE, 3, 4500), Pulse(FALSE, 3, 4500), Pulse(FALSE, 2, 150)>> \o Commands

\* lcd_init_sequence
InitSequence ==
    <<Pulse(FALSE, 3, 4500), Pulse(FALSE, 3, 4500), Pulse(FALSE, 3, 150),
      Pulse(FALSE, 2, 150)>> \o Commands

SetCursor_Row0(row, col) == lcd_cmd(128 + col)      \* mutant

\* lcd_set_cursor
SetCursor(row, col) == lcd_cmd(128 + (IF row = 0 THEN 0 ELSE 64) + col)

LineTo_NoPad(text) == text                          \* mutant

\* As many characters as the row has, or spaces for them.
LineTo(text) == [i \in 1 .. LCD_COLS |-> IF i <= Len(text) THEN text[i] ELSE Space]

\* drv_display_write_line
WriteLine(row, text) ==
    LET line == LineTo(text)
    IN  Sent(<<SetCursor(row, 0)>> \o [i \in DOMAIN line |-> lcd_data(line[i])])

Buffer_Whole(text) == text                          \* mutant: sprintf

\* snprintf into a buffer of LCD_COLS + 1 characters.
Buffer(text) == SubSeq(text, 1, IF Len(text) < LCD_COLS THEN Len(text) ELSE LCD_COLS)

Nibbles == IF job = "init" THEN InitSequence
                           ELSE WriteLine(0, lines[0]) \o WriteLine(1, lines[1])
-----------------------------------------------------------------------------
(* The controller: bits of its bus, the nibble it waits to complete (None  *)
(* when it waits for a high one), address counter, direction, what it      *)
(* shows and the time its last instruction takes.                          *)

Addresses == (0 .. 39) \cup (64 .. 103)

Counters == Addresses \cup {Outside}

Cells == [Rows -> [0 .. LCD_COLS - 1 -> 0 .. 255]]

Controllers ==
    [bits : {4, 8}, high : 0 .. None, ac : Counters, right : BOOLEAN,
     exec : Nat, on : BOOLEAN, two : BOOLEAN, shown : Cells]

\* One row follows the other, forwards and backwards.
Step(a, right) ==
    CASE a = Outside -> a
      [] right /\ a = 39 -> 64
      [] right /\ a = 103 -> 0
      [] ~right /\ a = 64 -> 39
      [] ~right /\ a = 0 -> 103
      [] OTHER -> IF right THEN a + 1 ELSE a - 1

WriteData(l, char) ==
    LET row == IF l.ac < 64 THEN 0 ELSE 1
        col == l.ac - 64 * row
    IN  [l EXCEPT !.ac = Step(@, l.right), !.exec = 43,
                  !.shown = IF l.ac \in Addresses /\ col < LCD_COLS
                            THEN [@ EXCEPT ![row][col] = char] ELSE @]

Execute(l, b) ==
    LET done == [l EXCEPT !.exec = 37]
    IN  CASE b >= 128 -> [done EXCEPT !.ac = IF b - 128 \in Addresses THEN b - 128 ELSE 0]
          [] b \in 64 .. 127 -> [done EXCEPT !.ac = Outside]
          [] b \in 32 .. 63 -> [done EXCEPT !.bits = IF (b \div 16) % 2 = 1 THEN 8 ELSE 4,
                                            !.two = (b \div 8) % 2 = 1]
          [] b \in 16 .. 31 -> done
          [] b \in 8 .. 15 -> [done EXCEPT !.on = (b \div 4) % 2 = 1]
          [] b \in 4 .. 7 -> [done EXCEPT !.right = (b \div 2) % 2 = 1]
          [] b \in 2 .. 3 -> [done EXCEPT !.ac = 0, !.exec = 1520]
          [] b = 1 -> [done EXCEPT !.ac = 0, !.right = TRUE, !.shown = Blank, !.exec = 1520]
          [] b = 0 -> done

Take(l, rs, b) == IF rs THEN WriteData(l, b) ELSE Execute(l, b)

\* The falling edge of EN: the controllers it may leave.
Latch(l, rs, nib) ==
    IF l.bits = 8 THEN {Take(l, rs, 16 * nib + low) : low \in 0 .. 15}
    ELSE IF l.high = None THEN {[l EXCEPT !.high = nib, !.exec = 0]}
    ELSE {Take([l EXCEPT !.high = None], rs, 16 * l.high + nib)}
-----------------------------------------------------------------------------
Garbage == [row \in Rows |-> [col \in 0 .. LCD_COLS - 1 |-> 255]]

\* Where a controller may be when the processor starts.  What the driver does
\* not write it clears, so that two contents stand for all.
Anywhere ==
    {l \in [bits : {4, 8}, high : 0 .. None, ac : {0, Outside}, right : BOOLEAN, exec : {0},
            on : BOOLEAN, two : BOOLEAN, shown : {Blank, Garbage}] :
        l.bits = 8 => l.high = None}

\* drv_display_init from the power-up of the processor on.
Init ==
    /\ job = "init" /\ lines = [row \in Rows |-> <<>>] /\ at = 0 /\ busy = 0
    /\ lcd \in Anywhere

\* The next nibble of the job.
PulseNext ==
    /\ at < Len(Nibbles)
    /\ LET p == Nibbles[at + 1]
       IN  /\ lcd' \in Latch(lcd, p.rs, p.nib)
           /\ busy' = IF lcd'.exec > p.wait THEN lcd'.exec - p.wait ELSE 0
    /\ at' = at + 1
    /\ UNCHANGED <<job, lines>>

\* DISPLAY has received a snapshot: drv_display_show_state.
ShowState ==
    /\ at = Len(Nibbles)
    /\ \E text \in [Rows -> Texts] : lines' = [row \in Rows |-> Buffer(text[row])]
    /\ job' = "show" /\ at' = 0
    /\ UNCHANGED <<lcd, busy>>

\* A reset of the processor; drv_display_init runs again.
Reset ==
    /\ job' = "init" /\ lines' = [row \in Rows |-> <<>>] /\ at' = 0 /\ busy' = 0
    /\ lcd' \in Anywhere

Next == PulseNext \/ ShowState \/ Reset

Spec == Init /\ [][Next]_vars
-----------------------------------------------------------------------------
TypeOK ==
    /\ job \in {"init", "show"}
    /\ lines \in [Rows -> Seq(32 .. 255)]
    /\ \A row \in Rows : Len(lines[row]) <= LCD_COLS
    /\ at \in 0 .. Len(Nibbles)
    /\ lcd \in Controllers
    /\ busy \in Nat

\* Driver and controller agree on where a byte begins, from the fifth nibble
\* of the initialization on: wherever in a byte, a mode or an initialization
\* the reset before it came (drv_display.c:91-98).
InStep ==
    LET sent == IF job = "init" THEN at - 4 ELSE at
    IN  sent >= 0 => /\ lcd.bits = 4
                     /\ lcd.high = IF sent % 2 = 0 THEN None ELSE Nibbles[at].nib

\* When a job is done the display is on and both rows read what was asked
\* for, every cell of them, whatever they showed before
\* (drv_display.c:157-183, 239-240).
AsAsked ==
    at = Len(Nibbles) =>
        /\ lcd.on /\ lcd.two
        /\ \A row \in Rows : \A col \in 0 .. LCD_COLS - 1 :
              lcd.shown[row][col] = IF col < Len(lines[row]) THEN lines[row][col + 1] ELSE Space

\* The controller has always finished when the next nibble comes: nobody
\* reads its busy flag, the delays alone see to it (drv_display.c:44-77).
NeverOverrun == busy = 0

\* Writing one row leaves the other as it is (drv_display.c:118-126).
OtherRowKept ==
    [][job = "show" /\ at < Len(Nibbles) /\ job' = "show" =>
          LET half == Len(Nibbles) \div 2
          IN  lcd'.shown[IF at < half THEN 1 ELSE 0] = lcd.shown[IF at < half THEN 1 ELSE 0]]_vars
=============================================================================
