----------------------------- MODULE LcdProofs -----------------------------
(***************************************************************************)
(* Theorems about Lcd, for every width up to the 40 columns the controller *)
(* can hold and every set of texts: driver and controller stay in step     *)
(* without an answer from it, and the rows read what was asked for.        *)
(***************************************************************************)
EXTENDS Lcd, SequenceTheorems, TLAPS

\* Bytes of a row: its address, then its cells.
RowBytes == LCD_COLS + 1

\* What a cell of a row is to show.
Asked(row, col) == IF col < Len(lines[row]) THEN lines[row][col + 1] ELSE Space

\* The k-th byte of a row, and that of a "show" job.
RowByte(row, k) ==
    IF k = 1 THEN lcd_cmd(128 + 64 * row) ELSE lcd_data(Asked(row, k - 2))

ShowByte(k) == IF k <= RowBytes THEN RowByte(0, k) ELSE RowByte(1, k - RowBytes)

\* The address after k bytes of it, k > 0.
Cursor(k) ==
    IF k <= RowBytes THEN (IF k = 41 THEN 64 ELSE k - 1)
                     ELSE (IF k - RowBytes = 41 THEN 0 ELSE 63 + k - RowBytes)

\* The three "3" bring any controller to its 8-bit mode and the "2" to its
\* 4-bit mode; then each command settles a part of its state.
InitInv ==
    job = "init" =>
        /\ lines = [row \in Rows |-> <<>>]
        /\ at = 0 => (lcd.bits = 8 => lcd.high = None)
        /\ at = 1 => lcd.high = None \/ <<lcd.bits, lcd.high>> = <<4, 3>>
        /\ at = 2 => <<lcd.bits, lcd.high>> = <<8, None>> \/ <<lcd.bits, lcd.high>> = <<4, 3>>
        /\ at = 3 => <<lcd.bits, lcd.high>> = <<8, None>>
        /\ at >= 6 => lcd.two
        /\ at >= 10 => lcd.shown = Blank /\ lcd.ac = 0 /\ lcd.right
        /\ at >= 14 => lcd.on

\* After k bytes the address is that of the next cell, and those before it
\* read what was asked for.
ShowInv ==
    job = "show" =>
        /\ lcd.on /\ lcd.two /\ lcd.right
        /\ \A k \in 0 .. 2 * RowBytes :
              at = 2 * k \/ at = 2 * k + 1 =>
                  /\ k > 0 => lcd.ac = Cursor(k)
                  /\ \A col \in 0 .. LCD_COLS - 1 :
                        /\ col + 1 < k => lcd.shown[0][col] = Asked(0, col)
                        /\ RowBytes + col + 1 < k => lcd.shown[1][col] = Asked(1, col)

IInv == TypeOK /\ InStep /\ NeverOverrun /\ InitInv /\ ShowInv
-----------------------------------------------------------------------------
(* Bytes and their nibbles. *)

Bytes == [rs : BOOLEAN, val : 0 .. 255]

Pulses == [rs : BOOLEAN, nib : 0 .. 15, wait : Nat]

\* A byte is its two halves.
LEMMA Halves ==
    ASSUME NEW b \in 0 .. 255
    PROVE  /\ b \div 16 \in 0 .. 15 /\ b % 16 \in 0 .. 15
           /\ 16 * (b \div 16) + (b % 16) = b
OBVIOUS

LEMMA ByteNibbles ==
    ASSUME NEW byte \in Bytes
    PROVE  lcd_send(byte.val, byte.rs)[1] \in Pulses /\ lcd_send(byte.val, byte.rs)[2] \in Pulses
<1>1. byte.val \in 0 .. 255 /\ byte.rs \in BOOLEAN
  BY DEF Bytes
<1>2. byte.val \div 16 \in 0 .. 15 /\ byte.val % 16 \in 0 .. 15
  BY <1>1, Halves
<1> QED BY <1>1, <1>2 DEF lcd_send, Pulse, Pulses

\* The nibbles of the k-th of some bytes.
LEMMA SentNibbles ==
    ASSUME NEW bytes \in Seq(Bytes)
    PROVE  /\ Len(Sent(bytes)) = 2 * Len(bytes)
           /\ Sent(bytes) \in Seq(Pulses)
           /\ \A k \in 1 .. Len(bytes), i \in {1, 2} :
                 Sent(bytes)[2 * (k - 1) + i] = lcd_send(bytes[k].val, bytes[k].rs)[i]
<1> DEFINE n == Len(bytes)
<1>1. n \in Nat
  OBVIOUS
<1>2. Sent(bytes) = [m \in 1 .. 2 * n |->
          LET byte == bytes[(m + 1) \div 2]
          IN  lcd_send(byte.val, byte.rs)[IF m % 2 = 1 THEN 1 ELSE 2]]
  BY DEF Sent
<1> HIDE DEF n
<1>3. Len(Sent(bytes)) = 2 * n /\ DOMAIN Sent(bytes) = 1 .. 2 * n
  BY <1>1, <1>2
<1>4. ASSUME NEW k \in 1 .. n
      PROVE  /\ Sent(bytes)[2 * k - 1] = lcd_send(bytes[k].val, bytes[k].rs)[1]
             /\ Sent(bytes)[2 * k] = lcd_send(bytes[k].val, bytes[k].rs)[2]
  <2>1. /\ (2 * k) \div 2 = k /\ (2 * k + 1) \div 2 = k
        /\ (2 * k) % 2 = 0 /\ (2 * k - 1) % 2 = 1
        /\ 2 * k - 1 \in 1 .. 2 * n /\ 2 * k \in 1 .. 2 * n /\ 2 * k - 1 + 1 = 2 * k
    BY <1>1
  <2> QED BY <1>2, <2>1
<1>5. ASSUME NEW k \in 1 .. n, NEW i \in {1, 2}
      PROVE  Sent(bytes)[2 * (k - 1) + i] = lcd_send(bytes[k].val, bytes[k].rs)[i]
  <2>1. CASE i = 1
    <3>1. 2 * (k - 1) + i = 2 * k - 1
      BY <1>1, <2>1
    <3> QED BY <1>4, <2>1, <3>1
  <2>2. CASE i = 2
    <3>1. 2 * (k - 1) + i = 2 * k
      BY <1>1, <2>2
    <3> QED BY <1>4, <2>2, <3>1
  <2> QED BY <2>1, <2>2
<1>6. Sent(bytes) \in Seq(Pulses)
  <2>1. ASSUME NEW m \in 1 .. 2 * n PROVE Sent(bytes)[m] \in Pulses
    <3>1. (m + 1) \div 2 \in 1 .. n
      BY <1>1
    <3>2. bytes[(m + 1) \div 2] \in Bytes
      BY <3>1 DEF n
    <3> QED BY <1>2, <3>2, ByteNibbles
  <2> QED BY <1>1, <1>2, <2>1
<1> QED BY <1>3, <1>5, <1>6 DEF n

\* Those of one row: its address and its cells.
LEMMA RowNibbles ==
    ASSUME NEW row \in Rows, lines[row] \in Seq(32 .. 255)
    PROVE  /\ Len(WriteLine(row, lines[row])) = 2 * RowBytes
           /\ WriteLine(row, lines[row]) \in Seq(Pulses)
           /\ \A k \in 1 .. RowBytes : RowByte(row, k) \in Bytes
           /\ \A k \in 1 .. RowBytes, i \in {1, 2} :
                 WriteLine(row, lines[row])[2 * (k - 1) + i]
                   = lcd_send(RowByte(row, k).val, RowByte(row, k).rs)[i]
<1>1. LCD_COLS \in 1 .. 40 /\ RowBytes \in Nat /\ RowBytes = LCD_COLS + 1
  BY LcdAssumption DEF RowBytes
<1> DEFINE text == lines[row]
<1>11. text \in Seq(32 .. 255) /\ Len(text) \in Nat
  OBVIOUS
<1> DEFINE char(i) == IF i <= Len(text) THEN text[i] ELSE Space
           cells == [i \in 1 .. LCD_COLS |-> lcd_data(char(i))]
           bytes == <<SetCursor(row, 0)>> \o cells
<1>2. WriteLine(row, text) = Sent(bytes)
  <2>1. LineTo(text) = [i \in 1 .. LCD_COLS |-> char(i)]
    BY DEF LineTo
  <2>2. [i \in DOMAIN LineTo(text) |-> lcd_data(LineTo(text)[i])] = cells
    BY <2>1
  <2> HIDE DEF cells, char
  <2> QED BY <2>2 DEF WriteLine
<1>3. ASSUME NEW i \in 1 .. LCD_COLS PROVE char(i) \in 32 .. 255
  <2> HIDE DEF text
  <2>1. i <= Len(text) => i \in 1 .. Len(text)
    BY <1>1, <1>11
  <2>2. \A j \in 1 .. Len(text) : text[j] \in 32 .. 255
    BY <1>11, ElementOfSeq
  <2>3. CASE i <= Len(text)
    BY <2>1, <2>2, <2>3
  <2>4. CASE ~(i <= Len(text))
    BY <2>4 DEF Space
  <2> QED BY <2>3, <2>4
<1>4. SetCursor(row, 0) = lcd_cmd(128 + 64 * row) /\ SetCursor(row, 0) \in Bytes
  <2>1. CASE row = 0
    BY <2>1 DEF SetCursor, Bytes, lcd_cmd
  <2>2. CASE row = 1
    BY <2>2 DEF SetCursor, Bytes, lcd_cmd
  <2> QED BY <2>1, <2>2 DEF Rows
<1>5. cells \in Seq(Bytes) /\ Len(cells) = LCD_COLS
  <2> HIDE DEF char
  <2>1. ASSUME NEW i \in 1 .. LCD_COLS PROVE lcd_data(char(i)) \in Bytes
    <3>1. char(i) \in 0 .. 255
      BY <1>3
    <3> QED BY <3>1 DEF lcd_data, Bytes
  <2> QED BY <1>1, <2>1
<1>6. /\ bytes \in Seq(Bytes) /\ Len(bytes) = RowBytes
      /\ \A k \in 1 .. RowBytes :
            bytes[k] = IF k = 1 THEN SetCursor(row, 0) ELSE lcd_data(char(k - 1))
  <2> DEFINE first == SetCursor(row, 0)
  <2>1. first \in Bytes
    BY <1>4
  <2> HIDE DEF first
  <2>2. \A i \in 1 .. LCD_COLS : cells[i] = lcd_data(char(i))
    OBVIOUS
  <2> HIDE DEF cells, char
  <2> QED BY <1>1, <1>5, <2>1, <2>2 DEF first
<1>7. /\ Len(Sent(bytes)) = 2 * RowBytes /\ Sent(bytes) \in Seq(Pulses)
      /\ \A k \in 1 .. RowBytes, i \in {1, 2} :
            Sent(bytes)[2 * (k - 1) + i] = lcd_send(bytes[k].val, bytes[k].rs)[i]
  <2> HIDE DEF bytes
  <2> QED BY <1>6, SentNibbles
<1>8. ASSUME NEW k \in 1 .. RowBytes PROVE bytes[k] = RowByte(row, k)
  <2>1. CASE k = 1
    BY <1>4, <1>6, <2>1 DEF RowByte
  <2>2. CASE k # 1
    <3>1. /\ k - 1 = k - 2 + 1
          /\ k - 1 <= Len(text) <=> k - 2 < Len(text)
      BY <1>1, <2>2
    <3>2. char(k - 1) = Asked(row, k - 2)
      BY <3>1 DEF Asked
    <3> HIDE DEF bytes, char
    <3> QED BY <1>6, <2>2, <3>2 DEF RowByte
  <2> QED BY <2>1, <2>2
<1>9. \A k \in 1 .. RowBytes : bytes[k] \in Bytes
  <2> HIDE DEF bytes
  <2> QED BY <1>6
<1> HIDE DEF bytes, char
<1> QED BY <1>2, <1>7, <1>8, <1>9

\* Those of the whole job, row after row.
LEMMA ShowNibbles ==
    ASSUME lines \in [Rows -> Seq(32 .. 255)], job = "show"
    PROVE  /\ Len(Nibbles) = 4 * RowBytes /\ Nibbles \in Seq(Pulses)
           /\ \A k \in 1 .. 2 * RowBytes : ShowByte(k) \in Bytes
           /\ \A k \in 1 .. 2 * RowBytes, i \in {1, 2} :
                 Nibbles[2 * (k - 1) + i] = lcd_send(ShowByte(k).val, ShowByte(k).rs)[i]
<1> DEFINE upper == WriteLine(0, lines[0])
           lower == WriteLine(1, lines[1])
<1>1. RowBytes \in Nat /\ RowBytes >= 2
  BY LcdAssumption DEF RowBytes
<1>2. lines[0] \in Seq(32 .. 255) /\ lines[1] \in Seq(32 .. 255) /\ 0 \in Rows /\ 1 \in Rows
  BY DEF Rows
<1>3. Nibbles = upper \o lower
  BY DEF Nibbles
<1>4. /\ Len(upper) = 2 * RowBytes
      /\ \A k \in 1 .. RowBytes, i \in {1, 2} :
            upper[2 * (k - 1) + i] = lcd_send(ShowByte(k).val, ShowByte(k).rs)[i]
  BY <1>1, <1>2, RowNibbles DEF ShowByte
<1>5. /\ Len(lower) = 2 * RowBytes
      /\ \A k \in 1 .. RowBytes, i \in {1, 2} :
            lower[2 * (k - 1) + i]
              = lcd_send(ShowByte(k + RowBytes).val, ShowByte(k + RowBytes).rs)[i]
  <2>1. ASSUME NEW k \in 1 .. RowBytes PROVE ShowByte(k + RowBytes) = RowByte(1, k)
    <3>1. k + RowBytes - RowBytes = k /\ ~(k + RowBytes <= RowBytes)
      BY <1>1
    <3> QED BY <1>1, <3>1 DEF ShowByte
  <2> QED BY <1>2, <2>1, RowNibbles
<1>6. upper \in Seq(Pulses) /\ lower \in Seq(Pulses)
  BY <1>2, RowNibbles
<1> HIDE DEF upper, lower
<1>7. /\ Len(Nibbles) = 4 * RowBytes
      /\ \A m \in 1 .. 4 * RowBytes :
            Nibbles[m] = IF m <= 2 * RowBytes THEN upper[m] ELSE lower[m - 2 * RowBytes]
  <2>1. /\ Len(Nibbles) = Len(upper) + Len(lower)
        /\ \A m \in 1 .. Len(upper) + Len(lower) :
              Nibbles[m] = IF m <= Len(upper) THEN upper[m] ELSE lower[m - Len(upper)]
    BY <1>3, <1>6, ConcatProperties
  <2>2. Len(upper) = 2 * RowBytes /\ Len(lower) = 2 * RowBytes
    BY <1>4, <1>5
  <2> QED BY <1>1, <2>1, <2>2
<1>8. ASSUME NEW k \in 1 .. 2 * RowBytes, NEW i \in {1, 2}
      PROVE  Nibbles[2 * (k - 1) + i] = lcd_send(ShowByte(k).val, ShowByte(k).rs)[i]
  <2>1. CASE k <= RowBytes
    <3>1. 2 * (k - 1) + i \in 1 .. 4 * RowBytes /\ 2 * (k - 1) + i <= 2 * RowBytes
      BY <1>1, <2>1
    <3>2. Nibbles[2 * (k - 1) + i] = upper[2 * (k - 1) + i] /\ k \in 1 .. RowBytes
      BY <1>1, <1>7, <2>1, <3>1
    <3> QED BY <1>4, <3>2
  <2>2. CASE k > RowBytes
    <3> DEFINE j == k - RowBytes
    <3>1. /\ j \in 1 .. RowBytes /\ j + RowBytes = k
          /\ 2 * (k - 1) + i \in 1 .. 4 * RowBytes /\ ~(2 * (k - 1) + i <= 2 * RowBytes)
          /\ 2 * (k - 1) + i - 2 * RowBytes = 2 * (j - 1) + i
      BY <1>1, <2>2
    <3> HIDE DEF j
    <3>2. Nibbles[2 * (k - 1) + i] = lower[2 * (j - 1) + i]
      <4> DEFINE m == 2 * (k - 1) + i
      <4>1. m \in 1 .. 4 * RowBytes /\ ~(m <= 2 * RowBytes) /\ m - 2 * RowBytes = 2 * (j - 1) + i
        BY <1>1, <3>1
      <4> HIDE DEF m
      <4>2. Nibbles[m] = lower[m - 2 * RowBytes]
        BY <1>7, <4>1
      <4> QED BY <4>1, <4>2 DEF m
    <3> QED BY <1>5, <3>1, <3>2
  <2> QED BY <1>1, <2>1, <2>2
<1>9. Nibbles \in Seq(Pulses)
  BY <1>3, <1>6, ConcatProperties
<1>10. ASSUME NEW k \in 1 .. 2 * RowBytes PROVE ShowByte(k) \in Bytes
  <2>1. CASE k <= RowBytes
    <3>1. k \in 1 .. RowBytes
      BY <1>1, <2>1
    <3>2. RowByte(0, k) \in Bytes
      BY <1>2, <3>1, RowNibbles
    <3> QED BY <2>1, <3>2 DEF ShowByte
  <2>2. CASE k > RowBytes
    <3>1. k - RowBytes \in 1 .. RowBytes /\ ~(k <= RowBytes)
      BY <1>1, <2>2
    <3>2. RowByte(1, k - RowBytes) \in Bytes
      BY <1>2, <3>1, RowNibbles
    <3> QED BY <3>1, <3>2 DEF ShowByte
  <2> QED BY <1>1, <2>1, <2>2
<1>11. Len(Nibbles) = 4 * RowBytes
  BY <1>7
<1> QED BY <1>8, <1>9, <1>10, <1>11

InitNibble ==
    <<Pulse(FALSE, 3, 4500), Pulse(FALSE, 3, 4500), Pulse(FALSE, 3, 150), Pulse(FALSE, 2, 150)>>

InitCommands == <<40, 8, 1, 6, 12>>

\* The fourteen of the initialization: four of their own, then the commands.
LEMMA InitNibbles ==
    ASSUME job = "init"
    PROVE  /\ Len(Nibbles) = 14 /\ Nibbles \in Seq(Pulses)
           /\ \A m \in 1 .. 4 : Nibbles[m] = InitNibble[m]
           /\ \A k \in 1 .. 5, i \in {1, 2} :
                 Nibbles[2 * (k + 1) + i] = lcd_send(InitCommands[k], FALSE)[i]
<1> DEFINE first == InitNibble
           bytes == <<lcd_cmd(40), lcd_cmd(8), lcd_cmd(1), lcd_cmd(6), lcd_cmd(12)>>
<1>1. Nibbles = first \o Commands /\ Commands = Sent(bytes)
  BY DEF Nibbles, InitSequence, Commands, InitNibble
<1>2. first \in Seq(Pulses) /\ Len(first) = 4
  BY DEF Pulse, Pulses, InitNibble
<1>3. bytes \in Seq(Bytes) /\ Len(bytes) = 5
  BY DEF lcd_cmd, Bytes
<1>4. /\ Commands \in Seq(Pulses) /\ Len(Commands) = 10
      /\ \A k \in 1 .. 5, i \in {1, 2} :
            Commands[2 * (k - 1) + i] = lcd_send(bytes[k].val, bytes[k].rs)[i]
  <2> HIDE DEF bytes
  <2>1. /\ Len(Sent(bytes)) = 2 * Len(bytes) /\ Sent(bytes) \in Seq(Pulses)
        /\ \A k \in 1 .. Len(bytes), i \in {1, 2} :
              Sent(bytes)[2 * (k - 1) + i] = lcd_send(bytes[k].val, bytes[k].rs)[i]
    BY <1>3, SentNibbles
  <2> QED BY <1>1, <1>3, <2>1
<1>5. ASSUME NEW k \in 1 .. 5 PROVE bytes[k].rs = FALSE /\ bytes[k].val = InitCommands[k]
  BY DEF lcd_cmd, InitCommands
<1>7. /\ Len(Nibbles) = 14
      /\ \A m \in 1 .. 14 : Nibbles[m] = IF m <= 4 THEN first[m] ELSE Commands[m - 4]
  <2> HIDE DEF first
  <2>1. /\ Len(first \o Commands) = Len(first) + Len(Commands)
        /\ \A m \in 1 .. Len(first) + Len(Commands) :
              (first \o Commands)[m] = IF m <= Len(first) THEN first[m]
                                                        ELSE Commands[m - Len(first)]
    BY <1>2, <1>4, ConcatProperties, ZenonT(60)
  <2>2. Len(first) = 4 /\ Len(first) + Len(Commands) = 14
    BY <1>2, <1>4
  <2> QED BY <1>1, <2>1, <2>2
<1>8. ASSUME NEW k \in 1 .. 5, NEW i \in {1, 2}
      PROVE  Nibbles[2 * (k + 1) + i] = lcd_send(InitCommands[k], FALSE)[i]
  <2> DEFINE m == 2 * (k + 1) + i
  <2>1. m \in 1 .. 14 /\ ~(m <= 4) /\ m - 4 = 2 * (k - 1) + i
    OBVIOUS
  <2> HIDE DEF m, bytes
  <2>2. Nibbles[m] = Commands[m - 4]
    BY <1>7, <2>1
  <2> QED BY <1>4, <1>5, <2>1, <2>2 DEF m
<1>9. Len(Nibbles) = 14 /\ \A m \in 1 .. 4 : Nibbles[m] = InitNibble[m]
  <2> HIDE DEF bytes
  <2> QED BY <1>7
<1>10. \A k \in 1 .. 5, i \in {1, 2} :
           Nibbles[2 * (k + 1) + i] = lcd_send(InitCommands[k], FALSE)[i]
  BY <1>8, Zenon
<1>11. Nibbles \in Seq(Pulses)
  BY <1>1, <1>2, <1>4, ConcatProperties
<1> QED BY <1>9, <1>10, <1>11, Zenon
-----------------------------------------------------------------------------
(* The controller. *)

LEMMA Fields ==
    ASSUME NEW l \in Controllers
    PROVE  /\ l.bits \in {4, 8} /\ l.high \in 0 .. None /\ l.ac \in Counters
           /\ l.right \in BOOLEAN /\ l.exec \in Nat /\ l.on \in BOOLEAN /\ l.two \in BOOLEAN
           /\ l.shown \in Cells
BY Zenon DEF Controllers

LEMMA Steps ==
    ASSUME NEW a \in Counters, NEW right \in BOOLEAN
    PROVE  Step(a, right) \in Counters
BY DEF Step, Counters, Addresses, Outside

\* A byte, as it was sent or garbled, leaves a controller in a state of its
\* own; only clear and home take long.
Fast == {0, 37, 43}      \* but for clear and home
Slow == Fast \cup {1520}

LEMMA WriteType ==
    ASSUME NEW l \in Controllers, NEW b \in 0 .. 255
    PROVE  /\ WriteData(l, b) \in Controllers
           /\ WriteData(l, b).high = l.high /\ WriteData(l, b).exec \in Fast
<1> DEFINE row == IF l.ac < 64 THEN 0 ELSE 1
           col == l.ac - 64 * row
           shown == IF l.ac \in Addresses /\ col < LCD_COLS
                    THEN [l.shown EXCEPT ![row][col] = b] ELSE l.shown
           ac == Step(l.ac, l.right)
<1>1. ac \in Counters
  BY Fields, Steps
<1>2. shown \in Cells
  <2>1. row \in Rows
    BY DEF Rows
  <2>2. l.shown \in Cells
    BY Fields
  <2> HIDE DEF row, col
  <2> QED BY <2>1, <2>2 DEF Cells
<1>3. WriteData(l, b) = [l EXCEPT !.ac = ac, !.exec = 43, !.shown = shown]
  BY Zenon DEF WriteData
<1>4. 43 \in Nat /\ 43 \in Fast
  BY DEF Fast
<1> HIDE DEF shown, ac
<1> QED BY <1>1, <1>2, <1>3, <1>4, Zenon DEF Controllers

LEMMA ExecuteType ==
    ASSUME NEW l \in Controllers, NEW b \in 0 .. 255
    PROVE  /\ Execute(l, b) \in Controllers
           /\ Execute(l, b).high = l.high
           /\ Execute(l, b).exec \in Slow
           /\ b \notin 1 .. 3 => Execute(l, b).exec \in Fast
<1> DEFINE done == [l EXCEPT !.exec = 37]
           ac == IF b - 128 \in Addresses THEN b - 128 ELSE 0
           bits == IF (b \div 16) % 2 = 1 THEN 8 ELSE 4
           two == (b \div 8) % 2 = 1
           on == (b \div 4) % 2 = 1
           right == (b \div 2) % 2 = 1
           home == 0
           long == 1520
           Fine(k, exec) == k \in Controllers /\ k.high = l.high /\ k.exec = exec
<1>1. /\ 37 \in Nat /\ long \in Nat /\ bits \in {4, 8}
      /\ two \in BOOLEAN /\ on \in BOOLEAN /\ right \in BOOLEAN
  OBVIOUS
<1>2. ac \in Counters /\ home \in Counters /\ Outside \in Counters
  <2>1. 0 \in Addresses
    BY DEF Addresses
  <2>2. ac \in Addresses
    BY <2>1
  <2> HIDE DEF ac
  <2> QED BY <2>1, <2>2 DEF Counters
<1>3. Blank \in Cells
  BY DEF Blank, Space, Cells
<1>4. Fine(done, 37)
  <2>1. 37 \in Nat
    OBVIOUS
  <2> QED BY <2>1, Zenon DEF Controllers
<1> HIDE DEF done, ac, bits, two, on, right, home, long
<1>5. CASE b \in 128 .. 255
  <2> DEFINE k == [done EXCEPT !.ac = ac]
  <2>1. Execute(l, b) = k
    BY <1>5 DEF Execute, done, ac
  <2>2. done \in Controllers /\ ac \in Counters
    BY <1>1, <1>2, <1>3, <1>4
  <2>3. k \in Controllers
    BY <2>2, Zenon DEF Controllers
  <2>4. k.high = done.high /\ k.exec = done.exec
    BY <2>2, Zenon DEF Controllers
  <2> HIDE DEF k
  <2> QED BY <1>4, <1>5, <2>1, <2>3, <2>4 DEF Fast, Slow
<1>6. CASE b \in 64 .. 127
  <2> DEFINE k == [done EXCEPT !.ac = Outside]
  <2>1. Execute(l, b) = k
    BY <1>6 DEF Execute, done
  <2>2. done \in Controllers /\ Outside \in Counters
    BY <1>1, <1>2, <1>3, <1>4
  <2>3. k \in Controllers
    BY <2>2, Zenon DEF Controllers
  <2>4. k.high = done.high /\ k.exec = done.exec
    BY <2>2, Zenon DEF Controllers
  <2> HIDE DEF k
  <2> QED BY <1>4, <1>6, <2>1, <2>3, <2>4 DEF Fast, Slow
<1>7. CASE b \in 32 .. 63
  <2> DEFINE k == [done EXCEPT !.bits = bits, !.two = two]
  <2>1. Execute(l, b) = k
    BY <1>7 DEF Execute, done, bits, two
  <2>2. done \in Controllers /\ bits \in {4, 8} /\ two \in BOOLEAN
    BY <1>1, <1>2, <1>3, <1>4
  <2>3. k \in Controllers
    BY <2>2, Zenon DEF Controllers
  <2>4. k.high = done.high /\ k.exec = done.exec
    BY <2>2, Zenon DEF Controllers
  <2> HIDE DEF k
  <2> QED BY <1>4, <1>7, <2>1, <2>3, <2>4 DEF Fast, Slow
<1>8. CASE b \in 8 .. 15
  <2> DEFINE k == [done EXCEPT !.on = on]
  <2>1. Execute(l, b) = k
    BY <1>8 DEF Execute, done, on
  <2>2. done \in Controllers /\ on \in BOOLEAN
    BY <1>1, <1>2, <1>3, <1>4
  <2>3. k \in Controllers
    BY <2>2, Zenon DEF Controllers
  <2>4. k.high = done.high /\ k.exec = done.exec
    BY <2>2, Zenon DEF Controllers
  <2> HIDE DEF k
  <2> QED BY <1>4, <1>8, <2>1, <2>3, <2>4 DEF Fast, Slow
<1>9. CASE b \in 4 .. 7
  <2> DEFINE k == [done EXCEPT !.right = right]
  <2>1. Execute(l, b) = k
    BY <1>9 DEF Execute, done, right
  <2>2. done \in Controllers /\ right \in BOOLEAN
    BY <1>1, <1>2, <1>3, <1>4
  <2>3. k \in Controllers
    BY <2>2, Zenon DEF Controllers
  <2>4. k.high = done.high /\ k.exec = done.exec
    BY <2>2, Zenon DEF Controllers
  <2> HIDE DEF k
  <2> QED BY <1>4, <1>9, <2>1, <2>3, <2>4 DEF Fast, Slow
<1>10. CASE b \in 2 .. 3
  <2> DEFINE k == [done EXCEPT !.ac = home, !.exec = long]
  <2>1. Execute(l, b) = k
    BY <1>10 DEF Execute, done, home, long
  <2>2. done \in Controllers /\ home \in Counters /\ long \in Nat
    BY <1>1, <1>2, <1>3, <1>4
  <2>3. k \in Controllers
    BY <2>2, Zenon DEF Controllers
  <2>4. k.high = done.high /\ k.exec = long
    BY <2>2, Zenon DEF Controllers
  <2> HIDE DEF k
  <2> QED BY <1>4, <1>10, <2>1, <2>3, <2>4 DEF Slow, long
<1>11. CASE b = 1
  <2> DEFINE k == [done EXCEPT !.ac = home, !.right = TRUE, !.shown = Blank, !.exec = long]
  <2>1. Execute(l, b) = k
    BY <1>11 DEF Execute, done, home, long
  <2>2. done \in Controllers /\ home \in Counters /\ long \in Nat /\ Blank \in Cells
    BY <1>1, <1>2, <1>3, <1>4
  <2>3. k \in Controllers
    BY <2>2, Zenon DEF Controllers
  <2>4. k.high = done.high /\ k.exec = long
    BY <2>2, Zenon DEF Controllers
  <2> HIDE DEF k
  <2> QED BY <1>4, <1>11, <2>1, <2>3, <2>4 DEF Slow, long
<1>12. CASE b \in 16 .. 31 \/ b = 0
  <2>1. Execute(l, b) = done
    BY <1>12 DEF Execute, done
  <2> QED BY <1>4, <1>12, <2>1 DEF Fast, Slow
<1> QED BY <1>5, <1>6, <1>7, <1>8, <1>9, <1>10, <1>11, <1>12

\* The three ways a nibble is taken.
LEMMA Wide ==
    ASSUME NEW l \in Controllers, l.bits = 8, NEW rs \in BOOLEAN, NEW nib \in 0 .. 15,
           NEW l2 \in Latch(l, rs, nib)
    PROVE  \E b \in 0 .. 255 : b \in 16 * nib .. 16 * nib + 15 /\ l2 = Take(l, rs, b)
<1>1. PICK low \in 0 .. 15 : l2 = Take(l, rs, 16 * nib + low)
  BY DEF Latch
<1>2. 16 * nib + low \in 0 .. 255 /\ 16 * nib + low \in 16 * nib .. 16 * nib + 15
  OBVIOUS
<1> QED BY <1>1, <1>2

LEMMA HighHalf ==
    ASSUME NEW l \in Controllers, l.bits = 4, l.high = None, NEW rs \in BOOLEAN,
           NEW nib \in 0 .. 15, NEW l2 \in Latch(l, rs, nib)
    PROVE  /\ l2 \in Controllers /\ l2.bits = 4 /\ l2.high = nib /\ l2.exec = 0
           /\ l2.ac = l.ac /\ l2.right = l.right /\ l2.on = l.on /\ l2.two = l.two
           /\ l2.shown = l.shown
<1> DEFINE none == 0
<1>1. l2 = [l EXCEPT !.high = nib, !.exec = none]
  BY DEF Latch, None
<1>2. nib \in 0 .. None /\ none \in Nat
  BY DEF None
<1> HIDE DEF none
<1>3. l2 \in Controllers /\ l2.high = nib /\ l2.exec = none
  BY <1>1, <1>2, Zenon DEF Controllers
<1>4. /\ l2.bits = l.bits /\ l2.ac = l.ac /\ l2.right = l.right /\ l2.on = l.on
      /\ l2.two = l.two /\ l2.shown = l.shown
  BY <1>1, Zenon DEF Controllers
<1> QED BY <1>3, <1>4 DEF none

LEMMA LowHalf ==
    ASSUME NEW l \in Controllers, l.bits = 4, l.high # None, NEW rs \in BOOLEAN,
           NEW nib \in 0 .. 15, NEW l2 \in Latch(l, rs, nib)
    PROVE  /\ l2 = Take([l EXCEPT !.high = None], rs, 16 * l.high + nib)
           /\ 16 * l.high + nib \in 0 .. 255
           /\ [l EXCEPT !.high = None] \in Controllers
<1>1. l.high \in 0 .. 15
  BY Fields DEF None
<1>2. l2 = Take([l EXCEPT !.high = None], rs, 16 * l.high + nib)
  BY DEF Latch
<1>3. None \in 0 .. None
  BY DEF None
<1>4. [l EXCEPT !.high = None] \in Controllers
  BY <1>3, Zenon DEF Controllers
<1> QED BY <1>1, <1>2, <1>4

LEMMA TakeType ==
    ASSUME NEW l \in Controllers, NEW rs \in BOOLEAN, NEW b \in 0 .. 255
    PROVE  /\ Take(l, rs, b) \in Controllers /\ Take(l, rs, b).high = l.high
           /\ Take(l, rs, b).exec \in Slow
           /\ rs \/ b \notin 1 .. 3 => Take(l, rs, b).exec \in Fast
<1>1. CASE rs
  <2>1. Take(l, rs, b) = WriteData(l, b)
    BY <1>1, Zenon DEF Take
  <2>2. WriteData(l, b) \in Controllers /\ WriteData(l, b).high = l.high
        /\ WriteData(l, b).exec \in Fast
    BY WriteType
  <2> QED BY <2>1, <2>2 DEF Slow
<1>2. CASE ~rs
  <2>1. Take(l, rs, b) = Execute(l, b)
    BY <1>2, Zenon DEF Take
  <2>2. Execute(l, b) \in Controllers /\ Execute(l, b).high = l.high
        /\ Execute(l, b).exec \in Slow /\ (b \notin 1 .. 3 => Execute(l, b).exec \in Fast)
    BY ExecuteType, ZenonT(60)
  <2> QED BY <1>2, <2>1, <2>2
<1> QED BY <1>1, <1>2

LEMMA LatchType ==
    ASSUME NEW l \in Controllers, NEW rs \in BOOLEAN, NEW nib \in 0 .. 15,
           NEW l2 \in Latch(l, rs, nib)
    PROVE  l2 \in Controllers /\ l2.exec \in Slow
<1>1. CASE l.bits = 8
  <2>1. PICK b \in 0 .. 255 : l2 = Take(l, rs, b)
    BY <1>1, Wide
  <2>2. Take(l, rs, b) \in Controllers /\ Take(l, rs, b).exec \in Slow
    BY TakeType, Zenon
  <2> QED BY <2>1, <2>2
<1>2. CASE l.bits = 4 /\ l.high = None
  BY <1>2, HighHalf DEF Slow, Fast
<1>3. CASE l.bits = 4 /\ l.high # None
  <2> DEFINE k == [l EXCEPT !.high = None]
             b == 16 * l.high + nib
  <2>1. l2 = Take(k, rs, b) /\ b \in 0 .. 255 /\ k \in Controllers
    BY <1>3, LowHalf, ZenonT(60)
  <2> HIDE DEF k, b
  <2>2. Take(k, rs, b) \in Controllers /\ Take(k, rs, b).exec \in Slow
    BY <2>1, TakeType, Zenon
  <2> QED BY <2>1, <2>2
<1>4. l.bits = 8 \/ l.bits = 4
  BY Fields
<1> QED BY <1>1, <1>2, <1>3, <1>4

\* The address of a cell, and that of the one that follows.
Address(row, col) == 64 * row + col

Following(row, col) ==
    IF col = 39 THEN (IF row = 0 THEN 64 ELSE 0) ELSE 64 * row + col + 1

\* A character goes to the cell the address stands on, and the address to
\* the next one.
LEMMA WriteEffect ==
    ASSUME NEW l \in Controllers, l.right, NEW row \in Rows, NEW col \in 0 .. LCD_COLS - 1,
           l.ac = Address(row, col), NEW char
    PROVE  /\ WriteData(l, char).shown = [l.shown EXCEPT ![row][col] = char]
           /\ WriteData(l, char).ac = Following(row, col)
           /\ WriteData(l, char).bits = l.bits /\ WriteData(l, char).right = l.right
           /\ WriteData(l, char).on = l.on /\ WriteData(l, char).two = l.two
<1>1. LCD_COLS \in 1 .. 40
  BY LcdAssumption
<1>2. /\ row = IF l.ac < 64 THEN 0 ELSE 1
      /\ col = l.ac - 64 * row
      /\ l.ac \in Addresses /\ col < LCD_COLS
  BY <1>1 DEF Rows, Addresses, Address
<1> DEFINE ac == Step(l.ac, l.right)
           shown == [l.shown EXCEPT ![row][col] = char]
           exec == 43
<1>3. WriteData(l, char) = [l EXCEPT !.ac = ac, !.exec = exec, !.shown = shown]
  BY <1>2 DEF WriteData
<1>4. ac = Following(row, col)
  <2>1. CASE row = 0
    BY <1>1, <2>1 DEF Step, Outside, Following, Address
  <2>2. CASE row = 1
    BY <1>1, <2>2 DEF Step, Outside, Following, Address
  <2>3. row = 0 \/ row = 1
    BY DEF Rows
  <2> HIDE DEF ac
  <2> QED BY <2>1, <2>2, <2>3
<1> HIDE DEF ac, shown, exec
<1>5. /\ WriteData(l, char).shown = shown /\ WriteData(l, char).ac = ac
      /\ WriteData(l, char).bits = l.bits /\ WriteData(l, char).right = l.right
      /\ WriteData(l, char).on = l.on /\ WriteData(l, char).two = l.two
  BY <1>3, Zenon DEF Controllers
<1> QED BY <1>4, <1>5 DEF shown

LEMMA AddressEffect ==
    ASSUME NEW l \in Controllers, NEW a \in {0, 64}
    PROVE  /\ Execute(l, 128 + a).ac = a /\ Execute(l, 128 + a).shown = l.shown
           /\ Execute(l, 128 + a).bits = l.bits /\ Execute(l, 128 + a).right = l.right
           /\ Execute(l, 128 + a).on = l.on /\ Execute(l, 128 + a).two = l.two
<1> DEFINE exec == 37
           b == 128 + a
           ac == IF b - 128 \in Addresses THEN b - 128 ELSE 0
<1>1. b \in 128 .. 255 /\ b - 128 = a /\ a \in Addresses
  BY DEF Addresses
<1> HIDE DEF b
<1>2. Execute(l, b) = [l EXCEPT !.exec = exec, !.ac = a]
  <2>1. Execute(l, b) = [[l EXCEPT !.exec = exec] EXCEPT !.ac = ac]
    BY <1>1 DEF Execute
  <2>2. ac = a
    BY <1>1
  <2> HIDE DEF ac
  <2> QED BY <2>1, <2>2
<1> HIDE DEF exec
<1>3. /\ Execute(l, b).ac = a /\ Execute(l, b).shown = l.shown
      /\ Execute(l, b).bits = l.bits /\ Execute(l, b).right = l.right
      /\ Execute(l, b).on = l.on /\ Execute(l, b).two = l.two
  BY <1>2, Zenon DEF Controllers
<1> QED BY <1>3, Zenon DEF b

\* What the bytes of the initialization settle.
LEMMA FunctionSetEffect ==
    ASSUME NEW l \in Controllers, NEW b \in 32 .. 63
    PROVE  /\ b \in 48 .. 63 => Execute(l, b).bits = 8
           /\ b \notin 48 .. 63 => Execute(l, b).bits = 4
           /\ Execute(l, b).high = l.high
<1> DEFINE exec == 37
           bits == IF (b \div 16) % 2 = 1 THEN 8 ELSE 4
           two == (b \div 8) % 2 = 1
<1>1. Execute(l, b) = [l EXCEPT !.exec = exec, !.bits = bits, !.two = two]
  BY DEF Execute
<1>2. (b \in 48 .. 63 => bits = 8) /\ (b \notin 48 .. 63 => bits = 4)
  OBVIOUS
<1> HIDE DEF exec, bits, two
<1>3. /\ Execute(l, b).bits = bits /\ Execute(l, b).high = l.high
  BY <1>1, Zenon DEF Controllers
<1> QED BY <1>2, <1>3

LEMMA TwoLinesEffect ==
    ASSUME NEW l \in Controllers
    PROVE  Execute(l, 40).bits = 4 /\ Execute(l, 40).two = TRUE
<1> DEFINE exec == 37
           bits == IF (40 \div 16) % 2 = 1 THEN 8 ELSE 4
           two == (40 \div 8) % 2 = 1
<1>1. Execute(l, 40) = [l EXCEPT !.exec = exec, !.bits = bits, !.two = two]
  BY DEF Execute
<1>2. bits = 4 /\ two = TRUE
  OBVIOUS
<1> HIDE DEF exec, bits, two
<1>3. /\ Execute(l, 40).bits = bits /\ Execute(l, 40).two = two
  BY <1>1, Zenon DEF Controllers
<1> QED BY <1>2, <1>3, Zenon

LEMMA DisplayEffect ==
    ASSUME NEW l \in Controllers, NEW b \in {8, 12}
    PROVE  /\ Execute(l, b).on = (b = 12) /\ Execute(l, b).shown = l.shown
           /\ Execute(l, b).bits = l.bits /\ Execute(l, b).right = l.right
           /\ Execute(l, b).ac = l.ac /\ Execute(l, b).two = l.two
<1> DEFINE exec == 37
           on == (b \div 4) % 2 = 1
<1>1. Execute(l, b) = [l EXCEPT !.exec = exec, !.on = on]
  BY DEF Execute
<1>2. on = (b = 12)
  OBVIOUS
<1> HIDE DEF exec, on
<1>3. /\ Execute(l, b).on = on /\ Execute(l, b).shown = l.shown
      /\ Execute(l, b).bits = l.bits /\ Execute(l, b).right = l.right
      /\ Execute(l, b).ac = l.ac /\ Execute(l, b).two = l.two
  BY <1>1, Zenon DEF Controllers
<1> QED BY <1>2, <1>3, Zenon

LEMMA ClearEffect ==
    ASSUME NEW l \in Controllers
    PROVE  /\ Execute(l, 1).shown = Blank /\ Execute(l, 1).ac = 0 /\ Execute(l, 1).right = TRUE
           /\ Execute(l, 1).bits = l.bits /\ Execute(l, 1).two = l.two
<1> DEFINE exec == 1520
           fast == 37
           home == 0
<1>1. Execute(l, 1) = [[l EXCEPT !.exec = fast] EXCEPT !.ac = home, !.right = TRUE, !.shown = Blank,
                                                   !.exec = exec]
  BY DEF Execute
<1> HIDE DEF exec, fast, home
<1>2. /\ Execute(l, 1).shown = Blank /\ Execute(l, 1).ac = home /\ Execute(l, 1).right = TRUE
      /\ Execute(l, 1).bits = l.bits /\ Execute(l, 1).two = l.two
  BY <1>1, Zenon DEF Controllers
<1> QED BY <1>2 DEF home

LEMMA EntryEffect ==
    ASSUME NEW l \in Controllers
    PROVE  /\ Execute(l, 6).right = TRUE /\ Execute(l, 6).shown = l.shown
           /\ Execute(l, 6).bits = l.bits /\ Execute(l, 6).ac = l.ac
           /\ Execute(l, 6).two = l.two
<1> DEFINE exec == 37
           right == (6 \div 2) % 2 = 1
<1>1. Execute(l, 6) = [l EXCEPT !.exec = exec, !.right = right]
  BY DEF Execute
<1>2. right = TRUE
  OBVIOUS
<1> HIDE DEF exec, right
<1>3. /\ Execute(l, 6).right = right /\ Execute(l, 6).shown = l.shown
      /\ Execute(l, 6).bits = l.bits /\ Execute(l, 6).ac = l.ac
      /\ Execute(l, 6).two = l.two
  BY <1>1, Zenon DEF Controllers
<1> QED BY <1>2, <1>3, Zenon
-----------------------------------------------------------------------------
(* The steps. *)

LEMMA NibblesType ==
    ASSUME TypeOK
    PROVE  Nibbles \in Seq(Pulses) /\ Len(Nibbles) \in Nat
<1>1. job = "init" \/ job = "show"
  BY DEF TypeOK
<1>2. lines \in [Rows -> Seq(32 .. 255)]
  BY DEF TypeOK
<1>3. Nibbles \in Seq(Pulses)
  BY <1>1, <1>2, InitNibbles, ShowNibbles
<1> QED BY <1>3, LenProperties

\* What every nibble does.
LEMMA Pulsed ==
    ASSUME TypeOK, PulseNext
    PROVE  /\ Nibbles' = Nibbles /\ job' = job /\ lines' = lines /\ at' = at + 1
           /\ at \in Nat /\ at + 1 \in 1 .. Len(Nibbles) /\ Nibbles[at + 1] \in Pulses
           /\ lcd' \in Latch(lcd, Nibbles[at + 1].rs, Nibbles[at + 1].nib)
           /\ TypeOK' /\ lcd'.exec \in Slow
           /\ lcd'.exec <= Nibbles[at + 1].wait => NeverOverrun'
<1> DEFINE p == Nibbles[at + 1]
<1>1. /\ job' = job /\ lines' = lines /\ at' = at + 1 /\ at < Len(Nibbles)
      /\ lcd' \in Latch(lcd, p.rs, p.nib)
      /\ busy' = IF lcd'.exec > p.wait THEN lcd'.exec - p.wait ELSE 0
  BY DEF PulseNext
<1>2. Nibbles' = Nibbles
  BY <1>1 DEF Nibbles
<1>3. at \in Nat /\ at + 1 \in 1 .. Len(Nibbles) /\ at + 1 \in 0 .. Len(Nibbles)
  BY <1>1, NibblesType DEF TypeOK
<1>4. p \in Pulses
  BY <1>3, NibblesType, ElementOfSeq
<1>5. p.rs \in BOOLEAN /\ p.nib \in 0 .. 15 /\ p.wait \in Nat
  BY <1>4 DEF Pulses
<1> HIDE DEF p
<1>6. lcd' \in Controllers /\ lcd'.exec \in Slow
  BY <1>1, <1>5, LatchType DEF TypeOK
<1>7. lcd'.exec \in Nat
  BY <1>6, Fields
<1>8. busy' \in Nat
  BY <1>1, <1>5, <1>7
<1>9. TypeOK'
  BY <1>1, <1>2, <1>3, <1>6, <1>8 DEF TypeOK
<1>10. lcd'.exec <= p.wait => busy' = 0
  BY <1>1, <1>5, <1>7
<1> QED BY <1>1, <1>2, <1>3, <1>4, <1>6, <1>9, <1>10 DEF p, NeverOverrun

\* The high nibble of a byte waits in the controller.
LEMMA FirstHalf ==
    ASSUME TypeOK, PulseNext, lcd.bits = 4, lcd.high = None, NEW byte \in Bytes,
           Nibbles[at + 1] = lcd_send(byte.val, byte.rs)[1]
    PROVE  /\ NeverOverrun' /\ lcd'.bits = 4 /\ lcd'.high = Nibbles[at + 1].nib
           /\ lcd'.ac = lcd.ac /\ lcd'.right = lcd.right /\ lcd'.on = lcd.on
           /\ lcd'.two = lcd.two /\ lcd'.shown = lcd.shown
<1> DEFINE p == Nibbles[at + 1]
<1>1. p.wait = 40
  BY DEF lcd_send, Pulse
<1>2. p.rs \in BOOLEAN /\ p.nib \in 0 .. 15 /\ lcd' \in Latch(lcd, p.rs, p.nib)
  BY Pulsed DEF Pulses
<1> HIDE DEF p
<1>3. lcd \in Controllers
  BY DEF TypeOK
<1>4. /\ lcd'.bits = 4 /\ lcd'.high = p.nib /\ lcd'.exec = 0
      /\ lcd'.ac = lcd.ac /\ lcd'.right = lcd.right /\ lcd'.on = lcd.on /\ lcd'.two = lcd.two
      /\ lcd'.shown = lcd.shown
  BY <1>2, <1>3, HighHalf
<1>5. NeverOverrun'
  <2>1. lcd'.exec <= p.wait
    BY <1>1, <1>4
  <2> QED BY <2>1, Pulsed DEF p
<1> QED BY <1>4, <1>5 DEF p

\* The low one completes it, and the controller takes it.
LEMMA SecondHalf ==
    ASSUME TypeOK, PulseNext, lcd.bits = 4, NEW byte \in Bytes,
           Nibbles[at] = lcd_send(byte.val, byte.rs)[1], lcd.high = Nibbles[at].nib,
           Nibbles[at + 1] = lcd_send(byte.val, byte.rs)[2],
           byte.rs \/ byte.val # 3
    PROVE  \E l \in Controllers :
              /\ l.bits = 4 /\ l.ac = lcd.ac /\ l.right = lcd.right /\ l.on = lcd.on
              /\ l.two = lcd.two /\ l.shown = lcd.shown
              /\ lcd' = Take(l, byte.rs, byte.val) /\ lcd'.high = None
              /\ NeverOverrun'
<1> DEFINE p == Nibbles[at + 1]
           l == [lcd EXCEPT !.high = None]
<1>1. byte.val \in 0 .. 255 /\ byte.rs \in BOOLEAN /\ lcd \in Controllers
  BY DEF Bytes, TypeOK
<1>2. /\ lcd.high = byte.val \div 16 /\ p.rs = byte.rs /\ p.nib = byte.val % 16
      /\ p.wait = 40 + (IF byte.val \in {1, 2} THEN 2000 ELSE 50)
  BY DEF lcd_send, Pulse
<1>3. /\ byte.val \div 16 \in 0 .. 15 /\ byte.val % 16 \in 0 .. 15
      /\ 16 * (byte.val \div 16) + (byte.val % 16) = byte.val
  BY <1>1, Halves
<1>4. p.nib \in 0 .. 15 /\ p.rs \in BOOLEAN /\ lcd' \in Latch(lcd, p.rs, p.nib)
  BY Pulsed DEF Pulses
<1>5. lcd.high # None
  BY <1>2, <1>3 DEF None
<1>6. 16 * lcd.high + p.nib = byte.val
  BY <1>2, <1>3
<1> HIDE DEF p
<1>7. lcd' = Take(l, byte.rs, byte.val) /\ l \in Controllers
  <2>1. /\ lcd' = Take([lcd EXCEPT !.high = None], p.rs, 16 * lcd.high + p.nib)
        /\ [lcd EXCEPT !.high = None] \in Controllers
    BY <1>1, <1>4, <1>5, LowHalf, ZenonT(60)
  <2>2. lcd' = Take(l, p.rs, byte.val) /\ l \in Controllers
    BY <1>6, <2>1
  <2> HIDE DEF l
  <2> QED BY <1>2, <2>2, Zenon
<1>8. /\ l.bits = lcd.bits /\ l.ac = lcd.ac /\ l.right = lcd.right /\ l.on = lcd.on
      /\ l.two = lcd.two /\ l.shown = lcd.shown /\ l.high = None
  BY <1>1, Zenon DEF Controllers
<1> HIDE DEF l
<1>9. /\ lcd'.high = l.high /\ lcd'.exec \in Slow
      /\ byte.rs \/ byte.val \notin 1 .. 3 => lcd'.exec \in Fast
  BY <1>1, <1>7, TakeType, ZenonT(60)
<1>10. NeverOverrun'
  <2>1. CASE byte.val \in {1, 2}
    BY <1>2, <1>9, <2>1, Pulsed DEF Slow, Fast, p
  <2>2. CASE byte.val \notin {1, 2}
    <3>1. lcd'.exec \in Fast
      BY <1>1, <1>9, <2>2
    <3> QED BY <1>2, <2>2, <3>1, Pulsed DEF Fast, p
  <2> QED BY <2>1, <2>2
<1> QED BY <1>7, <1>8, <1>9, <1>10
-----------------------------------------------------------------------------
(* The initialization. *)

\* Wherever the reset finds the controller.
LEMMA Start == Init => IInv
<1> SUFFICES ASSUME Init PROVE IInv
  OBVIOUS
<1>1. job = "init" /\ lines = [row \in Rows |-> <<>>] /\ at = 0 /\ busy = 0 /\ lcd \in Anywhere
  BY DEF Init
<1>2. lcd \in Controllers /\ (lcd.bits = 8 => lcd.high = None)
  <2> DEFINE cells == {Blank, Garbage}
             zero == {0}
             places == {0, Outside}
  <2>1. cells \subseteq Cells /\ zero \subseteq Nat /\ places \subseteq Counters
    BY DEF Blank, Garbage, Space, Cells, Counters, Addresses
  <2>2. /\ lcd \in [bits : {4, 8}, high : 0 .. None, ac : places, right : BOOLEAN, exec : zero,
                    on : BOOLEAN, two : BOOLEAN, shown : cells]
        /\ lcd.bits = 8 => lcd.high = None
    BY <1>1 DEF Anywhere
  <2> HIDE DEF cells, zero, places
  <2> QED BY <2>1, <2>2, Zenon DEF Controllers
<1>3. TypeOK
  <2>1. lines \in [Rows -> Seq(32 .. 255)] /\ \A row \in Rows : Len(lines[row]) <= LCD_COLS
    BY <1>1, LcdAssumption
  <2>2. at \in 0 .. Len(Nibbles)
    BY <1>1, InitNibbles
  <2> QED BY <1>1, <1>2, <2>1, <2>2 DEF TypeOK
<1>4. InStep /\ NeverOverrun
  BY <1>1 DEF InStep, NeverOverrun
<1>5. InitInv /\ ShowInv
  BY <1>1, <1>2 DEF InitInv, ShowInv
<1> QED BY <1>3, <1>4, <1>5 DEF IInv

\* Its first four nibbles.
LEMMA Wakes ==
    ASSUME IInv, PulseNext, job = "init", at \in 0 .. 3
    PROVE  IInv'
<1>1. TypeOK /\ InitInv
  BY DEF IInv
<1>2. /\ job' = "init" /\ lines' = lines /\ at' = at + 1 /\ TypeOK' /\ Nibbles' = Nibbles
      /\ lcd \in Controllers /\ lcd' \in Controllers /\ lcd'.exec \in Slow
  BY <1>1, Pulsed DEF TypeOK
<1> DEFINE nib == IF at = 3 THEN 2 ELSE 3
           rs == FALSE
           wait == IF at < 2 THEN 4540 ELSE 190
<1>3. /\ lcd' \in Latch(lcd, rs, nib)
      /\ lcd'.exec <= wait => NeverOverrun'
  <2>1. Nibbles[at + 1] = InitNibble[at + 1]
    BY InitNibbles
  <2>2. /\ InitNibble[at + 1].rs = FALSE /\ InitNibble[at + 1].nib = nib
        /\ InitNibble[at + 1].wait = wait
    <3>1. at = 0 \/ at = 1 \/ at = 2 \/ at = 3
      OBVIOUS
    <3> QED BY <3>1 DEF InitNibble, Pulse
  <2> HIDE DEF nib, wait
  <2> QED BY <1>1, <2>1, <2>2, Pulsed
<1>4. rs \in BOOLEAN /\ ~rs /\ nib \in 0 .. 15
  OBVIOUS
<1> HIDE DEF rs
<1>5. CASE lcd.bits = 8 /\ lcd.high = None
  <2>1. PICK b \in 0 .. 255 : b \in 16 * nib .. 16 * nib + 15 /\ lcd' = Take(lcd, rs, b)
    <3> HIDE DEF nib
    <3> QED BY <1>2, <1>3, <1>4, <1>5, Wide
  <2>2. lcd' = Execute(lcd, b) /\ b \in 32 .. 63 /\ b \notin 1 .. 3
        /\ (b \in 48 .. 63 <=> at # 3)
    BY <1>4, <2>1 DEF Take
  <2>3. lcd'.high = None /\ lcd'.bits = (IF at # 3 THEN 8 ELSE 4)
    <3> HIDE DEF nib
    <3>1. /\ b \in 48 .. 63 => Execute(lcd, b).bits = 8
          /\ b \notin 48 .. 63 => Execute(lcd, b).bits = 4
          /\ Execute(lcd, b).high = lcd.high
      BY <1>2, <2>2, FunctionSetEffect
    <3> QED BY <1>5, <2>2, <3>1
  <2>4. lcd'.exec \in Fast
    BY <1>2, <2>2, ExecuteType
  <2>5. NeverOverrun'
    BY <1>3, <2>4 DEF Fast
  <2>6. InitInv' /\ InStep' /\ ShowInv'
    BY <1>1, <1>2, <1>5, <2>3 DEF InitInv, InStep, ShowInv
  <2> QED BY <1>2, <2>5, <2>6 DEF IInv
<1>6. CASE lcd.bits = 4 /\ lcd.high = None /\ at < 2
  <2>1. lcd'.bits = 4 /\ lcd'.high = 3 /\ lcd'.exec = 0
    <3>1. nib = 3
      BY <1>6
    <3> HIDE DEF nib
    <3> QED BY <1>2, <1>3, <1>4, <1>6, <3>1, HighHalf
  <2>2. NeverOverrun'
    BY <1>3, <2>1
  <2>3. InitInv' /\ InStep' /\ ShowInv'
    BY <1>1, <1>2, <1>6, <2>1 DEF InitInv, InStep, ShowInv
  <2> QED BY <1>2, <2>2, <2>3 DEF IInv
<1>7. CASE lcd.bits = 4 /\ lcd.high # None /\ at < 3
  <2> DEFINE l == [lcd EXCEPT !.high = None]
             b == 16 * lcd.high + nib
  <2>1. lcd' = Take(l, rs, b) /\ b \in 0 .. 255 /\ l \in Controllers
    <3> HIDE DEF nib
    <3>1. /\ lcd \in Controllers /\ lcd.bits = 4 /\ lcd.high # None /\ rs \in BOOLEAN
          /\ nib \in 0 .. 15 /\ lcd' \in Latch(lcd, rs, nib)
      BY <1>2, <1>3, <1>4, <1>7
    <3> QED BY <3>1, LowHalf, ZenonT(60)
  <2>2. l.bits = 4 /\ l.high = None
    BY <1>2, <1>7, Zenon DEF Controllers
  <2>3. lcd.high = 3 => b = 51
    BY <1>7
  <2>4. lcd' = Execute(l, b)
    BY <1>4, <2>1, Zenon DEF Take
  <2>5. at \in {1, 2} => lcd.high = 3
    BY <1>1, <1>7 DEF InitInv
  <2> HIDE DEF l, b
  <2>6. lcd'.high = None
    BY <2>1, <2>2, <2>4, ExecuteType, ZenonT(60)
  <2>7. lcd.high = 3 => lcd'.bits = 8
    <3>1. ASSUME lcd.high = 3 PROVE b \in 32 .. 63 /\ b \in 48 .. 63
      BY <2>3, <3>1
    <3> QED BY <2>1, <2>4, <3>1, FunctionSetEffect
  <2>8. lcd'.bits \in {4, 8}
    BY <1>2, Fields
  <2>9. NeverOverrun'
    <3>1. CASE at < 2
      BY <1>2, <1>3, <3>1 DEF Slow, Fast
    <3>2. CASE at = 2
      <4>1. b = 51
        BY <2>3, <2>5, <3>2
      <4>2. lcd'.exec \in Fast
        BY <2>1, <2>4, <4>1, ExecuteType, SMTT(30)
      <4> QED BY <1>3, <3>2, <4>2 DEF Fast
    <3> QED BY <1>7, <3>1, <3>2
  <2>10. InitInv' /\ InStep' /\ ShowInv'
    BY <1>1, <1>2, <1>7, <2>5, <2>6, <2>7, <2>8 DEF InitInv, InStep, ShowInv
  <2> QED BY <1>2, <2>9, <2>10 DEF IInv
<1>8. lcd.bits \in {4, 8} /\ (lcd.bits = 8 => lcd.high = None)
      /\ (at >= 2 => lcd.high # None \/ lcd.bits = 8) /\ (at = 3 => lcd.bits = 8)
  BY <1>1, <1>2, Fields DEF InitInv, None
<1> QED BY <1>5, <1>6, <1>7, <1>8

\* And its commands, one after the other.
LEMMA Commanded ==
    ASSUME IInv, PulseNext, job = "init", at \in 4 .. 13
    PROVE  IInv'
<1>1. TypeOK /\ InStep /\ InitInv
  BY DEF IInv
<1>2. /\ job' = "init" /\ lines' = lines /\ at' = at + 1 /\ TypeOK' /\ Nibbles' = Nibbles
      /\ lcd \in Controllers
  BY <1>1, Pulsed DEF TypeOK
<1>3. PICK k \in 1 .. 5 : at = 2 * (k + 1) \/ at = 2 * (k + 1) + 1
  <2>1. at \div 2 - 1 \in 1 .. 5
    OBVIOUS
  <2>2. at = 2 * (at \div 2 - 1 + 1) \/ at = 2 * (at \div 2 - 1 + 1) + 1
    OBVIOUS
  <2> QED BY <2>1, <2>2
<1> DEFINE byte == lcd_cmd(InitCommands[k])
<1>4. InitCommands[k] \in {1, 6, 8, 12, 40}
  <2>1. k = 1 \/ k = 2 \/ k = 3 \/ k = 4 \/ k = 5
    OBVIOUS
  <2> QED BY <2>1 DEF InitCommands
<1>5. /\ byte \in Bytes /\ byte.rs = FALSE /\ byte.val = InitCommands[k]
      /\ byte.rs \/ byte.val # 3
  BY <1>4 DEF lcd_cmd, Bytes
<1>6. \A i \in {1, 2} : Nibbles[2 * (k + 1) + i] = lcd_send(byte.val, byte.rs)[i]
  BY <1>5, InitNibbles, Zenon
<1> HIDE DEF byte
<1>7. CASE at = 2 * (k + 1)
  <2>1. lcd.bits = 4 /\ lcd.high = None
    <3>1. at - 4 >= 0 /\ (at - 4) % 2 = 0
      BY <1>7
    <3> QED BY <1>1, <3>1 DEF InStep
  <2>2. Nibbles[at + 1] = lcd_send(byte.val, byte.rs)[1]
    BY <1>6, <1>7
  <2>3. /\ NeverOverrun' /\ lcd'.bits = 4 /\ lcd'.high = Nibbles[at + 1].nib
        /\ lcd'.ac = lcd.ac /\ lcd'.right = lcd.right /\ lcd'.on = lcd.on
        /\ lcd'.two = lcd.two /\ lcd'.shown = lcd.shown
    BY <1>1, <1>5, <2>1, <2>2, FirstHalf
  <2>4. InStep'
    <3>1. (at' - 4) % 2 = 1
      BY <1>2, <1>7
    <3> QED BY <1>2, <2>3, <3>1 DEF InStep
  <2>5. /\ at' # 0 /\ at' # 1 /\ at' # 2 /\ at' # 3 /\ ~(at' >= 14)
        /\ at' >= 6 => at >= 6
        /\ at' >= 10 => at >= 10
    BY <1>2, <1>7
  <2>6. InitInv'
    BY <1>1, <1>2, <2>3, <2>5 DEF InitInv
  <2>7. ShowInv'
    BY <1>2 DEF ShowInv
  <2> QED BY <1>2, <2>3, <2>4, <2>6, <2>7 DEF IInv
<1>8. CASE at = 2 * (k + 1) + 1
  <2>1. lcd.bits = 4 /\ lcd.high = Nibbles[at].nib
    <3>1. at - 4 >= 0 /\ (at - 4) % 2 = 1
      BY <1>8
    <3> QED BY <1>1, <3>1 DEF InStep
  <2>2. Nibbles[at] = lcd_send(byte.val, byte.rs)[1]
    BY <1>6, <1>8
  <2>3. Nibbles[at + 1] = lcd_send(byte.val, byte.rs)[2]
    <3>1. at + 1 = 2 * (k + 1) + 2
      BY <1>8
    <3> QED BY <1>6, <3>1
  <2>4. PICK l \in Controllers :
           /\ l.bits = 4 /\ l.ac = lcd.ac /\ l.right = lcd.right /\ l.on = lcd.on
           /\ l.two = lcd.two /\ l.shown = lcd.shown
           /\ lcd' = Take(l, byte.rs, byte.val) /\ lcd'.high = None
           /\ NeverOverrun'
    BY <1>1, <1>5, <2>1, <2>2, <2>3, SecondHalf
  <2>5. lcd' = Execute(l, InitCommands[k])
    BY <1>5, <2>4, Zenon DEF Take
  <2>6. k = 1 \/ k = 2 \/ k = 3 \/ k = 4 \/ k = 5
    OBVIOUS
  <2>7. /\ at' = 2 * (k + 2) /\ (at' - 4) % 2 = 0 /\ at' >= 6
        /\ at >= 6 <=> k >= 2
        /\ (at >= 10 <=> k >= 4) /\ (at' >= 10 <=> k >= 3) /\ (at' >= 14 <=> k = 5)
    BY <1>2, <1>8
  <2>8. /\ lcd'.bits = 4 /\ lcd'.two
        /\ k >= 3 => lcd'.shown = Blank /\ lcd'.ac = 0 /\ lcd'.right
        /\ k = 5 => lcd'.on
    <3>1. CASE k = 1
      <4>1. lcd' = Execute(l, 40)
        BY <2>5, <3>1 DEF InitCommands
      <4>2. lcd'.bits = 4 /\ lcd'.two
        BY <4>1, TwoLinesEffect, Zenon
      <4> QED BY <3>1, <4>2
    <3>2. CASE k = 2
      <4>1. lcd' = Execute(l, 8) /\ l.two /\ 8 \in {8, 12}
        BY <1>1, <2>4, <2>5, <2>7, <3>2 DEF InitCommands, InitInv
      <4>2. lcd'.bits = l.bits /\ lcd'.two = l.two
        BY <4>1, DisplayEffect, Zenon
      <4>3. lcd'.bits = 4 /\ lcd'.two
        BY <2>4, <4>1, <4>2, Zenon
      <4>4. k # 5 /\ ~(k >= 3)
        BY <3>2
      <4> QED BY <4>3, <4>4, Zenon
    <3>3. CASE k = 3
      <4>1. lcd' = Execute(l, 1) /\ l.two
        BY <1>1, <2>4, <2>5, <2>7, <3>3 DEF InitCommands, InitInv
      <4>2. /\ lcd'.bits = l.bits /\ lcd'.two = l.two /\ lcd'.shown = Blank /\ lcd'.ac = 0
            /\ lcd'.right
        BY <4>1, ClearEffect, Zenon
      <4>3. lcd'.bits = 4 /\ lcd'.two /\ lcd'.shown = Blank /\ lcd'.ac = 0 /\ lcd'.right
        BY <2>4, <4>1, <4>2, Zenon
      <4>4. k # 5
        BY <3>3
      <4> QED BY <4>3, <4>4, Zenon
    <3>4. CASE k = 4
      <4>1. lcd' = Execute(l, 6) /\ l.two /\ l.shown = Blank /\ l.ac = 0
        BY <1>1, <2>4, <2>5, <2>7, <3>4 DEF InitCommands, InitInv
      <4>2. /\ lcd'.bits = l.bits /\ lcd'.two = l.two /\ lcd'.shown = l.shown /\ lcd'.ac = l.ac
            /\ lcd'.right
        BY <4>1, EntryEffect, Zenon
      <4>3. lcd'.bits = 4 /\ lcd'.two /\ lcd'.shown = Blank /\ lcd'.ac = 0 /\ lcd'.right
        BY <2>4, <4>1, <4>2, Zenon
      <4>4. k # 5
        BY <3>4
      <4> QED BY <4>3, <4>4, Zenon
    <3>5. CASE k = 5
      <4>1. /\ lcd' = Execute(l, 12) /\ l.two /\ l.shown = Blank /\ l.ac = 0 /\ l.right
            /\ 12 \in {8, 12}
        BY <1>1, <2>4, <2>5, <2>7, <3>5 DEF InitCommands, InitInv
      <4>2. /\ lcd'.bits = l.bits /\ lcd'.two = l.two /\ lcd'.shown = l.shown /\ lcd'.ac = l.ac
            /\ lcd'.right = l.right /\ lcd'.on
        BY <4>1, DisplayEffect, Zenon
      <4> QED BY <2>4, <3>5, <4>1, <4>2
    <3> QED BY <2>6, <3>1, <3>2, <3>3, <3>4, <3>5
  <2>9. InStep'
    BY <1>2, <2>4, <2>7, <2>8 DEF InStep
  <2>10. InitInv'
    BY <1>1, <1>2, <2>7, <2>8 DEF InitInv
  <2>11. ShowInv'
    BY <1>2 DEF ShowInv
  <2> QED BY <1>2, <2>4, <2>9, <2>10, <2>11 DEF IInv
<1> QED BY <1>3, <1>7, <1>8
-----------------------------------------------------------------------------
(* Showing a snapshot. *)

\* What the k-th byte writes: nothing or one cell.
WithCell(shown, row, col) == [shown EXCEPT ![row][col] = Asked(row, col)]

Written(shown, k) ==
    IF k = 1 \/ k = RowBytes + 1 THEN shown
    ELSE IF k <= RowBytes THEN WithCell(shown, 0, k - 2)
    ELSE WithCell(shown, 1, k - 2 - RowBytes)

LEMMA ByteShown ==
    ASSUME NEW l \in Controllers, l.right, NEW k \in 0 .. 2 * RowBytes - 1,
           k > 0 => l.ac = Cursor(k),
           NEW l2, l2 = Take(l, ShowByte(k + 1).rs, ShowByte(k + 1).val)
    PROVE  /\ l2.bits = l.bits /\ l2.right = l.right /\ l2.on = l.on /\ l2.two = l.two
           /\ l2.ac = Cursor(k + 1) /\ l2.shown = Written(l.shown, k + 1)
<1>1. LCD_COLS \in 1 .. 40 /\ RowBytes = LCD_COLS + 1 /\ RowBytes \in Nat
  BY LcdAssumption DEF RowBytes
<1> DEFINE Kept == l2.bits = l.bits /\ l2.right = l.right /\ l2.on = l.on /\ l2.two = l.two
<1> DEFINE byte == ShowByte(k + 1)
<1> HIDE DEF byte, Kept
<1>2. ASSUME NEW row \in Rows, NEW col \in 0 .. LCD_COLS - 1, l.ac = Address(row, col),
             byte = lcd_data(Asked(row, col))
      PROVE  /\ Kept /\ l2.shown = WithCell(l.shown, row, col)
             /\ l2.ac = Following(row, col)
  <2> DEFINE char == Asked(row, col)
  <2>1. byte.rs /\ byte.val = char
    BY <1>2 DEF lcd_data
  <2> HIDE DEF char
  <2>2. l2 = WriteData(l, char)
    BY <2>1, Zenon DEF Take, byte
  <2>3. /\ WriteData(l, char).shown = [l.shown EXCEPT ![row][col] = char]
        /\ WriteData(l, char).ac = Following(row, col)
        /\ WriteData(l, char).bits = l.bits /\ WriteData(l, char).right = l.right
        /\ WriteData(l, char).on = l.on /\ WriteData(l, char).two = l.two
    <3>1. l.ac = Address(row, col) /\ l.right /\ row \in Rows /\ col \in 0 .. LCD_COLS - 1
      BY <1>2
    <3>2. \A c : /\ WriteData(l, c).shown = [l.shown EXCEPT ![row][col] = c]
                 /\ WriteData(l, c).ac = Following(row, col)
                 /\ WriteData(l, c).bits = l.bits /\ WriteData(l, c).right = l.right
                 /\ WriteData(l, c).on = l.on /\ WriteData(l, c).two = l.two
      BY <3>1, WriteEffect, Zenon
    <3> QED BY <3>2, Zenon
  <2> QED BY <2>2, <2>3, Zenon DEF Kept, char, WithCell
<1>3. ASSUME NEW a \in {0, 64}, byte = lcd_cmd(128 + a)
      PROVE  Kept /\ l2.shown = l.shown /\ l2.ac = a
  <2> DEFINE val == 128 + a
  <2>1. ~byte.rs /\ byte.val = val
    BY <1>3 DEF lcd_cmd
  <2>2. /\ Execute(l, val).ac = a /\ Execute(l, val).shown = l.shown
        /\ Execute(l, val).bits = l.bits /\ Execute(l, val).right = l.right
        /\ Execute(l, val).on = l.on /\ Execute(l, val).two = l.two
    BY AddressEffect, ZenonT(60)
  <2> HIDE DEF val
  <2>3. l2 = Execute(l, val)
    BY <2>1, Zenon DEF Take, byte
  <2> QED BY <2>2, <2>3, Zenon DEF Kept
<1>4. CASE k = 0
  <2>1. byte = lcd_cmd(128 + 0) /\ 0 \in {0, 64}
    BY <1>1, <1>4 DEF ShowByte, RowByte, byte
  <2>2. Kept /\ l2.shown = l.shown /\ l2.ac = 0
    BY <1>3, <2>1, Zenon
  <2>3. Cursor(k + 1) = 0 /\ Written(l.shown, k + 1) = l.shown
    BY <1>1, <1>4 DEF Cursor, Written
  <2> QED BY <2>2, <2>3 DEF Kept
<1>5. CASE k \in 1 .. LCD_COLS
  <2> DEFINE col == k - 1
  <2>1. /\ k + 1 <= RowBytes /\ k + 1 # 1 /\ k + 1 # RowBytes + 1 /\ k + 1 - 2 = col /\ k # 41
        /\ k <= RowBytes /\ k > 0 /\ col \in 0 .. LCD_COLS - 1 /\ (k + 1 = 41 <=> col = 39)
        /\ k + 1 - 1 = 64 * 0 + col + 1 /\ 0 \in Rows
    BY <1>1, <1>5 DEF Rows
  <2>2. l.ac = Address(0, col)
    BY <1>1, <1>5, <2>1 DEF Cursor, Address
  <2>3. Cursor(k + 1) = Following(0, col)
    BY <2>1 DEF Cursor, Following
  <2> HIDE DEF col
  <2>4. byte = lcd_data(Asked(0, col))
    BY <2>1 DEF ShowByte, RowByte, byte
  <2>5. Written(l.shown, k + 1) = WithCell(l.shown, 0, col)
    BY <2>1 DEF Written
  <2>6. /\ Kept /\ l2.shown = WithCell(l.shown, 0, col)
        /\ l2.ac = Following(0, col)
    BY <1>2, <2>1, <2>2, <2>4, Zenon
  <2> QED BY <2>3, <2>5, <2>6 DEF Kept
<1>6. CASE k = RowBytes
  <2>1. /\ ~(k + 1 <= RowBytes) /\ k + 1 - RowBytes = 1 /\ 128 + 64 = 128 + 64 * 1
        /\ 64 \in {0, 64} /\ k + 1 = RowBytes + 1
    BY <1>1, <1>6
  <2>2. byte = lcd_cmd(128 + 64)
    <3>0. ~(k + 1 <= RowBytes)
      BY <2>1
    <3>1. byte = RowByte(1, k + 1 - RowBytes)
      BY <1>1, <3>0 DEF ShowByte, byte
    <3>2. byte = RowByte(1, 1)
      BY <2>1, <3>1
    <3> QED BY <2>1, <3>2 DEF RowByte
  <2>3. Kept /\ l2.shown = l.shown /\ l2.ac = 64
    BY <1>3, <2>1, <2>2
  <2>4. Cursor(k + 1) = 64 /\ Written(l.shown, k + 1) = l.shown
    BY <1>1, <1>6 DEF Cursor, Written
  <2> QED BY <2>3, <2>4 DEF Kept
<1>7. CASE k \in RowBytes + 1 .. 2 * RowBytes - 1
  <2> DEFINE col == k - 1 - RowBytes
  <2>1. /\ ~(k + 1 <= RowBytes) /\ k + 1 # 1 /\ k + 1 # RowBytes + 1
        /\ k + 1 - RowBytes # 1 /\ k + 1 - RowBytes - 2 = col /\ k + 1 - 2 - RowBytes = col
        /\ k - RowBytes # 41 /\ ~(k <= RowBytes) /\ k > 0 /\ col \in 0 .. LCD_COLS - 1
        /\ (k + 1 - RowBytes = 41 <=> col = 39) /\ 63 + (k + 1) - RowBytes = 64 * 1 + col + 1
        /\ 63 + k - RowBytes = 64 * 1 + col /\ 1 \in Rows
    BY <1>1, <1>7 DEF Rows
  <2>2. l.ac = Address(1, col)
    BY <2>1 DEF Cursor, Address
  <2>3. Cursor(k + 1) = Following(1, col)
    BY <1>1, <2>1 DEF Cursor, Following
  <2> HIDE DEF col
  <2>4. byte = lcd_data(Asked(1, col))
    <3>0. ~(k + 1 <= RowBytes)
      BY <2>1
    <3>1. byte = RowByte(1, k + 1 - RowBytes)
      BY <1>1, <3>0 DEF ShowByte, byte
    <3>2. byte = lcd_data(Asked(1, k + 1 - RowBytes - 2))
      <4>1. k + 1 - RowBytes # 1
        BY <2>1
      <4> QED BY <1>1, <3>1, <4>1 DEF RowByte
    <3> QED BY <2>1, <3>2
  <2>5. Written(l.shown, k + 1) = WithCell(l.shown, 1, col)
    <3>1. k + 1 # 1 /\ k + 1 # RowBytes + 1 /\ ~(k + 1 <= RowBytes) /\ k + 1 - 2 - RowBytes = col
      BY <2>1
    <3> QED BY <1>1, <3>1 DEF Written
  <2>6. /\ Kept /\ l2.shown = WithCell(l.shown, 1, col)
        /\ l2.ac = Following(1, col)
    BY <1>2, <2>1, <2>2, <2>4, Zenon
  <2> QED BY <2>3, <2>5, <2>6 DEF Kept
<1>8. k = 0 \/ k \in 1 .. LCD_COLS \/ k = RowBytes \/ k \in RowBytes + 1 .. 2 * RowBytes - 1
  BY <1>1
<1> QED BY <1>4, <1>5, <1>6, <1>7, <1>8

\* The cells before the address stay as they were asked for, one more with
\* every byte, and the other row is left alone.
LEMMA WrittenCells ==
    ASSUME NEW old \in Cells, NEW k \in 0 .. 2 * RowBytes - 1,
           \A col \in 0 .. LCD_COLS - 1 :
              /\ col + 1 < k => old[0][col] = Asked(0, col)
              /\ RowBytes + col + 1 < k => old[1][col] = Asked(1, col)
    PROVE  /\ \A col \in 0 .. LCD_COLS - 1 :
                 /\ col + 1 < k + 1 => Written(old, k + 1)[0][col] = Asked(0, col)
                 /\ RowBytes + col + 1 < k + 1 => Written(old, k + 1)[1][col] = Asked(1, col)
           /\ k < RowBytes => Written(old, k + 1)[1] = old[1]
           /\ k >= RowBytes => Written(old, k + 1)[0] = old[0]
<1>1. LCD_COLS \in 1 .. 40 /\ RowBytes = LCD_COLS + 1 /\ RowBytes \in Nat
  BY LcdAssumption DEF RowBytes
<1>2. /\ old \in [Rows -> [0 .. LCD_COLS - 1 -> 0 .. 255]]
      /\ 0 \in Rows /\ 1 \in Rows
  <2>1. 0 \in Rows /\ 1 \in Rows
    BY DEF Rows
  <2> QED BY <2>1 DEF Cells
<1> DEFINE new == Written(old, k + 1)
<1>3. CASE k = 0 \/ k = RowBytes
  <2>1. new = old
    BY <1>1, <1>3 DEF Written
  <2>2. \A col \in 0 .. LCD_COLS - 1 :
            /\ col + 1 < k + 1 => col + 1 < k
            /\ RowBytes + col + 1 < k + 1 => RowBytes + col + 1 < k
    BY <1>1, <1>3
  <2> HIDE DEF new
  <2>3. \A col \in 0 .. LCD_COLS - 1 :
            /\ col + 1 < k + 1 => new[0][col] = Asked(0, col)
            /\ RowBytes + col + 1 < k + 1 => new[1][col] = Asked(1, col)
    BY <2>1, <2>2, Zenon
  <2> QED BY <2>1, <2>3 DEF new
<1>4. CASE k \in 1 .. LCD_COLS
  <2> DEFINE here == k - 1
  <2>1. /\ k + 1 # 1 /\ k + 1 # RowBytes + 1 /\ k + 1 <= RowBytes /\ k + 1 - 2 = here
        /\ here \in 0 .. LCD_COLS - 1 /\ k < RowBytes /\ ~(k >= RowBytes)
        /\ \A col \in 0 .. LCD_COLS - 1 :
              /\ col + 1 < k + 1 => col = here \/ col + 1 < k
              /\ ~(RowBytes + col + 1 < k + 1)
    BY <1>1, <1>4
  <2> HIDE DEF here
  <2>2. new = WithCell(old, 0, here)
    <3>1. k + 1 # 1 /\ k + 1 # RowBytes + 1 /\ k + 1 <= RowBytes /\ k + 1 - 2 = here
      BY <2>1
    <3> QED BY <1>1, <3>1 DEF Written
  <2> HIDE DEF new
  <2>3. new[1] = old[1] /\ new[0] = [old[0] EXCEPT ![here] = Asked(0, here)]
    BY <1>2, <2>2 DEF WithCell
  <2>4. old[0] \in [0 .. LCD_COLS - 1 -> 0 .. 255]
    BY <1>2
  <2>5. /\ new[0][here] = Asked(0, here)
        /\ \A col \in 0 .. LCD_COLS - 1 : col # here => new[0][col] = old[0][col]
    BY <2>1, <2>3, <2>4
  <2> QED BY <2>1, <2>3, <2>5 DEF new
<1>5. CASE k \in RowBytes + 1 .. 2 * RowBytes - 1
  <2> DEFINE here == k - 1 - RowBytes
  <2>1. /\ k + 1 # 1 /\ k + 1 # RowBytes + 1 /\ ~(k + 1 <= RowBytes)
        /\ k + 1 - 2 - RowBytes = here
        /\ here \in 0 .. LCD_COLS - 1 /\ k >= RowBytes /\ ~(k < RowBytes)
        /\ \A col \in 0 .. LCD_COLS - 1 :
              /\ col + 1 < k
              /\ RowBytes + col + 1 < k + 1 => col = here \/ RowBytes + col + 1 < k
    BY <1>1, <1>5
  <2> HIDE DEF here
  <2>2. new = WithCell(old, 1, here)
    <3>1. /\ k + 1 # 1 /\ k + 1 # RowBytes + 1 /\ ~(k + 1 <= RowBytes)
          /\ k + 1 - 2 - RowBytes = here
      BY <2>1
    <3> QED BY <1>1, <3>1 DEF Written
  <2> HIDE DEF new
  <2>3. new[0] = old[0] /\ new[1] = [old[1] EXCEPT ![here] = Asked(1, here)]
    BY <1>2, <2>2 DEF WithCell
  <2>4. old[1] \in [0 .. LCD_COLS - 1 -> 0 .. 255]
    BY <1>2
  <2>5. /\ new[1][here] = Asked(1, here)
        /\ \A col \in 0 .. LCD_COLS - 1 : col # here => new[1][col] = old[1][col]
    BY <2>1, <2>3, <2>4
  <2> QED BY <2>1, <2>3, <2>5 DEF new
<1>6. k = 0 \/ k \in 1 .. LCD_COLS \/ k = RowBytes \/ k \in RowBytes + 1 .. 2 * RowBytes - 1
  BY <1>1
<1> QED BY <1>3, <1>4, <1>5, <1>6

\* A step of the job settles one more nibble of it.
LEMMA Shown ==
    ASSUME IInv, PulseNext, job = "show"
    PROVE  /\ IInv'
           /\ at < 2 * RowBytes => lcd'.shown[1] = lcd.shown[1]
           /\ at >= 2 * RowBytes => lcd'.shown[0] = lcd.shown[0]
<1>1. LCD_COLS \in 1 .. 40 /\ RowBytes = LCD_COLS + 1 /\ RowBytes \in Nat
  BY LcdAssumption DEF RowBytes
<1>2. TypeOK /\ InStep /\ ShowInv
  BY DEF IInv
<1>3. /\ job' = "show" /\ lines' = lines /\ at' = at + 1 /\ TypeOK' /\ Nibbles' = Nibbles
      /\ at \in Nat /\ at + 1 \in 1 .. Len(Nibbles) /\ lcd \in Controllers
  BY <1>2, Pulsed DEF TypeOK
<1>4. lines \in [Rows -> Seq(32 .. 255)]
  BY <1>2 DEF TypeOK
<1>5. PICK k \in 0 .. 2 * RowBytes - 1 : at = 2 * k \/ at = 2 * k + 1
  <2>1. at + 1 \in 1 .. 4 * RowBytes
    BY <1>3, <1>4, ShowNibbles
  <2>2. at \div 2 \in 0 .. 2 * RowBytes - 1 /\ (at = 2 * (at \div 2) \/ at = 2 * (at \div 2) + 1)
    BY <1>1, <1>3, <2>1
  <2> QED BY <2>2
<1> DEFINE byte == ShowByte(k + 1)
           next == k + 1
<1>6. /\ byte \in Bytes
      /\ Nibbles[2 * k + 1] = lcd_send(byte.val, byte.rs)[1]
      /\ Nibbles[2 * k + 2] = lcd_send(byte.val, byte.rs)[2]
  <2>1. next \in 1 .. 2 * RowBytes /\ 2 * (next - 1) = 2 * k
    BY <1>1
  <2>2. /\ ShowByte(next) \in Bytes
        /\ \A i \in {1, 2} : Nibbles[2 * (next - 1) + i]
                                = lcd_send(ShowByte(next).val, ShowByte(next).rs)[i]
    <3> HIDE DEF next
    <3> QED BY <1>4, <2>1, ShowNibbles
  <2> QED BY <2>1, <2>2
<1>7. byte.rs \/ byte.val # 3
  <2>1. byte.rs \/ byte.val = 128 \/ byte.val = 192
    BY <1>1 DEF ShowByte, RowByte, lcd_data, lcd_cmd
  <2> QED BY <2>1
<1>8. /\ lcd.on /\ lcd.two /\ lcd.right
      /\ k > 0 => lcd.ac = Cursor(k)
      /\ \A col \in 0 .. LCD_COLS - 1 :
            /\ col + 1 < k => lcd.shown[0][col] = Asked(0, col)
            /\ RowBytes + col + 1 < k => lcd.shown[1][col] = Asked(1, col)
  <2>1. k \in 0 .. 2 * RowBytes
    BY <1>1
  <2> QED BY <1>2, <1>5, <2>1, Zenon DEF ShowInv
<1> HIDE DEF byte, next
<1>9. CASE at = 2 * k
  <2>1. lcd.bits = 4 /\ lcd.high = None
    <3>1. at >= 0 /\ at % 2 = 0
      BY <1>9
    <3> QED BY <1>2, <3>1 DEF InStep
  <2>2. Nibbles[at + 1] = lcd_send(byte.val, byte.rs)[1]
    BY <1>6, <1>9
  <2>3. /\ NeverOverrun' /\ lcd'.bits = 4 /\ lcd'.high = Nibbles[at + 1].nib
        /\ lcd'.ac = lcd.ac /\ lcd'.right = lcd.right /\ lcd'.on = lcd.on
        /\ lcd'.two = lcd.two /\ lcd'.shown = lcd.shown
    BY <1>2, <1>6, <2>1, <2>2, FirstHalf
  <2>4. InStep'
    <3>1. at' % 2 = 1
      BY <1>3, <1>9
    <3> QED BY <1>3, <2>3, <3>1 DEF InStep
  <2>5. ShowInv'
    <3>1. lcd'.on /\ lcd'.two /\ lcd'.right
      BY <1>8, <2>3, Zenon
    <3>2. ASSUME NEW j \in 0 .. 2 * RowBytes, at' = 2 * j \/ at' = 2 * j + 1
          PROVE  /\ j > 0 => lcd'.ac = Cursor(j)
                 /\ \A col \in 0 .. LCD_COLS - 1 :
                       /\ col + 1 < j => lcd'.shown[0][col] = Asked(0, col)
                       /\ RowBytes + col + 1 < j => lcd'.shown[1][col] = Asked(1, col)
      <4>1. j = k
        BY <1>1, <1>3, <1>9, <3>2
      <4> QED BY <1>8, <2>3, <4>1
    <3> QED BY <1>3, <3>1, <3>2 DEF ShowInv, Asked
  <2>6. InitInv'
    BY <1>3 DEF InitInv
  <2> QED BY <1>3, <2>3, <2>4, <2>5, <2>6 DEF IInv
<1>10. CASE at = 2 * k + 1
  <2>1. lcd.bits = 4 /\ lcd.high = Nibbles[at].nib
    <3>1. at >= 0 /\ at % 2 = 1
      BY <1>10
    <3> QED BY <1>2, <3>1 DEF InStep
  <2>2. Nibbles[at] = lcd_send(byte.val, byte.rs)[1]
    BY <1>6, <1>10
  <2>3. Nibbles[at + 1] = lcd_send(byte.val, byte.rs)[2]
    <3>1. at + 1 = 2 * k + 2
      BY <1>10
    <3> QED BY <1>6, <3>1
  <2>4. PICK l \in Controllers :
           /\ l.bits = 4 /\ l.ac = lcd.ac /\ l.right = lcd.right /\ l.on = lcd.on
           /\ l.two = lcd.two /\ l.shown = lcd.shown
           /\ lcd' = Take(l, byte.rs, byte.val) /\ lcd'.high = None
           /\ NeverOverrun'
    BY <1>2, <1>6, <1>7, <2>1, <2>2, <2>3, SecondHalf
  <2>5. /\ lcd'.bits = l.bits /\ lcd'.right = l.right /\ lcd'.on = l.on /\ lcd'.two = l.two
        /\ lcd'.ac = Cursor(k + 1) /\ lcd'.shown = Written(l.shown, k + 1)
    <3>1. l.right /\ (k > 0 => l.ac = Cursor(k))
      BY <1>8, <2>4, Zenon
    <3>2. lcd' = Take(l, ShowByte(k + 1).rs, ShowByte(k + 1).val)
      BY <2>4, Zenon DEF byte
    <3> QED BY <3>1, <3>2, ByteShown, ZenonT(60)
  <2>6. lcd'.shown = Written(lcd.shown, k + 1)
    BY <2>4, <2>5, Zenon
  <2>7. /\ \A col \in 0 .. LCD_COLS - 1 :
              /\ col + 1 < k + 1 => lcd'.shown[0][col] = Asked(0, col)
              /\ RowBytes + col + 1 < k + 1 => lcd'.shown[1][col] = Asked(1, col)
        /\ k < RowBytes => lcd'.shown[1] = lcd.shown[1]
        /\ k >= RowBytes => lcd'.shown[0] = lcd.shown[0]
    <3>1. lcd.shown \in Cells
      BY <1>3, Fields
    <3>2. \A col \in 0 .. LCD_COLS - 1 :
             /\ col + 1 < k => lcd.shown[0][col] = Asked(0, col)
             /\ RowBytes + col + 1 < k => lcd.shown[1][col] = Asked(1, col)
      BY <1>8
    <3> DEFINE new == Written(lcd.shown, k + 1)
    <3>3. /\ \A col \in 0 .. LCD_COLS - 1 :
                /\ col + 1 < k + 1 => new[0][col] = Asked(0, col)
                /\ RowBytes + col + 1 < k + 1 => new[1][col] = Asked(1, col)
          /\ k < RowBytes => new[1] = lcd.shown[1]
          /\ k >= RowBytes => new[0] = lcd.shown[0]
      BY <3>1, <3>2, WrittenCells
    <3> HIDE DEF new
    <3>4. lcd'.shown = new
      BY <2>6 DEF new
    <3> QED BY <3>3, <3>4
  <2>8. InStep'
    <3>1. at' % 2 = 0
      BY <1>3, <1>10
    <3> QED BY <1>3, <2>4, <2>5, <3>1 DEF InStep
  <2>9. ShowInv'
    <3>1. lcd'.on /\ lcd'.two /\ lcd'.right
      BY <1>8, <2>4, <2>5, Zenon
    <3>2. ASSUME NEW j \in 0 .. 2 * RowBytes, at' = 2 * j \/ at' = 2 * j + 1
          PROVE  /\ j > 0 => lcd'.ac = Cursor(j)
                 /\ \A col \in 0 .. LCD_COLS - 1 :
                       /\ col + 1 < j => lcd'.shown[0][col] = Asked(0, col)
                       /\ RowBytes + col + 1 < j => lcd'.shown[1][col] = Asked(1, col)
      <4>1. j = k + 1
        BY <1>1, <1>3, <1>10, <3>2
      <4>2. lcd'.ac = Cursor(j)
        BY <2>5, <4>1, Zenon
      <4> QED BY <2>7, <4>1, <4>2, Zenon
    <3> QED BY <1>3, <3>1, <3>2 DEF ShowInv, Asked
  <2>10. InitInv'
    BY <1>3 DEF InitInv
  <2>11. (at < 2 * RowBytes => k < RowBytes) /\ (at >= 2 * RowBytes => k >= RowBytes)
    BY <1>1, <1>10
  <2> QED BY <1>3, <2>4, <2>7, <2>8, <2>9, <2>10, <2>11 DEF IInv
<1> QED BY <1>5, <1>9, <1>10
-----------------------------------------------------------------------------
(* All of them together. *)

\* A job that is done has left the controller ready and showing what was
\* asked for.
LEMMA Done ==
    ASSUME IInv, at = Len(Nibbles)
    PROVE  lcd.bits = 4 /\ lcd.high = None /\ lcd.right /\ AsAsked
<1>1. TypeOK /\ InStep /\ InitInv /\ ShowInv
  BY DEF IInv
<1>2. lines \in [Rows -> Seq(32 .. 255)] /\ (job = "init" \/ job = "show")
  BY <1>1 DEF TypeOK
<1>3. CASE job = "init"
  <2>1. at = 14
    BY <1>3, InitNibbles
  <2>2. /\ lines = [row \in Rows |-> <<>>] /\ lcd.two /\ lcd.on /\ lcd.right
        /\ lcd.shown = Blank
    BY <1>1, <1>3, <2>1 DEF InitInv
  <2>3. lcd.bits = 4 /\ lcd.high = None
    BY <1>1, <1>3, <2>1 DEF InStep
  <2>4. ASSUME NEW row \in Rows, NEW col \in 0 .. LCD_COLS - 1
        PROVE  lcd.shown[row][col] = IF col < Len(lines[row]) THEN lines[row][col + 1] ELSE Space
    <3>1. lcd.shown[row][col] = Space
      BY <2>2 DEF Blank
    <3>2. ~(col < Len(lines[row]))
      BY <2>2, LcdAssumption
    <3> QED BY <3>1, <3>2
  <2> QED BY <2>2, <2>3, <2>4 DEF AsAsked
<1>4. CASE job = "show"
  <2>1. at = 4 * RowBytes /\ LCD_COLS \in 1 .. 40 /\ RowBytes = LCD_COLS + 1 /\ RowBytes \in Nat
    BY <1>2, <1>4, LcdAssumption, ShowNibbles DEF RowBytes
  <2>2. lcd.two /\ lcd.on /\ lcd.right
    BY <1>1, <1>4 DEF ShowInv
  <2>3. lcd.bits = 4 /\ lcd.high = None
    <3>1. at >= 0 /\ at % 2 = 0
      BY <2>1
    <3> QED BY <1>1, <1>4, <3>1 DEF InStep
  <2> DEFINE all == 2 * RowBytes
  <2>4. all \in 0 .. 2 * RowBytes /\ at = 2 * all
    BY <2>1
  <2>5. \A col \in 0 .. LCD_COLS - 1 : col + 1 < all /\ RowBytes + col + 1 < all
    BY <2>1
  <2> HIDE DEF all
  <2>6. \A col \in 0 .. LCD_COLS - 1 :
           /\ col + 1 < all => lcd.shown[0][col] = Asked(0, col)
           /\ RowBytes + col + 1 < all => lcd.shown[1][col] = Asked(1, col)
    BY <1>1, <1>4, <2>4, Zenon DEF ShowInv
  <2>7. ASSUME NEW row \in Rows, NEW col \in 0 .. LCD_COLS - 1
        PROVE  lcd.shown[row][col] = Asked(row, col)
    <3>1. row = 0 \/ row = 1
      BY DEF Rows
    <3> QED BY <2>5, <2>6, <3>1
  <2> QED BY <2>2, <2>3, <2>7 DEF AsAsked, Asked
<1> QED BY <1>2, <1>3, <1>4

\* The buffer of a row holds no more than fits.
LEMMA Buffers ==
    ASSUME NEW text \in Seq(32 .. 255)
    PROVE  Buffer(text) \in Seq(32 .. 255) /\ Len(Buffer(text)) <= LCD_COLS
<1> DEFINE n == IF Len(text) < LCD_COLS THEN Len(text) ELSE LCD_COLS
<1>1. n \in 0 .. Len(text) /\ n \in Int /\ n <= LCD_COLS
  BY LcdAssumption
<1> HIDE DEF n
<1>2. SubSeq(text, 1, n) \in Seq(32 .. 255) /\ Len(SubSeq(text, 1, n)) = n
  <2>1. \A i \in 1 .. n : text[i] \in 32 .. 255
    <3>1. \A i \in 1 .. n : i \in 1 .. Len(text)
      BY <1>1
    <3> QED BY <3>1, ElementOfSeq
  <2>2. /\ SubSeq(text, 1, n) \in Seq(32 .. 255)
        /\ Len(SubSeq(text, 1, n)) = IF 1 <= n THEN n - 1 + 1 ELSE 0
    BY <1>1, <2>1, SubSeqProperties
  <2> QED BY <1>1, <2>2
<1> QED BY <1>1, <1>2 DEF Buffer, n

LEMMA ShowLength ==
    lines \in [Rows -> Seq(32 .. 255)] /\ job = "show" =>
        Len(Nibbles) = 4 * RowBytes /\ RowBytes \in Nat
BY ShowNibbles, LcdAssumption DEF RowBytes

LEMMA Asking ==
    ASSUME IInv, ShowState
    PROVE  IInv'
<1>1. PICK text \in [Rows -> Texts] : lines' = [row \in Rows |-> Buffer(text[row])]
  BY DEF ShowState
<1>2. /\ job' = "show" /\ at' = 0 /\ lcd' = lcd /\ busy' = busy /\ at = Len(Nibbles)
  BY DEF ShowState
<1>3. TypeOK /\ NeverOverrun
  BY DEF IInv
<1>4. lcd.bits = 4 /\ lcd.high = None /\ lcd.right /\ lcd.on /\ lcd.two
  BY <1>2, Done DEF AsAsked
<1>5. /\ lines' \in [Rows -> Seq(32 .. 255)]
      /\ \A row \in Rows : Len(lines'[row]) <= LCD_COLS
  BY <1>1, Buffers, LcdAssumption
<1>6. at' \in 0 .. Len(Nibbles')
  <2>1. (lines \in [Rows -> Seq(32 .. 255)] /\ job = "show" =>
            Len(Nibbles) = 4 * RowBytes /\ RowBytes \in Nat)'
    BY ShowLength, PTL
  <2>2. Len(Nibbles') = 4 * RowBytes /\ RowBytes \in Nat
    BY <1>2, <1>5, <2>1
  <2> QED BY <1>2, <2>2
<1>7. TypeOK'
  BY <1>2, <1>3, <1>5, <1>6 DEF TypeOK
<1>8. InStep' /\ NeverOverrun' /\ InitInv'
  BY <1>2, <1>3, <1>4 DEF InStep, NeverOverrun, InitInv
<1>9. ShowInv'
  <2>1. lcd'.on /\ lcd'.two /\ lcd'.right
    BY <1>2, <1>4
  <2>2. ASSUME NEW k \in 0 .. 2 * RowBytes, at' = 2 * k \/ at' = 2 * k + 1
        PROVE  ~(k > 0) /\ \A col \in 0 .. LCD_COLS - 1 : ~(col + 1 < k) /\ ~(RowBytes + col + 1 < k)
    <3>1. RowBytes \in Nat /\ LCD_COLS \in Nat
      BY LcdAssumption DEF RowBytes
    <3>2. k = 0
      BY <1>2, <2>2, <3>1
    <3> QED BY <3>1, <3>2
  <2> QED BY <2>1, <2>2 DEF ShowInv
<1> QED BY <1>7, <1>8, <1>9 DEF IInv

\* A reset starts over.
LEMMA Restarted ==
    ASSUME Reset
    PROVE  IInv'
<1>1. Init'
  BY DEF Reset, Init, Anywhere, Blank, Garbage
<1>2. (Init => IInv)'
  BY Start, PTL
<1> QED BY <1>1, <1>2

LEMMA Inductive == IInv /\ [Next]_vars => IInv'
<1> SUFFICES ASSUME IInv, [Next]_vars PROVE IInv'
  OBVIOUS
<1>1. CASE PulseNext
  <2>1. job = "init" \/ job = "show"
    BY DEF IInv, TypeOK
  <2>2. CASE job = "init"
    <3>1. at \in 0 .. 3 \/ at \in 4 .. 13
      <4>1. at < 14 /\ TypeOK
        BY <1>1, <2>2, InitNibbles DEF PulseNext, IInv
      <4>2. at \in Nat
        BY <4>1, NibblesType DEF TypeOK
      <4> QED BY <4>1, <4>2
    <3> QED BY <1>1, <2>2, <3>1, Wakes, Commanded
  <2>3. CASE job = "show"
    BY <1>1, <2>3, Shown
  <2> QED BY <2>1, <2>2, <2>3
<1>2. CASE ShowState
  BY <1>2, Asking
<1>3. CASE Reset
  BY <1>3, Restarted
<1>4. CASE UNCHANGED vars
  <2>1. job' = job /\ lines' = lines /\ at' = at /\ lcd' = lcd /\ busy' = busy
    BY <1>4 DEF vars
  <2>2. Nibbles' = Nibbles
    BY <2>1 DEF Nibbles
  <2>3. TypeOK' /\ InStep' /\ NeverOverrun'
    BY <2>1, <2>2 DEF IInv, TypeOK, InStep, NeverOverrun
  <2>4. InitInv'
    BY <2>1 DEF IInv, InitInv
  <2>5. ShowInv'
    BY <2>1, Zenon DEF IInv, ShowInv, Asked
  <2> QED BY <2>3, <2>4, <2>5 DEF IInv
<1> QED BY <1>1, <1>2, <1>3, <1>4 DEF Next

LEMMA Invariance == Spec => []IInv
BY Start, Inductive, PTL DEF Spec

\* Every variable has its type: no address, nibble or line leaves its range.
\* (drv_display.c:157-243)
THEOREM TypeCorrect == Spec => []TypeOK
<1>1. IInv => TypeOK
  BY DEF IInv
<1> QED BY <1>1, Invariance, PTL

\* Whatever state a reset of the processor finds the controller in, driver and
\* controller agree from the fifth nibble of the initialization on where a
\* byte begins. (lcd_init_sequence, drv_display.c:84-114)
THEOREM StaysInStep == Spec => []InStep
<1>1. IInv => InStep
  BY DEF IInv
<1> QED BY <1>1, Invariance, PTL

\* The fixed delays outlast every instruction of the controller.
\* (lcd_pulse and lcd_send, drv_display.c:44-77)
THEOREM DelaysSuffice == Spec => []NeverOverrun
<1>1. IInv => NeverOverrun
  BY DEF IInv
<1> QED BY <1>1, Invariance, PTL

\* When a snapshot is out every cell of both rows reads as it was asked to.
\* (drv_display_write_line and drv_display_show_state)
THEOREM ReadsAsAsked == Spec => []AsAsked
<1>1. IInv => AsAsked
  BY Done DEF AsAsked
<1> QED BY <1>1, Invariance, PTL

\* No nibble of a row's bytes changes a cell of the other row, the one behind
\* the last column of it included. (lcd_set_cursor, drv_display.c:118-126)
THEOREM RowsApart == Spec => OtherRowKept
<1> DEFINE half == Len(Nibbles) \div 2
           other == IF at < half THEN 1 ELSE 0
           Kept == job = "show" /\ at < Len(Nibbles) /\ job' = "show" =>
                      lcd'.shown[other] = lcd.shown[other]
<1>1. IInv /\ [Next]_vars => [Kept]_vars
  <2> SUFFICES ASSUME IInv, Next, job = "show", at < Len(Nibbles), job' = "show"
               PROVE  lcd'.shown[other] = lcd.shown[other]
    BY DEF Next
  <2>1. TypeOK
    BY DEF IInv
  <2>2. lines \in [Rows -> Seq(32 .. 255)] /\ at \in Nat
    BY <2>1, NibblesType DEF TypeOK
  <2>3. Len(Nibbles) = 4 * RowBytes /\ RowBytes \in Nat
    BY <2>2, ShowLength
  <2>4. half = 2 * RowBytes
    BY <2>3
  <2>5. CASE PulseNext
    <3>1. /\ at < 2 * RowBytes => lcd'.shown[1] = lcd.shown[1]
          /\ at >= 2 * RowBytes => lcd'.shown[0] = lcd.shown[0]
      BY <2>5, Shown
    <3> QED BY <2>2, <2>3, <2>4, <3>1
  <2>6. ~ShowState /\ ~Reset
    BY <2>2, <2>3 DEF ShowState, Reset
  <2> QED BY <2>5, <2>6 DEF Next
<1>2. Spec => [][Kept]_vars
  BY <1>1, Invariance, PTL DEF Spec
<1> QED BY <1>2 DEF OtherRowKept
=============================================================================
