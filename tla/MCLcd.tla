------------------------------- MODULE MCLcd -------------------------------
(***************************************************************************)
(* Lcd for TLC: a text shorter than a row, one that fills it, one longer.  *)
(***************************************************************************)
EXTENDS Lcd

MCTexts == {[i \in 1 .. LCD_COLS - 1 |-> 47 + i], [i \in 1 .. LCD_COLS + 1 |-> 64 + i]}
=============================================================================
