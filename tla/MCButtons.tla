----------------------------- MODULE MCButtons -----------------------------
(***************************************************************************)
(* Buttons for TLC: the buttons are model values that play the same role.  *)
(***************************************************************************)
EXTENDS Buttons, TLC

CONSTANTS up, down

MCButtons == {up, down}

Symmetry == Permutations(MCButtons)
=============================================================================
