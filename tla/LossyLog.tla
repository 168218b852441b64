------------------------------ MODULE LossyLog ------------------------------
(***************************************************************************)
(* What the log promises to those who post and to who reads the console,   *)
(* without a queue, a task that prints, or a record in its hands: a post   *)
(* never waits; it is kept, or lost when Capacity records are kept and not *)
(* shown; what is kept is shown in the order it was kept in, one record at *)
(* a time, while the program runs.                                         *)
(***************************************************************************)
EXTENDS Integers, Sequences

CONSTANTS Posters, Capacity

VARIABLES
    posted,     \* how many records each poster has posted
    kept,       \* the records that were kept, in order
    shown,      \* the records on the console
    stopped     \* has the program been aborted?

lvars == <<posted, kept, shown, stopped>>

LInit ==
    /\ posted = [p \in Posters |-> 0]
    /\ kept = <<>>
    /\ shown = <<>>
    /\ stopped = FALSE

NextOf(p) == [task |-> p, n |-> posted[p] + 1]

\* A poster may be the one that aborts the program with its last post.
Keep(p) ==
    /\ kept' = Append(kept, NextOf(p))
    /\ posted' = [posted EXCEPT ![p] = @ + 1]
    /\ stopped' \in BOOLEAN
    /\ UNCHANGED shown

Lose(p) ==
    /\ Len(kept) >= Len(shown) + Capacity
    /\ posted' = [posted EXCEPT ![p] = @ + 1]
    /\ stopped' \in BOOLEAN
    /\ UNCHANGED <<kept, shown>>

\* A poster may print its record itself when none is waiting.
KeepAndShow(p) ==
    /\ kept = shown
    /\ kept' = Append(kept, NextOf(p))
    /\ shown' = Append(shown, NextOf(p))
    /\ posted' = [posted EXCEPT ![p] = @ + 1]
    /\ stopped' \in BOOLEAN

Show ==
    /\ Len(shown) < Len(kept)
    /\ shown' = Append(shown, kept[Len(shown) + 1])
    /\ UNCHANGED <<posted, kept, stopped>>

Stop ==
    /\ stopped' = TRUE
    /\ UNCHANGED <<posted, kept, shown>>

LNext ==
    /\ ~stopped
    /\ \/ \E p \in Posters : Keep(p) \/ Lose(p) \/ KeepAndShow(p)
       \/ Show \/ Stop

LSpec == LInit /\ [][LNext]_lvars
=============================================================================
