-------------------------- MODULE MC_CorrectionRun --------------------------
(* A short word and the longest one, unshifted and shifted; the default      *)
(* delays, the slowest that are accepted and slower ones; calls that take    *)
(* just the grace, or what the check of the switch leaves of it.             *)
EXTENDS CorrectionRun

Plan(strokes, shifted, extra) == [strokes |-> strokes, shifted |-> shifted, extra |-> extra]
Delay(layout, backspace, typing) ==
    [layout |-> layout, backspace |-> backspace, typing |-> typing]

MCPlans == {Plan(2, 1, 0), Plan(128, 128, 1), Plan(129, 0, 0)}
MCDelays == {Delay(30, 0, 0), Delay(384, 10, 10), Delay(385, 10, 10), Delay(500, 11, 0)}
=============================================================================
