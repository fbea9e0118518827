------------------------ MODULE MC_SyntheticOperation ------------------------
(***************************************************************************)
(* SyntheticOperation on a keyboard of two modifiers and one letter.  The  *)
(* correction erases with an unshifted stroke, switches the layout with a  *)
(* combination of both modifiers and types a shifted stroke.               *)
(***************************************************************************)
EXTENDS SyntheticOperation

CONSTANTS shift, ctrl, letter

MCOrder == [m \in Modifiers |-> IF m = shift THEN 1 ELSE 2]
MCCorrections == {<< <<letter>>, <<ctrl, shift>>, <<shift, letter>> >>,
                  << <<shift, letter>> >>}
MCShortcuts == {<< <<ctrl, letter>> >>}
MCSeparators == {<< <<letter>> >>}
=============================================================================
