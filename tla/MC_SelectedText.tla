---------------------------- MODULE MC_SelectedText ----------------------------
(***************************************************************************)
(* One selected text or none, and applications that copy the text the job  *)
(* would write itself; every typed word up to four characters.            *)
(***************************************************************************)
EXTENDS SelectedText, WordCorrection

MCCharacters == Chars \cup {"original", "not a text", "sentinel1", "sentinel2"}
MCSelections == {<<"a">>, << >>}
MCForeign == {<<"ru_f">>}
MCSentinels == <<<<"sentinel1">>, <<"sentinel2">>>>

\* The facts about words do not depend on the state: they are checked at the start.
AtStart == jobs + copies + faults = 0

\* A correction deletes the typed word and types it again: the screen then has
\* what the user would have typed in the target layout, or the word with one
\* capital where a case fix is on, and the punctuation after it.  Whether the
\* word is moved to the other layout depends on its keys alone, not on capitals,
\* Caps Lock or the punctuation after it (switch_logic.rs, should_switch and
\* replay_shift_for_stroke).
WordsAreCorrectedAsTyped == AtStart => EveryPlanRetypes /\ DecisionsSeeWordsOnly
================================================================================
