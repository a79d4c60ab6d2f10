---------------------------- MODULE MCDayScreens ----------------------------
(* The screens of a user with two windows: two apps of one category. *)
EXTENDS DayScreens

CONSTANTS viewer, text, level, editor, game, fun

OneUser    == {viewer}
TwoWindows == {text, level}
RowsOfTwo  == [w \in TwoWindows |-> {w, fun, IF w = text THEN editor ELSE game}]
=============================================================================
