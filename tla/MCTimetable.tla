----------------------------- MODULE MCTimetable -----------------------------
(***************************************************************************)
(* The instances Timetable is checked on.                                  *)
(***************************************************************************)
EXTENDS Timetable

Caps == [s \in Schedule |-> 2]
=============================================================================
