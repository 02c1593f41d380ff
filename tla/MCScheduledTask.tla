--------------------------- MODULE MCScheduledTask ---------------------------
(***************************************************************************)
(* The instance ScheduledTask is checked on: a task without steps.         *)
(***************************************************************************)
EXTENDS ScheduledTask

NoStep == {}

Outcomes == {"approved", "rejected", "ok"}

NoLoop  == [step \in Step |-> 0]
NoUntil == [step \in Step |-> {}]

Caps == [schedule \in Schedule |-> 2]
=============================================================================
