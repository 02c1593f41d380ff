---------------------------- MODULE MCTaskTriggers ----------------------------
(***************************************************************************)
(* The instance TaskTriggers is checked on: a task with one step.          *)
(***************************************************************************)
EXTENDS TaskTriggers

OneStep == {"work"}

Outcomes == {"approved", "rejected", "ok"}

NoLoop  == [s \in Step |-> 0]
NoUntil == [s \in Step |-> {}]
=============================================================================
