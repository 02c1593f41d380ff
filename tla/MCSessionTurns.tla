---------------------------- MODULE MCSessionTurns ----------------------------
(***************************************************************************)
(* Two messages to one session, whose turns may overlap.                   *)
(***************************************************************************)
EXTENDS SessionTurns, TLC

Calling == Run \X (0..(MaxRounds - 1)) \X (1..MaxCalls)

Messages == Permutations(Run)

(* No step reads the log, and no property once it is muddled.              *)
Seen == <<net, row, turn, inflight, stopped, said, muddled, faults,
          IF muddled THEN <<>> ELSE log>>
=============================================================================
