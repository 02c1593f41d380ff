----------------------------- MODULE MCRepairScan -----------------------------
(***************************************************************************)
(* Transcripts of up to six messages over two calls.                       *)
(***************************************************************************)
EXTENDS RepairScan

Places == 1..6
=============================================================================
