---------------------------- MODULE MCInputQueue ----------------------------
(***************************************************************************)
(* The instance of InputQueue that TLC checks.  The queue has the size it  *)
(* has in the code; MaxReports lets the producer lap it.                   *)
(***************************************************************************)
EXTENDS InputQueue

MCQueueSize  == 4
MCMaxReports == 7
MCIntMax     == 31
=============================================================================
