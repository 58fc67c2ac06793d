--------------------------- MODULE MCGadgetScripts ---------------------------
(***************************************************************************)
(* GadgetScripts for TLC: one user, and nothing else is bounded, for the   *)
(* steps of the scripts and one daemon have finitely many states.          *)
(***************************************************************************)
EXTENDS GadgetState

MCUsers == {"user"}
=============================================================================
