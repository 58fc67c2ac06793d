---------------------------- MODULE MCDiscovery ----------------------------
(***************************************************************************)
(* Instances of Discovery.                                                 *)
(***************************************************************************)
EXTENDS ControllerAccess

CONSTANTS pad, pad2, cable, mouse

Pads    == {pad, pad2}
OnCable == {cable}
Mouse   == {mouse}
Second  == {<<pad, 2>>}
=============================================================================
