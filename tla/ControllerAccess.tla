-------------------------- MODULE ControllerAccess --------------------------
(***************************************************************************)
(* Discovery beside the daemon that does it: its names are its own here,   *)
(* so that DaemonProofs can have it next to Daemon.                        *)
(***************************************************************************)
EXTENDS FiniteSets

CONSTANTS Bluetooth, Cable, Others, Inputs, Held
VARIABLES early, node, inputs, stage, path, fd, todo, grabbed

Access == INSTANCE Discovery

ASSUME AccessAssumption ==
    Access!DiscoveryAssumption /\ IsFiniteSet(Access!Devices)

AccessSpec == Access!FairSpec
-----------------------------------------------------------------------------
\* No input device of the controller that is open reaches the system
\* (src/src/bt.cpp:102), see Discovery.
NoDoubleInput == Access!NoDoubleInput

\* A DualSense that stays is opened (src/src/main.cpp:284), see Discovery.
Served == Access!Served
=============================================================================
