---------------------------- MODULE MCDriverProbe ----------------------------
(***************************************************************************)
(* The instance of DriverProbe that TLC checks: a controller connected     *)
(* over Bluetooth, through the gadget and by cable; or the gadget and      *)
(* another controller, a DualShock 4.                                      *)
(***************************************************************************)
EXTENDS DriverProbe

CONSTANTS dsOverBt, gadget, dsByCable, ds4, ourDualSense, aDualShock

MCGadgets == {gadget}
MCKind == [d \in Devices |-> IF d = ds4 THEN "dualshock4" ELSE "dualsense"]
MCController == [d \in Devices |-> IF d = ds4 THEN aDualShock ELSE ourDualSense]

\* The DualShock 4 is there with the gadget only, and registrations fail late
\* for these two only.
FewAtOnce ==
    LET there == {d \in Devices : stage[d] # "absent"}
    IN  ds4 \in there \/ lateFailures => there \subseteq {ds4, gadget}
=============================================================================
