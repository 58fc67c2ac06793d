---------------------------- MODULE MCDualshock4 ----------------------------
(***************************************************************************)
(* The instance of PadOutput that TLC checks: a pad on Bluetooth that      *)
(* everyone uses, or that plays an effect before its probe is over; and    *)
(* the dongle with two pads, one of them faulty.                           *)
(***************************************************************************)
EXTENDS PadOutput

Config(bus, users, isEarly, isDongle, coupled) ==
    [bus |-> bus, users |-> users, early |-> isEarly, dongle |-> isDongle,
     coupled |-> coupled]

MCConfigs ==
    {Config("bt", {"play", "color", "global", "blinker"}, FALSE, FALSE, TRUE),
     Config("bt", {"play"}, TRUE, FALSE, TRUE),
     Config("usb", {"play"}, FALSE, TRUE, FALSE)}
MCFaulty == {1}
=============================================================================
