------------------------------ MODULE PadOutput ------------------------------
(***************************************************************************)
(* Dualshock4 beside the probes of the driver: its names are its own here, *)
(* so that DriverProbeProofs can have it next to DriverProbe.              *)
(***************************************************************************)
CONSTANTS Configs, Faulty, MaxPads, MaxRequests
VARIABLES config, mode, defaults, wanted, update, callers, pending, pad_worker,
          report, shown, dongle_state, event, hotplug, retries, calib, pads,
          link, parsed, slipped, swapped

D4 == INSTANCE Dualshock4 WITH worker <- pad_worker

ASSUME PadAssumption == D4!Dualshock4Assumption

PadSpec == D4!FairSpec
-----------------------------------------------------------------------------
\* When nothing is on its way a DualShock 4 has the newest of what it was set
\* to (src/hid-playstation.c:2287), see Dualshock4.
LatestShown == D4!LatestShown

\* A report is parsed with the calibration data of its pad
\* (src/hid-playstation.c:2593), see Dualshock4.
ForwardedCalibrated == D4!ForwardedCalibrated

\* A pad that stays is served (src/hid-playstation.c:1892), see Dualshock4.
PadServed == D4!PadServed
=============================================================================
