--------------------------- MODULE MCDriverOutput ---------------------------
(***************************************************************************)
(* Instances of DriverOutput: a controller on Bluetooth, one on the cable  *)
(* that detects headphones, and one behind the gadget.                     *)
(***************************************************************************)
EXTENDS DriverOutput

Config(bus, gadget, jackBits, early, most) ==
    [bus |-> bus, gadget |-> gadget, jack |-> jackBits, early |-> early,
     most |-> most]

\* The lights are set once when the probe ends, so twice is once again.
Most(rumbles, bars, leds, mics) ==
    [rumble |-> rumbles, lightbar |-> bars, leds |-> leds, mic |-> mics]

MCConfigs ==
    {Config("bt", FALSE, {}, FALSE, most) : most \in
         {Most(2, 2, 1, 1), Most(1, 2, 2, 0), Most(2, 1, 1, 2)}}
    \cup {Config("bt", FALSE, {}, TRUE, Most(1, 1, 1, 1)),
          Config("usb", FALSE, {"hp"}, TRUE, Most(1, 1, 1, 1))}
MCBehindGadget == {Config("usb", TRUE, {}, FALSE, Most(1, 1, 1, 1))}
=============================================================================
