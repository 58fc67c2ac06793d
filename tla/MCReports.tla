------------------------------ MODULE MCReports ------------------------------
(***************************************************************************)
(* The instance of ReportContents that TLC checks.  Each behaviour is one  *)
(* of a single one of the three, the others stay where they are.           *)
(*                                                                         *)
(* Translation: lengths on both sides of each limit of the code, 64 bytes  *)
(* from the controller, 48 and 64 from the host.  Checksum: each single    *)
(* bit and some bytes with several, reports of up to three bytes.  Driver: *)
(* a timestamp that wraps after eight ticks, shorts of three bits, and     *)
(* either one report, for any calibration, or more with one calibration.   *)
(***************************************************************************)
EXTENDS ReportContents, Sequences

MCIds        == {1, 2, 49}
MCOutLengths == {1, 2, 47, 48, 49, 63, 64, 65, 256}
MCInLengths  == {1, 10, 63, 64, 65, 78}

MCBytes == {{b} : b \in 0 .. 7} \cup {{}, 0 .. 7, {0, 4, 5}, {1, 7}, {2, 3, 6}}

Plain == [id |-> "full", sound |-> TRUE, hat |-> 8, gyro |-> 3, accel |-> 0,
          touches |-> <<{}>>, click |-> FALSE, level |-> 5, charging |-> 0]

OneCalibration ==
    [plus |-> 2, minus |-> -2, bias |-> 0, speed_plus |-> 1, speed_minus |-> 1,
     acc_plus |-> 2, acc_minus |-> -2]

Readings == {-4, -1, 0, 3}

\* Some divide by zero, and ranges of either sign.
MCCalibrations ==
    {OneCalibration} \cup
    {[OneCalibration EXCEPT !.plus = 0, !.minus = 0,
                            !.acc_plus = a, !.acc_minus = b] :
         a, b \in Readings}

\* Reports of every fate, readings and contents of every kind.
MCFates ==
    {[Plain EXCEPT !.id = "minimal"], [Plain EXCEPT !.id = "other"],
     [Plain EXCEPT !.sound = FALSE],
     [Plain EXCEPT !.touches = <<{1}, {1}, {}>>],
     [Plain EXCEPT !.touches = <<>>, !.click = TRUE]}

MCReadings ==
    {[Plain EXCEPT !.accel = a, !.hat = 9, !.charging = a + 4] : a \in Readings}

AllReports ==
    MCFates \cup MCReadings \cup {[Plain EXCEPT !.charging = c] : c \in {1, 2, 10}}

VARIABLE machine  \* which of them this behaviour is about

checksum == <<kind, data, crc>>
driver ==
    <<pad, bus, facts, mode, gyro, accel, clock, prev_sensor_timestamp,
      sensor_timestamp_initialized, sensor_timestamp_us, battery, hat, motion,
      touch, button, last, since, heard, full, asleep, sent>>

ReportsInit ==
    /\ Init /\ CS!Init /\ DI!Init
    /\ machine \in {"translation", "checksum", "driver"}
    /\ machine # "checksum" => kind = "output"
    /\ machine # "driver" =>
         facts = OneCalibration /\ clock = 0 /\ pad = "DualSense" /\ bus = "usb"
    /\ facts # OneCalibration => clock = 0

Translate ==
    /\ machine = "translation" /\ Next
    /\ UNCHANGED <<machine, checksum, driver>>

Sum ==
    /\ machine = "checksum" /\ CS!Next
    /\ UNCHANGED <<machine, vars, driver>>

Drive ==
    /\ machine = "driver" /\ DI!Next
    /\ facts # OneCalibration => sent = 0
    /\ UNCHANGED <<machine, vars, checksum>>

ReportsNext == Translate \/ Sum \/ Drive

ReportsSpec ==
    ReportsInit /\ [][ReportsNext]_<<machine, vars, checksum, driver>>
=============================================================================
