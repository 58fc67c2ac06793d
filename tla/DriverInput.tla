---------------------------- MODULE DriverInput ----------------------------
(***************************************************************************)
(* What the host's driver makes of the input reports of a controller       *)
(* (src/hid-playstation.c): the calibration data read by the probe,        *)
(* dualsense_parse_report and dualshock4_parse_report, and what a program  *)
(* that reads the input devices and the battery is told.                   *)
(*                                                                         *)
(* The microphone button and the headphone jack are in DriverOutput, the   *)
(* dongle in Dualshock4.  One axis stands for the three of each sensor,    *)
(* the hat for all that the gamepad device reports.  The controller's      *)
(* clock counts on; a report carries what fits its timestamp.  A contact   *)
(* of the touchpad is its slot, without the position.                      *)
(***************************************************************************)
EXTENDS Integers, Sequences, SequencesExt

CONSTANTS
    Calibrations,  \* what a calibration report may say
    Reports,       \* the input reports a controller may send
    Gaps,          \* ticks of its clock from one to the next that gets here
    StampMod,      \* 2^32 (DualSense) or 2^16 (DualShock 4)
    MicroMod,      \* 2^32
    GyroRes, GyroRange, AccRes, AccRange, S16Max,
    MaxTouches,    \* touch reports a DualShock 4 report has room for
    MaxReports     \* bounds the reports

Shorts == -S16Max - 1 .. S16Max
Slots  == 1 .. 2

DriverInputAssumption ==
    /\ {StampMod, MicroMod, S16Max} \subseteq Nat \ {0}
    /\ {GyroRes, GyroRange, AccRes, AccRange} \subseteq Nat \ {0}
    /\ MaxTouches \in Nat /\ MaxReports \in Nat
    /\ Gaps \subseteq Nat \ {0}
    /\ Calibrations \subseteq
         [plus : Shorts, minus : Shorts, bias : Shorts, speed_plus : Shorts,
          speed_minus : Shorts, acc_plus : Shorts, acc_minus : Shorts]
    /\ \A r \in Reports :
         /\ r.id \in {"full", "minimal", "other"} /\ r.sound \in BOOLEAN
         /\ r.hat \in 0 .. 15 /\ r.gyro \in Shorts /\ r.accel \in Shorts
         /\ r.touches \in Seq(SUBSET Slots) /\ r.click \in BOOLEAN
         /\ r.level \in 0 .. 15 /\ r.charging \in 0 .. 15

VARIABLES
    pad, bus,      \* "DualSense" or "DualShock 4"; "usb" or "bt"
    facts,         \* what the calibration report of this one says
    mode,          \* "probing"; then "bound", "uncalibrated" or "failed"
    gyro, accel,   \* gyro_calib_data and accel_calib_data
    clock,         \* of the controller
    prev_sensor_timestamp, sensor_timestamp_initialized, sensor_timestamp_us,
    battery,       \* battery_capacity and battery_status
    hat, motion,   \* what the readers of the gamepad and of the sensors know
    touch,         \* what those of the touchpad know
    button,        \* BTN_LEFT as last reported to the input core
    last,          \* ghost: the last report that was parsed to its end
    since,         \* ghost: clock and time shown at the first of them
    heard,         \* ghost: clock at the last of them
    full,          \* ghost: their number
    asleep,        \* ghost: once as many ticks between two of them as cannot be told
    sent           \* reports sent

device == <<pad, bus, facts, gyro, accel>>
stamps == <<prev_sensor_timestamp, sensor_timestamp_initialized, sensor_timestamp_us>>
ghosts == <<last, since, heard, full, asleep>>
vars   == <<device, mode, clock, stamps, battery, hat, motion, touch, button, ghosts, sent>>

None == [id |-> "none"]

Abs(x) == IF x < 0 THEN -x ELSE x

\* Division and remainder of C.
Quotient(a, b) ==
    LET q == Abs(a) \div Abs(b) IN IF a < 0 <=> b < 0 THEN q ELSE -q
Remainder(a, b) == a - b * Quotient(a, b)

mult_frac(x, n, d) == Quotient(x, d) * n + Quotient(Remainder(x, d) * n, d)

-----------------------------------------------------------------------------
(* Calibration. *)

Blank == [bias |-> 0, numer |-> 0, denom |-> 0]

GyroData(f) ==
    [bias  |-> 0,
     numer |-> (f.speed_plus + f.speed_minus) * GyroRes,
     denom |-> Abs(f.plus - f.bias) + Abs(f.minus - f.bias)]

\* Mutant: the half of the range is added to the reading of plus one g.
AccelData_Offset(f) ==
    LET range_2g == f.acc_plus - f.acc_minus
    IN  [bias  |-> f.acc_plus + Quotient(range_2g, 2),
         numer |-> 2 * AccRes,
         denom |-> range_2g]

AccelData(f) ==
    LET range_2g == f.acc_plus - f.acc_minus
    IN  [bias  |-> f.acc_plus - Quotient(range_2g, 2),
         numer |-> 2 * AccRes,
         denom |-> range_2g]

\* The sanity check of one axis.
Checked(data, range) ==
    IF data.denom = 0 THEN [bias |-> 0, numer |-> range, denom |-> S16Max] ELSE data

\* The probe reads the calibration report.
GetCalibrationData ==
    /\ mode = "probing" /\ mode' = "bound"
    /\ gyro'  = Checked(GyroData(facts), GyroRange)
    /\ accel' = Checked(AccelData(facts), AccRange)
    /\ UNCHANGED <<pad, bus, facts, clock, stamps, battery, hat, motion, touch, button,
                   ghosts, sent>>

\* It does not get one: that ends the probe of a DualSense; a DualShock 4 gets
\* the defaults.
TransferFailed ==
    /\ mode = "probing"
    /\ mode' = IF pad = "DualSense" THEN "failed" ELSE "uncalibrated"
    /\ IF pad = "DualSense"
         THEN UNCHANGED <<gyro, accel>>
         ELSE gyro' = Checked(gyro, GyroRange) /\ accel' = Checked(accel, AccRange)
    /\ UNCHANGED <<pad, bus, facts, clock, stamps, battery, hat, motion, touch, button,
                   ghosts, sent>>

-----------------------------------------------------------------------------
(* Reports. *)

Hats == 0 .. 8
Center == 8

HatShown(value) == IF value >= 9 THEN Center ELSE value

\* Which reports are parsed, and to the end.
Full(r) ==
    /\ r.id = "full"
    /\ bus = "bt" => r.sound
    /\ pad = "DualShock 4" => Len(r.touches) <= MaxTouches

Minimal(r) == r.id = "minimal" /\ bus = "bt" /\ pad = "DualShock 4"

\* DIV_ROUND_CLOSEST of a difference of timestamps by three: of an unsigned int
\* for the DualSense, of an int, times 16, for the DualShock 4.
Microseconds(ticks) ==
    IF pad = "DualSense" THEN ((ticks + 1) % StampMod) \div 3 ELSE (ticks * 16 + 1) \div 3

\* Mutant: U32_MAX taken for the number of timestamps.
Delta_Max(stamp) ==
    IF prev_sensor_timestamp > stamp
      THEN StampMod - 1 - prev_sensor_timestamp + stamp
      ELSE stamp - prev_sensor_timestamp

Delta(stamp) ==
    IF prev_sensor_timestamp > stamp
      THEN StampMod - 1 - prev_sensor_timestamp + stamp + 1
      ELSE stamp - prev_sensor_timestamp

TakeStamp(stamp) ==
    /\ prev_sensor_timestamp' = stamp
    /\ sensor_timestamp_initialized' = TRUE
    /\ sensor_timestamp_us' =
         IF ~sensor_timestamp_initialized
           THEN Microseconds(stamp) % MicroMod
           ELSE (sensor_timestamp_us + Microseconds(Delta(stamp))) % MicroMod

AtMost100(n) == IF n < 100 THEN n ELSE 100

DualsenseBattery(r) ==
    CASE r.charging = 0 -> [capacity |-> AtMost100(r.level * 10 + 5), status |-> "discharging"]
      [] r.charging = 1 -> [capacity |-> AtMost100(r.level * 10 + 5), status |-> "charging"]
      [] r.charging = 2 -> [capacity |-> 100, status |-> "full"]
      [] r.charging \in {10, 11} -> [capacity |-> 0, status |-> "not charging"]
      [] OTHER -> [capacity |-> 0, status |-> "unknown"]

\* Any charging state but 0 is a DualShock 4's cable here.
Dualshock4Battery(r) ==
    LET told == IF r.level < 10 THEN r.level * 10 + 5 ELSE 100
    IN  CASE r.charging = 0 -> [capacity |-> told, status |-> "discharging"]
          [] r.charging # 0 /\ r.level <= 10 -> [capacity |-> told, status |-> "charging"]
          [] r.charging # 0 /\ r.level = 11 -> [capacity |-> 100, status |-> "full"]
          [] OTHER -> [capacity |-> 0, status |-> "unknown"]

\* A DualSense report has one touch report, and one input_sync after it and the
\* button; a DualShock 4's has some, with a sync after each and none after the
\* button.
DualsenseTouch(r) ==
    /\ touch' = [contacts |-> r.touches[1], click |-> r.click]
    /\ button' = r.click

Dualshock4Touch(r) ==
    /\ touch' = IF r.touches = <<>> THEN touch
                ELSE [contacts |-> Last(r.touches), click |-> button]
    /\ button' = r.click

Motion(r) ==
    [gyro  |-> mult_frac(gyro.numer, r.gyro, gyro.denom),
     accel |-> mult_frac(accel.numer, r.accel - accel.bias, accel.denom)]

Send(r) ==
    /\ mode \in {"bound", "uncalibrated"} /\ sent < MaxReports /\ sent' = sent + 1
    /\ pad = "DualSense" => Len(r.touches) = 1
    /\ \E gap \in Gaps : clock' = clock + gap

ParseReport(r) ==
    /\ Send(r) /\ Full(r)
    /\ hat' = HatShown(r.hat)
    /\ motion' = Motion(r)
    /\ TakeStamp(clock' % StampMod)
    /\ IF pad = "DualSense" THEN DualsenseTouch(r) ELSE Dualshock4Touch(r)
    /\ battery' = IF pad = "DualSense" THEN DualsenseBattery(r) ELSE Dualshock4Battery(r)
    /\ last' = r /\ heard' = clock' /\ full' = full + 1
    /\ since' = IF full = 0 THEN [clock |-> clock', us |-> sensor_timestamp_us'] ELSE since
    /\ asleep' = (asleep \/ (full > 0 /\ clock' - heard >= StampMod - 1))
    /\ UNCHANGED <<device, mode>>

\* The buttons and sticks of a pad that sends the short report over Bluetooth.
ParseMinimal(r) ==
    /\ Send(r) /\ Minimal(r)
    /\ hat' = HatShown(r.hat)
    /\ UNCHANGED <<device, mode, stamps, battery, motion, touch, button, ghosts>>

\* -EILSEQ, -EINVAL or "Unhandled reportID".
Reject(r) ==
    /\ Send(r) /\ ~Full(r) /\ ~Minimal(r)
    /\ UNCHANGED <<device, mode, stamps, battery, hat, motion, touch, button, ghosts>>

-----------------------------------------------------------------------------
Init ==
    /\ pad \in {"DualSense", "DualShock 4"} /\ bus \in {"usb", "bt"}
    /\ facts \in Calibrations
    /\ mode = "probing" /\ gyro = Blank /\ accel = Blank
    /\ clock \in 0 .. StampMod - 1
    /\ prev_sensor_timestamp = 0 /\ sensor_timestamp_initialized = FALSE
    /\ sensor_timestamp_us = 0
    /\ battery = [capacity |-> 100, status |-> "unknown"]
    /\ hat = Center /\ motion = [gyro |-> 0, accel |-> 0]
    /\ touch = [contacts |-> {}, click |-> FALSE] /\ button = FALSE
    /\ last = None /\ since = [clock |-> 0, us |-> 0] /\ heard = 0 /\ full = 0
    /\ asleep = FALSE
    /\ sent = 0

Next ==
    \/ GetCalibrationData \/ TransferFailed
    \/ \E r \in Reports : ParseReport(r) \/ ParseMinimal(r) \/ Reject(r)

Spec == Init /\ [][Next]_vars

-----------------------------------------------------------------------------
(* Properties. *)

TypeOK ==
    /\ mode \in {"probing", "bound", "uncalibrated", "failed"}
    /\ \A data \in {gyro, accel} :
         data.bias \in Shorts /\ data.numer \in Int /\ data.denom \in Int
    /\ prev_sensor_timestamp \in 0 .. StampMod - 1
    /\ sensor_timestamp_us \in 0 .. MicroMod - 1
    /\ battery.capacity \in 0 .. 100
    /\ battery.status \in {"discharging", "charging", "full", "not charging", "unknown"}
    /\ hat \in Hats
    /\ touch \in [contacts : SUBSET Slots, click : BOOLEAN]
    /\ last # None /\ pad = "DualShock 4" => Len(last.touches) <= MaxTouches

\* "Data values will be normalized to 1/DS_ACC_RES_PER_G g": the reading the
\* calibration report gives for plus, or minus, one g shows as one g, up to
\* rounding, for ranges of either sign and odd ones.
OneGravity ==
    LET range == facts.acc_plus - facts.acc_minus
        Near(g) == Abs(range) * Abs(motion.accel - g) <= AccRes + Abs(range)
    IN  last # None /\ mode = "bound" /\ range # 0 =>
          /\ last.accel = facts.acc_plus => Near(AccRes)
          /\ last.accel = facts.acc_minus => Near(-AccRes)

\* The time the sensors show, between any two reports that were parsed to the
\* end, is the time that has passed in the controller, up to a third of a
\* microsecond a report: across wraps of the timestamp, reports that were lost,
\* rejected or minimal, and wraps of the time shown.  Only a pause as long as the
\* range of the timestamp goes unseen (or one tick less, where the rounding of
\* the DualSense's unsigned int overflows).
ElapsedTime ==
    full > 0 /\ ~asleep =>
      \E error \in 1 - full .. full - 1 :
        LET ticks == heard - since.clock
            thirds == (IF pad = "DualSense" THEN ticks ELSE 16 * ticks) + error
        IN  thirds % 3 = 0 /\ sensor_timestamp_us = (since.us + thirds \div 3) % MicroMod
=============================================================================
