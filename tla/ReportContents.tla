--------------------------- MODULE ReportContents ---------------------------
(***************************************************************************)
(* What becomes of the contents of a report: ReportTranslation, Checksum   *)
(* and DriverInput side by side.  They share nothing.                      *)
(***************************************************************************)
EXTENDS ReportTranslation

CONSTANTS Bytes, MaxLen, Calibrations, Reports, Gaps, StampMod, MicroMod,
          GyroRes, GyroRange, AccRes, AccRange, S16Max, MaxTouches, MaxReports

VARIABLES
    kind, data, crc,
    pad, bus, facts, mode, gyro, accel, clock, prev_sensor_timestamp,
    sensor_timestamp_initialized, sensor_timestamp_us, battery, hat, motion,
    touch, button, last, since, heard, full, asleep, sent

CS == INSTANCE Checksum
DI == INSTANCE DriverInput

ASSUME ReportsAssumption == CS!ChecksumAssumption /\ DI!DriverInputAssumption
-----------------------------------------------------------------------------
\* The checksum of an output or feature report (src/src/utils.h) is that
\* CRC-32 for any bytes, see Checksum.
IsCRC32 == CS!IsCRC32

\* The time shown by the sensors of a pad (src/hid-playstation.c:1441) is the
\* time that has passed in it, see DriverInput.
ElapsedTime == DI!ElapsedTime

\* One g shows as one g (src/hid-playstation.c:1424), see DriverInput.
OneGravity == DI!OneGravity
=============================================================================
