----------------------- MODULE ReportTranslationProofs -----------------------
(***************************************************************************)
(* Whatever the lengths and the IDs, reports are translated in whole, but  *)
(* for the last byte of an input report of exactly 64.  Whatever the controller       *)
(* sends, the host's driver shows the time that has passed and one g as    *)
(* one g.  However long a report and whatever its bytes, its checksum is   *)
(* the CRC-32 of it with its header.                                       *)
(***************************************************************************)
EXTENDS ReportContents, Sequences, WellFoundedInduction, TLAPS

(***************************************************************************)
(* A report of at least 64 bytes fills what UsbReport takes of framed, but *)
(* for the last byte if it has no more.                                    *)
(***************************************************************************)
LEMMA UsbReportWhole ==
  ASSUME NEW n \in Nat, n >= 64, NEW i \in 1 .. 63
  PROVE  UsbReport(Framed(n))[i] = IF n = 64 /\ i = 63 THEN Undefined
                                                     ELSE <<"bt", i + 1>>
<1>1. UsbReport(Framed(n))[i] = Framed(n)[i + 2]
  BY DEF UsbReport
<1>2. i + 2 \in 0 .. 256 /\ i + 2 # 0 /\ (i + 2) - 1 = i + 1
  OBVIOUS
<1>3. CASE n = 64 /\ i = 63
  <2>1. i + 2 \notin 1 .. n
    BY <1>3
  <2> QED BY <1>1, <1>2, <1>3, <2>1 DEF Framed
<1>4. CASE ~(n = 64 /\ i = 63)
  <2>1. i + 2 \in 1 .. n
    BY <1>4
  <2>2. Framed(n)[i + 2] = <<"bt", (i + 2) - 1>>
    BY <1>2, <2>1 DEF Framed
  <2> QED BY <1>1, <1>2, <1>4, <2>2
<1> QED BY <1>3, <1>4

(***************************************************************************)
(* The structure of the host's report lands at 3 of what is written.       *)
(***************************************************************************)
LEMMA TranslatedWhole ==
  ASSUME NEW n \in 1 .. 256, NEW i \in 1 .. 71
  PROVE  Translated(n)[i + 3] =
             LET byte == IF i < n /\ i <= 47 THEN <<"usb", i>> ELSE Code(0)
             IN  IF i = 1 THEN Vibration(byte) ELSE byte
<1>1. i + 3 \in 0 .. 74 /\ (i + 3) - 3 = i
  OBVIOUS
<1>2. Common(n) \in 0 .. 47 /\ (i <= Common(n) <=> i < n /\ i <= 47)
  BY DEF Common
<1>3. CASE i = 1
  <2>1. Translated(n)[4] = Vibration(IF Common(n) > 0 THEN <<"usb", 1>> ELSE Code(0))
    BY DEF Translated
  <2> QED BY <1>2, <1>3, <2>1
<1>4. CASE i # 1 /\ i <= Common(n)
  <2>1. i + 3 \in 5 .. 3 + Common(n)
    BY <1>2, <1>4
  <2>2. Translated(n)[i + 3] = <<"usb", (i + 3) - 3>>
    BY <1>1, <2>1, <1>4 DEF Translated
  <2> QED BY <1>1, <1>2, <1>4, <2>2
<1>5. CASE i # 1 /\ i > Common(n)
  <2>1. i + 3 \notin 5 .. 3 + Common(n) /\ i + 3 \notin {0, 1, 2, 3, 4}
    BY <1>2, <1>5
  <2>2. Translated(n)[i + 3] = Code(0)
    BY <1>1, <2>1 DEF Translated
  <2> QED BY <1>2, <1>5, <2>2
<1> QED BY <1>2, <1>3, <1>4, <1>5
-----------------------------------------------------------------------------
(***************************************************************************)
(* Every output report is translated in whole (OutputWhole).               *)
(***************************************************************************)
THEOREM OutputWholeHolds == Spec => []OutputWhole
<1>1. Init => OutputWhole
  BY DEF Init, OutputWhole
<1>2. OutputWhole /\ [Next]_vars => OutputWhole'
  <2> SUFFICES ASSUME OutputWhole, [Next]_vars PROVE OutputWhole'
    OBVIOUS
  <2>1. ASSUME NEW id \in Ids, NEW n \in OutLengths, Send(id, n) PROVE OutputWhole'
    <3> SUFFICES ASSUME NEW i \in 1 .. 71
        PROVE  written'[i + 2] =
                   LET byte == IF i < n /\ i <= 47 THEN <<"usb", i>> ELSE Code(0)
                   IN  IF i = 1 THEN Vibration(byte) ELSE byte
      BY <2>1 DEF OutputWhole, Send
    <3>1. written'[i + 2] = Translated(n)[i + 3]
      <4>1. i + 2 \in 0 .. 73 /\ (i + 2) + 1 = i + 3
        OBVIOUS
      <4> QED BY <2>1, <4>1 DEF Send
    <3>2. n \in 1 .. 256
      BY TranslationAssumption
    <3> QED BY <3>1, <3>2, TranslatedWhole
  <2>2. ASSUME UNCHANGED output PROVE OutputWhole'
    BY <2>2 DEF OutputWhole, output
  <2> QED BY <2>1, <2>2
        DEF Next, FromController, OutEndpoint, SetReport, vars, output
<1> QED BY <1>1, <1>2, PTL DEF Spec

(***************************************************************************)
(* Whatever its length, of an input report that is passed on every byte is *)
(* the controller's, but for the last of one of exactly 64 (InputWhole).   *)
(***************************************************************************)
THEOREM InputWholeHolds == Spec => []InputWhole
<1>1. Init => InputWhole
  BY DEF Init, InputWhole
<1>2. InputWhole /\ [Next]_vars => InputWhole'
  <2> SUFFICES ASSUME InputWhole, [Next]_vars PROVE InputWhole'
    OBVIOUS
  <2>1. ASSUME NEW id \in Ids, NEW n \in InLengths, FromController(id, n)
        PROVE  InputWhole'
    <3>1. CASE queued' = UsbReport(Framed(n)) /\ n + 1 >= 65
      <4>1. n \in Nat /\ n >= 64 /\ received'.len = n
        BY <2>1, <3>1, TranslationAssumption DEF FromController
      <4> QED BY <3>1, <4>1, UsbReportWhole DEF InputWhole
    <3>2. CASE queued' = None
      BY <3>2 DEF InputWhole
    <3> QED BY <2>1, <3>1, <3>2 DEF FromController
  <2>2. ASSUME UNCHANGED input PROVE InputWhole'
    BY <2>2 DEF InputWhole, input
  <2> QED BY <2>1, <2>2
        DEF Next, OutEndpoint, SetReport, Send, vars, input
<1> QED BY <1>1, <1>2, PTL DEF Spec
-----------------------------------------------------------------------------
(***************************************************************************)
(* Integer division and its remainder.                                     *)
(***************************************************************************)

\* Quotient and remainder.
LEMMA DivRem ==
    ASSUME NEW q \in Nat \ {0}, NEW n \in Int
    PROVE  /\ n \div q \in Int /\ n = q * (n \div q) + (n % q)
           /\ n % q \in 0 .. q - 1
  OBVIOUS

\* Only one multiple of a number is less than it apart from zero.
LEMMA OneMultiple ==
    ASSUME NEW q \in Nat \ {0}, NEW k \in Int, q * k < q, q * k > -q
    PROVE  k = 0
<1>1. k >= 1 => q * k >= q
  OBVIOUS
<1>2. k <= -1 => q * k <= -q
  OBVIOUS
<1> QED
  BY <1>1, <1>2

\* A remainder is told by its range and its distance.
LEMMA RemIs ==
    ASSUME NEW q \in Nat \ {0}, NEW n \in Int, NEW k \in Int,
           NEW r \in 0 .. q - 1, n = q * k + r
    PROVE  n % q = r /\ n \div q = k
<1> DEFINE d == n \div q
           m == n % q
<1>1. d \in Int /\ m \in 0 .. q - 1 /\ n = q * d + m
  BY DivRem
<1> HIDE DEF d, m
<1>2. q * (k - d) = m - r
  <2>1. q * (k - d) = q * k - q * d
    BY <1>1
  <2> QED
    BY <1>1, <2>1
<1>3. k - d = 0
  <2>1. k - d \in Int /\ m - r < q /\ m - r > -q
    BY <1>1
  <2> QED
    BY <1>2, <2>1, OneMultiple
<1>4. k = d /\ q * (k - d) = 0
  BY <1>1, <1>3
<1>5. m = r
  BY <1>1, <1>2, <1>4
<1> QED
  BY <1>4, <1>5 DEF d, m

\* Remainders add up.
LEMMA ModAdd ==
    ASSUME NEW q \in Nat \ {0}, NEW a \in Int, NEW b \in Int
    PROVE  ((a % q) + b) % q = (a + b) % q
<1> DEFINE s == (a % q) + b
           k == a \div q
           j == s \div q
           r == s % q
<1>1. a = q * k + (a % q) /\ k \in Int /\ a % q \in 0 .. q - 1
  BY DivRem
<1>2. s \in Int
  BY <1>1
<1>3. s = q * j + r /\ j \in Int /\ r \in 0 .. q - 1
  BY <1>2, DivRem
<1>4. a + b = q * k + s
  BY <1>1
<1> HIDE DEF s, k, j, r
<1>5. a + b = q * (k + j) + r
  <2>1. q * (k + j) = q * k + q * j
    BY <1>1, <1>3
  <2> QED
    BY <1>1, <1>3, <1>4, <2>1
<1>6. (a + b) % q = r
  <2>1. a + b \in Int /\ k + j \in Int
    BY <1>1, <1>3
  <2> QED
    BY <1>3, <1>5, <2>1, RemIs
<1> QED
  BY <1>6 DEF r, s

\* The distance of two numbers less than q apart is that of their remainders,
\* once around if need be.
LEMMA Apart ==
    ASSUME NEW q \in Nat \ {0}, NEW a \in Nat, NEW b \in Nat, a <= b, b - a < q
    PROVE  b - a = IF a % q > b % q THEN q - 1 - (a % q) + (b % q) + 1
                                    ELSE (b % q) - (a % q)
<1> DEFINE i == a \div q
           j == b \div q
           r == a % q
           s == b % q
<1>1. /\ a = q * i + r /\ i \in Int /\ r \in 0 .. q - 1
      /\ b = q * j + s /\ j \in Int /\ s \in 0 .. q - 1
  BY DivRem
<1> HIDE DEF i, j, r, s
<1>2. q * (j - i) = b - a + r - s
  <2>1. q * (j - i) = q * j - q * i
    BY <1>1
  <2> QED
    BY <1>1, <2>1
<1>3. CASE r <= s
  <2>1. b - a + r - s < q /\ b - a + r - s > -q /\ j - i \in Int
    BY <1>1, <1>3
  <2>2. j - i = 0
    BY <1>2, <2>1, OneMultiple
  <2>3. q * (j - i) = 0
    BY <2>2
  <2>4. b - a = s - r /\ ~(r > s)
    BY <1>1, <1>2, <1>3, <2>3
  <2> QED
    BY <2>4 DEF r, s
<1>4. CASE r > s
  <2>1. q * (j - i - 1) = b - a + r - s - q
    <3>1. q * (j - i - 1) = q * (j - i) - q
      BY <1>1
    <3> QED
      BY <1>1, <1>2, <3>1
  <2>2. b - a + r - s - q < q /\ b - a + r - s - q > -q /\ j - i - 1 \in Int
    BY <1>1, <1>4
  <2>3. j - i - 1 = 0
    BY <2>1, <2>2, OneMultiple
  <2>4. q * (j - i - 1) = 0
    BY <2>3
  <2>5. b - a = q - 1 - r + s + 1
    BY <1>1, <2>1, <2>4
  <2> QED
    BY <1>4, <2>5 DEF r, s
<1> QED
  BY <1>1, <1>3, <1>4

\* Division by three, rounded.
LEMMA Thirds ==
    ASSUME NEW n \in Int
    PROVE  /\ (n + 1) \div 3 \in Int
           /\ \E e \in {-1, 0, 1} : 3 * ((n + 1) \div 3) = n + e
<1>1. /\ (n + 1) \div 3 \in Int /\ (n + 1) % 3 \in 0 .. 2
      /\ n + 1 = 3 * ((n + 1) \div 3) + ((n + 1) % 3)
  BY DivRem
<1>2. 1 - ((n + 1) % 3) \in {-1, 0, 1}
  BY <1>1
<1> QED
  BY <1>1, <1>2

-----------------------------------------------------------------------------
(***************************************************************************)
(* The time the driver's sensors show.                                     *)
(***************************************************************************)

\* Neither the timestamp nor the time shown wraps to nothing.
LEMMA Moduli == StampMod \in Nat \ {0} /\ MicroMod \in Nat \ {0}
  BY ReportsAssumption DEF DI!DriverInputAssumption

\* The other assumptions on the driver's constants that matter below.
LEMMA DriverConstants ==
    /\ Gaps \subseteq Nat /\ AccRes \in Nat
    /\ \A f \in Calibrations : f.acc_plus \in Int /\ f.acc_minus \in Int
    /\ \A r \in Reports : r.accel \in Int /\ r # DI!None
<1>1. DI!Shorts \subseteq Int
  BY ReportsAssumption DEF DI!DriverInputAssumption, DI!Shorts
<1>2. \A f \in Calibrations : f.acc_plus \in Int /\ f.acc_minus \in Int
  BY <1>1, ReportsAssumption DEF DI!DriverInputAssumption
<1>3. \A r \in Reports : r.accel \in Int /\ r # DI!None
  <2>1. DI!None.id = "none"
    BY DEF DI!None
  <2>2. \A r \in Reports : r.id # "none" /\ r.accel \in DI!Shorts
    BY ReportsAssumption DEF DI!DriverInputAssumption
  <2> QED
    BY <1>1, <2>1, <2>2
<1> QED
  BY <1>2, <1>3, ReportsAssumption DEF DI!DriverInputAssumption

\* The controller's unit of time, in thirds of a microsecond.
Unit == IF pad = "DualSense" THEN 1 ELSE 16

\* The last report that was parsed left its timestamp, and the time shown is
\* that of the first and what has passed since.
TimeInv ==
    /\ clock \in Nat /\ heard \in 0 .. clock /\ full \in Nat
    /\ sensor_timestamp_us \in Int
    /\ sensor_timestamp_initialized <=> full > 0
    /\ full > 0 => /\ prev_sensor_timestamp = heard % StampMod
                   /\ since.clock \in Nat /\ since.us \in Int
    /\ full > 0 /\ ~asleep =>
         \E us \in Int, error \in 1 - full .. full - 1 :
            /\ 3 * us = Unit * (heard - since.clock) + error
            /\ sensor_timestamp_us = (since.us + us) % MicroMod

\* A difference is converted up to a third of a microsecond, as long as the
\* rounding does not overflow.
LEMMA MicrosecondsRound ==
    ASSUME NEW d \in Nat, d < StampMod - 1
    PROVE  /\ DI!Microseconds(d) \in Int
           /\ \E e \in {-1, 0, 1} : 3 * DI!Microseconds(d) = Unit * d + e
<1>1. CASE pad = "DualSense"
  <2>1. (d + 1) % StampMod = d + 1
    <3>1. d + 1 = StampMod * 0 + (d + 1) /\ d + 1 \in 0 .. StampMod - 1
      BY Moduli
    <3> QED
      BY <3>1, Moduli, RemIs
  <2>2. DI!Microseconds(d) = (d + 1) \div 3 /\ Unit = 1
    BY <1>1, <2>1 DEF DI!Microseconds, Unit
  <2> QED
    BY <2>2, Thirds
<1>2. CASE pad # "DualSense"
  <2>1. DI!Microseconds(d) = (16 * d + 1) \div 3 /\ Unit = 16
    BY <1>2 DEF DI!Microseconds, Unit
  <2>2. 16 * d \in Int
    OBVIOUS
  <2> QED
    BY <2>1, <2>2, Thirds
<1> QED
  BY <1>1, <1>2

\* Whatever the timestamp, its time is an integer.
LEMMA MicrosecondsInt ==
    ASSUME NEW d \in Nat
    PROVE  DI!Microseconds(d) \in Int
<1>1. (d + 1) % StampMod \in Int
  BY Moduli
<1> QED
  BY <1>1 DEF DI!Microseconds

\* A report that is parsed to the end moves the time on by the time that passed.
LEMMA TakeStampKeepsTime ==
    ASSUME TimeInv, NEW r \in Reports, DI!ParseReport(r)
    PROVE  TimeInv'
<1>1. clock \in Nat /\ heard \in 0 .. clock /\ full \in Nat
  BY DEF TimeInv
<1>2. PICK now \in Nat : now = clock' /\ clock <= now
  <2>1. PICK gap \in Gaps : clock' = clock + gap
    BY DEF DI!ParseReport, DI!Send
  <2>2. clock + gap \in Nat /\ clock <= clock + gap
    BY <1>1, <2>1, DriverConstants
  <2> QED
    BY <2>1, <2>2
<1> DEFINE stamp == now % StampMod
           d == now - heard
<1>3. d \in Nat /\ heard \in Nat /\ now \in Nat
  <2>1. clock <= now
    BY <1>2
  <2> QED
    BY <1>1, <2>1
<1>4. /\ heard' = now /\ full' = full + 1 /\ pad' = pad
      /\ prev_sensor_timestamp' = stamp /\ sensor_timestamp_initialized'
      /\ asleep' = (asleep \/ (full > 0 /\ d >= StampMod - 1))
      /\ sensor_timestamp_us' =
           IF ~sensor_timestamp_initialized
           THEN DI!Microseconds(stamp) % MicroMod
           ELSE (sensor_timestamp_us + DI!Microseconds(DI!Delta(stamp))) % MicroMod
      /\ since' = IF full = 0 THEN [clock |-> now, us |-> sensor_timestamp_us']
                              ELSE since
  BY <1>2 DEF DI!ParseReport, DI!TakeStamp, DI!device
<1> HIDE DEF d
<1>5. stamp \in Nat
  BY <1>3, Moduli, DivRem
<1> HIDE DEF stamp
<1>6. CASE full = 0
  <2>1. sensor_timestamp_us' = DI!Microseconds(stamp) % MicroMod
    BY <1>4, <1>6 DEF TimeInv
  <2>2. sensor_timestamp_us' \in 0 .. MicroMod - 1
    BY <1>5, <2>1, MicrosecondsInt, Moduli, DivRem
  <2>3. /\ full' = 1 /\ since'.clock = now /\ since'.us = sensor_timestamp_us'
        /\ heard' = now
    BY <1>1, <1>4, <1>6
  <2>4. 3 * 0 = Unit' * (heard' - since'.clock) + 0
    <3>1. heard' = now /\ since'.clock = now
      BY <2>3
    <3>2. Unit' \in {1, 16}
      BY DEF Unit
    <3>3. \A u \in {1, 16} : 3 * 0 = u * (now - now) + 0
      OBVIOUS
    <3> QED
      BY <3>1, <3>2, <3>3
  <2>5. sensor_timestamp_us' = (since'.us + 0) % MicroMod
    <3>1. \A us \in 0 .. MicroMod - 1 : us = (us + 0) % MicroMod
      <4>1. ASSUME NEW us \in 0 .. MicroMod - 1
            PROVE  us + 0 = MicroMod * 0 + us /\ us + 0 \in Int
        BY Moduli
      <4> QED
        BY <4>1, RemIs, Moduli
    <3> QED
      BY <2>2, <2>3, <3>1
  <2>6. 0 \in 1 - full' .. full' - 1
    BY <2>3
  <2>7. since'.us \in Int /\ since'.clock \in Nat /\ sensor_timestamp_us' \in Int
    BY <1>3, <2>2, <2>3
  <2> QED
    BY <1>1, <1>3, <1>4, <2>3, <2>4, <2>5, <2>6, <2>7, <1>2 DEF TimeInv, stamp
<1>7. CASE full > 0
  <2>1. since' = since /\ since.clock \in Nat /\ since.us \in Int
    BY <1>1, <1>4, <1>7 DEF TimeInv
  <2>2. sensor_timestamp_us' =
           (sensor_timestamp_us + DI!Microseconds(DI!Delta(stamp))) % MicroMod
    BY <1>4, <1>7 DEF TimeInv
  <2>3. ASSUME ~asleep'
        PROVE  \E us \in Int, error \in 1 - full' .. full' - 1 :
                  /\ 3 * us = Unit' * (heard' - since'.clock) + error
                  /\ sensor_timestamp_us' = (since'.us + us) % MicroMod
    <3>1. ~asleep /\ d < StampMod - 1
      <4>1. ~asleep /\ ~(d >= StampMod - 1)
        BY <1>4, <1>7, <2>3
      <4> QED
        BY <1>3, <4>1, Moduli
    <3>2. PICK us \in Int, error \in 1 - full .. full - 1 :
             /\ 3 * us = Unit * (heard - since.clock) + error
             /\ sensor_timestamp_us = (since.us + us) % MicroMod
      BY <1>7, <3>1 DEF TimeInv
    <3>3. DI!Delta(stamp) = d
      <4>1. prev_sensor_timestamp = heard % StampMod
        BY <1>7 DEF TimeInv
      <4>2. /\ heard <= now /\ now - heard < StampMod
            /\ now \in Nat /\ heard \in Nat
        BY <1>1, <1>3, <3>1, Moduli DEF d
      <4>3. d = IF heard % StampMod > now % StampMod
                THEN StampMod - 1 - (heard % StampMod) + (now % StampMod) + 1
                ELSE (now % StampMod) - (heard % StampMod)
        BY <4>2, Apart, Moduli DEF d
      <4> QED
        BY <4>1, <4>3 DEF DI!Delta, stamp
    <3>4. DI!Microseconds(d) \in Int
      BY <1>3, <3>1, MicrosecondsRound
    <3>5. PICK e \in {-1, 0, 1} : 3 * DI!Microseconds(d) = Unit * d + e
      BY <1>3, <3>1, MicrosecondsRound
    <3> DEFINE more == DI!Microseconds(d)
    <3>6. sensor_timestamp_us' = (since'.us + (us + more)) % MicroMod
      <4>1. since.us + us \in Int /\ more \in Int
        BY <2>1, <3>4
      <4> HIDE DEF more
      <4>2. (((since.us + us) % MicroMod) + more) % MicroMod
              = ((since.us + us) + more) % MicroMod
        BY <4>1, ModAdd, Moduli
      <4>3. (since.us + us) + more = since.us + (us + more)
        BY <2>1, <4>1
      <4> QED
        BY <2>1, <2>2, <3>2, <3>3, <4>2, <4>3 DEF more
    <3> HIDE DEF more
    <3>7. 3 * (us + more) = Unit' * (heard' - since'.clock) + (error + e)
      <4>1. Unit' = Unit /\ Unit \in {1, 16} /\ heard' - since'.clock = (heard - since.clock) + d
        BY <1>1, <1>3, <1>4, <2>1 DEF Unit, d
      <4>2. 3 * us = Unit * (heard - since.clock) + error /\ 3 * more = Unit * d + e
        BY <3>2, <3>5 DEF more
      <4>3. heard - since.clock \in Int /\ d \in Int /\ more \in Int
        BY <1>1, <1>3, <2>1, <3>4 DEF more
      <4>4. Unit * (heard - since.clock + d)
              = Unit * (heard - since.clock) + Unit * d
        BY <4>1, <4>3
      <4>5. Unit * (heard - since.clock) \in Int /\ Unit * d \in Int
        BY <4>1, <4>3
      <4>6. 3 * (us + more) = Unit' * (heard' - since'.clock) + (error + e)
            <=> 3 * us + 3 * more
                  = Unit * (heard - since.clock) + Unit * d + (error + e)
        <5>1. Unit' * (heard' - since'.clock)
                = Unit * (heard - since.clock) + Unit * d
          BY <4>1, <4>4
        <5>2. 3 * (us + more) = 3 * us + 3 * more
          BY <4>3
        <5> QED
          BY <5>1, <5>2
      <4>7. error \in Int /\ e \in Int /\ 3 * us \in Int
        BY <1>1
      <4> QED
        BY <4>2, <4>5, <4>6, <4>7
    <3>8. error + e \in 1 - full' .. full' - 1 /\ us + more \in Int
      BY <1>1, <1>4, <3>4 DEF more
    <3> QED
      BY <3>6, <3>7, <3>8
  <2>4. sensor_timestamp_us' \in Int
    <3>1. DI!Delta(stamp) \in Int /\ sensor_timestamp_us \in Int
      BY <1>1, <1>5, <1>7, Moduli DEF TimeInv, DI!Delta
    <3>2. DI!Microseconds(DI!Delta(stamp)) \in Int
      <4> DEFINE delta == DI!Delta(stamp)
      <4>1. (delta + 1) % StampMod \in Int
        BY <3>1, DivRem, Moduli
      <4>2. (16 * delta + 1) \in Int
        BY <3>1
      <4> QED
        BY <3>1, <4>1, <4>2 DEF DI!Microseconds
    <3> QED
      BY <2>2, <3>1, <3>2, DivRem, Moduli
  <2> QED
    BY <1>1, <1>3, <1>4, <1>7, <2>1, <2>3, <2>4, <1>2 DEF TimeInv, stamp
<1> QED
  BY <1>1, <1>6, <1>7

\* The time the sensors show is the time that has passed in the controller
\* (ElapsedTime): dualsense_parse_report and dualshock4_parse_report convert
\* the difference of two timestamps and are a third of a microsecond a report
\* off at most, across all wraps.
THEOREM ElapsedTimeHolds == DI!Spec => []ElapsedTime
<1>1. DI!Init => TimeInv
  <2> SUFFICES ASSUME DI!Init PROVE TimeInv
    OBVIOUS
  <2>1. /\ clock \in 0 .. StampMod - 1 /\ heard = 0 /\ full = 0
        /\ sensor_timestamp_us = 0 /\ ~sensor_timestamp_initialized
    BY DEF DI!Init
  <2>2. clock \in Nat /\ heard \in 0 .. clock
    BY <2>1, Moduli
  <2> QED
    BY <2>1, <2>2 DEF TimeInv
<1>2. TimeInv /\ [DI!Next]_DI!vars => TimeInv'
  <2> SUFFICES ASSUME TimeInv, [DI!Next]_DI!vars PROVE TimeInv'
    OBVIOUS
  <2>1. ASSUME UNCHANGED <<DI!device, DI!stamps, DI!ghosts>>,
               clock' \in Nat, heard \in 0 .. clock'
        PROVE  TimeInv'
    BY <2>1 DEF TimeInv, Unit, DI!device, DI!stamps, DI!ghosts
  <2>2. CASE DI!GetCalibrationData \/ DI!TransferFailed
    <3>1. UNCHANGED <<pad, clock, DI!stamps, DI!ghosts>>
      BY <2>2 DEF DI!GetCalibrationData, DI!TransferFailed
    <3> QED
      BY <3>1 DEF TimeInv, Unit, DI!stamps, DI!ghosts
  <2>3. ASSUME NEW r \in Reports, DI!ParseReport(r) PROVE TimeInv'
    BY <2>3, TakeStampKeepsTime
  <2>4. ASSUME NEW r \in Reports, DI!ParseMinimal(r) \/ DI!Reject(r)
        PROVE  TimeInv'
    <3>1. PICK gap \in Gaps : clock' = clock + gap
      BY <2>4 DEF DI!ParseMinimal, DI!Reject, DI!Send
    <3>2. clock + gap \in Nat /\ heard \in 0 .. clock + gap
      BY <3>1, DriverConstants DEF TimeInv
    <3>3. UNCHANGED <<DI!device, DI!stamps, DI!ghosts>>
      BY <2>4 DEF DI!ParseMinimal, DI!Reject
    <3> QED
      BY <2>1, <3>1, <3>2, <3>3
  <2>5. CASE UNCHANGED DI!vars
    <3>1. UNCHANGED <<pad, clock, DI!stamps, DI!ghosts>>
      BY <2>5 DEF DI!vars, DI!device
    <3> QED
      BY <3>1 DEF TimeInv, Unit, DI!stamps, DI!ghosts
  <2> QED
    BY <2>2, <2>3, <2>4, <2>5 DEF DI!Next
<1>3. TimeInv => ElapsedTime
  <2> SUFFICES ASSUME TimeInv, full > 0, ~asleep
               PROVE  \E error \in 1 - full .. full - 1 :
                        LET ticks == heard - since.clock
                            thirds == (IF pad = "DualSense" THEN ticks ELSE 16 * ticks)
                                        + error
                        IN  /\ thirds % 3 = 0
                            /\ sensor_timestamp_us = (since.us + thirds \div 3) % MicroMod
    BY DEF ElapsedTime, DI!ElapsedTime
  <2>1. PICK us \in Int, error \in 1 - full .. full - 1 :
           /\ 3 * us = Unit * (heard - since.clock) + error
           /\ sensor_timestamp_us = (since.us + us) % MicroMod
    BY DEF TimeInv
  <2> DEFINE ticks == heard - since.clock
             thirds == (IF pad = "DualSense" THEN ticks ELSE 16 * ticks) + error
  <2>2. ticks \in Int /\ thirds \in Int /\ 3 * us = thirds
    <3>1. ticks \in Int /\ error \in Int
      BY DEF TimeInv
    <3> QED
      BY <2>1, <3>1 DEF Unit
  <2> HIDE DEF ticks
  <2>3. thirds % 3 = 0 /\ thirds \div 3 = us
    <3> HIDE DEF thirds
    <3>1. thirds = 3 * us + 0 /\ 0 \in 0 .. 3 - 1 /\ 3 \in Nat \ {0}
      BY <2>2
    <3> QED
      BY <2>2, <3>1, RemIs
  <2> QED
    BY <2>1, <2>3 DEF ticks
<1> QED
  BY <1>1, <1>2, <1>3, PTL DEF DI!Spec
-----------------------------------------------------------------------------
(***************************************************************************)
(* The gravity the driver's sensors show.                                  *)
(***************************************************************************)

\* What C's division leaves is less than the divisor.
LEMMA QuotientRemains ==
    ASSUME NEW a \in Int, NEW b \in Int \ {0}
    PROVE  /\ DI!Quotient(a, b) \in Int
           /\ \E r \in Int : /\ a = b * DI!Quotient(a, b) + r
                             /\ DI!Abs(r) < DI!Abs(b)
<1> DEFINE n == DI!Abs(a)
           d == DI!Abs(b)
           q == n \div d
           m == n % d
<1>1. n \in Nat /\ d \in Nat \ {0} /\ (n = a \/ n = -a) /\ (d = b \/ d = -b)
      /\ (a < 0 => n = -a) /\ (a >= 0 => n = a)
      /\ (b < 0 => d = -b) /\ (b >= 0 => d = b)
  BY DEF DI!Abs
<1>2. q \in Int /\ m \in 0 .. d - 1 /\ n = d * q + m
  <2> HIDE DEF n, d
  <2> QED
    BY <1>1, DivRem
<1>3. DI!Quotient(a, b) = IF a < 0 <=> b < 0 THEN q ELSE -q
  BY DEF DI!Quotient
<1>4. m < d /\ DI!Abs(m) < d /\ DI!Abs(-m) < d
  BY <1>1, <1>2 DEF DI!Abs
<1> HIDE DEF n, q, m
<1>5. CASE a >= 0
  <2>1. a = b * DI!Quotient(a, b) + m
    <3>1. CASE b < 0
      <4>1. d = -b /\ DI!Quotient(a, b) = -q
        BY <1>1, <1>3, <1>5, <3>1
      <4>2. b * (-q) = (-b) * q
        BY <1>2
      <4> HIDE DEF d
      <4> QED
        BY <1>1, <1>2, <1>5, <4>1, <4>2
    <3>2. CASE b >= 0
      <4>1. d = b /\ DI!Quotient(a, b) = q
        BY <1>1, <1>3, <1>5, <3>2
      <4> HIDE DEF d
      <4> QED
        BY <1>1, <1>2, <1>5, <4>1
    <3> QED
      BY <3>1, <3>2
  <2> QED
    BY <1>2, <1>3, <1>4, <2>1
<1>6. CASE a < 0
  <2>1. a = b * DI!Quotient(a, b) + (-m)
    <3>1. CASE b < 0
      <4>1. d = -b /\ DI!Quotient(a, b) = q /\ n = -a
        BY <1>1, <1>3, <1>6, <3>1
      <4>2. (-b) * q = -(b * q) /\ b * q \in Int
        BY <1>2
      <4> HIDE DEF d
      <4> QED
        BY <1>2, <4>1, <4>2
    <3>2. CASE b >= 0
      <4>1. d = b /\ DI!Quotient(a, b) = -q /\ n = -a
        BY <1>1, <1>3, <1>6, <3>2
      <4>2. b * (-q) = -(b * q) /\ b * q \in Int
        BY <1>2
      <4> HIDE DEF d
      <4> QED
        BY <1>2, <4>1, <4>2
    <3> QED
      BY <3>1, <3>2
  <2>2. -m \in Int
    BY <1>2
  <2> QED
    BY <1>2, <1>3, <1>4, <2>1, <2>2
<1> QED
  BY <1>5, <1>6

\* mult_frac divides once more, and is less than one off.
LEMMA MultFrac ==
    ASSUME NEW x \in Int, NEW n \in Int, NEW d \in Int \ {0}
    PROVE  /\ DI!mult_frac(x, n, d) \in Int
           /\ \E r \in Int : /\ x * n = d * DI!mult_frac(x, n, d) + r
                             /\ DI!Abs(r) < DI!Abs(d)
<1> DEFINE q == DI!Quotient(x, d)
           s == DI!Remainder(x, d)
           p == DI!Quotient(s * n, d)
<1>1. q \in Int
  BY QuotientRemains
<1>2. s \in Int /\ x = d * q + s
  BY <1>1 DEF DI!Remainder
<1>3. s * n \in Int
  BY <1>2
<1>4. p \in Int
  BY <1>3, QuotientRemains
<1>5. PICK r \in Int : s * n = d * p + r /\ DI!Abs(r) < DI!Abs(d)
  BY <1>3, QuotientRemains
<1>6. DI!mult_frac(x, n, d) = q * n + p
  BY DEF DI!mult_frac
<1> HIDE DEF q, s, p
<1>7. x * n = d * (q * n + p) + r
  <2>1. (d * q + s) * n = d * (q * n) + s * n
    BY <1>1, <1>2
  <2>2. d * (q * n + p) = d * (q * n) + d * p
    BY <1>1, <1>4
  <2>3. d * (q * n) \in Int /\ d * p \in Int /\ q * n \in Int
    BY <1>1, <1>4
  <2> QED
    BY <1>2, <1>3, <1>5, <2>1, <2>2, <2>3
<1>8. q * n + p \in Int
  BY <1>1, <1>4
<1> QED
  BY <1>5, <1>6, <1>7, <1>8

\* Half a range, and half of it back, multiplied and divided by the range: one
\* g, up to rounding; n is the reading less the bias.
LEMMA HalfRange ==
    ASSUME NEW range \in Int \ {0}, NEW res \in Nat, NEW n \in Int,
           NEW g \in {res, -res},
           n = IF g = res THEN DI!Quotient(range, 2)
                          ELSE DI!Quotient(range, 2) - range
    PROVE  LET m == DI!mult_frac(2 * res, n, range)
           IN  DI!Abs(range) * DI!Abs(m - g) <= res + DI!Abs(range)
<1> DEFINE m == DI!mult_frac(2 * res, n, range)
           half == DI!Quotient(range, 2)
<1>1. half \in Int /\ \E s \in {-1, 0, 1} : range = 2 * half + s
  <2>1. PICK s \in Int : range = 2 * half + s /\ DI!Abs(s) < DI!Abs(2)
    BY QuotientRemains
  <2>2. half \in Int
    BY QuotientRemains
  <2>3. s \in {-1, 0, 1}
    <3>1. DI!Abs(2) = 2
      BY DEF DI!Abs
    <3>2. DI!Abs(s) < 2
      BY <2>1, <3>1
    <3> QED
      BY <3>2 DEF DI!Abs
  <2> QED
    BY <2>1, <2>2, <2>3
<1>0. 2 * res \in Int
  OBVIOUS
<1>2. m \in Int
  BY <1>0, MultFrac
<1>3. PICK r \in Int : (2 * res) * n = range * m + r /\ DI!Abs(r) < DI!Abs(range)
  BY <1>0, MultFrac
<1> HIDE DEF half, m
<1>4. PICK s \in {-1, 0, 1} : range = 2 * half + s
  BY <1>1
<1>5. \E t \in {-1, 0, 1} : range * (m - g) = res * t - r
  <2>1. CASE g = res
    <3>1. 2 * n = range - s
      BY <1>1, <1>4, <2>1 DEF half
    <3>2. (2 * res) * n = res * (2 * n) /\ res * (range - s) = res * range + res * (-s)
      OBVIOUS
    <3>3. range * (m - g) = range * m - res * range
      BY <1>2, <2>1
    <3>4. range * (m - g) = res * (-s) - r
      BY <1>2, <1>3, <3>1, <3>2, <3>3
    <3> QED
      BY <3>4
  <2>2. CASE g # res
    <3>1. 2 * n = -range - s
      BY <1>1, <1>4, <2>2 DEF half
    <3>2. (2 * res) * n = res * (2 * n) /\ res * (-range - s) = -(res * range) + res * (-s)
      OBVIOUS
    <3>3. range * (m - g) = range * m + res * range
      BY <1>2, <2>2
    <3>4. range * (m - g) = res * (-s) - r
      BY <1>2, <1>3, <3>1, <3>2, <3>3
    <3> QED
      BY <3>4
  <2> QED
    BY <2>1, <2>2
<1>6. DI!Abs(range) * DI!Abs(m - g) = DI!Abs(range * (m - g))
  <2>1. \A a, b \in Int : (-a) * b = -(a * b) /\ a * (-b) = -(a * b)
    OBVIOUS
  <2>2. m - g \in Int
    BY <1>2
  <2>3. \A a, b \in Int : /\ a >= 0 /\ b >= 0 => a * b >= 0
                          /\ a >= 0 /\ b <= 0 => a * b <= 0
                          /\ a <= 0 /\ b >= 0 => a * b <= 0
                          /\ a <= 0 /\ b <= 0 => a * b >= 0
    OBVIOUS
  <2> QED
    BY <2>1, <2>2, <2>3 DEF DI!Abs
<1>7. DI!Abs(range * (m - g)) <= res + DI!Abs(range)
  <2>1. PICK t \in {-1, 0, 1} : range * (m - g) = res * t - r
    BY <1>5
  <2>2. res * t \in {-res, 0, res}
    OBVIOUS
  <2> QED
    BY <1>3, <2>1, <2>2 DEF DI!Abs
<1> QED
  BY <1>6, <1>7 DEF m

\* The data the driver calibrates with is that of the pad's calibration report,
\* and the acceleration shown that of the last report that was parsed.
GravityInv ==
    /\ facts \in Calibrations
    /\ mode = "probing" => last = DI!None
    /\ mode = "bound" => accel = DI!Checked(DI!AccelData(facts), AccRange)
    /\ last # DI!None =>
         /\ last \in Reports
         /\ motion.accel =
              DI!mult_frac(accel.numer, last.accel - accel.bias, accel.denom)

\* Whatever a calibration report says of plus and minus one g, a reading of as
\* much shows as one g up to rounding (OneGravity, dualsense_get_calibration_data
\* and mult_frac).
THEOREM OneGravityHolds == DI!Spec => []OneGravity
<1>1. DI!Init => GravityInv
  BY DEF DI!Init, GravityInv
<1>2. GravityInv /\ [DI!Next]_DI!vars => GravityInv'
  <2> SUFFICES ASSUME GravityInv, [DI!Next]_DI!vars PROVE GravityInv'
    OBVIOUS
  <2> USE DEF GravityInv
  <2>1. CASE DI!GetCalibrationData \/ DI!TransferFailed
    <3>1. /\ UNCHANGED <<facts, last>> /\ last = DI!None
          /\ mode' = "bound" => accel' = DI!Checked(DI!AccelData(facts), AccRange)
          /\ mode' # "probing"
      BY <2>1 DEF DI!GetCalibrationData, DI!TransferFailed, DI!ghosts
    <3> QED
      BY <3>1 DEF DI!AccelData, DI!Checked
  <2>2. ASSUME NEW r \in Reports, DI!ParseReport(r) PROVE GravityInv'
    <3>1. /\ UNCHANGED <<facts, accel, mode>> /\ last' = r /\ mode # "probing"
          /\ motion' = DI!Motion(r)
      BY <2>2 DEF DI!ParseReport, DI!Send, DI!device
    <3>2. motion'.accel = DI!mult_frac(accel.numer, r.accel - accel.bias, accel.denom)
      BY <3>1 DEF DI!Motion
    <3> QED
      BY <3>1, <3>2 DEF DI!AccelData, DI!Checked
  <2>3. CASE UNCHANGED <<facts, accel, mode, last, motion>>
    BY <2>3 DEF DI!AccelData, DI!Checked
  <2>4. CASE \/ \E r \in Reports : DI!ParseMinimal(r) \/ DI!Reject(r)
             \/ UNCHANGED DI!vars
    <3>1. UNCHANGED <<facts, accel, mode, last, motion>>
      BY <2>4 DEF DI!ParseMinimal, DI!Reject, DI!device, DI!ghosts, DI!vars
    <3> QED
      BY <2>3, <3>1
  <2> QED
    BY <2>1, <2>2, <2>4 DEF DI!Next
<1>3. GravityInv => OneGravity
  <2> DEFINE range == facts.acc_plus - facts.acc_minus
             half == DI!Quotient(range, 2)
             Near(g) == DI!Abs(range) * DI!Abs(motion.accel - g)
                          <= AccRes + DI!Abs(range)
  <2> SUFFICES ASSUME GravityInv, last # DI!None, mode = "bound", range # 0
               PROVE  /\ last.accel = facts.acc_plus => Near(AccRes)
                      /\ last.accel = facts.acc_minus => Near(-AccRes)
    BY DEF OneGravity, DI!OneGravity
  <2>1. /\ facts.acc_plus \in Int /\ facts.acc_minus \in Int /\ AccRes \in Nat
        /\ range \in Int \ {0} /\ half \in Int
    <3>1. facts.acc_plus \in Int /\ facts.acc_minus \in Int /\ AccRes \in Nat
      BY DriverConstants DEF GravityInv
    <3>2. range \in Int \ {0}
      BY <3>1
    <3> QED
      BY <3>1, <3>2, QuotientRemains
  <2>2. /\ accel.numer = 2 * AccRes /\ accel.denom = range
        /\ accel.bias = facts.acc_plus - half
    BY DEF GravityInv, DI!Checked, DI!AccelData
  <2>3. motion.accel = DI!mult_frac(2 * AccRes, last.accel - accel.bias, range)
    BY <2>2 DEF GravityInv
  <2> HIDE DEF half
  <2>4. ASSUME last.accel = facts.acc_plus PROVE Near(AccRes)
    <3>1. last.accel - accel.bias = half
      BY <2>1, <2>2, <2>4
    <3> QED
      BY <2>1, <2>3, <3>1, HalfRange DEF half
  <2>5. ASSUME last.accel = facts.acc_minus PROVE Near(-AccRes)
    <3>1. last.accel - accel.bias = half - range
      BY <2>1, <2>2, <2>5
    <3>2. AccRes # -AccRes
      BY ReportsAssumption DEF DI!DriverInputAssumption
    <3> QED
      BY <2>1, <2>3, <3>1, <3>2, HalfRange DEF half
  <2> QED
    BY <2>4, <2>5
<1> QED
  BY <1>1, <1>2, <1>3, PTL DEF DI!Spec
-----------------------------------------------------------------------------
(* CRC-32, for reports of any length. *)

\* Induction over the numbers, for a set of them.
LEMMA EveryNumber ==
    ASSUME NEW P \in SUBSET Nat, 0 \in P, \A n \in P : n + 1 \in P
    PROVE  P = Nat
<1> SUFFICES ASSUME Nat \ P # {} PROVE FALSE
  OBVIOUS
<1> DEFINE R == OpToRel(<, Nat)
<1>1. PICK n \in Nat \ P : \A m \in Nat \ P : ~(<<m, n>> \in R)
  <2> HIDE DEF R
  <2>1. IsWellFoundedOn(R, Nat)
    BY NatLessThanWellFounded DEF R
  <2> QED
    BY <2>1, WFMin
<1>2. n # 0 /\ n - 1 \in Nat /\ n - 1 < n /\ (n - 1) + 1 = n
  <2>1. n \in Nat /\ n # 0
    OBVIOUS
  <2> QED
    BY <2>1
<1>3. n - 1 \notin P
  BY <1>1, <1>2
<1>4. <<n - 1, n>> \in R
  BY <1>1, <1>2 DEF OpToRel
<1> QED
  BY <1>1, <1>2, <1>3, <1>4

\* There is what a recursive definition over the numbers defines: the values
\* up to n are a function on 0 .. n, and longer ones agree with it.
Recurs(g, n, a, step) ==
    /\ g[0] = a
    /\ \A m \in 0 .. n - 1 : g[m + 1] = step[m][g[m]]

\* Two such functions are one, as far as both go.
LEMMA RecursOnce ==
    ASSUME NEW S, NEW a \in S, NEW step \in [Nat -> [S -> S]],
           NEW n \in Nat, NEW k \in Nat, NEW g, NEW h,
           Recurs(g, n, a, step), Recurs(h, k, a, step)
    PROVE  \A m \in Nat : m <= n /\ m <= k => g[m] = h[m]
<1> DEFINE P == {m \in Nat : m <= n /\ m <= k => g[m] = h[m]}
<1>1. 0 \in P
  BY DEF Recurs
<1>2. ASSUME NEW m \in P PROVE m + 1 \in P
  <2>1. m + 1 <= n /\ m + 1 <= k => m \in 0 .. n - 1 /\ m \in 0 .. k - 1
    OBVIOUS
  <2> QED
    BY <1>2, <2>1 DEF Recurs
<1>3. P = Nat
  <2> HIDE DEF P
  <2>1. P \in SUBSET Nat
    BY DEF P
  <2> QED
    BY <1>1, <1>2, <2>1, EveryNumber
<1> QED
  BY <1>3

\* For every n there is such a function.
LEMMA RecursSome ==
    ASSUME NEW S, NEW a \in S, NEW step \in [Nat -> [S -> S]]
    PROVE  \A n \in Nat : \E g \in [0 .. n -> S] : Recurs(g, n, a, step)
<1> DEFINE P == {n \in Nat : \E g \in [0 .. n -> S] : Recurs(g, n, a, step)}
<1>1. 0 \in P
  <2>1. [m \in 0 .. 0 |-> a] \in [0 .. 0 -> S]
    OBVIOUS
  <2>2. Recurs([m \in 0 .. 0 |-> a], 0, a, step)
    BY DEF Recurs
  <2> QED
    BY <2>1, <2>2
<1>2. ASSUME NEW n \in P PROVE n + 1 \in P
  <2>1. PICK g \in [0 .. n -> S] : Recurs(g, n, a, step)
    BY <1>2
  <2> DEFINE h == [m \in 0 .. n + 1 |-> IF m = n + 1 THEN step[n][g[n]] ELSE g[m]]
  <2>2. n \in Nat /\ n \in 0 .. n /\ n + 1 \in 0 .. n + 1 /\ n # n + 1
    OBVIOUS
  <2>3. step[n][g[n]] \in S
    BY <2>1, <2>2
  <2>4. h \in [0 .. n + 1 -> S]
    BY <2>1, <2>3
  <2>5. h[n + 1] = step[n][g[n]] /\ \A m \in 0 .. n : h[m] = g[m]
    BY <2>2
  <2>6. Recurs(h, n + 1, a, step)
    <3>1. h[0] = a
      BY <2>1, <2>5 DEF Recurs
    <3>2. ASSUME NEW m \in 0 .. (n + 1) - 1 PROVE h[m + 1] = step[m][h[m]]
      <4>1. CASE m = n
        BY <2>2, <2>5, <4>1
      <4>2. CASE m # n
        <5>1. m \in 0 .. n - 1 /\ m + 1 \in 0 .. n /\ m \in 0 .. n
          BY <4>2
        <5> HIDE DEF h
        <5> QED
          BY <2>1, <2>5, <5>1 DEF Recurs
      <4> QED
        BY <4>1, <4>2
    <3> QED
      BY <3>1, <3>2 DEF Recurs
  <2> HIDE DEF h
  <2> QED
    BY <2>2, <2>4, <2>6
<1>3. P = Nat
  <2> HIDE DEF P
  <2>1. P \in SUBSET Nat
    BY DEF P
  <2> QED
    BY <1>1, <1>2, <2>1, EveryNumber
<1> QED
  BY <1>3

\* f is what the definition defines on all the numbers.
Iterates(f, a, step) == f[0] = a /\ \A n \in Nat : f[n + 1] = step[n][f[n]]

\* There is such an f.
LEMMA Recursion ==
    ASSUME NEW S, NEW a \in S, NEW step \in [Nat -> [S -> S]]
    PROVE  \E f \in [Nat -> S] : Iterates(f, a, step)
<1> DEFINE G(n) == CHOOSE g \in [0 .. n -> S] : Recurs(g, n, a, step)
           f == [n \in Nat |-> G(n)[n]]
<1>1. \A n \in Nat : G(n) \in [0 .. n -> S] /\ Recurs(G(n), n, a, step)
  BY RecursSome
<1> HIDE DEF G
<1>2. f \in [Nat -> S]
  BY <1>1
<1>3. f[0] = a
  BY <1>1 DEF Recurs
<1>4. ASSUME NEW n \in Nat PROVE f[n + 1] = step[n][f[n]]
  <2>1. f[n + 1] = G(n + 1)[n + 1] /\ f[n] = G(n)[n] /\ n + 1 \in Nat
    OBVIOUS
  <2>2. G(n + 1)[n + 1] = step[n][G(n + 1)[n]]
    BY <1>1, <2>1 DEF Recurs
  <2>3. G(n + 1)[n] = G(n)[n]
    <3>1. Recurs(G(n + 1), n + 1, a, step) /\ Recurs(G(n), n, a, step)
      BY <1>1, <2>1
    <3>2. n <= n + 1 /\ n <= n
      OBVIOUS
    <3> QED
      BY <3>1, <3>2, <2>1, RecursOnce
  <2> QED
    BY <2>1, <2>2, <2>3
<1> HIDE DEF f
<1> QED
  BY <1>2, <1>3, <1>4 DEF Iterates
-----------------------------------------------------------------------------
(* The checksums. *)

\* The bits of a hexadecimal digit.
LEMMA Digits ==
    /\ CS!Bits(0) = {} /\ CS!Bits(2) = {1} /\ CS!Bits(3) = {0, 1}
    /\ CS!Bits(4) = {2} /\ CS!Bits(6) = {1, 2} /\ CS!Bits(8) = {3}
    /\ CS!Bits(9) = {0, 3} /\ CS!Bits(10) = {1, 3} /\ CS!Bits(11) = {0, 1, 3}
    /\ CS!Bits(12) = {2, 3} /\ CS!Bits(13) = {0, 2, 3}
    /\ CS!Bits(14) = {1, 2, 3} /\ CS!Bits(15) = {0, 1, 2, 3}
<1>1. 0 .. 3 = {0, 1, 2, 3} /\ 2 ^ 0 = 1 /\ 2 ^ 1 = 2 /\ 2 ^ 2 = 4 /\ 2 ^ 3 = 8
  OBVIOUS
<1>2. ASSUME NEW n \in 0 .. 15, NEW b \in 0 .. 3
      PROVE  b \in CS!Bits(n) <=> \/ b = 0 /\ n % 2 = 1
                                  \/ b = 1 /\ (n \div 2) % 2 = 1
                                  \/ b = 2 /\ (n \div 4) % 2 = 1
                                  \/ b = 3 /\ (n \div 8) % 2 = 1
  <2>1. b \in CS!Bits(n) <=> (n \div 2 ^ b) % 2 = 1
    BY DEF CS!Bits
  <2>2. b \in {0, 1, 2, 3}
    BY <1>1
  <2>3. n \div 1 = n
    OBVIOUS
  <2> QED
    BY <1>1, <2>1, <2>2, <2>3
<1>3. \A n : CS!Bits(n) \subseteq {0, 1, 2, 3}
  BY <1>1 DEF CS!Bits
<1> QED
  BY <1>1, <1>2, <1>3

\* A hexadecimal number, digit by digit.
LEMMA HexBits ==
    ASSUME NEW a, NEW b, NEW c, NEW d, NEW e, NEW f, NEW g, NEW h,
           NEW x \in Int
    PROVE  x \in CS!Hex(<<a, b, c, d, e, f, g, h>>) <=>
               \/ x - 28 \in CS!Bits(a) \/ x - 24 \in CS!Bits(b)
               \/ x - 20 \in CS!Bits(c) \/ x - 16 \in CS!Bits(d)
               \/ x - 12 \in CS!Bits(e) \/ x - 8 \in CS!Bits(f)
               \/ x - 4 \in CS!Bits(g) \/ x \in CS!Bits(h)
<1> DEFINE s == <<a, b, c, d, e, f, g, h>>
<1>1. x \in CS!Hex(s) <=>
          \E i \in 1 .. 8 : x \in {4 * (8 - i) + n : n \in CS!Bits(s[i])}
  BY DEF CS!Hex
<1>2. ASSUME NEW i \in 1 .. 8
      PROVE  x \in {4 * (8 - i) + n : n \in CS!Bits(s[i])}
                <=> x - 4 * (8 - i) \in CS!Bits(s[i])
  <2> HIDE DEF s
  <2>1. CS!Bits(s[i]) \subseteq Int
    BY DEF CS!Bits
  <2> QED
    BY <2>1
<1>3. x \in CS!Hex(s) <=> \E i \in 1 .. 8 : x - 4 * (8 - i) \in CS!Bits(s[i])
  BY <1>1, <1>2
<1>4. /\ s[1] = a /\ s[2] = b /\ s[3] = c /\ s[4] = d
      /\ s[5] = e /\ s[6] = f /\ s[7] = g /\ s[8] = h
  OBVIOUS
<1>5. 1 .. 8 = {1, 2, 3, 4, 5, 6, 7, 8}
  OBVIOUS
<1> HIDE DEF s
<1>6. x \in CS!Hex(s) <=>
           \/ x - 28 \in CS!Bits(s[1]) \/ x - 24 \in CS!Bits(s[2])
           \/ x - 20 \in CS!Bits(s[3]) \/ x - 16 \in CS!Bits(s[4])
           \/ x - 12 \in CS!Bits(s[5]) \/ x - 8 \in CS!Bits(s[6])
           \/ x - 4 \in CS!Bits(s[7]) \/ x - 0 \in CS!Bits(s[8])
  BY <1>3, <1>5
<1> QED
  BY <1>4, <1>6 DEF s

\* The constant 0xEDB88320 of the code, bit by bit.
LEMMA PolynomialIs ==
    CS!Polynomial = {31, 30, 29, 27, 26, 24, 23, 21, 20, 19, 15, 9, 8, 5}
<1> DEFINE B == {31, 30, 29, 27, 26, 24, 23, 21, 20, 19, 15, 9, 8, 5}
<1>1. \A i \in Int : i \in CS!Polynomial <=> i \in B
  BY HexBits, Digits DEF CS!Polynomial
<1>2. CS!Polynomial \subseteq Int /\ B \subseteq Int
  BY DEF CS!Polynomial, CS!Hex, CS!Bits
<1> HIDE DEF B
<1>3. CS!Polynomial = B
  BY <1>1, <1>2
<1> QED
  BY <1>3 DEF B

\* Bit 0 of the polynomial is that of x^31, and x^32 is left out.
LEMMA PolynomialBits ==
    \A i \in Int : i \in CS!Polynomial <=> i # -1 /\ 31 - i \in CS!Generator
  BY PolynomialIs DEF CS!Generator

\* w is v after a round of the code.
Halves(w, v) ==
    \A i \in Int :
        i \in w <=> ~(i # -1 /\ i + 1 \in v
                        <=> 0 \in v /\ i \in {31, 30, 29, 27, 26, 24, 23, 21,
                                             20, 19, 15, 9, 8, 5})

\* A round of the code, bit by bit.
LEMMA RoundBits ==
    ASSUME NEW v \in SUBSET Int
    PROVE  CS!Round(v) \in SUBSET Int /\ Halves(CS!Round(v), v)
<1>1. CS!Shift(v) \subseteq Int
  BY DEF CS!Shift
<1>2. \A i \in Int : i \in CS!Shift(v) <=> i # -1 /\ i + 1 \in v
  BY DEF CS!Shift
<1>3. CS!Polynomial \subseteq Int
  BY PolynomialIs
<1>4. \A i \in Int : i \in CS!Round(v)
          <=> ~(i \in CS!Shift(v) <=> 0 \in v /\ i \in CS!Polynomial)
  BY DEF CS!Round, CS!Xor
<1>5. CS!Round(v) \in SUBSET Int
  BY <1>1, <1>3 DEF CS!Round, CS!Xor
<1> QED
  BY <1>2, <1>4, <1>5, PolynomialIs DEF Halves

\* h is the course of the code's rounds from w.
Rounds(h, w) ==
    /\ h \in [Nat -> SUBSET Int] /\ h[0] = w
    /\ \A n \in Nat : h[n + 1] = CS!Round(h[n])

\* The body of the loop over the bytes (src/src/utils.h) is eight rounds.
LEMMA UpdateRounds ==
    ASSUME NEW w \in SUBSET Int, NEW byte \in SUBSET Int
    PROVE  \E h : Rounds(h, CS!Xor(w, byte)) /\ CS!Update(w, byte) = h[8]
<1> DEFINE first == CS!Xor(w, byte)
           step == [n \in Nat |-> [v \in SUBSET Int |-> CS!Round(v)]]
           Rec(f) == f = [n \in Nat |-> IF n = 0 THEN first ELSE CS!Round(f[n - 1])]
           after == CHOOSE f : Rec(f)
<1>1. \A v \in SUBSET Int : CS!Round(v) \in SUBSET Int
  BY RoundBits
<1>2. step \in [Nat -> [SUBSET Int -> SUBSET Int]]
  BY <1>1
<1>3. first \in SUBSET Int
  BY DEF CS!Xor
<1>4. \A n \in Nat : \A v \in SUBSET Int : step[n][v] = CS!Round(v)
  OBVIOUS
<1>5. CS!Update(w, byte) = after[8]
  BY DEF CS!Update
<1> HIDE DEF step, first
<1>6. PICK f \in [Nat -> SUBSET Int] :
          f[0] = first /\ \A n \in Nat : f[n + 1] = step[n][f[n]]
  <2> DEFINE S == SUBSET Int
  <2>1. first \in S /\ step \in [Nat -> [S -> S]]
    BY <1>2, <1>3
  <2> HIDE DEF S
  <2>2. \E f \in [Nat -> S] : Iterates(f, first, step)
    BY <2>1, Recursion
  <2> QED
    BY <2>2 DEF S, Iterates
<1>7. \A n \in Nat : f[n + 1] = CS!Round(f[n])
  BY <1>4, <1>6
<1>8. Rec(f)
  <2>1. ASSUME NEW n \in Nat
        PROVE  f[n] = IF n = 0 THEN first ELSE CS!Round(f[n - 1])
    <3>1. CASE n = 0
      BY <1>6, <3>1
    <3>2. CASE n # 0
      <4>1. n - 1 \in Nat /\ (n - 1) + 1 = n
        BY <3>2
      <4> QED
        BY <1>7, <3>2, <4>1
    <3> QED
      BY <3>1, <3>2
  <2> QED
    BY <2>1
<1>9. Rec(after)
  <2> HIDE DEF Rec
  <2> QED
    BY <1>8
<1>10. /\ after[0] = first
       /\ \A n \in Nat : after[n + 1] = CS!Round(after[n])
       /\ after = [n \in Nat |-> after[n]]
  <2> HIDE DEF after
  <2>1. ASSUME NEW n \in Nat PROVE after[n + 1] = CS!Round(after[n])
    <3>1. n + 1 \in Nat /\ n + 1 # 0 /\ (n + 1) - 1 = n
      OBVIOUS
    <3> QED
      BY <1>9, <3>1
  <2>2. after[0] = first
    BY <1>9
  <2>3. after = [n \in Nat |-> after[n]]
    BY <1>9
  <2> QED
    BY <2>1, <2>2, <2>3
<1> HIDE DEF after
<1>11. after \in [Nat -> SUBSET Int]
  <2> DEFINE P == {n \in Nat : after[n] \in SUBSET Int}
  <2>1. 0 \in P
    BY <1>3, <1>10
  <2>2. \A n \in P : n + 1 \in P
    BY <1>1, <1>10
  <2>3. P = Nat
    <3>1. P \in SUBSET Nat
      OBVIOUS
    <3> HIDE DEF P
    <3> QED
      BY <2>1, <2>2, <3>1, EveryNumber
  <2> QED
    BY <1>10, <2>3
<1> QED
  BY <1>5, <1>10, <1>11 DEF first, Rounds

\* w is what is left of v when the generator has been taken off at k.
Takes(w, v, k) ==
    \A x \in Int :
        x \in w <=> ~(x \in v <=> k \in v /\ x - k + 32 \in CS!Generator)

\* A step of the division, exponent by exponent.
LEMMA ReducedBits ==
    ASSUME NEW v \in SUBSET Int, NEW k \in Int
    PROVE  CS!Reduced(v, k) \in SUBSET Int /\ Takes(CS!Reduced(v, k), v, k)
<1> DEFINE moved == {e + k - 32 : e \in CS!Generator}
<1>1. CS!Generator \subseteq Int
  BY DEF CS!Generator
<1>2. moved \subseteq Int
  BY <1>1
<1>3. \A x \in Int : x \in moved <=> x - k + 32 \in CS!Generator
  <2> TAKE x \in Int
  <2>1. ASSUME x \in moved PROVE x - k + 32 \in CS!Generator
    <3>1. PICK e \in CS!Generator : x = e + k - 32
      BY <2>1
    <3>2. e \in Int /\ x - k + 32 = e
      BY <1>1, <3>1
    <3> QED
      BY <3>2
  <2>2. ASSUME x - k + 32 \in CS!Generator PROVE x \in moved
    <3>1. x = (x - k + 32) + k - 32
      OBVIOUS
    <3> QED
      BY <2>2, <3>1
  <2> QED
    BY <2>1, <2>2
<1>4. CS!Reduced(v, k) = IF k \in v THEN CS!Xor(v, moved) ELSE v
  BY DEF CS!Reduced
<1> HIDE DEF moved
<1>5. CASE k \in v
  BY <1>2, <1>3, <1>4, <1>5 DEF CS!Xor, Takes
<1>6. CASE k \notin v
  BY <1>4, <1>6 DEF Takes
<1> QED
  BY <1>5, <1>6

\* f is the course of the division of p, of this degree.
Divides(f, p, degree) ==
    /\ f \in [Nat -> SUBSET Int] /\ f[0] = p
    /\ \A n \in Nat : f[n + 1] = CS!Reduced(f[n], degree - n)

\* The remainder is what the division has come to at degree 31.
LEMMA RemainderSteps ==
    ASSUME NEW p \in SUBSET Int, NEW d \in Int, d >= 31
    PROVE  \E f : Divides(f, p, d) /\ CS!Remainder(p, d) = f[d - 31]
<1> DEFINE step == [n \in Nat |-> [v \in SUBSET Int |-> CS!Reduced(v, d - n)]]
           Rec(f) == f = [n \in Nat |-> IF n = 0 THEN p
                                        ELSE CS!Reduced(f[n - 1], d + 1 - n)]
           after == CHOOSE f : Rec(f)
<1>1. \A v \in SUBSET Int : \A n \in Nat : CS!Reduced(v, d - n) \in SUBSET Int
  BY ReducedBits
<1>2. step \in [Nat -> [SUBSET Int -> SUBSET Int]]
  BY <1>1
<1>4. \A n \in Nat : \A v \in SUBSET Int : step[n][v] = CS!Reduced(v, d - n)
  OBVIOUS
<1>5. CS!Remainder(p, d) = after[d - 31]
  BY DEF CS!Remainder
<1> HIDE DEF step
<1>6. PICK f \in [Nat -> SUBSET Int] :
          f[0] = p /\ \A n \in Nat : f[n + 1] = step[n][f[n]]
  <2> DEFINE S == SUBSET Int
  <2>1. p \in S /\ step \in [Nat -> [S -> S]]
    BY <1>2
  <2> HIDE DEF S
  <2>2. \E f \in [Nat -> S] : Iterates(f, p, step)
    BY <2>1, Recursion
  <2> QED
    BY <2>2 DEF S, Iterates
<1>7. \A n \in Nat : f[n + 1] = CS!Reduced(f[n], d - n)
  BY <1>4, <1>6
<1>8. Rec(f)
  <2>1. ASSUME NEW n \in Nat
        PROVE  f[n] = IF n = 0 THEN p ELSE CS!Reduced(f[n - 1], d + 1 - n)
    <3>1. CASE n = 0
      BY <1>6, <3>1
    <3>2. CASE n # 0
      <4>1. n - 1 \in Nat /\ (n - 1) + 1 = n /\ d - (n - 1) = d + 1 - n
        BY <3>2
      <4> QED
        BY <1>7, <3>2, <4>1
    <3> QED
      BY <3>1, <3>2
  <2> QED
    BY <2>1
<1>9. Rec(after)
  <2> HIDE DEF Rec
  <2> QED
    BY <1>8
<1>10. /\ after[0] = p
       /\ \A n \in Nat : after[n + 1] = CS!Reduced(after[n], d - n)
       /\ after = [n \in Nat |-> after[n]]
  <2> HIDE DEF after
  <2>1. ASSUME NEW n \in Nat PROVE after[n + 1] = CS!Reduced(after[n], d - n)
    <3>1. /\ n + 1 \in Nat /\ n + 1 # 0 /\ (n + 1) - 1 = n
          /\ d + 1 - (n + 1) = d - n
      OBVIOUS
    <3> QED
      BY <1>9, <3>1
  <2>2. after[0] = p
    BY <1>9
  <2>3. after = [n \in Nat |-> after[n]]
    BY <1>9
  <2> QED
    BY <2>1, <2>2, <2>3
<1> HIDE DEF after
<1>11. after \in [Nat -> SUBSET Int]
  <2> DEFINE P == {n \in Nat : after[n] \in SUBSET Int}
  <2>1. 0 \in P
    BY <1>10
  <2>2. \A n \in P : n + 1 \in P
    BY <1>1, <1>10
  <2>3. P = Nat
    <3>1. P \in SUBSET Nat
      OBVIOUS
    <3> HIDE DEF P
    <3> QED
      BY <2>1, <2>2, <3>1, EveryNumber
  <2> QED
    BY <1>10, <2>3
<1> QED
  BY <1>5, <1>10, <1>11 DEF Divides

\* q is p, eight powers higher, with the bits of low.
Moved(q, p, low) == \A x \in Int : x \in q <=> ~(x - 8 \in p <=> x \in low)

\* The bits of a byte where they enter the division.
Entering(byte) == {39 - i : i \in byte}

\* One more byte moves the dividend up by eight and adds its bits below.
LEMMA DividendGrows ==
    ASSUME NEW m \in Seq(SUBSET (0 .. 7)), NEW byte \in SUBSET (0 .. 7)
    PROVE  /\ CS!Dividend(m) \subseteq 0 .. 8 * Len(m) + 31
           /\ Moved(CS!Dividend(Append(m, byte)), CS!Dividend(m),
                    Entering(byte))
<1> DEFINE L == 8 * Len(m)
           l == Append(m, byte)
           bits(s, n) == {i \in 0 .. n - 1 : i % 8 \in s[i \div 8 + 1]}
           up(s, n) == {n + 31 - i : i \in bits(s, n)}
<1>1. Len(m) \in Nat /\ Len(l) = Len(m) + 1 /\ L \in Nat /\ 8 * Len(l) = L + 8
  OBVIOUS
<1>2. /\ CS!Dividend(m) = CS!Xor(up(m, L), L .. L + 31)
      /\ CS!Dividend(l) = CS!Xor(up(l, L + 8), L + 8 .. L + 8 + 31)
  <2>1. CS!Dividend(m) = CS!Xor(up(m, L), L .. L + 31)
    BY DEF CS!Dividend
  <2>2. CS!Dividend(l) = CS!Xor(up(l, 8 * Len(l)), 8 * Len(l) .. 8 * Len(l) + 31)
    BY DEF CS!Dividend
  <2> HIDE DEF up, l
  <2> QED
    BY <1>1, <2>1, <2>2
<1>3. \A i \in 0 .. L - 1 : l[i \div 8 + 1] = m[i \div 8 + 1]
  <2> TAKE i \in 0 .. L - 1
  <2>1. i \div 8 + 1 \in 1 .. Len(m)
    BY <1>1
  <2> QED
    BY <2>1
<1>4. \A i \in L .. L + 7 : i \div 8 + 1 = Len(m) + 1 /\ i % 8 = i - L
  BY <1>1
<1>5. l[Len(m) + 1] = byte
  OBVIOUS
<1>6. \A x \in Int : x \in up(m, L) <=> L + 31 - x \in bits(m, L)
  <2> HIDE DEF L
  <2> QED
    BY <1>1
<1>7. \A x \in Int : x \in up(l, L + 8) <=> L + 39 - x \in bits(l, L + 8)
  <2> HIDE DEF L, l
  <2> QED
    BY <1>1
<1>8. \A i \in Int : i \in bits(l, L + 8)
                 <=> i \in bits(m, L) \/ i - L \in byte
  <2> TAKE i \in Int
  <2> DEFINE low == i % 8
             at == i \div 8 + 1
  <2>1. /\ i \in bits(l, L + 8) <=> i \in 0 .. L + 8 - 1 /\ low \in l[at]
        /\ i \in bits(m, L) <=> i \in 0 .. L - 1 /\ low \in m[at]
    OBVIOUS
  <2>2. i \in 0 .. L - 1 => l[at] = m[at]
    BY <1>3
  <2>3. i \in L .. L + 7 => l[at] = byte /\ low = i - L
    BY <1>4, <1>5
  <2>4. i - L \in byte => i - L \in 0 .. 7
    OBVIOUS
  <2> HIDE DEF bits, low, at, L, l
  <2>5. /\ i \in 0 .. L + 8 - 1 <=> i \in 0 .. L - 1 \/ i \in L .. L + 7
        /\ i - L \in 0 .. 7 <=> i \in L .. L + 7
        /\ ~(i \in 0 .. L - 1 /\ i \in L .. L + 7)
    BY <1>1
  <2> QED
    BY <2>1, <2>2, <2>3, <2>4, <2>5
<1>9. bits(m, L) \subseteq 0 .. L - 1
  OBVIOUS
<1>10. \A x \in Int : x \in Entering(byte) <=> 39 - x \in byte
  BY DEF Entering
<1> HIDE DEF bits, up, L, l
<1>11. CS!Dividend(m) \subseteq 0 .. L + 31
  <2>1. up(m, L) \subseteq 0 .. L + 31
    BY <1>1, <1>9 DEF up
  <2>2. L .. L + 31 \subseteq 0 .. L + 31
    BY <1>1
  <2> QED
    BY <1>2, <2>1, <2>2 DEF CS!Xor
<1>12. ASSUME NEW x \in Int
       PROVE  x \in CS!Dividend(l)
                <=> ~(x - 8 \in CS!Dividend(m) <=> x \in Entering(byte))
  <2>1. x \in CS!Dividend(l)
            <=> ~(x \in up(l, L + 8) <=> x \in L + 8 .. L + 8 + 31)
    BY <1>2 DEF CS!Xor
  <2>2. x - 8 \in CS!Dividend(m)
            <=> ~(x - 8 \in up(m, L) <=> x - 8 \in L .. L + 31)
    BY <1>2 DEF CS!Xor
  <2>3. x \in L + 8 .. L + 8 + 31 <=> x - 8 \in L .. L + 31
    BY <1>1
  <2>4. x - 8 \in up(m, L) <=> L + 39 - x \in bits(m, L)
    <3>1. x - 8 \in Int /\ L + 31 - (x - 8) = L + 39 - x
      BY <1>1
    <3> QED
      BY <1>6, <3>1
  <2>5. x \in up(l, L + 8)
            <=> L + 39 - x \in bits(m, L) \/ x \in Entering(byte)
    <3>1. L + 39 - x \in Int /\ (L + 39 - x) - L = 39 - x
      BY <1>1
    <3> QED
      BY <1>7, <1>8, <1>10, <3>1
  <2>6. ~(L + 39 - x \in bits(m, L) /\ x \in Entering(byte))
    <3>1. x \in Entering(byte) => 39 - x \in 0 .. 7
      BY <1>10
    <3>2. 39 - x \in 0 .. 7 => L + 39 - x \notin 0 .. L - 1
      BY <1>1
    <3> QED
      BY <1>9, <3>1, <3>2
  <2> QED
    BY <2>1, <2>2, <2>3, <2>4, <2>5, <2>6
<1> QED
  BY <1>11, <1>12 DEF L, l, Moved

\* A remainder as the code holds it, the highest power in bit 0.
Reflected(r) == {31 - e : e \in r}
\* What the division of a message leaves.
Rest(m) == CS!Remainder(CS!Dividend(m), 8 * Len(m) + 31)

\* v is p, reflected about k.
Mirror(v, p, k) == \A i \in Int : i \in v <=> k - i \in p

\* Eight rounds of the code are the division's last eight steps: at each the
\* word is what is left of the dividend, reflected.
LEMMA ByteRounds ==
    ASSUME NEW L \in Nat, NEW q, NEW g, Divides(g, q, L + 39),
           NEW v, NEW h, Rounds(h, v), Mirror(v, g[L], 39),
           g[L] \subseteq 8 .. 39
    PROVE  Mirror(h[8], g[L + 8], 31) /\ g[L + 8] \subseteq 0 .. 31
<1> DEFINE Holds(j) == /\ Mirror(h[j], g[L + j], 39 - j)
                       /\ g[L + j] \subseteq 8 - j .. 39 - j
           P == {j \in Nat : j <= 8 => Holds(j)}
<1>1. 0 \in P
  <2>1. L + 0 = L /\ 8 - 0 = 8 /\ 39 - 0 = 39 /\ h[0] = v
    BY DEF Rounds
  <2>2. Holds(0)
    BY <2>1
  <2> HIDE DEF Holds
  <2> QED
    BY <2>2
<1>2. ASSUME NEW j \in P PROVE j + 1 \in P
  <2> SUFFICES ASSUME j + 1 <= 8 PROVE Holds(j + 1)
    OBVIOUS
  <2>1. j \in Nat /\ L + j \in Nat /\ L + (j + 1) = (L + j) + 1 /\ j <= 8
        /\ L + 39 - (L + j) = 39 - j
    OBVIOUS
  <2> DEFINE u == h[j]
             w == h[j + 1]
             p == g[L + j]
             r == g[L + (j + 1)]
  <2>2. Mirror(u, p, 39 - j) /\ p \subseteq 8 - j .. 39 - j
    BY <2>1
  <2>3. r = CS!Reduced(p, 39 - j) /\ w = CS!Round(u)
    BY <2>1 DEF Divides, Rounds
  <2>4. u \in SUBSET Int /\ p \in SUBSET Int /\ r \in SUBSET Int /\ w \in SUBSET Int
    BY <2>1 DEF Divides, Rounds
  <2> HIDE DEF u, w, p, r
  <2>5. \A x \in Int : x \in r
            <=> ~(x \in p <=> 39 - j \in p /\ x - (39 - j) + 32 \in CS!Generator)
    <3>1. 39 - j \in Int
      BY <2>1
    <3>2. Takes(CS!Reduced(p, 39 - j), p, 39 - j)
      BY <2>4, <3>1, ReducedBits
    <3> QED
      BY <2>3, <3>2 DEF Takes
  <2>6. \A i \in Int : i \in w
            <=> ~(i # -1 /\ i + 1 \in u <=> 0 \in u /\ i \in CS!Polynomial)
    BY <2>3, <2>4, RoundBits, PolynomialIs DEF Halves
  <2>7. 0 \in u <=> 39 - j \in p
    BY <2>1, <2>2 DEF Mirror
  <2>8. ASSUME NEW i \in Int PROVE i \in w <=> 39 - (j + 1) - i \in r
    <3> DEFINE x == 39 - (j + 1) - i
    <3>1. x \in Int /\ 39 - j - (i + 1) = x /\ x - (39 - j) + 32 = 31 - i
          /\ i + 1 \in Int
      BY <2>1
    <3>2. i + 1 \in u <=> x \in p
      BY <2>2, <3>1 DEF Mirror
    <3>3. i \in CS!Polynomial <=> i # -1 /\ 31 - i \in CS!Generator
      BY PolynomialBits
    <3>4. x \in r <=> ~(x \in p <=> 39 - j \in p /\ 31 - i \in CS!Generator)
      BY <2>5, <3>1
    <3>5. i = -1 => x = 39 - j /\ 31 - i \in CS!Generator
      BY <2>1 DEF CS!Generator
    <3> HIDE DEF x
    <3> QED
      BY <2>6, <2>7, <3>2, <3>3, <3>4, <3>5 DEF x
  <2>9. r \subseteq 8 - (j + 1) .. 39 - (j + 1)
    <3> SUFFICES ASSUME NEW x \in r PROVE x \in 8 - (j + 1) .. 39 - (j + 1)
      OBVIOUS
    <3>1. x \in Int /\ 32 \in CS!Generator /\ CS!Generator \subseteq 0 .. 32
      BY <2>4 DEF CS!Generator
    <3>2. ~(x \in p <=> 39 - j \in p /\ x - (39 - j) + 32 \in CS!Generator)
      BY <2>5, <3>1
    <3>3. CASE x = 39 - j
      <4>1. x - (39 - j) + 32 = 32
        BY <2>1, <3>3
      <4> QED
        BY <3>1, <3>2, <3>3, <4>1
    <3>4. CASE x # 39 - j
      <4>1. x \in p => x \in 8 - j .. 39 - j
        BY <2>2
      <4>2. x - (39 - j) + 32 \in CS!Generator => x - (39 - j) + 32 \in 0 .. 32
        BY <3>1
      <4> QED
        BY <2>1, <3>1, <3>2, <3>4, <4>1, <4>2
    <3> QED
      BY <3>3, <3>4
  <2> QED
    BY <2>8, <2>9 DEF w, r, Mirror
<1>3. P = Nat
  <2>1. P \in SUBSET Nat
    OBVIOUS
  <2> HIDE DEF P
  <2> QED
    BY <1>1, <1>2, <2>1, EveryNumber
<1>4. Holds(8)
  <2>1. 8 \in P
    BY <1>3
  <2> HIDE DEF Holds
  <2> QED
    BY <2>1
<1>5. 39 - 8 = 31 /\ 8 - 8 = 0
  OBVIOUS
<1> QED
  BY <1>4, <1>5

\* Until the division comes to the bits of the last byte, it goes as without
\* that byte, eight powers higher.
LEMMA SameSteps ==
    ASSUME NEW L \in Nat, NEW low \in SUBSET (32 .. 39), NEW p, NEW q,
           NEW f, Divides(f, p, L + 31), NEW g, Divides(g, q, L + 39), Moved(q, p, low)
    PROVE  Moved(g[L], f[L], low)
<1> DEFINE Same(n) == Moved(g[n], f[n], low)
           P == {n \in Nat : n <= L => Same(n)}
<1>1. 0 \in P
  BY DEF Divides
<1>2. ASSUME NEW n \in P PROVE n + 1 \in P
  <2> SUFFICES ASSUME n + 1 <= L, NEW x \in Int
               PROVE  x \in g[n + 1]
                          <=> ~(x - 8 \in f[n + 1] <=> x \in low)
    BY DEF Moved
  <2> DEFINE k == L + 39 - n
  <2>1. /\ n \in Nat /\ n <= L /\ k \in Int /\ k - 8 \in Int /\ k \notin 32 .. 39
        /\ L + 31 - n = k - 8 /\ x - 8 \in Int
        /\ (x - 8) - (k - 8) + 32 = x - k + 32
    OBVIOUS
  <2>2. Same(n)
    BY <2>1
  <2>3. g[n + 1] = CS!Reduced(g[n], k) /\ f[n + 1] = CS!Reduced(f[n], k - 8)
    BY <2>1 DEF Divides
  <2> HIDE DEF k
  <2>4. k \in g[n] <=> k - 8 \in f[n]
    BY <2>1, <2>2 DEF Moved
  <2>5. g[n] \in SUBSET Int /\ f[n] \in SUBSET Int
    BY <2>1 DEF Divides
  <2>6. x \in g[n + 1]
            <=> ~(x \in g[n] <=> k \in g[n] /\ x - k + 32 \in CS!Generator)
    <3>1. Takes(g[n + 1], g[n], k)
      BY <2>1, <2>3, <2>5, ReducedBits
    <3> QED
      BY <3>1 DEF Takes
  <2>7. x - 8 \in f[n + 1]
            <=> ~(x - 8 \in f[n] <=> k - 8 \in f[n]
                                      /\ x - k + 32 \in CS!Generator)
    <3>1. Takes(f[n + 1], f[n], k - 8)
      BY <2>1, <2>3, <2>5, ReducedBits
    <3> QED
      BY <2>1, <3>1 DEF Takes
  <2> QED
    BY <2>2, <2>4, <2>6, <2>7 DEF Moved
<1>3. P = Nat
  <2>1. P \in SUBSET Nat
    OBVIOUS
  <2> HIDE DEF P
  <2> QED
    BY <1>1, <1>2, <2>1, EveryNumber
<1>4. L \in P
  BY <1>3
<1> HIDE DEF Same
<1>5. Same(L)
  BY <1>4
<1> QED
  BY <1>5 DEF Same

\* One pass of the loop over the bytes is one more byte in the message.
LEMMA RestGrows ==
    ASSUME NEW m \in Seq(SUBSET (0 .. 7)), NEW byte \in SUBSET (0 .. 7),
           Rest(m) \subseteq 0 .. 31
    PROVE  /\ Rest(Append(m, byte)) \subseteq 0 .. 31
           /\ CS!Update(Reflected(Rest(m)), byte)
                  = Reflected(Rest(Append(m, byte)))
<1> DEFINE L == 8 * Len(m)
           w == Reflected(Rest(m))
           longer == Append(m, byte)
<1>1. L \in Nat /\ 8 * Len(longer) + 31 = L + 39
      /\ L + 31 \in Int /\ L + 31 >= 31 /\ L + 39 \in Int /\ L + 39 >= 31
      /\ (L + 31) - 31 = L /\ (L + 39) - 31 = L + 8
  OBVIOUS
<1>2. /\ CS!Dividend(m) \in SUBSET Int /\ CS!Dividend(longer) \in SUBSET Int
      /\ Moved(CS!Dividend(longer), CS!Dividend(m), Entering(byte))
  <2>1. longer \in Seq(SUBSET (0 .. 7))
    OBVIOUS
  <2>2. CS!Dividend(longer) \subseteq 0 .. 8 * Len(longer) + 31
    BY <2>1, DividendGrows
  <2> QED
    BY <2>2, DividendGrows
<1> HIDE DEF L, longer
<1>3. PICK f : /\ Divides(f, CS!Dividend(m), L + 31)
               /\ CS!Remainder(CS!Dividend(m), L + 31) = f[L]
  <2> DEFINE d == L + 31
  <2>1. d \in Int /\ d >= 31 /\ d - 31 = L
    BY <1>1
  <2> HIDE DEF d
  <2>2. \E r : Divides(r, CS!Dividend(m), d)
               /\ CS!Remainder(CS!Dividend(m), d) = r[d - 31]
    BY <1>2, <2>1, RemainderSteps
  <2> QED
    BY <2>1, <2>2 DEF d
<1>4. PICK g : /\ Divides(g, CS!Dividend(longer), L + 39)
               /\ CS!Remainder(CS!Dividend(longer), L + 39) = g[L + 8]
  <2> DEFINE d == L + 39
  <2>1. d \in Int /\ d >= 31 /\ d - 31 = L + 8
    BY <1>1
  <2> HIDE DEF d
  <2>2. \E r : Divides(r, CS!Dividend(longer), d)
               /\ CS!Remainder(CS!Dividend(longer), d) = r[d - 31]
    BY <1>2, <2>1, RemainderSteps
  <2> QED
    BY <2>1, <2>2 DEF d
<1>5. Rest(m) = f[L] /\ Rest(longer) = g[L + 8]
  BY <1>1, <1>3, <1>4 DEF Rest, L
<1>6. Entering(byte) \subseteq 32 .. 39
      /\ \A i \in Int : 39 - i \in Entering(byte) <=> i \in byte
  BY DEF Entering
<1>7. Moved(g[L], f[L], Entering(byte))
  BY <1>1, <1>2, <1>3, <1>4, <1>6, SameSteps
<1>8. w \in SUBSET Int /\ \A i \in Int : i \in w <=> 31 - i \in f[L]
  <2>1. f[L] \subseteq Int
    BY <1>1, <1>3 DEF Divides
  <2> QED
    BY <1>5, <2>1 DEF Reflected
<1>9. PICK h : Rounds(h, CS!Xor(w, byte)) /\ CS!Update(w, byte) = h[8]
  <2>1. byte \in SUBSET Int
    OBVIOUS
  <2> QED
    BY <1>8, <2>1, UpdateRounds
<1> HIDE DEF w
<1>10. Mirror(CS!Xor(w, byte), g[L], 39)
  <2> SUFFICES ASSUME NEW i \in Int
               PROVE  i \in CS!Xor(w, byte) <=> 39 - i \in g[L]
    BY DEF Mirror
  <2>1. 39 - i \in Int /\ (39 - i) - 8 = 31 - i
    OBVIOUS
  <2>2. 39 - i \in g[L] <=> ~(31 - i \in f[L] <=> i \in byte)
    BY <1>6, <1>7, <2>1 DEF Moved
  <2> QED
    BY <1>8, <2>2 DEF CS!Xor
<1>11. g[L] \subseteq 8 .. 39
  <2> SUFFICES ASSUME NEW x \in g[L] PROVE x \in 8 .. 39
    OBVIOUS
  <2>1. x \in Int
    BY <1>1, <1>4 DEF Divides
  <2>2. x - 8 \in f[L] \/ x \in 32 .. 39
    BY <1>6, <1>7, <2>1 DEF Moved
  <2>3. x - 8 \in f[L] => x - 8 \in 0 .. 31
    BY <1>5
  <2> QED
    BY <2>1, <2>2, <2>3
<1>12. Mirror(h[8], g[L + 8], 31) /\ g[L + 8] \subseteq 0 .. 31
  BY <1>1, <1>4, <1>9, <1>10, <1>11, ByteRounds
<1>13. h[8] = Reflected(g[L + 8])
  <2>1. h[8] \subseteq Int
    BY <1>9 DEF Rounds
  <2> DEFINE r == g[L + 8]
  <2>2. r \subseteq 0 .. 31 /\ Mirror(h[8], r, 31)
    BY <1>12
  <2> HIDE DEF r
  <2>3. \A i \in Int : i \in Reflected(r) <=> 31 - i \in r
    BY <2>2 DEF Reflected
  <2>4. Reflected(r) \subseteq Int
    BY <2>2 DEF Reflected
  <2>5. h[8] = Reflected(r)
    BY <2>1, <2>2, <2>3, <2>4 DEF Mirror
  <2> QED
    BY <2>5 DEF r
<1> QED
  BY <1>5, <1>9, <1>12, <1>13 DEF w, longer

\* No byte yet: the inverted first bits are all there is.
LEMMA RestOfNone == Rest(<<>>) = 0 .. 31
<1>1. CS!Dividend(<<>>) = 0 .. 31
  <2>1. Len(<<>>) = 0 /\ 8 * 0 = 0 /\ 0 .. 0 - 1 = {} /\ 0 .. 0 + 31 = 0 .. 31
    OBVIOUS
  <2> QED
    BY <2>1 DEF CS!Dividend, CS!Xor
<1>2. CS!Remainder(0 .. 31, 31) = 0 .. 31
  <2>1. 0 .. 31 \in SUBSET Int /\ 31 \in Int /\ 31 >= 31 /\ 31 - 31 = 0
    OBVIOUS
  <2> QED
    BY <2>1, RemainderSteps DEF Divides
<1>3. 8 * Len(<<>>) + 31 = 31
  OBVIOUS
<1> QED
  BY <1>1, <1>2, <1>3 DEF Rest

-----------------------------------------------------------------------------
\* The seeds of the code are what its rounds make of the header, which the
\* code never sees.
LEMMA OutputSeed == CS!Update(0 .. 31, CS!Header["output"]) = CS!Seed["output"]
<1>1. CS!Header["output"] = {1, 5, 7} /\ 0 .. 31 \in SUBSET Int
  BY DEF CS!Header
<1>2. PICK h : /\ Rounds(h, CS!Xor(0 .. 31, {1, 5, 7}))
               /\ CS!Update(0 .. 31, {1, 5, 7}) = h[8]
  BY UpdateRounds
<1>3. \A i \in Int : i \in h[0] <=> i \in {0, 2, 3, 4, 6, 8, 9, 10, 11, 12,
                                           13,
                                           14,
                                           15,
                                           16,
                                           17,
                                           18,
                                           19,
                                           20,
                                           21,
                                           22,
                                           23,
                                           24,
                                           25,
                                           26,
                                           27,
                                           28,
                                           29,
                                           30,
                                           31}
  BY <1>2 DEF Rounds, CS!Xor
<1>4. \A i \in Int : i \in h[1] <=> i \in {1, 2, 3, 7, 10, 11, 12, 13, 14,
                                           16,
                                           17,
                                           18,
                                           22,
                                           25,
                                           28,
                                           31}
  <2>1. Halves(h[1], h[0])
    BY <1>2, RoundBits DEF Rounds
  <2> QED
    BY <1>3, <2>1 DEF Halves
<1>5. \A i \in Int : i \in h[2] <=> i \in {0, 1, 2, 6, 9, 10, 11, 12, 13,
                                           15,
                                           16,
                                           17,
                                           21,
                                           24,
                                           27,
                                           30}
  <2>1. Halves(h[2], h[1])
    BY <1>2, RoundBits DEF Rounds
  <2> QED
    BY <1>4, <2>1 DEF Halves
<1>6. \A i \in Int : i \in h[3] <=> i \in {0, 1, 10, 11, 12, 14, 16, 19,
                                           21,
                                           24,
                                           27,
                                           30,
                                           31}
  <2>1. Halves(h[3], h[2])
    BY <1>2, RoundBits DEF Rounds
  <2> QED
    BY <1>5, <2>1 DEF Halves
<1>7. \A i \in Int : i \in h[4] <=> i \in {0, 5, 8, 10, 11, 13, 18, 19, 21,
                                           24,
                                           27,
                                           31}
  <2>1. Halves(h[4], h[3])
    BY <1>2, RoundBits DEF Rounds
  <2> QED
    BY <1>6, <2>1 DEF Halves
<1>8. \A i \in Int : i \in h[5] <=> i \in {4, 5, 7, 8, 10, 12, 15, 17, 18,
                                           19,
                                           21,
                                           24,
                                           27,
                                           29,
                                           31}
  <2>1. Halves(h[5], h[4])
    BY <1>2, RoundBits DEF Rounds
  <2> QED
    BY <1>7, <2>1 DEF Halves
<1>9. \A i \in Int : i \in h[6] <=> i \in {3, 4, 6, 7, 9, 11, 14, 16, 17,
                                           18,
                                           20,
                                           23,
                                           26,
                                           28,
                                           30}
  <2>1. Halves(h[6], h[5])
    BY <1>2, RoundBits DEF Rounds
  <2> QED
    BY <1>8, <2>1 DEF Halves
<1>10. \A i \in Int : i \in h[7] <=> i \in {2, 3, 5, 6, 8, 10, 13, 15, 16,
                                            17,
                                            19,
                                            22,
                                            25,
                                            27,
                                            29}
  <2>1. Halves(h[7], h[6])
    BY <1>2, RoundBits DEF Rounds
  <2> QED
    BY <1>9, <2>1 DEF Halves
<1>11. \A i \in Int : i \in h[8] <=> i \in {1, 2, 4, 5, 7, 9, 12, 14, 15,
                                            16,
                                            18,
                                            21,
                                            24,
                                            26,
                                            28}
  <2>1. Halves(h[8], h[7])
    BY <1>2, RoundBits DEF Rounds
  <2> QED
    BY <1>10, <2>1 DEF Halves
<1>12. CS!Seed["output"] = CS!Not(CS!Hex(<<14, 10, 13, 10, 2, 13, 4, 9>>))
  BY DEF CS!Seed
<1>13. \A i \in 0 .. 31 : i \in h[8] <=> i \notin CS!Hex(<<14, 10, 13, 10, 2, 13, 4, 9>>)
  BY <1>11, HexBits, Digits
<1> QED
  <2>1. h[8] \subseteq 0 .. 31
    BY <1>2, <1>11 DEF Rounds
  <2> QED
    BY <1>1, <1>2, <1>12, <1>13, <2>1 DEF CS!Not

\* The same for a feature report and its 0x53.
LEMMA FeatureSeed == CS!Update(0 .. 31, CS!Header["feature"]) = CS!Seed["feature"]
<1>1. CS!Header["feature"] = {0, 1, 4, 6} /\ 0 .. 31 \in SUBSET Int
  BY DEF CS!Header
<1>2. PICK h : /\ Rounds(h, CS!Xor(0 .. 31, {0, 1, 4, 6}))
               /\ CS!Update(0 .. 31, {0, 1, 4, 6}) = h[8]
  BY UpdateRounds
<1>3. \A i \in Int : i \in h[0] <=> i \in {2, 3, 5, 7, 8, 9, 10, 11, 12,
                                           13,
                                           14,
                                           15,
                                           16,
                                           17,
                                           18,
                                           19,
                                           20,
                                           21,
                                           22,
                                           23,
                                           24,
                                           25,
                                           26,
                                           27,
                                           28,
                                           29,
                                           30,
                                           31}
  BY <1>2 DEF Rounds, CS!Xor
<1>4. \A i \in Int : i \in h[1] <=> i \in {1, 2, 4, 6, 7, 8, 9, 10, 11, 12,
                                           13,
                                           14,
                                           15,
                                           16,
                                           17,
                                           18,
                                           19,
                                           20,
                                           21,
                                           22,
                                           23,
                                           24,
                                           25,
                                           26,
                                           27,
                                           28,
                                           29,
                                           30}
  <2>1. Halves(h[1], h[0])
    BY <1>2, RoundBits DEF Rounds
  <2> QED
    BY <1>3, <2>1 DEF Halves
<1>5. \A i \in Int : i \in h[2] <=> i \in {0, 1, 3, 5, 6, 7, 8, 9, 10, 11,
                                           12,
                                           13,
                                           14,
                                           15,
                                           16,
                                           17,
                                           18,
                                           19,
                                           20,
                                           21,
                                           22,
                                           23,
                                           24,
                                           25,
                                           26,
                                           27,
                                           28,
                                           29}
  <2>1. Halves(h[2], h[1])
    BY <1>2, RoundBits DEF Rounds
  <2> QED
    BY <1>4, <2>1 DEF Halves
<1>6. \A i \in Int : i \in h[3] <=> i \in {0, 2, 4, 6, 7, 10, 11, 12, 13,
                                           14,
                                           16,
                                           17,
                                           18,
                                           22,
                                           25,
                                           28,
                                           29,
                                           30,
                                           31}
  <2>1. Halves(h[3], h[2])
    BY <1>2, RoundBits DEF Rounds
  <2> QED
    BY <1>5, <2>1 DEF Halves
<1>7. \A i \in Int : i \in h[4] <=> i \in {1, 3, 6, 8, 10, 11, 12, 13, 16,
                                           17,
                                           19,
                                           20,
                                           23,
                                           26,
                                           28,
                                           31}
  <2>1. Halves(h[4], h[3])
    BY <1>2, RoundBits DEF Rounds
  <2> QED
    BY <1>6, <2>1 DEF Halves
<1>8. \A i \in Int : i \in h[5] <=> i \in {0, 2, 5, 7, 9, 10, 11, 12, 15,
                                           16,
                                           18,
                                           19,
                                           22,
                                           25,
                                           27,
                                           30}
  <2>1. Halves(h[5], h[4])
    BY <1>2, RoundBits DEF Rounds
  <2> QED
    BY <1>7, <2>1 DEF Halves
<1>9. \A i \in Int : i \in h[6] <=> i \in {1, 4, 5, 6, 10, 11, 14, 17, 18,
                                           19,
                                           20,
                                           23,
                                           27,
                                           30,
                                           31}
  <2>1. Halves(h[6], h[5])
    BY <1>2, RoundBits DEF Rounds
  <2> QED
    BY <1>8, <2>1 DEF Halves
<1>10. \A i \in Int : i \in h[7] <=> i \in {0, 3, 4, 5, 9, 10, 13, 16, 17,
                                            18,
                                            19,
                                            22,
                                            26,
                                            29,
                                            30}
  <2>1. Halves(h[7], h[6])
    BY <1>2, RoundBits DEF Rounds
  <2> QED
    BY <1>9, <2>1 DEF Halves
<1>11. \A i \in Int : i \in h[8] <=> i \in {2, 3, 4, 5, 12, 16, 17, 18, 19,
                                            20,
                                            23,
                                            24,
                                            25,
                                            26,
                                            27,
                                            28,
                                            30,
                                            31}
  <2>1. Halves(h[8], h[7])
    BY <1>2, RoundBits DEF Rounds
  <2> QED
    BY <1>10, <2>1 DEF Halves
<1>12. CS!Seed["feature"] = CS!Not(CS!Hex(<<2, 0, 6, 0, 14, 15, 12, 3>>))
  BY DEF CS!Seed
<1>13. \A i \in 0 .. 31 : i \in h[8] <=> i \notin CS!Hex(<<2, 0, 6, 0, 14, 15, 12, 3>>)
  BY <1>11, HexBits, Digits
<1> QED
  <2>1. h[8] \subseteq 0 .. 31
    BY <1>2, <1>11 DEF Rounds
  <2> QED
    BY <1>1, <1>2, <1>12, <1>13, <2>1 DEF CS!Not

-----------------------------------------------------------------------------
\* What the code holds after some bytes is what is left of the division of the
\* header and those bytes.
SumInv ==
    /\ kind \in CS!Kinds /\ data \in Seq(SUBSET (0 .. 7))
    /\ Rest(<<CS!Header[kind]>> \o data) \subseteq 0 .. 31
    /\ crc = Reflected(Rest(<<CS!Header[kind]>> \o data))

\* A header is one byte.
LEMMA HeaderByte == \A k \in CS!Kinds : CS!Header[k] \in SUBSET (0 .. 7)
  BY DEF CS!Kinds, CS!Header

\* At first the code holds its seed, the header alone.
LEMMA SumStarts == CS!Init => SumInv
<1> SUFFICES ASSUME CS!Init PROVE SumInv
  OBVIOUS
<1> DEFINE H == CS!Header[kind]
<1>1. kind \in CS!Kinds /\ data = <<>> /\ crc = CS!Seed[kind]
  BY DEF CS!Init
<1>2. H \in SUBSET (0 .. 7)
  BY <1>1, HeaderByte
<1>3. <<H>> \o data = Append(<<>>, H) /\ data \in Seq(SUBSET (0 .. 7))
  BY <1>1, <1>2
<1>4. CS!Update(0 .. 31, H) = CS!Seed[kind]
  BY <1>1, OutputSeed, FeatureSeed DEF CS!Kinds
<1>5. Reflected(0 .. 31) = 0 .. 31
  <2>1. \A i \in Int : i \in Reflected(0 .. 31) <=> i \in 0 .. 31
    BY DEF Reflected
  <2>2. Reflected(0 .. 31) \subseteq Int
    BY DEF Reflected
  <2> QED
    BY <2>1, <2>2
<1> HIDE DEF H
<1>6. <<>> \in Seq(SUBSET (0 .. 7))
  OBVIOUS
<1>7. Rest(<<>>) \subseteq 0 .. 31
  BY RestOfNone
<1>8. /\ Rest(Append(<<>>, H)) \subseteq 0 .. 31
      /\ CS!Update(Reflected(Rest(<<>>)), H) = Reflected(Rest(Append(<<>>, H)))
  BY <1>2, <1>6, <1>7, RestGrows
<1> QED
  BY <1>1, <1>3, <1>4, <1>5, <1>8, RestOfNone DEF SumInv, H

\* Every byte keeps it.
LEMMA SumKept ==
    ASSUME CS!ChecksumAssumption, SumInv, CS!Next
    PROVE  SumInv'
<1> DEFINE m == <<CS!Header[kind]>> \o data
<1>1. PICK byte \in Bytes :
          data' = Append(data, byte) /\ crc' = CS!Update(crc, byte)
  BY DEF CS!Next
<1>2. kind' = kind /\ byte \in SUBSET (0 .. 7)
  BY DEF CS!Next, CS!ChecksumAssumption
<1>3. m \in Seq(SUBSET (0 .. 7))
  <2>1. <<CS!Header[kind]>> \in Seq(SUBSET (0 .. 7))
    BY HeaderByte DEF SumInv
  <2> QED
    BY <2>1 DEF SumInv
<1>4. data' \in Seq(SUBSET (0 .. 7))
  BY <1>1, <1>2 DEF SumInv
<1>5. m' = Append(m, byte)
  <2>1. data \in Seq(SUBSET (0 .. 7))
    BY DEF SumInv
  <2>2. <<CS!Header[kind]>> \in Seq(SUBSET (0 .. 7))
    BY HeaderByte DEF SumInv
  <2> QED
    BY <1>1, <1>2, <2>1, <2>2
<1>6. Rest(m) \subseteq 0 .. 31 /\ crc = Reflected(Rest(m))
  BY DEF SumInv
<1> HIDE DEF m
<1>7. /\ Rest(Append(m, byte)) \subseteq 0 .. 31
      /\ CS!Update(Reflected(Rest(m)), byte) = Reflected(Rest(Append(m, byte)))
  BY <1>2, <1>3, <1>6, RestGrows
<1>8. Rest(m') \subseteq 0 .. 31 /\ crc' = Reflected(Rest(m'))
  BY <1>1, <1>5, <1>6, <1>7
<1> QED
  BY <1>2, <1>4, <1>8 DEF SumInv, m

\* For bytes of any values and a report of any length, what
\* fill_output_report_checksum and fill_feature_report_checksum write is the
\* CRC-32 of the header and the report.
THEOREM IsCRC32Holds == CS!Spec => []IsCRC32
<1>1. SumInv /\ [CS!Next]_CS!vars => SumInv'
  <2> SUFFICES ASSUME SumInv, [CS!Next]_CS!vars PROVE SumInv'
    OBVIOUS
  <2>1. CASE CS!Next
    BY <2>1, SumKept, ReportsAssumption
  <2>2. CASE UNCHANGED CS!vars
    BY <2>2 DEF CS!vars, SumInv
  <2> QED
    BY <2>1, <2>2
<1>2. SumInv => IsCRC32
  <2> SUFFICES ASSUME SumInv PROVE IsCRC32
    OBVIOUS
  <2> DEFINE m == <<CS!Header[kind]>> \o data
             result == CS!Not(crc)
             filled == UNION {{8 * i + b : b \in CS!Fill[i]} : i \in 0 .. 3}
  <2>1. CS!CRC32(m) = CS!Not(Reflected(Rest(m)))
    BY DEF CS!CRC32, Reflected, Rest
  <2>2. CS!CRC32(m) = result
    BY <2>1 DEF SumInv
  <2>3. result \subseteq 0 .. 31
    BY DEF CS!Not
  <2>4. \A i \in 0 .. 3 : CS!Fill[i] = {b \in 0 .. 7 : 8 * i + b \in result}
    BY DEF CS!Fill, CS!Result
  <2> HIDE DEF result
  <2>5. filled \subseteq result
    BY <2>4
  <2>6. ASSUME NEW n \in result PROVE n \in filled
    <3>1. n \div 8 \in 0 .. 3 /\ n % 8 \in 0 .. 7 /\ n = 8 * (n \div 8) + (n % 8)
      BY <2>3
    <3> DEFINE i == n \div 8
               b == n % 8
    <3>2. i \in 0 .. 3 /\ b \in 0 .. 7 /\ n = 8 * i + b
      BY <3>1
    <3> HIDE DEF i, b
    <3> QED
      BY <2>4, <3>2
  <2>7. filled = CS!CRC32(m)
    BY <2>2, <2>5, <2>6
  <2> QED
    BY <2>7 DEF IsCRC32, CS!IsCRC32
<1> QED
  BY <1>1, <1>2, SumStarts, PTL DEF CS!Spec
=============================================================================
