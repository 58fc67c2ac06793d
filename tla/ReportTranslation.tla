-------------------------- MODULE ReportTranslation --------------------------
(***************************************************************************)
(* What becomes of a report on its way between host and controller:        *)
(* bt_process_epoll_event and on_bt_data one way, hid_out_thread_func,     *)
(* SET_REPORT and translate_usb_output_to_bt the other way.  Each action   *)
(* takes one report all the way.                                           *)
(*                                                                         *)
(* A byte is where it came from: <<"bt", i>> is byte i of the report from  *)
(* the controller, <<"usb", i>> byte i of the host's, <<"code", n>> the    *)
(* value n, Undefined memory that nothing was written to.                  *)
(***************************************************************************)
EXTENDS Integers, FiniteSets

CONSTANTS
    Ids,         \* report IDs; 1, 2 and 49 (0x31) mean something
    InLengths,   \* lengths of a report from the controller
    OutLengths   \* lengths of a report from the host

ASSUME TranslationAssumption ==
    /\ InLengths \subseteq 1 .. 256 /\ OutLengths \subseteq 1 .. 256

VARIABLES
    received,  \* the last report from the controller
    queued,    \* what the last call of usb_enqueue_input_report was given
    taken,     \* the last output report of the host
    written    \* the report bt_write wrote for it

input  == <<received, queued>>
output == <<taken, written>>
vars   == <<input, output>>

None == <<>>

Code(n)         == <<"code", n>>
Vibration(byte) == <<"vibration", byte>>  \* with bit 0 set
Undefined       == <<"undefined">>

Init ==
    /\ received = None /\ queued = None
    /\ taken = None /\ written = None
-----------------------------------------------------------------------------
(* From the controller. *)

\* The array framed: 0xA1, the bytes that were read, and the rest as it was.
Framed(n) ==
    [i \in 0 .. 256 |-> CASE i = 0 -> Code(161)
                          [] i \in 1 .. n -> <<"bt", i - 1>>
                          [] OTHER -> Undefined]

\* Mutant: the sequence number is taken for the first byte of the state.
UsbReport_WithSeq(framed) ==
    [i \in 0 .. 63 |-> IF i = 0 THEN Code(1) ELSE framed[i + 1]]

\* final_usb_report
UsbReport(framed) == [i \in 0 .. 63 |-> IF i = 0 THEN Code(1) ELSE framed[i + 2]]

FromController(id, n) ==
    /\ received' = [id |-> id, len |-> n]
    /\ queued' = IF id = 49 /\ n + 1 >= 65 THEN UsbReport(Framed(n)) ELSE None
    /\ UNCHANGED output
-----------------------------------------------------------------------------
(* From the host. *)

\* Mutant: 64 bytes less the report ID.
Common_Long(n) == IF n - 1 > 63 THEN 63 ELSE n - 1

\* common_len
Common(n) == IF n - 1 > 47 THEN 47 ELSE n - 1

\* outputData before its checksum.
Translated(n) ==
    [i \in 0 .. 74 |->
        CASE i = 0 -> Code(162) [] i = 1 -> Code(49)
          [] i = 2 -> <<"seq">> [] i = 3 -> Code(16)
          [] i = 4 -> Vibration(IF Common(n) > 0 THEN <<"usb", 1>> ELSE Code(0))
          [] i \in 5 .. 3 + Common(n) -> <<"usb", i - 3>>
          [] OTHER -> Code(0)]

\* bt_write leaves the header out.  The checksum comes behind these bytes.
Send(id, n) ==
    /\ taken' = [id |-> id, len |-> n]
    /\ written' = [i \in 0 .. 73 |-> Translated(n)[i + 1]]
    /\ UNCHANGED input

\* hid_out_thread_func reads into 64 bytes.
OutEndpoint(id, n) == n <= 64 /\ id = 2 /\ Send(id, n)

\* SET_REPORT of an output report, whatever its ID.
SetReport(id, n) == Send(id, n)

Next ==
    \/ \E id \in Ids, n \in InLengths : FromController(id, n)
    \/ \E id \in Ids, n \in OutLengths : OutEndpoint(id, n) \/ SetReport(id, n)

Spec == Init /\ [][Next]_vars
-----------------------------------------------------------------------------
(* Properties.  The structures are those of the driver: the input report's *)
(* 63 bytes are at 1 on USB and at 2 on Bluetooth (src/hid-playstation.c,  *)
(* dualsense_parse_report), the output report's 47 at 1 and at 3           *)
(* (dualsense_output_report_usb, dualsense_output_report_bt).              *)

\* "USB 0x01: [01] [buttons/sticks...] (64 bytes total)" (src/src/main.cpp:228):
\* the host gets each byte of the structure as the controller sent it.  Only of
\* a report of 64 bytes, the shortest the check lets pass, the last byte is not
\* the controller's but whatever memory held.
InputWhole ==
    queued # None =>
        \A i \in 1 .. 63 :
            queued[i] = IF received.len = 64 /\ i = 63 THEN Undefined
                                                      ELSE <<"bt", i + 1>>

\* The controller gets each byte of the host's structure in its place, but for
\* the rumble flag that is added, zeros for those that were not sent, and
\* zeros in the reserved bytes behind the structure.
OutputWhole ==
    written # None =>
        \A i \in 1 .. 71 :
            LET byte == IF i < taken.len /\ i <= 47 THEN <<"usb", i>> ELSE Code(0)
            IN  written[i + 2] = IF i = 1 THEN Vibration(byte) ELSE byte
=============================================================================
