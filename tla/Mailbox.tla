------------------------------- MODULE Mailbox -------------------------------
(***************************************************************************)
(* What the input path promises the USB host, with no ring buffer in sight *)
(* (src/src/usb.cpp:39-49, "we keep only the latest report (gamepad state  *)
(* is absolute, not incremental)").                                        *)
(*                                                                         *)
(* A one-place mailbox that conflates: posting a report replaces the one   *)
(* that is waiting, taking empties the mailbox, and what was taken is      *)
(* either delivered to the host or lost.  Reports are numbered 1, 2, ...   *)
(* in the order in which the controller produced them; 0 stands for "no    *)
(* report".                                                                *)
(***************************************************************************)
EXTENDS Naturals

VARIABLES
    posted,   \* the number of the newest report posted
    waiting,  \* the report in the mailbox, 0 when it is empty
    taken,    \* the report the carrier holds, 0 when it holds none
    received  \* the newest report the host has received

vars == <<posted, waiting, taken, received>>

Init == posted = 0 /\ waiting = 0 /\ taken = 0 /\ received = 0

\* The controller produces a report: it replaces the one that is waiting.
Post ==
    /\ posted' = posted + 1
    /\ waiting' = posted'
    /\ UNCHANGED <<taken, received>>

\* The carrier empties the mailbox.
Take ==
    /\ waiting # 0
    /\ taken = 0
    /\ taken' = waiting
    /\ waiting' = 0
    /\ UNCHANGED <<posted, received>>

\* The host receives what the carrier holds.  It is never an old report.
Deliver ==
    /\ taken > received
    /\ received' = taken
    /\ taken' = 0
    /\ UNCHANGED <<posted, waiting>>

\* The carrier loses what it holds.
Lose ==
    /\ taken # 0
    /\ taken' = 0
    /\ UNCHANGED <<posted, waiting, received>>

Next == Post \/ Take \/ Deliver \/ Lose

Spec == Init /\ [][Next]_vars
==============================================================================
