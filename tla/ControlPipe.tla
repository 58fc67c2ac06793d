----------------------------- MODULE ControlPipe -----------------------------
(***************************************************************************)
(* What a host may expect of the control pipe of the gadget, with no       *)
(* FunctionFS in sight.  One request is outstanding at a time; it is       *)
(* completed once, in a way that fits it, or the host gives it up.  A      *)
(* report the host sets reaches the controller only after its request is   *)
(* acknowledged, and at most once.                                         *)
(***************************************************************************)
EXTENDS Naturals

CONSTANTS
    Requests,  \* what the host may ask: records with a direction, dir
    Needed,    \* those of them the host's driver cannot do without
    Reports    \* those of them that set a report

VARIABLES
    asked,     \* the number of the host's last request
    request,   \* what it asks
    outcome,   \* what became of it
    received,  \* the number of the last report the gadget took
    forwarded  \* the number of the last report the controller was handed

vars == <<asked, request, outcome, received, forwarded>>

\* Data or an acknowledgement goes with the direction of the request, and
\* only what the host can do without is refused.
Fits(r, o) ==
    \/ o = "data" /\ r.dir = "in"
    \/ o = "ack" /\ r.dir = "out"
    \/ o = "stall" /\ r \notin Needed

Init ==
    /\ asked = 0 /\ request \in Requests /\ outcome = "none"
    /\ received = 0 /\ forwarded = 0

Ask ==
    /\ outcome # "waits"
    /\ asked' = asked + 1
    /\ request' \in Requests
    /\ outcome' = "waits"
    /\ UNCHANGED <<received, forwarded>>

Complete ==
    /\ outcome = "waits"
    /\ outcome' \in {"data", "ack", "stall"}
    /\ Fits(request, outcome')
    /\ received' = IF request \in Reports /\ outcome' = "ack"
                   THEN asked ELSE received
    /\ UNCHANGED <<asked, request, forwarded>>

GiveUp ==
    /\ outcome = "waits"
    /\ outcome' = "none"
    /\ UNCHANGED <<asked, request, received, forwarded>>

Forward ==
    /\ forwarded < received
    /\ forwarded' = received
    /\ UNCHANGED <<asked, request, outcome, received>>

Next == Ask \/ Complete \/ GiveUp \/ Forward

Spec == Init /\ [][Next]_vars
=============================================================================
