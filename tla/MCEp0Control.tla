---------------------------- MODULE MCEp0Control ----------------------------
(***************************************************************************)
(* The instance of Ep0Control that TLC checks: one request of every kind   *)
(* usb_handle_ep0 tells apart.                                             *)
(***************************************************************************)
EXTENDS Ep0Control

In(type, req, value, len) ==
    [dir |-> "in", type |-> type, req |-> req, value |-> value, len |-> len]
Out(type, req, value, len) ==
    [dir |-> "out", type |-> type, req |-> req, value |-> value, len |-> len]

\* What a host sends to a HID function.
Usual ==
    {In("standard", "GET_DESCRIPTOR", v, 512) : v \in {"report", "hid", "other"}}
    \cup {In("class", "GET_REPORT", v, 64) : v \in {"feature", "input"}}
    \cup {In("class", q, "none", 1) : q \in {"GET_IDLE", "GET_PROTOCOL"}}
    \cup {Out("class", "SET_REPORT", v, 48) :
              v \in {"feature", "output", "input"}}
    \cup {Out("class", q, "none", 0) : q \in {"SET_IDLE", "SET_PROTOCOL"}}

\* What the code has a case for all the same.
Unusual ==
    {In("standard", "GET_STATUS", "none", 2), In("class", "other", "none", 1),
     In("vendor", "other", "none", 1),
     Out("class", "SET_REPORT", "output", 0),
     Out("class", "SET_REPORT", "output", 512),
     Out("class", "other", "none", 0), Out("standard", "other", "none", 0)}

MCRequests    == Usual \cup Unusual
MCMaxRequests == 2
=============================================================================
