----------------------------- MODULE Ep0Control -----------------------------
(***************************************************************************)
(* The control requests of the host: usb_handle_ep0 (src/src/usb.cpp),     *)
(* called while usb_init waits for the enumeration and then by the main    *)
(* loop, on top of FunctionFS, which keeps the events and at most one      *)
(* SETUP request for it.  bt_get_feature_report and bt_set_feature_report  *)
(* are its calls of the controller.                                        *)
(*                                                                         *)
(* A request is a record of its direction, its type, bRequest, what wValue *)
(* asks for and wLength.  FunctionFS is modelled from how it answers the   *)
(* calls of the code: in SETUP_PENDING a call in the direction of the      *)
(* request completes it, one against it stalls; a newer event cancels it,  *)
(* and the next call then fails with EIDRM.  It keeps at most one SETUP    *)
(* event, and usb_handle_ep0 skips all others, so the events are a set.    *)
(***************************************************************************)
EXTENDS Integers

CONSTANTS
    Requests,     \* what the host may ask
    MaxRequests   \* bounds the requests of one behaviour

ASSUME Ep0Assumption ==
    /\ Requests # {}
    /\ \A r \in Requests :
          /\ r.dir \in {"in", "out"} /\ r.len \in Nat
          /\ r.type \in {"standard", "class", "vendor"}
    /\ MaxRequests \in Nat

VARIABLES
    mainPc,    \* what the main thread does apart from EP0
    pc,        \* where usb_handle_ep0 is
    setup,     \* the request it has in hand, and its number
    call,      \* the call of ep0 that is under way
    ffs,       \* setup_state of FunctionFS
    events,    \* the events it holds
    asked,     \* the host: the number of its last request,
    request,   \*   what that asks,
    outcome,   \*   and what became of it
    hidraw,    \* hidraw_fd is open
    received,  \* history: the number of the last report taken from the host
    forwarded  \* history: the number of the last report handed on

code == <<pc, setup, call>>
host == <<asked, request, outcome>>
kernel == <<ffs, events>>
vars == <<mainPc, code, kernel, host, hidraw, received, forwarded>>

\* The lifecycle events that can come at any time (usb_handle_ep0 skips all).
Lifecycle == {"SUSPEND", "RESUME", "ENABLE", "DISABLE"}

FeatureBuf == 256  \* uint8_t buf[256] of SET_REPORT
-----------------------------------------------------------------------------
Init ==
    /\ mainPc = "servicing" /\ pc = "poll" /\ call = "none"
    /\ ffs = "NO_SETUP" /\ events = {"ENABLE"}
    /\ asked = 0 /\ request \in Requests /\ outcome = "none"
    /\ setup = [n |-> 0, r |-> request]
    /\ hidraw = TRUE /\ received = 0 /\ forwarded = 0
-----------------------------------------------------------------------------
(* FunctionFS and the host. *)

\* An event is added.  A request in hand is cancelled, and events of its kind
\* (all but those of power management, for the others) give way.
AddEvent(e) ==
    /\ ffs' = IF ffs = "PENDING" THEN "CANCELLED" ELSE ffs
    /\ events' = {e} \cup
          CASE e \in {"SETUP", "SUSPEND"} -> events
            [] e = "RESUME" -> events \ {"SUSPEND"}
            [] OTHER -> events \cap {"SUSPEND", "RESUME"}

\* A transfer the code waits for in ep0 fails when the host starts anew.
Interrupted == IF pc = "queued" THEN pc' = "poll" ELSE UNCHANGED pc

\* The host starts a control transfer.
HostAsks ==
    /\ outcome # "waits" /\ asked < MaxRequests /\ mainPc # "ended"
    /\ asked' = asked + 1
    /\ request' \in Requests
    /\ outcome' = "waits"
    /\ AddEvent("SETUP") /\ Interrupted
    /\ UNCHANGED <<mainPc, setup, call, hidraw, received, forwarded>>

\* It has waited long enough.  The gadget learns of it with the next request.
HostGivesUp ==
    /\ outcome = "waits"
    /\ outcome' = "none"
    /\ UNCHANGED <<mainPc, code, kernel, asked, request, hidraw, received,
                   forwarded>>

\* It suspends, resumes, configures or resets the gadget.
HostEvent ==
    /\ outcome # "waits"
    /\ \E e \in Lifecycle \ events :
          /\ AddEvent(e)
          /\ IF e \in {"ENABLE", "DISABLE"} THEN Interrupted ELSE UNCHANGED pc
    /\ UNCHANGED <<mainPc, setup, call, host, hidraw, received, forwarded>>

\* The controller is lost.
LoseController ==
    /\ hidraw /\ mainPc = "loop" /\ pc = "poll"
    /\ hidraw' = FALSE
    /\ UNCHANGED <<mainPc, code, kernel, host, received, forwarded>>
-----------------------------------------------------------------------------
(* usb_handle_ep0. *)

Serviced == mainPc \in {"servicing", "loop"}

\* FunctionFS completes a transfer with o: for the host, if it still waits.
Completed(o) ==
    /\ outcome' = IF outcome = "waits" THEN o ELSE outcome
    /\ UNCHANGED <<asked, request>>

\* read() of events finds the last request given up by the host.
EventsCancelled ==
    /\ Serviced /\ pc = "poll" /\ ffs = "CANCELLED"
    /\ ffs' = "NO_SETUP"
    /\ UNCHANGED <<mainPc, code, events, host, hidraw, received, forwarded>>

\* read() of events finds a request the last call left without an answer: it
\* stalls it or, if that is an OUT request, it completes it.  Of a request
\* without data it returns 0, and usb_handle_ep0 takes ep0 for closed.
EventsAnswer ==
    /\ Serviced /\ pc = "poll" /\ ffs = "PENDING"
    /\ ffs' = "NO_SETUP"
    /\ Completed(IF setup.r.dir = "in" THEN "stall" ELSE "ack")
    /\ UNCHANGED <<mainPc, code, events, hidraw, received, forwarded>>

\* Mutant: the first lifecycle event ends the loop over the events.
ReadEvents_FirstOnly ==
    /\ Serviced /\ pc = "poll" /\ ffs = "NO_SETUP" /\ events # {}
    /\ events' = {}
    /\ IF "SETUP" \in events
       THEN /\ ffs' = "PENDING"
            /\ pc' = IF events = {"SETUP"} THEN "setup" ELSE "poll"
            /\ setup' = [n |-> asked, r |-> request]
       ELSE UNCHANGED <<ffs, pc, setup>>
    /\ UNCHANGED <<mainPc, call, host, hidraw, received, forwarded>>

\* read() returns all the events; the loop over them skips the lifecycle
\* events and comes to the SETUP request.
ReadEvents ==
    /\ Serviced /\ pc = "poll" /\ ffs = "NO_SETUP" /\ events # {}
    /\ events' = {}
    /\ IF "SETUP" \in events
       THEN /\ ffs' = "PENDING" /\ pc' = "setup"
            /\ setup' = [n |-> asked, r |-> request]
       ELSE UNCHANGED <<ffs, pc, setup>>
    /\ UNCHANGED <<mainPc, call, host, hidraw, received, forwarded>>

\* The code calls write() or read() of ep0.  FunctionFS waits for the host,
\* stalls or refuses.
Call(op) ==
    LET against == op # (IF setup.r.dir = "in" THEN "write" ELSE "read")
    IN
    /\ call' = op
    /\ ffs' = "NO_SETUP"
    /\ pc' = IF ffs = "PENDING" /\ ~against THEN "queued" ELSE "poll"
    /\ IF ffs = "PENDING" /\ against
       THEN Completed("stall") ELSE UNCHANGED host
    /\ UNCHANGED <<mainPc, setup, events, hidraw, received, forwarded>>

Refuse == Call("read")

Class(r)    == r.type = "class"
Standard(r) == r.type = "standard"
Is(r, req)  == r.req = req

\* GET_DESCRIPTOR of HID, GET_IDLE and GET_PROTOCOL: constants are written.
AnswerConstant ==
    /\ pc = "setup" /\ setup.r.dir = "in"
    /\ \/ /\ Standard(setup.r) /\ Is(setup.r, "GET_DESCRIPTOR")
          /\ setup.r.value \in {"report", "hid"}
       \/ /\ Class(setup.r) /\ setup.r.req \in {"GET_IDLE", "GET_PROTOCOL"}
    /\ Call("write")

\* GET_REPORT of a feature report: the controller is asked, which may take
\* seconds ...
AskController ==
    /\ pc = "setup" /\ setup.r.dir = "in" /\ Class(setup.r)
    /\ Is(setup.r, "GET_REPORT") /\ setup.r.value = "feature"
    /\ pc' = "asking"
    /\ UNCHANGED <<mainPc, setup, call, kernel, host, hidraw, received,
                   forwarded>>

\* ... and its report goes to the host, or zeros, if there is no controller
\* or it does not answer.
AnswerFeature ==
    /\ pc = "asking"
    /\ Call("write")

\* Of another report the code has zeros only.
AnswerOther ==
    /\ pc = "setup" /\ setup.r.dir = "in" /\ Class(setup.r)
    /\ Is(setup.r, "GET_REPORT") /\ setup.r.value # "feature"
    /\ Call("write")

\* Everything else the host wants to read.
RefuseIn ==
    /\ pc = "setup" /\ setup.r.dir = "in"
    /\ CASE Standard(setup.r) -> ~(/\ Is(setup.r, "GET_DESCRIPTOR")
                                   /\ setup.r.value \in {"report", "hid"})
         [] Class(setup.r) ->
                setup.r.req \notin {"GET_REPORT", "GET_IDLE", "GET_PROTOCOL"}
         [] OTHER -> TRUE
    /\ Refuse

\* SET_REPORT with data that fits; with more, what fits is read and dropped.
TakeReport ==
    /\ pc = "setup" /\ setup.r.dir = "out" /\ Class(setup.r)
    /\ Is(setup.r, "SET_REPORT") /\ setup.r.len > 0
    /\ Call("read")

\* SET_REPORT without data: no call of ep0 at all.
IgnoreEmpty ==
    /\ pc = "setup" /\ setup.r.dir = "out" /\ Class(setup.r)
    /\ Is(setup.r, "SET_REPORT") /\ setup.r.len = 0
    /\ pc' = "poll"
    /\ UNCHANGED <<mainPc, setup, call, kernel, host, hidraw, received,
                   forwarded>>

\* SET_IDLE and SET_PROTOCOL are acknowledged by a read() of nothing.
Acknowledge ==
    /\ pc = "setup" /\ setup.r.dir = "out" /\ Class(setup.r)
    /\ setup.r.req \in {"SET_IDLE", "SET_PROTOCOL"}
    /\ IF setup.r.len = 0
       THEN Call("read")
       ELSE /\ pc' = "poll"
            /\ UNCHANGED <<mainPc, setup, call, kernel, host, hidraw,
                           received, forwarded>>

\* Everything else the host wants to set gets the same read() of nothing.
RefuseOut ==
    /\ pc = "setup" /\ setup.r.dir = "out"
    /\ Class(setup.r) =>
           setup.r.req \notin {"SET_REPORT", "SET_IDLE", "SET_PROTOCOL"}
    /\ Refuse

\* A report that is to be handed on.
HandOn(r) ==
    /\ r.dir = "out" /\ Class(r) /\ Is(r, "SET_REPORT")
    /\ r.len \in 1 .. FeatureBuf
    /\ r.value \in {"feature", "output"}

\* The host takes the data, or its data or the status stage is through.
CallDone ==
    /\ pc = "queued" /\ outcome = "waits"
    /\ Completed(IF call = "write" THEN "data" ELSE "ack")
    /\ received' = IF HandOn(setup.r) THEN setup.n ELSE received
    /\ pc' = IF HandOn(setup.r) THEN "forwarding" ELSE "poll"
    /\ UNCHANGED <<mainPc, setup, call, kernel, hidraw, forwarded>>

\* bt_set_feature_report or translate_usb_output_to_bt, with no controller
\* for nothing.
ForwardReport ==
    /\ pc = "forwarding"
    /\ forwarded' = IF hidraw THEN setup.n ELSE forwarded
    /\ pc' = "poll"
    /\ UNCHANGED <<mainPc, setup, call, kernel, host, hidraw, received>>
-----------------------------------------------------------------------------
(* The main thread: the servicing ends after 15 s, or 2 s of silence after   *)
(* 5 s; audio_init and the rumble test; the loop; its end.                   *)

StopServicing ==
    /\ mainPc = "servicing" /\ pc = "poll"
    /\ mainPc' = "starting"
    /\ UNCHANGED <<code, kernel, host, hidraw, received, forwarded>>

\* Mutant: EP0 is not put into the epoll set.
StartLoop_Without ==
    /\ mainPc = "starting"
    /\ mainPc' = "idle"
    /\ UNCHANGED <<code, kernel, host, hidraw, received, forwarded>>

StartLoop ==
    /\ mainPc = "starting"
    /\ mainPc' = "loop"
    /\ UNCHANGED <<code, kernel, host, hidraw, received, forwarded>>

\* The gadget leaves the bus: what the host waits for fails.
EndLoop ==
    /\ mainPc = "loop" /\ pc = "poll"
    /\ mainPc' = "ended"
    /\ outcome' = IF outcome = "waits" THEN "none" ELSE outcome
    /\ UNCHANGED <<code, kernel, asked, request, hidraw, received, forwarded>>
-----------------------------------------------------------------------------
Handler ==
    \/ EventsCancelled \/ EventsAnswer \/ ReadEvents
    \/ AnswerConstant \/ AskController \/ AnswerFeature \/ AnswerOther
    \/ RefuseIn \/ TakeReport \/ IgnoreEmpty \/ Acknowledge \/ RefuseOut
    \/ CallDone \/ ForwardReport
World == \/ HostAsks \/ HostGivesUp \/ HostEvent \/ LoseController \/ EndLoop

Next == Handler \/ StopServicing \/ StartLoop \/ World

Spec == Init /\ [][Next]_vars

\* The main thread runs while the daemon does, the poll and the epoll report
\* what FunctionFS holds, and a host that waits takes its answer.  Whether it
\* asks, gives up or resets is left free, and so are the end of the servicing
\* and that of the daemon.
FairSpec == Spec /\ WF_vars(Handler) /\ WF_vars(StartLoop)
-----------------------------------------------------------------------------
(* Properties. *)

\* The values the variables range over.
TypeOK ==
    /\ mainPc \in {"servicing", "starting", "loop", "ended"}
    /\ pc \in {"poll", "setup", "asking", "queued", "forwarding"}
    /\ setup \in [n : 0 .. asked, r : Requests]
    /\ call \in {"none", "write", "read"}
    /\ ffs \in {"NO_SETUP", "PENDING", "CANCELLED"}
    /\ events \subseteq Lifecycle \cup {"SETUP"}
    /\ asked \in Nat /\ request \in Requests
    /\ outcome \in {"none", "waits", "data", "ack", "stall"}
    /\ hidraw \in BOOLEAN
    /\ received \in 0 .. asked /\ forwarded \in 0 .. asked

\* What the driver of the host cannot do without: usbhid's SET_IDLE and
\* report descriptor, hid-playstation's feature and output reports.
Needed ==
    {r \in Requests :
        \/ Standard(r) /\ r.dir = "in" /\ Is(r, "GET_DESCRIPTOR")
                       /\ r.value \in {"report", "hid"}
        \/ Class(r) /\ r.dir = "in" /\ Is(r, "GET_REPORT")
        \/ Class(r) /\ r.dir = "out" /\ r.req \in {"SET_REPORT", "SET_IDLE"}}

Pipe == INSTANCE ControlPipe WITH Reports <- {r \in Requests : HandOn(r)}

\* usb_handle_ep0 and FunctionFS are the control pipe a host expects: each
\* request is completed once and in its own direction, no needed request is
\* stalled, a late answer reaches nobody, and a report is handed on once,
\* after it was acknowledged.  (The host gives up when the bus resets.)
ImplementsControlPipe == Pipe!Spec

\* A request of the host comes to an end, by usb_handle_ep0 or because the
\* host gives it up, unless the enumeration servicing goes on without it.
RequestsEnd ==
    \A n \in 1 .. MaxRequests :
        outcome = "waits" /\ asked = n ~> ~(outcome = "waits" /\ asked = n)
=============================================================================
