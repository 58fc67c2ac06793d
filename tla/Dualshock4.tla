----------------------------- MODULE Dualshock4 -----------------------------
(***************************************************************************)
(* What the host's driver sends to a DualShock 4 and, when that is behind  *)
(* Sony's USB dongle, how it follows the pads that come and go             *)
(* (src/hid-playstation.c): the output worker, those who leave it          *)
(* something to send, the reports of the dongle and the work that reads    *)
(* the calibration data of a new pad.                                      *)
(*                                                                         *)
(* As in DriverOutput, a control is set to the number of the request and   *)
(* a section under the spinlock is one step.  The worker's is three, for   *)
(* dualshock4_set_default_lightbar_colors does not take the lock.  Pads    *)
(* are numbered as they come.                                              *)
(***************************************************************************)
EXTENDS Integers

CONSTANTS
    Configs,     \* in which the driver may find itself: records of
                 \*   bus,     "usb" or "bt",
                 \*   users,   the callers that set something: "play",
                 \*            "color", "global", "blinker",
                 \*   early,   some set something before the probe is over,
                 \*   dongle,  the device is the dongle,
                 \*   coupled, rumble set without the light cancels it, and
                 \*            vice versa
    Faulty,      \* the pads whose calibration data may not be had
    MaxPads,     \* bounds the pads,
    MaxRequests  \*   and the requests for each control

Dualshock4Assumption ==
    /\ \A c \in Configs :
          /\ c.bus \in {"usb", "bt"}
          /\ {c.early, c.dongle, c.coupled} \subseteq BOOLEAN
          /\ c.users \subseteq {"play", "color", "global", "blinker"}
          /\ c.dongle => c.bus = "usb"
    /\ MaxPads \in Nat /\ MaxRequests \in Nat \ {0}
    /\ Faulty \subseteq 1 .. MaxPads

Controls == {"rumble", "light", "blink", "poll"}
Tries == 3

VARIABLES
    config,        \* one of Configs
    mode,          \* where dualshock4_create is, up, or where the removal is
    defaults,      \* where dualshock4_set_default_lightbar_colors is
    wanted,        \* what each control was last set to
    update,        \* the update_ flags
    callers,       \* who has a request noted and will now schedule the worker
    pending,       \* the output worker is queued
    worker,        \* where it is when it runs
    report,        \* the controls its report sets and their values
    shown,         \* what the controls of the controller are set to
    dongle_state,
    event,         \* where dualshock4_dongle_parse_report is
    hotplug,       \* where dualshock4_dongle_calibration_work is
    retries,
    calib,         \* the pad whose calibration data the driver has
    pads,          \* the number of the last pad
    link,          \* of that pad: "here", "left", "gone" (the driver was told)
    parsed,        \* the pad of the last report that was parsed, and the one
                   \* by whose data it was calibrated
    slipped,       \* history: the controls whose newest value the worker may
                   \* have dropped, for the light was set beside its lock
    swapped        \* history: the pads that came before the driver was told
                   \* that the one before them had left

requests == <<wanted, update>>
queue == <<callers, pending>>
output == <<worker, report, shown>>
dongle == <<dongle_state, event, hotplug, retries, calib, parsed>>
radio == <<config, pads, link, swapped>>
here == link = "here"
vars == <<mode, defaults, requests, queue, output, dongle, radio, slipped>>

Init ==
    /\ config \in Configs
    /\ mode = "lights" /\ defaults = "idle"
    /\ wanted = [c \in Controls |-> 0] /\ update = {}
    /\ callers = {} /\ pending = FALSE
    /\ worker = "idle" /\ report = [c \in {} |-> 0]
    /\ shown = [c \in Controls |-> 0]
    /\ dongle_state = "DISCONNECTED" /\ event = "idle"
    /\ hotplug = "idle" /\ retries = 0 /\ calib = 0
    /\ pads = 0 /\ link = "gone" /\ parsed = <<0, 0>>
    /\ slipped = {} /\ swapped = {}

Unlocked == worker \notin {"locked", "inside"}
-----------------------------------------------------------------------------
(* Requests. *)

\* dualshock4_schedule_work, until the worker is barred.
ScheduleFor(who) ==
    /\ who \in callers /\ Unlocked
    /\ callers' = callers \ {who}
    /\ pending' = (pending \/ mode \in {"lights", "player", "up"})
    /\ UNCHANGED <<mode, defaults, requests, output, dongle, radio, slipped>>

\* dualshock4_play_effect; led_set_brightness of a colour and of the global
\* LED, whose 0 also ends the blinking; led_set_blink.
Sets(who) ==
    CASE who = "play"    -> {{"rumble"}}
      [] who = "color"   -> {{"light"}}
      [] who = "global"  -> {{"light"}, {"light", "blink"}}
      [] who = "blinker" -> {{"blink"}}

Request(who) ==
    /\ mode \in {"up", "quiesced"} \/ config.early
    /\ who \notin callers /\ Unlocked
    /\ \E cs \in Sets(who) :
           /\ \A c \in cs : wanted[c] < MaxRequests
           /\ wanted' = [c \in Controls |->
                             wanted[c] + IF c \in cs THEN 1 ELSE 0]
           /\ update' = update \cup cs
    /\ callers' = callers \cup {who}
    /\ UNCHANGED <<mode, defaults, pending, output, dongle, radio, slipped>>

\* dualshock4_set_bt_poll_interval, in dualshock4_create.
SetPollInterval ==
    /\ mode = "lights"
    /\ mode' = "player"
    /\ wanted' = [wanted EXCEPT !["poll"] = @ + 1]
    /\ update' = update \cup {"poll"}
    /\ callers' = callers \cup {"create"}
    /\ UNCHANGED <<defaults, pending, output, dongle, radio, slipped>>

\* dualshock4_set_default_lightbar_colors, called at the end of
\* dualshock4_create and for a new pad.  First the colours ...
WriteDefaults ==
    /\ defaults = "idle"
    /\ \/ mode = "player" /\ "create" \notin callers
       \/ event = "connected"
    /\ defaults' = "written"
    /\ wanted' = [wanted EXCEPT !["light"] = @ + 1]
    /\ UNCHANGED <<mode, update, queue, output, dongle, radio, slipped>>

\* What the worker drops when the flag of the light is set in the middle of
\* its work: the rumble, which it has not put beside the light; or the colours,
\* which it has read before, the flag being still to be cleared.
Slips == CASE worker = "locked" /\ "light" \notin update /\ config.coupled
               -> {"rumble"}
           [] worker = "inside" /\ "light" \in DOMAIN report -> {"light"}
           [] OTHER -> {}

\* ... then their flag ...
FlagDefaults ==
    /\ defaults = "written"
    /\ defaults' = "flagged"
    /\ update' = update \cup {"light"}
    /\ callers' = callers \cup {"defaults"}
    /\ slipped' = slipped \cup Slips
    /\ UNCHANGED <<mode, wanted, pending, output, dongle, radio>>

\* ... and after the worker is scheduled it returns.
DefaultsSet ==
    /\ defaults = "flagged" /\ "defaults" \notin callers
    /\ defaults' = "idle"

Bound ==
    /\ mode = "player" /\ DefaultsSet
    /\ mode' = "up"
    /\ UNCHANGED <<requests, queue, output, dongle, radio, slipped>>
-----------------------------------------------------------------------------
(* The output worker. *)

WorkerStarts ==
    /\ pending /\ worker = "idle"
    /\ pending' = FALSE
    /\ worker' = "started"
    /\ UNCHANGED <<mode, defaults, requests, callers, report, shown, dongle,
                   radio, slipped>>

\* Mutant: only what has changed is sent.
Together_Not == update

\* Rumble and lightbar are always sent together.
Together ==
    update \cup IF update \cap {"rumble", "light"} # {} THEN {"rumble", "light"}
                                                       ELSE {}

\* Under the lock: the flags of rumble and light are set both ...
WorkerCombines ==
    /\ worker = "started"
    /\ worker' = "locked"
    /\ update' = Together
    /\ UNCHANGED <<mode, defaults, wanted, queue, report, shown, dongle, radio,
                   slipped>>

\* ... the values are read of what is flagged ...
WorkerReads ==
    /\ worker = "locked"
    /\ worker' = "inside"
    /\ report' = [c \in update \ {"poll"} |-> wanted[c]]
    /\ slipped' = slipped \ update
    /\ UNCHANGED <<mode, defaults, requests, queue, shown, dongle, radio>>

\* ... and the flags cleared.
WorkerClears ==
    /\ worker = "inside"
    /\ worker' = "sending"
    /\ update' = update \ DOMAIN report
    /\ UNCHANGED <<mode, defaults, wanted, queue, report, shown, dongle, radio,
                   slipped>>

\* Without the lock: a Bluetooth report also has the poll interval.
WorkerSends ==
    LET poll == config.bus = "bt" /\ "poll" \in update
        lost(c) == config.coupled /\ DOMAIN report \cap {"rumble", "light"} # {}
                           /\ c \in {"rumble", "light"}
    IN
    /\ worker = "sending"
    /\ shown' = [c \in Controls |->
                     CASE c \in DOMAIN report -> report[c]
                       [] c = "poll" /\ poll -> wanted[c]
                       [] c \notin DOMAIN report /\ lost(c) -> 0
                       [] OTHER -> shown[c]]
    /\ update' = IF poll THEN update \ {"poll"} ELSE update
    /\ worker' = "idle" /\ report' = [c \in {} |-> 0]
    /\ UNCHANGED <<mode, defaults, wanted, queue, dongle, radio, slipped>>
-----------------------------------------------------------------------------
(* The dongle: pads come and go. *)

PadComes ==
    /\ config.dongle /\ ~here /\ pads < MaxPads
    /\ pads' = pads + 1 /\ link' = "here"
    /\ swapped' = IF link = "left" THEN swapped \cup {pads'} ELSE swapped
    /\ UNCHANGED <<config, mode, defaults, requests, queue, output, dongle,
                   slipped>>

PadGoes ==
    /\ here /\ link' = "left"
    /\ UNCHANGED <<mode, defaults, requests, queue, output, dongle, config,
                   pads, swapped, slipped>>

\* Mutant: a dongle that was disabled stays so.
Left_UnlessDisabled ==
    /\ dongle_state \in {"CONNECTED", "DISABLED"} /\ ~here
    /\ dongle_state' = IF dongle_state = "CONNECTED" THEN "DISCONNECTED"
                                                    ELSE "DISABLED"
    /\ UNCHANGED <<event, parsed>>

\* Mutant: reports are parsed while the calibration data is being read.
Forward_Calibrating ==
    /\ dongle_state \in {"CALIBRATING", "CONNECTED"} /\ here
    /\ parsed' = <<pads, calib>> /\ UNCHANGED <<dongle_state, event>>

\* dualshock4_dongle_parse_report: a pad is there, and was not.
Found ==
    /\ dongle_state = "DISCONNECTED" /\ here
    /\ event' = "connected" /\ UNCHANGED <<dongle_state, parsed>>

\* The pad has gone.
Left ==
    /\ dongle_state \in {"CONNECTED", "DISABLED"} /\ ~here
    /\ dongle_state' = "DISCONNECTED" /\ UNCHANGED <<event, parsed>>

\* The report goes to dualshock4_parse_report.
Forward ==
    /\ dongle_state = "CONNECTED" /\ here
    /\ parsed' = <<pads, calib>> /\ UNCHANGED <<dongle_state, event>>

\* It ends here.
Ignore ==
    /\ \/ dongle_state = "CALIBRATING"
       \/ dongle_state = "DISABLED" /\ here
       \/ dongle_state = "DISCONNECTED" /\ ~here
    /\ UNCHANGED <<dongle_state, event, parsed>>

\* A report of the dongle; there is none during probe and remove.  That the
\* pad has left is lost on the driver while it reads calibration data.
RawReport ==
    /\ config.dongle /\ mode = "up" /\ event = "idle"
    /\ Found \/ Left \/ Forward \/ Ignore
    /\ link' = IF here \/ dongle_state = "CALIBRATING" THEN link ELSE "gone"
    /\ UNCHANGED <<mode, defaults, requests, queue, output, hotplug, retries,
                   calib, config, pads, swapped, slipped>>

\* The new pad's colours are set.
Calibrating ==
    /\ event = "connected" /\ DefaultsSet /\ Unlocked
    /\ dongle_state' = "CALIBRATING"
    /\ event' = "calibrating"
    /\ UNCHANGED <<mode, requests, queue, output, hotplug, retries, calib,
                   parsed, radio, slipped>>

ScheduleHotplug ==
    /\ event = "calibrating"
    /\ event' = "idle"
    /\ hotplug' = "asking" /\ retries' = 0
    /\ UNCHANGED <<mode, defaults, requests, queue, output, dongle_state, calib,
                   parsed, radio, slipped>>

GiveUp == retries = Tries - 1

\* dualshock4_get_calibration_data: the data is had from the pad that is
\* there, or not, for instance because another program got its answer ...
Ask ==
    /\ hotplug = "asking"
    /\ \/ /\ calib' = IF here THEN pads ELSE 0
          /\ hotplug' = "CONNECTED" /\ UNCHANGED retries
       \/ /\ pads \in Faulty \/ ~here
          /\ IF GiveUp
             THEN hotplug' = "DISABLED" /\ UNCHANGED retries
             ELSE retries' = retries + 1 /\ UNCHANGED hotplug
          /\ UNCHANGED calib
    /\ UNCHANGED <<mode, defaults, requests, queue, output, dongle_state, event,
                   parsed, radio, slipped>>

\* ... which settles the state of the dongle.
Calibrated ==
    /\ hotplug \in {"CONNECTED", "DISABLED"} /\ Unlocked
    /\ dongle_state' = hotplug
    /\ hotplug' = "idle" /\ retries' = 0
    /\ UNCHANGED <<mode, defaults, requests, queue, output, event, calib,
                   parsed, radio, slipped>>
-----------------------------------------------------------------------------
(* dualshock4_remove bars the worker, and waits for the output worker and  *)
(* for the work of the dongle, which is not begun any more.                *)

Bar ==
    /\ mode = "up" /\ event = "idle" /\ Unlocked
    /\ mode' = "quiesced"
    /\ UNCHANGED <<defaults, requests, queue, output, dongle, radio, slipped>>

CancelOutput ==
    /\ mode = "quiesced" /\ worker = "idle"
    /\ mode' = "cancelled"
    /\ pending' = FALSE
    /\ UNCHANGED <<defaults, requests, callers, output, dongle, radio, slipped>>

CancelHotplug ==
    /\ mode = "cancelled" /\ hotplug = "idle"
    /\ mode' = "removed"
    /\ UNCHANGED <<defaults, requests, queue, output, dongle, radio, slipped>>
-----------------------------------------------------------------------------
Worker == \/ WorkerStarts \/ WorkerCombines \/ WorkerReads \/ WorkerClears
          \/ WorkerSends
Defaults == WriteDefaults \/ FlagDefaults
Create == SetPollInterval \/ Bound
Event == RawReport \/ Calibrating \/ ScheduleHotplug
Hotplug == Ask \/ Calibrated
Scheduling == \E who \in config.users \cup {"create", "defaults"} : ScheduleFor(who)
Remove == CancelOutput \/ CancelHotplug

Next ==
    \/ Worker \/ Defaults \/ Create \/ Event \/ Hotplug \/ Scheduling
    \/ \E who \in config.users : Request(who)
    \/ PadComes \/ PadGoes
    \/ Bar \/ Remove

Spec == Init /\ [][Next]_vars

\* Workqueues and threads run, and the dongle keeps sending its reports.
\* Pads need not come or go, nor the device be removed.
FairSpec ==
    /\ Spec
    /\ WF_vars(Worker) /\ WF_vars(Defaults) /\ WF_vars(Create)
    /\ WF_vars(Event) /\ WF_vars(Hotplug) /\ WF_vars(Scheduling)
    /\ WF_vars(Remove)
-----------------------------------------------------------------------------
(* Properties. *)

\* The values the variables range over: among them, that the calibration data
\* is asked for three times at most.
TypeOK ==
    /\ config \in Configs
    /\ mode \in {"lights", "player", "up", "quiesced", "cancelled", "removed"}
    /\ defaults \in {"idle", "written", "flagged"}
    /\ wanted \in [Controls -> 0 .. MaxRequests + MaxPads + 1]
    /\ shown \in [Controls -> 0 .. MaxRequests + MaxPads + 1]
    /\ update \subseteq Controls /\ DOMAIN report \subseteq Controls
    /\ callers \subseteq config.users \cup {"create", "defaults"}
    /\ pending \in BOOLEAN
    /\ worker \in {"idle", "started", "locked", "inside", "sending"}
    /\ dongle_state \in {"DISCONNECTED", "CALIBRATING", "CONNECTED", "DISABLED"}
    /\ event \in {"idle", "connected", "calibrating"}
    /\ hotplug \in {"idle", "asking", "CONNECTED", "DISABLED"}
    /\ retries \in 0 .. Tries - 1
    /\ {calib, pads, parsed[1], parsed[2]} \subseteq 0 .. MaxPads
    /\ link \in {"here", "left", "gone"} /\ swapped \subseteq 1 .. MaxPads
    /\ slipped \subseteq {"rumble", "light"}

\* What a report can set.
Sent == IF config.bus = "bt" THEN Controls ELSE Controls \ {"poll"}

\* Nothing is on its way to the controller.
Settled ==
    /\ mode = "up" /\ defaults = "idle" /\ event = "idle"
    /\ update \cap Sent = {} /\ callers = {} /\ ~pending /\ worker = "idle"

\* When nothing is on its way, the controller has the newest of what its
\* controls were to be set to, even one that cancels the rumble when only the
\* light is set (the comment at src/hid-playstation.c:2287).  But the default
\* colours, set without the lock, may make the worker drop something if it has
\* anything else to send: because a program was early, or for another pad.
LatestShown ==
    Settled =>
        \A c \in Sent : \/ shown[c] = wanted[c]
                        \/ c \in slipped /\ (config.early \/ config.dongle)

\* "Don't process the report since we don't have calibration data"
\* (src/hid-playstation.c:2593): the report of a pad is only ever parsed with
\* the calibration data of that pad, unless it was swapped in.
ForwardedCalibrated == parsed[1] = parsed[2] \/ parsed[1] \in swapped

\* A pad that stays gets its calibration data read and its reports parsed, even
\* after one for which the dongle was disabled ("we will re-enable the dongle",
\* src/hid-playstation.c:1892); unless it was swapped in, when it may be served
\* as the one before it was.
PadServed ==
    \A p \in (1 .. MaxPads) \ Faulty :
        here /\ pads = p /\ mode = "up"
            ~> \/ ~here \/ pads # p \/ mode # "up"
               \/ dongle_state = "CONNECTED" /\ calib = p
               \/ p \in swapped /\ dongle_state \in {"CONNECTED", "DISABLED"}
=============================================================================
