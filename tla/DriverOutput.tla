---------------------------- MODULE DriverOutput ----------------------------
(***************************************************************************)
(* What the host's driver sends to a DualSense (src/hid-playstation.c):    *)
(* the output worker, those who leave it something to send, from the end   *)
(* of dualsense_create to dualsense_remove, and the controller that takes  *)
(* its reports.                                                            *)
(*                                                                         *)
(* A control is a part of the controller the driver sets.  What it is set  *)
(* to is the number of the request, so the newest is the highest.  The     *)
(* spinlock makes every section under it one step; a request and the       *)
(* scheduling of the worker are two.  FALSE for use_vibration_v2.          *)
(***************************************************************************)
EXTENDS Integers

CONSTANTS
    Configs,     \* in which the driver may find itself: records of
                 \*   bus,    "usb" or "bt",
                 \*   gadget, on USB, the gadget is in front of the controller,
                 \*   jack,   what the jack of the controller detects,
                 \*   early,  the gamepad is used before the probe is over
                 \*   most,   bounds the requests for each control
    SeqNumbers   \* 16 sequence numbers in a Bluetooth report

Controls == {"rumble", "lightbar", "leds", "mic"}

ASSUME OutputAssumption ==
    /\ \A c \in Configs :
          /\ c.bus \in {"usb", "bt"} /\ c.gadget \in BOOLEAN
          /\ c.gadget => c.bus = "usb"
          /\ c.jack \subseteq {"hp", "mic"} /\ c.early \in BOOLEAN
          /\ c.most \in [Controls -> Nat] /\ c.most["lightbar"] > 0
    /\ SeqNumbers \in Nat \ {0}

VARIABLES
    config,       \* one of Configs
    mode,         \* where the probe is, up, or where the removal is
    createSeq,    \* the number of the report dualsense_reset_leds builds
    wanted,       \* what each control was last set to
    update,       \* the update_ flags
    callers,      \* who has a request noted and will now schedule the worker
    plugged_state, prev_plugged_state, prev_plugged_state_valid,
    output_seq,
    pending,      \* the output worker is queued
    worker,       \* where it is when it runs
    report,       \* the report it builds: number, controls and their values
    shown,        \* the controller: what its controls are set to,
    route,        \*   where its sound goes,
    last,         \*   the number of the last report,
    sent          \*   and how many there were, modulo SeqNumbers

jack == <<plugged_state, prev_plugged_state, prev_plugged_state_valid>>
requests == <<wanted, update>>
queue == <<callers, pending>>
controller == <<config, shown, route, last, sent>>
build == <<worker, report>>
vars == <<mode, createSeq, requests, jack, output_seq, queue, build,
          controller>>

NoReport == [seq |-> 0, set |-> [c \in {} |-> 0], route |-> "as is"]

Init ==
    /\ config \in Configs
    /\ mode = "gamepad" /\ createSeq = 0
    /\ wanted = [c \in Controls |-> 0] /\ update = {}
    /\ callers = {} /\ pending = FALSE
    /\ plugged_state = {} /\ prev_plugged_state = {}
    /\ prev_plugged_state_valid = FALSE
    /\ output_seq = 0
    /\ worker = "idle" /\ report = NoReport
    /\ shown = [c \in Controls |-> 0] /\ route = "none"
    /\ last = -1 /\ sent = 0
-----------------------------------------------------------------------------
(* Requests. *)

\* Mutant: a worker that runs is not queued again.
Schedule_IfIdle(who) ==
    /\ callers' = callers \ {who}
    /\ pending' = (pending \/ (worker = "idle" /\ mode # "quiesced"))

\* dualsense_schedule_work, until the worker is barred.
Schedule(who) ==
    /\ callers' = callers \ {who}
    /\ pending' = (pending \/ mode # "quiesced")

ScheduleFor(who) ==
    /\ who \in callers
    /\ Schedule(who)
    /\ UNCHANGED <<mode, createSeq, requests, jack, output_seq, build,
                   controller>>

\* A control is to be set: values and flag, under the lock.
Note(c) ==
    /\ wanted[c] < config.most[c]
    /\ wanted' = [wanted EXCEPT ![c] = @ + 1]
    /\ update' = update \cup {c}
    /\ callers' = callers \cup {c}
    /\ UNCHANGED <<createSeq, jack, output_seq, pending, build, controller>>

Lights == {"lights", "leds", "ledsFlagged", "ledsSet"}

\* dualsense_play_effect, the lightbar's and the player LEDs' set_brightness,
\* each by one thread at a time.
Request(c) ==
    /\ c \in {"rumble", "lightbar", "leds"} \ callers
    /\ \/ mode \in {"up", "quiesced"}
       \/ c = "rumble" /\ config.early
    /\ mode # "removed"
    /\ Note(c) /\ UNCHANGED mode

\* dualsense_parse_report: the mute button goes down.
MuteButton ==
    /\ mode = "up" /\ callers \cap {"mic", "jack"} = {}
    /\ Note("mic") /\ UNCHANGED mode

\* Mutant: the first report is compared with what the driver starts with.
JackReport_NoFirst(value) ==
    /\ mode = "up" /\ config.bus = "usb" /\ callers \cap {"mic", "jack"} = {}
    /\ prev_plugged_state_valid' = TRUE
    /\ IF value # plugged_state
       THEN /\ prev_plugged_state' = plugged_state
            /\ plugged_state' = value
            /\ callers' = callers \cup {"jack"}
       ELSE UNCHANGED <<prev_plugged_state, plugged_state, callers>>
    /\ UNCHANGED <<mode, createSeq, requests, output_seq, pending, build,
                   controller>>

\* dualsense_parse_report: what is in the jack.  The first report counts as
\* a change of everything.
JackReport(value) ==
    LET before == IF prev_plugged_state_valid THEN plugged_state
                                              ELSE config.jack \ value
    IN
    /\ mode = "up" /\ config.bus = "usb" /\ callers \cap {"mic", "jack"} = {}
    /\ value # before
    /\ prev_plugged_state_valid' = TRUE
    /\ prev_plugged_state' = before
    /\ plugged_state' = value
    /\ callers' = callers \cup {"jack"}
    /\ UNCHANGED <<mode, createSeq, requests, output_seq, pending, build,
                   controller>>
-----------------------------------------------------------------------------
(* The output worker. *)

Next_seq(n) == IF n + 1 = SeqNumbers THEN 0 ELSE n + 1

\* dualsense_init_output_report: a Bluetooth report takes a number ...
WorkerStarts ==
    /\ pending /\ worker = "idle"
    /\ pending' = FALSE
    /\ worker' = "numbered"
    /\ report' = [NoReport EXCEPT !.seq = output_seq]
    /\ UNCHANGED <<mode, createSeq, requests, jack, output_seq, callers,
                   controller>>

\* ... and moves the counter on, from where it finds it now or found it then.
MoveOn(seq) ==
    IF config.bus = "bt"
    THEN output_seq' \in {Next_seq(seq), Next_seq(output_seq)}
    ELSE UNCHANGED output_seq

WorkerMovesOn ==
    /\ worker = "numbered"
    /\ MoveOn(report.seq)
    /\ worker' = "building"
    /\ UNCHANGED <<mode, createSeq, requests, jack, queue, report, controller>>

Plugged(bit) == bit \in plugged_state
Changed(bit) == ~(Plugged(bit) <=> bit \in prev_plugged_state)

\* Mutant: the flag of the player LEDs is assigned, too.
Marked_OneOnly ==
    IF Changed("hp")
    THEN update \cap (IF Plugged("hp") THEN {"lightbar", "leds", "mic"}
                                       ELSE {"mic"})
    ELSE update \ (IF "leds" \in update THEN {"lightbar"} ELSE {})

\* The controls whose flags the report has in the end.  The routing assigns
\* valid_flag0, which has that of the rumble, and, towards the speaker,
\* valid_flag1 with those of the lights.
Marked ==
    IF Changed("hp")
    THEN update \cap (IF Plugged("hp") THEN {"lightbar", "leds", "mic"}
                                       ELSE {"mic"})
    ELSE update

\* dualsense_output_worker under the lock.
WorkerBuilds ==
    /\ worker = "building"
    /\ worker' = "sending"
    /\ report' = [report EXCEPT
           !.set = [c \in Marked |-> wanted[c]],
           !.route = CASE ~Changed("hp") -> "as is"
                       [] Changed("hp") /\ Plugged("hp") -> "headphones"
                       [] Changed("hp") /\ ~Plugged("hp") -> "speaker"]
    /\ update' = {}
    /\ prev_plugged_state' = plugged_state
    /\ UNCHANGED <<mode, createSeq, wanted, plugged_state,
                   prev_plugged_state_valid, output_seq, queue, controller>>

\* translate_usb_output_to_bt of the gadget (src/src/main.cpp) marks the
\* rumble in every report; where the driver did not set it, its motors are 0.
Translated(set) ==
    [c \in DOMAIN set \cup {"rumble"} |-> IF c \in DOMAIN set THEN set[c] ELSE 0]

\* dualsense_send_output_report: the controller takes what is marked.
Arrives(r) ==
    LET set == IF config.gadget THEN Translated(r.set) ELSE r.set IN
    /\ shown' = [c \in Controls |->
                     IF c \in DOMAIN set THEN set[c] ELSE shown[c]]
    /\ route' = IF r.route = "as is" THEN route ELSE r.route
    /\ last' = r.seq
    /\ sent' = (sent + 1) % SeqNumbers
    /\ UNCHANGED config

WorkerSends ==
    /\ worker = "sending"
    /\ Arrives(report)
    /\ worker' = "idle" /\ report' = NoReport
    /\ UNCHANGED <<mode, createSeq, requests, jack, output_seq, queue>>
-----------------------------------------------------------------------------
(* The end of dualsense_create, and dualsense_remove. *)

\* dualsense_reset_leds builds a report of its own: it takes a number ...
ResetLeds ==
    /\ mode = "gamepad"
    /\ mode' = "numbered"
    /\ createSeq' = output_seq
    /\ UNCHANGED <<requests, jack, output_seq, queue, build, controller>>

\* Mutant: the counter is left where it is.
ResetMovesOn_Not ==
    /\ mode = "numbered"
    /\ mode' = "reset"
    /\ UNCHANGED <<createSeq, requests, jack, output_seq, queue, build,
                   controller>>

ResetMovesOn ==
    /\ mode = "numbered"
    /\ MoveOn(createSeq)
    /\ mode' = "reset"
    /\ UNCHANGED <<createSeq, requests, jack, queue, build, controller>>

\* ... and sends the report, which sets none of the controls.
ResetSends ==
    /\ mode = "reset"
    /\ Arrives([NoReport EXCEPT !.seq = createSeq])
    /\ mode' = "lights"
    /\ UNCHANGED <<createSeq, requests, jack, output_seq, queue, build>>

\* dualsense_set_lightbar.
SetLightbar ==
    /\ mode = "lights"
    /\ mode' = "leds"
    /\ Note("lightbar")

\* dualsense_set_player_leds, without the lock: first the flag, then what it
\* is about, then the worker is scheduled.
FlagPlayerLeds ==
    /\ mode = "leds" /\ "lightbar" \notin callers
    /\ mode' = "ledsFlagged"
    /\ update' = update \cup {"leds"}
    /\ UNCHANGED <<createSeq, wanted, jack, output_seq, queue, build,
                   controller>>

SetPlayerLeds ==
    /\ mode = "ledsFlagged"
    /\ mode' = "ledsSet"
    /\ wanted' = [wanted EXCEPT !["leds"] = @ + 1]
    /\ callers' = callers \cup {"leds"}
    /\ UNCHANGED <<createSeq, update, jack, output_seq, pending, build,
                   controller>>

Bound ==
    /\ mode = "ledsSet" /\ "leds" \notin callers
    /\ mode' = "up"
    /\ UNCHANGED <<createSeq, requests, jack, output_seq, queue, build,
                   controller>>

\* dualsense_remove bars the worker ...
Bar ==
    /\ mode = "up" /\ callers \cap {"mic", "jack"} = {}
    /\ mode' = "quiesced"
    /\ UNCHANGED <<createSeq, requests, jack, output_seq, queue, build,
                   controller>>

\* ... and takes it out of its queue or waits for its end.
CancelWork ==
    /\ mode = "quiesced" /\ worker = "idle"
    /\ mode' = "removed"
    /\ pending' = FALSE
    /\ UNCHANGED <<createSeq, requests, jack, output_seq, callers, build,
                   controller>>
-----------------------------------------------------------------------------
Worker == WorkerStarts \/ WorkerMovesOn \/ WorkerBuilds \/ WorkerSends
Create ==
    \/ ResetLeds \/ ResetMovesOn \/ ResetSends \/ SetLightbar
    \/ FlagPlayerLeds \/ SetPlayerLeds \/ Bound
Scheduling == \E who \in Controls \cup {"jack"} : ScheduleFor(who)
Input == MuteButton \/ \E value \in SUBSET config.jack : JackReport(value)

Next ==
    \/ Worker \/ Create \/ Scheduling \/ Input
    \/ \E c \in Controls : Request(c)
    \/ Bar \/ CancelWork

Spec == Init /\ [][Next]_vars

\* The workqueue and the threads of the kernel run.  Nobody need touch the
\* controller or take it away.
FairSpec ==
    Spec /\ WF_vars(Worker) /\ WF_vars(Create) /\ WF_vars(Scheduling)
         /\ WF_vars(CancelWork)
-----------------------------------------------------------------------------
(* Properties. *)

\* The values the variables range over.
TypeOK ==
    /\ config \in Configs
    /\ mode \in {"gamepad", "numbered", "reset", "up", "quiesced", "removed"}
                    \cup Lights
    /\ wanted \in [Controls -> Nat] /\ update \subseteq Controls
    /\ shown \in [Controls -> Nat]
    /\ callers \subseteq Controls \cup {"jack"} /\ pending \in BOOLEAN
    /\ plugged_state \subseteq config.jack
    /\ prev_plugged_state \subseteq config.jack
    /\ prev_plugged_state_valid \in BOOLEAN
    /\ output_seq \in 0 .. SeqNumbers - 1 /\ createSeq \in 0 .. SeqNumbers - 1
    /\ worker \in {"idle", "numbered", "building", "sending"}
    /\ report \in [seq : 0 .. SeqNumbers - 1, set : {report.set},
                   route : {"as is", "headphones", "speaker"}]
    /\ DOMAIN report.set \subseteq Controls
    /\ \A c \in DOMAIN report.set : report.set[c] \in Nat
    /\ route \in {"none", "headphones", "speaker"}
    /\ last \in -1 .. SeqNumbers - 1 /\ sent \in 0 .. SeqNumbers - 1

\* Nothing is on its way to the controller.
Settled ==
    /\ mode = "up" /\ update = {} /\ callers = {} /\ ~pending
    /\ worker = "idle"

\* When nothing is on its way, the controller has the newest of what it was
\* to be set to, whoever asked while the worker was at work.  Behind the
\* gadget, too: for the host it is to be "as if connected by a USB cable"
\* (src/instrucoes.md:59).  The flags that the routing of the sound
\* overwrites, and those the probe sets without the lock, are left out.
LatestShown ==
    Settled /\ config.jack = {} =>
        \A c \in Controls \ {"leds"} : shown[c] = wanted[c]

\* Whatever is asked for is sent, or the device is removed.
EveryUpdateSent ==
    \A c \in Controls : c \in update ~> c \notin update \/ mode = "removed"

\* "Highest 4-bit is a sequence number, which needs to be increased every
\* report" (src/hid-playstation.c:1255): report by report the controller gets
\* the numbers in turn, from 0, if nobody plays before the probe is over.
NumberedInTurn ==
    config.bus = "bt" /\ ~config.early /\ last # -1 =>
        sent = (last + 1) % SeqNumbers

\* "Schedule audio routing towards active endpoint"
\* (src/hid-playstation.c:1529): when nothing is on its way, the sound goes to
\* the headphones if and only if they are plugged in, where the jack detects
\* nothing else.
RouteFollows ==
    Settled /\ prev_plugged_state_valid /\ config.jack = {"hp"} =>
        route = IF Plugged("hp") THEN "headphones" ELSE "speaker"
=============================================================================
