------------------------------- MODULE Daemon -------------------------------
(***************************************************************************)
(* The life of the daemon: main (src/src/main.cpp) from the search for the *)
(* controller to the shutdown, with usb_init, usb_unbind_udc and           *)
(* usb_close_fds (src/src/usb.cpp) and the two threads that transfer       *)
(* reports, hid_in_thread_func and hid_out_thread_func, as far as they     *)
(* enter and leave the kernel.  The threads of audio.cpp are one: started, *)
(* told to end and joined (what they do meanwhile is in AudioPipeline).    *)
(*                                                                         *)
(* FunctionFS holds back a thread that reads or writes an endpoint the     *)
(* host has not enabled, until it does; a transfer that is under way when  *)
(* the endpoint goes is cancelled for good.                                *)
(***************************************************************************)
EXTENDS Naturals

CONSTANTS
    MaxAttempts,  \* 5, attempts to bind the UDC
    Faults        \* the system calls that may fail beyond reason

ASSUME DaemonAssumption ==
    /\ MaxAttempts \in Nat \ {0}
    /\ Faults \subseteq {"readback", "epoll_ctl", "epoll_wait", "udc_open"}

VARIABLES
    mainPc,       \* where the main thread is
    failing,      \* the system calls of Faults that fail in this behaviour
    attempt,      \* attempts to bind the UDC so far
    running,      \* daemon_running
    shuttingDown, \* usb_shutting_down
    hidraw,       \* the controller: not opened, open or gone
    fds,          \* the FunctionFS files the process has open
    boundFlag,    \* usb_gadget_bound
    bound,        \* the UDC is bound to the gadget (kernel)
    enabled,      \* the host has the endpoints enabled (kernel)
    queued,       \* the input queue holds a report
    hidIn, hidOut,\* where the two threads are
    audio,        \* the threads of audio.cpp: none, running, ended or asleep
    late,         \* history: who entered the kernel in the shutdown ...
    again,        \* history: ... and who did so more than once
    amiss         \* history: what was not right when the gadget was unbound

flags   == <<running, shuttingDown>>
usb     == <<fds, boundFlag, bound, enabled>>
threads == <<queued, hidIn, hidOut, audio>>
history == <<late, again, amiss>>
vars    == <<mainPc, failing, attempt, flags, hidraw, usb, threads, history>>

Endpoints == {"ep0", "ep1", "ep2"}

Init ==
    /\ mainPc = "connect"
    /\ failing \in {{}, Faults}
    /\ attempt = 0
    /\ running = TRUE /\ shuttingDown = FALSE
    /\ hidraw = "none"
    /\ fds = {} /\ boundFlag = FALSE /\ bound = FALSE /\ enabled = FALSE
    /\ queued = FALSE /\ hidIn = "none" /\ hidOut = "none" /\ audio = "none"
    /\ late = {} /\ again = {} /\ amiss = {}

\* The main thread goes from one place to the next.
Goto(from, to) == mainPc = from /\ mainPc' = to
-----------------------------------------------------------------------------
(* Starting up. *)

\* while (daemon_running): bt_init finds the controller and opens it, or the
\* daemon sleeps and tries again.
Connect ==
    /\ Goto("connect", "connected")
    /\ running
    /\ hidraw' = "open"
    /\ UNCHANGED <<failing, attempt, flags, usb, threads, history>>

\* A signal ended the search, or came while it succeeded.
GiveUpSearch ==
    /\ mainPc \in {"connect", "connected"} /\ ~running
    /\ mainPc' = "exiting"
    /\ UNCHANGED <<failing, attempt, flags, hidraw, usb, threads, history>>

\* usb_init opens ep0, writes descriptors and strings, opens ep1 and ep2 ...
OpenEndpoints ==
    /\ Goto("connected", "binding")
    /\ running
    /\ fds' = Endpoints
    /\ UNCHANGED <<failing, attempt, flags, hidraw, boundFlag, bound, enabled,
                   threads, history>>

\* ... or fails on the way, leaving what it opened open.
OpenFails ==
    /\ Goto("connected", "initFailed")
    /\ running
    /\ fds' \in {{}, {"ep0"}, {"ep0", "ep1"}}
    /\ UNCHANGED <<failing, attempt, flags, hidraw, boundFlag, bound, enabled,
                   threads, history>>

\* try_bind_udc writes the name of the UDC and reads it back.
BindUdc ==
    /\ Goto("binding", "servicing")
    /\ attempt < MaxAttempts /\ ~bound
    /\ bound' = TRUE
    /\ boundFlag' = TRUE
    /\ UNCHANGED <<failing, attempt, flags, hidraw, fds, enabled, threads,
                   history>>

\* The kernel refuses, as it does when the UDC is bound already; or it
\* accepts and the name cannot be read back.
BindFails ==
    /\ mainPc = "binding" /\ attempt < MaxAttempts
    /\ attempt' = attempt + 1
    /\ bound' \in {bound} \cup (IF "readback" \in failing THEN {TRUE} ELSE {})
    /\ UNCHANGED <<mainPc, failing, flags, hidraw, fds, boundFlag, enabled,
                   threads, history>>

GiveUpBinding ==
    /\ Goto("binding", "initFailed")
    /\ attempt = MaxAttempts
    /\ UNCHANGED <<failing, attempt, flags, hidraw, usb, threads, history>>

\* usb_init failed: bt_deinit, and main returns.
DeinitEarly ==
    /\ Goto("initFailed", "exiting")
    /\ hidraw' = "none"
    /\ UNCHANGED <<failing, attempt, flags, usb, threads, history>>

\* EP0 is serviced for up to 15 s, whatever daemon_running says; the audio
\* threads start, if the gadget has UAC1.
StartAudio ==
    /\ Goto("servicing", "testing")
    /\ audio' \in {"none", "running"}
    /\ UNCHANGED <<failing, attempt, flags, hidraw, usb, queued, hidIn, hidOut,
                   history>>

\* The rumble test runs; then the HID IN thread starts.
StartIn ==
    /\ Goto("testing", "startingOut")
    /\ hidIn' = "top"
    /\ UNCHANGED <<failing, attempt, flags, hidraw, usb, queued, hidOut, audio,
                   history>>

\* EP0 joins the epoll set and the HID OUT thread starts ...
StartOut ==
    /\ Goto("startingOut", "loop")
    /\ hidOut' = "top"
    /\ UNCHANGED <<failing, attempt, flags, hidraw, usb, queued, hidIn, audio,
                   history>>

\* ... or epoll_ctl fails and main returns, the HID IN thread still running:
\* no better than a crash.
EpollFails ==
    /\ Goto("startingOut", "exiting")
    /\ "epoll_ctl" \in failing
    /\ UNCHANGED <<failing, attempt, flags, hidraw, usb, threads, history>>
-----------------------------------------------------------------------------
(* The main loop. *)

\* while (daemon_running) ...
LoopChecks ==
    /\ Goto("loop", "entering")
    /\ running
    /\ UNCHANGED <<failing, attempt, flags, hidraw, usb, threads, history>>

\* ... epoll_wait, without a timeout.  A signal in between changes nothing.
LoopWaits ==
    /\ Goto("entering", "waiting")
    /\ UNCHANGED <<failing, attempt, flags, hidraw, usb, threads, history>>

\* The controller's next report: it is queued for the HID IN thread.
ServeReport ==
    /\ Goto("waiting", "loop")
    /\ hidraw = "open"
    /\ queued' = TRUE
    /\ UNCHANGED <<failing, attempt, flags, hidraw, usb, hidIn, hidOut, audio,
                   history>>

\* The host's next request on EP0, or a report that is not for the queue.
ServeOther ==
    /\ Goto("waiting", "loop")
    /\ UNCHANGED <<failing, attempt, flags, hidraw, usb, threads, history>>

\* Reading from the controller fails and it is closed.  If epoll reported a
\* hang-up, not mere input, the daemon is to end.
LoseController ==
    /\ Goto("waiting", "loop")
    /\ hidraw = "open"
    /\ hidraw' = "gone"
    /\ running' \in {running, FALSE}
    /\ UNCHANGED <<failing, attempt, shuttingDown, usb, threads, history>>

InKernel == {"heldBack", "inflight"}

\* SIGINT or SIGTERM, the first or another one: it interrupts epoll_wait, if
\* that is where the main thread is, or the read() or write() of a thread the
\* kernel chose to handle it.
Signal ==
    /\ running' = FALSE
    /\ \/ /\ mainPc' = IF mainPc = "waiting" THEN "loop" ELSE mainPc
          /\ UNCHANGED <<hidIn, hidOut>>
       \/ /\ hidIn \in InKernel /\ hidIn' = "top"
          /\ UNCHANGED <<mainPc, hidOut>>
       \/ /\ hidOut \in InKernel /\ hidOut' = "top"
          /\ UNCHANGED <<mainPc, hidIn>>
    /\ UNCHANGED <<failing, attempt, shuttingDown, hidraw, usb, queued, audio,
                   history>>
-----------------------------------------------------------------------------
(* Shutting down. *)

LoopEnds ==
    /\ Goto("loop", "pausing")
    /\ ~running
    /\ shuttingDown' = TRUE
    /\ UNCHANGED <<failing, attempt, running, hidraw, usb, threads, history>>

\* epoll_wait fails: the loop ends, although daemon_running is set.
WaitFails ==
    /\ Goto("waiting", "pausing")
    /\ "epoll_wait" \in failing
    /\ shuttingDown' = TRUE
    /\ UNCHANGED <<failing, attempt, running, hidraw, usb, threads, history>>

\* The 20 ms pause is over too early for a thread that saw usb_shutting_down
\* unset and has not entered the kernel, or has not been let queue its transfer.
Hurried(t) == t = "held" \/ (t = "heldBack" /\ enabled)

\* A disabled endpoint cancels the transfer it has, for good.
Cut(t) == IF t = "inflight" THEN "cancelled" ELSE t

\* The gadget leaves the bus, and its endpoints go.
Unbound ==
    /\ bound' = FALSE /\ enabled' = FALSE
    /\ hidIn' = Cut(hidIn) /\ hidOut' = Cut(hidOut)

\* Mutant: the files are closed first.
UnbindUdc_Later ==
    /\ Goto("pausing", "joiningIn")
    /\ UNCHANGED <<failing, attempt, flags, hidraw, usb, threads, history>>

\* usb_unbind_udc clears usb_gadget_bound, whether or not the UDC file could
\* be opened to take the gadget off the bus.
UnbindUdc ==
    /\ Goto("pausing", "joiningIn")
    /\ boundFlag' = FALSE
    /\ \/ ~boundFlag /\ UNCHANGED <<bound, enabled, hidIn, hidOut>>
       \/ boundFlag /\ Unbound
       \/ /\ boundFlag /\ "udc_open" \in failing
          /\ UNCHANGED <<bound, enabled, hidIn, hidOut>>
    /\ amiss' = (IF Hurried(hidIn) \/ Hurried(hidOut) THEN {"hurried"} ELSE {})
                \cup (IF enabled THEN {} ELSE {"disabled"})
    /\ UNCHANGED <<failing, attempt, flags, hidraw, fds, queued, audio, late,
                   again>>

\* usb_stop_in_thread.
JoinIn ==
    /\ Goto("joiningIn", "joiningOut")
    /\ hidIn = "exited"
    /\ UNCHANGED <<failing, attempt, flags, hidraw, usb, threads, history>>

\* Mutant: the HID OUT thread is left to itself.
JoinOut_Not ==
    /\ Goto("joiningOut", "joiningAudio")
    /\ UNCHANGED <<failing, attempt, flags, hidraw, usb, threads, history>>

\* The HID OUT thread is joined; audio_deinit clears audio_running ...
JoinOut ==
    /\ Goto("joiningOut", "joiningAudio")
    /\ hidOut = "exited"
    /\ UNCHANGED <<failing, attempt, flags, hidraw, usb, threads, history>>

\* ... and joins the audio threads, if there are any.
JoinAudio ==
    /\ Goto("joiningAudio", "closing")
    /\ audio \in {"none", "ended"}
    /\ UNCHANGED <<failing, attempt, flags, hidraw, usb, threads, history>>

\* usb_close_fds closes the files and runs teardown_gadget.sh, which takes
\* the gadget off the bus in any case.
CloseFds ==
    /\ Goto("closing", "deinit")
    /\ fds' = {}
    /\ UNCHANGED <<failing, attempt, flags, hidraw, boundFlag, bound, enabled,
                   threads, history>>

Teardown ==
    /\ Goto("deinit", "exiting")
    /\ bound' = FALSE /\ enabled' = FALSE
    /\ hidraw' = "none"
    /\ UNCHANGED <<failing, attempt, flags, fds, boundFlag, threads, history>>

\* main returns: the threads are no more and the kernel closes every file.
Exit ==
    /\ Goto("exiting", "exited")
    /\ fds' = {}
    /\ hidraw' = "none"
    /\ queued' = FALSE /\ hidIn' = "none" /\ hidOut' = "none" /\ audio' = "none"
    /\ UNCHANGED <<failing, attempt, flags, boundFlag, bound, enabled, history>>
-----------------------------------------------------------------------------
(* The threads. *)

others      == <<mainPc, failing, attempt, flags, hidraw, usb, queued, audio,
                 amiss>>
OnlyIn(pc)  == hidIn' = pc /\ UNCHANGED <<others, hidOut>>
OnlyOut(pc) == hidOut' = pc /\ UNCHANGED <<others, hidIn>>

\* A thread enters the kernel, which holds it back or queues its transfer.
Entered == IF enabled THEN "inflight" ELSE "heldBack"
Enters(t) ==
    /\ late'  = IF shuttingDown THEN late \cup {t} ELSE late
    /\ again' = IF t \in late THEN again \cup {t} ELSE again
Inside == UNCHANGED <<late, again>>

InTakes ==
    /\ hidIn = "top" /\ hidIn' = "held"
    /\ queued /\ queued' = FALSE
    /\ UNCHANGED <<mainPc, failing, attempt, flags, hidraw, usb, hidOut, audio,
                   history>>

\* Mutant: the writer does not look at usb_shutting_down.
InHolds_Blind == InTakes

\* The writer takes a report and sees usb_shutting_down unset once more.
InHolds == InTakes /\ ~shuttingDown

InLeaves == hidIn = "top" /\ shuttingDown /\ OnlyIn("exited") /\ Inside

\* write().
InWrites == hidIn = "held" /\ OnlyIn(Entered) /\ Enters("in")
InQueued == hidIn = "heldBack" /\ enabled /\ OnlyIn("inflight") /\ Inside

\* The host takes the report, or the transfer fails: the thread goes on.
InDone == hidIn = "inflight" /\ OnlyIn("top") /\ Inside

\* The endpoint went under the transfer: the thread ends, even if the host
\* has enabled it again by now.
InCancelled == hidIn = "cancelled" /\ OnlyIn("exited") /\ Inside


\* The reader's loop condition, and its read().
OutHolds  == hidOut = "top" /\ running /\ ~shuttingDown /\ OnlyOut("held")
             /\ Inside
OutLeaves == hidOut = "top" /\ ~(running /\ ~shuttingDown)
             /\ OnlyOut("exited") /\ Inside
OutReads  == hidOut = "held" /\ OnlyOut(Entered) /\ Enters("out")
OutQueued == hidOut = "heldBack" /\ enabled /\ OnlyOut("inflight") /\ Inside

\* A report from the host; it is passed on and the loop goes on.
OutReceives == hidOut = "inflight" /\ OnlyOut("top") /\ Inside

\* An empty transfer ends the thread, as the end of the endpoint does.
OutEmpty     == hidOut = "inflight" /\ OnlyOut("exited") /\ Inside
OutCancelled == hidOut = "cancelled" /\ OnlyOut("exited") /\ Inside

\* The audio threads find audio_running cleared and end; or the encoder has
\* missed the notification and sleeps for ever (AudioPipeline!AsleepForever).
AudioStops ==
    /\ mainPc = "joiningAudio" /\ audio = "running"
    /\ audio' \in {"ended", "asleep"}
    /\ UNCHANGED <<mainPc, failing, attempt, flags, hidraw, usb, queued, hidIn,
                   hidOut, history>>
-----------------------------------------------------------------------------
(* The host configures the gadget, and may reset or deconfigure it. *)

HostEnables ==
    /\ bound /\ ~enabled
    /\ enabled' = TRUE
    /\ UNCHANGED <<mainPc, failing, attempt, flags, hidraw, fds, boundFlag,
                   bound, threads, history>>

HostDisables ==
    /\ bound /\ enabled
    /\ enabled' = FALSE
    /\ hidIn' = Cut(hidIn) /\ hidOut' = Cut(hidOut)
    /\ UNCHANGED <<mainPc, failing, attempt, flags, hidraw, fds, boundFlag,
                   bound, queued, audio, history>>
-----------------------------------------------------------------------------
StartUp == \/ GiveUpSearch \/ OpenEndpoints \/ OpenFails
           \/ BindUdc \/ BindFails \/ GiveUpBinding \/ DeinitEarly
           \/ StartAudio \/ StartIn \/ StartOut \/ EpollFails
Loop    == LoopChecks \/ LoopWaits \/ LoopEnds
ShutDown == \/ UnbindUdc \/ JoinIn \/ JoinOut \/ JoinAudio \/ CloseFds
            \/ Teardown \/ Exit
In      == InHolds \/ InLeaves \/ InWrites \/ InQueued \/ InDone \/ InCancelled
Out     == OutHolds \/ OutLeaves \/ OutReads \/ OutQueued \/ OutCancelled
World   == \/ Connect \/ ServeOther \/ LoseController \/ WaitFails \/ Signal
           \/ OutReceives \/ OutEmpty
           \/ HostEnables \/ HostDisables

Next == \/ StartUp \/ Loop \/ ServeReport \/ ShutDown \/ In \/ Out \/ AudioStops
        \/ World

Spec == Init /\ [][Next]_vars

\* The threads run; a transfer ends while the host polls; the controller,
\* while it is there, sends report after report.  What the user and the host
\* do is left free.
Fairness ==
    /\ WF_vars(StartUp \/ Loop \/ ShutDown)
    /\ WF_vars(ServeReport)
    /\ WF_vars(In) /\ WF_vars(Out) /\ WF_vars(AudioStops)

FairSpec == Spec /\ Fairness
-----------------------------------------------------------------------------
(* Properties. *)

MainPlaces ==
    {"connect", "connected", "binding", "initFailed", "servicing", "testing",
     "startingOut", "loop", "entering", "waiting", "pausing", "joiningIn",
     "joiningOut", "joiningAudio", "closing", "deinit", "exiting", "exited"}

ThreadPlaces ==
    {"none", "top", "held", "heldBack", "inflight", "cancelled", "exited"}

\* The values the variables range over.
TypeOK ==
    /\ failing \in {{}, Faults}
    /\ mainPc \in MainPlaces /\ attempt \in 0 .. MaxAttempts
    /\ running \in BOOLEAN /\ shuttingDown \in BOOLEAN
    /\ hidraw \in {"none", "open", "gone"}
    /\ fds \subseteq Endpoints
    /\ boundFlag \in BOOLEAN /\ bound \in BOOLEAN /\ enabled \in BOOLEAN
    /\ queued \in BOOLEAN /\ hidIn \in ThreadPlaces /\ hidOut \in ThreadPlaces
    /\ audio \in {"none", "running", "ended", "asleep"}
    /\ late \subseteq {"in", "out"} /\ again \subseteq {"in", "out"}
    /\ amiss \subseteq {"hurried", "disabled"}

\* "CRITICAL: Unbind the UDC BEFORE closing FFS file descriptors"
\* (src/src/usb.cpp:494): while the gadget is on the bus the process has all
\* of its endpoint files open.  Not so when a system call fails of which
\* the code does not expect it.
UnbindBeforeClose == failing = {} /\ bound => fds = Endpoints

\* No thread is left that could use an endpoint file when usb_close_fds, or
\* the end of the process, closes it.
JoinedBeforeClose ==
    fds # Endpoints => {hidIn, hidOut} \subseteq {"none", "exited"}

\* "Signal all writers to stop submitting URBs" (src/src/usb.cpp:488): however
\* the flag races the threads, each enters the kernel at most once after it was
\* set; and none does after the gadget was unbound, unless it was on its way
\* there when the pause was over.
NothingSubmittedLate ==
    /\ again = {}
    /\ mainPc \in {"joiningIn", "joiningOut", "joiningAudio", "closing",
                   "deinit"}
           => "hurried" \in amiss \/ "held" \notin {hidIn, hidOut}

\* epoll_wait was entered with the signal already noted, and no controller is
\* left whose reports would end the wait.
WaitsInVain == mainPc = "waiting" /\ hidraw = "gone"

\* A thread is held back at an endpoint that no host can enable any more, for
\* it was not in flight when the gadget was unbound: it was too late for that,
\* or the host had the endpoint disabled.
HeldForGood ==
    /\ amiss # {} /\ ~bound
    /\ \/ mainPc = "joiningIn" /\ hidIn = "heldBack"
       \/ mainPc = "joiningOut" /\ hidOut = "heldBack"

\* The encoder thread has missed the end.
SleepsForGood == mainPc = "joiningAudio" /\ audio = "asleep"

=============================================================================
