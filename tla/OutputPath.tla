----------------------------- MODULE OutputPath -----------------------------
(***************************************************************************)
(* The host-to-controller output path: translate_usb_output_to_bt          *)
(* (src/src/main.cpp), called by the HID OUT reader thread and, for        *)
(* SET_REPORT on EP0, by the main thread; bt_write (src/src/bt.cpp), which *)
(* the audio thread calls too; and what the main thread does to the hidraw *)
(* descriptor under them, when the controller goes and in the shutdown.    *)
(* The number of a closed descriptor goes to whoever opens a file next:    *)
(* the audio thread that looks for the sound card, or usb_unbind_udc.      *)
(*                                                                         *)
(* A report is where it came from, its number there, the sequence number   *)
(* the code gives it and the true one (draw), which has no limit.          *)
(***************************************************************************)
EXTENDS Integers, Sequences

CONSTANTS
    SeqLimit,  \* 16, the sequence number has four bits
    MaxSent    \* bounds: reports each source produces in one behaviour

ASSUME OutputAssumption ==
    /\ SeqLimit \in Nat \ {0}
    /\ MaxSent \in [{"out", "ep0", "audio"} -> Nat]

VARIABLES
    seqCounter,   \* reportSeqCounter of main.cpp
    seqLock,      \* owner of seq_mutex
    pc,           \* where each source is
    rep,          \* the report each source has in hand
    fd,           \* the value of hidraw_fd each source saw in bt_write
    hidrawFd,     \* hidraw_fd
    fdUse,        \* what the descriptor number Fd refers to (kernel)
    bound,        \* the UDC is bound to the gadget (kernel)
    mainPc,       \* where the main thread is, EP0 requests apart
    running,      \* daemon_running
    shuttingDown, \* usb_shutting_down
    audioRunning, \* audio_running
    sent,         \* history: how many reports each source produced
    draws,        \* history: how many sequence numbers were drawn
    wire,         \* history: the host's reports that the controller got
    failed,       \* history: the last report of each source that was lost
    stray,        \* history: <<source, file>> for each report that was
                  \* written to another file
    hurried       \* history: the pause of usb_unbind_udc was shorter than
                  \* some bt_write under way

seqs    == <<seqCounter, seqLock, draws>>
device  == <<hidrawFd, fdUse, bound>>
flags   == <<running, shuttingDown, audioRunning>>
outcome == <<wire, failed, stray, hurried>>
vars    == <<seqs, pc, rep, fd, device, mainPc, flags, sent, outcome>>

\* The HID OUT thread, SET_REPORT on the main thread, the audio thread.
Sources     == {"out", "ep0", "audio"}
Translators == {"out", "ep0"}

Free   == "free"
Closed == -1
Fd     == 5   \* the number open() gave the hidraw device

Report(s, n, seq, draw) == [src |-> s, n |-> n, seq |-> seq, draw |-> draw]

\* Where a source goes when it is done with a report.
Rest(s) == IF s = "ep0" THEN "idle" ELSE "top"
-----------------------------------------------------------------------------
Init ==
    /\ seqCounter = 0 /\ seqLock = Free /\ draws = 0
    /\ pc = [out |-> "notStarted", ep0 |-> "idle", audio |-> "notStarted"]
    /\ rep = [s \in Sources |-> Report(s, 0, 0, 0)]
    /\ fd = [s \in Sources |-> Closed]
    /\ hidrawFd = Fd /\ fdUse = "hidraw" /\ bound = TRUE
    /\ mainPc = "servicing"
    /\ running = TRUE /\ shuttingDown = FALSE /\ audioRunning = FALSE
    /\ sent = [s \in Sources |-> 0]
    /\ wire = <<>> /\ failed = [s \in Sources |-> 0]
    /\ stray = {} /\ hurried = FALSE
-----------------------------------------------------------------------------
(* translate_usb_output_to_bt and bt_write. *)

Produce(s) ==
    /\ sent[s] < MaxSent[s]
    /\ sent' = [sent EXCEPT ![s] = @ + 1]

\* The host sends an output report: the blocking read() of the HID OUT
\* thread returns it, or usb_handle_ep0 reads it from EP0.
HostSends(s) ==
    /\ s = "out" => pc[s] = "reading" /\ bound
    /\ s = "ep0" => pc[s] = "idle" /\ mainPc \in {"servicing", "loop"}
    /\ Produce(s)
    /\ pc' = [pc EXCEPT ![s] = "got"]
    /\ rep' = [rep EXCEPT ![s] = Report(s, sent'[s], 0, 0)]
    /\ UNCHANGED <<seqs, fd, device, mainPc, flags, outcome>>

\* Mutant: seq_mutex is not taken.
SeqRead_Unlocked(s) ==
    /\ pc[s] = "got"
    /\ rep' = [rep EXCEPT ![s].seq = seqCounter]
    /\ pc' = [pc EXCEPT ![s] = "bumping"]
    /\ UNCHANGED <<seqs, fd, device, mainPc, flags, sent, outcome>>

\* With seq_mutex, the counter is read into the report ...
SeqRead(s) ==
    /\ pc[s] = "got"
    /\ seqLock = Free
    /\ seqLock' = s
    /\ rep' = [rep EXCEPT ![s].seq = seqCounter]
    /\ pc' = [pc EXCEPT ![s] = "bumping"]
    /\ UNCHANGED <<seqCounter, draws, fd, device, mainPc, flags, sent,
                   outcome>>

\* if (++reportSeqCounter == 16) reportSeqCounter = 0
NextSeq(n) == IF n + 1 = SeqLimit THEN 0 ELSE n + 1

\* ... and incremented.
SeqBump(s) ==
    /\ pc[s] = "bumping"
    /\ seqCounter' = NextSeq(seqCounter)
    /\ rep' = [rep EXCEPT ![s].draw = draws]
    /\ draws' = draws + 1
    /\ seqLock' = Free
    /\ pc' = [pc EXCEPT ![s] = "drawn"]
    /\ UNCHANGED <<fd, device, mainPc, flags, sent, outcome>>

\* usb_shutting_down is looked at, once; the report may go no further.
ShutdownCheck(s) ==
    /\ pc[s] = "drawn"
    /\ pc' = [pc EXCEPT ![s] = IF shuttingDown THEN Rest(s) ELSE "cleared"]
    /\ UNCHANGED <<seqs, rep, fd, device, mainPc, flags, sent, outcome>>

\* Mutant: the check is the wrong way round.
FdCheck_Inverted(s) ==
    /\ pc[s] = "cleared"
    /\ fd' = [fd EXCEPT ![s] = hidrawFd]
    /\ pc' = [pc EXCEPT ![s] = IF hidrawFd # Closed THEN Rest(s)
                                                    ELSE "checked"]
    /\ UNCHANGED <<seqs, rep, device, mainPc, flags, sent, outcome>>

\* bt_write returns at once when the controller is gone ...
FdCheck(s) ==
    /\ pc[s] = "cleared"
    /\ fd' = [fd EXCEPT ![s] = hidrawFd]
    /\ pc' = [pc EXCEPT ![s] = IF hidrawFd = Closed THEN Rest(s)
                                                    ELSE "checked"]
    /\ UNCHANGED <<seqs, rep, device, mainPc, flags, sent, outcome>>

\* Mutant: a write() that succeeded may be tried once more.
WriteReport_Again(s) ==
    /\ pc[s] = "checked"
    /\ fdUse = "hidraw"
    /\ wire' = Append(wire, rep[s])
    /\ pc' \in {pc, [pc EXCEPT ![s] = Rest(s)]}
    /\ UNCHANGED <<seqs, rep, fd, device, mainPc, flags, sent, failed, stray,
                   hurried>>

\* ... otherwise it writes to hidraw_fd.  The variable is no atomic and the
\* main thread may be changing it, so the value is the one just checked or
\* the one the variable has now.  A failed write() is logged, no more.
WriteReport(s) ==
    /\ pc[s] = "checked"
    /\ pc' = [pc EXCEPT ![s] = Rest(s)]
    /\ fd' = [fd EXCEPT ![s] = Closed]
    /\ \E f \in {fd[s], hidrawFd} :
          \/ /\ f = Fd /\ fdUse = "hidraw"
             /\ wire' = IF s \in Translators THEN Append(wire, rep[s]) ELSE wire
             /\ UNCHANGED <<failed, stray>>
          \/ /\ f = Fd /\ fdUse \in {"udc", "alsa"}
             /\ stray' = stray \cup {<<s, fdUse>>}
             /\ UNCHANGED <<wire, failed>>
          \/ /\ failed' = [failed EXCEPT ![s] = rep[s].n]
             /\ UNCHANGED <<wire, stray>>
    /\ UNCHANGED <<seqs, rep, device, mainPc, flags, sent, hurried>>

\* The HID OUT thread looks at its loop condition.
OutTop ==
    /\ pc["out"] = "top"
    /\ pc' = [pc EXCEPT !["out"] = IF running /\ ~shuttingDown
                                   THEN "reading" ELSE "exited"]
    /\ UNCHANGED <<seqs, rep, fd, device, mainPc, flags, sent, outcome>>

\* Its read() fails, the endpoint being gone, and it leaves.
OutCancelled ==
    /\ pc["out"] = "reading" /\ ~bound
    /\ pc' = [pc EXCEPT !["out"] = "exited"]
    /\ UNCHANGED <<seqs, rep, fd, device, mainPc, flags, sent, outcome>>

\* So it does when the host deconfigures the gadget or sends an empty
\* transfer.
OutEnds ==
    /\ pc["out"] = "reading" /\ bound
    /\ pc' = [pc EXCEPT !["out"] = "exited"]
    /\ UNCHANGED <<seqs, rep, fd, device, mainPc, flags, sent, outcome>>

\* It gets a report with another id, or read() was interrupted: it goes on.
OutSkips ==
    /\ pc["out"] = "reading"
    /\ pc' = [pc EXCEPT !["out"] = "top"]
    /\ UNCHANGED <<seqs, rep, fd, device, mainPc, flags, sent, outcome>>

\* open() takes the lowest number that is free, close() gives it back.
Opened(file) == IF fdUse = "free" THEN file ELSE fdUse
ClosedBy(file) == IF fdUse = file THEN "free" ELSE fdUse

\* alsa_capture_entry: while there is no sound card of the gadget's, alsa_open
\* opens the files of one card after the other (those that are left when
\* audio_running is cleared are left out, the HID OUT thread has ended) ...
AudioOpens ==
    /\ pc["audio"] = "seeking" /\ audioRunning
    /\ fdUse' = Opened("alsa")
    /\ pc' = [pc EXCEPT !["audio"] = "probing"]
    /\ UNCHANGED <<seqs, rep, fd, hidrawFd, bound, mainPc, flags, sent,
                   outcome>>

\* ... and closes them again ...
AudioCloses ==
    /\ pc["audio"] = "probing"
    /\ fdUse' = ClosedBy("alsa")
    /\ pc' = [pc EXCEPT !["audio"] = "seeking"]
    /\ UNCHANGED <<seqs, rep, fd, hidrawFd, bound, mainPc, flags, sent,
                   outcome>>

\* ... or has found the card and keeps it open.
AudioFinds ==
    /\ pc["audio"] = "probing"
    /\ fdUse' \in {fdUse, ClosedBy("alsa")}
    /\ pc' = [pc EXCEPT !["audio"] = "top"]
    /\ UNCHANGED <<seqs, rep, fd, hidrawFd, bound, mainPc, flags, sent,
                   outcome>>

\* process_pcm_data: the audio thread hands a haptics report, numbered by a
\* counter of its own, to bt_write.  It does not look at usb_shutting_down.
AudioComposes ==
    /\ pc["audio"] = "top" /\ audioRunning
    /\ Produce("audio")
    /\ rep' = [rep EXCEPT !["audio"] = Report("audio", sent'["audio"], 0, 0)]
    /\ pc' = [pc EXCEPT !["audio"] = "cleared"]
    /\ UNCHANGED <<seqs, fd, device, mainPc, flags, outcome>>

AudioEnds ==
    /\ pc["audio"] \in {"seeking", "top"} /\ ~audioRunning
    /\ pc' = [pc EXCEPT !["audio"] = "exited"]
    /\ UNCHANGED <<seqs, rep, fd, device, mainPc, flags, sent, outcome>>

\* The sound card does not appear in time, or fails for good: the thread ends.
AudioGivesUp ==
    /\ pc["audio"] \in {"seeking", "top"} /\ audioRunning
    /\ pc' = [pc EXCEPT !["audio"] = "exited"]
    /\ UNCHANGED <<seqs, rep, fd, device, mainPc, flags, sent, outcome>>
-----------------------------------------------------------------------------
(* The main thread. *)

\* usb_init has serviced EP0 during the enumeration; audio_init starts the
\* audio thread (not to start it is no different from its giving up).
StartAudio ==
    /\ mainPc = "servicing" /\ pc["ep0"] = "idle"
    /\ audioRunning' = TRUE
    /\ pc' = [pc EXCEPT !["audio"] = "seeking"]
    /\ mainPc' = "rumbleOn"
    /\ UNCHANGED <<seqs, rep, fd, device, running, shuttingDown, sent, outcome>>

\* send_startup_rumble_test draws a number without the mutex, the HID OUT
\* thread does not exist yet, and writes a report of its own.  After the second
\* one the main loop starts.
RumbleTest ==
    /\ mainPc \in {"rumbleOn", "rumbleOff"}
    /\ seqCounter' = NextSeq(seqCounter)
    /\ draws' = draws + 1
    /\ IF mainPc = "rumbleOn"
       THEN mainPc' = "rumbleOff" /\ UNCHANGED pc
       ELSE mainPc' = "loop" /\ pc' = [pc EXCEPT !["out"] = "top"]
    /\ UNCHANGED <<seqLock, rep, fd, device, flags, sent, outcome>>

AtLoop == mainPc = "loop" /\ pc["ep0"] = "idle"

\* Reading from the controller fails: its descriptor is closed ...
LoseController ==
    /\ AtLoop /\ hidrawFd = Fd
    /\ fdUse' = "free"
    /\ mainPc' = "closing"
    /\ UNCHANGED <<seqs, pc, rep, fd, hidrawFd, bound, flags, sent, outcome>>

\* Mutant: hidraw_fd keeps the number of the closed descriptor.
ForgetController_Not ==
    /\ mainPc = "closing"
    /\ running' \in {running, FALSE}
    /\ mainPc' = "loop"
    /\ UNCHANGED <<seqs, pc, rep, fd, device, shuttingDown, audioRunning,
                   sent, outcome>>

\* ... and forgotten.  If epoll reported a hang-up the daemon is to end.
ForgetController ==
    /\ mainPc = "closing"
    /\ hidrawFd' = Closed
    /\ running' \in {running, FALSE}
    /\ mainPc' = "loop"
    /\ UNCHANGED <<seqs, pc, rep, fd, fdUse, bound, shuttingDown,
                   audioRunning, sent, outcome>>

\* SIGINT or SIGTERM.
Signal ==
    /\ running
    /\ running' = FALSE
    /\ UNCHANGED <<seqs, pc, rep, fd, device, mainPc, shuttingDown,
                   audioRunning, sent, outcome>>

\* The main loop ends: usb_shutting_down is set and usb_unbind_udc pauses.
LeaveLoop ==
    /\ AtLoop /\ ~running
    /\ shuttingDown' = TRUE
    /\ mainPc' = "pausing"
    /\ UNCHANGED <<seqs, pc, rep, fd, device, running, audioRunning, sent,
                   outcome>>

\* A bt_write that saw hidraw_fd before it was forgotten.
Stale(s) == pc[s] = "checked" /\ fd[s] # hidrawFd

\* usb_unbind_udc opens the UDC file, which gets the lowest free number,
\* after a pause of 20 ms, which is to outlast every bt_write under way ...
OpenUdc ==
    /\ mainPc = "pausing"
    /\ fdUse' = Opened("udc")
    /\ hurried' = (hurried \/ \E s \in Sources : Stale(s))
    /\ mainPc' = "unbinding"
    /\ UNCHANGED <<seqs, pc, rep, fd, hidrawFd, bound, flags, sent, wire,
                   failed, stray>>

\* ... writes to it and closes it: the gadget leaves the bus.
UnbindUdc ==
    /\ mainPc = "unbinding"
    /\ bound' = FALSE
    /\ fdUse' = ClosedBy("udc")
    /\ mainPc' = "joining"
    /\ UNCHANGED <<seqs, pc, rep, fd, hidrawFd, flags, sent, outcome>>

\* The HID OUT thread is joined; audio_deinit stops the audio thread ...
JoinOut ==
    /\ mainPc = "joining"
    /\ pc["out"] = "exited"
    /\ audioRunning' = FALSE
    /\ mainPc' = "joiningAudio"
    /\ UNCHANGED <<seqs, pc, rep, fd, device, running, shuttingDown, sent,
                   outcome>>

\* ... and joins it.  The FunctionFS descriptors are closed, the teardown
\* script runs, and last bt_deinit closes the controller.
JoinAudio ==
    /\ mainPc = "joiningAudio"
    /\ pc["audio"] = "exited"
    /\ hidrawFd' = Closed
    /\ fdUse' = "free"
    /\ mainPc' = "exited"
    /\ UNCHANGED <<seqs, pc, rep, fd, bound, flags, sent, outcome>>
-----------------------------------------------------------------------------
Translate(s) == \/ SeqRead(s) \/ SeqBump(s) \/ ShutdownCheck(s)
BtWrite(s)   == FdCheck(s) \/ WriteReport(s)
Out   == Translate("out") \/ BtWrite("out") \/ OutTop \/ OutCancelled
Audio == \/ AudioOpens \/ AudioCloses \/ AudioFinds
         \/ BtWrite("audio") \/ AudioEnds
Main  == \/ StartAudio \/ RumbleTest \/ Translate("ep0") \/ BtWrite("ep0")
         \/ ForgetController \/ LeaveLoop \/ OpenUdc \/ UnbindUdc
         \/ JoinOut \/ JoinAudio
World == \/ \E s \in Translators : HostSends(s)
         \/ OutEnds \/ OutSkips \/ AudioComposes \/ AudioGivesUp
         \/ LoseController \/ Signal

Next == Out \/ Audio \/ Main \/ World

Spec == Init /\ [][Next]_vars

\* The threads run and the mutex is not withheld from one of them for ever.
\* What the host, the controller and the user do is left free.
Fairness ==
    /\ WF_vars(Out) /\ WF_vars(Audio) /\ WF_vars(Main)
    /\ \A s \in Translators : SF_vars(SeqRead(s))

FairSpec == Spec /\ Fairness
-----------------------------------------------------------------------------
(* Properties. *)

Where == {"notStarted", "idle", "top", "reading", "got", "bumping", "drawn",
          "cleared", "checked", "seeking", "probing", "exited"}

Reports == [src : Sources, n : Nat,
            seq : 0 .. SeqLimit - 1, draw : Nat]

\* The values the variables range over; a sequence number has its four bits.
TypeOK ==
    /\ seqCounter \in 0 .. SeqLimit - 1 /\ draws \in Nat
    /\ seqLock \in Translators \cup {Free}
    /\ pc \in [Sources -> Where]
    /\ rep \in [Sources -> Reports] /\ wire \in Seq(Reports)
    /\ fd \in [Sources -> {Fd, Closed}] /\ hidrawFd \in {Fd, Closed}
    /\ fdUse \in {"hidraw", "free", "udc", "alsa"}
    /\ bound \in BOOLEAN /\ running \in BOOLEAN
    /\ shuttingDown \in BOOLEAN /\ audioRunning \in BOOLEAN
    /\ mainPc \in {"servicing", "rumbleOn", "rumbleOff", "loop", "closing",
                   "pausing", "unbinding", "joining", "joiningAudio",
                   "exited"}
    /\ sent \in [Sources -> Nat] /\ failed \in [Sources -> Nat]
    /\ stray \in SUBSET (Sources \X {"udc", "alsa"}) /\ hurried \in BOOLEAN

\* A report that has its number.
Numbered(s) == s \in Translators /\ pc[s] \in {"drawn", "cleared", "checked"}

\* Whatever the two threads that draw numbers do to each other, the n-th
\* number drawn from reportSeqCounter is n mod 16: none is drawn twice and
\* none is left out.
NumberedInTurn ==
    /\ \A s \in Sources : Numbered(s) => rep[s].seq = rep[s].draw % SeqLimit
    /\ \A i \in DOMAIN wire : wire[i].seq = wire[i].draw % SeqLimit

\* What one source sends reaches the controller in the order in which the
\* host sent it, and only once.
SourceOrder ==
    \A i, j \in DOMAIN wire :
        i < j /\ wire[i].src = wire[j].src => wire[i].n < wire[j].n

\* Once the controller is lost its number is another file's.  A bt_write that
\* checked hidraw_fd too early may write to that of the sound card; the one
\* of the UDC gets no report, unless the pause was too short for a bt_write,
\* and no report from EP0 goes astray.
StrayConfined ==
    /\ \A s \in Sources : <<s, "udc">> \in stray => hurried
    /\ \A file \in {"udc", "alsa"} : <<"ep0", file>> \notin stray

\* When bt_deinit has closed the controller no thread is left inside
\* bt_write.
NobodyInsideAtExit ==
    mainPc = "exited" =>
        \A s \in Sources : pc[s] \notin {"cleared", "checked"}

\* The controller gets every report the host sent, unless its write fails,
\* the controller is gone or the daemon is shutting down.
ReportsArrive ==
    \A s \in Translators : \A n \in 1 .. MaxSent[s] :
        sent[s] >= n ~>
            \/ \E i \in DOMAIN wire : wire[i].src = s /\ wire[i].n = n
            \/ failed[s] >= n \/ hidrawFd = Closed \/ shuttingDown
=============================================================================
