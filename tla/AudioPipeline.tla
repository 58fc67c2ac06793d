---------------------------- MODULE AudioPipeline ----------------------------
(***************************************************************************)
(* The audio pipeline (src/src/audio.cpp).  The capture thread reads what  *)
(* the host plays, cuts it into blocks and puts them into audio_fifo; the  *)
(* encoder thread turns a block into an Opus packet and puts it into       *)
(* opus_fifo; the capture thread takes packets from there into the haptics *)
(* reports it hands to bt_write.  Both FIFOs have two places, and the      *)
(* oldest element makes room.                                              *)
(*                                                                         *)
(* A block and the packet made of it are the block's number; 0 is none.    *)
(* An Opus packet is looked at under opus_fifo_mutex, which is never held  *)
(* while something else is waited for; the steps under a mutex are taken   *)
(* apart where another thread could slip in if the mutex were missing.     *)
(***************************************************************************)
EXTENDS Integers, Sequences, Functions

CONSTANTS
    Depth,           \* 2, the places in each FIFO
    MaxRetries,      \* 30, how often alsa_open may fail
    MaxBlocks        \* bounds the blocks of one behaviour

ASSUME AudioAssumption ==
    /\ Depth \in Nat \ {0}
    /\ MaxRetries \in Nat /\ MaxBlocks \in Nat

VARIABLES
    capPc, encPc, mainPc,   \* where the three threads are
    bound,                  \* the gadget is bound, and has its sound card
    running,                \* audio_running
    retries,                \* of alsa_capture_entry
    audioFifo, audioLock,   \* audio_fifo and the owner of its mutex
    opusFifo, opusLock,     \* opus_fifo and the owner of its mutex
    item,                   \* audio_element of the encoder
    carry,                  \* opus_packet of the capture thread
    produced,               \* history: blocks put into audio_fifo
    refused,                \* history: blocks that could not be encoded
    heard                   \* history: the last packet handed to bt_write

hist  == <<produced, refused, heard>>
fifos == <<audioFifo, audioLock, opusFifo, opusLock>>
mains == <<mainPc, bound, running>>
vars  == <<capPc, encPc, mains, retries, fifos, item, carry, hist>>

Free == "free"

\* std::queue: the front goes.  A full FIFO loses it before the push.
Pop(q)  == SubSeq(q, 2, Len(q))
Full(q) == Len(q) >= Depth
-----------------------------------------------------------------------------
\* audio_init: both threads start.  The UDC may not have been bound.
Init ==
    /\ capPc = "starting" /\ encPc = "creating" /\ mainPc = "up"
    /\ bound \in BOOLEAN /\ running = TRUE /\ retries = 0
    /\ audioFifo = <<>> /\ audioLock = Free
    /\ opusFifo = <<>> /\ opusLock = Free
    /\ item = 0 /\ carry = 0
    /\ produced = 0 /\ refused = 0 /\ heard = 0
-----------------------------------------------------------------------------
(* The capture thread: alsa_capture_entry and process_pcm_data. *)

CapStays == UNCHANGED <<encPc, mains, fifos, item, carry, hist>>

\* Without a gadget on the bus there is nothing to capture.
CapStarts ==
    /\ capPc = "starting"
    /\ capPc' = IF bound THEN "opening" ELSE "exited"
    /\ CapStays /\ UNCHANGED retries

CapOpens ==
    /\ capPc = "opening" /\ running /\ bound
    /\ capPc' = "top"
    /\ CapStays /\ UNCHANGED retries

\* The card is not there yet, or refuses: again in a second, 30 times.
CapOpenFails ==
    /\ capPc = "opening" /\ running
    /\ retries' = retries + 1
    /\ capPc' = IF retries' > MaxRetries THEN "exited" ELSE "opening"
    /\ CapStays

CapOpenStops ==
    /\ capPc = "opening" /\ ~running
    /\ capPc' = "exited"
    /\ CapStays /\ UNCHANGED retries

\* Mutant: audio_running is not looked at.
CapTop_Blind ==
    /\ capPc = "top"
    /\ capPc' = IF bound THEN "reading" ELSE "top"
    /\ CapStays /\ UNCHANGED retries

CapTop ==
    /\ capPc = "top"
    /\ capPc' = IF running THEN "reading" ELSE "exited"
    /\ CapStays /\ UNCHANGED retries

\* A period of sound completes a block, or else a haptics report, or
\* neither; an overrun or a failure that snd_pcm_recover mends does neither.
CapReads ==
    /\ capPc = "reading" /\ bound
    /\ \/ produced < MaxBlocks /\ capPc' = "locking"
       \/ capPc' \in {"popping", "top"}
    /\ CapStays /\ UNCHANGED retries

\* Reading fails for good, as it does when the card is gone.
CapFails ==
    /\ capPc = "reading"
    /\ capPc' = "exited"
    /\ CapStays /\ UNCHANGED retries

\* A block is complete.  Under audio_fifo_mutex: is the FIFO full? ...
CapLocks ==
    /\ capPc = "locking" /\ audioLock = Free
    /\ audioLock' = "cap"
    /\ capPc' = IF Full(audioFifo) THEN "replacing" ELSE "pushing"
    /\ UNCHANGED <<encPc, mains, retries, audioFifo, opusFifo, opusLock,
                   item, carry, hist>>

\* ... then its oldest block goes, the new one is put in, the mutex free.
CapPushes ==
    /\ capPc \in {"replacing", "pushing"}
    /\ produced' = produced + 1
    /\ audioFifo' = Append(IF capPc = "replacing" THEN Pop(audioFifo)
                                                  ELSE audioFifo, produced')
    /\ audioLock' = Free
    /\ capPc' = "notifying"
    /\ UNCHANGED <<encPc, mains, retries, opusFifo, opusLock, item, carry,
                   refused, heard>>

\* Mutant: nobody is notified.
CapNotifies_Not ==
    /\ capPc = "notifying"
    /\ capPc' \in {"popping", "top"}
    /\ CapStays /\ UNCHANGED retries

\* notify_one reaches the encoder if it sleeps by now.  The same period may
\* complete a haptics report too.
CapNotifies ==
    /\ capPc = "notifying"
    /\ encPc' = IF encPc = "asleep" THEN "woken" ELSE encPc
    /\ capPc' \in {"popping", "top"}
    /\ UNCHANGED <<mains, retries, fifos, item, carry, hist>>

\* A haptics report is due: it takes a packet along if there is one ...
CapPops ==
    /\ capPc = "popping" /\ opusLock = Free
    /\ opusFifo' = Pop(opusFifo)
    /\ carry' = IF opusFifo = <<>> THEN 0 ELSE Head(opusFifo)
    /\ capPc' = "sending"
    /\ UNCHANGED <<encPc, mains, retries, audioFifo, audioLock, opusLock,
                   item, hist>>

\* ... and goes to bt_write.
CapSends ==
    /\ capPc = "sending"
    /\ heard' = IF carry = 0 THEN heard ELSE carry
    /\ carry' = 0
    /\ capPc' = "top"
    /\ UNCHANGED <<encPc, mains, retries, fifos, item, produced,
                   refused>>
-----------------------------------------------------------------------------
(* The encoder thread: core1_entry. *)

EncStays == UNCHANGED <<capPc, mains, retries, carry, hist>>

\* opus_encoder_create may fail.
EncStarts ==
    /\ encPc = "creating"
    /\ encPc' \in {"top", "exited"}
    /\ EncStays /\ UNCHANGED <<fifos, item>>

EncTop ==
    /\ encPc = "top"
    /\ encPc' = IF running THEN "locking" ELSE "exited"
    /\ EncStays /\ UNCHANGED <<fifos, item>>

\* With audio_fifo_mutex, the predicate of audio_fifo_cv.wait: sleep, leave,
\* or take the front.
EncLocks ==
    /\ encPc \in {"locking", "woken"} /\ audioLock = Free
    /\ IF audioFifo = <<>> /\ ~running
       THEN encPc' = "exited" /\ UNCHANGED audioLock
       ELSE /\ encPc' = IF audioFifo = <<>> THEN "toSleep" ELSE "taking"
            /\ audioLock' = "enc"
    /\ EncStays /\ UNCHANGED <<audioFifo, opusFifo, opusLock, item>>

\* wait() lets the mutex go and sleeps, in one step.
EncSleeps ==
    /\ encPc = "toSleep"
    /\ encPc' = "asleep"
    /\ audioLock' = Free
    /\ EncStays /\ UNCHANGED <<audioFifo, opusFifo, opusLock, item>>

\* A condition variable may wake its waiter for no reason.
EncWakes ==
    /\ encPc = "asleep"
    /\ encPc' = "woken"
    /\ EncStays /\ UNCHANGED <<fifos, item>>

EncTakes ==
    /\ encPc = "taking"
    /\ item' = Head(audioFifo)
    /\ audioFifo' = Pop(audioFifo)
    /\ audioLock' = Free
    /\ encPc' = "encoding"
    /\ EncStays /\ UNCHANGED <<opusFifo, opusLock>>

\* The block cannot be encoded and is lost.
EncodeFails ==
    /\ encPc = "encoding"
    /\ refused' = refused + 1
    /\ encPc' = "top"
    /\ UNCHANGED <<capPc, mains, retries, fifos, item, carry, produced, heard>>

\* Mutant: whether opus_fifo is full is found out without its mutex.
EncLocksOpus_Not ==
    /\ encPc = "encoding"
    /\ encPc' = IF Full(opusFifo) THEN "replacing" ELSE "storing"
    /\ EncStays /\ UNCHANGED <<fifos, item>>

\* It is encoded.  Under opus_fifo_mutex: is the FIFO full? ...
EncLocksOpus ==
    /\ encPc = "encoding" /\ opusLock = Free
    /\ opusLock' = "enc"
    /\ encPc' = IF Full(opusFifo) THEN "replacing" ELSE "storing"
    /\ EncStays /\ UNCHANGED <<audioFifo, audioLock, opusFifo, item>>

\* ... then its oldest packet goes, the new one is put in.
EncStores ==
    /\ encPc \in {"replacing", "storing"}
    /\ opusFifo' = Append(IF encPc = "replacing" THEN Pop(opusFifo)
                                                 ELSE opusFifo, item)
    /\ opusLock' = Free
    /\ encPc' = "top"
    /\ EncStays /\ UNCHANGED <<audioFifo, audioLock, item>>
-----------------------------------------------------------------------------
(* The main thread: usb_unbind_udc, then audio_deinit. *)

MainStays == UNCHANGED <<capPc, retries, fifos, item, carry, hist>>

UnbindUdc ==
    /\ mainPc = "up"
    /\ bound' = FALSE
    /\ mainPc' = "unbound"
    /\ MainStays /\ UNCHANGED <<encPc, running>>

\* Neither this nor the notification is under audio_fifo_mutex.
StopRunning ==
    /\ mainPc = "unbound"
    /\ running' = FALSE
    /\ mainPc' = "notifying"
    /\ MainStays /\ UNCHANGED <<encPc, bound>>

NotifyAll ==
    /\ mainPc = "notifying"
    /\ encPc' = IF encPc = "asleep" THEN "woken" ELSE encPc
    /\ mainPc' = "joiningCapture"
    /\ MainStays /\ UNCHANGED <<bound, running>>

JoinCapture ==
    /\ mainPc = "joiningCapture" /\ capPc = "exited"
    /\ mainPc' = "joiningEncoder"
    /\ MainStays /\ UNCHANGED <<encPc, bound, running>>

\* The PCM is closed and the encoder destroyed.
JoinEncoder ==
    /\ mainPc = "joiningEncoder" /\ encPc = "exited"
    /\ mainPc' = "exited"
    /\ MainStays /\ UNCHANGED <<encPc, bound, running>>
-----------------------------------------------------------------------------
Capture == \/ CapStarts \/ CapOpenFails \/ CapOpenStops \/ CapTop \/ CapLocks
           \/ CapPushes \/ CapNotifies \/ CapPops \/ CapSends
           \/ (~bound /\ CapFails)
Encoder == \/ EncStarts \/ EncTop \/ EncLocks \/ EncSleeps \/ EncTakes
           \/ EncLocksOpus \/ EncStores
Main    == UnbindUdc \/ StopRunning \/ NotifyAll \/ JoinCapture \/ JoinEncoder
World   == CapOpens \/ CapReads \/ CapFails \/ EncWakes \/ EncodeFails

Next == Capture \/ Encoder \/ Main \/ World

Spec == Init /\ [][Next]_vars

\* The threads run, and neither is kept out of a mutex for ever.  When the
\* daemon is told to end, when the host plays and whether the encoder is
\* woken for no reason is left free.
Fairness ==
    /\ WF_vars(Capture) /\ WF_vars(Encoder)
    /\ WF_vars(StopRunning \/ NotifyAll \/ JoinCapture \/ JoinEncoder)
    /\ SF_vars(CapLocks) /\ SF_vars(EncLocks)
    /\ SF_vars(CapPops) /\ SF_vars(EncLocksOpus)

FairSpec == Spec /\ Fairness
-----------------------------------------------------------------------------
(* Properties. *)

\* The values the variables range over; neither FIFO outgrows its places.
TypeOK ==
    /\ capPc \in {"starting", "opening", "top", "reading", "locking",
                  "replacing", "pushing", "notifying", "popping", "sending",
                  "exited"}
    /\ encPc \in {"creating", "top", "locking", "toSleep", "asleep", "woken",
                  "taking", "encoding", "replacing", "storing", "exited"}
    /\ mainPc \in {"up", "unbound", "notifying", "joiningCapture",
                   "joiningEncoder", "exited"}
    /\ bound \in BOOLEAN /\ running \in BOOLEAN /\ retries \in Nat
    /\ audioFifo \in Seq(Nat \ {0}) /\ Len(audioFifo) <= Depth
    /\ opusFifo \in Seq(Nat \ {0}) /\ Len(opusFifo) <= Depth
    /\ audioLock \in {Free, "cap", "enc"} /\ opusLock \in {Free, "enc"}
    /\ item \in Nat /\ carry \in Nat
    /\ produced \in Nat /\ refused \in Nat /\ heard \in Nat

\* The encoder does not sleep while a block waits, unless the notification is
\* still to come: notify_one is called after the mutex is released and must
\* not fall between the predicate and the sleep.
NoSleepOverWork ==
    encPc \in {"toSleep", "asleep"} /\ audioFifo # <<>> =>
        capPc = "notifying"

\* What is on its way from the capture to bt_write.
Encoding == encPc \in {"encoding", "replacing", "storing"}
OnTheWay == Range(audioFifo) \cup Range(opusFifo)
            \cup (IF Encoding THEN {item} ELSE {})
            \cup (IF carry = 0 THEN {} ELSE {carry})

Abstract == INSTANCE LossyFifo WITH
    Keep <- Depth, pushed <- produced, waiting <- OnTheWay, last <- heard,
    refusals <- refused

\* Two FIFOs filled and drained by different threads are one FIFO: the
\* controller plays blocks in order, none twice, and of the newest two none
\* is left out but one that could not be encoded.
ImplementsLossyFifo == Abstract!Spec

\* A block does not lie in audio_fifo for ever: the encoder takes it or a
\* newer one replaces it, as long as there is an encoder.
BlocksAreTaken ==
    \A n \in 1 .. MaxBlocks :
        produced >= n ~> n \notin Range(audioFifo) \/ encPc = "exited"

\* Where the join of audio_deinit can hang.
AsleepForever == mainPc = "joiningEncoder" /\ encPc = "asleep"

\* Whatever the threads are at, audio_deinit ends, or else the encoder is
\* asleep: no other wait is left, in the mutexes, in snd_pcm_readi or in the
\* retries.
EndsUnlessAsleep ==
    mainPc = "unbound" ~> (mainPc = "exited" \/ []AsleepForever)
=============================================================================
