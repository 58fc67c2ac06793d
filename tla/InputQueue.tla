----------------------------- MODULE InputQueue -----------------------------
(***************************************************************************)
(* The controller-to-host input path of src/src/usb.cpp: the ring buffer   *)
(* that the main thread fills (usb_enqueue_input_report) and the HID IN    *)
(* writer thread that drains it (hid_in_thread_func), the mutex that       *)
(* guards it, and the kernel's HID IN endpoint as the writer sees it.      *)
(*                                                                         *)
(* A report is represented by its number: the n-th report enqueued is n.   *)
(* Copying a report into or out of a slot is not atomic: while the main    *)
(* thread copies, the slot holds Torn.                                     *)
(***************************************************************************)
EXTENDS Integers

CONSTANTS
    QueueSize,   \* INPUT_QUEUE_SIZE
    IntMax,      \* INT_MAX, the largest value of the C int counters
    MaxReports   \* bound: reports the controller sends in one behaviour

ASSUME QueueAssumption ==
    /\ QueueSize \in Nat /\ QueueSize >= 2
    /\ IntMax \in Nat \ {0}
    /\ MaxReports \in Nat

VARIABLES
    head, tail,   \* input_queue_head, input_queue_tail (C int)
    slots,        \* input_queue, the number of the report in each slot
    lock,         \* owner of input_queue_mtx
    mainPc,       \* where the main thread is
    writerPc,     \* where the writer thread is
    pick,         \* the writer's local `latest`
    report,       \* the writer's local `report`
    shuttingDown, \* usb_shutting_down
    bound,        \* the UDC is bound to the gadget (kernel)
    enabled,      \* the host has the HID IN endpoint enabled (kernel)
    enqueued,     \* history: how many reports were enqueued
    received,     \* history: the last report the host received
    lost          \* history: the last report lost by a failed write

ring    == <<head, tail, slots>>
kernel  == <<bound, enabled>>
history == <<enqueued, received, lost>>
vars    == <<ring, lock, mainPc, writerPc, pick, report, shuttingDown,
             kernel, history>>

Free == "free"
Torn == -1
SlotIndexes == 0 .. QueueSize - 1
-----------------------------------------------------------------------------
(* C arithmetic. *)

IntMin == -IntMax - 1

\* The outcome of ++ on an int on the two's-complement machines this is
\* built for; past INT_MAX the language leaves it undefined.
IncInt(n) == IF n = IntMax THEN IntMin ELSE n + 1

\* The remainder of the C operator %, which takes the sign of the dividend.
CRem(a, b) == IF a >= 0 THEN a % b ELSE -((-a) % b)

\* The slot the next report goes to: input_queue_head % INPUT_QUEUE_SIZE.
EnqueueSlot == CRem(head, QueueSize)

\* The slot of the newest report, made non-negative as the code makes it.
LatestSlot ==
    LET latest == CRem(head - 1, QueueSize)
    IN  IF latest < 0 THEN latest + QueueSize ELSE latest
-----------------------------------------------------------------------------
Init ==
    /\ head = 0 /\ tail = 0 /\ slots = [i \in SlotIndexes |-> 0]
    /\ lock = Free
    /\ mainPc = "idle" /\ writerPc = "top"
    /\ pick = 0 /\ report = 0
    /\ shuttingDown = FALSE
    /\ bound = TRUE /\ enabled = TRUE
    /\ enqueued = 0 /\ received = 0 /\ lost = 0
-----------------------------------------------------------------------------
(* The main thread. *)

\* Mutant: the mutex is not taken.
EnqueueBegin_Unlocked ==
    /\ mainPc = "idle" /\ ~shuttingDown
    /\ enqueued < MaxReports
    /\ mainPc' = "copying"
    /\ slots' = [slots EXCEPT ![EnqueueSlot] = Torn]
    /\ UNCHANGED <<head, tail, lock, writerPc, pick, report, shuttingDown,
                   kernel, history>>

\* A controller report arrives (on_bt_data has checked usb_shutting_down):
\* take the mutex and start to copy the report into its slot.
EnqueueBegin ==
    /\ mainPc = "idle" /\ ~shuttingDown
    /\ enqueued < MaxReports
    /\ lock = Free
    /\ lock' = "main"
    /\ mainPc' = "copying"
    /\ slots' = [slots EXCEPT ![EnqueueSlot] = Torn]
    /\ UNCHANGED <<head, tail, writerPc, pick, report, shuttingDown, kernel,
                   history>>

\* Mutants: a full queue is left to overflow, or is emptied altogether.
DropOldest_Never(h, t) == t
DropOldest_All(h, t) == IF h - t > QueueSize THEN h ELSE t

\* The oldest report goes when the queue holds more than it has slots.
DropOldest(h, t) == IF h - t > QueueSize THEN h - QueueSize ELSE t

\* The copy ends, the report is published, the mutex is released.  The
\* notify_one() that follows only shortens the writer's timed wait.
EnqueueEnd ==
    /\ mainPc = "copying"
    /\ enqueued' = enqueued + 1
    /\ slots' = [slots EXCEPT ![EnqueueSlot] = enqueued']
    /\ head' = IncInt(head)
    /\ tail' = DropOldest(head', tail)
    /\ lock' = Free
    /\ mainPc' = "idle"
    /\ UNCHANGED <<writerPc, pick, report, shuttingDown, kernel, received,
                   lost>>

\* The main loop ended: usb_shutting_down is set.
BeginShutdown ==
    /\ mainPc = "idle" /\ ~shuttingDown
    /\ shuttingDown' = TRUE
    /\ UNCHANGED <<ring, lock, mainPc, writerPc, pick, report, kernel,
                   history>>

\* A disabled endpoint cancels the transfer it has, for good: even if it is
\* enabled again before the thread runs, write() will return ESHUTDOWN.
Cut(pc) == IF pc = "inflight" THEN "cancelled" ELSE pc

\* usb_unbind_udc: the gadget leaves the bus and its endpoints go with it.
UnbindUdc ==
    /\ mainPc = "idle" /\ shuttingDown /\ bound
    /\ bound' = FALSE
    /\ enabled' = FALSE
    /\ writerPc' = Cut(writerPc)
    /\ UNCHANGED <<ring, lock, mainPc, pick, report, shuttingDown, history>>
-----------------------------------------------------------------------------
(* The writer thread. *)

\* The loop condition.
WriterTop ==
    /\ writerPc = "top"
    /\ writerPc' = IF shuttingDown THEN "exited" ELSE "waiting"
    /\ UNCHANGED <<ring, lock, mainPc, pick, report, shuttingDown, kernel,
                   history>>

\* wait_for returns, with the mutex: notified, or its 10 ms have passed.
WriterWake ==
    /\ writerPc = "waiting"
    /\ lock = Free
    /\ lock' = "writer"
    /\ writerPc' = "woken"
    /\ UNCHANGED <<ring, mainPc, pick, report, shuttingDown, kernel, history>>

\* It may be time to leave ...
WriterLeave ==
    /\ writerPc = "woken" /\ shuttingDown
    /\ lock' = Free
    /\ writerPc' = "exited"
    /\ UNCHANGED <<ring, mainPc, pick, report, shuttingDown, kernel, history>>

\* ... or nothing was queued when the wait timed out ...
WriterTimeout ==
    /\ writerPc = "woken" /\ ~shuttingDown
    /\ head = tail
    /\ lock' = Free
    /\ writerPc' = "top"
    /\ UNCHANGED <<ring, mainPc, pick, report, shuttingDown, kernel, history>>

\* ... or there are reports: skip to the newest one.
WriterSelect ==
    /\ writerPc = "woken" /\ ~shuttingDown
    /\ head # tail
    /\ pick' = LatestSlot
    /\ writerPc' = "copying"
    /\ UNCHANGED <<ring, lock, mainPc, report, shuttingDown, kernel, history>>

\* Mutant: the queue is not drained, only the newest report leaves it.
WriterTake_NoDrain ==
    /\ writerPc = "copying"
    /\ report' = slots[pick]
    /\ lock' = Free
    /\ writerPc' = "pacing"
    /\ UNCHANGED <<ring, mainPc, pick, shuttingDown, kernel, history>>

\* Copy it out, drain the queue and release the mutex.
WriterTake ==
    /\ writerPc = "copying"
    /\ report' = slots[pick]
    /\ tail' = head
    /\ lock' = Free
    /\ writerPc' = "pacing"
    /\ UNCHANGED <<head, slots, mainPc, pick, shuttingDown, kernel, history>>

\* After the rate-limiting sleep usb_shutting_down is looked at again.
WriterPaced ==
    /\ writerPc = "pacing"
    /\ writerPc' = IF shuttingDown THEN "exited" ELSE "writing"
    /\ UNCHANGED <<ring, lock, mainPc, pick, report, shuttingDown, kernel,
                   history>>

\* write() enters the kernel, which queues the transfer; FunctionFS holds
\* the caller back for as long as the endpoint is not enabled.
WriterSubmit ==
    /\ writerPc = "writing"
    /\ enabled
    /\ writerPc' = "inflight"
    /\ UNCHANGED <<ring, lock, mainPc, pick, report, shuttingDown, kernel,
                   history>>

\* The host polls the endpoint: the blocking write() returns 64.
HostReceives ==
    /\ writerPc = "inflight"
    /\ received' = report
    /\ writerPc' = "top"
    /\ UNCHANGED <<ring, lock, mainPc, pick, report, shuttingDown, kernel,
                   enqueued, lost>>

\* write() fails with some other error: the report is counted and dropped.
WriteFails ==
    /\ writerPc = "inflight"
    /\ lost' = report
    /\ writerPc' = "top"
    /\ UNCHANGED <<ring, lock, mainPc, pick, report, shuttingDown, kernel,
                   enqueued, received>>

\* write() fails with ESHUTDOWN or ENODEV: the thread ends for good.
WriteShutDown ==
    /\ writerPc = "cancelled"
    /\ writerPc' = "exited"
    /\ UNCHANGED <<ring, lock, mainPc, pick, report, shuttingDown, kernel,
                   history>>

\* A signal that reaches this thread ends write() (EINTR), whether that waits
\* for the endpoint or for the host: the report is dropped, too.
WriteInterrupted ==
    /\ writerPc \in {"writing", "inflight"}
    /\ lost' = report
    /\ writerPc' = "top"
    /\ UNCHANGED <<ring, lock, mainPc, pick, report, shuttingDown, kernel,
                   enqueued, received>>
-----------------------------------------------------------------------------
(* The host configures and deconfigures the gadget as it likes. *)

HostDisables ==
    /\ bound /\ enabled
    /\ enabled' = FALSE
    /\ writerPc' = Cut(writerPc)
    /\ UNCHANGED <<ring, lock, mainPc, pick, report, shuttingDown, bound,
                   history>>

HostEnables ==
    /\ bound /\ ~enabled
    /\ enabled' = TRUE
    /\ UNCHANGED <<ring, lock, mainPc, writerPc, pick, report, shuttingDown,
                   bound, history>>
-----------------------------------------------------------------------------
Main   == EnqueueBegin \/ EnqueueEnd \/ BeginShutdown \/ UnbindUdc
Writer == \/ WriterTop \/ WriterWake \/ WriterLeave \/ WriterTimeout
          \/ WriterSelect \/ WriterTake \/ WriterPaced \/ WriterSubmit
Write  == HostReceives \/ WriteFails \/ WriteShutDown
World  == HostDisables \/ HostEnables \/ WriteInterrupted

Next == Main \/ Writer \/ Write \/ World

Spec == Init /\ [][Next]_vars

\* The threads run; the mutex is not withheld for ever from the writer; the
\* wait ends after 10 ms; a transfer that was queued completes while the
\* host polls.  The controller, the host's configuration and signals are left free.
Fairness ==
    /\ WF_vars(EnqueueEnd)
    /\ WF_vars(Writer) /\ SF_vars(WriterWake)
    /\ WF_vars(Write)

FairSpec == Spec /\ Fairness
-----------------------------------------------------------------------------
(* Properties. *)

\* The writer has a report in its local buffer.
Carrying == writerPc \in {"pacing", "writing", "inflight", "cancelled"}

\* The values the variables range over.  A slot may hold half a report, what
\* the writer carries, delivers or loses (hid_in_thread_func) never does.
TypeOK ==
    /\ head \in Int /\ tail \in Int
    /\ slots \in [SlotIndexes -> {Torn} \cup Nat]
    /\ lock \in {Free, "main", "writer"}
    /\ mainPc \in {"idle", "copying"}
    /\ writerPc \in {"top", "waiting", "woken", "copying", "pacing",
                     "writing", "inflight", "cancelled", "exited"}
    /\ pick \in SlotIndexes
    /\ report \in Nat
    /\ shuttingDown \in BOOLEAN /\ bound \in BOOLEAN /\ enabled \in BOOLEAN
    /\ enqueued \in Nat /\ received \in Nat /\ lost \in Nat

\* Whenever nobody is inside usb_enqueue_input_report, the queue holds at
\* most QueueSize reports and they are the newest ones, each in its slot:
\* a full queue lost its oldest report and no other.
RingHoldsNewest ==
    mainPc = "idle" =>
        /\ head - tail \in 0 .. QueueSize
        /\ \A i \in tail .. head - 1 :
              slots[CRem(i, QueueSize)] = enqueued - (head - 1 - i)

\* A report goes to one of the slots of the queue ("Ring buffer: 4 slots",
\* src/src/usb.cpp:45), as long as the counter does not overflow.
EnqueueInBounds == mainPc = "copying" => EnqueueSlot \in SlotIndexes

\* No report is forgotten: when the queue looks empty to a writer that waits
\* for one, the newest report was received, or a failed write() took it.
NothingForgotten ==
    head = tail /\ writerPc \in {"top", "waiting", "woken"}
        => enqueued \in {received, lost}

\* The queue, the writer and the endpoint together are a conflating mailbox:
\* the host sees newer and newer reports, whole, none of them twice, and
\* each one was the newest when the writer took it.
LatestReport == INSTANCE Mailbox WITH
    posted   <- enqueued,
    waiting  <- IF head = tail THEN 0 ELSE slots[LatestSlot],
    taken    <- IF Carrying THEN report ELSE 0,
    received <- received

ImplementsMailbox == LatestReport!Spec

\* From some time on the gadget stays configured and is not shut down.
StaysConfigured == <>[](enabled /\ ~shuttingDown)

\* Then the controller's state reaches the host: every report is delivered
\* or overtaken by a newer one that is, unless a failed write took it or
\* the writer thread is gone.  No report waits in the queue for ever.
EventuallyDelivered ==
    StaysConfigured =>
        \A n \in 1 .. MaxReports :
            enqueued >= n ~>
                received >= n \/ lost >= n \/ writerPc = "exited"
=============================================================================
