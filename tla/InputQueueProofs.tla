-------------------------- MODULE InputQueueProofs --------------------------
(***************************************************************************)
(* Theorems about InputQueue for every size of the queue and any number of *)
(* reports that the C counters can count (NoOverflow): past INT_MAX the    *)
(* slot index turns negative.                                              *)
(***************************************************************************)
EXTENDS InputQueue, TLAPS

\* usb_enqueue_input_report does not increment input_queue_head past INT_MAX.
NoOverflow == MaxReports <= IntMax
-----------------------------------------------------------------------------
(* The inductive invariant. *)

\* The counters count reports and the queue is never more than full.
CountersInv ==
    /\ head = enqueued /\ enqueued \in 0 .. MaxReports
    /\ mainPc = "copying" => enqueued < MaxReports
    /\ tail \in 0 .. head
    /\ head - tail <= QueueSize

\* Who owns input_queue_mtx is where the owner's program counter says it.
LockInv ==
    /\ lock = "main" <=> mainPc = "copying"
    /\ lock = "writer" <=> writerPc \in {"woken", "copying"}

\* The reports in the queue are in their slots.  While the main thread
\* overwrites the slot of the next report, the one a full queue holds there
\* is as good as dropped.
SlotsInv ==
    \A i \in tail .. head - 1 :
        mainPc = "idle" \/ i > head - QueueSize
            => slots[i % QueueSize] = i + 1

\* The writer, with the mutex, has picked the newest report.
PickInv ==
    writerPc = "copying" => head # tail /\ pick = (head - 1) % QueueSize

\* What the writer carries has left the queue and is news to the host.
CarryInv ==
    /\ received <= tail
    /\ Carrying => report \in 1 .. tail /\ report > received

\* When the queue is empty, the newest report is what the writer carries or
\* carried last.
NewestInv ==
    head = tail =>
        \/ writerPc = "exited"
        \/ Carrying /\ report = enqueued
        \/ ~Carrying /\ enqueued \in {received, lost}

IInv ==
    /\ TypeOK /\ CountersInv /\ LockInv /\ SlotsInv /\ PickInv /\ CarryInv
    /\ NewestInv
-----------------------------------------------------------------------------
(* The slots of the queue. *)

\* A remainder is an index of an array of q elements.
LEMMA RemRange ==
    ASSUME NEW q \in Nat \ {0}, NEW n \in Nat
    PROVE  n % q \in 0 .. q - 1
  OBVIOUS

\* Quotient and remainder add up.
LEMMA DivRem ==
    ASSUME NEW q \in Nat \ {0}, NEW n \in Nat
    PROVE  n \div q \in Int /\ n = q * (n \div q) + (n % q)
  OBVIOUS

\* Fewer than q apart, two positions of the queue never share a slot.
LEMMA RemDistinct ==
    ASSUME NEW q \in Nat \ {0}, NEW a \in Nat, NEW b \in Nat,
           a < b, b - a < q
    PROVE  a % q # b % q
<1> SUFFICES ASSUME a % q = b % q
             PROVE  FALSE
  OBVIOUS
<1> DEFINE k == (b \div q) - (a \div q)
<1>1. k \in Int /\ b - a = q * k
  <2>1. q * ((b \div q) - (a \div q)) = q * (b \div q) - q * (a \div q)
    BY DivRem
  <2> QED
    BY <2>1, DivRem
<1> HIDE DEF k
<1>2. CASE k >= 1
  <2>1. q * k >= q
    BY <1>1, <1>2
  <2> QED
    BY <2>1, <1>1
<1>3. CASE k <= 0
  <2>1. q * k <= 0
    BY <1>1, <1>3
  <2> QED
    BY <2>1, <1>1
<1> QED
  BY <1>1, <1>2, <1>3

\* In C arithmetic too, the remainder of a number that is not negative is
\* the mathematical one.
LEMMA CRemIsRem ==
    ASSUME NEW q \in Nat \ {0}, NEW n \in Nat
    PROVE  CRem(n, q) = n % q
  BY DEF CRem

\* usb.cpp:459 and usb.cpp:412-413: where the code writes the next report
\* and where it looks for the newest.
LEMMA Slots ==
    ASSUME CountersInv
    PROVE  /\ EnqueueSlot = head % QueueSize
           /\ EnqueueSlot \in SlotIndexes
           /\ head # tail => /\ LatestSlot = (head - 1) % QueueSize
                            /\ LatestSlot \in SlotIndexes
                            /\ LatestSlot # EnqueueSlot
<1> head \in Nat /\ tail \in 0 .. head
  BY QueueAssumption DEF CountersInv
<1> QueueSize \in Nat \ {0} /\ QueueSize >= 2
  BY QueueAssumption
<1>1. EnqueueSlot = head % QueueSize
  BY CRemIsRem DEF EnqueueSlot
<1>2. head % QueueSize \in SlotIndexes
  BY RemRange DEF SlotIndexes
<1>3. ASSUME head # tail
      PROVE  /\ LatestSlot = (head - 1) % QueueSize
             /\ LatestSlot \in SlotIndexes
             /\ LatestSlot # EnqueueSlot
  <2>1. head - 1 \in Nat
    BY <1>3
  <2>2. (head - 1) % QueueSize \in SlotIndexes
    BY <2>1, RemRange DEF SlotIndexes
  <2>3. CRem(head - 1, QueueSize) = (head - 1) % QueueSize
    BY <2>1, CRemIsRem
  <2>4. LatestSlot = (head - 1) % QueueSize
    BY <2>2, <2>3 DEF LatestSlot, SlotIndexes
  <2>5. (head - 1) % QueueSize # head % QueueSize
    <3>1. head - 1 < head /\ head - (head - 1) < QueueSize
      OBVIOUS
    <3> QED
      BY <2>1, <3>1, RemDistinct, Zenon
  <2> QED
    BY <1>1, <2>2, <2>4, <2>5
<1> QED
  BY <1>1, <1>2, <1>3
-----------------------------------------------------------------------------
(* The invariant is inductive. *)

\* It holds before the first report.
LEMMA InitIInv == Init => IInv
<1> SUFFICES ASSUME Init PROVE IInv
  OBVIOUS
<1> USE QueueAssumption DEF Init
<1>1. TypeOK
  <2>1. 0 \in SlotIndexes
    BY DEF SlotIndexes
  <2>2. slots \in [SlotIndexes -> {Torn} \cup Nat]
    OBVIOUS
  <2>3. head \in Int /\ tail \in Int /\ report \in Nat /\ enqueued \in Nat
        /\ received \in Nat /\ lost \in Nat
    OBVIOUS
  <2> QED
    BY <2>1, <2>2, <2>3 DEF TypeOK, Free
<1>2. CountersInv /\ LockInv /\ PickInv /\ CarryInv /\ NewestInv
  BY DEF CountersInv, LockInv, PickInv, CarryInv, NewestInv, Carrying, Free
<1>3. SlotsInv
  BY DEF SlotsInv
<1> QED
  BY <1>1, <1>2, <1>3 DEF IInv

\* The main thread takes the mutex and starts to overwrite a slot.
LEMMA EnqueueBeginInv == IInv /\ EnqueueBegin => IInv'
<1> SUFFICES ASSUME IInv, EnqueueBegin PROVE IInv'
  OBVIOUS
<1> USE DEF IInv
<1>0. EnqueueSlot = head % QueueSize /\ EnqueueSlot \in SlotIndexes
  BY Slots
<1>1. TypeOK'
  BY <1>0 DEF TypeOK, EnqueueBegin, kernel, history, ring, Torn, Free
<1>2. CountersInv'
  BY DEF CountersInv, EnqueueBegin, history
<1>3. LockInv'
  BY DEF LockInv, EnqueueBegin, Free
<1>4. SlotsInv'
  <2> SUFFICES ASSUME NEW i \in tail .. head - 1, i > head - QueueSize
               PROVE  slots'[i % QueueSize] = i + 1
    BY DEF SlotsInv, EnqueueBegin
  <2>1. i \in Nat /\ head \in Nat /\ QueueSize \in Nat \ {0}
    BY QueueAssumption DEF CountersInv
  <2>2. i % QueueSize # EnqueueSlot
    <3>1. i < head /\ head - i < QueueSize
      BY <2>1
    <3> QED
      BY <1>0, <2>1, <3>1, RemDistinct, Zenon
  <2>3. i % QueueSize \in SlotIndexes
    BY <2>1, RemRange DEF SlotIndexes
  <2>4. slots[i % QueueSize] = i + 1
    BY DEF SlotsInv, EnqueueBegin
  <2> QED
    BY <2>2, <2>3, <2>4 DEF EnqueueBegin, TypeOK
<1>5. PickInv' /\ CarryInv' /\ NewestInv'
  BY DEF PickInv, CarryInv, NewestInv, Carrying, EnqueueBegin, kernel, history
<1> QED
  BY <1>1, <1>2, <1>3, <1>4, <1>5

\* The main thread publishes a report, dropping the oldest of a full queue.
LEMMA EnqueueEndInv ==
    ASSUME NoOverflow
    PROVE  IInv /\ EnqueueEnd => IInv' /\ head' = head + 1
<1> SUFFICES ASSUME IInv, EnqueueEnd PROVE IInv' /\ head' = head + 1
  OBVIOUS
<1> USE DEF IInv
<1>0. EnqueueSlot = head % QueueSize /\ EnqueueSlot \in SlotIndexes
  BY Slots
<1>1. /\ head \in Nat /\ tail \in 0 .. head /\ head - tail <= QueueSize
      /\ QueueSize \in Nat \ {0}
  BY QueueAssumption DEF CountersInv
<1>2. head' = head + 1 /\ enqueued' = head'
  BY QueueAssumption
     DEF NoOverflow, CountersInv, EnqueueEnd, IncInt
<1>3. /\ tail' \in tail .. head'
      /\ head' - tail' <= QueueSize /\ tail' > head - QueueSize
  BY <1>1, <1>2 DEF EnqueueEnd, DropOldest
<1>4. slots' = [slots EXCEPT ![EnqueueSlot] = head']
  BY <1>2 DEF EnqueueEnd
<1>5. TypeOK'
  <2>1. slots \in [SlotIndexes -> {Torn} \cup Nat] /\ head' \in Nat
    BY <1>1, <1>2 DEF TypeOK
  <2>2. slots' \in [SlotIndexes -> {Torn} \cup Nat]
    BY <1>4, <2>1
  <2> QED
    BY <1>1, <1>2, <1>3, <2>2 DEF TypeOK, EnqueueEnd, kernel, Free
<1>6. CountersInv'
  BY <1>1, <1>2, <1>3, QueueAssumption DEF CountersInv, EnqueueEnd
<1>7. LockInv'
  BY DEF LockInv, EnqueueEnd, Free
<1>8. SlotsInv'
  <2> SUFFICES ASSUME NEW i \in tail' .. head' - 1
               PROVE  slots'[i % QueueSize] = i + 1
    BY DEF SlotsInv
  <2>1. i \in tail .. head /\ i \in Nat
    BY <1>1, <1>2, <1>3
  <2>2. CASE i = head
    BY <1>0, <1>2, <1>4, <2>2 DEF TypeOK
  <2>3. CASE i # head
    <3>1. i \in tail .. head - 1 /\ i > head - QueueSize
      <4>1. tail' \in Nat /\ i >= tail' /\ i <= head
        BY <1>1, <1>2, <1>3
      <4>2. tail' > head - QueueSize
        BY <1>3
      <4> QED
        BY <1>1, <2>1, <2>3, <4>1, <4>2
    <3>2. i < head /\ head - i < QueueSize
      BY <1>1, <3>1
    <3>3. i % QueueSize # EnqueueSlot
      BY <1>0, <1>1, <2>1, <3>2, RemDistinct, Zenon
    <3>4. i % QueueSize \in SlotIndexes
      BY <1>1, <2>1, RemRange DEF SlotIndexes
    <3>5. slots[i % QueueSize] = i + 1
      BY <3>1 DEF SlotsInv
    <3> QED
      BY <1>4, <3>3, <3>4, <3>5 DEF TypeOK
  <2> QED
    BY <2>2, <2>3
<1>9. PickInv' /\ CarryInv'
  BY <1>1, <1>3 DEF PickInv, CarryInv, Carrying, EnqueueEnd, LockInv,
                    kernel, TypeOK
<1>10. NewestInv'
  <2>1. head' # tail'
    BY <1>1, <1>2, QueueAssumption DEF EnqueueEnd, DropOldest
  <2> QED
    BY <2>1 DEF NewestInv
<1> QED
  BY <1>2, <1>5, <1>6, <1>7, <1>8, <1>9, <1>10

\* The writer takes the newest report and drains the queue.
LEMMA WriterTakeInv == IInv /\ WriterTake => IInv' /\ report' = head
<1> SUFFICES ASSUME IInv, WriterTake PROVE IInv' /\ report' = head
  OBVIOUS
<1> USE DEF IInv
<1>1. head \in Nat /\ tail \in 0 .. head /\ head # tail
  BY QueueAssumption DEF CountersInv, PickInv, WriterTake
<1>2. report' = head
  <2>1. lock = "writer" /\ mainPc = "idle"
    BY DEF LockInv, WriterTake, TypeOK
  <2>2. slots[(head - 1) % QueueSize] = head
    BY <1>1, <2>1 DEF SlotsInv
  <2> QED
    BY <2>2 DEF PickInv, WriterTake
<1>3. TypeOK'
  BY <1>1, <1>2 DEF TypeOK, WriterTake, kernel, history, Free
<1>4. CountersInv' /\ LockInv' /\ SlotsInv' /\ PickInv'
  BY <1>1, QueueAssumption
     DEF CountersInv, LockInv, SlotsInv, PickInv, WriterTake, history, Free,
         TypeOK
<1>5. CarryInv' /\ NewestInv'
  BY <1>1, <1>2 DEF CarryInv, NewestInv, Carrying, CountersInv, WriterTake,
                    history, TypeOK
<1> QED
  BY <1>2, <1>3, <1>4, <1>5

\* The other steps of the writer, of the kernel and of the host leave the
\* queue alone.
LEMMA QuietInv ==
    ASSUME IInv, UNCHANGED <<head, tail, slots, mainPc, enqueued>>,
           TypeOK', LockInv', PickInv', CarryInv', NewestInv'
    PROVE  IInv'
  BY DEF IInv, CountersInv, SlotsInv

\* Every step keeps the invariant.
LEMMA StepIInv ==
    ASSUME NoOverflow
    PROVE  IInv /\ [Next]_vars => IInv'
<1> SUFFICES ASSUME IInv, [Next]_vars PROVE IInv'
  OBVIOUS
<1> USE DEF IInv
<1>1. CASE EnqueueBegin
  BY <1>1, EnqueueBeginInv
<1>2. CASE EnqueueEnd
  BY <1>2, EnqueueEndInv
<1>3. CASE WriterTake
  BY <1>3, WriterTakeInv
<1> DEFINE Quiet ==
        TypeOK' /\ LockInv' /\ PickInv' /\ CarryInv' /\ NewestInv'
<1>4. CASE BeginShutdown \/ UnbindUdc
  <2>1. Quiet
    BY <1>4 DEF BeginShutdown, UnbindUdc, Cut, TypeOK, LockInv, PickInv,
                CarryInv, NewestInv, Carrying, ring, kernel, history
  <2> QED
    BY <1>4, <2>1, QuietInv DEF BeginShutdown, UnbindUdc, ring, history
<1>5. CASE WriterTop
  <2>1. Quiet
    BY <1>5 DEF WriterTop, TypeOK, LockInv, PickInv, CarryInv, NewestInv,
                Carrying, ring, kernel, history
  <2> QED
    BY <1>5, <2>1, QuietInv DEF WriterTop, ring, history
<1>6. CASE WriterWake \/ WriterLeave \/ WriterTimeout
  <2>1. Quiet
    BY <1>6 DEF WriterWake, WriterLeave, WriterTimeout, TypeOK, LockInv,
                PickInv, CarryInv, NewestInv, Carrying, ring, kernel, history, Free
  <2> QED
    BY <1>6, <2>1, QuietInv
       DEF WriterWake, WriterLeave, WriterTimeout, ring, history
<1>7. CASE WriterSelect
  <2>1. pick' = (head - 1) % QueueSize /\ pick' \in SlotIndexes
    BY <1>7, Slots DEF WriterSelect
  <2>2. Quiet
    BY <1>7, <2>1 DEF WriterSelect, TypeOK, LockInv, PickInv, CarryInv, NewestInv,
                      Carrying, ring, kernel, history
  <2> QED
    BY <1>7, <2>2, QuietInv DEF WriterSelect, ring, history
<1>8. CASE WriterPaced \/ WriterSubmit
  <2>1. Quiet
    BY <1>8 DEF WriterPaced, WriterSubmit, TypeOK, LockInv, PickInv,
                CarryInv, NewestInv, Carrying, ring, kernel, history
  <2> QED
    BY <1>8, <2>1, QuietInv DEF WriterPaced, WriterSubmit, ring, history
<1>9. CASE HostReceives
  <2>1. Quiet
    BY <1>9 DEF HostReceives, TypeOK, LockInv, PickInv, CarryInv, NewestInv, Carrying,
                CountersInv, ring, kernel
  <2> QED
    BY <1>9, <2>1, QuietInv DEF HostReceives, ring
<1>10. CASE WriteFails \/ WriteShutDown \/ WriteInterrupted
  <2>1. Quiet
    BY <1>10 DEF WriteFails, WriteShutDown, WriteInterrupted, TypeOK, LockInv,
                 PickInv, CarryInv, NewestInv, Carrying, ring, kernel, history
  <2> QED
    BY <1>10, <2>1, QuietInv
       DEF WriteFails, WriteShutDown, WriteInterrupted, ring, history
<1>11. CASE HostDisables \/ HostEnables
  <2>1. Quiet
    BY <1>11 DEF HostDisables, HostEnables, Cut, TypeOK, LockInv, PickInv,
                 CarryInv, NewestInv, Carrying, ring, history
  <2> QED
    BY <1>11, <2>1, QuietInv
       DEF HostDisables, HostEnables, ring, history
<1>12. CASE UNCHANGED vars
  <2>1. Quiet
    BY <1>12 DEF vars, TypeOK, LockInv, PickInv, CarryInv, NewestInv, Carrying, ring,
                 kernel, history
  <2> QED
    BY <1>12, <2>1, QuietInv DEF vars, ring, history
<1> QED
  BY <1>1, <1>2, <1>3, <1>4, <1>5, <1>6, <1>7, <1>8, <1>9, <1>10, <1>11,
     <1>12 DEF Next, Main, Writer, Write, World
-----------------------------------------------------------------------------
(* The theorems. *)

\* While the counters do not overflow the invariant holds for ever.
THEOREM Invariance ==
    ASSUME NoOverflow
    PROVE  Spec => []IInv
<1>1. Init => IInv
  BY InitIInv
<1>2. IInv /\ [Next]_vars => IInv'
  BY StepIInv
<1> QED
  BY <1>1, <1>2, PTL DEF Spec

\* The variables keep their types; nothing torn is ever carried, delivered
\* or counted as lost by hid_in_thread_func.
THEOREM TypeCorrect ==
    ASSUME NoOverflow
    PROVE  Spec => []TypeOK
<1>1. IInv => TypeOK
  BY DEF IInv
<1> QED
  BY <1>1, Invariance, PTL

\* usb_enqueue_input_report keeps the newest reports, each in its slot, and
\* drops only the oldest one of a full queue.
THEOREM NewestKept ==
    ASSUME NoOverflow
    PROVE  Spec => []RingHoldsNewest
<1>1. IInv => RingHoldsNewest
  <2> SUFFICES ASSUME IInv, mainPc = "idle"
               PROVE  /\ head - tail \in 0 .. QueueSize
                      /\ \A i \in tail .. head - 1 :
                            slots[CRem(i, QueueSize)]
                                = enqueued - (head - 1 - i)
    BY DEF RingHoldsNewest
  <2> USE DEF IInv
  <2>1. head \in Nat /\ tail \in 0 .. head /\ QueueSize \in Nat \ {0}
    BY QueueAssumption DEF CountersInv
  <2>2. head - tail \in 0 .. QueueSize
    BY <2>1 DEF CountersInv
  <2>3. ASSUME NEW i \in tail .. head - 1
        PROVE  slots[CRem(i, QueueSize)] = enqueued - (head - 1 - i)
    <3>1. i \in Nat /\ enqueued - (head - 1 - i) = i + 1
      BY <2>1 DEF CountersInv
    <3>2. slots[i % QueueSize] = i + 1
      BY DEF SlotsInv
    <3> QED
      BY <2>1, <3>1, <3>2, CRemIsRem
  <2> QED
    BY <2>2, <2>3
<1> QED
  BY <1>1, Invariance, PTL

\* hid_in_thread_func never waits on an empty queue while the newest report
\* was neither received by the host nor lost by a failed write().
THEOREM NewestNotForgotten ==
    ASSUME NoOverflow
    PROVE  Spec => []NothingForgotten
<1>1. IInv => NothingForgotten
  BY DEF IInv, NewestInv, NothingForgotten, Carrying
<1> QED
  BY <1>1, Invariance, PTL

\* usb.cpp:459: the index of the slot written is an index of input_queue.
THEOREM SlotInBounds ==
    ASSUME NoOverflow
    PROVE  Spec => []EnqueueInBounds
<1>1. IInv => EnqueueInBounds
  BY Slots DEF IInv, EnqueueInBounds
<1> QED
  BY <1>1, Invariance, PTL
-----------------------------------------------------------------------------
(* The refinement of Mailbox. *)

\* The mailbox as the queue represents it: it holds the newest report.
LEMMA WaitingIsHead == IInv /\ head # tail => slots[LatestSlot] = head
<1> SUFFICES ASSUME IInv, head # tail PROVE slots[LatestSlot] = head
  OBVIOUS
<1> USE DEF IInv
<1>1. /\ head \in Nat /\ head - 1 \in tail .. head - 1
      /\ head - 1 > head - QueueSize /\ (head - 1) + 1 = head
  BY QueueAssumption DEF CountersInv
<1>2. slots[(head - 1) % QueueSize] = (head - 1) + 1
  BY <1>1, Zenon DEF SlotsInv
<1> QED
  BY <1>1, <1>2, Slots

\* Publishing a report posts it.
LEMMA EnqueueEndPosts ==
    ASSUME NoOverflow, IInv, EnqueueEnd
    PROVE  LatestReport!Post
<1> USE DEF IInv
<1>1. IInv' /\ head' = head + 1
  BY EnqueueEndInv
<1>2. head' = enqueued' /\ head' # tail'
  BY <1>1, QueueAssumption DEF CountersInv, EnqueueEnd, DropOldest
<1>3. slots'[LatestSlot'] = enqueued'
  <2>1. (IInv /\ head # tail => slots[LatestSlot] = head)'
    BY WaitingIsHead, PTL
  <2> QED
    BY <1>1, <1>2, <2>1
<1> QED
  BY <1>2, <1>3 DEF LatestReport!Post, EnqueueEnd, Carrying

\* Taking the newest report and draining the queue empties the mailbox.
LEMMA WriterTakeTakes ==
    ASSUME IInv, WriterTake
    PROVE  LatestReport!Take
<1> USE DEF IInv
<1>1. report' = head /\ head # tail /\ head' = tail'
  BY WriterTakeInv DEF PickInv, WriterTake
<1>2. slots[LatestSlot] = head /\ head # 0
  BY <1>1, WaitingIsHead DEF CountersInv
<1> QED
  BY <1>1, <1>2 DEF LatestReport!Take, WriterTake, Carrying, history

\* Every step of the queue, the writer and the endpoint is a step of the
\* mailbox or leaves it alone.
LEMMA RefineStep ==
    ASSUME NoOverflow, IInv, [Next]_vars
    PROVE  [LatestReport!Next]_(LatestReport!vars)
<1> USE DEF IInv
<1>1. CASE EnqueueBegin
  <2>1. EnqueueSlot \in SlotIndexes
        /\ (head # tail => LatestSlot # EnqueueSlot)
    BY Slots
  <2>2. LatestSlot' = LatestSlot
    BY <1>1 DEF LatestSlot, EnqueueBegin
  <2>3. head # tail => slots'[LatestSlot'] = slots[LatestSlot]
    BY <1>1, <2>1, <2>2, Slots DEF EnqueueBegin, TypeOK
  <2> QED
    BY <1>1, <2>3 DEF EnqueueBegin, LatestReport!vars, Carrying, history
<1>2. CASE EnqueueEnd
  BY <1>2, EnqueueEndPosts DEF LatestReport!Next
<1>3. CASE WriterTake
  BY <1>3, WriterTakeTakes DEF LatestReport!Next
<1> DEFINE QueueSame == UNCHANGED <<head, tail, slots, enqueued>>
<1>4. QueueSame => UNCHANGED LatestSlot
  BY DEF LatestSlot
<1>5. CASE HostReceives
  BY <1>4, <1>5 DEF HostReceives, LatestReport!Next, LatestReport!Deliver,
                    CarryInv, Carrying, ring
<1>6. CASE WriteFails \/ WriteShutDown \/ WriteInterrupted
  BY <1>4, <1>6 DEF WriteFails, WriteShutDown, WriteInterrupted,
                    LatestReport!Next, LatestReport!Lose, CarryInv, CountersInv, Carrying, ring,
                    history
<1>7. CASE WriterPaced
  BY <1>4, <1>7 DEF WriterPaced, LatestReport!Next, LatestReport!vars,
                    LatestReport!Lose, CarryInv, CountersInv, Carrying, ring,
                    history
<1>8. CASE \/ BeginShutdown \/ UnbindUdc \/ WriterTop \/ WriterWake
           \/ WriterLeave \/ WriterTimeout \/ WriterSelect \/ WriterSubmit
           \/ HostDisables \/ HostEnables \/ UNCHANGED vars
  BY <1>4, <1>8 DEF BeginShutdown, UnbindUdc, WriterTop, WriterWake,
                    WriterLeave, WriterTimeout, WriterSelect, WriterSubmit,
                    HostDisables, HostEnables, Cut, vars, ring, history,
                    LatestReport!vars, Carrying
<1> QED
  BY <1>1, <1>2, <1>3, <1>5, <1>6, <1>7, <1>8
     DEF Next, Main, Writer, Write, World

\* The queue and the writer implement the conflating mailbox: every step of
\* usb_enqueue_input_report and hid_in_thread_func is a step of Mailbox or
\* none at all.
THEOREM Refinement ==
    ASSUME NoOverflow
    PROVE  Spec => ImplementsMailbox
<1>1. Init => LatestReport!Init
  BY DEF Init, LatestReport!Init, Carrying
<1>2. IInv /\ [Next]_vars => [LatestReport!Next]_(LatestReport!vars)
  BY RefineStep
<1> QED
  BY <1>1, <1>2, Invariance, PTL
     DEF Spec, ImplementsMailbox, LatestReport!Spec

=============================================================================
