---------------------------- MODULE DaemonProofs ----------------------------
(***************************************************************************)
(* Theorems about the life of the daemon.  With any set of faults, the     *)
(* threads are joined before an endpoint file is closed; where none occurs *)
(* the gadget is off the bus by then; and no thread enters the kernel more *)
(* than once in the shutdown.  And about its access to the controller      *)
(* (module Discovery), with any devices, and the gadget that the scripts   *)
(* make for it (GadgetScripts), with any number of users.                  *)
(***************************************************************************)
EXTENDS Daemon, ControllerAccess, GadgetState, Sequences, FiniteSets,
        FiniteSetTheorems, FunctionTheorems, SequenceTheorems,
        WellFoundedInduction, TLAPS

-----------------------------------------------------------------------------
(* The inductive invariant: what holds where the main thread is. *)

\* Places at which usb_init has opened every file and usb_close_fds not yet
\* closed one.
FilesOpen == {"binding", "servicing", "testing", "startingOut", "loop",
              "entering", "waiting", "pausing", "joiningIn", "joiningOut",
              "joiningAudio", "closing"}

\* Places before the threads exist.
BeforeIn  == {"connect", "connected", "binding", "initFailed", "servicing",
              "testing"}
BeforeOut == BeforeIn \cup {"startingOut"}

\* Places after usb_shutting_down is set, and after the pause.
Stopping  == {"pausing", "joiningIn", "joiningOut", "joiningAudio", "closing",
              "deinit"}
Unbinding == Stopping \ {"pausing"}

Quiet == {"none", "exited"}

\* The threads exist between their start and their join ...
ThreadInv ==
    /\ mainPc \in BeforeIn => hidIn = "none"
    /\ mainPc \in BeforeOut => hidOut = "none"
    /\ mainPc \in {"joiningOut", "joiningAudio", "closing", "deinit"}
           => hidIn = "exited"
    /\ mainPc \in {"joiningAudio", "closing", "deinit"} => hidOut = "exited"

\* ... within which the files are open, wherever an error path leads.
FilesInv ==
    /\ mainPc \in FilesOpen => fds = Endpoints
    /\ fds # Endpoints => hidIn \in Quiet /\ hidOut \in Quiet

IInv == TypeOK /\ ThreadInv /\ FilesInv

\* Where no call fails usb_gadget_bound tells the truth, and the places between
\* binding and unbinding are among those at which the files are open.
BoundInv ==
  failing = {} =>
    /\ boundFlag <=> bound
    /\ bound => mainPc \in {"servicing", "testing", "startingOut", "loop",
                           "entering", "waiting", "pausing"}

\* Who has entered the kernel in the shutdown is not on its way there again,
\* nor is anybody after the pause, unless that was too short.
LateInv ==
    /\ mainPc \in Stopping => shuttingDown
    /\ late # {} => shuttingDown
    /\ "in" \in late => hidIn # "held"
    /\ "out" \in late => hidOut # "held"
    /\ again = {}
    /\ mainPc \in Unbinding =>
          "hurried" \in amiss \/ (hidIn # "held" /\ hidOut # "held")
-----------------------------------------------------------------------------
\* What usb_init opened before it failed is a part of what it opens.
LEMMA SomeEndpoints ==
    \A s \in {{}, {"ep0"}, {"ep0", "ep1"}, Endpoints} : s \subseteq Endpoints
  BY DEF Endpoints

\* Initially nothing is open and no thread exists.
LEMMA InitIInv == Init => IInv
<1> SUFFICES ASSUME Init PROVE IInv
  OBVIOUS
<1>1. TypeOK
  <2>1. attempt \in 0 .. MaxAttempts
    BY DaemonAssumption DEF Init
  <2> QED
    BY <2>1, Zenon DEF Init, TypeOK, MainPlaces, ThreadPlaces
<1>2. ThreadInv
  BY DEF Init, ThreadInv
<1>3. FilesInv
  BY DEF Init, FilesInv, FilesOpen, Quiet
<1> QED
  BY <1>1, <1>2, <1>3 DEF IInv

\* Binding, unbinding and the error paths keep usb_gadget_bound truthful when
\* no system call fails that usb_init and usb_unbind_udc do not expect to.
LEMMA BoundStep ==
    ASSUME TypeOK, BoundInv, [Next]_vars
    PROVE  BoundInv'
<1>0. failing' = failing
  BY DEF Next, StartUp, Loop, ShutDown, In, Out, World, Goto, OnlyIn, OnlyOut,
         others, InTakes, GiveUpSearch, OpenEndpoints, OpenFails, BindUdc, BindFails,
         GiveUpBinding, DeinitEarly, StartAudio, StartIn, StartOut,
         EpollFails, LoopChecks, LoopWaits, LoopEnds, UnbindUdc, JoinIn, JoinOut,
         JoinAudio, AudioStops, CloseFds, Teardown, Exit, InHolds, InLeaves, InWrites, InQueued,
         InDone, InCancelled, OutHolds, OutLeaves, OutReads, OutQueued,
         OutCancelled, Connect, ServeReport, ServeOther, LoseController,
         WaitFails, Signal, OutReceives, OutEmpty, HostEnables, HostDisables,
         vars
<1> SUFFICES ASSUME failing = {} PROVE BoundInv'
  BY <1>0 DEF BoundInv
<1> USE <1>0 DEF BoundInv, Goto, usb
<1>1. \A call : call \notin failing
  OBVIOUS
<1>2. bound \in BOOLEAN /\ boundFlag \in BOOLEAN
  BY DEF TypeOK
<1>3. CASE BindUdc
  BY <1>3 DEF BindUdc
<1>4. CASE BindFails
  <2>1. bound' = bound
    BY <1>1, <1>4 DEF BindFails
  <2> QED
    BY <1>4, <2>1 DEF BindFails
<1>5. CASE UnbindUdc
  BY <1>1, <1>5 DEF UnbindUdc, Unbound
<1>6. CASE Teardown
  BY <1>6 DEF Teardown
<1>7. CASE StartUp /\ ~(BindUdc \/ BindFails)
  BY <1>1, <1>7 DEF StartUp, GiveUpSearch, OpenEndpoints, OpenFails,
                    GiveUpBinding, DeinitEarly, StartAudio, StartIn, StartOut,
                    EpollFails
<1>8. CASE Loop \/ ServeReport
  BY <1>8 DEF Loop, LoopChecks, LoopWaits, LoopEnds, ServeReport
<1>9. CASE JoinIn \/ JoinOut \/ JoinAudio \/ AudioStops \/ CloseFds \/ Exit
  BY <1>9 DEF JoinIn, JoinOut, JoinAudio, AudioStops, CloseFds, Exit
<1>10. CASE In \/ Out \/ World
  <2>1. CASE In \/ Out
    <3>1. UNCHANGED <<mainPc, usb>>
      BY <2>1 DEF In, InHolds, InTakes, InLeaves, InWrites, InQueued, InDone,
                  InCancelled, OnlyIn, others, Out, OutHolds, OutLeaves, OutReads,
                  OutQueued, OutCancelled, OnlyOut
    <3> QED
      BY <3>1
  <2>2. CASE World
    <3>1. UNCHANGED <<boundFlag, bound>>
      BY <2>2 DEF World, Connect, ServeOther, LoseController, WaitFails,
                  Signal, OutReceives, OutEmpty, OnlyOut, others,
                  HostEnables, HostDisables
    <3>2. CASE Connect \/ ServeOther \/ LoseController \/ WaitFails \/ Signal
      BY <3>1, <3>2 DEF Connect, ServeOther, LoseController, WaitFails, Signal
    <3>3. CASE OutReceives \/ OutEmpty \/ HostEnables \/ HostDisables
      BY <3>1, <3>3 DEF OutReceives, OutEmpty, OnlyOut, others,
                        HostEnables, HostDisables
    <3> QED
      BY <2>2, <3>2, <3>3 DEF World
  <2> QED
    BY <1>10, <2>1, <2>2
<1>11. CASE UNCHANGED vars
  BY <1>11 DEF vars
<1> QED
  BY <1>3, <1>4, <1>5, <1>6, <1>7, <1>8, <1>9, <1>10, <1>11
     DEF Next, ShutDown
-----------------------------------------------------------------------------
(* The following proofs go by variable and not by action: an action says of *)
(* each variable in so many words what becomes of it.                       *)

USE DEF Next, StartUp, Loop, ShutDown, In, Out, World, Goto, OnlyIn,
    OnlyOut, others, Enters, Inside, Entered, Unbound, StartAudio, JoinAudio,
    AudioStops, InTakes, InKernel, flags, usb, threads, history, vars,
    GiveUpSearch,
    OpenEndpoints, OpenFails, BindUdc, BindFails, GiveUpBinding,
    DeinitEarly, StartIn, StartOut, EpollFails, LoopChecks, LoopWaits,
    LoopEnds, UnbindUdc, JoinIn, JoinOut, CloseFds, Teardown, Exit,
    InHolds, InLeaves, InWrites, InQueued, InDone, InCancelled, OutHolds,
    OutLeaves, OutReads, OutQueued, OutCancelled, Connect, ServeReport,
    ServeOther, LoseController, WaitFails, Signal, OutReceives, OutEmpty,
    HostEnables, HostDisables

\* Every variable keeps its type.
LEMMA TypeStep ==
    ASSUME TypeOK, [Next]_vars
    PROVE  TypeOK'
<1> USE DaemonAssumption DEF TypeOK
<1>1. mainPc' \in MainPlaces
  BY DEF MainPlaces
<1>2. attempt' \in 0 .. MaxAttempts
  <2>1. attempt' = attempt \/ (attempt < MaxAttempts /\ attempt' = attempt + 1)
    OBVIOUS
  <2> HIDE DEF Next
  <2> QED
    BY <2>1
<1>3. running' \in BOOLEAN /\ shuttingDown' \in BOOLEAN /\ queued' \in BOOLEAN
  OBVIOUS
<1>4. hidraw' \in {"none", "open", "gone"}
  OBVIOUS
<1>5. fds' \subseteq Endpoints
  BY SomeEndpoints
<1>6. boundFlag' \in BOOLEAN /\ bound' \in BOOLEAN /\ enabled' \in BOOLEAN
  OBVIOUS
<1>7. hidIn' \in ThreadPlaces /\ hidOut' \in ThreadPlaces
  <2>1. \/ hidIn' \in {hidIn, Cut(hidIn)}
        \/ hidIn' \in {"none", "top", "held", "heldBack", "inflight", "exited"}
    OBVIOUS
  <2>2. \/ hidOut' \in {hidOut, Cut(hidOut)}
        \/ hidOut' \in {"none", "top", "held", "heldBack", "inflight", "exited"}
    OBVIOUS
  <2> HIDE DEF Next
  <2> QED
    BY <2>1, <2>2 DEF ThreadPlaces, Cut
<1>8. failing' \in {{}, Faults}
  OBVIOUS
<1>9. audio' \in {"none", "running", "ended", "asleep"}
  OBVIOUS
<1>10. late' \subseteq {"in", "out"} /\ again' \subseteq {"in", "out"}
  OBVIOUS
<1>11. amiss' \subseteq {"hurried", "disabled"}
  OBVIOUS
<1> QED
  BY <1>1, <1>2, <1>3, <1>4, <1>5, <1>6, <1>7, <1>8, <1>9, <1>10, <1>11

\* main starts and joins the threads; they end by themselves.
LEMMA ThreadStep ==
    ASSUME ThreadInv, FilesInv, [Next]_vars
    PROVE  ThreadInv'
<1>1. (mainPc \in BeforeIn => hidIn = "none")'
  <2>1. mainPc' \in BeforeIn => mainPc \in BeforeIn
    BY DEF BeforeIn
  <2>2. hidIn = "none" /\ mainPc' \in BeforeIn => hidIn' = "none"
    BY DEF BeforeIn, Cut
  <2> QED
    BY <2>1, <2>2 DEF ThreadInv
<1>2. (mainPc \in BeforeOut => hidOut = "none")'
  <2>1. mainPc' \in BeforeOut => mainPc \in BeforeOut
    BY DEF BeforeIn, BeforeOut
  <2>2. hidOut = "none" /\ mainPc' \in BeforeOut => hidOut' = "none"
    BY DEF BeforeIn, BeforeOut, Cut
  <2> QED
    BY <2>1, <2>2 DEF ThreadInv
<1>3. (mainPc \in {"joiningOut", "joiningAudio", "closing", "deinit"}
          => hidIn = "exited")'
  BY DEF ThreadInv, Cut
<1>4. (mainPc \in {"joiningAudio", "closing", "deinit"}
          => hidOut = "exited")'
  BY DEF ThreadInv, Cut
<1> QED
  BY <1>1, <1>2, <1>3, <1>4 DEF ThreadInv

\* The files are closed after the joins, or when no thread was started.
LEMMA FilesStep ==
    ASSUME ThreadInv, FilesInv, [Next]_vars
    PROVE  FilesInv'
<1>1. (mainPc \in FilesOpen => fds = Endpoints)'
  BY DEF FilesInv, FilesOpen
<1>2. (fds # Endpoints => hidIn \in Quiet /\ hidOut \in Quiet)'
  BY DEF FilesInv, FilesOpen, ThreadInv, BeforeIn, BeforeOut, Quiet, Cut
<1> QED
  BY <1>1, <1>2 DEF FilesInv

\* usb_shutting_down keeps every thread from taking another turn.
LEMMA LateStep ==
    ASSUME LateInv, [Next]_vars
    PROVE  LateInv'
<1> USE DEF LateInv
<1>1. (mainPc \in Stopping => shuttingDown)'
  BY DEF Stopping
<1>2. (late # {} => shuttingDown)'
  OBVIOUS
<1>3. ("in" \in late => hidIn # "held")'
  <2>1. hidIn' = "held" => hidIn = "held" \/ ~shuttingDown
    BY DEF Cut
  <2>2. \/ late' = late
        \/ late' = late \cup {"in"} /\ hidIn' # "held"
        \/ late' = late \cup {"out"}
    OBVIOUS
  <2> HIDE DEF Next, vars
  <2> QED
    BY <2>1, <2>2 DEF LateInv
<1>4. ("out" \in late => hidOut # "held")'
  <2>1. hidOut' = "held" => hidOut = "held" \/ ~shuttingDown
    BY DEF Cut
  <2>2. \/ late' = late
        \/ late' = late \cup {"out"} /\ hidOut' # "held"
        \/ late' = late \cup {"in"}
    OBVIOUS
  <2> HIDE DEF Next, vars
  <2> QED
    BY <2>1, <2>2 DEF LateInv
<1>5. (again = {})'
  OBVIOUS
<1>6. (mainPc \in Unbinding =>
          "hurried" \in amiss \/ (hidIn # "held" /\ hidOut # "held"))'
  BY DEF Stopping, Unbinding, Hurried, Cut
<1> QED
  BY <1>1, <1>2, <1>3, <1>4, <1>5, <1>6

HIDE DEF Next, vars
-----------------------------------------------------------------------------
\* IInv holds in every state of the daemon, whatever faults there are.
THEOREM Invariance == Spec => []IInv
<1>1. IInv /\ [Next]_vars => IInv'
  BY TypeStep, ThreadStep, FilesStep DEF IInv
<1> QED
  BY <1>1, InitIInv, PTL DEF Spec

\* The variables of the daemon keep their types.
THEOREM TypeCorrect == Spec => []TypeOK
<1>1. IInv => TypeOK
  BY DEF IInv
<1> QED
  BY <1>1, Invariance, PTL

\* Whatever fails on the way: no endpoint file is closed, by usb_close_fds or
\* by the end of the process, while a thread could use it.
THEOREM JoinedFirst == Spec => []JoinedBeforeClose
<1>1. IInv => JoinedBeforeClose
  BY DEF IInv, FilesInv, Quiet, JoinedBeforeClose
<1> QED
  BY <1>1, Invariance, PTL

\* As long as no system call fails that the code does not expect to, the
\* gadget is off the bus before the first endpoint file is closed, on every
\* path: failed start-up, shutdown, and a lost controller.
THEOREM UnboundFirst == Spec => []UnbindBeforeClose
<1>1. Init => BoundInv
  BY DEF Init, BoundInv
<1>2. TypeOK /\ BoundInv /\ [Next]_vars => BoundInv'
  BY BoundStep
<1>3. IInv /\ BoundInv => UnbindBeforeClose
  BY DEF IInv, FilesInv, FilesOpen, BoundInv, UnbindBeforeClose
<1> QED
  BY <1>1, <1>2, <1>3, Invariance, TypeCorrect, PTL DEF Spec

\* However usb_shutting_down races the threads: each submits at most one more
\* transfer once it is set, and none once the gadget is off the bus, unless it
\* was on its way into the kernel when the pause of usb_unbind_udc ended.
THEOREM NothingLate == Spec => []NothingSubmittedLate
<1>1. Init => LateInv
  BY DEF Init, LateInv, Stopping, Unbinding
<1>2. LateInv /\ [Next]_vars => LateInv'
  BY LateStep
<1>3. LateInv => NothingSubmittedLate
  BY DEF LateInv, Unbinding, Stopping, NothingSubmittedLate
<1> QED
  BY <1>1, <1>2, <1>3, PTL DEF Spec
-----------------------------------------------------------------------------
(* The input queue in the daemon.  InputQueue looks into one of the threads *)
(* of Daemon and leaves its surroundings free within limits; here, that the *)
(* daemon keeps within them.                                                *)

\* Where InputQueue has the HID IN thread; the turn that ends in write() is
\* one step of Daemon, InHolds, and so is its way into the kernel.
WriterAt == IF hidIn \in {"held", "heldBack"} THEN "writing" ELSE hidIn

\* The queue while nothing is put into it: what else there is of InputQueue.
Queue == INSTANCE InputQueue WITH
    QueueSize <- 4, IntMax <- 2147483647, MaxReports <- 0,
    head <- 0, tail <- 0, slots <- [i \in 0 .. 3 |-> 0], lock <- "free",
    mainPc <- "idle", writerPc <- WriterAt, pick <- 0, report <- 0,
    enqueued <- 0, received <- 0, lost <- 0

QueueSeen  == <<WriterAt, shuttingDown, bound, enabled>>
QueueSteps == \/ Queue!BeginShutdown \/ Queue!UnbindUdc
              \/ Queue!WriterTop \/ Queue!WriterSubmit
              \/ Queue!Write \/ Queue!World

\* What the daemon keeps to: the flag is set by the shutdown and before it by
\* nothing, the thread starts with the gadget bound, and without a gadget there
\* is no endpoint.
QueueInv ==
    /\ mainPc \in FilesOpen \ Stopping => ~shuttingDown
    /\ mainPc \in Stopping => shuttingDown
    /\ mainPc \in BeforeIn => ~shuttingDown
    /\ mainPc \in {"servicing", "testing"} => bound
    /\ enabled => bound
    /\ hidIn = "inflight" => enabled

\* The HID IN thread starts as InputQueue does, with the gadget bound and no
\* shutdown begun (the host may have taken the endpoint away already), and
\* whatever happens from then on to it, to usb_shutting_down and to
\* the endpoint is a step of InputQueue, or InHolds.
QueueInDaemon ==
    [][ /\ hidIn = "none" /\ hidIn' # "none"
              => (WriterAt = "top" /\ bound /\ ~shuttingDown)'
        /\ hidIn # "none" /\ hidIn' # "none"
              => [QueueSteps \/ InHolds]_QueueSeen ]_vars

LEMMA QueueInvStep ==
    ASSUME IInv, QueueInv, [Next]_vars
    PROVE  QueueInv'
<1>1. (mainPc \in FilesOpen \ Stopping => ~shuttingDown)'
  BY DEF Next, vars, QueueInv, FilesOpen, Stopping, BeforeIn
<1>2. (mainPc \in Stopping => shuttingDown)'
  BY DEF Next, vars, QueueInv, Stopping
<1>3. (mainPc \in BeforeIn => ~shuttingDown)'
  BY DEF Next, vars, QueueInv, BeforeIn
<1>4. (mainPc \in {"servicing", "testing"} => bound)'
  BY DEF Next, vars, QueueInv
<1>5. (enabled => bound)'
  BY DEF Next, vars, QueueInv
<1>6. (hidIn = "inflight" => enabled)'
  <2>1. CASE Teardown
    BY <2>1 DEF IInv, ThreadInv
  <2>2. CASE ~Teardown
    BY <2>2 DEF Next, vars, QueueInv, Cut
  <2> QED
    BY <2>1, <2>2
<1> QED
  BY <1>1, <1>2, <1>3, <1>4, <1>5, <1>6 DEF QueueInv

\* The queue and its thread, as InputQueue has them, are part of the daemon:
\* what Daemon does to them InputQueue allows for.
THEOREM QueueFits == Spec => QueueInDaemon
<1>1. Init => QueueInv
  BY DEF Init, QueueInv, FilesOpen, Stopping, BeforeIn
<1>2. IInv /\ QueueInv /\ [Next]_vars => QueueInv'
  BY QueueInvStep
<1>3. ASSUME IInv, QueueInv, Next
      PROVE  /\ hidIn = "none" /\ hidIn' # "none"
                    => (WriterAt = "top" /\ bound /\ ~shuttingDown)'
             /\ hidIn # "none" /\ hidIn' # "none"
                    => [QueueSteps \/ InHolds]_QueueSeen
  <2>1. ASSUME hidIn = "none", hidIn' # "none"
        PROVE  (WriterAt = "top" /\ bound /\ ~shuttingDown)'
    <3>1. StartIn
      BY <1>3, <2>1 DEF Next, Cut
    <3> QED
      BY <1>3, <3>1 DEF QueueInv, BeforeIn, WriterAt
  <2>2. ASSUME hidIn # "none", hidIn' # "none"
        PROVE  [QueueSteps \/ InHolds]_QueueSeen
    <3> USE DEF QueueSeen
    <3>0. /\ hidIn \in ThreadPlaces \ {"none"} /\ hidOut \in ThreadPlaces
          /\ shuttingDown \in BOOLEAN /\ bound \in BOOLEAN /\ enabled \in BOOLEAN
      BY <1>3, <2>2 DEF IInv, TypeOK
    <3>c. hidIn' = Cut(hidIn) => WriterAt' = Queue!Cut(WriterAt)
      BY DEF Cut, Queue!Cut, WriterAt
    <3>1. CASE LoopEnds \/ WaitFails
      <4>1. ~shuttingDown /\ shuttingDown' /\ UNCHANGED <<bound, enabled, hidIn>>
        BY <1>3, <3>1 DEF QueueInv, FilesOpen, Stopping
      <4>2. Queue!BeginShutdown
        BY <4>1 DEF Queue!BeginShutdown, Queue!ring, Queue!kernel,
                    Queue!history, WriterAt
      <4> QED
        BY <4>2 DEF QueueSteps
    <3>2. CASE UnbindUdc \/ Teardown
      <4>1. shuttingDown /\ UNCHANGED shuttingDown
        BY <1>3, <3>2 DEF QueueInv, Stopping
      <4>2. \/ UNCHANGED <<bound, enabled, hidIn>>
            \/ bound' = FALSE /\ enabled' = FALSE /\ hidIn' = Cut(hidIn)
        BY <1>3, <3>2 DEF IInv, ThreadInv, Cut
      <4>3. CASE UNCHANGED <<bound, enabled, hidIn>>
        BY <4>1, <4>3 DEF WriterAt
      <4>4. CASE bound' = FALSE /\ enabled' = FALSE /\ hidIn' = Cut(hidIn)
        <5>1. CASE bound
          <6>1. Queue!UnbindUdc
            BY <3>c, <4>1, <4>4, <5>1
               DEF Queue!UnbindUdc, Queue!ring, Queue!history
          <6> QED
            BY <6>1 DEF QueueSteps
        <5>2. CASE ~bound
          <6>1. hidIn # "inflight"
            BY <1>3, <5>2 DEF QueueInv
          <6> QED
            BY <1>3, <3>0, <4>1, <4>4, <5>2, <6>1 DEF QueueInv, Cut, WriterAt
        <5> QED
          BY <5>1, <5>2
      <4> QED
        BY <4>2, <4>3, <4>4
    <3>3. CASE HostEnables \/ HostDisables
      <4>1. Queue!HostEnables \/ Queue!HostDisables
        BY <3>c, <3>3 DEF Queue!HostEnables, Queue!HostDisables, Queue!ring,
                          Queue!history, WriterAt
      <4> QED
        BY <4>1 DEF QueueSteps, Queue!World
    <3>4. CASE In
      <4>1. UNCHANGED <<shuttingDown, bound, enabled>>
        BY <3>4
      <4>2. CASE InHolds
        BY <4>2
      <4>3. CASE InLeaves
        BY <4>1, <4>3 DEF QueueSteps, Queue!WriterTop, Queue!ring,
                          Queue!kernel, Queue!history, WriterAt
      <4>4. CASE InWrites
        BY <3>0, <4>1, <4>4 DEF QueueSteps, Queue!WriterSubmit, Queue!ring,
                          Queue!kernel, Queue!history, WriterAt
      <4>5. CASE InQueued
        BY <4>1, <4>5 DEF QueueSteps, Queue!WriterSubmit, Queue!ring,
                          Queue!kernel, Queue!history, WriterAt
      <4>6. CASE InDone
        BY <4>1, <4>6 DEF QueueSteps, Queue!Write, Queue!HostReceives,
                          Queue!ring, Queue!kernel, WriterAt
      <4>7. CASE InCancelled
        BY <4>1, <4>7 DEF QueueSteps, Queue!Write, Queue!WriteShutDown,
                          Queue!ring, Queue!kernel, Queue!history, WriterAt
      <4> QED
        BY <3>4, <4>2, <4>3, <4>4, <4>5, <4>6, <4>7
    <3>5. CASE Signal
      <4>1. UNCHANGED <<shuttingDown, bound, enabled>>
        BY <3>5
      <4>2. CASE UNCHANGED hidIn
        BY <4>1, <4>2 DEF WriterAt
      <4>3. CASE hidIn \in InKernel /\ hidIn' = "top"
        BY <4>1, <4>3 DEF QueueSteps, Queue!World, Queue!WriteInterrupted,
                          Queue!ring, Queue!kernel, WriterAt
      <4> QED
        BY <3>5, <4>2, <4>3
    <3>6. CASE UNCHANGED <<hidIn, shuttingDown, bound, enabled>>
      BY <3>6 DEF WriterAt
    <3> QED
      <4>1. hidIn # "none" => mainPc \notin BeforeIn
        BY <1>3 DEF IInv, ThreadInv
      <4>2. \/ LoopEnds \/ WaitFails \/ UnbindUdc \/ Teardown
            \/ HostEnables \/ HostDisables \/ In \/ Signal
            \/ UNCHANGED <<hidIn, shuttingDown, bound, enabled>>
        BY <1>3, <2>2, <4>1 DEF Next, BeforeIn
      <4> QED
        BY <3>1, <3>2, <3>3, <3>4, <3>5, <3>6, <4>2
  <2> QED
    BY <2>1, <2>2
<1> QED
  BY <1>1, <1>2, <1>3, Invariance, PTL DEF Spec, QueueInDaemon
-----------------------------------------------------------------------------
(* Discovery: the devices, and what the daemon has open and grabbed.       *)

\* The kernel's side: the nodes have numbers of their own, and without early
\* looks a controller that is there has all its input devices.
NodeInv ==
    /\ early \in BOOLEAN
    /\ node \in [Access!Devices -> Nat] /\ inputs \in [Access!Devices -> 0 .. Inputs]
    /\ \A d, e \in Access!Present : node[d] = node[e] => d = e
    /\ ~early => \A d \in Bluetooth : node[d] # 0 => inputs[d] = Inputs

\* The daemon's: what it has open it found under the path it goes by, and what
\* it has to come by or has grabbed is there.
HoldInv ==
    /\ stage \in {"search", "found", "opened", "grabbing", "up", "exited"}
    /\ path \in Nat /\ fd \in Access!Devices \cup {Access!None, Access!Gone}
    /\ stage \in {"search", "found", "exited"} => fd = Access!None /\ grabbed = {}
    /\ stage # "grabbing" => todo = {}
    /\ fd \in Access!Devices => node[fd] # 0
    /\ stage = "opened" /\ fd \in Access!Devices => node[fd] = path
    /\ \A i \in todo \cup grabbed : \E d \in Access!Present : i \in Access!InputsOf(d)

\* None of the inputs of the controller that is open is forgotten: it is still
\* to be come by, or grabbed, or another program's.
GrabInv ==
    ~early /\ fd \in Bluetooth =>
        /\ stage = "grabbing" =>
               \A i \in Access!InputsOf(fd) : i \in todo \cup grabbed \cup Held
        /\ stage = "up" => \A i \in Access!InputsOf(fd) : i \in grabbed \cup Held

AccessInv == NodeInv /\ HoldInv /\ GrabInv

\* A set of numbers has a lowest one.
LEMMA LowestIs ==
    ASSUME NEW S \in SUBSET Nat, S # {}
    PROVE  Access!Lowest(S) \in S
<1> DEFINE R == OpToRel(<, Nat)
<1>1. PICK n \in S : \A m \in S : ~(<<m, n>> \in R)
  <2> HIDE DEF R
  <2>1. IsWellFoundedOn(R, Nat)
    BY NatLessThanWellFounded DEF R
  <2> QED
    BY <2>1, WFMin
<1>2. \A m \in S : n <= m
  <2> TAKE m \in S
  <2>1. m \in Nat /\ n \in Nat
    OBVIOUS
  <2>2. ~(m < n)
    BY <1>1, <2>1 DEF OpToRel
  <2> QED
    BY <2>1, <2>2
<1> QED
  BY <1>2 DEF Access!Lowest

\* As many numbers as there are devices are enough: while a device has none,
\* one of them is free.
LEMMA FreeNumber ==
    ASSUME NodeInv, NEW d \in Access!Devices, node[d] = 0
    PROVE  \E n \in 1 .. Cardinality(Access!Devices) : \A e \in Access!Devices : node[e] # n
<1> DEFINE C == Cardinality(Access!Devices)
           Taken == {node[e] : e \in Access!Devices}
<1>1. node \in Surjection(Access!Devices, Taken)
  BY DEF NodeInv, Surjection
<1>2. IsFiniteSet(Taken) /\ Cardinality(Taken) <= C
  BY <1>1, FS_Surjection, AccessAssumption DEF Access!DiscoveryAssumption
<1>3. C \in Nat /\ Cardinality(Taken) \in Nat
  BY <1>2, FS_CardinalityType, AccessAssumption DEF Access!DiscoveryAssumption
<1>4. /\ IsFiniteSet(Taken \ {0})
      /\ Cardinality(Taken \ {0}) = Cardinality(Taken) - 1
  <2>1. 0 \in Taken
    OBVIOUS
  <2> HIDE DEF Taken
  <2> QED
    BY <1>2, <2>1, FS_RemoveElement
<1>5. IsFiniteSet(1 .. C) /\ Cardinality(1 .. C) = C
  BY <1>3, FS_Interval
<1>6. ~(1 .. C \subseteq Taken \ {0})
  <2> SUFFICES ASSUME 1 .. C \subseteq Taken \ {0} PROVE FALSE
    OBVIOUS
  <2>1. C <= Cardinality(Taken \ {0})
    BY <1>4, <1>5, FS_Subset
  <2> HIDE DEF C, Taken
  <2> QED
    BY <1>2, <1>3, <1>4, <2>1
<1>7. PICK n \in 1 .. C : n \notin Taken \ {0}
  BY <1>6
<1>8. n # 0
  BY <1>3, <1>7
<1> QED
  BY <1>7, <1>8

\* Cardinality inside Discovery is that of FiniteSets.
LEMMA SameCardinality ==
    Access!Cardinality(Access!Devices) = Cardinality(Access!Devices)
  BY DEF Access!Cardinality, Cardinality, Access!IsFiniteSet, IsFiniteSet

\* The number a device gets is no other's.
LEMMA NodeGiven ==
    ASSUME NodeInv, NEW d \in Access!Devices,
           Access!Connects(d)
    PROVE  \E n \in Nat \ {0} :
               /\ node' = [node EXCEPT ![d] = n]
               /\ \A e \in Access!Devices : node[e] # n
<1> DEFINE Free == {n \in 1 .. Cardinality(Access!Devices) :
                       \A e \in Access!Devices : node[e] # n}
           given == Access!Lowest(Free)
<1>1. node[d] = 0
  BY DEF Access!Connects
<1>6. node' = [node EXCEPT ![d] = given]
  BY Zenon, SameCardinality DEF Access!Connects
<1>2. Free # {}
  BY <1>1, FreeNumber
<1>3. Cardinality(Access!Devices) \in Nat
  BY FS_CardinalityType, AccessAssumption DEF Access!DiscoveryAssumption
<1>4. Free \subseteq Nat \ {0}
  BY <1>3
<1>5. given \in Free
  <2> HIDE DEF Free
  <2> QED
    BY <1>2, <1>4, LowestIs
<1> HIDE DEF given
<1> QED
  BY <1>4, <1>5, <1>6

\* A device that comes takes a number that is no other's.
LEMMA ConnectKeeps ==
    ASSUME AccessInv, NEW d \in Access!Devices,
           Access!Connects(d)
    PROVE  AccessInv'
<1> USE DEF AccessInv, Access!Devices, Access!DualSenses
<1>1. PICK n \in Nat \ {0} :
          /\ node' = [node EXCEPT ![d] = n]
          /\ \A e \in Access!Devices : node[e] # n
  BY NodeGiven
<1>2. /\ node[d] = 0 /\ UNCHANGED <<early, stage, path, fd, todo, grabbed>>
      /\ inputs' = [inputs EXCEPT ![d] = IF early \/ d \in Others THEN 0
                                                               ELSE Inputs]
  BY DEF Access!Connects, Access!daemon
<1>3. /\ \A e \in Access!Devices : node'[e] = IF e = d THEN n ELSE node[e]
      /\ \A e \in Access!Devices \ {d} : inputs'[e] = inputs[e]
  BY <1>1, <1>2 DEF NodeInv
<1>4. NodeInv'
  <2>1. node' \in [Access!Devices -> Nat]
        /\ inputs' \in [Access!Devices -> 0 .. Inputs]
    BY <1>1, <1>2, AccessAssumption DEF NodeInv, Access!DiscoveryAssumption
  <2>2. \A e, f \in Access!Present' : node'[e] = node'[f] => e = f
    BY <1>1, <1>3 DEF NodeInv, Access!Present
  <2>3. ~early => \A e \in Bluetooth : node'[e] # 0 => inputs'[e] = Inputs
    BY <1>2, <1>3, AccessAssumption DEF NodeInv, Access!DiscoveryAssumption
  <2> QED
    BY <1>2, <2>1, <2>2, <2>3 DEF NodeInv
<1>5. fd # d
  BY <1>2 DEF HoldInv
<1>6. HoldInv'
  <2>1. \A i \in todo \cup grabbed :
            \E e \in Access!Present' : i \in Access!InputsOf(e)'
    BY <1>1, <1>2, <1>3 DEF HoldInv, Access!Present, Access!InputsOf
  <2> QED
    BY <1>2, <1>3, <1>5, <2>1 DEF HoldInv
<1>7. GrabInv'
  BY <1>2, <1>3, <1>5 DEF GrabInv, Access!InputsOf
<1> QED
  BY <1>4, <1>6, <1>7

\* One more input device of a controller is registered.
LEMMA RegisterKeeps ==
    ASSUME AccessInv, NEW d \in Access!Devices,
           Access!Registers(d)
    PROVE  AccessInv'
<1> USE DEF AccessInv, Access!Devices, Access!DualSenses
<1>1. /\ node[d] # 0 /\ inputs[d] < Inputs
      /\ inputs' = [inputs EXCEPT ![d] = inputs[d] + 1]
      /\ UNCHANGED <<early, node, stage, path, fd, todo, grabbed>>
  BY DEF Access!Registers, Access!daemon, Access!Present
<1>2. inputs[d] \in 0 .. Inputs /\ Inputs \in Nat
  BY AccessAssumption DEF NodeInv, Access!DiscoveryAssumption
<1>3. /\ inputs' \in [Access!Devices -> 0 .. Inputs]
      /\ \A e \in Access!Devices \ {d} : inputs'[e] = inputs[e]
      /\ inputs'[d] = inputs[d] + 1
  BY <1>1, <1>2 DEF NodeInv
<1>4. early \/ d \notin Bluetooth
  BY <1>1, <1>2 DEF NodeInv
<1>5. NodeInv'
  BY <1>1, <1>3, <1>4 DEF NodeInv, Access!Present
<1>6. HoldInv'
  <2>1. \A e \in Access!Devices : \A n \in 1 .. inputs[e] : n \in 1 .. inputs'[e]
    BY <1>2, <1>3 DEF NodeInv
  <2>2. \A i \in todo \cup grabbed :
            \E e \in Access!Present' : i \in Access!InputsOf(e)'
    BY <1>1, <2>1 DEF HoldInv, Access!Present, Access!InputsOf
  <2> QED
    BY <1>1, <2>2 DEF HoldInv
<1>7. GrabInv'
  BY <1>1, <1>3, <1>4 DEF GrabInv, Access!InputsOf
<1> QED
  BY <1>5, <1>6, <1>7

\* What is not open is no device.
LEMMA NotDevices ==
    /\ Access!None \notin Access!Devices /\ Access!Gone \notin Access!Devices
    /\ Access!None # Access!Gone
  BY AccessAssumption
  DEF Access!DiscoveryAssumption, Access!Devices, Access!DualSenses,
      Access!None, Access!Gone

\* A device that goes takes its number and its inputs with it.
LEMMA DisconnectKeeps ==
    ASSUME AccessInv, NEW d \in Access!Devices,
           Access!Disconnects(d)
    PROVE  AccessInv'
<1> USE DEF AccessInv, Access!Devices, Access!DualSenses
<1>1. /\ node' = [node EXCEPT ![d] = 0] /\ inputs' = [inputs EXCEPT ![d] = 0]
      /\ fd' = IF fd = d THEN Access!Gone ELSE fd
      /\ todo' = todo \ Access!InputsOf(d)
      /\ grabbed' = grabbed \ Access!InputsOf(d)
      /\ UNCHANGED <<early, stage, path>>
  BY DEF Access!Disconnects
<1>2. /\ \A e \in Access!Devices : node'[e] = IF e = d THEN 0 ELSE node[e]
      /\ \A e \in Access!Devices \ {d} : inputs'[e] = inputs[e]
      /\ Access!Present' = Access!Present \ {d}
  BY <1>1 DEF NodeInv, Access!Present
<1>3. NodeInv'
  <2>1. node' \in [Access!Devices -> Nat]
        /\ inputs' \in [Access!Devices -> 0 .. Inputs]
    BY <1>1, AccessAssumption DEF NodeInv, Access!DiscoveryAssumption
  <2>2. \A e, f \in Access!Present' : node'[e] = node'[f] => e = f
    <3>1. \A e \in Access!Present' : e \in Access!Present /\ node'[e] = node[e]
      BY <1>2 DEF Access!Present
    <3> QED
      BY <3>1 DEF NodeInv
  <2>3. ~early => \A e \in Bluetooth : node'[e] # 0 => inputs'[e] = Inputs
    BY <1>2 DEF NodeInv
  <2> QED
    BY <1>1, <2>1, <2>2, <2>3 DEF NodeInv
<1>4. \A e \in Access!Devices \ {d} :
          /\ Access!InputsOf(e)' = Access!InputsOf(e)
          /\ \A i \in Access!InputsOf(e) : i \notin Access!InputsOf(d)
  BY <1>2 DEF Access!InputsOf
<1>5. fd' \in Access!Devices => fd' = fd /\ fd # d
  BY <1>1, NotDevices
<1>6. HoldInv'
  <2>1. \A i \in todo' \cup grabbed' :
            \E e \in Access!Present' : i \in Access!InputsOf(e)'
    <3> TAKE i \in todo' \cup grabbed'
    <3>1. PICK e \in Access!Present : i \in Access!InputsOf(e)
      BY <1>1 DEF HoldInv
    <3>2. e # d /\ e \in Access!Devices
      BY <1>1, <3>1 DEF Access!Present
    <3> QED
      BY <1>2, <1>4, <3>1, <3>2
  <2>2. fd' \in Access!Devices => node'[fd'] = node[fd] /\ node[fd] # 0
    BY <1>2, <1>5 DEF HoldInv
  <2>3. stage \in {"search", "found", "exited"}
            => fd' = Access!None /\ grabbed' = {}
    BY <1>1, NotDevices DEF HoldInv
  <2>4. stage # "grabbing" => todo' = {}
    BY <1>1 DEF HoldInv
  <2>5. fd' \in Access!Devices \cup {Access!None, Access!Gone}
    BY <1>1 DEF HoldInv
  <2> QED
    BY <1>1, <1>5, <2>1, <2>2, <2>3, <2>4, <2>5 DEF HoldInv
<1>7. GrabInv'
  BY <1>1, <1>4, <1>5 DEF GrabInv
<1> QED
  BY <1>3, <1>6, <1>7

\* Where a step leaves the devices alone, their part of the invariant stays.
LEMMA SystemKeeps ==
    ASSUME NodeInv, UNCHANGED Access!system
    PROVE  /\ NodeInv' /\ Access!Present' = Access!Present
           /\ \A d : Access!InputsOf(d)' = Access!InputsOf(d)
           /\ UNCHANGED <<early, node, inputs>>
  BY DEF Access!system, NodeInv, Access!Present, Access!InputsOf

\* find_hidraw_device, and opening what it found.
LEMMA OpenKeeps ==
    ASSUME AccessInv, Access!Find \/ Access!Open
    PROVE  AccessInv'
<1> USE DEF AccessInv
<1>1. UNCHANGED Access!system
  BY DEF Access!Find, Access!Open
<1>2. CASE Access!Find
  <2>1. /\ stage = "search" /\ stage' = "found" /\ UNCHANGED <<fd, todo, grabbed>>
        /\ path' \in Nat
    BY <1>2 DEF Access!Find, Access!Present, NodeInv
  <2> QED
    BY <1>1, <2>1, SystemKeeps DEF HoldInv, GrabInv
<1>3. CASE Access!Open
  <2>1. stage = "found" /\ UNCHANGED <<path, todo, grabbed>>
    BY <1>3 DEF Access!Open
  <2>2. CASE stage' = "opened"
    <3>1. fd' \in Access!Devices /\ node[fd'] = path /\ node[fd'] # 0
      BY <1>3, <2>2 DEF Access!Open, Access!Present
    <3>2. grabbed = {} /\ todo = {}
      BY <2>1 DEF HoldInv
    <3>3. HoldInv'
      BY <1>1, <2>1, <2>2, <3>1, <3>2, SystemKeeps DEF HoldInv
    <3> QED
      BY <1>1, <2>2, <3>3, SystemKeeps DEF GrabInv
  <2>3. CASE stage' # "opened"
    <3>1. stage' = "search" /\ UNCHANGED fd
      BY <1>3, <2>3 DEF Access!Open
    <3>2. HoldInv'
      BY <1>1, <2>1, <3>1, SystemKeeps DEF HoldInv
    <3> QED
      BY <1>1, <3>1, <3>2, SystemKeeps DEF GrabInv
  <2> QED
    BY <2>2, <2>3
<1> QED
  BY <1>2, <1>3

\* What is open when the grabbing starts is there, so its inputs are among
\* those to come by.
LEMMA StartKeeps ==
    ASSUME AccessInv, Access!StartGrabbing
    PROVE  AccessInv'
<1> USE DEF AccessInv
<1>1. stage = "opened" /\ UNCHANGED <<Access!system, path, fd, grabbed>>
  BY DEF Access!StartGrabbing
<1>2. CASE \E d \in Access!Present : node[d] = path
  <2>1. /\ stage' = "grabbing"
        /\ todo' = UNION {Access!InputsOf(d) : d \in Access!Present}
    BY <1>2 DEF Access!StartGrabbing
  <2>2. \A i : i \in todo' <=> \E d \in Access!Present : i \in Access!InputsOf(d)
    BY <2>1
  <2>3. HoldInv'
    <3>1. \A i \in todo' \cup grabbed' :
              \E d \in Access!Present' : i \in Access!InputsOf(d)'
      BY <1>1, <2>2, SystemKeeps DEF HoldInv
    <3> QED
      BY <1>1, <2>1, <3>1, SystemKeeps DEF HoldInv
  <2>4. fd \in Access!Devices => fd \in Access!Present
    BY DEF HoldInv, Access!Present
  <2>5. GrabInv'
    <3> SUFFICES ASSUME fd \in Bluetooth, NEW i \in Access!InputsOf(fd)
                 PROVE  i \in todo'
      BY <1>1, <2>1, SystemKeeps DEF GrabInv
    <3>1. fd \in Access!Present
      BY <2>4 DEF Access!Devices, Access!DualSenses
    <3> QED
      BY <2>2, <3>1
  <2> QED
    BY <1>1, <2>3, <2>5, SystemKeeps
<1>3. CASE ~\E d \in Access!Present : node[d] = path
  <2>1. stage' = "up" /\ UNCHANGED todo
    BY <1>3 DEF Access!StartGrabbing
  <2>2. fd \notin Access!Devices
    BY <1>1, <1>3 DEF HoldInv, Access!Present
  <2>3. fd \notin Bluetooth
    BY <2>2 DEF Access!Devices, Access!DualSenses
  <2>4. HoldInv'
    BY <1>1, <2>1, <2>2, SystemKeeps DEF HoldInv
  <2> QED
    BY <1>1, <2>3, <2>4, SystemKeeps DEF GrabInv
<1> QED
  BY <1>2, <1>3

\* An input of the controller that is open is grabbed as it is come by, unless
\* another program has it.
LEMMA GrabKeeps ==
    ASSUME AccessInv, NEW d \in Access!Present,
           NEW i \in Access!InputsOf(d), Access!Grab(i)
    PROVE  AccessInv'
<1> USE DEF AccessInv
<1>1. /\ stage = "grabbing" /\ todo' = todo \ {i}
      /\ UNCHANGED <<Access!system, stage, path, fd>>
      /\ grabbed' \subseteq grabbed \cup {i} /\ grabbed \subseteq grabbed'
      /\ i[1] \in Bluetooth /\ i \notin Held => i \in grabbed'
  BY DEF Access!Grab, Access!Suppressed
<1>2. HoldInv'
  <2>1. \A j \in todo' \cup grabbed' :
            \E e \in Access!Present' : j \in Access!InputsOf(e)'
    <3>1. \A j \in todo' \cup grabbed' : j \in todo \cup grabbed \/ j = i
      BY <1>1
    <3> QED
      BY <1>1, <3>1, SystemKeeps DEF HoldInv
  <2> QED
    BY <1>1, <2>1, SystemKeeps DEF HoldInv
<1>3. GrabInv'
  <2> SUFFICES ASSUME ~early, fd \in Bluetooth, NEW j \in Access!InputsOf(fd)
               PROVE  j \in todo' \cup grabbed' \cup Held
    BY <1>1, SystemKeeps DEF GrabInv
  <2>1. j \in todo \cup grabbed \cup Held
    BY <1>1 DEF GrabInv
  <2>2. CASE j = i
    <3>1. i[1] = fd
      BY <2>2 DEF Access!InputsOf
    <3> QED
      BY <1>1, <2>2, <3>1
  <2>3. CASE j # i
    BY <1>1, <2>1, <2>3
  <2> QED
    BY <2>2, <2>3
<1> QED
  BY <1>1, <1>2, <1>3, SystemKeeps

\* The grabs are over, bt_deinit, and a new start.
LEMMA EndKeeps ==
    ASSUME AccessInv,
           Access!StopGrabbing \/ Access!Deinit \/ Access!Restart
    PROVE  AccessInv'
<1> USE DEF AccessInv
<1>1. UNCHANGED Access!system
  BY DEF Access!StopGrabbing, Access!Deinit, Access!Restart
<1>2. CASE Access!StopGrabbing
  BY <1>1, <1>2, SystemKeeps DEF Access!StopGrabbing, HoldInv, GrabInv
<1>3. CASE Access!Deinit
  <2>1. stage = "up" /\ stage' = "exited" /\ path' = 0 /\ grabbed' = {}
        /\ fd' = Access!None /\ UNCHANGED todo
    BY <1>3 DEF Access!Deinit
  <2>2. todo = {}
    BY <2>1 DEF HoldInv
  <2>3. HoldInv'
    BY <2>1, <2>2, NotDevices DEF HoldInv
  <2> QED
    BY <1>1, <2>1, <2>3, SystemKeeps DEF GrabInv
<1>4. CASE Access!Restart
  BY <1>1, <1>4, SystemKeeps DEF Access!Restart, HoldInv, GrabInv
<1> QED
  BY <1>2, <1>3, <1>4

\* Between any two steps of the daemon, devices come, register and go, and
\* what is open and grabbed stays accounted for.
LEMMA AccessKept == Access!Spec => []AccessInv
<1>1. Access!Init => AccessInv
  <2> SUFFICES ASSUME Access!Init PROVE AccessInv
    OBVIOUS
  <2>1. NodeInv
    BY AccessAssumption
    DEF Access!Init, NodeInv, Access!Present, Access!Devices,
        Access!DualSenses, Access!DiscoveryAssumption
  <2>2. HoldInv
    BY NotDevices DEF Access!Init, HoldInv
  <2>3. GrabInv
    BY DEF Access!Init, GrabInv
  <2> QED
    BY <2>1, <2>2, <2>3 DEF AccessInv
<1>2. AccessInv /\ [Access!Next]_Access!vars => AccessInv'
  <2> SUFFICES ASSUME AccessInv, [Access!Next]_Access!vars PROVE AccessInv'
    OBVIOUS
  <2>1. CASE Access!Next
    BY <2>1, ConnectKeeps, RegisterKeeps, DisconnectKeeps, OpenKeeps,
       StartKeeps, GrabKeeps, EndKeeps
       DEF Access!Next, Access!Daemon
  <2>2. CASE UNCHANGED Access!vars
    <3>1. UNCHANGED <<Access!system, stage, path, fd, todo, grabbed>>
      BY <2>2 DEF Access!vars, Access!daemon
    <3> QED
      BY <3>1, SystemKeeps DEF AccessInv, HoldInv, GrabInv
  <2> QED
    BY <2>1, <2>2
<1> QED
  BY <1>1, <1>2, PTL DEF Access!Spec

\* Nothing is open or grabbed between two runs of the daemon, what it has
\* grabbed is there, and no two devices have the same hidraw number, for all
\* devices that could ever be connected.
THEOREM AccessTypes == Access!Spec => []Access!TypeOK
<1>1. AccessInv => Access!TypeOK
  <2> SUFFICES ASSUME AccessInv PROVE Access!TypeOK
    OBVIOUS
  <2>1. todo \cup grabbed
            \subseteq UNION {Access!InputsOf(d) : d \in Access!Present}
    BY DEF AccessInv, HoldInv
  <2>2. \A d \in Access!Devices : node[d] \in Nat /\ inputs[d] \in 0 .. Inputs
    BY DEF AccessInv, NodeInv
  <2> QED
    BY <2>1, <2>2 DEF AccessInv, NodeInv, HoldInv, Access!TypeOK
<1> QED
  BY <1>1, AccessKept, PTL

\* While the daemon passes on the input of a controller, grab_evdev_devices has
\* kept each input device of it from the system, but for those another program
\* has, whatever was connected, renumbered or removed meanwhile; if it does not
\* look while a driver is still probing.
THEOREM NoDoubles == Access!Spec => []NoDoubleInput
<1>1. AccessInv => NoDoubleInput
  BY DEF AccessInv, GrabInv, NoDoubleInput, Access!NoDoubleInput
<1> QED
  BY <1>1, AccessKept, PTL
-----------------------------------------------------------------------------
(* GadgetScripts: what has been made and removed where a script is.        *)

Runners == Users \cup {"daemon"}

\* What is left of a script from step i on.
From(script, i) == SubSeq(script, i, Len(script))

\* A script is about to take step i; up to the 14th they are those of teardown.
Stage(q, i) ==
    \/ i \in 1 .. 14 /\ q = From(Scripts!Teardown, i)
    \/ i \in 1 .. 33 /\ q = From(Scripts!SetUp, i)

\* The steps at which directories are removed and made, and links.
Removed  == [cfgstrings |-> 5, config |-> 6, ffs |-> 7, uac1 |-> 8,
             strings |-> 9, gadget |-> 10]
Made     == [gadget |-> 17, strings |-> 19, config |-> 21, cfgstrings |-> 23,
             uac1 |-> 25, ffs |-> 28]
Unlinked == [ffs |-> 3, uac1 |-> 4]
Linked   == [uac1 |-> 27, ffs |-> 29]

Wanted(d) == d = "uac1" => real

\* Before step i of a script that runs alone: what it has removed is gone until
\* it has made it, and what it has made is there.
DirsAt(i) ==
    \A d \in Scripts!Dirs :
        /\ d \in dirs => i <= Removed[d] \/ (i > Made[d] /\ Wanted(d))
        /\ i > Made[d] /\ Wanted(d) => d \in dirs

WrittenAt(i) ==
    \A d \in Scripts!Dirs \ {"ffs"} : i > Made[d] + 1 /\ d \in dirs => d \in written

LinksAt(i) ==
    \A f \in Scripts!Functions :
        /\ f \in links => i <= Unlinked[f] \/ (i > Linked[f] /\ Wanted(f))
        /\ i > Linked[f] /\ Wanted(f) => f \in links

RestAt(i) ==
    /\ i \in 3 .. 30 => mounted = "none"
    /\ i > 30 => mounted = "current"
    /\ i \in 8 .. 30 => ep0 # "current"
    /\ i > 7 => "ffs" \notin written
    /\ i > 12 => dummy
    /\ i \in 14 .. 32 => flag = "none"
    /\ i > 32 => flag = (IF real THEN "1" ELSE "0")

Reached(i) == DirsAt(i) /\ WrittenAt(i) /\ LinksAt(i) /\ RestAt(i)

\* What ConfigFS ensures, and that the gadget is bound only while the daemon
\* has its endpoints open.
TreeInv ==
    /\ dirs \subseteq Scripts!Dirs /\ written \subseteq dirs
    /\ \A d \in dirs : Scripts!Parent[d] \in dirs \cup {"root"}
    /\ links \subseteq Scripts!Functions
    /\ \A f \in links : f \in dirs /\ "config" \in dirs
    /\ mounted \in Scripts!Instance /\ ep0 \in Scripts!Instance
    /\ mounted = "current" \/ ep0 = "current" => "ffs" \in dirs
    /\ dummy \in BOOLEAN /\ udc \in {"none", "dummy"}
    /\ udc # "none" => "ffs" \in links /\ ep0 = "current" /\ dummy

\* The flag promises no UAC1 that this boot does not have.
Told == flag = "1" => real

\* It does not once the gadget is mounted, so what a daemon read of UAC1 then is
\* so, and UAC1 is in the configuration.
FlagInv ==
    /\ real \in BOOLEAN /\ uac1 \in BOOLEAN /\ flag \in {"none", "0", "1"}
    /\ mounted = "current" => Told
    /\ daemon = "checked" /\ uac1 => real
    /\ orderly /\ mounted = "current" /\ real => "uac1" \in links

\* One script at a time, and what it comes to is still to be said.
AloneInv ==
    /\ outcome \in {"none", "complete", "failed"}
    /\ alone \in BOOLEAN /\ orderly \in BOOLEAN
    /\ orderly => alone
    /\ alone => \A q, r \in Runners : to_run[q] # <<>> /\ to_run[r] # <<>> => q = r
    /\ alone /\ outcome # "none" => \A r \in Runners : to_run[r] = <<>>

\* A script is at one of its steps, and has come that far if it runs alone; it
\* has removed the flag of another boot even if it does not.
Placed(r) ==
    \/ to_run[r] = <<>>
    \/ \E i \in 1 .. 33 : /\ Stage(to_run[r], i) /\ (alone => Reached(i))
                          /\ i > 13 => Told

PlaceInv ==
    to_run = [r \in Runners |-> to_run[r]] /\ \A r \in Runners : Placed(r)

GadgetInv == TreeInv /\ FlagInv /\ AloneInv /\ PlaceInv /\ SetUpComplete

-----------------------------------------------------------------------------
(* GadgetScripts: the steps of the scripts.                                *)

\* The directories of the gadget.
LEMMA DirsAre ==
    Scripts!Dirs = {"gadget", "strings", "config", "cfgstrings", "uac1", "ffs"}
  BY DEF Scripts!Dirs, Scripts!Parent

\* A step of a script can be its i-th.
Place(step, i) ==
    /\ step[1] = "Unbind" => i = 1
    /\ step[1] = "Umount" => i = 2
    /\ step[1] = "Unlink" => step[2] \in Scripts!Functions /\ Unlinked[step[2]] = i
    /\ step[1] = "Rmdir" => step[2] \in Scripts!Dirs /\ Removed[step[2]] = i
    /\ step[1] = "Unload" => i = 11
    /\ step[1] = "Load" => i \in {12, 15}
    /\ step[1] = "RmFlag" => i = 13
    /\ step[1] = "Report" => i = 14
    /\ step[1] = "Detect" => i = 16
    /\ step[1] = "Mkdir" => step[2] \in Scripts!Dirs /\ Made[step[2]] = i
    /\ step[1] = "Write" => step[2] \in Scripts!Dirs \ {"ffs"} /\ Made[step[2]] + 1 = i
    /\ step[1] = "Link" => step[2] \in Scripts!Functions /\ Linked[step[2]] = i
    /\ step[1] = "Mount" => i = 30
    /\ step[1] = "Verify" => i = 31
    /\ step[1] = "WriteFlag" => i = 32
    /\ step[1] = "Ready" => i = 33

\* Each step of teardown is in its place.
LEMMA PlaceInTeardown ==
    ASSUME NEW i \in 1 .. 14
    PROVE  Place(Scripts!Teardown[i], i)
<1>1. /\ Place(<<"Unlink", "ffs">>, 3) /\ Place(<<"Unlink", "uac1">>, 4)
      /\ Place(<<"Rmdir", "cfgstrings">>, 5) /\ Place(<<"Rmdir", "config">>, 6)
      /\ Place(<<"Rmdir", "ffs">>, 7) /\ Place(<<"Rmdir", "uac1">>, 8)
      /\ Place(<<"Rmdir", "strings">>, 9) /\ Place(<<"Rmdir", "gadget">>, 10)
  BY DirsAre DEF Place, Scripts!Functions, Unlinked, Removed
<1>2. /\ Place(<<"Unbind", "">>, 1) /\ Place(<<"Umount", "">>, 2)
      /\ Place(<<"Unload", "">>, 11) /\ Place(<<"Load", "">>, 12)
      /\ Place(<<"RmFlag", "">>, 13) /\ Place(<<"Report", "">>, 14)
  BY DEF Place
<1>3. \/ i = 1 \/ i = 2 \/ i = 3 \/ i = 4 \/ i = 5 \/ i = 6 \/ i = 7
      \/ i = 8 \/ i = 9 \/ i = 10 \/ i = 11 \/ i = 12 \/ i = 13 \/ i = 14
  OBVIOUS
<1> HIDE DEF Place
<1>4. /\ Place(Scripts!Teardown[1], 1)
      /\ Place(Scripts!Teardown[2], 2)
      /\ Place(Scripts!Teardown[3], 3)
      /\ Place(Scripts!Teardown[4], 4)
      /\ Place(Scripts!Teardown[5], 5)
      /\ Place(Scripts!Teardown[6], 6)
      /\ Place(Scripts!Teardown[7], 7)
      /\ Place(Scripts!Teardown[8], 8)
      /\ Place(Scripts!Teardown[9], 9)
      /\ Place(Scripts!Teardown[10], 10)
      /\ Place(Scripts!Teardown[11], 11)
      /\ Place(Scripts!Teardown[12], 12)
      /\ Place(Scripts!Teardown[13], 13)
      /\ Place(Scripts!Teardown[14], 14)
  BY <1>1, <1>2 DEF Scripts!Teardown
<1> QED
  BY <1>3, <1>4

\* So is each that set-up adds, after the fourteen of teardown.
LEMMA PlaceInBuild ==
    ASSUME NEW i \in 1 .. 19
    PROVE  Place(Scripts!Build[i], i + 14)
<1>1. /\ Place(<<"Mkdir", "gadget">>, 17) /\ Place(<<"Write", "gadget">>, 18)
      /\ Place(<<"Mkdir", "strings">>, 19) /\ Place(<<"Write", "strings">>, 20)
      /\ Place(<<"Mkdir", "config">>, 21) /\ Place(<<"Write", "config">>, 22)
      /\ Place(<<"Mkdir", "cfgstrings">>, 23) /\ Place(<<"Write", "cfgstrings">>, 24)
      /\ Place(<<"Mkdir", "uac1">>, 25) /\ Place(<<"Write", "uac1">>, 26)
      /\ Place(<<"Link", "uac1">>, 27)
      /\ Place(<<"Mkdir", "ffs">>, 28) /\ Place(<<"Link", "ffs">>, 29)
  BY DirsAre DEF Place, Scripts!Functions, Linked, Made
<1>2. /\ Place(<<"Load", "">>, 15) /\ Place(<<"Detect", "">>, 16)
      /\ Place(<<"Mount", "">>, 30) /\ Place(<<"Verify", "">>, 31)
      /\ Place(<<"WriteFlag", "">>, 32) /\ Place(<<"Ready", "">>, 33)
  BY DEF Place
<1>3. \/ i = 1 \/ i = 2 \/ i = 3 \/ i = 4 \/ i = 5 \/ i = 6 \/ i = 7
      \/ i = 8 \/ i = 9 \/ i = 10 \/ i = 11 \/ i = 12 \/ i = 13 \/ i = 14
      \/ i = 15 \/ i = 16 \/ i = 17 \/ i = 18 \/ i = 19
  OBVIOUS
<1> HIDE DEF Place
<1>4. /\ Place(Scripts!Build[1], 15)
      /\ Place(Scripts!Build[2], 16)
      /\ Place(Scripts!Build[3], 17)
      /\ Place(Scripts!Build[4], 18)
      /\ Place(Scripts!Build[5], 19)
      /\ Place(Scripts!Build[6], 20)
      /\ Place(Scripts!Build[7], 21)
      /\ Place(Scripts!Build[8], 22)
      /\ Place(Scripts!Build[9], 23)
      /\ Place(Scripts!Build[10], 24)
      /\ Place(Scripts!Build[11], 25)
      /\ Place(Scripts!Build[12], 26)
      /\ Place(Scripts!Build[13], 27)
      /\ Place(Scripts!Build[14], 28)
      /\ Place(Scripts!Build[15], 29)
      /\ Place(Scripts!Build[16], 30)
      /\ Place(Scripts!Build[17], 31)
      /\ Place(Scripts!Build[18], 32)
      /\ Place(Scripts!Build[19], 33)
  BY <1>1, <1>2 DEF Scripts!Build
<1> QED
  BY <1>3, <1>4

\* What the scripts are sequences of.
ScriptSteps ==
    {Scripts!Teardown[i] : i \in 1 .. 14} \cup {Scripts!Build[i] : i \in 1 .. 19}

\* A function on 1 .. n is a sequence.
LEMMA FunctionIsSeq ==
    ASSUME NEW S, NEW n \in Nat, NEW f \in [1 .. n -> S]
    PROVE  f \in Seq(S) /\ Len(f) = n
  OBVIOUS

\* Teardown has fourteen steps,
LEMMA TeardownSeq ==
    Scripts!Teardown \in Seq(ScriptSteps) /\ Len(Scripts!Teardown) = 14
<1>1. Scripts!Teardown = [i \in 1 .. 14 |-> Scripts!Teardown[i]]
  BY DEF Scripts!Teardown
<1>2. Scripts!Teardown \in [1 .. 14 -> ScriptSteps]
  BY <1>1 DEF ScriptSteps
<1> QED
  BY <1>2, FunctionIsSeq

\* set-up has nineteen of its own,
LEMMA BuildSeq ==
    Scripts!Build \in Seq(ScriptSteps) /\ Len(Scripts!Build) = 19
<1>1. Scripts!Build = [i \in 1 .. 19 |-> Scripts!Build[i]]
  BY DEF Scripts!Build
<1>2. Scripts!Build \in [1 .. 19 -> ScriptSteps]
  BY <1>1 DEF ScriptSteps
<1> QED
  BY <1>2, FunctionIsSeq

\* and takes them after those of teardown.
LEMMA SetUpSeq ==
   /\ Scripts!SetUp \in Seq(ScriptSteps) /\ Len(Scripts!SetUp) = 33
   /\ \A i \in 1 .. 33 : Scripts!SetUp[i] = IF i <= 14 THEN Scripts!Teardown[i]
                                            ELSE Scripts!Build[i - 14]
<1> DEFINE t == Scripts!Teardown
           b == Scripts!Build
<1>1. Scripts!SetUp = t \o b
  BY DEF Scripts!SetUp
<1>2. t \in Seq(ScriptSteps) /\ Len(t) = 14 /\ b \in Seq(ScriptSteps) /\ Len(b) = 19
  BY TeardownSeq, BuildSeq
<1> HIDE DEF t, b
<1> DEFINE c == t \o b
<1>3. /\ c \in Seq(ScriptSteps) /\ Len(c) = Len(t) + Len(b)
      /\ \A i \in 1 .. Len(t) + Len(b) :
             c[i] = IF i <= Len(t) THEN t[i] ELSE b[i - Len(t)]
  BY <1>2, ConcatProperties
<1> HIDE DEF c
<1>4. /\ Len(c) = 33
      /\ \A i \in 1 .. 33 : c[i] = IF i <= 14 THEN t[i] ELSE b[i - 14]
  BY <1>2, <1>3
<1> QED
  BY <1>1, <1>3, <1>4 DEF t, b, c

\* The first fourteen steps of set-up are those of teardown, and each step is
\* in its place.
LEMMA PlaceInSetUp ==
    /\ \A i \in 1 .. 33 : Place(Scripts!SetUp[i], i)
    /\ \A i \in 1 .. 14 : Scripts!Teardown[i] = Scripts!SetUp[i]
<1>1. \A i \in 15 .. 33 : i - 14 \in 1 .. 19 /\ (i - 14) + 14 = i
  OBVIOUS
<1>2. \A i \in 15 .. 33 : Place(Scripts!Build[i - 14], i)
  BY <1>1, PlaceInBuild
<1>3. \A i \in 1 .. 33 : i \in 1 .. 14 \/ (i \in 15 .. 33 /\ ~(i <= 14))
  OBVIOUS
<1>4. /\ \A i \in 1 .. 14 : Scripts!SetUp[i] = Scripts!Teardown[i]
      /\ \A i \in 15 .. 33 : Scripts!SetUp[i] = Scripts!Build[i - 14]
  BY SetUpSeq
<1> QED
  BY <1>2, <1>3, <1>4, PlaceInTeardown

\* What is left of a sequence from one place on.
LEMMA FromStep ==
    ASSUME NEW S, NEW s \in Seq(S), NEW i \in 1 .. Len(s)
    PROVE  /\ From(s, i) # <<>> /\ Head(From(s, i)) = s[i]
           /\ Tail(From(s, i)) = IF i = Len(s) THEN <<>> ELSE From(s, i + 1)
<1>1. /\ Len(s) \in Nat /\ i \in Int /\ i <= Len(s)
      /\ Len(s) \in i .. Len(s)
  OBVIOUS
<1>2. Head(From(s, i)) = s[i] /\ Tail(From(s, i)) = SubSeq(s, i + 1, Len(s))
  BY <1>1, HeadTailOfSubSeq DEF From
<1>3. From(s, i) # <<>>
  <2>1. \A k \in i .. Len(s) : s[k] \in S
    BY <1>1
  <2>2. Len(SubSeq(s, i, Len(s))) = Len(s) - i + 1
    BY <1>1, <2>1, SubSeqProperties
  <2>3. Len(SubSeq(s, i, Len(s))) # 0
    BY <1>1, <2>2
  <2>4. Len(<<>>) = 0
    OBVIOUS
  <2> QED
    BY <2>3, <2>4 DEF From
<1>4. i = Len(s) => SubSeq(s, i + 1, Len(s)) = <<>>
  <2> SUFFICES ASSUME i = Len(s) PROVE SubSeq(s, i + 1, Len(s)) = <<>>
    OBVIOUS
  <2>1. i + 1 \in Int /\ Len(s) \in Int /\ Len(s) < i + 1
    BY <1>1
  <2> QED
    BY <2>1, SubSeqEmpty
<1> QED
  BY <1>2, <1>3, <1>4 DEF From

\* A script that is to take step i takes it, and is to take the next one then.
LEMMA StageStep ==
    ASSUME NEW q, NEW i, Stage(q, i)
    PROVE  /\ i \in 1 .. 33 /\ q # <<>> /\ Head(q) = Scripts!SetUp[i]
           /\ Place(Head(q), i)
           /\ Tail(q) = <<>> \/ (i < 33 /\ Stage(Tail(q), i + 1))
<1>1. /\ Scripts!Teardown \in Seq(ScriptSteps) /\ Len(Scripts!Teardown) = 14
      /\ Scripts!SetUp \in Seq(ScriptSteps) /\ Len(Scripts!SetUp) = 33
  BY TeardownSeq, SetUpSeq
<1>2. CASE i \in 1 .. 14 /\ q = From(Scripts!Teardown, i)
  <2>1. /\ q # <<>> /\ Head(q) = Scripts!Teardown[i]
        /\ Tail(q) = IF i = 14 THEN <<>> ELSE From(Scripts!Teardown, i + 1)
    <3> DEFINE s == Scripts!Teardown
    <3>1. s \in Seq(ScriptSteps) /\ Len(s) = 14 /\ i \in 1 .. Len(s) /\ q = From(s, i)
      BY <1>1, <1>2
    <3> HIDE DEF s
    <3>2. /\ From(s, i) # <<>> /\ Head(From(s, i)) = s[i]
          /\ Tail(From(s, i)) = IF i = Len(s) THEN <<>> ELSE From(s, i + 1)
      BY <3>1, FromStep
    <3> QED
      BY <3>1, <3>2 DEF s
  <2>2. i # 14 => i + 1 \in 1 .. 14 /\ i < 33
    BY <1>2
  <2>3. i \in 1 .. 33 /\ Head(q) = Scripts!SetUp[i] /\ Place(Head(q), i)
    <3>1. i \in 1 .. 33
      BY <1>2
    <3>2. Scripts!Teardown[i] = Scripts!SetUp[i] /\ Place(Scripts!SetUp[i], i)
      BY <1>2, <3>1, PlaceInSetUp
    <3> QED
      BY <2>1, <3>1, <3>2
  <2>4. Tail(q) = <<>> \/ (i < 33 /\ Stage(Tail(q), i + 1))
    BY <2>1, <2>2 DEF Stage
  <2> QED
    BY <2>1, <2>3, <2>4
<1>3. CASE i \in 1 .. 33 /\ q = From(Scripts!SetUp, i)
  <2>1. /\ q # <<>> /\ Head(q) = Scripts!SetUp[i]
        /\ Tail(q) = IF i = 33 THEN <<>> ELSE From(Scripts!SetUp, i + 1)
    <3> DEFINE s == Scripts!SetUp
    <3>1. s \in Seq(ScriptSteps) /\ Len(s) = 33 /\ i \in 1 .. Len(s) /\ q = From(s, i)
      BY <1>1, <1>3
    <3> HIDE DEF s
    <3>2. /\ From(s, i) # <<>> /\ Head(From(s, i)) = s[i]
          /\ Tail(From(s, i)) = IF i = Len(s) THEN <<>> ELSE From(s, i + 1)
      BY <3>1, FromStep
    <3> QED
      BY <3>1, <3>2 DEF s
  <2>2. i # 33 => i + 1 \in 1 .. 33 /\ i < 33
    BY <1>3
  <2> QED
    BY <1>3, <2>1, <2>2, PlaceInSetUp DEF Stage
<1> QED
  BY <1>2, <1>3 DEF Stage

\* A script begins with its first step.
LEMMA StageStart ==
    Stage(Scripts!Teardown, 1) /\ Stage(Scripts!SetUp, 1)
  BY TeardownSeq, SetUpSeq, SubSeqFull DEF Stage, From

-----------------------------------------------------------------------------
(* GadgetScripts: the tree in ConfigFS. *)

\* A script that has something to do is somewhere.
LEMMA Somewhere ==
    ASSUME PlaceInv, NEW r \in DOMAIN to_run, to_run[r] # <<>>
    PROVE  /\ r \in Runners
           /\ \E i \in 1 .. 33 :
                  /\ Stage(to_run[r], i) /\ (alone => Reached(i))
                  /\ i > 13 => Told
                  /\ Place(Head(to_run[r]), i)
<1>1. r \in Runners /\ Placed(r)
  BY DEF PlaceInv
<1>2. PICK i \in 1 .. 33 : /\ Stage(to_run[r], i) /\ (alone => Reached(i))
                           /\ i > 13 => Told
  BY <1>1, Zenon DEF Placed
<1>3. Stage(to_run[r], i)
  BY <1>2
<1>4. Place(Head(to_run[r]), i)
  BY <1>3, StageStep
<1> QED
  BY <1>1, <1>2, <1>4, Zenon

\* rmdir leaves the tree as ConfigFS has it, and no bound gadget without ep0.
LEMMA TreeRemove ==
    ASSUME TreeInv, NEW d \in Scripts!Dirs, Scripts!RemoveDir(d),
           UNCHANGED <<links, udc, dummy>>
    PROVE  TreeInv'
<1> USE DEF TreeInv
<1>1. CASE d \in dirs /\ Scripts!Removable(d)
  <2>1. /\ dirs' = dirs \ {d} /\ written' = written \cap dirs'
        /\ mounted' = IF d = "ffs" THEN Scripts!Stale(mounted) ELSE mounted
        /\ ep0' = IF d = "ffs" THEN Scripts!Stale(ep0) ELSE ep0
    BY <1>1 DEF Scripts!RemoveDir
  <2>2. /\ \A e \in dirs : Scripts!Parent[e] # d
        /\ d = "config" => links = {}
        /\ d \notin links
    BY <1>1 DEF Scripts!Removable
  <2>3. mounted' = "current" \/ ep0' = "current" => "ffs" \in dirs'
    BY <2>1 DEF Scripts!Stale
  <2>4. mounted' \in Scripts!Instance /\ ep0' \in Scripts!Instance
    BY <2>1 DEF Scripts!Stale, Scripts!Instance
  <2>5. udc' # "none" => ep0' = "current"
    BY <2>1, <2>2
  <2>6. \A f \in links' : f \in dirs' /\ "config" \in dirs'
    BY <2>1, <2>2
  <2>7. \A e \in dirs' : Scripts!Parent[e] \in dirs' \cup {"root"}
    BY <2>1, <2>2
  <2> QED
    BY <2>1, <2>3, <2>4, <2>5, <2>6, <2>7
<1>2. CASE ~(d \in dirs /\ Scripts!Removable(d))
  <2>1. UNCHANGED <<dirs, mounted, ep0>> /\ written' = written \cap dirs'
    BY <1>2 DEF Scripts!RemoveDir
  <2> QED
    BY <2>1
<1> QED
  BY <1>1, <1>2

\* So does every step of a script, run alone or not.
LEMMA TreeScript ==
    ASSUME TreeInv, PlaceInv, NEW r \in DOMAIN to_run, Scripts!Step(r)
    PROVE  TreeInv'
<1> DEFINE d == Scripts!On(r)
<1>1. to_run[r] # <<>>
  BY DEF Scripts!Step, Scripts!At, Scripts!Unbind, Scripts!Umount,
         Scripts!Unlink, Scripts!Rmdir, Scripts!Unload, Scripts!Load,
         Scripts!RmFlag, Scripts!Report, Scripts!Detect, Scripts!Mkdir,
         Scripts!Write, Scripts!Link, Scripts!Mount, Scripts!Verify,
         Scripts!WriteFlag, Scripts!Ready
<1>2. PICK i \in 1 .. 33 : Place(Head(to_run[r]), i)
  BY <1>1, Somewhere
<1>3. CASE Scripts!Rmdir(r)
  <2>1. d \in Scripts!Dirs
    BY <1>2, <1>3 DEF Scripts!Rmdir, Scripts!At, Place, Scripts!On
  <2> QED
    BY <1>3, <2>1, TreeRemove DEF Scripts!Rmdir, Scripts!host
<1>4. CASE Scripts!Report(r)
  BY <1>4, TreeRemove, DirsAre DEF Scripts!Report, Scripts!host
<1>5. CASE Scripts!Unlink(r)
  BY <1>5 DEF Scripts!Unlink, Scripts!host, Scripts!process, TreeInv
<1>6. CASE Scripts!Mkdir(r)
  <2>1. d \in Scripts!Dirs
    BY <1>2, <1>6 DEF Scripts!Mkdir, Scripts!At, Place, Scripts!On
  <2>2. /\ UNCHANGED <<written, links, mounted, udc, dummy, ep0>>
        /\ dirs \subseteq dirs' /\ dirs' \subseteq Scripts!Dirs
    BY <1>6, <2>1 DEF Scripts!Mkdir, Scripts!host, Scripts!process, TreeInv
  <2>3. ASSUME NEW e \in dirs' PROVE Scripts!Parent[e] \in dirs' \cup {"root"}
    <3>1. CASE e \in dirs
      BY <2>2, <3>1 DEF TreeInv
    <3>2. CASE e \notin dirs
      <4>1. /\ dirs' = dirs \cup ({d, Scripts!Parent[d], "gadget"} \cap Scripts!Dirs)
            /\ e \in {d, Scripts!Parent[d], "gadget"} /\ e \in Scripts!Dirs
        BY <1>6, <3>2 DEF Scripts!Mkdir
      <4>2. /\ Scripts!Parent[d] \in Scripts!Dirs \cup {"root"}
            /\ Scripts!Parent[Scripts!Parent[d]] \in {"gadget", "root"}
                  \/ Scripts!Parent[d] = "root"
            /\ Scripts!Parent["gadget"] = "root" /\ "gadget" \in Scripts!Dirs
            /\ "root" \notin Scripts!Dirs
        BY <2>1, DirsAre DEF Scripts!Parent
      <4> QED
        BY <2>1, <4>1, <4>2
    <3> QED
      BY <3>1, <3>2
  <2> QED
    BY <2>2, <2>3 DEF TreeInv
<1>7. CASE Scripts!Write(r)
  <2>1. /\ UNCHANGED <<dirs, links, mounted, udc, dummy, ep0>>
        /\ written' \subseteq dirs
    BY <1>7 DEF Scripts!Write, Scripts!host, Scripts!process, TreeInv
  <2> QED
    BY <2>1 DEF TreeInv
<1>8. CASE Scripts!Link(r)
  <2>1. d \in Scripts!Functions
    BY <1>2, <1>8 DEF Scripts!Link, Scripts!At, Place, Scripts!On
  <2>2. /\ UNCHANGED <<dirs, written, mounted, udc, dummy, ep0>>
        /\ \/ links' = links
           \/ links' = links \cup {d} /\ {d, "config"} \subseteq dirs
    BY <1>8 DEF Scripts!Link, Scripts!host, Scripts!process
  <2> QED
    BY <2>1, <2>2 DEF TreeInv
<1>9. CASE Scripts!Mount(r)
  BY <1>9 DEF Scripts!Mount, Scripts!host, Scripts!process, TreeInv, Scripts!Instance
<1>10. CASE \/ Scripts!Unbind(r) \/ Scripts!Umount(r) \/ Scripts!Unload(r)
            \/ Scripts!Load(r) \/ Scripts!RmFlag(r) \/ Scripts!Detect(r)
            \/ Scripts!Verify(r) \/ Scripts!WriteFlag(r) \/ Scripts!Ready(r)
  BY <1>10
  DEF Scripts!Unbind, Scripts!Umount, Scripts!Unload, Scripts!Load,
      Scripts!RmFlag, Scripts!Detect, Scripts!Verify, Scripts!WriteFlag,
      Scripts!Ready, Scripts!host, Scripts!tree, Scripts!process, TreeInv,
      Scripts!Instance
<1> QED
  BY <1>3, <1>4, <1>5, <1>6, <1>7, <1>8, <1>9, <1>10 DEF Scripts!Step

\* So does every step of the system.
LEMMA TreeStep ==
    ASSUME TreeInv, PlaceInv, [Scripts!Next]_Scripts!vars
    PROVE  TreeInv'
<1>1. CASE \E r \in DOMAIN to_run : Scripts!Step(r)
  BY <1>1, TreeScript
<1>2. CASE \/ \E r \in DOMAIN to_run : Scripts!Interrupt(r)
           \/ Scripts!User \/ Scripts!CheckFlag \/ Scripts!Exit
           \/ UNCHANGED Scripts!vars
  <2>1. UNCHANGED <<dirs, written, links, mounted, ep0, udc, dummy>>
    BY <1>2 DEF Scripts!Interrupt, Scripts!User, Scripts!CheckFlag,
                Scripts!Exit, Scripts!vars, Scripts!tree, Scripts!host,
                Scripts!process
  <2> QED
    BY <2>1 DEF TreeInv
<1>3. CASE Scripts!Reboot
  BY <1>3 DEF Scripts!Reboot, TreeInv, Scripts!Instance
<1>4. CASE Scripts!OpenEp0
  BY <1>4 DEF Scripts!OpenEp0, TreeInv, Scripts!tree, Scripts!host
<1>5. CASE Scripts!UnbindUdc
  BY <1>5 DEF Scripts!UnbindUdc, TreeInv, Scripts!host
<1>6. CASE Scripts!CloseFds \/ Scripts!Kill
  BY <1>6 DEF Scripts!CloseFds, Scripts!Kill, Scripts!Close, TreeInv, Scripts!host, Scripts!Instance
<1>7. CASE Scripts!BindUdc
  BY <1>7 DEF Scripts!BindUdc, Scripts!Close, TreeInv, Scripts!host, Scripts!Instance
<1> QED
  BY <1>1, <1>2, <1>3, <1>4, <1>5, <1>6, <1>7 DEF Scripts!Next
-----------------------------------------------------------------------------
(* GadgetScripts: who runs a script. *)

\* What the steps of a script have in common.
LEMMA ScriptAdvances ==
    ASSUME NEW r \in DOMAIN to_run, Scripts!Step(r)
    PROVE  /\ to_run[r] # <<>>
           /\ alone' = alone
           /\ orderly' = orderly \/ (Scripts!Report(r) /\ orderly' = (orderly \/ alone))
           /\ \/ Scripts!Continue(r)
              \/ Scripts!Fail(r)
              \/ /\ Scripts!Ready(r)
                 /\ to_run' = [to_run EXCEPT ![r] = <<>>] /\ outcome' = "complete"
  BY DEF Scripts!Step, Scripts!At, Scripts!Unbind, Scripts!Umount,
         Scripts!Unlink, Scripts!Rmdir, Scripts!Unload, Scripts!Load,
         Scripts!RmFlag, Scripts!Report, Scripts!Detect, Scripts!Mkdir,
         Scripts!Write, Scripts!Link, Scripts!Mount, Scripts!Verify,
         Scripts!WriteFlag, Scripts!Ready, Scripts!run

\* Those who run no script afterwards did not before, but for one who starts.
LEMMA AloneRun ==
    ASSUME AloneInv, PlaceInv, NEW r \in DOMAIN to_run, NEW script,
           Scripts!Run(r, script)
    PROVE  AloneInv'
<1>1. /\ to_run' = [to_run EXCEPT ![r] = script] /\ outcome' = "none"
      /\ alone' = \A q \in DOMAIN to_run \ {r} : to_run[q] = <<>>
      /\ orderly' = (orderly /\ alone')
  BY DEF Scripts!Run
<1>2. DOMAIN to_run = Runners
  BY DEF PlaceInv
<1>3. \A q \in Runners \ {r} : to_run'[q] = to_run[q]
  BY <1>1, <1>2
<1>4. alone' \in BOOLEAN /\ orderly' \in BOOLEAN /\ (orderly' => alone')
  BY <1>1
<1>5. alone' => \A q \in Runners : to_run'[q] # <<>> => q = r
  BY <1>1, <1>2, <1>3
<1> QED
  BY <1>1, <1>4, <1>5 DEF AloneInv

\* Whoever runs a script alone still does, and is not done with it.
LEMMA AloneStep ==
    ASSUME AloneInv, PlaceInv, [Scripts!Next]_Scripts!vars
    PROVE  AloneInv'
<1>0. DOMAIN to_run = Runners
  BY DEF PlaceInv
<1>1. CASE \E r \in DOMAIN to_run : Scripts!Step(r)
  <2>1. PICK r \in DOMAIN to_run : Scripts!Step(r)
    BY <1>1
  <2>2. /\ to_run[r] # <<>> /\ alone' = alone /\ orderly' \in BOOLEAN
        /\ orderly' => orderly \/ alone
    BY <2>1, ScriptAdvances DEF AloneInv
  <2>3. alone => outcome = "none" /\ \A q \in Runners \ {r} : to_run[q] = <<>>
    BY <1>0, <2>2 DEF AloneInv
  <2>4. CASE Scripts!Continue(r)
    <3>1. /\ outcome' = outcome
          /\ \A q \in Runners \ {r} : to_run'[q] = to_run[q]
      BY <1>0, <2>4 DEF Scripts!Continue
    <3> QED
      BY <2>2, <2>3, <3>1 DEF AloneInv
  <2>5. CASE ~Scripts!Continue(r)
    <3>1. /\ outcome' \in {"complete", "failed"}
          /\ to_run' = [to_run EXCEPT ![r] = <<>>]
      BY <2>1, <2>5, ScriptAdvances DEF Scripts!Fail
    <3>2. to_run'[r] = <<>> /\ \A q \in Runners \ {r} : to_run'[q] = to_run[q]
      BY <1>0, <3>1
    <3> QED
      BY <2>2, <2>3, <3>1, <3>2 DEF AloneInv
  <2> QED
    BY <2>4, <2>5
<1>2. CASE \E r \in DOMAIN to_run : Scripts!Interrupt(r)
  <2>1. PICK r \in DOMAIN to_run : Scripts!Interrupt(r)
    BY <1>2
  <2>2. /\ to_run' = [to_run EXCEPT ![r] = <<>>]
        /\ UNCHANGED <<outcome, alone, orderly>>
    BY <2>1 DEF Scripts!Interrupt, Scripts!run
  <2>3. \A q \in Runners : to_run'[q] # <<>> => to_run[q] # <<>>
    BY <1>0, <2>2
  <2> QED
    BY <2>2, <2>3 DEF AloneInv
<1>3. CASE Scripts!User
  <2>1. PICK r \in Users, script \in {Scripts!SetUp, Scripts!Teardown} :
            Scripts!Run(r, script)
    BY <1>3 DEF Scripts!User
  <2> QED
    BY <1>0, <2>1, AloneRun DEF Runners
<1>4. CASE Scripts!Reboot
  <2>1. /\ \A r \in Runners : to_run'[r] = <<>>
        /\ outcome' = "none" /\ alone' = TRUE /\ orderly' = TRUE
    BY <1>0, <1>4 DEF Scripts!Reboot
  <2> QED
    BY <2>1 DEF AloneInv
<1>5. CASE Scripts!CloseFds /\ Scripts!Run("daemon", Scripts!Teardown)
  BY <1>0, <1>5, AloneRun DEF Runners
<1>6. CASE \/ Scripts!CheckFlag \/ Scripts!OpenEp0 \/ Scripts!BindUdc
           \/ Scripts!UnbindUdc \/ Scripts!Exit \/ Scripts!Kill
           \/ (Scripts!CloseFds /\ ~Scripts!Run("daemon", Scripts!Teardown))
           \/ UNCHANGED Scripts!vars
  <2>1. UNCHANGED <<to_run, outcome, alone, orderly>>
    BY <1>6 DEF Scripts!CheckFlag, Scripts!OpenEp0, Scripts!BindUdc,
                Scripts!UnbindUdc, Scripts!Exit, Scripts!Kill,
                Scripts!CloseFds, Scripts!vars, Scripts!script, Scripts!run
  <2> QED
    BY <2>1 DEF AloneInv
<1> QED
  BY <1>1, <1>2, <1>3, <1>4, <1>5, <1>6 DEF Scripts!Next
-----------------------------------------------------------------------------
(* GadgetScripts: how far a script is that runs alone. *)

\* The daemon disturbs no script: it only opens what is mounted.
LEMMA ReachedKept ==
    ASSUME NEW i \in 1 .. 33, Reached(i),
           UNCHANGED <<dirs, written, links, mounted, real, dummy, flag>>,
           ep0' = ep0 \/ ep0' # "current" \/ mounted = "current"
    PROVE  Reached(i)'
<1>1. DirsAt(i)' /\ WrittenAt(i)' /\ LinksAt(i)'
  BY DEF Reached, DirsAt, WrittenAt, LinksAt, Wanted
<1>2. RestAt(i)'
  BY DEF Reached, RestAt
<1> QED
  BY <1>1, <1>2 DEF Reached

\* A directory is gone after the step that removes it.
LEMMA RmdirReached ==
    ASSUME TreeInv, NEW d \in Scripts!Dirs, NEW i \in 1 .. 33, Removed[d] = i,
           Reached(i), Scripts!RemoveDir(d),
           UNCHANGED <<links, real, dummy, flag>>
    PROVE  Reached(i + 1)'
<1>1. i \in 5 .. 10 /\ \A e \in Scripts!Dirs : Removed[e] \in 5 .. 10 /\ Made[e] \in 17 .. 28
  BY DirsAre DEF Removed, Made
<1>2. \A e \in Scripts!Dirs : Removed[e] = i => e = d
  BY DirsAre DEF Removed
<1>3. links = {}
  BY <1>1 DEF Reached, LinksAt, TreeInv, Scripts!Functions, Unlinked, Linked
<1>4. \A e \in dirs : Scripts!Parent[e] # d
  <2>1. \A e \in dirs : i <= Removed[e]
    BY <1>1 DEF Reached, DirsAt, TreeInv
  <2>2. \A e \in Scripts!Dirs : i <= Removed[e] => Scripts!Parent[e] # d
    BY DirsAre DEF Removed, Scripts!Parent
  <2> QED
    BY <2>1, <2>2 DEF TreeInv
<1>5. Scripts!Removable(d)
  BY <1>3, <1>4 DEF Scripts!Removable
<1>6. /\ dirs' = dirs \ {d} /\ written' \subseteq written
      /\ d = "ffs" /\ d \in dirs => ep0' = Scripts!Stale(ep0)
      /\ mounted' \in {mounted, Scripts!Stale(mounted)}
      /\ ep0' \in {ep0, Scripts!Stale(ep0)}
      /\ written' \subseteq dirs'
  BY <1>5 DEF Scripts!RemoveDir
<1>7. DirsAt(i + 1)'
  <2> SUFFICES ASSUME NEW e \in Scripts!Dirs
               PROVE  /\ e \in dirs' => i + 1 <= Removed[e]
                      /\ ~(i + 1 > Made[e])
    BY DEF DirsAt
  <2>1. e \in dirs' => i <= Removed[e] /\ e # d
    BY <1>1, <1>6 DEF Reached, DirsAt
  <2> QED
    BY <1>1, <1>2, <2>1
<1>8. WrittenAt(i + 1)' /\ LinksAt(i + 1)'
  <2>1. \A e \in Scripts!Dirs : ~(i + 1 > Made[e] + 1)
    BY <1>1
  <2>2. i + 1 <= 11 /\ \A f \in Scripts!Functions : Linked[f] > 20
    BY <1>1 DEF Scripts!Functions, Linked
  <2>3. WrittenAt(i + 1)'
    BY <2>1 DEF WrittenAt
  <2>4. links' = {} /\ \A f \in Scripts!Functions : ~(i + 1 > Linked[f])
    BY <1>1, <1>3, <2>2 DEF Scripts!Functions, Linked
  <2>5. LinksAt(i + 1)'
    BY <2>4 DEF LinksAt
  <2> QED
    BY <2>3, <2>5
<1>9. RestAt(i + 1)'
  <2>1. i + 1 \in 6 .. 11
    BY <1>1
  <2>2. mounted = "none"
    BY <1>1 DEF Reached, RestAt
  <2>3. mounted' = "none"
    BY <1>6, <2>2 DEF Scripts!Stale
  <2>4. i + 1 > 7 => ep0' # "current" /\ "ffs" \notin written'
    <3>1. CASE i > 7
      BY <1>1, <1>6, <3>1 DEF Reached, RestAt, Scripts!Stale
    <3>2. CASE i = 7
      <4>1. d = "ffs"
        BY <3>2, DirsAre DEF Removed
      <4>2. ep0' # "current"
        BY <1>6, <2>2, <4>1 DEF TreeInv, Scripts!Stale
      <4> QED
        BY <1>6, <4>1, <4>2
    <3> QED
      BY <1>1, <3>1, <3>2
  <2> QED
    BY <2>1, <2>3, <2>4 DEF RestAt
<1> QED
  BY <1>7, <1>8, <1>9 DEF Reached

\* When directories and links are removed and made.
LEMMA Numbers ==
    /\ \A d \in Scripts!Dirs : /\ Removed[d] \in 5 .. 10
                               /\ Made[d] \in {17, 19, 21, 23, 25, 28}
    /\ \A f \in Scripts!Functions : Unlinked[f] \in {3, 4} /\ Linked[f] \in {27, 29}
    /\ Scripts!Functions \subseteq Scripts!Dirs
  BY DirsAre DEF Scripts!Functions, Removed, Made, Unlinked, Linked

\* A step that leaves directories, attributes or links alone keeps what is said
\* of them, if its number is of none that has to change them.
LEMMA DirsKept ==
    ASSUME NEW i \in 1 .. 33, DirsAt(i), UNCHANGED <<dirs, real>>,
           i \notin 5 .. 10, i \notin {17, 19, 21, 23, 25, 28}
    PROVE  DirsAt(i + 1)'
<1> SUFFICES ASSUME NEW d \in Scripts!Dirs
             PROVE  /\ d \in dirs => \/ i + 1 <= Removed[d]
                                     \/ i + 1 > Made[d] /\ Wanted(d)
                    /\ i + 1 > Made[d] /\ Wanted(d) => d \in dirs
  BY DEF DirsAt, Wanted
<1>1. /\ d \in dirs => i <= Removed[d] \/ (i > Made[d] /\ Wanted(d))
      /\ i > Made[d] /\ Wanted(d) => d \in dirs
  BY DEF DirsAt
<1>2. /\ Removed[d] \in Int /\ Made[d] \in Int
      /\ Removed[d] # i /\ Made[d] # i
  BY Numbers
<1> QED
  BY <1>1, <1>2

\* The same of attributes,
LEMMA WrittenKept ==
    ASSUME NEW i \in 1 .. 33, WrittenAt(i), UNCHANGED <<dirs, written>>,
           i \notin {18, 20, 22, 24, 26}
    PROVE  WrittenAt(i + 1)'
<1> SUFFICES ASSUME NEW d \in Scripts!Dirs \ {"ffs"}, i + 1 > Made[d] + 1, d \in dirs
             PROVE  d \in written
  BY DEF WrittenAt
<1>1. Made[d] \in {17, 19, 21, 23, 25}
  BY DirsAre DEF Made
<1>2. i > Made[d] + 1
  BY <1>1
<1> QED
  BY <1>2 DEF WrittenAt

\* and of links.
LEMMA LinksKept ==
    ASSUME NEW i \in 1 .. 33, LinksAt(i), UNCHANGED <<links, real>>,
           i \notin {3, 4, 27, 29}
    PROVE  LinksAt(i + 1)'
<1> SUFFICES ASSUME NEW f \in Scripts!Functions
             PROVE  /\ f \in links => \/ i + 1 <= Unlinked[f]
                                      \/ i + 1 > Linked[f] /\ Wanted(f)
                    /\ i + 1 > Linked[f] /\ Wanted(f) => f \in links
  BY DEF LinksAt, Wanted
<1>1. /\ f \in links => i <= Unlinked[f] \/ (i > Linked[f] /\ Wanted(f))
      /\ i > Linked[f] /\ Wanted(f) => f \in links
  BY DEF LinksAt
<1>2. /\ Unlinked[f] \in Int /\ Linked[f] \in Int
      /\ Unlinked[f] # i /\ Linked[f] # i
  BY Numbers
<1> QED
  BY <1>1, <1>2

\* One link goes, or comes.
LEMMA UnlinkReached ==
    ASSUME TreeInv, NEW f \in Scripts!Functions, NEW i \in 1 .. 33,
           Unlinked[f] = i, Reached(i), links' = links \ {f},
           UNCHANGED <<dirs, written, mounted, real, dummy, flag, ep0>>
    PROVE  Reached(i + 1)'
<1>1. i \in {3, 4}
  BY Numbers
<1>2. DirsAt(i + 1)'
  BY <1>1, DirsKept DEF Reached
<1>3. WrittenAt(i + 1)'
  BY <1>1, WrittenKept DEF Reached
<1>4. LinksAt(i + 1)'
  <2> SUFFICES ASSUME NEW g \in Scripts!Functions
               PROVE  /\ g \in links' => i + 1 <= Unlinked[g]
                      /\ ~(i + 1 > Linked[g])
    BY DEF LinksAt
  <2>1. g \in links' => g \in links /\ g # f
    OBVIOUS
  <2>2. ~(i > Linked[g]) /\ ~(i + 1 > Linked[g])
    BY <1>1, Numbers
  <2>3. g \in links => i <= Unlinked[g]
    BY <2>2 DEF Reached, LinksAt
  <2>4. Unlinked[g] = i => g = f
    BY DEF Scripts!Functions, Unlinked
  <2>5. Unlinked[g] \in Int
    BY Numbers
  <2> QED
    BY <2>1, <2>2, <2>3, <2>4, <2>5
<1>5. RestAt(i + 1)'
  BY <1>1 DEF Reached, RestAt
<1> QED
  BY <1>2, <1>3, <1>4, <1>5 DEF Reached

\* The link that a step makes is there after it, unless it is skipped.
LEMMA LinkReached ==
    ASSUME TreeInv, NEW f \in Scripts!Functions, NEW i \in 1 .. 33,
           Linked[f] = i, Reached(i),
           links' = IF Wanted(f) THEN links \cup {f} ELSE links,
           UNCHANGED <<dirs, written, mounted, real, dummy, flag, ep0>>
    PROVE  Reached(i + 1)'
<1>1. i \in {27, 29}
  BY Numbers
<1>2. DirsAt(i + 1)'
  BY <1>1, DirsKept DEF Reached
<1>3. WrittenAt(i + 1)'
  BY <1>1, WrittenKept DEF Reached
<1>4. LinksAt(i + 1)'
  <2> SUFFICES ASSUME NEW g \in Scripts!Functions
               PROVE  /\ g \in links' => i + 1 > Linked[g] /\ Wanted(g)
                      /\ i + 1 > Linked[g] /\ Wanted(g) => g \in links'
    BY DEF LinksAt, Wanted
  <2>1. Unlinked[g] \in Int /\ Linked[g] \in Int /\ ~(i <= Unlinked[g])
    BY <1>1, Numbers
  <2>2. Linked[g] = i => g = f
    BY DEF Scripts!Functions, Linked
  <2>3. g \in links <=> i > Linked[g] /\ Wanted(g)
    BY <2>1 DEF Reached, LinksAt
  <2>4. g = f => i + 1 > Linked[g]
    BY <2>1
  <2>5. g # f => ((i + 1 > Linked[g]) <=> (i > Linked[g]))
    BY <2>1, <2>2
  <2>6. g # f => (g \in links' <=> g \in links)
    OBVIOUS
  <2>7. g = f => (g \in links' <=> Wanted(g))
    BY <2>1, <2>3
  <2> QED
    BY <2>3, <2>4, <2>5, <2>6, <2>7
<1>5. RestAt(i + 1)'
  BY <1>1 DEF Reached, RestAt
<1> QED
  BY <1>2, <1>3, <1>4, <1>5 DEF Reached

\* One directory comes, for its parents are there; then its attributes do.
LEMMA MkdirReached ==
    ASSUME TreeInv, NEW d \in Scripts!Dirs, NEW i \in 1 .. 33, Made[d] = i, Reached(i),
           dirs' = IF Wanted(d)
                   THEN dirs \cup ({d, Scripts!Parent[d], "gadget"} \cap Scripts!Dirs)
                   ELSE dirs,
           UNCHANGED <<written, links, mounted, real, dummy, flag, ep0>>
    PROVE  Reached(i + 1)'
<1>1. i \in {17, 19, 21, 23, 25, 28}
  BY Numbers
<1>2. dirs' = IF Wanted(d) THEN dirs \cup {d} ELSE dirs
  <2>1. \A e \in {Scripts!Parent[d], "gadget"} \cap Scripts!Dirs :
            e = d \/ (Made[e] < i /\ e # "uac1")
    BY DirsAre DEF Scripts!Parent, Made
  <2>2. \A e \in Scripts!Dirs : Made[e] \in Int
    BY Numbers
  <2>3. \A e \in {Scripts!Parent[d], "gadget"} \cap Scripts!Dirs : e = d \/ e \in dirs
    BY <2>1, <2>2 DEF Reached, DirsAt, Wanted
  <2> QED
    BY <2>3
<1>3. DirsAt(i + 1)'
  <2> SUFFICES ASSUME NEW e \in Scripts!Dirs
               PROVE  /\ e \in dirs' => i + 1 > Made[e] /\ Wanted(e)
                      /\ i + 1 > Made[e] /\ Wanted(e) => e \in dirs'
    BY DEF DirsAt, Wanted
  <2>1. Removed[e] \in Int /\ Made[e] \in Int /\ ~(i <= Removed[e])
    BY <1>1, Numbers
  <2>2. Made[e] = i => e = d
    BY DirsAre DEF Made
  <2>3. e \in dirs <=> i > Made[e] /\ Wanted(e)
    BY <2>1 DEF Reached, DirsAt
  <2>4. e = d => i + 1 > Made[e]
    BY <2>1
  <2>5. e # d => ((i + 1 > Made[e]) <=> (i > Made[e]))
    BY <2>1, <2>2
  <2>6. e # d => (e \in dirs' <=> e \in dirs)
    BY <1>2
  <2>7. e = d => (e \in dirs' <=> Wanted(e))
    BY <1>2, <2>1, <2>3
  <2> QED
    BY <2>3, <2>4, <2>5, <2>6, <2>7
<1>4. WrittenAt(i + 1)'
  <2> SUFFICES ASSUME NEW e \in Scripts!Dirs \ {"ffs"}, i + 1 > Made[e] + 1, e \in dirs'
               PROVE  e \in written
    BY DEF WrittenAt
  <2>1. Made[e] \in {17, 19, 21, 23, 25}
    BY DirsAre DEF Made
  <2>2. i > Made[e] + 1 /\ e # d
    BY <1>1, <2>1
  <2>3. e \in dirs
    BY <1>2, <2>2
  <2> QED
    BY <2>2, <2>3 DEF Reached, WrittenAt
<1>5. LinksAt(i + 1)'
  BY <1>1, LinksKept DEF Reached
<1>6. RestAt(i + 1)'
  BY <1>1 DEF Reached, RestAt
<1> QED
  BY <1>3, <1>4, <1>5, <1>6 DEF Reached

\* The attributes are written after their step, unless it is skipped.
LEMMA WriteReached ==
    ASSUME TreeInv, NEW d \in Scripts!Dirs \ {"ffs"}, NEW i \in 1 .. 33,
           Made[d] + 1 = i, Reached(i),
           written' = IF Wanted(d) THEN written \cup {d} ELSE written,
           UNCHANGED <<dirs, links, mounted, real, dummy, flag, ep0>>
    PROVE  Reached(i + 1)'
<1>1. i \in {18, 20, 22, 24, 26}
  BY DirsAre DEF Made
<1>2. DirsAt(i + 1)'
  BY <1>1, DirsKept DEF Reached
<1>3. WrittenAt(i + 1)'
  <2> SUFFICES ASSUME NEW e \in Scripts!Dirs \ {"ffs"}, i + 1 > Made[e] + 1, e \in dirs
               PROVE  e \in written'
    BY DEF WrittenAt
  <2>1. Made[e] \in Int /\ Removed[e] \in Int /\ ~(i <= Removed[e])
    BY <1>1, Numbers
  <2>2. Wanted(e)
    BY <2>1 DEF Reached, DirsAt
  <2>3. CASE e = d
    BY <2>2, <2>3
  <2>4. CASE e # d
    <3>1. Made[e] # Made[d]
      BY <2>4, DirsAre DEF Made
    <3>2. i > Made[e] + 1
      BY <2>1, <3>1, Numbers
    <3> QED
      BY <3>2 DEF Reached, WrittenAt
  <2> QED
    BY <2>3, <2>4
<1>4. LinksAt(i + 1)'
  BY <1>1, LinksKept DEF Reached
<1>5. RestAt(i + 1)'
  BY <1>1 DEF Reached, RestAt
<1> QED
  BY <1>2, <1>3, <1>4, <1>5 DEF Reached

\* Every other step.
LEMMA RestReached ==
    ASSUME NEW i \in 1 .. 33, Reached(i), i \notin 3 .. 10, i \notin 17 .. 29,
           UNCHANGED <<dirs, written, links, real>>, RestAt(i + 1)'
    PROVE  Reached(i + 1)'
<1>1. DirsAt(i + 1)'
  BY DirsKept DEF Reached
<1>2. WrittenAt(i + 1)'
  BY WrittenKept DEF Reached
<1>3. LinksAt(i + 1)'
  BY LinksKept DEF Reached
<1> QED
  BY <1>1, <1>2, <1>3 DEF Reached

\* No command of a script fails that runs alone, and each gets it one further.
LEMMA ReachedNext ==
    ASSUME TreeInv, FlagInv, NEW r \in DOMAIN to_run, Scripts!Step(r),
           NEW i \in 1 .. 33, Place(Head(to_run[r]), i), Reached(i)
    PROVE  \/ i = 33 /\ Scripts!Ready(r)
           \/ Scripts!Continue(r) /\ Reached(i + 1)'
<1> DEFINE d == Scripts!On(r)
<1>0. Scripts!Skipped(r) <=> ~Wanted(d)
  BY DEF Scripts!Skipped, Wanted
<1> USE DEF Scripts!At, Place
<1>1. CASE Scripts!Unbind(r)
  <2>1. /\ i = 1 /\ Scripts!Continue(r)
        /\ UNCHANGED <<dirs, written, links, mounted, real, dummy, flag, ep0>>
    BY <1>1 DEF Scripts!Unbind, Scripts!host, Scripts!process
  <2>2. RestAt(i + 1)'
    BY <2>1 DEF RestAt
  <2> QED
    BY <2>1, <2>2, RestReached
<1>2. CASE Scripts!Umount(r)
  <2>1. /\ i = 2 /\ Scripts!Continue(r) /\ mounted' = "none"
        /\ UNCHANGED <<dirs, written, links, real, dummy, flag, ep0>>
    BY <1>2 DEF Scripts!Umount, Scripts!host, Scripts!process
  <2>2. RestAt(i + 1)'
    BY <2>1 DEF RestAt
  <2> QED
    BY <2>1, <2>2, RestReached
<1>3. CASE Scripts!Unlink(r)
  <2>1. /\ d \in Scripts!Functions /\ Unlinked[d] = i /\ Scripts!Continue(r)
        /\ links' = links \ {d}
        /\ UNCHANGED <<dirs, written, mounted, real, dummy, flag, ep0>>
    BY <1>3 DEF Scripts!Unlink, Scripts!host, Scripts!process, Scripts!On
  <2> QED
    BY <2>1, UnlinkReached
<1>4. CASE Scripts!Rmdir(r)
  <2>1. /\ d \in Scripts!Dirs /\ Removed[d] = i /\ Scripts!Continue(r)
        /\ Scripts!RemoveDir(d)
        /\ UNCHANGED <<links, real, dummy, flag>>
    BY <1>4 DEF Scripts!Rmdir, Scripts!host, Scripts!On
  <2> QED
    BY <2>1, RmdirReached
<1>5. CASE Scripts!Report(r)
  <2>1. /\ i = 14 /\ Scripts!Continue(r) /\ Scripts!RemoveDir("gadget")
        /\ UNCHANGED <<links, real, dummy, flag>>
    BY <1>5 DEF Scripts!Report, Scripts!host
  <2>2. "gadget" \notin dirs
    <3>1. Removed["gadget"] = 10 /\ Made["gadget"] = 17 /\ "gadget" \in Scripts!Dirs
      BY DirsAre DEF Removed, Made
    <3> QED
      BY <2>1, <3>1 DEF Reached, DirsAt
  <2>3. UNCHANGED <<dirs, mounted, ep0>> /\ written' = written \cap dirs'
    BY <2>1, <2>2 DEF Scripts!RemoveDir
  <2>4. written' = written
    BY <2>3 DEF TreeInv
  <2>5. RestAt(i + 1)'
    BY <2>1, <2>3, <2>4 DEF Reached, RestAt
  <2> QED
    BY <2>1, <2>3, <2>4, <2>5, RestReached
<1>6. CASE Scripts!Unload(r)
  <2>1. /\ i = 11 /\ Scripts!Continue(r)
        /\ UNCHANGED <<dirs, written, links, mounted, real, flag, ep0>>
    BY <1>6 DEF Scripts!Unload, Scripts!process
  <2>2. RestAt(i + 1)'
    BY <2>1 DEF Reached, RestAt
  <2> QED
    BY <2>1, <2>2, RestReached
<1>7. CASE Scripts!Load(r)
  <2>1. /\ i \in {12, 15} /\ Scripts!Continue(r) /\ dummy' = TRUE
        /\ UNCHANGED <<dirs, written, links, mounted, real, flag, ep0>>
    BY <1>7 DEF Scripts!Load, Scripts!tree, Scripts!process
  <2>2. RestAt(i + 1)'
    BY <2>1 DEF Reached, RestAt
  <2> QED
    BY <2>1, <2>2, RestReached
<1>8. CASE Scripts!RmFlag(r)
  <2>1. /\ i = 13 /\ Scripts!Continue(r) /\ flag' = "none"
        /\ UNCHANGED <<dirs, written, links, mounted, real, dummy, ep0>>
    BY <1>8 DEF Scripts!RmFlag, Scripts!tree, Scripts!process
  <2>2. RestAt(i + 1)'
    BY <2>1 DEF Reached, RestAt
  <2> QED
    BY <2>1, <2>2, RestReached
<1>9. CASE Scripts!Detect(r)
  <2>1. /\ i = 16 /\ (dummy => Scripts!Continue(r))
        /\ UNCHANGED <<dirs, written, links, mounted, real, dummy, flag, ep0>>
    BY <1>9 DEF Scripts!Detect, Scripts!tree, Scripts!host, Scripts!process
  <2>2. dummy /\ RestAt(i + 1)'
    BY <2>1 DEF Reached, RestAt
  <2> QED
    BY <2>1, <2>2, RestReached
<1>10. CASE Scripts!Mkdir(r)
  <2>1. /\ d \in Scripts!Dirs /\ Made[d] = i /\ Scripts!Continue(r)
        /\ dirs' = IF Wanted(d)
                   THEN dirs \cup ({d, Scripts!Parent[d], "gadget"} \cap Scripts!Dirs)
                   ELSE dirs
        /\ UNCHANGED <<written, links, mounted, real, dummy, flag, ep0>>
    BY <1>0, <1>10 DEF Scripts!Mkdir, Scripts!host, Scripts!process, Scripts!On
  <2> QED
    BY <2>1, MkdirReached
<1>11. CASE Scripts!Write(r)
  <2>1. d \in Scripts!Dirs \ {"ffs"} /\ Made[d] + 1 = i
    BY <1>11 DEF Scripts!Write, Scripts!On
  <2>2. Scripts!Skipped(r) \/ (d \in dirs /\ d \notin links)
    <3>1. Made[d] \in Int /\ i > Made[d]
      BY <2>1, Numbers
    <3>2. d \in Scripts!Functions => i > Unlinked[d] /\ i <= Linked[d]
      BY <2>1 DEF Scripts!Functions, Unlinked, Linked, Made
    <3>3. d \in Scripts!Functions => Unlinked[d] \in Int /\ Linked[d] \in Int
      BY Numbers
    <3> QED
      BY <1>0, <2>1, <3>1, <3>2, <3>3 DEF Reached, DirsAt, LinksAt, TreeInv
  <2>3. /\ Scripts!Continue(r)
        /\ written' = IF Wanted(d) THEN written \cup {d} ELSE written
        /\ UNCHANGED <<dirs, links, mounted, real, dummy, flag, ep0>>
    BY <1>0, <1>11, <2>2 DEF Scripts!Write, Scripts!host, Scripts!process
  <2> QED
    BY <2>1, <2>3, WriteReached
<1>12. CASE Scripts!Link(r)
  <2>1. d \in Scripts!Functions /\ Linked[d] = i
    BY <1>12 DEF Scripts!Link, Scripts!On
  <2>2. Scripts!Skipped(r) \/ ({d, "config"} \subseteq dirs /\ d \notin links)
    <3>1. /\ d \in Scripts!Dirs /\ i > Made[d] /\ i > Unlinked[d] /\ i > Made["config"]
          /\ "config" \in Scripts!Dirs /\ Wanted("config")
      BY <2>1, DirsAre DEF Scripts!Functions, Unlinked, Linked, Made, Wanted
    <3>2. Wanted(d) => d \in dirs /\ "config" \in dirs
      BY <3>1 DEF Reached, DirsAt
    <3>3. Unlinked[d] \in Int /\ ~(i <= Unlinked[d]) /\ ~(i > Linked[d])
      BY <2>1, <3>1, Numbers
    <3>4. d \notin links
      BY <2>1, <3>3 DEF Reached, LinksAt
    <3> QED
      BY <1>0, <3>2, <3>4
  <2>3. /\ Scripts!Continue(r)
        /\ links' = IF Wanted(d) THEN links \cup {d} ELSE links
        /\ UNCHANGED <<dirs, written, mounted, real, dummy, flag, ep0>>
    BY <1>0, <1>12, <2>2 DEF Scripts!Link, Scripts!host, Scripts!process
  <2> QED
    BY <2>1, <2>3, LinkReached
<1>13. CASE Scripts!Mount(r)
  <2>1. i = 30
    BY <1>13 DEF Scripts!Mount
  <2>2. "ffs" \in dirs /\ mounted = "none" /\ ep0 # "current"
    <3>1. Made["ffs"] = 28 /\ "ffs" \in Scripts!Dirs /\ Wanted("ffs")
      BY DirsAre DEF Made, Wanted
    <3> QED
      BY <2>1, <3>1 DEF Reached, DirsAt, RestAt
  <2>3. /\ Scripts!Continue(r) /\ mounted' = "current"
        /\ UNCHANGED <<dirs, written, links, real, dummy, flag, ep0>>
    BY <1>13, <2>2 DEF Scripts!Mount, Scripts!host, Scripts!process
  <2>4. RestAt(i + 1)'
    BY <2>1, <2>3 DEF Reached, RestAt
  <2> QED
    BY <2>1, <2>3, <2>4, RestReached
<1>14. CASE Scripts!Verify(r)
  <2>1. /\ i = 31 /\ (mounted # "none" => Scripts!Continue(r))
        /\ UNCHANGED <<dirs, written, links, mounted, real, dummy, flag, ep0>>
    BY <1>14 DEF Scripts!Verify, Scripts!tree, Scripts!host, Scripts!process
  <2>2. mounted # "none" /\ RestAt(i + 1)'
    BY <2>1 DEF Reached, RestAt
  <2> QED
    BY <2>1, <2>2, RestReached
<1>15. CASE Scripts!WriteFlag(r)
  <2>1. /\ i = 32 /\ Scripts!Continue(r) /\ flag' = (IF real THEN "1" ELSE "0")
        /\ UNCHANGED <<dirs, written, links, mounted, real, dummy, ep0>>
    BY <1>15 DEF Scripts!WriteFlag, Scripts!tree, Scripts!process
  <2>2. RestAt(i + 1)'
    BY <2>1 DEF Reached, RestAt
  <2> QED
    BY <2>1, <2>2, RestReached
<1>16. CASE Scripts!Ready(r)
  BY <1>16 DEF Scripts!Ready
<1> QED
  BY <1>1, <1>2, <1>3, <1>4, <1>5, <1>6, <1>7, <1>8, <1>9, <1>10, <1>11,
     <1>12, <1>13, <1>14, <1>15, <1>16 DEF Scripts!Step

\* Where nothing is left to do, or a script begins or goes on that does not run
\* alone, or nothing disturbs it.
LEMMA PlacedStill ==
    ASSUME NEW q \in Runners, Placed(q), to_run'[q] = to_run[q], Told => Told',
           \/ to_run[q] = <<>>
           \/ ~alone'
           \/ alone /\ \A i \in 1 .. 33 : Reached(i) => Reached(i)'
    PROVE  Placed(q)'
<1>1. CASE to_run[q] = <<>>
  BY <1>1 DEF Placed
<1>2. CASE to_run[q] # <<>>
  <2>1. PICK i \in 1 .. 33 : /\ Stage(to_run[q], i) /\ (alone => Reached(i))
                             /\ i > 13 => Told
    BY <1>2, Zenon DEF Placed
  <2>2. Stage(to_run[q], i)'
    BY <2>1 DEF Stage
  <2>3. alone' => Reached(i)'
    BY <1>2, <2>1
  <2>4. i > 13 => Told'
    BY <2>1
  <2> QED
    BY <2>2, <2>3, <2>4, Zenon DEF Placed
<1> QED
  BY <1>1, <1>2

\* A script that starts is at its first step, where nothing is required of it.
LEMMA PlacedRun ==
    ASSUME PlaceInv, NEW r \in DOMAIN to_run,
           NEW script \in {Scripts!SetUp, Scripts!Teardown},
           Scripts!Run(r, script), UNCHANGED <<real, flag>>
    PROVE  PlaceInv'
<1>1. /\ DOMAIN to_run = Runners
      /\ to_run' = [to_run EXCEPT ![r] = script]
      /\ alone' = \A q \in DOMAIN to_run \ {r} : to_run[q] = <<>>
  BY DEF PlaceInv, Scripts!Run
<1>2. Placed(r)'
  <2>1. Stage(to_run[r], 1)'
    BY <1>1, StageStart DEF Stage
  <2>2. DirsAt(1)' /\ WrittenAt(1)' /\ LinksAt(1)'
    BY Numbers DEF DirsAt, WrittenAt, LinksAt
  <2>3. RestAt(1)'
    BY DEF RestAt
  <2> QED
    BY <2>1, <2>2, <2>3 DEF Placed, Reached
<1>3. ASSUME NEW q \in Runners \ {r} PROVE Placed(q)'
  <2>1. /\ Placed(q) /\ to_run'[q] = to_run[q] /\ (Told => Told')
        /\ to_run[q] = <<>> \/ ~alone'
    BY <1>1 DEF PlaceInv, Told
  <2> QED
    BY <2>1, PlacedStill
<1>4. to_run' = [q \in Runners |-> to_run'[q]]
  BY <1>1
<1> QED
  BY <1>1, <1>2, <1>3, <1>4 DEF PlaceInv

\* What a script does to the flag: it removes it before it writes it, and only
\* then mounts the gadget.
LEMMA FlagScript ==
    ASSUME NEW r \in DOMAIN to_run, Scripts!Step(r),
           NEW i \in 1 .. 33, Place(Head(to_run[r]), i)
    PROVE  /\ flag' \in {flag, "none"} \/ flag' = (IF real THEN "1" ELSE "0")
           /\ UNCHANGED <<real, uac1, daemon>>
           /\ Told \/ i = 13 => Told'
           /\ mounted' = "current" => mounted = "current" \/ i = 30
<1>1. \/ Scripts!Unbind(r) \/ Scripts!Umount(r) \/ Scripts!Unlink(r)
      \/ Scripts!Rmdir(r) \/ Scripts!Unload(r) \/ Scripts!Load(r)
      \/ Scripts!Report(r) \/ Scripts!Detect(r) \/ Scripts!Mkdir(r)
      \/ Scripts!Write(r) \/ Scripts!Link(r) \/ Scripts!Verify(r)
      \/ Scripts!Ready(r) \/ Scripts!Mount(r) \/ Scripts!RmFlag(r)
      \/ Scripts!WriteFlag(r)
  BY DEF Scripts!Step
<1>2. CASE Scripts!RmFlag(r)
  BY <1>2 DEF Scripts!RmFlag, Scripts!tree, Scripts!process, Told
<1>3. CASE Scripts!WriteFlag(r)
  BY <1>3 DEF Scripts!WriteFlag, Scripts!tree, Scripts!process, Told
<1>4. CASE Scripts!Mount(r)
  BY <1>4 DEF Scripts!Mount, Scripts!At, Scripts!host, Scripts!process, Place, Told
<1>5. CASE Scripts!Rmdir(r) \/ Scripts!Report(r)
  <2>1. /\ UNCHANGED <<real, flag, uac1, daemon>>
        /\ mounted' = "current" => mounted = "current"
    BY <1>5 DEF Scripts!Rmdir, Scripts!Report, Scripts!RemoveDir,
                Scripts!Stale, Scripts!host
  <2>2. i # 13
    BY <1>5, Numbers DEF Scripts!Rmdir, Scripts!Report, Scripts!At, Place
  <2> QED
    BY <2>1, <2>2 DEF Told
<1>6. CASE \/ Scripts!Unbind(r) \/ Scripts!Umount(r) \/ Scripts!Unlink(r)
           \/ Scripts!Unload(r) \/ Scripts!Load(r) \/ Scripts!Detect(r)
           \/ Scripts!Mkdir(r) \/ Scripts!Write(r) \/ Scripts!Link(r)
           \/ Scripts!Verify(r) \/ Scripts!Ready(r)
  <2>1. /\ UNCHANGED <<real, flag, uac1, daemon>>
        /\ mounted' = "current" => mounted = "current"
    BY <1>6 DEF Scripts!Unbind, Scripts!Umount, Scripts!Unlink, Scripts!Unload,
                Scripts!Load, Scripts!Detect, Scripts!Mkdir, Scripts!Write,
                Scripts!Link, Scripts!Verify, Scripts!Ready, Scripts!tree,
                Scripts!host, Scripts!process
  <2>2. i # 13
    BY <1>6, Numbers
    DEF Scripts!Unbind, Scripts!Umount, Scripts!Unlink, Scripts!Unload,
        Scripts!Load, Scripts!Detect, Scripts!Mkdir, Scripts!Write,
        Scripts!Link, Scripts!Verify, Scripts!Ready, Scripts!At, Place
  <2> QED
    BY <2>1, <2>2 DEF Told
<1> QED
  BY <1>1, <1>2, <1>3, <1>4, <1>5, <1>6

\* A step of a script takes it to the next one.
LEMMA PlacedScript ==
    ASSUME TreeInv, FlagInv, AloneInv, PlaceInv,
           NEW r \in DOMAIN to_run, Scripts!Step(r)
    PROVE  PlaceInv'
<1>1. /\ to_run[r] # <<>> /\ alone' = alone
      /\ \/ Scripts!Continue(r) \/ to_run' = [to_run EXCEPT ![r] = <<>>]
  BY ScriptAdvances DEF Scripts!Fail
<1>2. PICK i \in 1 .. 33 : /\ Stage(to_run[r], i) /\ (alone => Reached(i))
                           /\ i > 13 => Told
                           /\ Place(Head(to_run[r]), i) /\ r \in Runners
  BY <1>1, Somewhere
<1>a. Told \/ i = 13 => Told'
  BY <1>2, FlagScript
<1>3. DOMAIN to_run = Runners
  BY DEF PlaceInv
<1>4. Placed(r)'
  <2>1. CASE to_run'[r] = <<>>
    BY <2>1 DEF Placed
  <2>2. CASE to_run'[r] # <<>>
    <3>1. Scripts!Continue(r) /\ to_run'[r] = Tail(to_run[r])
      BY <1>1, <1>3, <2>2 DEF Scripts!Continue
    <3>2. i + 1 \in 1 .. 33 /\ Stage(to_run'[r], i + 1)
      <4>1. i < 33 /\ Stage(Tail(to_run[r]), i + 1)
        BY <1>2, <2>2, <3>1, StageStep
      <4>2. i + 1 \in 1 .. 33
        BY <4>1
      <4> QED
        BY <3>1, <4>1, <4>2, Zenon
    <3>3. Stage(to_run[r], i + 1)'
      BY <3>2 DEF Stage
    <3>4. ASSUME alone' PROVE Reached(i + 1)'
      <4>1. alone
        BY <1>1, <3>4
      <4>2. Reached(i) /\ i # 33
        BY <1>2, <3>2, <4>1
      <4> QED
        BY <1>2, <4>2, ReachedNext
    <3>5. i + 1 > 13 => Told'
      BY <1>2, <1>a
    <3> QED
      BY <3>2, <3>3, <3>4, <3>5 DEF Placed
  <2> QED
    BY <2>1, <2>2
<1>5. ASSUME NEW q \in Runners \ {r} PROVE Placed(q)'
  <2>1. Placed(q) /\ to_run'[q] = to_run[q]
    BY <1>1, <1>3 DEF PlaceInv, Scripts!Continue
  <2>2. to_run[q] = <<>> \/ ~alone'
    BY <1>1, <1>2 DEF AloneInv
  <2>3. Told => Told'
    BY <1>a
  <2> QED
    BY <2>1, <2>2, <2>3, PlacedStill
<1>6. to_run' = [q \in Runners |-> to_run'[q]]
  BY <1>1, <1>3 DEF Scripts!Continue
<1> QED
  BY <1>2, <1>4, <1>5, <1>6 DEF PlaceInv

\* A script stays where it is, is stopped, or goes on.
LEMMA PlaceStep ==
    ASSUME TreeInv, FlagInv, AloneInv, PlaceInv, [Scripts!Next]_Scripts!vars
    PROVE  PlaceInv'
<1>0. DOMAIN to_run = Runners
  BY DEF PlaceInv
<1>1. CASE \E r \in DOMAIN to_run : Scripts!Step(r)
  BY <1>1, PlacedScript
<1>2. CASE \E r \in DOMAIN to_run : Scripts!Interrupt(r)
  <2>1. PICK r \in DOMAIN to_run : Scripts!Interrupt(r)
    BY <1>2
  <2>2. /\ to_run[r] # <<>> /\ to_run' = [to_run EXCEPT ![r] = <<>>]
        /\ alone' = alone /\ (Told => Told')
    BY <2>1 DEF Scripts!Interrupt, Scripts!run, Scripts!host, Told
  <2>3. ASSUME NEW q \in Runners PROVE Placed(q)'
    <3>1. CASE q = r
      BY <1>0, <2>2, <3>1 DEF Placed
    <3>2. CASE q # r
      <4>1. /\ Placed(q) /\ to_run'[q] = to_run[q]
            /\ to_run[q] = <<>> \/ ~alone'
        BY <1>0, <2>2, <3>2 DEF PlaceInv, AloneInv
      <4> QED
        BY <2>2, <4>1, PlacedStill
    <3> QED
      BY <3>1, <3>2
  <2> QED
    BY <1>0, <2>2, <2>3 DEF PlaceInv
<1>3. CASE Scripts!User
  <2>1. PICK r \in Users, script \in {Scripts!SetUp, Scripts!Teardown} :
            Scripts!Run(r, script) /\ UNCHANGED <<real, flag>>
    BY <1>3 DEF Scripts!User, Scripts!host
  <2> QED
    BY <1>0, <2>1, PlacedRun DEF Runners
<1>4. CASE Scripts!Reboot
  <2>1. to_run' = [r \in Runners |-> <<>>]
    BY <1>0, <1>4 DEF Scripts!Reboot
  <2> QED
    BY <2>1 DEF PlaceInv, Placed
<1>5. CASE Scripts!CloseFds /\ Scripts!Run("daemon", Scripts!Teardown)
  <2>1. UNCHANGED <<real, flag>>
    BY <1>5 DEF Scripts!CloseFds, Scripts!host
  <2> QED
    BY <1>0, <1>5, <2>1, PlacedRun DEF Runners
<1>6. CASE \/ Scripts!CheckFlag \/ Scripts!OpenEp0 \/ Scripts!BindUdc
           \/ Scripts!UnbindUdc \/ Scripts!Exit \/ Scripts!Kill
           \/ (Scripts!CloseFds /\ ~Scripts!Run("daemon", Scripts!Teardown))
           \/ UNCHANGED Scripts!vars
  <2>1. /\ UNCHANGED <<to_run, alone, dirs, written, links, mounted, real, dummy, flag>>
        /\ ep0' = ep0 \/ ep0' # "current" \/ mounted = "current"
    BY <1>6 DEF Scripts!CheckFlag, Scripts!OpenEp0, Scripts!BindUdc,
                Scripts!UnbindUdc, Scripts!Exit, Scripts!Kill, Scripts!Close,
                Scripts!CloseFds, Scripts!vars, Scripts!script, Scripts!run,
                Scripts!tree, Scripts!host, Scripts!process
  <2>2. \A i \in 1 .. 33 : Reached(i) => Reached(i)'
    BY <2>1, ReachedKept
  <2>3. ASSUME NEW q \in Runners PROVE Placed(q)'
    <3>1. /\ Placed(q) /\ to_run'[q] = to_run[q] /\ (~alone' \/ alone)
          /\ Told => Told'
      BY <2>1 DEF PlaceInv, Told
    <3> QED
      BY <2>2, <3>1, PlacedStill
  <2> QED
    BY <2>1, <2>3 DEF PlaceInv
<1> QED
  BY <1>1, <1>2, <1>3, <1>4, <1>5, <1>6 DEF Scripts!Next

-----------------------------------------------------------------------------
(* GadgetScripts: what a script comes to, and what the flag says. *)

\* A script that runs alone and is set up has made everything.
LEMMA ReachedComplete ==
    ASSUME TreeInv, Reached(33)
    PROVE  Scripts!Complete
<1>1. \A d \in Scripts!Dirs : d \in dirs <=> Wanted(d)
  BY Numbers DEF Reached, DirsAt
<1>2. \A d \in Scripts!Dirs \ {"ffs"} : d \in dirs => d \in written
  <2>1. \A d \in Scripts!Dirs : 33 > Made[d] + 1
    BY Numbers
  <2> QED
    BY <2>1 DEF Reached, WrittenAt
<1>3. \A f \in Scripts!Functions : f \in links <=> Wanted(f)
  BY Numbers DEF Reached, LinksAt
<1>4. "ffs" \notin written /\ mounted = "current" /\ flag = (IF real THEN "1" ELSE "0")
  BY DEF Reached, RestAt
<1>5. links = (IF real THEN Scripts!Functions ELSE {"ffs"})
  BY <1>3 DEF TreeInv, Wanted, Scripts!Functions
<1>6. dirs = Scripts!Dirs \ (Scripts!Functions \ links)
  BY <1>1, <1>5, DirsAre DEF TreeInv, Wanted, Scripts!Functions
<1>7. written = dirs \ {"ffs"}
  BY <1>2, <1>4 DEF TreeInv
<1> QED
  BY <1>4, <1>5, <1>6, <1>7 DEF Scripts!Complete

\* When a script that runs alone says that it is done, everything is there.
LEMMA SetUpStep ==
    ASSUME TreeInv, FlagInv, AloneInv, PlaceInv, SetUpComplete,
           [Scripts!Next]_Scripts!vars
    PROVE  SetUpComplete'
<1>1. CASE \E r \in DOMAIN to_run : Scripts!Step(r)
  <2> SUFFICES ASSUME alone'
               PROVE  outcome' # "failed" /\ (outcome' = "complete" => Scripts!Complete')
    BY DEF SetUpComplete, Scripts!SetUpComplete
  <2>1. PICK r \in DOMAIN to_run : Scripts!Step(r)
    BY <1>1
  <2>2. to_run[r] # <<>> /\ alone /\ r \in Runners
    BY <2>1, ScriptAdvances DEF PlaceInv
  <2>3. PICK i \in 1 .. 33 : Place(Head(to_run[r]), i) /\ Reached(i)
    BY <2>2, Somewhere
  <2>4. CASE i = 33 /\ Scripts!Ready(r)
    <3>1. Scripts!Complete
      BY <2>3, <2>4, ReachedComplete
    <3>2. outcome' = "complete" /\ UNCHANGED <<dirs, written, links, mounted, real, flag>>
      BY <2>4 DEF Scripts!Ready, Scripts!tree, Scripts!host
    <3> QED
      BY <3>1, <3>2 DEF Scripts!Complete
  <2>5. CASE Scripts!Continue(r)
    <3>1. outcome' = "none"
      BY <2>2, <2>5 DEF Scripts!Continue, AloneInv
    <3> QED
      BY <3>1
  <2> QED
    BY <2>1, <2>3, <2>4, <2>5, ReachedNext
<1>2. CASE Scripts!User \/ Scripts!Reboot
           \/ (Scripts!CloseFds /\ Scripts!Run("daemon", Scripts!Teardown))
  <2>1. outcome' = "none"
    BY <1>2 DEF Scripts!User, Scripts!Reboot, Scripts!Run
  <2> QED
    BY <2>1 DEF SetUpComplete, Scripts!SetUpComplete
<1>3. CASE \/ \E r \in DOMAIN to_run : Scripts!Interrupt(r)
           \/ Scripts!CheckFlag \/ Scripts!OpenEp0 \/ Scripts!BindUdc
           \/ Scripts!UnbindUdc \/ Scripts!Exit \/ Scripts!Kill
           \/ (Scripts!CloseFds /\ ~Scripts!Run("daemon", Scripts!Teardown))
           \/ UNCHANGED Scripts!vars
  <2>1. UNCHANGED <<alone, outcome, dirs, written, links, mounted, real, flag>>
    BY <1>3 DEF Scripts!Interrupt, Scripts!CheckFlag, Scripts!OpenEp0,
                Scripts!BindUdc, Scripts!UnbindUdc, Scripts!Exit, Scripts!Kill,
                Scripts!CloseFds, Scripts!vars, Scripts!script, Scripts!run,
                Scripts!tree, Scripts!host, Scripts!process
  <2> QED
    BY <2>1 DEF SetUpComplete, Scripts!SetUpComplete, Scripts!Complete
<1> QED
  BY <1>1, <1>2, <1>3 DEF Scripts!Next

\* What the daemon has read of UAC1 stays so.
LEMMA FlagStep ==
    ASSUME TreeInv, FlagInv, AloneInv, PlaceInv, [Scripts!Next]_Scripts!vars
    PROVE  FlagInv'
<1>1. CASE \E r \in DOMAIN to_run : Scripts!Step(r)
  <2>1. PICK r \in DOMAIN to_run : Scripts!Step(r)
    BY <1>1
  <2>1a. to_run[r] # <<>>
    BY <2>1, ScriptAdvances
  <2>1b. PICK k \in 1 .. 33 : /\ k > 13 => Told
                              /\ Place(Head(to_run[r]), k)
    BY <2>1a, Somewhere
  <2>2. /\ flag' \in {flag, "none"} \/ flag' = (IF real THEN "1" ELSE "0")
        /\ UNCHANGED <<real, uac1, daemon>>
        /\ Told => Told'
        /\ mounted' = "current" => mounted = "current" \/ k = 30
    BY <2>1, <2>1b, FlagScript
  <2>3. ASSUME orderly', mounted' = "current", real PROVE "uac1" \in links'
    <3>1. to_run[r] # <<>> /\ alone /\ r \in Runners
      BY <2>1, <2>3, ScriptAdvances DEF AloneInv, PlaceInv
    <3>2. PICK i \in 1 .. 33 : Place(Head(to_run[r]), i) /\ Reached(i)
      BY <3>1, Somewhere
    <3>3. CASE i = 33 /\ Scripts!Ready(r)
      <4>1. UNCHANGED <<links, mounted, orderly>>
        BY <3>3 DEF Scripts!Ready, Scripts!tree, Scripts!run
      <4> QED
        BY <2>3, <4>1 DEF FlagInv
    <3>4. CASE Reached(i + 1)'
      <4>1. i + 1 \notin 3 .. 30 /\ i + 1 \in 2 .. 34
        BY <2>3, <3>4 DEF Reached, RestAt
      <4>2. CASE i + 1 > 30
        <5>1. Linked["uac1"] = 27 /\ "uac1" \in Scripts!Functions
          BY DEF Linked, Scripts!Functions
        <5>2. i + 1 > Linked["uac1"] /\ Wanted("uac1")'
          BY <2>2, <2>3, <4>2, <5>1 DEF Wanted
        <5> QED
          BY <3>4, <5>1, <5>2 DEF Reached, LinksAt
      <4>3. CASE i = 1
        <5>1. Scripts!Unbind(r)
          BY <2>1, <3>2, <4>3, Numbers
          DEF Place, Scripts!Step, Scripts!At, Scripts!Umount, Scripts!Unlink,
              Scripts!Rmdir, Scripts!Unload, Scripts!Load, Scripts!RmFlag,
              Scripts!Report, Scripts!Detect, Scripts!Mkdir, Scripts!Write,
              Scripts!Link, Scripts!Mount, Scripts!Verify,
              Scripts!WriteFlag, Scripts!Ready
        <5>2. UNCHANGED <<links, mounted, orderly>>
          BY <5>1 DEF Scripts!Unbind, Scripts!run
        <5> QED
          BY <2>3, <5>2 DEF FlagInv
      <4> QED
        BY <4>1, <4>2, <4>3
    <3> QED
      BY <2>1, <3>2, <3>3, <3>4, ReachedNext
  <2>4. mounted' = "current" => Told'
    BY <2>1b, <2>2 DEF FlagInv
  <2>5. flag' \in {"none", "0", "1"} /\ (daemon' = "checked" /\ uac1' => real')
    BY <2>2 DEF FlagInv
  <2> QED
    BY <2>2, <2>3, <2>4, <2>5 DEF FlagInv
<1>2. CASE Scripts!Reboot
  BY <1>2 DEF Scripts!Reboot, FlagInv
<1>3. CASE \/ \E r \in DOMAIN to_run : Scripts!Interrupt(r)
           \/ Scripts!User \/ Scripts!CheckFlag \/ Scripts!OpenEp0
           \/ Scripts!BindUdc \/ Scripts!UnbindUdc \/ Scripts!CloseFds
           \/ Scripts!Exit \/ Scripts!Kill \/ UNCHANGED Scripts!vars
  <2>1. UNCHANGED <<links, mounted, real, flag>>
    BY <1>3 DEF Scripts!Interrupt, Scripts!User, Scripts!CheckFlag,
                Scripts!OpenEp0, Scripts!BindUdc, Scripts!UnbindUdc,
                Scripts!CloseFds, Scripts!Exit, Scripts!Kill, Scripts!vars,
                Scripts!tree, Scripts!host
  <2>2. orderly' => orderly
    BY <1>3 DEF Scripts!Interrupt, Scripts!User, Scripts!CheckFlag,
                Scripts!OpenEp0, Scripts!BindUdc, Scripts!UnbindUdc,
                Scripts!CloseFds, Scripts!Exit, Scripts!Kill, Scripts!vars,
                Scripts!script, Scripts!run, Scripts!Run
  <2>3. uac1' \in BOOLEAN /\ (daemon' = "checked" /\ uac1' => real)
    <3>1. CASE Scripts!CheckFlag
      <4>1. /\ uac1' = (flag = "1")
            /\ daemon' = (IF mounted = "current" THEN "checked" ELSE "early")
        BY <3>1 DEF Scripts!CheckFlag
      <4>2. CASE mounted = "current"
        BY <4>1, <4>2 DEF FlagInv, Told
      <4>3. CASE mounted # "current"
        BY <4>1, <4>3
      <4> QED
        BY <4>2, <4>3
    <3>2. CASE Scripts!OpenEp0
      <4>1. uac1' = (uac1 /\ daemon' = "opened") /\ daemon' \in {"opened", "failed"}
        BY <3>2 DEF Scripts!OpenEp0
      <4> QED
        BY <4>1
    <3>3. CASE ~(Scripts!CheckFlag \/ Scripts!OpenEp0)
      <4>1. /\ uac1' = uac1 \/ uac1' = FALSE
            /\ daemon' = daemon \/ daemon' # "checked"
        BY <1>3, <3>3
        DEF Scripts!Interrupt, Scripts!User, Scripts!BindUdc,
            Scripts!UnbindUdc, Scripts!CloseFds, Scripts!Close, Scripts!Exit,
            Scripts!Kill, Scripts!vars, Scripts!process
      <4>2. CASE uac1' = uac1
        BY <4>1, <4>2 DEF FlagInv
      <4>3. CASE uac1' = FALSE
        BY <4>3
      <4> QED
        BY <4>1, <4>2, <4>3
    <3> QED
      BY <3>1, <3>2, <3>3
  <2> QED
    BY <2>1, <2>2, <2>3 DEF FlagInv, Told
<1> QED
  BY <1>1, <1>2, <1>3 DEF Scripts!Next

\* All of it, for any number of users.
LEMMA GadgetKept == Scripts!Spec => []GadgetInv
<1>1. Scripts!Init => GadgetInv
  BY DirsAre
  DEF Scripts!Init, GadgetInv, TreeInv, FlagInv, Told, AloneInv, PlaceInv, Placed,
      SetUpComplete, Scripts!SetUpComplete, Scripts!Instance, Runners
<1>2. GadgetInv /\ [Scripts!Next]_Scripts!vars => GadgetInv'
  BY TreeStep, FlagStep, AloneStep, PlaceStep, SetUpStep DEF GadgetInv
<1> QED
  BY <1>1, <1>2, PTL DEF Scripts!Spec

\* A set-up that no other script disturbs does not fail, whatever an earlier
\* one, a crash or the daemon has left, and makes everything there is to make.
THEOREM SetUpMakesAll == Scripts!Spec => []SetUpComplete
<1>1. GadgetInv => SetUpComplete
  BY DEF GadgetInv
<1> QED
  BY <1>1, GadgetKept, PTL

\* A teardown that no other script disturbs has left nothing when it reports.
THEOREM TeardownLeavesNothing == Scripts!Spec => []TeardownClears
<1>1. GadgetInv => TeardownClears
  <2> SUFFICES ASSUME GadgetInv, NEW r \in DOMAIN to_run, alone,
                      Scripts!At(r, "Report")
               PROVE  Scripts!Clean
    BY DEF TeardownClears, Scripts!TeardownClears
  <2>1. to_run[r] # <<>> /\ Head(to_run[r])[1] = "Report"
    BY DEF Scripts!At
  <2>2. PICK i \in 1 .. 33 : Reached(i) /\ Place(Head(to_run[r]), i)
    BY <2>1, Somewhere DEF GadgetInv
  <2>3. i = 14
    BY <2>1, <2>2 DEF Place
  <2>4. dirs = {}
    <3>1. \A d \in Scripts!Dirs : ~(14 <= Removed[d]) /\ ~(14 > Made[d])
      BY Numbers
    <3> QED
      BY <2>2, <2>3, <3>1 DEF Reached, DirsAt, GadgetInv, TreeInv
  <2>5. mounted = "none" /\ flag = "none"
    BY <2>2, <2>3 DEF Reached, RestAt
  <2> QED
    BY <2>4, <2>5 DEF GadgetInv, TreeInv, Scripts!Clean
<1> QED
  BY <1>1, GadgetKept, PTL

\* A daemon that reads of UAC1 when the gadget is mounted, and gets hold of it,
\* finds it there, whatever another boot or script has left in the flag; if no
\* two scripts ran at once since the last teardown.
THEOREM FlagIsTrue == Scripts!Spec => FlagTrue
<1>1. GadgetInv /\ [Scripts!Next]_Scripts!vars
        => [daemon = "checked" /\ daemon' = "opened" /\ orderly /\ uac1
               => "uac1" \in links]_Scripts!vars
  <2> SUFFICES ASSUME GadgetInv, Scripts!Next, daemon = "checked",
                      daemon' = "opened", orderly, uac1
               PROVE  "uac1" \in links
    OBVIOUS
  <2>1. Scripts!OpenEp0
    BY DEF Scripts!Next, Scripts!Step, Scripts!Interrupt, Scripts!User,
           Scripts!Reboot, Scripts!CheckFlag, Scripts!BindUdc,
           Scripts!UnbindUdc, Scripts!CloseFds, Scripts!Exit, Scripts!Kill,
           Scripts!Unbind, Scripts!Umount, Scripts!Unlink, Scripts!Rmdir,
           Scripts!Unload, Scripts!Load, Scripts!RmFlag, Scripts!Report,
           Scripts!Detect, Scripts!Mkdir, Scripts!Write, Scripts!Link,
           Scripts!Mount, Scripts!Verify, Scripts!WriteFlag, Scripts!Ready,
           Scripts!process
  <2>2. mounted = "current"
    BY <2>1 DEF Scripts!OpenEp0
  <2> QED
    BY <2>2 DEF GadgetInv, FlagInv
<1> QED
  BY <1>1, GadgetKept, PTL DEF Scripts!Spec, FlagTrue, Scripts!FlagTrue

\* The tree is one that ConfigFS can have, and the gadget is bound only while
\* the daemon has its endpoints open.
THEOREM GadgetTypes == Scripts!Spec => []Scripts!TypeOK
<1> DEFINE DaemonOK ==
        daemon \in {"off", "checked", "early", "opened", "up", "unbound",
                    "tearing down", "failed"}
<1>1. Scripts!Init => DaemonOK
  BY DEF Scripts!Init
<1>2. DaemonOK /\ [Scripts!Next]_Scripts!vars => DaemonOK'
  BY DEF Scripts!Next, Scripts!Step, Scripts!Interrupt, Scripts!User,
         Scripts!Reboot, Scripts!CheckFlag, Scripts!OpenEp0, Scripts!BindUdc,
         Scripts!UnbindUdc, Scripts!CloseFds, Scripts!Exit, Scripts!Kill,
         Scripts!Unbind, Scripts!Umount, Scripts!Unlink, Scripts!Rmdir,
         Scripts!Unload, Scripts!Load, Scripts!RmFlag, Scripts!Report,
         Scripts!Detect, Scripts!Mkdir, Scripts!Write, Scripts!Link,
         Scripts!Mount, Scripts!Verify, Scripts!WriteFlag, Scripts!Ready,
         Scripts!process, Scripts!vars
<1>3. GadgetInv /\ DaemonOK => Scripts!TypeOK
  <2> SUFFICES ASSUME GadgetInv, DaemonOK PROVE Scripts!TypeOK
    OBVIOUS
  <2>1. TreeInv /\ FlagInv /\ AloneInv
    BY DEF GadgetInv
  <2>2. links # {} => links \cup {"config"} \subseteq dirs
    BY <2>1 DEF TreeInv
  <2>3. "current" \in {mounted, ep0} => "ffs" \in dirs
    BY <2>1 DEF TreeInv
  <2>4. udc # "none" => links # {} /\ ep0 = "current" /\ dummy
    BY <2>1 DEF TreeInv
  <2> QED
    BY <2>1, <2>2, <2>3, <2>4 DEF TreeInv, FlagInv, AloneInv, Scripts!TypeOK
<1> QED
  BY <1>1, <1>2, <1>3, GadgetKept, PTL DEF Scripts!Spec
=============================================================================
