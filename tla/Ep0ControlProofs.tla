-------------------------- MODULE Ep0ControlProofs --------------------------
(***************************************************************************)
(* Theorems about Ep0Control for every set of requests, of whatever        *)
(* length, and every number of them: types, and that usb_handle_ep0 on     *)
(* FunctionFS implements the control pipe.                                 *)
(***************************************************************************)
EXTENDS Ep0Control, TLAPS

(* The inductive invariant. *)

\* A request is in hand, with no call of ep0 made for it.
InHand == pc \in {"setup", "asking"}

\* FunctionFS holds the host's last request, or waits in it for the host.
Open == ffs = "PENDING" \/ pc = "queued"

\* What usb_handle_ep0 took from FunctionFS is what the host asked last,
\* until the host asks anew.
SetupInv ==
    /\ Open => setup = [n |-> asked, r |-> request] /\ "SETUP" \notin events
    /\ InHand => ffs # "NO_SETUP"
    /\ pc = "queued" => ffs = "NO_SETUP"
    /\ pc = "forwarding" => ffs = "NO_SETUP"

\* A call that waits goes with the direction of its request, and no request
\* is left to FunctionFS but one the host only wants acknowledged.
CallInv ==
    /\ pc = "asking" => setup.r.dir = "in"
    /\ pc = "queued" => (call = "write" <=> setup.r.dir = "in")
    /\ pc = "poll" /\ ffs = "PENDING" =>
           setup.r.dir = "out" /\ ~HandOn(setup.r)

\* The report of a request is taken after all the reports before it.
ReportInv ==
    /\ forwarded <= received
    /\ "SETUP" \in events => received < asked
    /\ InHand \/ pc = "queued" => received < setup.n
    /\ pc = "forwarding" => received = setup.n /\ forwarded < setup.n

IInv == TypeOK /\ SetupInv /\ CallInv /\ ReportInv
-----------------------------------------------------------------------------
(* The invariant holds at first and every step keeps it. *)

LEMMA InitIInv == Init => IInv
  BY Ep0Assumption
     DEF Init, IInv, TypeOK, SetupInv, CallInv, ReportInv, InHand, Open,
         Lifecycle

\* A request has a length and a direction.
LEMMA RequestFields ==
    ASSUME TypeOK
    PROVE  /\ setup.n \in 0 .. asked /\ setup.r \in Requests
           /\ setup.r.len \in Nat /\ setup.r.dir \in {"in", "out"}
           /\ setup = [n |-> setup.n, r |-> setup.r]
  BY Ep0Assumption DEF TypeOK

\* A call of ep0 for the request in hand.
LEMMA CallKeeps ==
    ASSUME IInv, InHand, NEW op \in {"write", "read"}, Call(op)
    PROVE  IInv'
<1> USE DEF IInv, Call
<1>1. TypeOK'
  BY DEF TypeOK, Completed, host
<1>2. SetupInv'
  BY DEF TypeOK, SetupInv, InHand, Open, Completed, host
<1>3. pc' = "queued" => (op = "write" <=> setup.r.dir = "in")
  BY RequestFields
<1>4. CallInv'
  BY <1>3, RequestFields DEF CallInv
<1>5. ReportInv'
  BY RequestFields DEF TypeOK, ReportInv, InHand, Completed, host
<1> QED
  BY <1>1, <1>2, <1>4, <1>5

\* The handler's own steps.
LEMMA HandlerKeeps ==
    ASSUME IInv, Handler
    PROVE  IInv'
<1> USE DEF IInv
<1>0. TypeOK
  OBVIOUS
<1>1. CASE EventsCancelled
  BY <1>1, RequestFields
     DEF EventsCancelled, TypeOK, SetupInv, CallInv, ReportInv, InHand, Open,
         code, host
<1>2. CASE EventsAnswer
  BY <1>2, RequestFields
     DEF EventsAnswer, TypeOK, SetupInv, CallInv, ReportInv, InHand, Open,
         code, Completed
<1>3. CASE ReadEvents
  <2>1. TypeOK'
    BY <1>3 DEF ReadEvents, TypeOK, host
  <2>2. SetupInv' /\ CallInv'
    BY <1>3 DEF ReadEvents, SetupInv, CallInv, InHand, Open, host
  <2>3. ReportInv'
    BY <1>3 DEF ReadEvents, TypeOK, ReportInv, InHand, host
  <2> QED
    BY <2>1, <2>2, <2>3
<1>4. CASE AnswerConstant
  BY <1>4, CallKeeps DEF AnswerConstant, InHand
<1>5. CASE AskController
  BY <1>5
     DEF AskController, TypeOK, SetupInv, CallInv, ReportInv, InHand, Open,
         kernel, host
<1>6. CASE AnswerFeature
  BY <1>6, CallKeeps DEF AnswerFeature, InHand
<1>7. CASE AnswerOther
  BY <1>7, RequestFields, CallKeeps DEF AnswerOther, InHand
<1>8. CASE RefuseIn
  BY <1>8, CallKeeps DEF RefuseIn, Refuse, InHand
<1>9. CASE TakeReport
  BY <1>9, CallKeeps DEF TakeReport, InHand
<1>10. CASE IgnoreEmpty
  BY <1>10, RequestFields
     DEF IgnoreEmpty, TypeOK, SetupInv, CallInv, ReportInv, InHand, Open,
         kernel, host, HandOn
<1>11. CASE Acknowledge
  <2>1. CASE setup.r.len = 0
    BY <1>11, <2>1, CallKeeps DEF Acknowledge, InHand
  <2>2. CASE setup.r.len # 0
    BY <1>11, <2>2, RequestFields
       DEF Acknowledge, TypeOK, SetupInv, CallInv, ReportInv, InHand, Open,
           kernel, host, HandOn, Is
  <2> QED
    BY <2>1, <2>2
<1>12. CASE RefuseOut
  BY <1>12, CallKeeps DEF RefuseOut, Refuse, InHand
<1>13. CASE CallDone
  <2>1. TypeOK'
    BY <1>13, RequestFields DEF CallDone, TypeOK, kernel, Completed
  <2>2. SetupInv' /\ CallInv'
    BY <1>13
       DEF CallDone, SetupInv, CallInv, InHand, Open, kernel, Completed
  <2>3. ReportInv'
    BY <1>13, RequestFields
       DEF CallDone, TypeOK, SetupInv, ReportInv, InHand, Open, kernel,
           Completed
  <2> QED
    BY <2>1, <2>2, <2>3
<1>14. CASE ForwardReport
  BY <1>14, RequestFields
     DEF ForwardReport, TypeOK, SetupInv, CallInv, ReportInv, InHand, Open,
         kernel, host
<1> QED
  BY <1>1, <1>2, <1>3, <1>4, <1>5, <1>6, <1>7, <1>8, <1>9, <1>10, <1>11,
     <1>12, <1>13, <1>14 DEF Handler

\* The host, the bus, the controller and the rest of the main thread.
LEMMA WorldKeeps ==
    ASSUME IInv, World \/ StopServicing \/ StartLoop
    PROVE  IInv'
<1> USE DEF IInv
<1>1. CASE HostAsks
  <2> USE <1>1 DEF HostAsks, AddEvent, Interrupted
  <2>1. TypeOK'
    BY RequestFields DEF TypeOK, Lifecycle
  <2>2. SetupInv' /\ CallInv'
    BY RequestFields DEF TypeOK, SetupInv, CallInv, InHand, Open
  <2>3. ReportInv'
    BY RequestFields DEF TypeOK, ReportInv, InHand
  <2> QED
    BY <2>1, <2>2, <2>3
<1>2. CASE HostGivesUp
  BY <1>2
     DEF HostGivesUp, TypeOK, SetupInv, CallInv, ReportInv, InHand, Open,
         code, kernel
<1>3. CASE HostEvent
  <2> PICK e \in Lifecycle \ events :
         /\ AddEvent(e)
         /\ IF e \in {"ENABLE", "DISABLE"} THEN Interrupted ELSE UNCHANGED pc
    BY <1>3 DEF HostEvent
  <2> USE <1>3 DEF HostEvent, Interrupted, host
  <2>0. /\ events' \subseteq Lifecycle \cup {"SETUP"}
        /\ "SETUP" \in events' => "SETUP" \in events
        /\ ffs' = IF ffs = "PENDING" THEN "CANCELLED" ELSE ffs
    BY DEF AddEvent, TypeOK, Lifecycle
  <2>1. pc' \in {pc, "poll"} /\ (pc' # pc => pc = "queued")
    OBVIOUS
  <2>2. TypeOK'
    BY <2>0, <2>1 DEF TypeOK
  <2>3. SetupInv' /\ CallInv' /\ ReportInv'
    BY <2>0, <2>1
       DEF TypeOK, SetupInv, CallInv, ReportInv, InHand, Open
  <2> QED
    BY <2>2, <2>3
<1>4. CASE LoseController
  BY <1>4
     DEF LoseController, TypeOK, SetupInv, CallInv, ReportInv, InHand, Open,
         code, kernel, host
<1>5. CASE EndLoop
  BY <1>5
     DEF EndLoop, TypeOK, SetupInv, CallInv, ReportInv, InHand, Open, code,
         kernel
<1>6. CASE StopServicing \/ StartLoop
  BY <1>6
     DEF StopServicing, StartLoop, TypeOK, SetupInv, CallInv, ReportInv,
         InHand, Open, code, kernel, host
<1> QED
  BY <1>1, <1>2, <1>3, <1>4, <1>5, <1>6 DEF World

LEMMA NextKeeps == IInv /\ [Next]_vars => IInv'
<1> SUFFICES ASSUME IInv, [Next]_vars PROVE IInv'
  OBVIOUS
<1>1. CASE Next
  BY <1>1, HandlerKeeps, WorldKeeps DEF Next
<1>2. CASE UNCHANGED vars
  BY <1>2
     DEF vars, code, kernel, host, IInv, TypeOK, SetupInv, CallInv, ReportInv,
         InHand, Open
<1> QED
  BY <1>1, <1>2

\* The request in hand, the call that waits for the host and the reports
\* taken and handed on stay in step with what the host asked.
THEOREM Invariance == Spec => []IInv
<1> QED
  BY InitIInv, NextKeeps, PTL DEF Spec

\* The variables of usb_handle_ep0 and FunctionFS keep their types.
THEOREM TypeCorrect == Spec => []TypeOK
<1>1. IInv => TypeOK
  BY DEF IInv
<1> QED
  BY <1>1, Invariance, PTL
-----------------------------------------------------------------------------
(* The control pipe is implemented: every step of usb_handle_ep0, FunctionFS *)
(* or the host is one of the pipe's or changes nothing of it.                *)

\* A call of ep0 stalls what the host can do without, or changes nothing yet.
LEMMA CallMaps ==
    ASSUME IInv, InHand, NEW op, Call(op),
           op = (IF setup.r.dir = "in" THEN "write" ELSE "read")
              \/ setup.r \notin Needed
    PROVE  [Pipe!Next]_Pipe!vars
<1>1. CASE UNCHANGED host
  BY <1>1 DEF Call, host, Pipe!vars
<1>2. CASE ffs = "PENDING" /\ Completed("stall") /\ setup.r \notin Needed
  <2>1. setup.r = request
    BY <1>2, RequestFields DEF IInv, SetupInv, Open
  <2>2. CASE outcome = "waits"
    BY <1>2, <2>1, <2>2
       DEF Call, Completed, Pipe!Next, Pipe!Complete, Pipe!Fits
  <2>3. CASE outcome # "waits"
    BY <1>2, <2>3 DEF Call, Completed, Pipe!vars
  <2> QED
    BY <2>2, <2>3
<1> QED
  BY <1>1, <1>2 DEF Call

LEMMA HandlerMaps ==
    ASSUME IInv, Handler
    PROVE  [Pipe!Next]_Pipe!vars
<1>0. TypeOK
  BY DEF IInv
<1>1. CASE EventsCancelled \/ ReadEvents \/ AskController \/ IgnoreEmpty
  BY <1>1
     DEF EventsCancelled, ReadEvents, AskController, IgnoreEmpty, host,
         Pipe!vars
<1>2. CASE EventsAnswer
  <2>1. /\ setup.r = request /\ setup.r.dir = "out" /\ ~HandOn(setup.r)
        /\ request \in Requests
    BY <1>2, RequestFields DEF EventsAnswer, IInv, SetupInv, CallInv, Open
  <2>2. CASE outcome = "waits"
    BY <1>2, <2>1, <2>2
       DEF EventsAnswer, Completed, Pipe!Next, Pipe!Complete, Pipe!Fits
  <2>3. CASE outcome # "waits"
    BY <1>2, <2>3 DEF EventsAnswer, Completed, Pipe!vars
  <2> QED
    BY <2>2, <2>3
<1>3. CASE AnswerConstant
  BY <1>3, CallMaps DEF AnswerConstant, InHand
<1>4. CASE AnswerFeature
  BY <1>4, CallMaps DEF AnswerFeature, InHand, IInv, CallInv
<1>5. CASE AnswerOther
  BY <1>5, CallMaps DEF AnswerOther, InHand
<1>6. CASE RefuseIn
  <2>1. setup.r \notin Needed
    BY <1>6 DEF RefuseIn, Needed, Standard, Class, Is
  <2> QED
    BY <1>6, <2>1, CallMaps DEF RefuseIn, Refuse, InHand
<1>7. CASE TakeReport
  BY <1>7, CallMaps DEF TakeReport, InHand
<1>8. CASE Acknowledge
  <2>1. CASE setup.r.len = 0
    BY <1>8, <2>1, CallMaps DEF Acknowledge, InHand
  <2>2. CASE setup.r.len # 0
    BY <1>8, <2>2 DEF Acknowledge, host, Pipe!vars
  <2> QED
    BY <2>1, <2>2
<1>9. CASE RefuseOut
  BY <1>9, CallMaps DEF RefuseOut, Refuse, InHand
<1>10. CASE CallDone
  <2>1. /\ setup.r = request /\ setup.n = asked /\ request \in Requests
        /\ call = "write" <=> request.dir = "in"
        /\ request.dir \in {"in", "out"}
    BY <1>10, RequestFields DEF CallDone, IInv, SetupInv, CallInv, Open
  <2>2. HandOn(request) => request.dir = "out"
    BY DEF HandOn
  <2>3. Pipe!Complete
    BY <1>10, <2>1, <2>2
       DEF CallDone, Completed, Pipe!Complete, Pipe!Fits
  <2> QED
    BY <2>3 DEF Pipe!Next
<1>11. CASE ForwardReport
  BY <1>11
     DEF ForwardReport, IInv, ReportInv, host, Pipe!Next, Pipe!Forward,
         Pipe!vars
<1> QED
  BY <1>1, <1>2, <1>3, <1>4, <1>5, <1>6, <1>7, <1>8, <1>9, <1>10, <1>11
     DEF Handler

LEMMA WorldMaps ==
    ASSUME IInv, World \/ StopServicing \/ StartLoop
    PROVE  [Pipe!Next]_Pipe!vars
<1>1. CASE HostAsks
  BY <1>1 DEF HostAsks, Pipe!Next, Pipe!Ask
<1>2. CASE HostGivesUp
  BY <1>2 DEF HostGivesUp, Pipe!Next, Pipe!GiveUp
<1>3. CASE HostEvent \/ LoseController \/ StopServicing \/ StartLoop
  BY <1>3
     DEF HostEvent, LoseController, StopServicing, StartLoop, host, Pipe!vars
<1>4. CASE EndLoop
  BY <1>4 DEF EndLoop, Pipe!Next, Pipe!GiveUp, Pipe!vars
<1> QED
  BY <1>1, <1>2, <1>3, <1>4 DEF World

\* usb_handle_ep0 on FunctionFS is the control pipe a host expects.
THEOREM Refinement == Spec => ImplementsControlPipe
<1>1. Init => Pipe!Init
  BY DEF Init, Pipe!Init
<1>2. IInv /\ [Next]_vars => [Pipe!Next]_Pipe!vars
  <2> SUFFICES ASSUME IInv, [Next]_vars PROVE [Pipe!Next]_Pipe!vars
    OBVIOUS
  <2>1. CASE Next
    BY <2>1, HandlerMaps, WorldMaps DEF Next
  <2>2. CASE UNCHANGED vars
    BY <2>2 DEF vars, host, Pipe!vars
  <2> QED
    BY <2>1, <2>2
<1> QED
  BY <1>1, <1>2, Invariance, PTL DEF Spec, ImplementsControlPipe, Pipe!Spec
=============================================================================
