------------------------- MODULE DriverOutputProofs -------------------------
(***************************************************************************)
(* Theorems about what the host's driver sends to a DualSense: that its    *)
(* reports are numbered in turn, that the controller ends up with the      *)
(* newest of what it was to be set to, and the sound where the headphones  *)
(* are.                                                                    *)
(***************************************************************************)
EXTENDS DriverOutput, TLAPS

-----------------------------------------------------------------------------
(* The inductive invariant. *)

\* Until the lights are set nobody has called the worker, but a program that
\* plays early.
Starting == {"gamepad", "numbered", "reset"}

\* The number that the next report to be sent has or will take.
NextToSend ==
    CASE mode = "reset" -> createSeq
      [] worker \in {"building", "sending"} -> report.seq
      [] OTHER -> output_seq

\* One report at a time takes a number and is sent before the next takes one.
SeqInv ==
  config.bus = "bt" /\ ~config.early =>
    /\ mode \in Starting => callers = {} /\ ~pending /\ worker = "idle"
    /\ mode = "numbered" => createSeq = output_seq
    /\ mode = "reset" => output_seq = Next_seq(createSeq)
    /\ worker = "numbered" => report.seq = output_seq
    /\ worker \in {"building", "sending"} => output_seq = Next_seq(report.seq)
    /\ sent = NextToSend
    /\ last # -1 => sent = Next_seq(last)

\* A report is empty until it is built, and does not route the sound of a
\* controller with nothing in its jack.
ReportInv ==
    /\ worker # "sending" => DOMAIN report.set = {} /\ report.route = "as is"
    /\ config.jack = {} => report.route = "as is"

\* What is not flagged is on its way or with the controller.
SetInv ==
    config.jack = {} /\ ~config.gadget => \A c \in Controls \ {"leds"} : c \notin update =>
        IF c \in DOMAIN report.set THEN report.set[c] = wanted[c]
                                   ELSE shown[c] = wanted[c]

\* Where the sound is to go.
Target == IF Plugged("hp") THEN "headphones" ELSE "speaker"

\* A change in the jack is seen by a worker that is yet to build its report;
\* without one the sound goes, or is about to go, where it should.
RouteInv ==
  config.jack = {"hp"} =>
    /\ ~prev_plugged_state_valid => ~Plugged("hp") /\ ~Changed("hp")
    /\ Changed("hp") =>
          \/ "jack" \in callers \/ pending
          \/ worker \in {"numbered", "building"} \/ mode \in {"quiesced", "removed"}
    /\ prev_plugged_state_valid /\ ~Changed("hp") =>
          IF report.route = "as is" THEN route = Target
                                    ELSE report.route = Target

IInv == TypeOK /\ SeqInv /\ ReportInv /\ SetInv /\ RouteInv
-----------------------------------------------------------------------------
(* The arithmetic of the sequence number. *)

\* Quotient and remainder.
LEMMA DivRem ==
    ASSUME NEW q \in Nat \ {0}, NEW n \in Nat
    PROVE  /\ n \div q \in Int /\ n = q * (n \div q) + (n % q)
           /\ n % q \in 0 .. q - 1
  OBVIOUS

\* No number stands for none.
LEMMA SeqRange == \A n \in 0 .. SeqNumbers - 1 : n \in -1 .. SeqNumbers - 1
  BY OutputAssumption

\* To count on, from 15 to 0, is to add one modulo 16.
LEMMA NextSeqCounts ==
    ASSUME NEW n \in 0 .. SeqNumbers - 1
    PROVE  /\ Next_seq(n) = (n + 1) % SeqNumbers
           /\ Next_seq(n) \in 0 .. SeqNumbers - 1
<1> DEFINE q == SeqNumbers
           k == (n + 1) \div q
<1>1. q \in Nat \ {0} /\ n \in Nat /\ n + 1 \in Nat
  BY OutputAssumption
<1>2. k \in Int /\ n + 1 = q * k + ((n + 1) % q) /\ (n + 1) % q \in 0 .. q - 1
  BY <1>1, DivRem
<1> HIDE DEF k
<1>3. k >= 2 => q * k >= 2 * q
  BY <1>1, <1>2
<1>4. k <= -1 => q * k <= -q
  BY <1>1, <1>2
<1>5. k \in {0, 1}
  BY <1>1, <1>2, <1>3, <1>4
<1>6. CASE k = 0
  BY <1>1, <1>2, <1>6 DEF Next_seq
<1>7. CASE k = 1
  BY <1>1, <1>2, <1>7 DEF Next_seq
<1> QED
  BY <1>5, <1>6, <1>7
-----------------------------------------------------------------------------
(* Types. *)

\* No report is a report.
LEMMA NoReportType ==
    /\ NoReport \in [seq : 0 .. SeqNumbers - 1, set : {NoReport.set},
                     route : {"as is", "headphones", "speaker"}]
    /\ DOMAIN NoReport.set = {} /\ NoReport.route = "as is" /\ NoReport.seq = 0
<1>1. 0 \in 0 .. SeqNumbers - 1
  BY OutputAssumption
<1> QED
  BY <1>1 DEF NoReport

\* At first nothing is set.
LEMMA InitType == Init => TypeOK
<1> SUFFICES ASSUME Init PROVE TypeOK
  OBVIOUS
<1>1. 0 \in 0 .. SeqNumbers - 1 /\ -1 \in -1 .. SeqNumbers - 1
  BY OutputAssumption
<1>3. TypeOK!11 /\ TypeOK!12 /\ TypeOK!13
  BY NoReportType DEF Init
<1> QED
  BY <1>1, <1>3 DEF Init, TypeOK, Lights, Controls

\* A request adds one to the number of its control.
LEMMA NoteType ==
    ASSUME TypeOK, NEW c \in Controls, Note(c)
    PROVE  /\ wanted' \in [Controls -> Nat] /\ update' \subseteq Controls
           /\ callers' \subseteq Controls \cup {"jack"}
<1>1. /\ wanted \in [Controls -> Nat] /\ update \subseteq Controls
      /\ callers \subseteq Controls \cup {"jack"}
  BY DEF TypeOK
<1> QED
  BY <1>1 DEF Note

\* What arrives is a report, and of a report.
LEMMA ArrivesType ==
    ASSUME TypeOK, NEW r, Arrives(r),
           r.seq \in 0 .. SeqNumbers - 1, DOMAIN r.set \subseteq Controls,
           \A c \in DOMAIN r.set : r.set[c] \in Nat,
           r.route \in {"as is", "headphones", "speaker"}
    PROVE  /\ shown' \in [Controls -> Nat]
           /\ route' \in {"none", "headphones", "speaker"}
           /\ last' \in -1 .. SeqNumbers - 1 /\ sent' \in 0 .. SeqNumbers - 1
           /\ config' = config
<1> DEFINE set == IF config.gadget THEN Translated(r.set) ELSE r.set
<1>1. \A c \in DOMAIN set : set[c] \in Nat
  BY DEF Translated
<1>2. shown' \in [Controls -> Nat]
  <2>1. shown' = [c \in Controls |-> IF c \in DOMAIN set THEN set[c] ELSE shown[c]]
    BY DEF Arrives
  <2> QED
    BY <1>1, <2>1 DEF TypeOK
<1>3. sent' \in 0 .. SeqNumbers - 1
  <2>1. sent' = (sent + 1) % SeqNumbers /\ sent \in 0 .. SeqNumbers - 1
    BY DEF Arrives, TypeOK
  <2> QED
    BY <2>1, NextSeqCounts
<1>4. route' \in {"none", "headphones", "speaker"} /\ config' = config
  BY DEF Arrives, TypeOK
<1>5. last' \in -1 .. SeqNumbers - 1
  BY SeqRange DEF Arrives
<1> QED
  BY <1>2, <1>3, <1>4, <1>5

\* Every step keeps the types.
LEMMA TypeStep == ASSUME TypeOK, [Next]_vars PROVE TypeOK'
<1> USE DEF requests, jack, queue, build, controller
<1>1. CASE WorkerStarts
  <2>1. report' \in [seq : 0 .. SeqNumbers - 1, set : {report'.set},
                     route : {"as is", "headphones", "speaker"}]
        /\ DOMAIN report'.set = {}
    BY <1>1 DEF WorkerStarts, TypeOK, NoReport
  <2> QED
    BY <1>1, <2>1 DEF WorkerStarts, TypeOK
<1>2. CASE WorkerMovesOn \/ ResetMovesOn
  <2>1. output_seq' \in 0 .. SeqNumbers - 1
    BY <1>2, NextSeqCounts DEF WorkerMovesOn, ResetMovesOn, MoveOn, TypeOK
  <2> QED
    BY <1>2, <2>1 DEF WorkerMovesOn, ResetMovesOn, TypeOK
<1>3. CASE WorkerBuilds
  <2>1. Marked \subseteq Controls
    BY DEF Marked, TypeOK
  <2>2. /\ report' \in [seq : 0 .. SeqNumbers - 1, set : {report'.set},
                        route : {"as is", "headphones", "speaker"}]
        /\ report'.set = [c \in Marked |-> wanted[c]]
    BY <1>3 DEF WorkerBuilds, TypeOK
  <2>3. /\ DOMAIN report'.set \subseteq Controls
        /\ \A c \in DOMAIN report'.set : report'.set[c] \in Nat
    BY <2>1, <2>2 DEF TypeOK
  <2> QED
    BY <1>3, <2>2, <2>3 DEF WorkerBuilds, TypeOK
<1>4. CASE WorkerSends
  <2>1. /\ shown' \in [Controls -> Nat]
        /\ route' \in {"none", "headphones", "speaker"}
        /\ last' \in -1 .. SeqNumbers - 1 /\ sent' \in 0 .. SeqNumbers - 1
        /\ config' = config
    BY <1>4, ArrivesType DEF WorkerSends, TypeOK
  <2>2. report' \in [seq : 0 .. SeqNumbers - 1, set : {report'.set},
                     route : {"as is", "headphones", "speaker"}]
        /\ DOMAIN report'.set = {}
    BY <1>4, NoReportType DEF WorkerSends
  <2> QED
    BY <1>4, <2>1, <2>2 DEF WorkerSends, TypeOK
<1>5. CASE ResetSends
  <2>1. DEFINE r == [NoReport EXCEPT !.seq = createSeq]
  <2>2. r.seq = createSeq /\ DOMAIN r.set = {} /\ r.route = "as is"
    BY DEF NoReport
  <2>3. Arrives(r)
    BY <1>5 DEF ResetSends
  <2> HIDE DEF r
  <2>4. /\ shown' \in [Controls -> Nat]
        /\ route' \in {"none", "headphones", "speaker"}
        /\ last' \in -1 .. SeqNumbers - 1 /\ sent' \in 0 .. SeqNumbers - 1
        /\ config' = config
    BY <2>2, <2>3, ArrivesType DEF TypeOK
  <2> QED
    BY <1>5, <2>4 DEF ResetSends, TypeOK, Lights
<1>6. CASE ResetLeds \/ FlagPlayerLeds \/ Bound \/ Bar \/ CancelWork
  BY <1>6 DEF ResetLeds, FlagPlayerLeds, Bound, Bar, CancelWork, TypeOK, Lights,
              Controls
<1>7. CASE SetPlayerLeds
  <2>1. wanted' \in [Controls -> Nat]
    <3>1. wanted \in [Controls -> Nat] /\ "leds" \in Controls
      BY DEF TypeOK, Controls
    <3> QED
      BY <1>7, <3>1 DEF SetPlayerLeds
  <2> QED
    BY <1>7, <2>1 DEF SetPlayerLeds, TypeOK, Lights, Controls
<1>8. ASSUME NEW c \in Controls, Note(c), mode' \in {mode, "leds"}
      PROVE  TypeOK'
  <2>1. /\ wanted' \in [Controls -> Nat] /\ update' \subseteq Controls
        /\ callers' \subseteq Controls \cup {"jack"}
    BY <1>8, NoteType
  <2> QED
    BY <1>8, <2>1 DEF Note, TypeOK, Lights
<1>9. CASE SetLightbar \/ MuteButton
  <2>1. {"lightbar", "mic"} \subseteq Controls
    BY DEF Controls
  <2> QED
    BY <1>8, <1>9, <2>1 DEF SetLightbar, MuteButton
<1>10. ASSUME NEW c \in Controls, Request(c)
       PROVE  TypeOK'
  BY <1>8, <1>10 DEF Request
<1>11. ASSUME NEW value \in SUBSET config.jack, JackReport(value)
       PROVE  TypeOK'
  BY <1>11 DEF JackReport, TypeOK
<1>12. CASE Scheduling
  BY <1>12 DEF Scheduling, ScheduleFor, Schedule, TypeOK
<1>13. CASE UNCHANGED vars
  BY <1>13 DEF vars, TypeOK
<1> QED
  BY <1>1, <1>2, <1>3, <1>4, <1>5, <1>6, <1>7, <1>9, <1>10, <1>11, <1>12, <1>13
  DEF Next, Worker, Create, Input
-----------------------------------------------------------------------------
(* The steps. *)

\* The setting stays.
LEMMA ConfigStays == ASSUME [Next]_vars PROVE config' = config
  BY DEF Next, Worker, Create, Input, Scheduling, WorkerStarts, WorkerMovesOn,
         WorkerBuilds, WorkerSends, ResetLeds, ResetMovesOn, ResetSends,
         SetLightbar, FlagPlayerLeds, SetPlayerLeds, Bound, ScheduleFor,
         MuteButton, JackReport, Request, Note, Bar, CancelWork, Arrives,
         controller, vars

\* What a new report leaves as it is, the numbers included.
Numbering == <<output_seq, createSeq, report, last, sent, worker>>

\* Nobody comes between the report that took a number and its being sent.
LEMMA SeqStep == ASSUME TypeOK, SeqInv, [Next]_vars PROVE SeqInv'
<1> SUFFICES ASSUME config.bus = "bt", ~config.early PROVE SeqInv'
  BY ConfigStays DEF SeqInv
<1> USE DEF SeqInv, NextToSend, Starting
<1>0. config' = config
  BY ConfigStays
<1> USE DEF requests, jack, queue, build, controller
<1>1. CASE WorkerStarts
  <2>1. report'.seq = output_seq
    BY <1>1, NoReportType DEF WorkerStarts, NoReport
  <2> QED
    BY <1>0, <1>1, <2>1 DEF WorkerStarts
<1>2. CASE WorkerMovesOn
  BY <1>0, <1>2 DEF WorkerMovesOn, MoveOn
<1>3. CASE WorkerBuilds
  <2>1. report'.seq = report.seq
    BY <1>3 DEF WorkerBuilds, TypeOK
  <2> QED
    BY <1>0, <1>3, <2>1 DEF WorkerBuilds
<1>4. CASE WorkerSends
  <2>1. last' = report.seq /\ sent' = (sent + 1) % SeqNumbers
    BY <1>4 DEF WorkerSends, Arrives
  <2>2. sent = report.seq /\ output_seq = Next_seq(report.seq) /\ mode \notin Starting
    BY <1>4 DEF WorkerSends
  <2>3. sent' = output_seq
    BY <2>1, <2>2, NextSeqCounts DEF TypeOK
  <2> QED
    BY <1>0, <1>4, <2>1, <2>2, <2>3 DEF WorkerSends
<1>5. CASE ResetLeds
  BY <1>0, <1>5 DEF ResetLeds
<1>6. CASE ResetMovesOn
  BY <1>0, <1>6 DEF ResetMovesOn, MoveOn
<1>7. CASE ResetSends
  <2>1. last' = createSeq /\ sent' = (sent + 1) % SeqNumbers
    BY <1>7 DEF ResetSends, Arrives, NoReport
  <2>2. sent = createSeq /\ output_seq = Next_seq(createSeq) /\ worker = "idle"
    BY <1>7 DEF ResetSends
  <2>3. sent' = output_seq
    BY <2>1, <2>2, NextSeqCounts DEF TypeOK
  <2> QED
    BY <1>0, <1>7, <2>1, <2>2, <2>3 DEF ResetSends
<1>8. ASSUME UNCHANGED Numbering, mode \notin Starting, mode' \notin Starting
      PROVE  SeqInv'
  BY <1>0, <1>8 DEF Numbering
<1>9. CASE \/ SetLightbar \/ FlagPlayerLeds \/ SetPlayerLeds \/ Bound
           \/ MuteButton \/ Bar \/ CancelWork
  <2>1. UNCHANGED Numbering
    BY <1>9 DEF SetLightbar, FlagPlayerLeds, SetPlayerLeds, Bound, MuteButton,
                Note, Bar, CancelWork, Numbering
  <2>2. mode \notin Starting /\ mode' \notin Starting
    BY <1>9 DEF SetLightbar, FlagPlayerLeds, SetPlayerLeds, Bound, MuteButton,
                Bar, CancelWork
  <2> QED
    BY <1>8, <2>1, <2>2
<1>10. ASSUME NEW c \in Controls, Request(c)
       PROVE  SeqInv'
  BY <1>8, <1>10 DEF Request, Note, Numbering
<1>11. ASSUME NEW value \in SUBSET config.jack, JackReport(value)
       PROVE  SeqInv'
  BY <1>8, <1>11 DEF JackReport, Numbering
<1>12. CASE Scheduling
  <2>1. UNCHANGED <<Numbering, mode>> /\ callers # {}
    BY <1>12 DEF Scheduling, ScheduleFor, Numbering
  <2> QED
    BY <1>8, <2>1
<1>13. CASE UNCHANGED vars
  BY <1>13 DEF vars
<1> QED
  BY <1>1, <1>2, <1>3, <1>4, <1>5, <1>6, <1>7, <1>9, <1>10, <1>11, <1>12, <1>13
  DEF Next, Worker, Create, Input

\* Where the jack detects nothing there is nothing to route.
LEMMA NothingPlugged == TypeOK /\ config.jack = {} => ~Changed("hp")
<1> SUFFICES ASSUME TypeOK, config.jack = {} PROVE ~Changed("hp")
  OBVIOUS
<1>1. "hp" \notin plugged_state /\ "hp" \notin prev_plugged_state
  BY DEF TypeOK
<1> QED
  BY <1>1 DEF Changed, Plugged

\* Only the worker that builds a report fills it.
LEMMA ReportStep == ASSUME TypeOK, ReportInv, [Next]_vars PROVE ReportInv'
<1> USE DEF ReportInv, requests, jack, queue, build, controller
<1>0. config' = config
  BY ConfigStays
<1>1. CASE WorkerStarts
  <2>1. DOMAIN report'.set = {} /\ report'.route = "as is"
    BY <1>1 DEF WorkerStarts, NoReport
  <2> QED
    BY <1>1, <2>1 DEF WorkerStarts
<1>2. CASE WorkerBuilds
  <2>1. config.jack = {} => ~Changed("hp")
    BY NothingPlugged
  <2>2. ~Changed("hp") => report'.route = "as is"
    BY <1>2 DEF WorkerBuilds, TypeOK
  <2> QED
    BY <1>0, <1>2, <2>1, <2>2 DEF WorkerBuilds
<1>3. CASE WorkerSends
  BY <1>3, NoReportType DEF WorkerSends
<1>4. CASE UNCHANGED <<report, worker>>
  BY <1>0, <1>4
<1>5. CASE WorkerMovesOn
  BY <1>0, <1>5 DEF WorkerMovesOn
<1>6. CASE \/ Create \/ Scheduling \/ Input \/ Bar \/ CancelWork
           \/ \E c \in Controls : Request(c)
           \/ UNCHANGED vars
  <2>1. UNCHANGED <<report, worker>>
    BY <1>6 DEF Create, ResetLeds, ResetMovesOn, ResetSends, SetLightbar,
                FlagPlayerLeds, SetPlayerLeds, Bound, Scheduling, ScheduleFor,
                Input, MuteButton, JackReport, Request, Note, Bar, CancelWork,
                vars
  <2> QED
    BY <1>4, <2>1
<1> QED
  BY <1>1, <1>2, <1>3, <1>5, <1>6 DEF Next, Worker

\* A flag is cleared only by a report that has the value it is about.
LEMMA SetStep ==
    ASSUME TypeOK, ReportInv, SetInv, [Next]_vars
    PROVE  SetInv'
<1> SUFFICES ASSUME config.jack = {}, ~config.gadget,
                    NEW c \in Controls \ {"leds"}, c \notin update'
             PROVE  IF c \in DOMAIN report'.set
                    THEN report'.set[c] = wanted'[c]
                    ELSE shown'[c] = wanted'[c]
  BY ConfigStays DEF SetInv
<1> USE DEF requests, jack, queue, build, controller
<1>0. c \notin update => IF c \in DOMAIN report.set
                         THEN report.set[c] = wanted[c]
                         ELSE shown[c] = wanted[c]
  BY DEF SetInv
<1>1. CASE WorkerStarts
  <2>1. DOMAIN report.set = {} /\ DOMAIN report'.set = {}
    BY <1>1, NoReportType DEF WorkerStarts, NoReport, ReportInv
  <2> QED
    BY <1>0, <1>1, <2>1 DEF WorkerStarts
<1>2. CASE WorkerBuilds
  <2>1. Marked = update
    BY NothingPlugged DEF Marked
  <2>2. report'.set = [d \in update |-> wanted[d]] /\ DOMAIN report.set = {}
    BY <1>2, <2>1 DEF WorkerBuilds, TypeOK, ReportInv
  <2>3. CASE c \in update
    BY <1>2, <2>2, <2>3 DEF WorkerBuilds
  <2>4. CASE c \notin update
    BY <1>0, <1>2, <2>2, <2>4 DEF WorkerBuilds
  <2> QED
    BY <2>3, <2>4
<1>3. CASE WorkerSends
  <2>1. shown'[c] = IF c \in DOMAIN report.set THEN report.set[c] ELSE shown[c]
    BY <1>3 DEF WorkerSends, Arrives
  <2>2. DOMAIN report'.set = {} /\ UNCHANGED <<wanted, update>>
    BY <1>3, NoReportType DEF WorkerSends
  <2> QED
    BY <1>0, <2>1, <2>2
<1>4. CASE ResetSends
  <2>1. DOMAIN [NoReport EXCEPT !.seq = createSeq].set = {}
    BY DEF NoReport
  <2>2. shown'[c] = shown[c]
    BY <1>4, <2>1 DEF ResetSends, Arrives
  <2> QED
    BY <1>0, <1>4, <2>2 DEF ResetSends
<1>5. ASSUME NEW d \in Controls, Note(d) PROVE UNCHANGED <<report, shown>>
                                            /\ c \notin update /\ wanted'[c] = wanted[c]
  <2>1. update' = update \cup {d} /\ wanted' = [wanted EXCEPT ![d] = @ + 1]
        /\ UNCHANGED <<report, shown>>
    BY <1>5 DEF Note
  <2> QED
    BY <2>1 DEF TypeOK
<1>6. CASE SetLightbar \/ MuteButton \/ \E d \in Controls : Request(d)
  <2>1. \E d \in Controls : Note(d)
    BY <1>6 DEF SetLightbar, MuteButton, Request, Controls
  <2> QED
    BY <1>0, <1>5, <2>1
<1>7. CASE SetPlayerLeds
  <2>1. wanted'[c] = wanted[c] /\ UNCHANGED <<report, shown, update>>
    BY <1>7 DEF SetPlayerLeds, TypeOK
  <2> QED
    BY <1>0, <2>1
<1>8. CASE FlagPlayerLeds
  BY <1>0, <1>8 DEF FlagPlayerLeds
<1>9. CASE \/ WorkerMovesOn \/ ResetLeds \/ ResetMovesOn \/ Bound \/ Scheduling
           \/ (\E value \in SUBSET config.jack : JackReport(value))
           \/ Bar \/ CancelWork \/ UNCHANGED vars
  <2>1. UNCHANGED <<report, shown, wanted, update>>
    BY <1>9 DEF WorkerMovesOn, ResetLeds, ResetMovesOn, Bound, Scheduling,
                ScheduleFor, JackReport, Bar, CancelWork, vars
  <2> QED
    BY <1>0, <2>1
<1> QED
  BY <1>1, <1>2, <1>3, <1>4, <1>6, <1>7, <1>8, <1>9
  DEF Next, Worker, Create, Input

\* The jack changes only together with a call for the worker.
LEMMA RouteStep ==
    ASSUME TypeOK, ReportInv, RouteInv, [Next]_vars
    PROVE  RouteInv'
<1> SUFFICES ASSUME config.jack = {"hp"} PROVE RouteInv'
  BY ConfigStays DEF RouteInv
<1> USE DEF RouteInv, Target, requests, queue, build, controller
<1>0. config' = config
  BY ConfigStays
<1>1. CASE WorkerStarts
  <2>1. report.route = "as is" /\ report'.route = "as is"
    BY <1>1 DEF WorkerStarts, NoReport, ReportInv
  <2> QED
    BY <1>0, <1>1, <2>1 DEF WorkerStarts, Changed, Plugged, jack
<1>2. CASE WorkerMovesOn
  BY <1>0, <1>2 DEF WorkerMovesOn, Changed, Plugged, jack
<1>3. CASE WorkerBuilds
  <2>1. /\ report.route = "as is"
        /\ report'.route = CASE ~Changed("hp") -> "as is"
                             [] Changed("hp") /\ Plugged("hp") -> "headphones"
                             [] Changed("hp") /\ ~Plugged("hp") -> "speaker"
    BY <1>3 DEF WorkerBuilds, TypeOK, ReportInv
  <2>2. ~Changed("hp")' /\ (Plugged("hp")' <=> Plugged("hp"))
    BY <1>3 DEF WorkerBuilds, Changed, Plugged
  <2>3. UNCHANGED <<route, prev_plugged_state_valid>>
    BY <1>3 DEF WorkerBuilds
  <2> QED
    BY <1>0, <2>1, <2>2, <2>3
<1>4. CASE WorkerSends
  <2>1. route' = IF report.route = "as is" THEN route ELSE report.route
    BY <1>4 DEF WorkerSends, Arrives
  <2>2. report'.route = "as is"
    BY <1>4, NoReportType DEF WorkerSends
  <2> QED
    BY <1>0, <1>4, <2>1, <2>2 DEF WorkerSends, Changed, Plugged, jack
<1>5. CASE ResetSends
  <2>1. route' = route
    BY <1>5 DEF ResetSends, Arrives, NoReport
  <2> QED
    BY <1>0, <1>5, <2>1 DEF ResetSends, Changed, Plugged, jack
<1>6. ASSUME NEW value \in SUBSET config.jack, JackReport(value)
      PROVE  RouteInv'
  <2>1. \A S \in SUBSET {"hp"} : S = IF "hp" \in S THEN {"hp"} ELSE {}
    OBVIOUS
  <2>2. plugged_state' = value /\ "jack" \in callers' /\ prev_plugged_state_valid'
    BY <1>6 DEF JackReport
  <2>3. prev_plugged_state' \in SUBSET {"hp"} /\ prev_plugged_state' # value
    BY <1>6 DEF JackReport, TypeOK
  <2>4. ~("hp" \in value <=> "hp" \in prev_plugged_state')
    BY <2>1, <2>3
  <2>5. Changed("hp")'
    BY <2>2, <2>4 DEF Changed, Plugged
  <2> QED
    BY <1>0, <2>2, <2>5
<1>7. CASE Scheduling
  <2>1. UNCHANGED <<jack, report, route, worker, mode>>
    BY <1>7 DEF Scheduling, ScheduleFor
  <2>2. callers' = callers \/ pending' \/ mode = "quiesced"
    BY <1>7 DEF Scheduling, ScheduleFor, Schedule
  <2>3. pending => pending'
    BY <1>7 DEF Scheduling, ScheduleFor, Schedule
  <2> QED
    BY <1>0, <2>1, <2>2, <2>3 DEF Changed, Plugged, jack
<1>8. ASSUME UNCHANGED <<jack, report, route, worker, pending>>,
             callers \subseteq callers',
             mode \in {"quiesced", "removed"} => mode' \in {"quiesced", "removed"}
      PROVE  RouteInv'
  BY <1>0, <1>8 DEF Changed, Plugged, jack
<1>9. CASE \/ ResetLeds \/ ResetMovesOn \/ SetLightbar \/ FlagPlayerLeds
           \/ SetPlayerLeds \/ MuteButton \/ (\E c \in Controls : Request(c))
           \/ Bound \/ Bar \/ UNCHANGED vars
  BY <1>8, <1>9 DEF ResetLeds, ResetMovesOn, SetLightbar, FlagPlayerLeds,
                    SetPlayerLeds, MuteButton, Request, Note, Bound, Bar, vars
<1>10. CASE CancelWork
  BY <1>0, <1>10 DEF CancelWork, Changed, Plugged, jack
<1> QED
  BY <1>1, <1>2, <1>3, <1>4, <1>5, <1>6, <1>7, <1>9, <1>10
  DEF Next, Worker, Create, Input

\* At first nobody has set anything, plugged anything in or sent anything.
LEMMA InitParts == Init => SeqInv /\ ReportInv /\ SetInv /\ RouteInv
<1> SUFFICES ASSUME Init PROVE SeqInv /\ ReportInv /\ SetInv /\ RouteInv
  OBVIOUS
<1>1. SeqInv
  BY DEF Init, SeqInv, NextToSend, Starting
<1>2. ReportInv
  BY NoReportType DEF Init, ReportInv
<1>3. SetInv
  BY NoReportType DEF Init, SetInv
<1>4. RouteInv
  BY DEF Init, RouteInv, Plugged, Changed
<1> QED
  BY <1>1, <1>2, <1>3, <1>4

\* The invariant holds at first, and every step keeps it.
THEOREM Invariant == Spec => []IInv
<1>1. Init => IInv
  BY InitType, InitParts DEF IInv
<1>2. IInv /\ [Next]_vars => IInv'
  BY TypeStep, SeqStep, ReportStep, SetStep, RouteStep DEF IInv
<1> QED
  BY <1>1, <1>2, PTL DEF Spec
-----------------------------------------------------------------------------
(* What follows. *)

\* The variables keep to their values, the reports to their numbers.
THEOREM TypeCorrect == Spec => []TypeOK
<1>1. IInv => TypeOK
  BY DEF IInv
<1> QED
  BY <1>1, Invariant, PTL

\* The controller gets the numbers of its Bluetooth reports in turn, though
\* two threads draw them without a lock: dualsense_reset_leds has sent its
\* report before anything schedules dualsense_output_worker.
THEOREM InTurn == Spec => []NumberedInTurn
<1>1. IInv => NumberedInTurn
  <2> SUFFICES ASSUME IInv, config.bus = "bt", ~config.early, last # -1
               PROVE  sent = (last + 1) % SeqNumbers
    BY DEF NumberedInTurn
  <2>1. last \in 0 .. SeqNumbers - 1
    <3>1. last \in -1 .. SeqNumbers - 1
      BY DEF IInv, TypeOK
    <3> QED
      BY <3>1, OutputAssumption
  <2>2. sent = Next_seq(last)
    BY DEF IInv, SeqInv
  <2> QED
    BY <2>1, <2>2, NextSeqCounts
<1> QED
  BY <1>1, Invariant, PTL

\* When nothing is on its way, a controller that is not behind the gadget has
\* the newest of what it was set to, whoever called dualsense_output_worker
\* while it was at work.
THEOREM Latest == Spec => [](~config.gadget => LatestShown)
<1>1. IInv => (~config.gadget => LatestShown)
  <2> SUFFICES ASSUME IInv, ~config.gadget, Settled, config.jack = {},
                      NEW c \in Controls \ {"leds"}
               PROVE  shown[c] = wanted[c]
    BY DEF LatestShown
  <2>1. c \notin update /\ c \notin DOMAIN report.set
    BY DEF IInv, ReportInv, Settled
  <2> QED
    BY <2>1 DEF IInv, SetInv
<1> QED
  BY <1>1, Invariant, PTL

\* When nothing is on its way, the sound goes where the headphones are.
THEOREM Routed == Spec => []RouteFollows
<1>1. IInv => RouteFollows
  <2> SUFFICES ASSUME IInv, Settled, prev_plugged_state_valid,
                      config.jack = {"hp"}
               PROVE  route = Target
    BY DEF RouteFollows, Target
  <2>1. ~Changed("hp") /\ report.route = "as is"
    BY DEF IInv, RouteInv, ReportInv, Settled
  <2> QED
    BY <2>1 DEF IInv, RouteInv
<1> QED
  BY <1>1, Invariant, PTL
=============================================================================
