-------------------------- MODULE OutputPathProofs --------------------------
(***************************************************************************)
(* Theorems about the output path, for every length of the sequence        *)
(* number and any number of reports: numbers are drawn in turn, reports    *)
(* of one source keep their order, nobody is left inside bt_write, and the *)
(* UDC file gets a report only if the pause was too short for a bt_write.  *)
(***************************************************************************)
EXTENDS OutputPath, TLAPS

-----------------------------------------------------------------------------
(* The inductive invariant. *)

InBtWrite   == {"cleared", "checked"}
InTranslate == {"got", "bumping", "drawn"} \cup InBtWrite

\* The main thread has not come to its loop.
Starting == {"servicing", "rumbleOn", "rumbleOff"}

\* Where each thread can be, and when.
PlaceInv ==
    /\ pc["out"] \in {"notStarted", "top", "reading", "exited"} \cup InTranslate
    /\ pc["ep0"] \in {"idle"} \cup InTranslate
    /\ pc["audio"] \in {"notStarted", "seeking", "probing", "top", "exited"}
                       \cup InBtWrite
    /\ mainPc \in Starting => pc["out"] = "notStarted"
    /\ pc["ep0"] # "idle" => mainPc \in {"servicing", "loop"}
    /\ mainPc \in {"joiningAudio", "exited"} => pc["out"] = "exited"
    /\ mainPc = "exited" => pc["audio"] = "exited"

\* Who owns seq_mutex is between reading the counter and incrementing it,
\* and the counter is what it read.
LockInv ==
    \A s \in Translators :
        /\ pc[s] = "bumping" <=> seqLock = s
        /\ pc[s] = "bumping" => rep[s].seq = seqCounter

\* The counter counts the draws.
CounterInv == seqCounter = draws % SeqLimit

\* The descriptor: closed in fact before it is marked closed, by the main
\* thread alone; bt_write gets past its check with the open one only; while
\* its number is that of the UDC file nobody is past the check, unless the
\* pause was too short; and the main thread never gets past it with another
\* file's.
FdInv ==
    /\ hidrawFd = Fd /\ mainPc # "closing" => fdUse = "hidraw"
    /\ fdUse = "udc" => mainPc = "unbinding" /\ hidrawFd = Closed
    /\ \A s \in Sources : pc[s] = "checked" => fd[s] = Fd
    /\ fdUse = "udc" => hurried \/ \A s \in Sources : pc[s] # "checked"
    /\ pc["ep0"] = "checked" => fdUse = "hidraw"

\* What was sent last is in hand or done with; the rest is on the wire
\* behind it.
OrderInv ==
    /\ \A s \in Sources : pc[s] \in InTranslate =>
          /\ rep[s].src = s /\ rep[s].n = sent[s]
          /\ \A i \in DOMAIN wire : wire[i].src = s => wire[i].n < sent[s]
    /\ \A i \in DOMAIN wire : wire[i].src \in Sources =>
          wire[i].n <= sent[wire[i].src]
-----------------------------------------------------------------------------
(* The arithmetic of NextSeq. *)

\* Quotient and remainder.
LEMMA DivRem ==
    ASSUME NEW q \in Nat \ {0}, NEW n \in Nat
    PROVE  /\ n \div q \in Int /\ n = q * (n \div q) + (n % q)
           /\ n % q \in 0 .. q - 1
  OBVIOUS

\* if (++reportSeqCounter == 16) reportSeqCounter = 0 adds one modulo 16.
LEMMA NextSeqCounts ==
    ASSUME NEW n \in Nat
    PROVE  NextSeq(n % SeqLimit) = (n + 1) % SeqLimit
<1> DEFINE q == SeqLimit
           k == ((n + 1) \div q) - (n \div q)
<1>1. q \in Nat \ {0} /\ n + 1 \in Nat
  BY OutputAssumption
<1>2. k \in Int /\ q * k = (n % q) + 1 - ((n + 1) % q)
  <2>1. q * k = q * ((n + 1) \div q) - q * (n \div q)
    BY <1>1, DivRem
  <2> QED
    BY <1>1, <2>1, DivRem
<1>3. n % q \in 0 .. q - 1 /\ (n + 1) % q \in 0 .. q - 1
  BY <1>1, DivRem
<1> HIDE DEF k
<1>4. k >= 2 => q * k >= 2 * q
  BY <1>1, <1>2
<1>5. k <= -1 => q * k <= -q
  BY <1>1, <1>2
<1>6. k \in {0, 1}
  BY <1>1, <1>2, <1>3, <1>4, <1>5
<1>7. CASE k = 0
  <2>1. (n + 1) % q = (n % q) + 1
    BY <1>1, <1>2, <1>3, <1>7
  <2> QED
    BY <1>1, <1>3, <2>1 DEF NextSeq
<1>8. CASE k = 1
  <2>1. (n % q) + 1 = q /\ (n + 1) % q = 0
    BY <1>1, <1>2, <1>3, <1>8
  <2> QED
    BY <1>1, <2>1 DEF NextSeq
<1> QED
  BY <1>6, <1>7, <1>8
-----------------------------------------------------------------------------
\* Each source and the main thread keep to their places.
LEMMA PlaceStep ==
    ASSUME TypeOK, PlaceInv, [Next]_vars
    PROVE  PlaceInv'
<1> USE DEF PlaceInv, InTranslate, InBtWrite, Starting
<1>1. DOMAIN pc = {"out", "ep0", "audio"}
  BY DEF TypeOK, Sources
<1>2. ASSUME NEW s \in Translators, HostSends(s) \/ Translate(s) \/ BtWrite(s)
      PROVE  PlaceInv'
  BY <1>1, <1>2
     DEF Translators, Rest, HostSends, Translate, SeqRead, SeqBump,
         ShutdownCheck, BtWrite, FdCheck, WriteReport
<1>3. CASE \/ BtWrite("audio") \/ AudioComposes \/ AudioEnds \/ AudioGivesUp
           \/ AudioOpens \/ AudioCloses \/ AudioFinds
  BY <1>1, <1>3
     DEF Rest, BtWrite, FdCheck, WriteReport, AudioComposes, AudioEnds,
         AudioGivesUp, AudioOpens, AudioCloses, AudioFinds
<1>4. CASE OutTop \/ OutCancelled \/ OutEnds \/ OutSkips
  BY <1>1, <1>4 DEF OutTop, OutCancelled, OutEnds, OutSkips
<1>5. CASE StartAudio \/ RumbleTest
  BY <1>1, <1>5 DEF StartAudio, RumbleTest
<1>6. CASE \/ ForgetController \/ LeaveLoop \/ OpenUdc \/ UnbindUdc
           \/ LoseController \/ Signal
  BY <1>6 DEF ForgetController, LeaveLoop, OpenUdc, UnbindUdc,
              LoseController, Signal, AtLoop
<1>7. CASE JoinOut \/ JoinAudio
  BY <1>7 DEF JoinOut, JoinAudio
<1>8. CASE UNCHANGED vars
  BY <1>8 DEF vars
<1> QED
  BY <1>2, <1>3, <1>4, <1>5, <1>6, <1>7, <1>8
     DEF Next, Out, Audio, Main, World, Translators

\* seq_mutex excludes the two threads from one another, and the rumble test,
\* which does not take it, runs before either can draw a number.
LEMMA LockStep ==
    ASSUME TypeOK, PlaceInv, LockInv, [Next]_vars
    PROVE  LockInv'
<1> USE DEF LockInv
<1>1. DOMAIN pc = {"out", "ep0", "audio"} /\ DOMAIN rep = {"out", "ep0", "audio"}
      /\ Free \notin Translators
  BY DEF TypeOK, Sources, Free, Translators
<1>2. ASSUME NEW s \in Translators, SeqRead(s)
      PROVE  LockInv'
  BY <1>1, <1>2 DEF Translators, SeqRead, TypeOK, Reports, Sources
<1>3. ASSUME NEW s \in Translators, SeqBump(s)
      PROVE  LockInv'
  BY <1>1, <1>3 DEF Translators, SeqBump
<1>4. ASSUME NEW s \in Translators,
             HostSends(s) \/ ShutdownCheck(s) \/ BtWrite(s)
      PROVE  LockInv'
  BY <1>1, <1>4 DEF Translators, HostSends, ShutdownCheck, BtWrite, FdCheck,
                    WriteReport, Rest, seqs
<1>5. CASE \/ BtWrite("audio") \/ AudioComposes \/ AudioEnds \/ AudioGivesUp
           \/ AudioOpens \/ AudioCloses \/ AudioFinds
  BY <1>1, <1>5 DEF Translators, BtWrite, FdCheck, WriteReport, AudioComposes,
                    AudioEnds, AudioGivesUp, AudioOpens, AudioCloses,
                    AudioFinds, seqs
<1>6. CASE \/ OutTop \/ OutCancelled \/ OutEnds \/ OutSkips \/ StartAudio
  BY <1>1, <1>6 DEF Translators, OutTop, OutCancelled, OutEnds, OutSkips,
                    StartAudio, seqs
<1>7. CASE RumbleTest
  BY <1>1, <1>7 DEF Translators, RumbleTest, PlaceInv, Starting
<1>8. CASE \/ ForgetController \/ LeaveLoop \/ OpenUdc \/ UnbindUdc
           \/ LoseController \/ Signal \/ JoinOut \/ JoinAudio
  BY <1>8 DEF ForgetController, LeaveLoop, OpenUdc, UnbindUdc, LoseController,
              Signal, JoinOut, JoinAudio, seqs
<1>9. CASE UNCHANGED vars
  BY <1>9 DEF vars, seqs
<1> QED
  BY <1>2, <1>3, <1>4, <1>5, <1>6, <1>7, <1>8, <1>9
     DEF Next, Out, Audio, Main, World, Translate, Translators

\* Every step either draws a number, as SeqBump and RumbleTest do, or leaves
\* the counter alone.
LEMMA DrawsOrNot ==
    ASSUME [Next]_vars
    PROVE  \/ UNCHANGED <<seqCounter, draws>>
           \/ seqCounter' = NextSeq(seqCounter) /\ draws' = draws + 1
  BY DEF Next, Out, Audio, Main, World, Translate, BtWrite, AtLoop, Produce,
    seqs, vars, HostSends, SeqRead, SeqBump,
    ShutdownCheck, FdCheck, WriteReport, OutTop, OutCancelled, OutEnds,
    OutSkips, AudioComposes, AudioEnds, AudioGivesUp, AudioOpens, AudioCloses,
    AudioFinds, StartAudio, RumbleTest,
    LoseController, ForgetController, Signal, LeaveLoop, OpenUdc, UnbindUdc,
    JoinOut, JoinAudio

\* So the counter counts the draws.
LEMMA CounterStep ==
    ASSUME TypeOK, CounterInv, [Next]_vars
    PROVE  CounterInv'
<1>1. draws \in Nat
  BY DEF TypeOK
<1> QED
  BY <1>1, DrawsOrNot, NextSeqCounts DEF CounterInv

\* A number is drawn right: what SeqRead read is still in the counter when
\* SeqBump increments it.
LEMMA NumberStep ==
    ASSUME TypeOK, PlaceInv, LockInv, CounterInv, NumberedInTurn, [Next]_vars
    PROVE  NumberedInTurn'
<1> USE DEF NumberedInTurn, Numbered
<1>1. /\ DOMAIN pc = {"out", "ep0", "audio"}
      /\ DOMAIN rep = {"out", "ep0", "audio"}
      /\ wire \in Seq(Reports)
      /\ \A s \in Sources : rep[s] \in Reports
  BY DEF TypeOK, Sources
<1>2. ASSUME NEW s \in Translators, SeqBump(s)
      PROVE  NumberedInTurn'
  <2>1. rep'[s].seq = rep'[s].draw % SeqLimit
    BY <1>1, <1>2
       DEF SeqBump, LockInv, CounterInv, Reports, Translators, Sources
  <2> QED
    BY <1>1, <1>2, <2>1 DEF SeqBump, Sources, Translators, outcome
<1>3. ASSUME NEW s \in Translators, HostSends(s) \/ SeqRead(s)
      PROVE  NumberedInTurn'
  BY <1>1, <1>3 DEF HostSends, SeqRead, Sources, Translators, outcome
<1>4. ASSUME NEW s \in Translators, ShutdownCheck(s) \/ FdCheck(s)
      PROVE  NumberedInTurn'
  BY <1>1, <1>4 DEF ShutdownCheck, FdCheck, Rest, Sources, Translators, outcome
<1>5. ASSUME NEW s \in Sources, WriteReport(s)
      PROVE  NumberedInTurn'
  <2>1. wire' = wire \/ (s \in Translators /\ wire' = Append(wire, rep[s]))
    BY <1>5 DEF WriteReport
  <2>2. \A i \in DOMAIN wire' : wire'[i].seq = wire'[i].draw % SeqLimit
    BY <1>1, <1>5, <2>1 DEF WriteReport
  <2> QED
    BY <1>1, <1>5, <2>2 DEF WriteReport, Rest, Sources, Translators
<1>6. CASE RumbleTest
  BY <1>1, <1>6 DEF RumbleTest, Sources, Translators, outcome
<1>7. CASE \/ FdCheck("audio") \/ AudioComposes \/ AudioEnds \/ AudioGivesUp
           \/ AudioOpens \/ AudioCloses \/ AudioFinds
  BY <1>1, <1>7 DEF Sources, Translators, FdCheck, AudioComposes, AudioEnds,
                    AudioGivesUp, AudioOpens, AudioCloses, AudioFinds, outcome
<1>8. CASE \/ OutTop \/ OutCancelled \/ OutEnds \/ OutSkips \/ StartAudio
  BY <1>1, <1>8
     DEF Sources, Translators, OutTop, OutCancelled, OutEnds, OutSkips,
                    StartAudio, outcome
<1>9. CASE \/ ForgetController \/ LeaveLoop \/ OpenUdc \/ UnbindUdc
           \/ LoseController \/ Signal \/ JoinOut \/ JoinAudio
  BY <1>9 DEF ForgetController, LeaveLoop, OpenUdc, UnbindUdc, LoseController,
              Signal, JoinOut, JoinAudio, outcome
<1>10. CASE UNCHANGED vars
  BY <1>10 DEF vars, outcome
<1> QED
  BY <1>2, <1>3, <1>4, <1>5, <1>6, <1>7, <1>8, <1>9, <1>10
     DEF Next, Out, Audio, Main, World, Translate, BtWrite, Translators, Sources
-----------------------------------------------------------------------------
\* The wire grows by the report a source has in hand, if at all.
LEMMA WireStep ==
    ASSUME [Next]_vars
    PROVE  \/ wire' = wire
           \/ \E s \in Translators :
                 WriteReport(s) /\ wire' = Append(wire, rep[s])
  BY DEF Next, Out, Audio, Main, World, Translate, BtWrite, AtLoop, Produce,
    outcome, vars, HostSends, SeqRead, SeqBump,
    ShutdownCheck, FdCheck, WriteReport, OutTop, OutCancelled, OutEnds,
    OutSkips, AudioComposes, AudioEnds, AudioGivesUp, AudioOpens, AudioCloses,
    AudioFinds, StartAudio, RumbleTest,
    LoseController, ForgetController, Signal, LeaveLoop, OpenUdc, UnbindUdc,
    JoinOut, JoinAudio, Translators

\* What a source sends is newer than what is on the wire, so it does not
\* upset the order there.
LEMMA SourceOrderStep ==
    ASSUME TypeOK, PlaceInv, OrderInv, SourceOrder, [Next]_vars
    PROVE  SourceOrder'
<1> USE DEF SourceOrder
<1>1. wire \in Seq(Reports) /\ draws \in Nat
  BY DEF TypeOK
<1>2. CASE wire' = wire
  BY <1>2
<1>3. ASSUME NEW s \in Translators, WriteReport(s),
             wire' = Append(wire, rep[s])
      PROVE  SourceOrder'
  <2>1. /\ rep[s].src = s
        /\ \A i \in DOMAIN wire : wire[i].src = s => wire[i].n < rep[s].n
    BY <1>3
       DEF WriteReport, OrderInv, InTranslate, InBtWrite, Translators, Sources
  <2> QED
    BY <1>1, <1>3, <2>1
<1> QED
  BY <1>2, <1>3, WireStep

\* A source numbers what it sends one by one, and has one report in hand.
LEMMA OrderStep ==
    ASSUME TypeOK, PlaceInv, OrderInv, [Next]_vars
    PROVE  OrderInv'
<1> USE DEF OrderInv, InTranslate, InBtWrite
<1>1. /\ DOMAIN pc = {"out", "ep0", "audio"}
      /\ DOMAIN rep = {"out", "ep0", "audio"}
      /\ DOMAIN sent = {"out", "ep0", "audio"}
      /\ wire \in Seq(Reports) /\ draws \in Nat
      /\ \A s \in Sources : sent[s] \in Nat
      /\ \A i \in DOMAIN wire : wire[i].n \in Nat
  <2>1. wire \in Seq(Reports)
    BY DEF TypeOK
  <2>2. \A i \in DOMAIN wire : wire[i] \in Reports
    BY <2>1
  <2>3. \A i \in DOMAIN wire : wire[i].n \in Nat
    BY <2>2 DEF Reports
  <2> QED
    BY <2>1, <2>3 DEF TypeOK, Sources
<1>2. ASSUME NEW s \in Translators, HostSends(s)
      PROVE  OrderInv'
  BY <1>1, <1>2
     DEF HostSends, Produce, Report, Sources, Translators, outcome, seqs
<1>3. ASSUME NEW s \in Translators, SeqRead(s)
      PROVE  OrderInv'
  BY <1>1, <1>3 DEF SeqRead, Sources, Translators, outcome
<1>4. ASSUME NEW s \in Translators, SeqBump(s)
      PROVE  OrderInv'
  BY <1>1, <1>4 DEF SeqBump, Sources, Translators, outcome
<1>5. ASSUME NEW s \in Sources, ShutdownCheck(s) \/ FdCheck(s)
      PROVE  OrderInv'
  BY <1>1, <1>5 DEF ShutdownCheck, FdCheck, Rest, Sources, outcome, seqs
<1>6. ASSUME NEW s \in Sources, WriteReport(s)
      PROVE  OrderInv'
  <2>1. wire' = wire \/ wire' = Append(wire, rep[s])
    BY <1>6 DEF WriteReport
  <2>2. /\ UNCHANGED <<rep, sent, draws>>
        /\ rep[s].src = s /\ rep[s].n = sent[s]
        /\ pc' = [pc EXCEPT ![s] = Rest(s)]
    BY <1>6 DEF WriteReport, seqs
  <2>3. \A i \in DOMAIN wire' :
           \/ i \in DOMAIN wire /\ wire'[i] = wire[i]
           \/ wire'[i] = rep[s]
    BY <1>1, <2>1
  <2>4. /\ pc'[s] \notin InTranslate
        /\ \A t \in Sources \ {s} : pc'[t] = pc[t]
    BY <1>1, <2>2 DEF Rest, Sources
  <2>5. \A i \in DOMAIN wire' : wire'[i].src # s =>
           i \in DOMAIN wire /\ wire'[i] = wire[i]
    BY <2>2, <2>3
  <2>6. \A i \in DOMAIN wire' : wire'[i].src \in Sources =>
           wire'[i].n <= sent[wire'[i].src]
    BY <1>1, <2>2, <2>3
  <2> QED
    BY <2>2, <2>4, <2>5, <2>6
<1>7. CASE RumbleTest
  BY <1>1, <1>7 DEF RumbleTest, Sources, outcome
<1>8. CASE AudioComposes
  BY <1>1, <1>8 DEF AudioComposes, Produce, Report, Sources, outcome, seqs
<1>9. CASE \/ AudioEnds \/ AudioGivesUp \/ AudioOpens \/ AudioCloses
           \/ AudioFinds \/ OutTop \/ OutCancelled \/ OutEnds
           \/ OutSkips \/ StartAudio
  BY <1>1, <1>9 DEF AudioEnds, AudioGivesUp, AudioOpens, AudioCloses,
                    AudioFinds, OutTop, OutCancelled, OutEnds, OutSkips,
                    StartAudio, Sources, outcome, seqs
<1>10. CASE \/ ForgetController \/ LeaveLoop \/ OpenUdc \/ UnbindUdc
            \/ LoseController \/ Signal \/ JoinOut \/ JoinAudio
  BY <1>10 DEF ForgetController, LeaveLoop, OpenUdc, UnbindUdc,
               LoseController, Signal, JoinOut, JoinAudio, outcome, seqs
<1>11. CASE UNCHANGED vars
  BY <1>11 DEF vars, outcome, seqs
<1> QED
  BY <1>2, <1>3, <1>4, <1>5, <1>6, <1>7, <1>8, <1>9, <1>10, <1>11
     DEF Next, Out, Audio, Main, World, Translate, BtWrite, Translators, Sources

\* Unless the pause is too short, no bt_write that found the descriptor open
\* is under way when the UDC file gets its number.
LEMMA FdStep ==
    ASSUME TypeOK, PlaceInv, FdInv, [Next]_vars
    PROVE  FdInv'
<1> USE DEF FdInv, Fd, Closed
<1>1. /\ DOMAIN pc = {"out", "ep0", "audio"} /\ DOMAIN fd = {"out", "ep0", "audio"}
      /\ hidrawFd \in {Fd, Closed} /\ fdUse \in {"hidraw", "free", "udc", "alsa"}
  BY DEF TypeOK, Sources
<1>2. ASSUME NEW s \in Translators,
             HostSends(s) \/ SeqRead(s) \/ SeqBump(s) \/ ShutdownCheck(s)
      PROVE  FdInv'
  BY <1>1, <1>2 DEF HostSends, SeqRead, SeqBump, ShutdownCheck, Rest, Sources,
                    Translators, device, outcome
<1>3. ASSUME NEW s \in Sources, FdCheck(s) \/ WriteReport(s)
      PROVE  FdInv'
  BY <1>1, <1>3 DEF FdCheck, WriteReport, Rest, Sources, PlaceInv, device,
                    outcome
<1>4. CASE \/ AudioComposes \/ AudioEnds \/ AudioGivesUp
           \/ OutTop \/ OutCancelled \/ OutEnds \/ OutSkips
  BY <1>1, <1>4 DEF AudioComposes, AudioEnds, AudioGivesUp, OutTop,
                    OutCancelled, OutEnds, OutSkips, Sources, device, outcome
<1>5. CASE StartAudio \/ RumbleTest
  BY <1>1, <1>5 DEF StartAudio, RumbleTest, Sources, device, outcome
<1>11. CASE AudioOpens \/ AudioCloses \/ AudioFinds
  BY <1>1, <1>11 DEF AudioOpens, AudioCloses, AudioFinds, Opened, ClosedBy,
                     Sources, outcome
<1>6. CASE LoseController \/ ForgetController \/ Signal \/ LeaveLoop
  <2>1. CASE LoseController
    BY <1>1, <2>1 DEF LoseController, AtLoop, outcome
  <2>2. CASE ForgetController
    BY <1>1, <2>2 DEF ForgetController, outcome
  <2>3. CASE Signal
    BY <1>1, <2>3 DEF Signal, device, outcome
  <2>4. CASE LeaveLoop
    BY <1>1, <2>4 DEF LeaveLoop, AtLoop, device, outcome
  <2> QED
    BY <1>6, <2>1, <2>2, <2>3, <2>4
<1>7. CASE OpenUdc
  BY <1>1, <1>7 DEF OpenUdc, Opened, Stale, PlaceInv
<1>8. CASE UnbindUdc
  BY <1>1, <1>8 DEF UnbindUdc, ClosedBy, outcome
<1>9. CASE JoinOut \/ JoinAudio
  BY <1>1, <1>9 DEF JoinOut, JoinAudio, PlaceInv, device, outcome
<1>10. CASE UNCHANGED vars
  BY <1>10 DEF vars, device, outcome
<1> QED
  BY <1>2, <1>3, <1>4, <1>5, <1>6, <1>7, <1>8, <1>9, <1>10, <1>11
     DEF Next, Out, Audio, Main, World, Translate, BtWrite, Translators, Sources

\* A write to another file takes a source past the check.
LEMMA StrayStep ==
    ASSUME TypeOK, PlaceInv, FdInv, StrayConfined, [Next]_vars
    PROVE  StrayConfined'
<1>1. \/ stray' = stray
      \/ \E s \in Sources : /\ pc[s] = "checked" /\ fdUse \in {"udc", "alsa"}
                           /\ stray' = stray \cup {<<s, fdUse>>}
  BY DEF Next, Out, Audio, Main, World, Translate, BtWrite, AtLoop, Produce,
    outcome, vars, HostSends, SeqRead, SeqBump,
    ShutdownCheck, FdCheck, WriteReport, OutTop, OutCancelled, OutEnds,
    OutSkips, AudioComposes, AudioEnds, AudioGivesUp, AudioOpens, AudioCloses,
    AudioFinds, StartAudio, RumbleTest,
    LoseController, ForgetController, Signal, LeaveLoop, OpenUdc, UnbindUdc,
    JoinOut, JoinAudio, Sources, Translators
<1>2. hurried => hurried'
  BY DEF Next, Out, Audio, Main, World, Translate, BtWrite, AtLoop, Produce,
    outcome, vars, HostSends, SeqRead, SeqBump,
    ShutdownCheck, FdCheck, WriteReport, OutTop, OutCancelled, OutEnds,
    OutSkips, AudioComposes, AudioEnds, AudioGivesUp, AudioOpens, AudioCloses,
    AudioFinds, StartAudio, RumbleTest,
    LoseController, ForgetController, Signal, LeaveLoop, OpenUdc, UnbindUdc,
    JoinOut, JoinAudio
<1> QED
  BY <1>1, <1>2 DEF FdInv, StrayConfined, Sources
-----------------------------------------------------------------------------
USE DEF Next, Out, Audio, Main, World, Translate, BtWrite, AtLoop, Produce,
    seqs, device, flags, outcome, vars, HostSends, SeqRead, SeqBump,
    ShutdownCheck, FdCheck, WriteReport, OutTop, OutCancelled, OutEnds,
    OutSkips, AudioComposes, AudioEnds, AudioGivesUp, AudioOpens, AudioCloses,
    AudioFinds, StartAudio, RumbleTest,
    LoseController, ForgetController, Signal, LeaveLoop, OpenUdc, UnbindUdc,
    JoinOut, JoinAudio

\* Every variable keeps its type.
LEMMA TypeStep ==
    ASSUME TypeOK, [Next]_vars
    PROVE  TypeOK'
<1> USE DEF TypeOK
<1>1. seqCounter' \in 0 .. SeqLimit - 1 /\ draws' \in Nat
  <2>1. \/ UNCHANGED <<seqCounter, draws>>
        \/ seqCounter' = NextSeq(seqCounter) /\ draws' = draws + 1
    OBVIOUS
  <2> HIDE DEF Next
  <2> QED
    BY <2>1, OutputAssumption DEF NextSeq
<1>2. sent' \in [Sources -> Nat]
  <2>1. sent' = sent \/ \E s \in Sources : sent' = [sent EXCEPT ![s] = @ + 1]
    BY DEF Sources, Translators
  <2>2. sent \in [Sources -> Nat]
    OBVIOUS
  <2> HIDE DEF Next, TypeOK
  <2> QED
    BY <2>1, <2>2
<1>3. seqLock' \in Translators \cup {Free}
  BY DEF Translators
<1>4. pc' \in [Sources -> Where]
  BY DEF Where, Rest
<1>5. rep' \in [Sources -> Reports]
  <2>1. \/ rep' = rep
        \/ \E s \in Sources :
              \/ rep' = [rep EXCEPT ![s] = Report(s, sent'[s], 0, 0)]
              \/ rep' = [rep EXCEPT ![s].seq = seqCounter]
              \/ rep' = [rep EXCEPT ![s].draw = draws]
    BY DEF Sources, Translators
  <2>2. /\ rep \in [Sources -> Reports] /\ draws \in Nat
        /\ seqCounter \in 0 .. SeqLimit - 1 /\ 0 \in 0 .. SeqLimit - 1
    BY OutputAssumption
  <2> HIDE DEF Next, TypeOK
  <2>3. \A s \in Sources : Report(s, sent'[s], 0, 0) \in Reports
    BY <1>2, <2>2 DEF Report, Reports
  <2>4. \A s \in Sources : [rep[s] EXCEPT !.seq = seqCounter] \in Reports
    BY <2>2 DEF Reports
  <2>5. \A s \in Sources : [rep[s] EXCEPT !.draw = draws] \in Reports
    BY <2>2 DEF Reports
  <2> QED
    BY <2>1, <2>2, <2>3, <2>4, <2>5
<1>6. wire' \in Seq(Reports)
  <2>1. \/ wire' = wire
        \/ \E s \in Sources : wire' = Append(wire, rep[s])
    BY DEF Sources, Translators
  <2>3. wire \in Seq(Reports) /\ \A s \in Sources : rep[s] \in Reports
    OBVIOUS
  <2> HIDE DEF Next, TypeOK
  <2>4. \A r \in Reports : Append(wire, r) \in Seq(Reports)
    BY <2>3
  <2> QED
    BY <2>1, <2>3, <2>4
<1>7. fd' \in [Sources -> {Fd, Closed}]
  OBVIOUS
<1>8. hidrawFd' \in {Fd, Closed}
  OBVIOUS
<1>9. fdUse' \in {"hidraw", "free", "udc", "alsa"}
  BY DEF Opened, ClosedBy
<1>10. failed' \in [Sources -> Nat]
  <2>1. \/ failed' = failed
        \/ \E s \in Sources : failed' = [failed EXCEPT ![s] = rep[s].n]
    BY DEF Sources, Translators
  <2> HIDE DEF Next
  <2> QED
    BY <2>1 DEF Reports
<1>11. bound' \in BOOLEAN /\ running' \in BOOLEAN /\ shuttingDown' \in BOOLEAN
       /\ audioRunning' \in BOOLEAN /\ hurried' \in BOOLEAN
  OBVIOUS
<1>13. stray' \in SUBSET (Sources \X {"udc", "alsa"})
  <2>1. \/ stray' = stray
        \/ \E s \in Sources : /\ fdUse \in {"udc", "alsa"}
                             /\ stray' = stray \cup {<<s, fdUse>>}
    BY DEF Sources, Translators
  <2>2. stray \in SUBSET (Sources \X {"udc", "alsa"})
    OBVIOUS
  <2> HIDE DEF Next, TypeOK
  <2> QED
    BY <2>1, <2>2
<1>12. mainPc' \in {"servicing", "rumbleOn", "rumbleOff", "loop", "closing",
                   "pausing", "unbinding", "joining", "joiningAudio",
                   "exited"}
  OBVIOUS
<1> QED
  BY <1>1, <1>2, <1>3, <1>4, <1>5, <1>6, <1>7, <1>8, <1>9, <1>10, <1>11, <1>12,
     <1>13

HIDE DEF Next, Out, Audio, Main, World, Translate, BtWrite, AtLoop, Produce,
    seqs, device, flags, outcome, vars
-----------------------------------------------------------------------------
\* What the theorems rest on.
IInv == /\ TypeOK /\ PlaceInv /\ LockInv /\ CounterInv
        /\ NumberedInTurn /\ OrderInv /\ SourceOrder
        /\ FdInv /\ StrayConfined

\* The daemon starts with nothing sent and the controller open.
LEMMA InitIInv == Init => IInv
<1> SUFFICES ASSUME Init PROVE IInv
  OBVIOUS
<1> USE DEF Init
<1>1. wire = <<>> /\ DOMAIN wire = {}
  OBVIOUS
<1>2. 0 \in 0 .. SeqLimit - 1 /\ 0 % SeqLimit = 0
  BY OutputAssumption, DivRem
<1>3. rep \in [Sources -> Reports]
  BY <1>2 DEF Report, Reports
<1>4. wire \in Seq(Reports)
  BY <1>1
<1>5. TypeOK
  <2>1. pc \in [Sources -> Where]
    BY DEF Sources, Where
  <2>2. /\ fd \in [Sources -> {Fd, Closed}]
        /\ sent \in [Sources -> Nat] /\ failed \in [Sources -> Nat]
    OBVIOUS
  <2>3. seqCounter \in 0 .. SeqLimit - 1 /\ draws \in Nat
    BY <1>2
  <2> QED
    BY <1>3, <1>4, <2>1, <2>2, <2>3 DEF TypeOK, Translators
<1>6. PlaceInv
  BY DEF PlaceInv, InTranslate, InBtWrite, Starting
<1>7. LockInv
  BY DEF LockInv, Translators, Free
<1>8. CounterInv
  BY <1>2 DEF CounterInv
<1>9. NumberedInTurn
  BY <1>1 DEF NumberedInTurn, Numbered, Translators
<1>10. OrderInv
  BY <1>1 DEF OrderInv, InTranslate, InBtWrite, Sources
<1>11. SourceOrder
  BY <1>1 DEF SourceOrder
<1>12. FdInv /\ StrayConfined
  BY DEF FdInv, StrayConfined, Sources, Fd, Closed
<1> QED
  BY <1>5, <1>6, <1>7, <1>8, <1>9, <1>10, <1>11, <1>12 DEF IInv

\* IInv holds in every state of the output path, however long the pause is.
THEOREM Invariance == Spec => []IInv
<1>1. IInv /\ [Next]_vars => IInv'
  BY TypeStep, PlaceStep, LockStep, CounterStep, NumberStep, OrderStep,
     SourceOrderStep, FdStep, StrayStep DEF IInv
<1> QED
  BY <1>1, InitIInv, PTL DEF Spec

\* The variables of the output path keep their types; in particular a
\* sequence number has its four bits when it is put into a report.
THEOREM TypeCorrect == Spec => []TypeOK
<1>1. IInv => TypeOK
  BY DEF IInv
<1> QED
  BY <1>1, Invariance, PTL

\* Under seq_mutex, which the rumble test need not take, the n-th number
\* drawn from reportSeqCounter is n modulo SeqLimit, for every SeqLimit and
\* any number of reports.
THEOREM InTurn == Spec => []NumberedInTurn
<1>1. IInv => NumberedInTurn
  BY DEF IInv
<1> QED
  BY <1>1, Invariance, PTL

\* However the threads overlap in bt_write, the reports of one source reach
\* the controller in the order they came in, none of them twice.
THEOREM InSourceOrder == Spec => []SourceOrder
<1>1. IInv => SourceOrder
  BY DEF IInv
<1> QED
  BY <1>1, Invariance, PTL

\* The joins of the shutdown leave no thread inside bt_write when bt_deinit
\* has closed the controller.
THEOREM NobodyInside == Spec => []NobodyInsideAtExit
<1>1. IInv => NobodyInsideAtExit
  BY DEF IInv, PlaceInv, InBtWrite, InTranslate, Sources, NobodyInsideAtExit
<1> QED
  BY <1>1, Invariance, PTL

\* However short the pause of usb_unbind_udc is: if no bt_write was still
\* under way after it, no report is written to the UDC file that took the
\* number of the controller; and none from EP0 to any other file.
THEOREM Strays == Spec => []StrayConfined
<1>1. IInv => StrayConfined
  BY DEF IInv
<1> QED
  BY <1>1, Invariance, PTL
=============================================================================
