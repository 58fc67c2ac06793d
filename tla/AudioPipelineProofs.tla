------------------------- MODULE AudioPipelineProofs -------------------------
(***************************************************************************)
(* Theorems about AudioPipeline for every number of places in the FIFOs,   *)
(* of retries and of blocks.                                               *)
(***************************************************************************)
EXTENDS AudioPipeline, SequenceTheorems, TLAPS

USE DEF hist

(* The inductive invariant. *)

\* Who owns a mutex is where its thread is.
LockInv ==
    /\ audioLock = "cap" <=> capPc \in {"replacing", "pushing"}
    /\ audioLock = "enc" <=> encPc \in {"toSleep", "taking"}
    /\ opusLock = "enc" <=> encPc \in {"replacing", "storing"}

\* What was found out under the mutex is still so.
PlaceInv ==
    /\ capPc = "replacing" => Len(audioFifo) = Depth
    /\ capPc = "pushing" => Len(audioFifo) < Depth
    /\ encPc = "replacing" => Len(opusFifo) = Depth
    /\ encPc = "storing" => Len(opusFifo) < Depth
    /\ encPc = "taking" => audioFifo # <<>>
    /\ encPc = "toSleep" => audioFifo = <<>>
    /\ carry # 0 => capPc = "sending"

\* audio_fifo holds the newest blocks.
AudioInv ==
    \A i \in 1 .. Len(audioFifo) :
        audioFifo[i] = produced - Len(audioFifo) + i

\* What left audio_fifo last is the newest on the far side of it, and newer
\* than all of opus_fifo while it is being encoded.
ItemInv ==
    /\ item + Len(audioFifo) <= produced
    /\ Encoding => item # 0
    /\ \A i \in 1 .. Len(opusFifo) :
          opusFifo[i] <= item /\ (Encoding => opusFifo[i] < item)

\* opus_fifo grows by at least one from place to place.
OpusInv ==
    \A i, j \in 1 .. Len(opusFifo) :
        i < j => opusFifo[i] + (j - i) <= opusFifo[j]

\* What the capture thread carries is older than all that follows, and news.
CarryInv ==
    /\ carry <= item /\ (Encoding => carry < item)
    /\ heard <= item /\ (Encoding => heard < item)
    /\ carry # 0 => heard < carry
    /\ \A i \in 1 .. Len(opusFifo) :
          heard < opusFifo[i] /\ carry < opusFifo[i]

OrderInv == AudioInv /\ ItemInv /\ OpusInv /\ CarryInv

IInv == TypeOK /\ LockInv /\ PlaceInv /\ NoSleepOverWork /\ OrderInv
-----------------------------------------------------------------------------
(* Queues. *)

\* Without its front a queue is one shorter and everything moves up.
LEMMA PopFront ==
    ASSUME NEW S, NEW q \in Seq(S), q # <<>>
    PROVE  /\ Pop(q) \in Seq(S) /\ Len(Pop(q)) = Len(q) - 1
           /\ Len(q) \in Nat \ {0} /\ Head(q) = q[1] /\ Head(q) \in S
           /\ \A i \in 1 .. Len(Pop(q)) : Pop(q)[i] = q[i + 1]
<1>1. Pop(q) = Tail(q)
  BY TailIsSubSeq DEF Pop
<1>2. Head(q) = q[1] /\ Len(q) \in Nat \ {0}
  OBVIOUS
<1> QED
  BY <1>1, <1>2, HeadTailProperties

\* An empty queue stays empty.
LEMMA PopEmpty == Pop(<<>>) = <<>>
  BY DEF Pop

\* The elements of a queue.
LEMMA RangeSeq ==
    ASSUME NEW S, NEW q \in Seq(S)
    PROVE  Range(q) = {q[i] : i \in 1 .. Len(q)}
  BY DEF Range

LEMMA RangePop ==
    ASSUME NEW S, NEW q \in Seq(S), q # <<>>
    PROVE  Range(q) = {Head(q)} \cup Range(Pop(q))
<1>1. Range(Pop(q)) = {Pop(q)[i] : i \in 1 .. Len(Pop(q))}
  BY PopFront, RangeSeq
<1>2. Range(q) = {q[i] : i \in 1 .. Len(q)}
  BY RangeSeq
<1>3. ASSUME NEW i \in 1 .. Len(q) PROVE q[i] \in {Head(q)} \cup Range(Pop(q))
  <2>1. CASE i = 1
    BY <2>1, PopFront
  <2>2. CASE i # 1
    <3>1. i - 1 \in 1 .. Len(Pop(q)) /\ Pop(q)[i - 1] = q[i]
      BY <2>2, PopFront
    <3> QED
      BY <3>1, <1>1
  <2> QED
    BY <2>1, <2>2
<1>4. ASSUME NEW i \in 1 .. Len(Pop(q)) PROVE Pop(q)[i] \in Range(q)
  BY PopFront, <1>2
<1>5. Head(q) \in Range(q)
  BY PopFront, <1>2
<1> QED
  BY <1>1, <1>2, <1>3, <1>4, <1>5

LEMMA RangeAppend ==
    ASSUME NEW S, NEW q \in Seq(S), NEW x \in S
    PROVE  /\ Append(q, x) \in Seq(S) /\ Len(Append(q, x)) = Len(q) + 1
           /\ \A i \in 1 .. Len(q) : Append(q, x)[i] = q[i]
           /\ Append(q, x)[Len(q) + 1] = x
           /\ Range(Append(q, x)) = Range(q) \cup {x}
<1>1. /\ Append(q, x) \in Seq(S) /\ Len(Append(q, x)) = Len(q) + 1
      /\ \A i \in 1 .. Len(q) : Append(q, x)[i] = q[i]
      /\ Append(q, x)[Len(q) + 1] = x
  OBVIOUS
<1>2. /\ Range(q) = {q[i] : i \in 1 .. Len(q)}
      /\ Range(Append(q, x))
             = {Append(q, x)[i] : i \in 1 .. Len(Append(q, x))}
  BY <1>1, RangeSeq
<1>3. \A i \in 1 .. Len(q) + 1 : i \in 1 .. Len(q) \/ i = Len(q) + 1
  OBVIOUS
<1> QED
  BY <1>1, <1>2, <1>3
-----------------------------------------------------------------------------
(* The invariant holds at first and every step keeps it. *)

LEMMA InitIInv == Init => IInv
  BY AudioAssumption
     DEF Init, IInv, TypeOK, LockInv, PlaceInv, NoSleepOverWork, OrderInv,
         AudioInv, ItemInv, OpusInv, CarryInv, Encoding, Free

\* Steps that touch neither the FIFOs nor what is taken out of them keep
\* their order, as long as no encoding begins.
LEMMA OrderKept ==
    ASSUME OrderInv, UNCHANGED <<audioFifo, opusFifo, item, carry, produced,
                                 heard>>, Encoding' => Encoding
    PROVE  OrderInv'
  BY DEF OrderInv, AudioInv, ItemInv, OpusInv, CarryInv

LEMMA PushKeeps ==
    ASSUME IInv, CapPushes
    PROVE  IInv'
<1> USE DEF IInv
<1> DEFINE q == IF capPc = "replacing" THEN Pop(audioFifo) ELSE audioFifo
<1>1. /\ q \in Seq(Nat \ {0}) /\ Len(q) < Depth
      /\ Len(q) = Len(audioFifo) - (IF capPc = "replacing" THEN 1 ELSE 0)
      /\ \A i \in 1 .. Len(q) : q[i] = produced - Len(q) + i
  <2>1. CASE capPc = "replacing"
    <3>1. audioFifo # <<>> /\ Len(audioFifo) = Depth
      BY <2>1, AudioAssumption DEF PlaceInv
    <3>2. /\ q = Pop(audioFifo) /\ q \in Seq(Nat \ {0})
          /\ Len(q) = Len(audioFifo) - 1 /\ Len(audioFifo) \in Nat \ {0}
          /\ \A i \in 1 .. Len(q) : q[i] = audioFifo[i + 1]
      BY <2>1, <3>1, PopFront DEF TypeOK
    <3> HIDE DEF q
    <3>3. \A i \in 1 .. Len(q) : i + 1 \in 1 .. Len(audioFifo)
      BY <3>2
    <3>4. \A i \in 1 .. Len(q) : q[i] = produced - Len(q) + i
      BY <3>2, <3>3 DEF OrderInv, AudioInv, TypeOK
    <3> QED
      BY <2>1, <3>1, <3>2, <3>4, AudioAssumption
  <2>2. CASE capPc = "pushing"
    BY <2>2 DEF TypeOK, PlaceInv, OrderInv, AudioInv
  <2> QED
    BY <2>1, <2>2 DEF CapPushes
<1>2. produced \in Nat /\ produced' = produced + 1 /\ item \in Nat
  BY DEF CapPushes, TypeOK
<1>3. audioFifo' = Append(q, produced')
  BY DEF CapPushes
<1> HIDE DEF q
<1>4. /\ audioFifo' \in Seq(Nat \ {0}) /\ Len(audioFifo') = Len(q) + 1
      /\ \A i \in 1 .. Len(q) : audioFifo'[i] = q[i]
      /\ audioFifo'[Len(q) + 1] = produced'
  BY <1>1, <1>2, <1>3, RangeAppend
<1>5. TypeOK'
  <2>1. Len(audioFifo') <= Depth
    BY <1>1, <1>4, AudioAssumption
  <2>2. capPc' \in {"notifying"} /\ audioLock' = Free
    BY DEF CapPushes
  <2> QED
    BY <2>1, <2>2, <1>2, <1>4 DEF TypeOK, CapPushes, mains
<1>6. LockInv' /\ PlaceInv' /\ NoSleepOverWork'
  BY <1>4, <1>1 DEF CapPushes, LockInv, PlaceInv, NoSleepOverWork, Free, TypeOK
<1>7. AudioInv'
  <2>1. \A i \in 1 .. Len(q) + 1 : i \in 1 .. Len(q) \/ i = Len(q) + 1
    BY <1>1
  <2>2. Len(q) \in Nat
    BY <1>1
  <2>3. Len(audioFifo') = Len(q) + 1 /\ produced \in Nat
    BY <1>2, <1>4
  <2>4. ASSUME NEW i \in 1 .. Len(audioFifo')
        PROVE  audioFifo'[i] = produced' - Len(audioFifo') + i
    <3>1. CASE i \in 1 .. Len(q)
      <4>1. audioFifo'[i] = produced - Len(q) + i
        BY <3>1, <1>1, <1>4
      <4> QED
        BY <4>1, <2>2, <2>3, <1>2
    <3>2. CASE i = Len(q) + 1
      BY <3>2, <2>2, <2>3, <1>2, <1>4
    <3> QED
      BY <3>1, <3>2, <2>1, <2>3
  <2> QED
    BY <2>4 DEF AudioInv
<1>8. ItemInv' /\ OpusInv' /\ CarryInv'
  <2>1. Len(q) <= Len(audioFifo) /\ Len(q) \in Nat /\ Len(audioFifo) \in Nat
    BY <1>1 DEF TypeOK
  <2>2. Encoding' = Encoding
    BY DEF CapPushes, Encoding
  <2> QED
    BY <2>1, <2>2, <1>2, <1>4
       DEF CapPushes, OrderInv, ItemInv, OpusInv, CarryInv
<1> QED
  BY <1>5, <1>6, <1>7, <1>8 DEF OrderInv

LEMMA PopsKeeps ==
    ASSUME IInv, CapPops
    PROVE  IInv'
<1> USE DEF IInv
<1>0. /\ carry = 0 /\ item \in Nat /\ heard \in Nat
      /\ UNCHANGED <<audioFifo, item, produced, heard, encPc>>
  BY DEF CapPops, PlaceInv, TypeOK
<1>1. CASE opusFifo = <<>>
  <2>1. opusFifo' = opusFifo /\ carry' = carry
    BY <1>0, <1>1, PopEmpty DEF CapPops
  <2>2. OrderInv'
    BY <2>1, <1>0, OrderKept DEF Encoding
  <2>3. TypeOK'
    BY <2>1, <1>0 DEF CapPops, TypeOK, mains
  <2>4. LockInv' /\ PlaceInv' /\ NoSleepOverWork'
    BY <2>1, <1>0 DEF CapPops, LockInv, PlaceInv, NoSleepOverWork
  <2> QED
    BY <2>2, <2>3, <2>4
<1>2. CASE opusFifo # <<>>
  <2>1. /\ opusFifo \in Seq(Nat \ {0}) /\ opusFifo' = Pop(opusFifo)
        /\ carry' = Head(opusFifo)
    BY <1>2 DEF CapPops, TypeOK
  <2>2. /\ opusFifo' \in Seq(Nat \ {0}) /\ Len(opusFifo') = Len(opusFifo) - 1
        /\ Len(opusFifo) \in Nat \ {0} /\ carry' = opusFifo[1]
        /\ carry' \in Nat \ {0}
        /\ \A i \in 1 .. Len(opusFifo') :
              opusFifo'[i] = opusFifo[i + 1] /\ i + 1 \in 1 .. Len(opusFifo)
        /\ 1 \in 1 .. Len(opusFifo)
    BY <1>2, <2>1, PopFront
  <2>3. TypeOK' /\ LockInv' /\ PlaceInv' /\ NoSleepOverWork'
    <3>1. Len(opusFifo') <= Depth /\ capPc' = "sending"
      BY <2>2, AudioAssumption DEF CapPops, TypeOK
    <3>2. encPc \notin {"replacing", "storing"}
      BY DEF CapPops, LockInv, Free
    <3>3. TypeOK'
      BY <3>1, <2>2, <1>0 DEF CapPops, TypeOK, mains
    <3> QED
      BY <3>1, <3>2, <3>3, <1>0
         DEF CapPops, LockInv, PlaceInv, NoSleepOverWork
  <2>4. AudioInv' /\ ItemInv'
    BY <2>2, <1>0 DEF OrderInv, AudioInv, ItemInv, Encoding
  <2>5. OpusInv'
    <3> SUFFICES ASSUME NEW i \in 1 .. Len(opusFifo'),
                        NEW j \in 1 .. Len(opusFifo'), i < j
                 PROVE  opusFifo'[i] + (j - i) <= opusFifo'[j]
      BY DEF OpusInv
    <3>1. opusFifo[i + 1] + ((j + 1) - (i + 1)) <= opusFifo[j + 1]
      BY <2>2 DEF OrderInv, OpusInv
    <3> QED
      BY <3>1, <2>2
  <2>6. CarryInv'
    <3>1. ASSUME NEW i \in 1 .. Len(opusFifo')
          PROVE  opusFifo[1] < opusFifo[i + 1]
      <4>1. opusFifo[1] + ((i + 1) - 1) <= opusFifo[i + 1]
        BY <2>2 DEF OrderInv, OpusInv
      <4>2. opusFifo[1] \in Nat /\ opusFifo[i + 1] \in Nat
        BY <2>2 DEF TypeOK
      <4> QED
        BY <4>1, <4>2
    <3> QED
      BY <3>1, <2>2, <1>0 DEF OrderInv, CarryInv, ItemInv, Encoding
  <2> QED
    BY <2>3, <2>4, <2>5, <2>6 DEF OrderInv
<1> QED
  BY <1>1, <1>2

LEMMA SendsKeeps ==
    ASSUME IInv, CapSends
    PROVE  IInv'
<1> USE DEF IInv
<1>1. /\ heard' = (IF carry = 0 THEN heard ELSE carry) /\ carry' = 0
      /\ UNCHANGED <<audioFifo, opusFifo, item, produced, encPc>>
  BY DEF CapSends, fifos
<1>2. /\ carry \in Nat /\ heard \in Nat /\ item \in Nat
      /\ \A i \in 1 .. Len(opusFifo) : opusFifo[i] \in Nat \ {0}
  BY DEF TypeOK
<1>3. TypeOK'
  BY <1>1 DEF CapSends, TypeOK, fifos, mains
<1>4. LockInv' /\ PlaceInv' /\ NoSleepOverWork'
  BY <1>1 DEF CapSends, LockInv, PlaceInv, NoSleepOverWork, fifos
<1>5. AudioInv' /\ ItemInv' /\ OpusInv'
  BY <1>1 DEF OrderInv, AudioInv, ItemInv, OpusInv, Encoding
<1>6. CarryInv'
  BY <1>1, <1>2 DEF OrderInv, CarryInv, ItemInv, Encoding
<1> QED
  BY <1>3, <1>4, <1>5, <1>6 DEF OrderInv

LEMMA TakesKeeps ==
    ASSUME IInv, EncTakes
    PROVE  IInv'
<1> USE DEF IInv
<1>1. /\ audioFifo \in Seq(Nat \ {0}) /\ audioFifo # <<>>
      /\ audioFifo' = Pop(audioFifo) /\ item' = Head(audioFifo)
      /\ ~Encoding /\ Encoding'
      /\ UNCHANGED <<opusFifo, carry, produced, heard>>
  BY DEF EncTakes, EncStays, TypeOK, PlaceInv, Encoding
<1>2. /\ audioFifo' \in Seq(Nat \ {0})
      /\ Len(audioFifo') = Len(audioFifo) - 1
      /\ Len(audioFifo) \in Nat \ {0} /\ item' = audioFifo[1]
      /\ item' \in Nat \ {0}
      /\ \A i \in 1 .. Len(audioFifo') :
            audioFifo'[i] = audioFifo[i + 1] /\ i + 1 \in 1 .. Len(audioFifo)
      /\ 1 \in 1 .. Len(audioFifo)
  BY <1>1, PopFront
<1>3. TypeOK'
  BY <1>1, <1>2, AudioAssumption DEF TypeOK, EncTakes, EncStays, mains, Free
<1>4. LockInv' /\ PlaceInv' /\ NoSleepOverWork'
  BY <1>1, <1>2
     DEF EncTakes, EncStays, mains, LockInv, PlaceInv, NoSleepOverWork,
         TypeOK, Free
<1>5. AudioInv'
  BY <1>1, <1>2 DEF OrderInv, AudioInv, TypeOK
<1>6. item' = produced - Len(audioFifo) + 1 /\ item < item' /\ item \in Nat
  BY <1>2 DEF OrderInv, AudioInv, ItemInv, TypeOK
<1>7. item' + Len(audioFifo') <= produced'
  BY <1>1, <1>2, <1>6 DEF TypeOK
<1>8. /\ \A i \in 1 .. Len(opusFifo) : opusFifo[i] \in Nat
      /\ item \in Nat /\ item' \in Nat /\ carry \in Nat /\ heard \in Nat
  BY <1>2 DEF TypeOK
<1>9. ItemInv' /\ OpusInv' /\ CarryInv'
  BY <1>1, <1>2, <1>6, <1>7, <1>8 DEF OrderInv, ItemInv, OpusInv, CarryInv
<1> QED
  BY <1>3, <1>4, <1>5, <1>9 DEF OrderInv

LEMMA StoresKeeps ==
    ASSUME IInv, EncStores
    PROVE  IInv'
<1> USE DEF IInv
<1> DEFINE q == IF encPc = "replacing" THEN Pop(opusFifo) ELSE opusFifo
           d == IF encPc = "replacing" THEN 1 ELSE 0
<1>1. /\ q \in Seq(Nat \ {0}) /\ Len(q) < Depth /\ Len(q) \in Nat
      /\ Len(q) = Len(opusFifo) - d /\ d \in {0, 1}
      /\ \A i \in 1 .. Len(q) : q[i] = opusFifo[i + d]
  <2>1. CASE encPc = "replacing"
    <3>1. opusFifo # <<>> /\ Len(opusFifo) = Depth
      BY <2>1, AudioAssumption DEF PlaceInv
    <3> QED
      BY <2>1, <3>1, PopFront, AudioAssumption DEF TypeOK
  <2>2. CASE encPc = "storing"
    BY <2>2 DEF TypeOK, PlaceInv
  <2> QED
    BY <2>1, <2>2 DEF EncStores
<1>2. /\ opusFifo' = Append(q, item) /\ item \in Nat \ {0}
      /\ Encoding /\ ~Encoding'
      /\ UNCHANGED <<audioFifo, item, carry, produced, heard>>
  BY DEF EncStores, EncStays, Encoding, OrderInv, ItemInv, TypeOK
<1> HIDE DEF q, d
<1>3. /\ opusFifo' \in Seq(Nat \ {0}) /\ Len(opusFifo') = Len(q) + 1
      /\ \A i \in 1 .. Len(q) : opusFifo'[i] = opusFifo[i + d]
      /\ opusFifo'[Len(q) + 1] = item
      /\ \A i \in 1 .. Len(q) : i + d \in 1 .. Len(opusFifo)
  BY <1>1, <1>2, RangeAppend
<1>4. TypeOK'
  BY <1>1, <1>2, <1>3, AudioAssumption DEF TypeOK, EncStores, EncStays, mains,
     Free
<1>5. LockInv' /\ PlaceInv' /\ NoSleepOverWork'
  BY <1>2 DEF EncStores, EncStays, mains, LockInv, PlaceInv, NoSleepOverWork,
              TypeOK, Free
<1>6. AudioInv'
  BY <1>2 DEF OrderInv, AudioInv
<1>7. \A i \in 1 .. Len(opusFifo') : i \in 1 .. Len(q) \/ i = Len(q) + 1
  BY <1>1, <1>3
<1>8. ItemInv' /\ CarryInv'
  <2>1. /\ \A i \in 1 .. Len(opusFifo) :
              /\ heard < opusFifo[i] /\ carry < opusFifo[i]
              /\ opusFifo[i] < item
        /\ carry < item /\ heard < item /\ item + Len(audioFifo) <= produced
        /\ carry # 0 => heard < carry
    BY <1>2 DEF OrderInv, ItemInv, CarryInv
  <2>2. /\ carry \in Nat /\ heard \in Nat
        /\ \A i \in 1 .. Len(opusFifo) : opusFifo[i] \in Nat
    BY DEF TypeOK
  <2>3. ASSUME NEW i \in 1 .. Len(opusFifo')
        PROVE  /\ heard < opusFifo'[i] /\ carry < opusFifo'[i]
               /\ opusFifo'[i] <= item
    <3>1. CASE i \in 1 .. Len(q)
      <4>1. i + d \in 1 .. Len(opusFifo) /\ opusFifo'[i] = opusFifo[i + d]
        BY <3>1, <1>3
      <4>2. opusFifo[i + d] \in Nat /\ opusFifo[i + d] < item
        BY <4>1, <2>1, <2>2
      <4> QED
        BY <4>1, <4>2, <2>1, <1>2
    <3>2. CASE i = Len(q) + 1
      BY <3>2, <2>1, <1>2, <1>3
    <3> QED
      BY <3>1, <3>2, <1>7
  <2> QED
    BY <2>1, <2>2, <2>3, <1>2 DEF ItemInv, CarryInv
<1>9. OpusInv'
  <2> SUFFICES ASSUME NEW i \in 1 .. Len(opusFifo'),
                      NEW j \in 1 .. Len(opusFifo'), i < j
               PROVE  opusFifo'[i] + (j - i) <= opusFifo'[j]
    BY DEF OpusInv
  <2>1. i \in 1 .. Len(q)
    BY <1>1, <1>3
  <2>2. CASE j \in 1 .. Len(q)
    <3>0. /\ i + d \in 1 .. Len(opusFifo) /\ j + d \in 1 .. Len(opusFifo)
          /\ d \in Int /\ i + d < j + d
      BY <2>1, <2>2, <1>1, <1>3
    <3>1. opusFifo[i + d] + ((j + d) - (i + d)) <= opusFifo[j + d]
      BY <3>0 DEF OrderInv, OpusInv
    <3> QED
      BY <3>1, <2>1, <2>2, <1>1, <1>3
  <2>3. CASE j = Len(q) + 1
    <3>1. /\ Len(opusFifo) = Len(q) + d /\ Len(opusFifo) \in 1 .. Len(opusFifo)
          /\ i + d \in 1 .. Len(opusFifo)
      <4>1. i + d \in 1 .. Len(opusFifo)
        BY <1>3, <2>1
      <4>2. Len(opusFifo) = Len(q) + d /\ Len(opusFifo) \in Nat
        BY <1>1
      <4> QED
        BY <4>1, <4>2
    <3>2. opusFifo[Len(opusFifo)] < item
      BY <3>1, <1>2 DEF OrderInv, ItemInv
    <3>3. opusFifo[i + d] + (Len(opusFifo) - (i + d)) <= opusFifo[Len(opusFifo)]
      <4>1. opusFifo[i + d] \in Nat
        BY <3>1 DEF TypeOK
      <4>2. CASE i + d = Len(opusFifo)
        BY <4>1, <4>2, <3>1, <1>1
      <4>3. CASE i + d < Len(opusFifo)
        BY <4>3, <3>1, <1>1 DEF OrderInv, OpusInv
      <4> QED
        BY <4>2, <4>3, <3>1, <1>1
    <3>4. opusFifo[Len(opusFifo)] \in Nat /\ opusFifo[i + d] \in Nat
      BY <3>1 DEF TypeOK
    <3>5. opusFifo'[i] = opusFifo[i + d] /\ opusFifo'[j] = item
      BY <2>1, <2>3, <1>3
    <3>6. /\ d \in Int /\ i \in Int /\ Len(q) \in Int /\ item \in Int
          /\ Len(opusFifo) = Len(q) + d
      BY <1>1, <1>2, <3>1
    <3> HIDE DEF d, q
    <3>7. opusFifo[i + d] + (Len(q) - i) <= opusFifo[Len(opusFifo)]
      BY <3>3, <3>4, <3>6
    <3> QED
      BY <3>2, <3>4, <3>5, <3>6, <3>7, <2>3
  <2> QED
    BY <2>2, <2>3, <1>7
<1> QED
  BY <1>4, <1>5, <1>6, <1>8, <1>9 DEF OrderInv

\* The other steps change neither what is in a FIFO nor what is out of it.
LEMMA CaptureKeeps ==
    ASSUME IInv,
           \/ CapStarts \/ CapOpens \/ CapOpenFails \/ CapOpenStops \/ CapTop
           \/ CapReads \/ CapFails \/ CapLocks \/ CapNotifies
    PROVE  IInv'
<1> USE DEF IInv
<1>1. /\ UNCHANGED <<audioFifo, opusFifo, item, carry, produced, heard>>
      /\ Encoding' => Encoding
  BY DEF CapStarts, CapOpens, CapOpenFails, CapOpenStops, CapTop, CapReads,
         CapFails, CapLocks, CapNotifies, CapStays, fifos, Encoding
<1>2. OrderInv'
  BY <1>1, OrderKept
<1>3. CASE CapLocks
  <2>1. TypeOK' /\ LockInv'
    BY <1>1, <1>3 DEF CapLocks, TypeOK, LockInv, mains, Free
  <2>2. PlaceInv' /\ NoSleepOverWork'
    <3>1. Full(audioFifo) => Len(audioFifo) = Depth
      BY AudioAssumption DEF Full, TypeOK
    <3>2. ~Full(audioFifo) => Len(audioFifo) < Depth
      BY AudioAssumption DEF Full, TypeOK
    <3> QED
      BY <1>1, <1>3, <3>1, <3>2
         DEF CapLocks, PlaceInv, LockInv, NoSleepOverWork, Free
  <2> QED
    BY <1>2, <2>1, <2>2
<1>4. CASE CapNotifies
  <2>1. TypeOK'
    BY <1>1, <1>4 DEF CapNotifies, TypeOK, mains, fifos
  <2>2. LockInv' /\ PlaceInv' /\ NoSleepOverWork'
    BY <1>1, <1>4
       DEF CapNotifies, LockInv, PlaceInv, NoSleepOverWork, fifos
  <2> QED
    BY <1>2, <2>1, <2>2
<1>5. CASE \/ CapStarts \/ CapOpens \/ CapOpenFails \/ CapOpenStops \/ CapTop
           \/ CapReads \/ CapFails
  <2> USE DEF CapStarts, CapOpens, CapOpenFails, CapOpenStops, CapTop,
              CapReads, CapFails, CapStays, fifos, mains
  <2>1. TypeOK'
    BY <1>1, <1>5 DEF TypeOK
  <2>2. LockInv' /\ PlaceInv' /\ NoSleepOverWork'
    BY <1>1, <1>5 DEF LockInv, PlaceInv, NoSleepOverWork
  <2> QED
    BY <1>2, <2>1, <2>2
<1> QED
  BY <1>3, <1>4, <1>5

LEMMA EncoderKeeps ==
    ASSUME IInv,
           \/ EncStarts \/ EncTop \/ EncLocks \/ EncSleeps \/ EncWakes
           \/ EncodeFails \/ EncLocksOpus
    PROVE  IInv'
<1> USE DEF IInv
<1>1. /\ UNCHANGED <<audioFifo, opusFifo, item, carry, produced, heard>>
      /\ Encoding' => Encoding
  BY DEF EncStarts, EncTop, EncLocks, EncSleeps, EncWakes, EncodeFails,
         EncLocksOpus, EncStays, fifos, Encoding
<1>2. OrderInv'
  BY <1>1, OrderKept
<1>3. CASE EncLocksOpus
  <2>1. TypeOK' /\ LockInv' /\ NoSleepOverWork'
    BY <1>1, <1>3 DEF EncLocksOpus, EncStays, TypeOK, LockInv, mains, Free,
                      NoSleepOverWork
  <2>2. PlaceInv'
    <3>1. Full(opusFifo) => Len(opusFifo) = Depth
      BY AudioAssumption DEF Full, TypeOK
    <3>2. ~Full(opusFifo) => Len(opusFifo) < Depth
      BY AudioAssumption DEF Full, TypeOK
    <3> QED
      BY <1>1, <1>3, <3>1, <3>2 DEF EncLocksOpus, EncStays, PlaceInv
  <2> QED
    BY <1>2, <2>1, <2>2
<1>4. CASE EncLocks \/ EncSleeps
  <2>1. TypeOK'
    BY <1>1, <1>4 DEF EncLocks, EncSleeps, EncStays, TypeOK, mains
  <2>2. UNCHANGED <<capPc, opusLock>>
    BY <1>4 DEF EncLocks, EncSleeps, EncStays
  <2>3. CASE EncSleeps
    BY <1>1, <1>2, <2>1, <2>2, <2>3
       DEF EncSleeps, LockInv, PlaceInv, NoSleepOverWork, Free
  <2>4. CASE EncLocks
    <3>1. CASE audioFifo = <<>> /\ ~running
      BY <1>1, <1>2, <2>1, <2>2, <2>4, <3>1
         DEF EncLocks, LockInv, PlaceInv, NoSleepOverWork, Free
    <3>2. CASE ~(audioFifo = <<>> /\ ~running)
      BY <1>1, <1>2, <2>1, <2>2, <2>4, <3>2
         DEF EncLocks, LockInv, PlaceInv, NoSleepOverWork, Free
    <3> QED
      BY <3>1, <3>2
  <2> QED
    BY <1>4, <2>3, <2>4
<1>5. CASE EncStarts \/ EncTop \/ EncWakes \/ EncodeFails
  <2>1. TypeOK'
    BY <1>1, <1>5 DEF EncStarts, EncTop, EncWakes, EncodeFails, EncStays,
                      TypeOK, mains, fifos
  <2>2. LockInv' /\ PlaceInv' /\ NoSleepOverWork'
    BY <1>1, <1>5 DEF EncStarts, EncTop, EncWakes, EncodeFails, EncStays,
                      LockInv, PlaceInv, NoSleepOverWork, fifos
  <2> QED
    BY <1>2, <2>1, <2>2
<1> QED
  BY <1>3, <1>4, <1>5

LEMMA MainKeeps ==
    ASSUME IInv,
           \/ UnbindUdc \/ StopRunning \/ NotifyAll \/ JoinCapture
           \/ JoinEncoder \/ UNCHANGED vars
    PROVE  IInv'
<1> USE DEF IInv, UnbindUdc, StopRunning, NotifyAll, JoinCapture, JoinEncoder,
            MainStays, fifos, mains, vars
<1>1. /\ UNCHANGED <<audioFifo, opusFifo, item, carry, produced, heard>>
      /\ Encoding' => Encoding
  BY DEF Encoding
<1>2. OrderInv'
  BY <1>1, OrderKept
<1>3. TypeOK'
  BY <1>1 DEF TypeOK
<1>4. /\ UNCHANGED <<capPc, audioLock, opusLock>>
      /\ encPc' = encPc \/ (encPc = "asleep" /\ encPc' = "woken")
  OBVIOUS
<1>5. LockInv' /\ PlaceInv' /\ NoSleepOverWork'
  BY <1>1, <1>4 DEF LockInv, PlaceInv, NoSleepOverWork
<1> QED
  BY <1>2, <1>3, <1>5

LEMMA StepIInv == IInv /\ [Next]_vars => IInv'
  BY CaptureKeeps, EncoderKeeps, MainKeeps, PushKeeps, PopsKeeps, SendsKeeps,
     TakesKeeps, StoresKeeps DEF Next, Capture, Encoder, Main, World
-----------------------------------------------------------------------------
(* Every step is one of the abstract FIFO, or none. *)

LEMMA PushRefines ==
    ASSUME IInv, CapPushes
    PROVE  Abstract!Push
<1> USE DEF IInv
<1> DEFINE Rest == Range(opusFifo) \cup (IF Encoding THEN {item} ELSE {})
                   \cup (IF carry = 0 THEN {} ELSE {carry})
<1>1. /\ produced' = produced + 1 /\ produced \in Nat
      /\ heard' = heard /\ refused' = refused
      /\ OnTheWay = Range(audioFifo) \cup Rest
      /\ OnTheWay' = Range(audioFifo') \cup Rest
  BY DEF CapPushes, OnTheWay, Encoding, TypeOK
<1>2. CASE capPc = "pushing"
  <2>1. audioFifo' = Append(audioFifo, produced')
    BY <1>2 DEF CapPushes
  <2>2. Range(audioFifo') = Range(audioFifo) \cup {produced'}
    BY <2>1, <1>1, RangeAppend DEF TypeOK
  <2>3. OnTheWay' = (OnTheWay \cup {produced'}) \ {}
    BY <1>1, <2>2
  <2> QED
    BY <1>1, <2>3 DEF Abstract!Push, Abstract!MayGo
<1>3. CASE capPc = "replacing"
  <2>1. /\ audioFifo \in Seq(Nat \ {0}) /\ audioFifo # <<>>
        /\ Len(audioFifo) = Depth
    BY <1>3, AudioAssumption DEF PlaceInv, TypeOK
  <2> DEFINE q == Pop(audioFifo)
             old == Head(audioFifo)
  <2>2. /\ q \in Seq(Nat \ {0}) /\ old = audioFifo[1]
        /\ Len(q) = Depth - 1
        /\ \A i \in 1 .. Len(q) : q[i] = audioFifo[i + 1]
        /\ Range(audioFifo) = {old} \cup Range(q)
        /\ Range(q) = {q[i] : i \in 1 .. Len(q)}
    <3>1. audioFifo \in Seq(Nat \ {0})
      BY DEF TypeOK
    <3>2. q \in Seq(Nat \ {0}) /\ Range(audioFifo) = {old} \cup Range(q)
      BY <2>1, <3>1, PopFront, RangePop
    <3>3. Range(q) = {q[i] : i \in 1 .. Len(q)}
      BY <3>2, RangeSeq
    <3>4. Len(q) = Depth - 1 /\ old = audioFifo[1] /\ old \in Nat \ {0}
      BY <2>1, <3>1, PopFront
    <3>5. \A i \in 1 .. Len(q) : q[i] = audioFifo[i + 1]
      BY <2>1, <3>1, PopFront
    <3> QED
      BY <3>2, <3>3, <3>4, <3>5
  <2>3. audioFifo' = Append(q, produced')
    BY <1>3 DEF CapPushes
  <2> HIDE DEF q, old
  <2>4. Range(audioFifo') = Range(q) \cup {produced'}
    <3>1. produced' \in Nat \ {0}
      BY <1>1
    <3>2. q \in Seq(Nat \ {0})
      BY <2>2
    <3>3. ASSUME NEW x \in Nat \ {0}
          PROVE  Range(Append(q, x)) = Range(q) \cup {x}
      BY <3>2, RangeAppend
    <3>4. Range(Append(q, produced')) = Range(q) \cup {produced'}
      BY <3>1, <3>3
    <3> QED
      BY <2>3, <3>4
  <2>5. old = produced - Depth + 1
    BY <2>1, <2>2, AudioAssumption DEF OrderInv, AudioInv
  <2>6. old + Depth <= produced' /\ old # produced'
    BY <2>5, <1>1, AudioAssumption
  <2>7. old \notin Range(q)
    <3>1. ASSUME NEW i \in 1 .. Len(q) PROVE q[i] # old
      <4>1. i + 1 \in 1 .. Len(audioFifo) /\ i \in Nat \ {0}
        BY <2>1, <2>2, AudioAssumption
      <4>2. q[i] = produced - Depth + (i + 1)
        BY <2>1, <2>2, <4>1 DEF OrderInv, AudioInv
      <4> QED
        BY <4>1, <4>2, <2>5, <1>1, AudioAssumption
    <3> QED
      BY <3>1, <2>2
  <2>8. old \notin Rest
    <3>1. item < old /\ item \in Nat /\ carry <= item /\ carry \in Nat
      BY <2>1, <2>5, <1>1, AudioAssumption
         DEF OrderInv, ItemInv, CarryInv, TypeOK
    <3>2. \A i \in 1 .. Len(opusFifo) :
              opusFifo[i] <= item /\ opusFifo[i] \in Nat
      BY DEF OrderInv, ItemInv, TypeOK
    <3>3. \A i \in 1 .. Len(opusFifo) : opusFifo[i] # old
      BY <3>1, <3>2, <2>5, <1>1, AudioAssumption
    <3>4. Range(opusFifo) = {opusFifo[i] : i \in 1 .. Len(opusFifo)}
      BY RangeSeq DEF TypeOK
    <3>5. item # old /\ carry # old
      BY <3>1, <2>5, <1>1, AudioAssumption
    <3> QED
      BY <3>3, <3>4, <3>5
  <2>9. OnTheWay' = (OnTheWay \cup {produced'}) \ {old}
    BY <1>1, <2>2, <2>4, <2>6, <2>7, <2>8
  <2>10. old \in OnTheWay
    BY <1>1, <2>2
  <2> QED
    BY <1>1, <2>6, <2>9, <2>10 DEF Abstract!Push, Abstract!MayGo
<1> QED
  BY <1>2, <1>3 DEF CapPushes

\* The front of opus_fifo, or nothing, passes to the capture thread.
LEMMA PopsRefines ==
    ASSUME IInv, CapPops
    PROVE  UNCHANGED Abstract!vars
<1> USE DEF IInv
<1>1. /\ UNCHANGED <<audioFifo, item, encPc, produced, refused, heard>>
      /\ carry = 0 /\ opusFifo' = Pop(opusFifo)
      /\ carry' = IF opusFifo = <<>> THEN 0 ELSE Head(opusFifo)
      /\ opusFifo \in Seq(Nat \ {0})
  BY DEF CapPops, PlaceInv, TypeOK
<1>2. Range(opusFifo') \cup (IF carry' = 0 THEN {} ELSE {carry'})
          = Range(opusFifo)
  <2>1. CASE opusFifo = <<>>
    BY <2>1, <1>1, PopEmpty
  <2>2. CASE opusFifo # <<>>
    <3>1. Range(opusFifo) = {Head(opusFifo)} \cup Range(Pop(opusFifo))
      BY <2>2, <1>1, RangePop
    <3>2. Head(opusFifo) # 0
      BY <2>2, <1>1, PopFront
    <3> QED
      BY <3>1, <3>2, <2>2, <1>1
  <2> QED
    BY <2>1, <2>2
<1>3. Encoding' = Encoding
  BY <1>1 DEF Encoding
<1>4. OnTheWay' = OnTheWay
  BY <1>1, <1>2, <1>3 DEF OnTheWay
<1> QED
  BY <1>1, <1>4 DEF Abstract!vars

\* A report with a packet lets the oldest block out.
LEMMA SendsRefines ==
    ASSUME IInv, CapSends
    PROVE  Abstract!Pop \/ UNCHANGED Abstract!vars
<1> USE DEF IInv
<1> DEFINE Rest == Range(audioFifo) \cup Range(opusFifo)
                   \cup (IF Encoding THEN {item} ELSE {})
<1>1. /\ heard' = (IF carry = 0 THEN heard ELSE carry) /\ carry' = 0
      /\ produced' = produced /\ refused' = refused /\ Encoding' = Encoding
      /\ UNCHANGED <<audioFifo, opusFifo, item>>
  BY DEF CapSends, fifos, Encoding
<1>2. /\ OnTheWay = Rest \cup (IF carry = 0 THEN {} ELSE {carry})
      /\ OnTheWay' = Rest
  BY <1>1 DEF OnTheWay
<1>3. CASE carry = 0
  BY <1>1, <1>2, <1>3 DEF Abstract!vars
<1>4. CASE carry # 0
  <2>1. \A j \in Rest : carry < j
    <3>1. /\ Range(opusFifo) = {opusFifo[i] : i \in 1 .. Len(opusFifo)}
          /\ Range(audioFifo) = {audioFifo[i] : i \in 1 .. Len(audioFifo)}
      BY RangeSeq DEF TypeOK
    <3>2. \A i \in 1 .. Len(opusFifo) : carry < opusFifo[i]
      BY DEF OrderInv, CarryInv
    <3>3. ASSUME NEW i \in 1 .. Len(audioFifo) PROVE carry < audioFifo[i]
      <4>1. /\ audioFifo[i] = produced - Len(audioFifo) + i
            /\ carry <= item /\ item + Len(audioFifo) <= produced
        BY DEF OrderInv, AudioInv, ItemInv, CarryInv
      <4>2. /\ carry \in Nat /\ item \in Nat /\ produced \in Nat
            /\ Len(audioFifo) \in Nat
        BY DEF TypeOK
      <4> QED
        BY <4>1, <4>2
    <3>4. Encoding => carry < item
      BY DEF OrderInv, CarryInv
    <3> QED
      BY <3>1, <3>2, <3>3, <3>4
  <2>2. /\ carry \in Nat /\ heard < carry /\ heard \in Nat
        /\ \A j \in Rest : j \in Nat
    <3>1. /\ Range(opusFifo) = {opusFifo[i] : i \in 1 .. Len(opusFifo)}
          /\ Range(audioFifo) = {audioFifo[i] : i \in 1 .. Len(audioFifo)}
      BY RangeSeq DEF TypeOK
    <3> QED
      BY <3>1, <1>4 DEF TypeOK, OrderInv, CarryInv
  <2> HIDE DEF Rest
  <2>3. OnTheWay = Rest \cup {carry} /\ carry \notin Rest
    BY <1>2, <1>4, <2>1, <2>2
  <2>4. /\ carry \in OnTheWay /\ carry > heard
        /\ \A j \in OnTheWay : carry <= j
        /\ OnTheWay' = OnTheWay \ {carry} /\ heard' = carry
    BY <1>1, <1>2, <1>4, <2>1, <2>2, <2>3
  <2> QED
    BY <2>4, <1>1 DEF Abstract!Pop
<1> QED
  BY <1>3, <1>4

\* The front of audio_fifo passes to the encoder.
LEMMA TakesRefines ==
    ASSUME IInv, EncTakes
    PROVE  UNCHANGED Abstract!vars
<1> USE DEF IInv
<1>1. /\ UNCHANGED <<opusFifo, carry, produced, refused, heard>>
      /\ audioFifo \in Seq(Nat \ {0}) /\ audioFifo # <<>>
      /\ audioFifo' = Pop(audioFifo) /\ item' = Head(audioFifo)
      /\ ~Encoding /\ Encoding'
  BY DEF EncTakes, EncStays, TypeOK, PlaceInv, Encoding
<1>2. Range(audioFifo) = Range(audioFifo') \cup {item'}
  BY <1>1, RangePop
<1>3. OnTheWay' = OnTheWay
  BY <1>1, <1>2 DEF OnTheWay
<1> QED
  BY <1>1, <1>3 DEF Abstract!vars

\* A new packet may replace the oldest one.
LEMMA StoresRefines ==
    ASSUME IInv, EncStores
    PROVE  Abstract!Drop \/ UNCHANGED Abstract!vars
<1> USE DEF IInv
<1> DEFINE Rest == Range(audioFifo)
                   \cup (IF carry = 0 THEN {} ELSE {carry})
<1>1. /\ UNCHANGED <<audioFifo, item, carry, produced, refused, heard>>
      /\ Encoding /\ ~Encoding' /\ item \in Nat \ {0}
      /\ opusFifo \in Seq(Nat \ {0})
  BY DEF EncStores, EncStays, Encoding, OrderInv, ItemInv, TypeOK
<1>2. /\ OnTheWay = Rest \cup Range(opusFifo) \cup {item}
      /\ OnTheWay' = Rest \cup Range(opusFifo')
  BY <1>1 DEF OnTheWay
<1>3. CASE encPc = "storing"
  <2>1. opusFifo' = Append(opusFifo, item)
    BY <1>3 DEF EncStores
  <2>2. Range(opusFifo') = Range(opusFifo) \cup {item}
    BY <2>1, <1>1, RangeAppend
  <2> QED
    BY <1>1, <1>2, <2>2 DEF Abstract!vars
<1>4. CASE encPc = "replacing"
  <2>1. opusFifo # <<>> /\ Len(opusFifo) = Depth
    BY <1>4, AudioAssumption DEF PlaceInv
  <2> DEFINE q == Pop(opusFifo)
             old == Head(opusFifo)
  <2>2. /\ q \in Seq(Nat \ {0}) /\ old = opusFifo[1] /\ old \in Nat \ {0}
        /\ Len(q) = Depth - 1
        /\ \A i \in 1 .. Len(q) : q[i] = opusFifo[i + 1]
        /\ Range(opusFifo) = {old} \cup Range(q)
        /\ Range(q) = {q[i] : i \in 1 .. Len(q)}
    <3>1. opusFifo \in Seq(Nat \ {0})
      BY DEF TypeOK
    <3>2. q \in Seq(Nat \ {0}) /\ Range(opusFifo) = {old} \cup Range(q)
      BY <2>1, <3>1, PopFront, RangePop
    <3>3. Range(q) = {q[i] : i \in 1 .. Len(q)}
      BY <3>2, RangeSeq
    <3>4. Len(q) = Depth - 1 /\ old = opusFifo[1] /\ old \in Nat \ {0}
      BY <2>1, <3>1, PopFront
    <3>5. \A i \in 1 .. Len(q) : q[i] = opusFifo[i + 1]
      BY <2>1, <3>1, PopFront
    <3> QED
      BY <3>2, <3>3, <3>4, <3>5
  <2>3. opusFifo' = Append(q, item)
    BY <1>4 DEF EncStores
  <2> HIDE DEF q, old
  <2>4. Range(opusFifo') = Range(q) \cup {item}
    BY <2>2, <2>3, <1>1, RangeAppend
  <2>5. 1 \in 1 .. Len(opusFifo) /\ Len(opusFifo) \in 1 .. Len(opusFifo)
    BY <2>1, AudioAssumption
  <2>6. opusFifo[Depth] < item /\ opusFifo[Depth] \in Nat
    BY <2>1, <2>5, <1>1 DEF OrderInv, ItemInv
  <2>7. old + (Depth - 1) <= opusFifo[Depth]
    <3>1. CASE Depth = 1
      BY <3>1, <2>2, <2>6
    <3>2. CASE 1 < Depth
      BY <3>2, <2>1, <2>2, <2>5 DEF OrderInv, OpusInv
    <3> QED
      BY <3>1, <3>2, AudioAssumption
  <2>8. old + Depth <= produced /\ old < item
    <3>1. item <= produced /\ produced \in Nat
      <4>1. item + Len(audioFifo) <= produced /\ Len(audioFifo) \in Nat
            /\ produced \in Nat
        BY DEF OrderInv, ItemInv, TypeOK
      <4> QED
        BY <4>1, <1>1
    <3> QED
      BY <3>1, <2>2, <2>6, <2>7, <1>1, AudioAssumption
  <2>9. old \notin Range(q)
    <3>1. ASSUME NEW i \in 1 .. Len(q) PROVE q[i] # old
      <4>1. i + 1 \in 1 .. Len(opusFifo) /\ 1 < i + 1
        BY <2>1, <2>2, AudioAssumption
      <4>2. opusFifo[1] + ((i + 1) - 1) <= opusFifo[i + 1]
        BY <4>1, <2>5 DEF OrderInv, OpusInv
      <4>3. opusFifo[i + 1] \in Nat
        BY <4>1, <1>1
      <4> QED
        BY <4>1, <4>2, <4>3, <2>2
    <3> QED
      BY <3>1, <2>2
  <2>10. old \notin Rest
    <3>1. Range(audioFifo) = {audioFifo[i] : i \in 1 .. Len(audioFifo)}
      BY RangeSeq DEF TypeOK
    <3>2. ASSUME NEW i \in 1 .. Len(audioFifo) PROVE audioFifo[i] # old
      <4>1. /\ audioFifo[i] = produced - Len(audioFifo) + i
            /\ item + Len(audioFifo) <= produced
            /\ produced \in Nat /\ Len(audioFifo) \in Nat
        BY DEF OrderInv, AudioInv, ItemInv, TypeOK
      <4> QED
        BY <4>1, <2>2, <2>8, <1>1
    <3>3. carry < old /\ carry \in Nat
      BY <2>2, <2>5 DEF OrderInv, CarryInv, TypeOK
    <3>4. carry # old
      BY <3>3, <2>2
    <3> QED
      BY <3>1, <3>2, <3>4
  <2>11. old # item
    BY <2>2, <2>8, <1>1
  <2>12. old \in OnTheWay /\ OnTheWay' = OnTheWay \ {old}
    BY <1>2, <2>2, <2>4, <2>9, <2>10, <2>11
  <2> QED
    BY <1>1, <2>8, <2>12 DEF Abstract!Drop, Abstract!MayGo
<1> QED
  BY <1>3, <1>4 DEF EncStores

\* A block that cannot be encoded is on the way no more.
LEMMA FailsRefines ==
    ASSUME IInv, EncodeFails
    PROVE  Abstract!Refuse
<1> USE DEF IInv
<1> DEFINE Rest == Range(audioFifo) \cup Range(opusFifo)
                   \cup (IF carry = 0 THEN {} ELSE {carry})
<1>1. /\ UNCHANGED <<audioFifo, opusFifo, item, carry, produced, heard>>
      /\ Encoding /\ ~Encoding' /\ item \in Nat /\ refused' = refused + 1
  BY DEF EncodeFails, Encoding, TypeOK, fifos
<1>2. OnTheWay = Rest \cup {item} /\ OnTheWay' = Rest
  BY <1>1 DEF OnTheWay
<1>3. /\ Range(opusFifo) = {opusFifo[i] : i \in 1 .. Len(opusFifo)}
      /\ Range(audioFifo) = {audioFifo[i] : i \in 1 .. Len(audioFifo)}
  BY RangeSeq DEF TypeOK
<1>4. ASSUME NEW i \in 1 .. Len(opusFifo) PROVE opusFifo[i] # item
  <2>1. opusFifo[i] < item /\ opusFifo[i] \in Nat
    BY <1>1 DEF OrderInv, ItemInv, TypeOK
  <2> QED
    BY <2>1, <1>1
<1>5. ASSUME NEW i \in 1 .. Len(audioFifo) PROVE audioFifo[i] # item
  <2>1. /\ audioFifo[i] = produced - Len(audioFifo) + i
        /\ item + Len(audioFifo) <= produced
        /\ produced \in Nat /\ Len(audioFifo) \in Nat
    BY DEF OrderInv, AudioInv, ItemInv, TypeOK
  <2> QED
    BY <2>1, <1>1
<1>6. carry # item
  <2>1. carry < item /\ carry \in Nat
    BY <1>1 DEF OrderInv, CarryInv, TypeOK
  <2> QED
    BY <2>1, <1>1
<1>7. item \notin Rest
  BY <1>3, <1>4, <1>5, <1>6
<1> HIDE DEF Rest
<1>8. item \in OnTheWay /\ OnTheWay' = OnTheWay \ {item}
  BY <1>2, <1>7
<1> QED
  BY <1>1, <1>8 DEF Abstract!Refuse

\* All other steps leave what is on the way alone.
LEMMA OthersRefine ==
    ASSUME IInv, UNCHANGED <<audioFifo, opusFifo, item, carry, hist>>,
           Encoding' = Encoding
    PROVE  UNCHANGED Abstract!vars
  BY DEF OnTheWay, Abstract!vars
-----------------------------------------------------------------------------
(* The theorems. *)

\* The invariant holds for ever.
THEOREM Invariance == Spec => []IInv
<1>1. Init => IInv
  BY InitIInv
<1>2. IInv /\ [Next]_vars => IInv'
  BY StepIInv
<1> QED
  BY <1>1, <1>2, PTL DEF Spec

\* The variables keep their types and neither FIFO outgrows its places.
THEOREM TypeCorrect == Spec => []TypeOK
<1>1. IInv => TypeOK
  BY DEF IInv
<1> QED
  BY <1>1, Invariance, PTL

\* core1_entry never sleeps while a block waits, but for the notification
\* that process_pcm_data is about to send.
THEOREM NeverAsleepOverWork == Spec => []NoSleepOverWork
<1>1. IInv => NoSleepOverWork
  BY DEF IInv
<1> QED
  BY <1>1, Invariance, PTL

\* The two FIFOs and their three threads implement one FIFO that loses a
\* block only to newer ones, but for those that cannot be encoded.
THEOREM Refinement == Spec => ImplementsLossyFifo
<1>1. Init => Abstract!Init
  <2> SUFFICES ASSUME Init PROVE Abstract!Init
    OBVIOUS
  <2>1. Range(<<>>) = {}
    BY DEF Range
  <2> QED
    BY <2>1 DEF Init, Abstract!Init, OnTheWay, Encoding
<1>2. IInv /\ [Next]_vars => [Abstract!Next]_(Abstract!vars)
  <2> SUFFICES ASSUME IInv, [Next]_vars
               PROVE  Abstract!Next \/ UNCHANGED Abstract!vars
    OBVIOUS
  <2>1. CASE \/ CapPushes \/ CapPops \/ CapSends \/ EncTakes \/ EncStores
             \/ EncodeFails
    BY <2>1, PushRefines, PopsRefines, SendsRefines, TakesRefines,
       StoresRefines, FailsRefines DEF Abstract!Next
  <2>2. CASE \/ CapStarts \/ CapOpens \/ CapOpenFails \/ CapOpenStops
             \/ CapTop \/ CapReads \/ CapFails \/ CapLocks \/ CapNotifies
    <3>1. UNCHANGED <<audioFifo, opusFifo, item, carry, hist>>
      BY <2>2 DEF CapStarts, CapOpens, CapOpenFails, CapOpenStops, CapTop,
                  CapReads, CapFails, CapLocks, CapNotifies, CapStays, fifos
    <3>2. Encoding' = Encoding
      BY <2>2 DEF CapStarts, CapOpens, CapOpenFails, CapOpenStops, CapTop,
                  CapReads, CapFails, CapLocks, CapNotifies, CapStays,
                  Encoding
    <3> QED
      BY <3>1, <3>2, OthersRefine
  <2>3. CASE \/ EncStarts \/ EncTop \/ EncLocks \/ EncSleeps \/ EncWakes
             \/ EncLocksOpus
    <3>1. UNCHANGED <<audioFifo, opusFifo, item, carry, hist>>
      BY <2>3 DEF EncStarts, EncTop, EncLocks, EncSleeps, EncWakes,
                  EncLocksOpus, EncStays, fifos
    <3>2. Encoding' = Encoding
      BY <2>3 DEF EncStarts, EncTop, EncLocks, EncSleeps, EncWakes,
                  EncLocksOpus, Encoding
    <3> QED
      BY <3>1, <3>2, OthersRefine
  <2>4. CASE \/ UnbindUdc \/ StopRunning \/ NotifyAll \/ JoinCapture
             \/ JoinEncoder \/ UNCHANGED vars
    <3>1. UNCHANGED <<audioFifo, opusFifo, item, carry, hist>>
      BY <2>4 DEF UnbindUdc, StopRunning, NotifyAll, JoinCapture, JoinEncoder,
                  MainStays, fifos, vars
    <3>2. Encoding' = Encoding
      BY <2>4 DEF UnbindUdc, StopRunning, NotifyAll, JoinCapture, JoinEncoder,
                  MainStays, vars, Encoding
    <3> QED
      BY <3>1, <3>2, OthersRefine
  <2> QED
    BY <2>1, <2>2, <2>3, <2>4
       DEF Next, Capture, Encoder, Main, World
<1> QED
  BY <1>1, <1>2, Invariance, PTL DEF Spec, ImplementsLossyFifo, Abstract!Spec
=============================================================================
