-------------------------- MODULE DriverProbeProofs --------------------------
(***************************************************************************)
(* Theorems about DriverProbe for every set of devices, of whatever kinds  *)
(* and with whatever gadgets among them; and, at the end, about what the   *)
(* same driver sends to a DualShock 4 (PadOutput).                         *)
(***************************************************************************)
EXTENDS DriverProbe, PadOutput, TLAPS

(* The inductive invariant. *)

Seated == {d \in Devices : stage[d] \in {"bound", "release"}}

\* PlayersDistinct, in the form the steps preserve.
PlayersInv ==
    /\ \A d \in Devices : player_id[d] # NoId <=> d \in Seated
    /\ \A d, e \in Seated : player_id[d] = player_id[e] => d = e
    /\ \A n \in PlayerIds :
          n \in ps_player_id_allocator <=> \E d \in Seated : player_id[d] = n

\* No work is pending and none can be scheduled until the gamepad is there,
\* and again from the end of dualsense_remove on.
WorkInv ==
    \A d \in Devices :
        /\ stage[d] \in {"absent", "undo", "mac", "firmware", "list",
                         "calibration", "gamepad"}
               => worker[d] = "idle" /\ d \notin gamepads
        /\ stage[d] = "close" =>
               worker[d] = "idle" /\ (d \in gamepads => ~initialized[d])
        /\ stage[d] = "cancel" => ~initialized[d]

ListInv == ListIsLive /\ NoTwins

IInv == TypeOK /\ ListInv /\ PlayersInv

AllActions(d) ==
    Probe(d) \/ ProbeStep(d) \/ RemoveFromList(d) \/ RemoveStep(d) \/ Play(d)
        \/ WorkerStep(d)
-----------------------------------------------------------------------------
(* Constants. *)

\* What a device reports is an address, and no id is NoId.
LEMMA Values ==
    /\ \A d \in Devices : Reported(d) \subseteq Addresses
    /\ Zero \in Addresses
    /\ NoId \notin PlayerIds
<1>1. ASSUME NEW d \in Devices
      PROVE  Real(Controller[d]) \in Addresses
             /\ Spoof(Real(Controller[d])) \in Addresses
  BY DEF Real, Spoof, Addresses
<1>2. Zero \in Addresses
  BY DEF Zero, Addresses
<1>3. ASSUME NEW d \in Devices PROVE Reported(d) \subseteq Addresses
  BY <1>1, <1>2 DEF Reported
<1> QED
  BY <1>2, <1>3 DEF NoId, PlayerIds

\* Steps that touch none of the stages' registry, for one device.
LEMMA Kinds ==
    ASSUME NEW d \in Devices, AllActions(d)
    PROVE  /\ ps_devices_list' # ps_devices_list =>
                  ListAdd(d) \/ Undo(d) \/ RemoveFromList(d)
           /\ player_id' # player_id => SetPlayerId(d) \/ ReleasePlayerId(d)
  BY DEF AllActions, Probe, ProbeStep, DualsenseCreate, Dualshock4Create, RemoveStep, WorkerStep, GetMacAddress,
         GetFirmwareInfo, TryFirmwareInfo, GetReport, ListAdd,
         GetCalibrationData, TryCalibrationData, CreateGamepad, FirstWork,
         SetBtPollInterval,
         CreateInputs, RegisterLights, SetLightbar, RegisterPlayerLeds,
         SetPlayerId, Undo, Close, RemoveFromList, ReleasePlayerId, Quiesce,
         CancelWork, Play, WorkerStarts, WorkerEnds, registry, work
-----------------------------------------------------------------------------
(* Types. *)

LEMMA TypeKept ==
    ASSUME TypeOK, NEW d \in Devices, AllActions(d)
    PROVE  TypeOK'
<1> USE DEF TypeOK, Go
<1>1. CASE Probe(d)
  BY <1>1 DEF Probe, Stages, Probing, registry
<1>2. CASE GetMacAddress(d)
  BY <1>2, Values DEF GetMacAddress, Stages, Probing, work
<1>3. CASE GetFirmwareInfo(d) \/ TryFirmwareInfo(d)
  BY <1>3 DEF GetFirmwareInfo, TryFirmwareInfo, GetReport, Stages, Probing, registry, work
<1>4. CASE ListAdd(d)
  BY <1>4 DEF ListAdd, Stages, Probing, work
<1>5. CASE GetCalibrationData(d) \/ TryCalibrationData(d)
  BY <1>5 DEF GetCalibrationData, TryCalibrationData, GetReport, Stages, Probing, registry, work
<1>6. CASE CreateGamepad(d)
  BY <1>6 DEF CreateGamepad, Stages, Probing, registry
<1>7. CASE CreateInputs(d) \/ RegisterLights(d) \/ RegisterPlayerLeds(d)
  BY <1>7
     DEF CreateInputs, RegisterLights, RegisterPlayerLeds, Register, Stages,
         Probing, registry, work
<1>8. CASE SetLightbar(d) \/ SetBtPollInterval(d) \/ Play(d)
  BY <1>8 DEF SetLightbar, SetBtPollInterval, FirstWork, Play, Schedule, Stages, Probing, registry
<1>9. CASE SetPlayerId(d)
  BY <1>9 DEF SetPlayerId, Schedule, Stages
<1>10. CASE Undo(d) \/ Close(d) \/ RemoveFromList(d)
  BY <1>10 DEF Undo, Close, RemoveFromList, Stages, Removing, registry, work
<1>11. CASE ReleasePlayerId(d)
  BY <1>11 DEF ReleasePlayerId, Stages, Removing, work
<1>12. CASE Quiesce(d)
  BY <1>12 DEF Quiesce, Stages, Removing, registry
<1>13. CASE CancelWork(d)
  BY <1>13 DEF CancelWork, Stages, registry
<1>14. CASE WorkerStarts(d) \/ WorkerEnds(d)
  BY <1>14 DEF WorkerStarts, WorkerEnds, registry
<1> QED
  BY <1>1, <1>2, <1>3, <1>4, <1>5, <1>6, <1>7, <1>8, <1>9, <1>10, <1>11,
     <1>12, <1>13, <1>14 DEF AllActions, ProbeStep, DualsenseCreate, Dualshock4Create, RemoveStep, WorkerStep
-----------------------------------------------------------------------------
(* The list of devices. *)

\* A step moves one device, and addresses change only at the first stage.
LEMMA Moves ==
    ASSUME TypeOK, NEW d \in Devices, AllActions(d)
    PROVE  /\ \A e \in Devices \ {d} : stage'[e] = stage[e]
           /\ \A e \in Devices : mac_address'[e] # mac_address[e] =>
                  e = d /\ stage[d] = "mac" /\ stage'[d] = "firmware"
           /\ stage[d] \in Listed /\ stage'[d] \notin Listed =>
                  Undo(d) \/ RemoveFromList(d)
           /\ stage[d] \notin Listed /\ stage'[d] \in Listed =>
                  ListAdd(d) /\ stage'[d] = "calibration"
           /\ ListAdd(d) \/ Undo(d) \/ RemoveFromList(d) =>
                  mac_address' = mac_address
  BY DEF AllActions, Probe, ProbeStep, DualsenseCreate, Dualshock4Create, RemoveStep, WorkerStep, GetMacAddress,
         GetFirmwareInfo, TryFirmwareInfo, GetReport, ListAdd,
         GetCalibrationData, TryCalibrationData, CreateGamepad, FirstWork,
         SetBtPollInterval,
         CreateInputs, RegisterLights, SetLightbar, RegisterPlayerLeds,
         SetPlayerId, Undo, Close, RemoveFromList, ReleasePlayerId, Quiesce,
         CancelWork, Play, WorkerStarts, WorkerEnds, Register, Go, Listed,
         registry, work, TypeOK

LEMMA ListKept ==
    ASSUME TypeOK, ListInv, NEW d \in Devices, AllActions(d)
    PROVE  ListInv'
<1> USE DEF ListInv
<1>1. CASE ListAdd(d) /\ stage'[d] = "calibration"
  <2>1. /\ stage[d] = "list" /\ stage' = [stage EXCEPT ![d] = "calibration"]
        /\ ps_devices_list' = ps_devices_list \cup {d}
        /\ mac_address' = mac_address
        /\ \A e \in ps_devices_list : ~Twin(d, e)
    BY <1>1 DEF ListAdd, Go, TypeOK
  <2>2. stage'[d] \in Listed /\ stage[d] \notin Listed
    BY <2>1 DEF Listed, TypeOK
  <2>3. ListIsLive'
    BY <2>1, <2>2 DEF ListIsLive, TypeOK
  <2>4. NoTwins'
    BY <2>1, <2>2 DEF ListIsLive, NoTwins, Twin, TypeOK
  <2> QED
    BY <2>3, <2>4
<1>2. CASE Undo(d) \/ RemoveFromList(d)
  <2>1. /\ ps_devices_list' = ps_devices_list \ {d}
        /\ mac_address' = mac_address
        /\ stage' = [stage EXCEPT ![d] = "close"]
              \/ stage' = [stage EXCEPT ![d] = "release"]
    BY <1>2 DEF Undo, RemoveFromList, Go
  <2>2. stage'[d] \notin Listed
    BY <2>1 DEF Listed, TypeOK
  <2> QED
    BY <2>1, <2>2 DEF ListIsLive, NoTwins, Twin, TypeOK
<1>3. CASE /\ ~(ListAdd(d) /\ stage'[d] = "calibration")
           /\ ~Undo(d) /\ ~RemoveFromList(d)
  <2>1. \A e \in Devices : stage'[e] \in Listed <=> stage[e] \in Listed
    BY <1>3, Moves
  <2>2. ps_devices_list' = ps_devices_list
    <3>1. CASE ListAdd(d)
      BY <1>3, <3>1 DEF ListAdd, Go, TypeOK
    <3> QED
      BY <1>3, <3>1, Kinds
  <2>3. \A e \in Devices : stage[e] \in Listed => mac_address'[e] = mac_address[e]
    BY Moves DEF Listed
  <2> QED
    BY <2>1, <2>2, <2>3 DEF ListIsLive, NoTwins, Twin
<1> QED
  BY <1>1, <1>2, <1>3
-----------------------------------------------------------------------------
(* The player ids. *)

LEMMA SeatsMove ==
    ASSUME TypeOK, NEW d \in Devices, AllActions(d),
           ~SetPlayerId(d), ~ReleasePlayerId(d)
    PROVE  Seated' = Seated /\ UNCHANGED <<player_id, ps_player_id_allocator>>
  BY DEF AllActions, Probe, ProbeStep, DualsenseCreate, Dualshock4Create, RemoveStep, WorkerStep, GetMacAddress,
         GetFirmwareInfo, TryFirmwareInfo, GetReport, ListAdd,
         GetCalibrationData, TryCalibrationData, CreateGamepad, FirstWork,
         SetBtPollInterval,
         CreateInputs, RegisterLights, SetLightbar, RegisterPlayerLeds,
         Undo, Close, RemoveFromList, Quiesce, CancelWork, Play, WorkerStarts,
         WorkerEnds, Register, Go, Seated, registry, work, TypeOK

LEMMA PlayersKept ==
    ASSUME TypeOK, PlayersInv, NEW d \in Devices, AllActions(d)
    PROVE  PlayersInv'
<1>1. CASE SetPlayerId(d)
  <2>1. stage[d] = "player" /\ d \notin Seated /\ player_id[d] = NoId
    BY <1>1 DEF SetPlayerId, Seated, PlayersInv
  <2>2. CASE stage'[d] = "bound"
    <3>1. PICK n \in PlayerIds :
             /\ n \notin ps_player_id_allocator
             /\ ps_player_id_allocator' = ps_player_id_allocator \cup {n}
             /\ player_id' = [player_id EXCEPT ![d] = n]
             /\ stage' = [stage EXCEPT ![d] = "bound"]
      BY <1>1, <2>2 DEF SetPlayerId, FreeId, Go, TypeOK
    <3>2. Seated' = Seated \cup {d}
      BY <3>1 DEF Seated, TypeOK
    <3>3. \A e \in Devices :
             player_id'[e] = IF e = d THEN n ELSE player_id[e]
      BY <3>1 DEF TypeOK
    <3>4. \A e \in Seated : player_id[e] # n
      BY <3>1 DEF PlayersInv
    <3>5. n # NoId
      BY Values
    <3>6. Seated \subseteq Devices
      BY DEF Seated
    <3> QED
      BY <2>1, <3>1, <3>2, <3>3, <3>4, <3>5, <3>6 DEF PlayersInv
  <2>3. CASE stage'[d] # "bound"
    <3>1. /\ UNCHANGED <<ps_player_id_allocator, player_id>>
          /\ stage' = [stage EXCEPT ![d] = "undo"]
      BY <1>1, <2>3 DEF SetPlayerId, Go, TypeOK
    <3>2. Seated' = Seated
      BY <2>1, <3>1 DEF Seated, TypeOK
    <3> QED
      BY <3>1, <3>2 DEF PlayersInv
  <2> QED
    BY <2>2, <2>3
<1>2. CASE ReleasePlayerId(d)
  <2>1. /\ d \in Seated /\ stage' = [stage EXCEPT ![d] = "quiesce"]
        /\ ps_player_id_allocator' = ps_player_id_allocator \ {player_id[d]}
        /\ player_id' = [player_id EXCEPT ![d] = NoId]
    BY <1>2 DEF ReleasePlayerId, Seated, Go
  <2>2. Seated' = Seated \ {d}
    BY <2>1 DEF Seated, TypeOK
  <2>3. \A e \in Devices :
           player_id'[e] = IF e = d THEN NoId ELSE player_id[e]
    BY <2>1 DEF TypeOK
  <2>4. Seated \subseteq Devices
    BY DEF Seated
  <2> QED
    BY <2>1, <2>2, <2>3, <2>4 DEF PlayersInv
<1>3. CASE ~SetPlayerId(d) /\ ~ReleasePlayerId(d)
  BY <1>3, SeatsMove DEF PlayersInv
<1> QED
  BY <1>1, <1>2, <1>3
-----------------------------------------------------------------------------
(* The theorems on list and players. *)

LEMMA InitIInv == Init => IInv
  BY Values
     DEF Init, IInv, TypeOK, ListInv, ListIsLive, NoTwins, PlayersInv, Seated,
         Stages, Listed

LEMMA NextIInv == IInv /\ [Next]_vars => IInv'
<1> SUFFICES ASSUME IInv, [Next]_vars PROVE IInv'
  OBVIOUS
<1>1. CASE Next
  <2> PICK d \in Devices : AllActions(d)
    BY <1>1 DEF Next, AllActions
  <2> QED
    BY TypeKept, ListKept, PlayersKept DEF IInv
<1>2. CASE UNCHANGED vars
  BY <1>2
     DEF vars, registry, work, IInv, TypeOK, ListInv, ListIsLive, NoTwins,
         Twin, PlayersInv, Seated
<1> QED
  BY <1>1, <1>2

\* Types, the list of devices and the player ids are kept together.
THEOREM Invariance == Spec => []IInv
<1> QED
  BY InitIInv, NextIInv, PTL DEF Spec

\* The variables of ps_probe and ps_remove keep their types.
THEOREM TypeCorrect == Spec => []TypeOK
<1>1. IInv => TypeOK
  BY DEF IInv
<1> QED
  BY <1>1, Invariance, PTL

\* ps_devices_list holds the devices in use, and no two of them are one.
THEOREM ListSound == Spec => []ListIsLive /\ []NoTwins
<1>1. IInv => ListIsLive /\ NoTwins
  BY DEF IInv, ListInv
<1> QED
  BY <1>1, Invariance, PTL

\* No id is given twice, and none is lost.
THEOREM Players == Spec => []PlayersDistinct
<1>1. ASSUME IInv PROVE PlayersDistinct
  <2>1. TypeOK /\ PlayersInv
    BY <1>1 DEF IInv
  <2>2. \A n \in PlayerIds : n \in ps_player_id_allocator
                                <=> n \in {player_id[d] : d \in Seated}
    BY <2>1 DEF PlayersInv
  <2>3. \A d \in Seated : player_id[d] # NoId /\ player_id[d] \in PlayerIds
    BY <2>1 DEF PlayersInv, TypeOK, Seated
  <2>4. ps_player_id_allocator = {player_id[d] : d \in Seated}
    BY <2>1, <2>2, <2>3 DEF TypeOK
  <2> QED
    BY <2>1, <2>3, <2>4 DEF PlayersDistinct, PlayersInv, Seated
<1> QED
  BY <1>1, Invariance, PTL
-----------------------------------------------------------------------------
(* The output worker. *)

LEMMA WorkKept ==
    ASSUME ~lateFailures, TypeOK, WorkInv, NEW d \in Devices, AllActions(d)
    PROVE  WorkInv'
<1> USE DEF WorkInv, TypeOK, Go
<1>1. CASE Probe(d)
  BY <1>1 DEF Probe, registry
<1>2. CASE GetMacAddress(d) \/ GetFirmwareInfo(d) \/ TryFirmwareInfo(d)
           \/ ListAdd(d) \/ GetCalibrationData(d)
           \/ TryCalibrationData(d) \/ Undo(d) \/ RemoveFromList(d)
           \/ ReleasePlayerId(d)
  BY <1>2
     DEF GetMacAddress, GetFirmwareInfo, TryFirmwareInfo, GetReport, ListAdd,
         GetCalibrationData, TryCalibrationData, Undo,
         RemoveFromList, ReleasePlayerId, registry, work
<1>3. CASE CreateGamepad(d) \/ Close(d)
  BY <1>3 DEF CreateGamepad, Close, registry
<1>4. CASE CreateInputs(d) \/ RegisterLights(d) \/ RegisterPlayerLeds(d)
  BY <1>4
     DEF CreateInputs, RegisterLights, RegisterPlayerLeds, Register, registry,
         work
<1>5. CASE SetLightbar(d) \/ SetBtPollInterval(d) \/ SetPlayerId(d)
  BY <1>5 DEF SetLightbar, SetBtPollInterval, FirstWork, SetPlayerId, Schedule, registry
<1>6. CASE Quiesce(d)
  BY <1>6 DEF Quiesce, registry
<1>7. CASE CancelWork(d)
  BY <1>7 DEF CancelWork, registry
<1>8. CASE Play(d)
  BY <1>8 DEF Play, Schedule, registry
<1>9. CASE WorkerStarts(d) \/ WorkerEnds(d)
  BY <1>9 DEF WorkerStarts, WorkerEnds, registry
<1> QED
  BY <1>1, <1>2, <1>3, <1>4, <1>5, <1>6, <1>7, <1>8, <1>9
     DEF AllActions, ProbeStep, DualsenseCreate, Dualshock4Create, RemoveStep, WorkerStep

\* What may fail does not change in a behaviour.
LEMMA FailuresKept ==
    ASSUME NEW d \in Devices, AllActions(d)
    PROVE  lateFailures' = lateFailures
  BY DEF AllActions, ProbeStep, DualsenseCreate, Dualshock4Create, RemoveStep,
         WorkerStep, Probe, GetMacAddress, GetFirmwareInfo, TryFirmwareInfo,
         GetReport, ListAdd, GetCalibrationData, TryCalibrationData,
         CreateGamepad, CreateInputs, RegisterLights, SetLightbar,
         SetBtPollInterval, FirstWork, RegisterPlayerLeds, SetPlayerId, Undo,
         Close, RemoveFromList, ReleasePlayerId, Quiesce, CancelWork, Play,
         WorkerStarts, WorkerEnds, registry

\* If nothing fails once the gamepad is registered, no output worker outlives
\* the memory of its device.
THEOREM NoWorkerOutlives == Spec => []WorkerOutlived
<1> DEFINE Inv == ~lateFailures => WorkInv
<1>1. Init => Inv
  BY DEF Init, WorkInv
<1>2. TypeOK /\ Inv /\ [Next]_vars => Inv'
  <2> SUFFICES ASSUME TypeOK, Inv, [Next]_vars PROVE Inv'
    OBVIOUS
  <2>1. CASE Next
    <3> PICK d \in Devices : AllActions(d)
      BY <2>1 DEF Next, AllActions
    <3> QED
      BY WorkKept, FailuresKept
  <2>2. CASE UNCHANGED vars
    BY <2>2 DEF vars, work, registry, WorkInv
  <2> QED
    BY <2>1, <2>2
<1>3. Inv => WorkerOutlived
  BY DEF WorkInv, WorkerOutlived
<1> QED
  BY <1>1, <1>2, <1>3, TypeCorrect, PTL DEF Spec
-----------------------------------------------------------------------------
(* The gadget in front of a controller. *)

Named == {"firmware", "list"} \cup Listed

\* A device past the first stage of its probe goes by what it reported.
AddressInv ==
    \A d \in Devices : stage[d] \in Named => mac_address[d] \in Reported(d)

\* A stage at which a device has an address is entered from another of them,
\* or by taking the address.
LEMMA Naming ==
    ASSUME TypeOK, NEW d \in Devices, AllActions(d), stage'[d] \in Named
    PROVE  \/ stage[d] \in Named
           \/ stage[d] = "mac" /\ mac_address'[d] \in Reported(d)
<1> USE DEF Named, Listed, Go, TypeOK
<1>1. CASE Probe(d) \/ Close(d) \/ RemoveFromList(d) \/ RemoveStep(d)
           \/ Play(d) \/ WorkerStep(d)
  BY <1>1
     DEF Probe, Close, RemoveFromList, RemoveStep, ReleasePlayerId, Quiesce,
         CancelWork, Play, WorkerStep, WorkerStarts, WorkerEnds
<1>2. CASE GetMacAddress(d)
  <2>1. CASE stage'[d] = "firmware"
    BY <1>2, <2>1 DEF GetMacAddress
  <2>2. CASE stage'[d] # "firmware"
    BY <1>2, <2>2 DEF GetMacAddress
  <2> QED
    BY <2>1, <2>2
<1>3. CASE \/ GetFirmwareInfo(d) \/ TryFirmwareInfo(d) \/ ListAdd(d)
           \/ GetCalibrationData(d) \/ TryCalibrationData(d)
           \/ CreateGamepad(d) \/ CreateInputs(d) \/ RegisterLights(d)
           \/ SetLightbar(d) \/ SetBtPollInterval(d)
           \/ RegisterPlayerLeds(d) \/ SetPlayerId(d) \/ Undo(d)
  BY <1>3
     DEF GetFirmwareInfo, TryFirmwareInfo, GetReport, ListAdd,
         GetCalibrationData, TryCalibrationData, CreateGamepad, CreateInputs,
         RegisterLights, Register, SetLightbar, SetBtPollInterval, FirstWork,
         RegisterPlayerLeds, SetPlayerId, Undo
<1> QED
  BY <1>1, <1>2, <1>3
     DEF AllActions, ProbeStep, DualsenseCreate, Dualshock4Create

LEMMA AddressKept ==
    ASSUME TypeOK, AddressInv, NEW d \in Devices, AllActions(d)
    PROVE  AddressInv'
<1> SUFFICES ASSUME NEW e \in Devices, stage'[e] \in Named
             PROVE  mac_address'[e] \in Reported(e)
  BY DEF AddressInv, Reported
<1>1. CASE e # d
  BY <1>1, Moves DEF AddressInv
<1>2. CASE e = d
  BY <1>2, Naming, Moves DEF AddressInv, Named, Listed
<1> QED
  BY <1>1, <1>2

\* No controller's own address is that of a gadget, nor zeros.
LEMMA Different ==
    ASSUME NEW g \in Gadgets, NEW e \in Devices \ Gadgets,
           mac_address[g] \in Reported(g), mac_address[e] \in Reported(e)
    PROVE  ~Twin(g, e)
<1>1. mac_address[e] = Real(Controller[e])
  BY DEF Reported
<1>2. CASE mac_address[g] = Zero
  <2>1. mac_address[e].of # mac_address[g].of
    BY <1>1, <1>2, ProbeAssumption DEF Real, Zero
  <2> QED
    BY <2>1 DEF Twin
<1>3. CASE mac_address[g] = Spoof(Real(Controller[g]))
  <2>1. mac_address[e].group # mac_address[g].group
    BY <1>1, <1>3 DEF Real, Spoof
  <2> QED
    BY <2>1 DEF Twin
<1> QED
  BY <1>2, <1>3 DEF Reported

\* The next step of the probe of a gadget from "list", of whatever device the
\* step is, turns it away only because of another gadget.
LEMMA TurnedAway ==
    ASSUME TypeOK, ListIsLive, AddressInv, NEW d \in Devices, AllActions(d),
           NEW g \in Gadgets, stage[g] = "list", stage'[g] = "close"
    PROVE  \E e \in ps_devices_list \cap Gadgets : Twin(g, e)
<1>1. g \in Devices
  BY ProbeAssumption
<1>2. d = g
  BY <1>1, Moves
<1>3. ListAdd(g)
  BY <1>1, <1>2
     DEF AllActions, Probe, ProbeStep, DualsenseCreate, Dualshock4Create,
         RemoveStep, WorkerStep, GetMacAddress, GetFirmwareInfo,
         TryFirmwareInfo, GetReport, GetCalibrationData, TryCalibrationData,
         CreateGamepad, FirstWork, SetBtPollInterval, CreateInputs,
         RegisterLights, SetLightbar, RegisterPlayerLeds, SetPlayerId, Undo,
         Close, RemoveFromList, ReleasePlayerId, Quiesce, CancelWork, Play,
         WorkerStarts, WorkerEnds, Register, Go, TypeOK, ProbeAssumption
<1>4. PICK e \in ps_devices_list : Twin(g, e)
  BY <1>1, <1>3 DEF ListAdd, Go, TypeOK
<1>5. e \in Devices /\ stage[e] \in Named
  BY <1>4 DEF ListIsLive, Named
<1>6. mac_address[e] \in Reported(e) /\ mac_address[g] \in Reported(g)
  BY <1>1, <1>5 DEF AddressInv, Named
<1> QED
  BY <1>4, <1>5, <1>6, Different

\* A gadget is turned away because of another gadget only, never because of
\* the controller it stands in front of, however the probes interleave.
THEOREM GadgetAccepted == Spec => GadgetIsAccepted
<1> DEFINE Accepted ==
        \A g \in Gadgets :
            stage[g] = "list" /\ stage'[g] = "close"
                => \E e \in ps_devices_list \cap Gadgets : Twin(g, e)
<1>1. Init => AddressInv
  BY DEF Init, AddressInv, Named, Listed
<1>2. TypeOK /\ AddressInv /\ [Next]_vars => AddressInv'
  <2> SUFFICES ASSUME TypeOK, AddressInv, [Next]_vars PROVE AddressInv'
    OBVIOUS
  <2>1. CASE Next
    <3> PICK d \in Devices : AllActions(d)
      BY <2>1 DEF Next, AllActions
    <3> QED
      BY AddressKept
  <2>2. CASE UNCHANGED vars
    BY <2>2 DEF vars, registry, AddressInv, Reported
  <2> QED
    BY <2>1, <2>2
<1>3. ListIsLive /\ TypeOK /\ AddressInv /\ [Next]_vars => [Accepted]_vars
  <2> SUFFICES ASSUME ListIsLive, TypeOK, AddressInv, Next PROVE Accepted
    OBVIOUS
  <2> PICK d \in Devices : AllActions(d)
    BY DEF Next, AllActions
  <2> QED
    BY TurnedAway
<1>4. IInv => ListIsLive /\ TypeOK
  BY DEF IInv, ListInv
<1> QED
  BY <1>1, <1>2, <1>3, <1>4, Invariance, PTL DEF Spec, GadgetIsAccepted
-----------------------------------------------------------------------------
(* A DualShock 4. *)

\* What is wanted is a number, and the poll interval no part of the report.
PadTypes == wanted \in [D4!Controls -> Nat] /\ "poll" \notin DOMAIN report

\* The default colours may be set while something else is asked for.
Beside == config.early \/ config.dongle

\* Or else nothing but the poll interval is asked for until the default colours
\* of the lightbar are flagged, which is done once; so they are not dropped,
\* nor is any rumble.
DefaultsInv ==
  ~Beside =>
    /\ event = "idle"
    /\ mode = "lights" => defaults = "idle"
    /\ mode \in {"lights", "player"} => wanted["rumble"] = 0
    /\ mode \in {"lights", "player"} /\ defaults # "flagged" =>
          update \subseteq {"poll"} /\ DOMAIN report = {}
    /\ mode \notin {"lights", "player"} => defaults = "idle"
    /\ "light" \notin slipped
    /\ "rumble" \in slipped => "rumble" \in update \/ wanted["rumble"] = 0

\* The light may be set without the rumble.
Alone == ~config.coupled \/ "rumble" \in slipped

\* A report sets nothing until the lock is taken, rumble and light together,
\* and what is wanted as long as the lock is held; unless the default colours
\* get in between.
BuildInv ==
    /\ pad_worker \in {"idle", "started", "locked"} => DOMAIN report = {}
    /\ pad_worker = "locked" =>
          /\ "rumble" \in update => "light" \in update
          /\ "light" \in update => "rumble" \in update \/ Alone
    /\ "rumble" \in DOMAIN report =>
          "light" \in DOMAIN report /\ "rumble" \notin slipped
    /\ "light" \in DOMAIN report => "rumble" \in DOMAIN report \/ Alone
    /\ pad_worker = "inside" =>
          \A c \in DOMAIN report :
             \/ report[c] = wanted[c]
             \/ c = "light" /\ (defaults = "written" \/ "light" \in slipped)

\* What is not flagged, and about to be, is on its way or with the controller.
PadSetInv ==
    /\ \A c \in D4!Controls \ {"poll"} :
         c \notin update /\ ~(c = "light" /\ defaults = "written") =>
            \/ c \in slipped /\ Beside
            \/ IF pad_worker = "sending" /\ c \in DOMAIN report
               THEN report[c] = wanted[c]
               ELSE shown[c] = wanted[c]
    /\ config.bus = "bt" /\ "poll" \notin update =>
          shown["poll"] = wanted["poll"]

\* While the dongle is not DISCONNECTED no new pad comes but by a swap, and one
\* work item at most reads the calibration data of the last one.
PadInv ==
    /\ parsed[1] = parsed[2] \/ parsed[1] \in swapped
    /\ link = "gone" => dongle_state = "DISCONNECTED" /\ event = "idle"
    /\ link \in {"here", "left", "gone"}
    /\ hotplug # "idle" => dongle_state = "CALIBRATING" /\ event = "idle"
    /\ event = "calibrating" => dongle_state = "CALIBRATING"
    /\ event = "connected" => dongle_state = "DISCONNECTED"
    /\ "CONNECTED" \in {hotplug, dongle_state} /\ link = "here" =>
          calib = pads \/ pads \in swapped

\* The setting stays.
LEMMA PadConfigStays == ASSUME [D4!Next]_D4!vars PROVE config' = config
  BY DEF D4!Next, D4!Worker, D4!Defaults, D4!Create, D4!Event, D4!Hotplug,
         D4!Scheduling, D4!Remove, D4!WorkerStarts, D4!WorkerCombines,
         D4!WorkerReads, D4!WorkerClears, D4!WorkerSends, D4!WriteDefaults,
         D4!FlagDefaults,
         D4!SetPollInterval, D4!Bound, D4!RawReport, D4!Calibrating,
         D4!ScheduleHotplug, D4!Ask, D4!Calibrated, D4!ScheduleFor, D4!Request,
         D4!PadComes, D4!PadGoes, D4!Bar, D4!CancelOutput, D4!CancelHotplug,
         D4!radio, D4!vars

\* Only the dongle's own steps change what it is about.
LEMMA PadStep == ASSUME PadInv, [D4!Next]_D4!vars PROVE PadInv'
<1> USE DEF PadInv, D4!here
<1>1. CASE D4!PadComes \/ D4!PadGoes
  <2>1. CASE D4!PadComes
    <3>1. UNCHANGED <<dongle_state, event, hotplug, calib, parsed>>
          /\ link' = "here" /\ swapped \subseteq swapped'
      BY <2>1 DEF D4!PadComes, D4!dongle
    <3>2. link # "gone" => pads' \in swapped'
      BY <2>1 DEF D4!PadComes
    <3>3. CASE link = "gone"
      BY <3>1, <3>3
    <3>4. CASE link # "gone"
      <4>1. link = "left" /\ pads' \in swapped'
        BY <2>1, <3>2, <3>4 DEF D4!PadComes
      <4> QED
        BY <3>1, <4>1
    <3> QED
      BY <3>3, <3>4
  <2>2. CASE D4!PadGoes
    BY <2>2 DEF D4!PadGoes, D4!dongle
  <2> QED
    BY <1>1, <2>1, <2>2
<1>2. CASE D4!RawReport
  <2>1. UNCHANGED <<hotplug, calib, pads, swapped>> /\ event = "idle"
    BY <1>2 DEF D4!RawReport
  <2>2. link' = IF link = "here" \/ dongle_state = "CALIBRATING"
                THEN link ELSE "gone"
    BY <1>2 DEF D4!RawReport
  <2>3. CASE D4!Found
    BY <2>1, <2>2, <2>3 DEF D4!Found
  <2>4. CASE D4!Left
    BY <2>1, <2>2, <2>4 DEF D4!Left
  <2>5. CASE D4!Forward
    BY <2>1, <2>2, <2>5 DEF D4!Forward
  <2>6. CASE D4!Ignore
    BY <2>1, <2>2, <2>6 DEF D4!Ignore
  <2> QED
    BY <1>2, <2>3, <2>4, <2>5, <2>6 DEF D4!RawReport
<1>3. CASE D4!Calibrating
  BY <1>3 DEF D4!Calibrating, D4!radio
<1>4. CASE D4!ScheduleHotplug
  BY <1>4 DEF D4!ScheduleHotplug, D4!radio
<1>5. CASE D4!Ask
  BY <1>5 DEF D4!Ask, D4!radio
<1>6. CASE D4!Calibrated
  BY <1>6 DEF D4!Calibrated, D4!radio
<1>7. CASE UNCHANGED <<D4!dongle, D4!radio>>
  BY <1>7 DEF D4!dongle, D4!radio
<1>8. CASE \/ D4!Worker \/ D4!Defaults \/ D4!Create \/ D4!Scheduling
           \/ (\E who \in config.users : D4!Request(who))
           \/ D4!Bar \/ D4!Remove \/ UNCHANGED D4!vars
  <2>1. UNCHANGED <<D4!dongle, D4!radio>>
    BY <1>8 DEF D4!Worker, D4!Defaults, D4!Create, D4!Scheduling, D4!Remove,
                D4!WorkerStarts, D4!WorkerCombines, D4!WorkerReads,
                D4!WorkerClears,
                D4!WorkerSends, D4!WriteDefaults, D4!FlagDefaults,
                D4!SetPollInterval, D4!Bound, D4!ScheduleFor, D4!Request,
                D4!Bar, D4!CancelOutput, D4!CancelHotplug, D4!vars
  <2> QED
    BY <1>7, <2>1
<1> QED
  BY <1>1, <1>2, <1>3, <1>4, <1>5, <1>6, <1>8 DEF D4!Next, D4!Event, D4!Hotplug

\* The report of a pad is only ever parsed with the calibration data of that
\* pad, whenever pads come and go, also while such data is being read; unless it
\* came before the driver was told that the one before it had left
\* (dualshock4_dongle_parse_report beside dualshock4_dongle_calibration_work).
THEOREM ForwardedOnlyCalibrated == D4!Spec => []ForwardedCalibrated
<1>1. D4!Init => PadInv
  BY DEF D4!Init, PadInv
<1>2. PadInv /\ [D4!Next]_D4!vars => PadInv'
  BY PadStep
<1>3. PadInv => ForwardedCalibrated
  BY DEF PadInv, ForwardedCalibrated, D4!ForwardedCalibrated
<1> QED
  BY <1>1, <1>2, <1>3, PTL DEF D4!Spec

\* What a report has is set, the poll interval beside it; the rest stays, but
\* for what the hardware couples.
LEMMA PadShows ==
    ASSUME D4!WorkerSends, NEW c \in D4!Controls
    PROVE  /\ c \in DOMAIN report /\ c # "poll" => shown'[c] = report[c]
           /\ /\ c = "poll" /\ c \notin DOMAIN report
              /\ config.bus = "bt" /\ c \in update
              => shown'[c] = wanted[c]
           /\ /\ c \notin DOMAIN report
              /\ ~(c = "poll" /\ config.bus = "bt" /\ c \in update)
              /\ ~( /\ DOMAIN report \cap {"rumble", "light"} # {}
                    /\ c \in {"rumble", "light"} )
              => shown'[c] = shown[c]
           /\ c \notin DOMAIN report /\ c # "poll" =>
                 shown'[c] = shown[c] \/ (config.coupled /\ shown'[c] = 0)
<1> DEFINE poll == config.bus = "bt" /\ "poll" \in update
           lost == config.coupled /\ DOMAIN report \cap {"rumble", "light"} # {}
                           /\ c \in {"rumble", "light"}
<1>1. shown'[c] = CASE c \in DOMAIN report -> report[c]
                    [] c = "poll" /\ poll -> wanted[c]
                    [] c \notin DOMAIN report /\ lost -> 0
                    [] OTHER -> shown[c]
  BY Zenon DEF D4!WorkerSends
<1>2. c \in DOMAIN report /\ c # "poll" => shown'[c] = report[c]
  BY <1>1, Zenon
<1>3. c = "poll" /\ c \notin DOMAIN report /\ poll => shown'[c] = wanted[c]
  <2>1. ~lost \/ c # "poll"
    OBVIOUS
  <2> HIDE DEF lost
  <2> QED
    BY <1>1, <2>1, Zenon
<1>4. c \notin DOMAIN report /\ ~(c = "poll" /\ poll) /\ ~lost
      => shown'[c] = shown[c]
  BY <1>1, Zenon
<1>5. c \notin DOMAIN report /\ c # "poll" =>
         shown'[c] = shown[c] \/ (config.coupled /\ shown'[c] = 0)
  BY <1>1, Zenon
<1> QED
  BY <1>2, <1>3, <1>4, <1>5

\* A report is built under the lock, and empty before.
LEMMA BuildStep ==
    ASSUME PadTypes, BuildInv, [D4!Next]_D4!vars
    PROVE  BuildInv'
<1> USE DEF BuildInv, Alone
<1>0. config' = config
  BY PadConfigStays
<1> USE DEF D4!requests, D4!queue, D4!output, D4!dongle
<1>1. CASE D4!WorkerStarts
  BY <1>0, <1>1 DEF D4!WorkerStarts
<1>2. CASE D4!WorkerCombines
  BY <1>0, <1>2 DEF D4!WorkerCombines, D4!Together
<1>3. CASE D4!WorkerReads
  <2>1. /\ pad_worker = "locked" /\ pad_worker' = "inside"
        /\ slipped' = slipped \ update
        /\ report' = [c \in update \ {"poll"} |-> wanted[c]]
        /\ UNCHANGED wanted
    BY <1>3 DEF D4!WorkerReads
  <2>2. DOMAIN report' = update \ {"poll"}
    BY <2>1
  <2>3. \A c \in DOMAIN report' : report'[c] = wanted'[c]
    BY <2>1, <2>2
  <2>4. "rumble" \in DOMAIN report' =>
           "light" \in DOMAIN report' /\ "rumble" \notin slipped'
    BY <2>1, <2>2
  <2>5. "light" \in DOMAIN report' => "rumble" \in DOMAIN report' \/ Alone'
    BY <1>0, <2>1, <2>2
  <2> QED
    BY <2>1, <2>3, <2>4, <2>5
<1>4. CASE D4!WorkerClears
  BY <1>0, <1>4 DEF D4!WorkerClears
<1>5. CASE D4!WorkerSends
  <2>1. DOMAIN report' = {} /\ pad_worker' = "idle"
    BY <1>5 DEF D4!WorkerSends
  <2> QED
    BY <2>1
<1>6. CASE D4!WriteDefaults
  <2>1. /\ defaults' = "written"
        /\ UNCHANGED <<pad_worker, report, update, slipped>>
        /\ \A c \in D4!Controls \ {"light"} : wanted'[c] = wanted[c]
        /\ DOMAIN wanted' = DOMAIN wanted
    BY <1>6 DEF D4!WriteDefaults, PadTypes
  <2>2. \A c : c \notin D4!Controls => wanted'[c] = wanted[c]
    BY <1>6, <2>1 DEF D4!WriteDefaults, D4!Controls, PadTypes
  <2> QED
    BY <1>0, <2>1, <2>2
<1>7. CASE D4!SetPollInterval
  <2>1. /\ UNCHANGED <<pad_worker, report, slipped, defaults>>
        /\ update' = update \cup {"poll"}
        /\ \A c : c # "poll" => wanted'[c] = wanted[c]
    BY <1>7 DEF D4!SetPollInterval, PadTypes
  <2> QED
    BY <1>0, <2>1 DEF PadTypes
<1>8. CASE D4!FlagDefaults
  <2>1. /\ UNCHANGED <<pad_worker, report, wanted>>
        /\ defaults = "written" /\ defaults' = "flagged"
        /\ update' = update \cup {"light"} /\ slipped' = slipped \cup D4!Slips
    BY <1>8 DEF D4!FlagDefaults
  <2>2. CASE pad_worker = "locked"
    BY <1>0, <2>1, <2>2 DEF D4!Slips
  <2>3. CASE pad_worker = "inside" /\ "light" \in DOMAIN report
    <3>1. D4!Slips = {"light"}
      BY <2>3 DEF D4!Slips
    <3> QED
      BY <1>0, <2>1, <2>3, <3>1
  <2>4. CASE pad_worker # "locked"
             /\ ~(pad_worker = "inside" /\ "light" \in DOMAIN report)
    <3>1. D4!Slips = {}
      BY <2>4, Zenon DEF D4!Slips
    <3> QED
      BY <1>0, <2>1, <2>4, <3>1
  <2> QED
    BY <2>2, <2>3, <2>4
<1>9. ASSUME NEW who \in config.users, D4!Request(who)
      PROVE  BuildInv'
  BY <1>0, <1>9 DEF D4!Request, D4!Unlocked
<1>10. CASE D4!Bound \/ D4!Calibrating
  BY <1>0, <1>10 DEF D4!Bound, D4!Calibrating, D4!DefaultsSet
<1>11. CASE UNCHANGED <<report, pad_worker, wanted, update, slipped, defaults>>
  BY <1>0, <1>11
<1>12. CASE \/ D4!RawReport \/ D4!ScheduleHotplug \/ D4!Hotplug
            \/ D4!Scheduling \/ D4!PadComes \/ D4!PadGoes
            \/ D4!Bar \/ D4!Remove \/ UNCHANGED D4!vars
  <2>1. UNCHANGED <<report, pad_worker, wanted, update, slipped, defaults>>
    BY <1>12 DEF D4!RawReport, D4!ScheduleHotplug, D4!Hotplug, D4!Ask,
                 D4!Calibrated, D4!Scheduling, D4!ScheduleFor, D4!PadComes,
                 D4!PadGoes, D4!Bar, D4!Remove, D4!CancelOutput,
                 D4!CancelHotplug, D4!vars
  <2> QED
    BY <1>11, <2>1
<1> QED
  BY <1>1, <1>2, <1>3, <1>4, <1>5, <1>6, <1>7, <1>8, <1>9, <1>10, <1>12
  DEF D4!Next, D4!Worker, D4!Defaults, D4!Create, D4!Event

\* Without early programs, only requests flag a control, and there is none
\* before mode is up.
LEMMA DefaultsStep ==
    ASSUME PadTypes, BuildInv, DefaultsInv, [D4!Next]_D4!vars
    PROVE  DefaultsInv'
<1>0. config' = config
  BY PadConfigStays
<1> SUFFICES ASSUME ~Beside PROVE DefaultsInv'
  BY <1>0 DEF DefaultsInv, Beside
<1> USE DEF DefaultsInv, D4!requests, D4!queue, D4!output, D4!dongle, D4!radio
<1>1. CASE D4!WorkerStarts
  BY <1>0, <1>1 DEF D4!WorkerStarts
<1>2. CASE D4!WorkerCombines
  <2>1. update \subseteq D4!Together
        /\ (update \subseteq {"poll"} => D4!Together = update)
    BY DEF D4!Together
  <2> QED
    BY <1>0, <1>2, <2>1 DEF D4!WorkerCombines
<1>3. CASE D4!WorkerReads
  <2>1. /\ UNCHANGED <<mode, defaults, wanted, update, event>>
        /\ DOMAIN report' = update \ {"poll"}
        /\ slipped' = slipped \ update
    BY <1>3 DEF D4!WorkerReads
  <2> QED
    BY <1>0, <2>1
<1>4. CASE D4!WorkerClears
  <2>1. /\ UNCHANGED <<mode, defaults, wanted, report, slipped, event>>
        /\ update' = update \ DOMAIN report
    BY <1>4 DEF D4!WorkerClears
  <2> QED
    BY <1>0, <2>1 DEF BuildInv
<1>5. CASE D4!WorkerSends
  <2>1. DOMAIN report' = {} /\ update' \in {update, update \ {"poll"}}
        /\ UNCHANGED <<mode, defaults, wanted, slipped, event>>
    BY <1>5 DEF D4!WorkerSends
  <2> QED
    BY <1>0, <2>1
<1>6. CASE D4!WriteDefaults
  <2>1. /\ UNCHANGED <<mode, update, report, slipped, event>>
        /\ mode = "player" /\ defaults = "idle" /\ defaults' = "written"
        /\ wanted'["rumble"] = wanted["rumble"]
    <3>1. mode = "player"
      BY <1>6 DEF D4!WriteDefaults
    <3>2. wanted' = [wanted EXCEPT !["light"] = @ + 1]
      BY <1>6 DEF D4!WriteDefaults
    <3> QED
      BY <1>6, <3>1, <3>2 DEF D4!WriteDefaults, D4!Controls, PadTypes
  <2> QED
    BY <1>0, <2>1
<1>7. CASE D4!FlagDefaults
  <2>1. /\ UNCHANGED <<mode, wanted, report, event>>
        /\ defaults = "written" /\ defaults' = "flagged"
        /\ update' = update \cup {"light"} /\ slipped' = slipped \cup D4!Slips
    BY <1>7 DEF D4!FlagDefaults
  <2>2. DOMAIN report = {} /\ wanted["rumble"] = 0
    BY <2>1
  <2>3. D4!Slips \subseteq {"rumble"}
    <3>1. "light" \notin DOMAIN report
      BY <2>2
    <3> QED
      BY <3>1 DEF D4!Slips
  <2> QED
    BY <1>0, <2>1, <2>2, <2>3
<1>8. CASE D4!Create
  <2>1. CASE D4!SetPollInterval
    <3>1. /\ mode = "lights" /\ mode' = "player"
          /\ UNCHANGED <<defaults, report, slipped, event>>
          /\ wanted'["rumble"] = wanted["rumble"]
          /\ update' = update \cup {"poll"}
      BY <2>1 DEF D4!SetPollInterval, PadTypes
    <3> QED
      BY <1>0, <3>1
  <2>2. CASE D4!Bound
    BY <1>0, <2>2 DEF D4!Bound, D4!DefaultsSet
  <2> QED
    BY <1>8, <2>1, <2>2 DEF D4!Create
<1>9. CASE D4!Event
  BY <1>0, <1>9 DEF D4!Event, D4!RawReport, D4!Calibrating, D4!ScheduleHotplug,
                    Beside
<1>10. CASE \E who \in config.users : D4!Request(who)
  <2>1. PICK who \in config.users : D4!Request(who)
    BY <1>10
  <2>2. PICK cs \in D4!Sets(who) :
           /\ wanted' = [c \in D4!Controls |->
                             wanted[c] + IF c \in cs THEN 1 ELSE 0]
           /\ update' = update \cup cs
    BY <2>1 DEF D4!Request
  <2>3. /\ mode \in {"up", "quiesced"}
        /\ UNCHANGED <<mode, defaults, report, slipped, event>>
    BY <2>1 DEF D4!Request, Beside
  <2>4. "rumble" \notin update' => wanted'["rumble"] = wanted["rumble"]
    BY <2>2 DEF PadTypes, D4!Controls
  <2> QED
    BY <1>0, <2>2, <2>3, <2>4
<1>11. CASE D4!Bar \/ D4!Remove
  BY <1>0, <1>11 DEF D4!Bar, D4!Remove, D4!CancelOutput, D4!CancelHotplug
<1>12. CASE \/ D4!Hotplug \/ D4!Scheduling \/ D4!PadComes \/ D4!PadGoes
            \/ UNCHANGED D4!vars
  BY <1>0, <1>12 DEF D4!Hotplug, D4!Ask, D4!Calibrated, D4!Scheduling,
                     D4!ScheduleFor, D4!PadComes, D4!PadGoes, D4!vars
<1> QED
  BY <1>1, <1>2, <1>3, <1>4, <1>5, <1>6, <1>7, <1>8, <1>9, <1>10, <1>11,
     <1>12 DEF D4!Next, D4!Worker, D4!Defaults

\* Requests count on.
LEMMA PadTypesStep ==
    ASSUME PadTypes, [D4!Next]_D4!vars
    PROVE  PadTypes'
<1> USE DEF PadTypes, D4!requests, D4!output
<1>1. CASE D4!WorkerReads
  BY <1>1 DEF D4!WorkerReads
<1>2. CASE D4!WorkerSends
  BY <1>2 DEF D4!WorkerSends
<1>3. CASE D4!WriteDefaults \/ D4!SetPollInterval
  BY <1>3 DEF D4!WriteDefaults, D4!SetPollInterval, D4!Controls
<1>4. ASSUME NEW who \in config.users, D4!Request(who)
      PROVE  PadTypes'
  BY <1>4 DEF D4!Request
<1>5. CASE \/ D4!WorkerStarts \/ D4!WorkerCombines \/ D4!WorkerClears
           \/ D4!FlagDefaults \/ D4!Bound
           \/ D4!Event \/ D4!Hotplug \/ D4!Scheduling \/ D4!PadComes
           \/ D4!PadGoes \/ D4!Bar \/ D4!Remove \/ UNCHANGED D4!vars
  <2>1. UNCHANGED <<wanted, report>>
    BY <1>5 DEF D4!WorkerStarts, D4!WorkerCombines, D4!WorkerClears,
                D4!FlagDefaults, D4!Bound,
                D4!Event, D4!RawReport, D4!Calibrating, D4!ScheduleHotplug,
                D4!Hotplug, D4!Ask, D4!Calibrated, D4!Scheduling,
                D4!ScheduleFor, D4!PadComes, D4!PadGoes, D4!Bar, D4!Remove,
                D4!CancelOutput, D4!CancelHotplug, D4!vars
  <2> QED
    BY <2>1
<1> QED
  BY <1>1, <1>2, <1>3, <1>4, <1>5
  DEF D4!Next, D4!Worker, D4!Defaults, D4!Create

\* A flag is cleared only when the report has the value it is about, or, for
\* the poll interval, with the report that has it.
LEMMA PadSetStep ==
    ASSUME PadTypes, DefaultsInv, BuildInv, PadSetInv, [D4!Next]_D4!vars
    PROVE  PadSetInv'
<1> USE DEF D4!requests, D4!queue, D4!output, D4!dongle
<1>0. config' = config
  BY PadConfigStays
<1>b. Beside' = Beside
  BY <1>0 DEF Beside
<1>1. CASE D4!WorkerStarts
  BY <1>0, <1>b, <1>1 DEF D4!WorkerStarts, PadSetInv
<1>2. CASE D4!WorkerCombines \/ D4!WorkerReads
  <2>1. CASE D4!WorkerCombines
    BY <1>0, <1>b, <2>1 DEF D4!WorkerCombines, D4!Together, PadSetInv
  <2>2. CASE D4!WorkerReads
    BY <1>0, <1>b, <2>2 DEF D4!WorkerReads, PadSetInv
  <2> QED
    BY <1>2, <2>1, <2>2
<1>3. CASE D4!WorkerClears
  <2>1. /\ UNCHANGED <<defaults, wanted, report, shown, slipped>>
        /\ pad_worker = "inside" /\ pad_worker' = "sending"
        /\ update' = update \ DOMAIN report
    BY <1>3 DEF D4!WorkerClears
  <2>2. \A c \in DOMAIN report :
           \/ report[c] = wanted[c]
           \/ c = "light" /\ defaults = "written"
           \/ c \in slipped /\ Beside
    BY <2>1 DEF BuildInv, DefaultsInv
  <2> QED
    BY <1>0, <1>b, <2>1, <2>2 DEF PadSetInv, PadTypes
<1>4. CASE D4!WorkerSends
  <2>1. /\ UNCHANGED <<wanted, defaults, slipped>>
        /\ pad_worker' = "idle" /\ pad_worker = "sending"
        /\ update' = IF config.bus = "bt" /\ "poll" \in update
                     THEN update \ {"poll"} ELSE update
    BY <1>4 DEF D4!WorkerSends
  <2>2. ASSUME NEW c \in D4!Controls \ {"poll"}, c \notin update,
               ~(c = "light" /\ defaults = "written"),
               ~(c \in slipped /\ Beside)
        PROVE  shown'[c] = wanted[c]
    <3>1. CASE c \in DOMAIN report
      BY <1>4, <2>1, <2>2, <3>1, PadShows DEF PadSetInv
    <3>2. CASE c \notin DOMAIN report
      <4>1. shown[c] = wanted[c]
        BY <2>2, <3>2 DEF PadSetInv
      <4>2. CASE DOMAIN report \cap {"rumble", "light"} # {}
                 /\ c \in {"rumble", "light"}
        <5>1. c = "rumble" /\ "light" \in DOMAIN report
          BY <3>2, <4>2 DEF BuildInv
        <5>2. CASE config.coupled
          <6>1. "rumble" \in slipped /\ ~Beside
            BY <2>2, <3>2, <5>1, <5>2 DEF BuildInv, Alone
          <6>2. wanted[c] = 0
            BY <2>2, <5>1, <6>1 DEF DefaultsInv
          <6> QED
            BY <1>4, <3>2, <4>1, <5>1, <6>2, PadShows
        <5>3. CASE ~config.coupled
          BY <1>4, <3>2, <4>1, <5>1, <5>3, PadShows
        <5> QED
          BY <5>2, <5>3
      <4>3. CASE ~(DOMAIN report \cap {"rumble", "light"} # {}
                   /\ c \in {"rumble", "light"})
        BY <1>4, <2>2, <3>2, <4>1, <4>3, PadShows
      <4> QED
        BY <4>2, <4>3
    <3> QED
      BY <3>1, <3>2
  <2>3. config.bus = "bt" => shown'["poll"] = wanted["poll"]
    <3>1. "poll" \in D4!Controls /\ "poll" \notin DOMAIN report
      BY DEF PadTypes, D4!Controls
    <3> QED
      BY <1>4, <3>1, PadShows DEF PadSetInv
  <2> QED
    BY <1>0, <1>b, <2>1, <2>2, <2>3 DEF PadSetInv
<1>5. CASE D4!WriteDefaults \/ D4!SetPollInterval
  <2>1. \A c \in D4!Controls :
           /\ D4!WriteDefaults /\ c # "light" => wanted'[c] = wanted[c]
           /\ D4!SetPollInterval /\ c # "poll" => wanted'[c] = wanted[c]
    BY DEF D4!WriteDefaults, D4!SetPollInterval, PadTypes
  <2>2. "poll" \in D4!Controls
    BY DEF D4!Controls
  <2> QED
    BY <1>0, <1>b, <1>5, <2>1, <2>2
       DEF D4!WriteDefaults, D4!SetPollInterval, PadSetInv
<1>6. CASE D4!FlagDefaults
  BY <1>0, <1>b, <1>6 DEF D4!FlagDefaults, PadSetInv
<1>7. CASE D4!Bound \/ D4!Calibrating
  BY <1>0, <1>b, <1>7 DEF D4!Bound, D4!Calibrating, D4!DefaultsSet, PadSetInv
<1>8. ASSUME NEW who \in config.users, D4!Request(who)
      PROVE  PadSetInv'
  <2>1. PICK cs \in D4!Sets(who) :
           /\ wanted' = [c \in D4!Controls |->
                             wanted[c] + IF c \in cs THEN 1 ELSE 0]
           /\ update' = update \cup cs
    BY <1>8 DEF D4!Request
  <2>2. ASSUME NEW c \in D4!Controls, c \notin update'
        PROVE  c \notin update /\ wanted'[c] = wanted[c]
    BY <2>1, <2>2 DEF PadTypes
  <2>3. /\ "poll" \in D4!Controls
        /\ UNCHANGED <<report, shown, pad_worker, defaults, slipped>>
    BY <1>8 DEF D4!Request, D4!Controls
  <2> QED
    BY <1>0, <1>b, <2>2, <2>3 DEF PadSetInv
<1>9. CASE UNCHANGED <<wanted, update, report, shown, pad_worker, defaults,
                       slipped>>
  BY <1>0, <1>b, <1>9 DEF PadSetInv
<1>10. CASE \/ D4!RawReport \/ D4!ScheduleHotplug \/ D4!Hotplug
            \/ D4!Scheduling \/ D4!PadComes \/ D4!PadGoes
            \/ D4!Bar \/ D4!Remove \/ UNCHANGED D4!vars
  <2>1. UNCHANGED <<wanted, update, report, shown, pad_worker, defaults,
                    slipped>>
    BY <1>10 DEF D4!RawReport, D4!ScheduleHotplug, D4!Hotplug, D4!Ask,
                 D4!Calibrated, D4!Scheduling, D4!ScheduleFor, D4!PadComes,
                 D4!PadGoes, D4!Bar, D4!Remove, D4!CancelOutput,
                 D4!CancelHotplug, D4!vars
  <2> QED
    BY <1>9, <2>1
<1> QED
  BY <1>1, <1>2, <1>3, <1>4, <1>5, <1>6, <1>7, <1>8, <1>10
  DEF D4!Next, D4!Worker, D4!Defaults, D4!Create, D4!Event

\* All of it.
PadIInv == PadTypes /\ DefaultsInv /\ BuildInv /\ PadSetInv

\* When nothing is on its way, the pad has the newest of what it was set to,
\* whatever dualshock4_output_worker was doing when it was asked for, and even
\* if setting one control cancels another; but for what the default colours made
\* the worker drop, beside an early program or for another pad at the dongle.
THEOREM PadLatest == D4!Spec => []LatestShown
<1>1. D4!Init => PadIInv
  BY DEF D4!Init, PadIInv, PadTypes, DefaultsInv, BuildInv, PadSetInv,
         D4!Controls
<1>2. PadIInv /\ [D4!Next]_D4!vars => PadIInv'
  BY PadTypesStep, DefaultsStep, BuildStep, PadSetStep DEF PadIInv
<1>3. PadIInv => LatestShown
  <2> SUFFICES ASSUME PadIInv, D4!Settled, NEW c \in D4!Sent,
                      ~(c \in slipped /\ Beside)
               PROVE  shown[c] = wanted[c]
    BY DEF LatestShown, D4!LatestShown, Beside
  <2>1. c \in D4!Controls /\ c \notin update /\ (c = "poll" => config.bus = "bt")
    BY DEF D4!Sent, D4!Settled
  <2>2. pad_worker = "idle" /\ defaults = "idle"
    BY DEF D4!Settled
  <2> QED
    BY <2>1, <2>2 DEF PadIInv, PadSetInv
<1> QED
  BY <1>1, <1>2, <1>3, PTL DEF D4!Spec
=============================================================================
