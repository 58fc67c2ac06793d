----------------------------- MODULE DriverProbe -----------------------------
(***************************************************************************)
(* How the host's driver (src/hid-playstation.c) takes up and gives up its *)
(* devices: ps_probe with dualsense_create and dualshock4_create, and      *)
(* ps_remove, for any number of devices at once, with the list of devices, *)
(* the player ids and the output worker of each.  One of the devices may   *)
(* be the gadget (src/src/usb.cpp), which passes on what its controller    *)
(* answers and changes the address in it.                                  *)
(*                                                                         *)
(* The kernel is modelled from how the driver uses it: probe and remove of *)
(* one device exclude each other and its input reports, an input device    *)
(* can be used from its registration until the memory of its device is     *)
(* freed after a failed probe or a remove, and cancel_work_sync waits for  *)
(* a worker that runs.                                                     *)
(***************************************************************************)
EXTENDS Integers, FiniteSets

CONSTANTS
    Devices,     \* hid devices
    Kind,        \* of each: "dualsense" or "dualshock4"
    Controller,  \* the controller behind each, whose address it has
    Gadgets      \* the devices that are a gadget in front of their controller

ASSUME ProbeAssumption ==
    /\ Kind \in [Devices -> {"dualsense", "dualshock4"}]
    /\ Gadgets \subseteq Devices
    /\ \A d \in Gadgets : Kind[d] = "dualsense"
    /\ \A d \in Devices : Controller[d] # "nobody"  \* whose address is zeros

VARIABLES
    stage,        \* where ps_probe or ps_remove of a device is
    lateFailures, \* in this behaviour a registration may fail after that of
                  \* the gamepad
    mac_address,  \* what it took for its address
    ps_devices_list,
    ps_player_id_allocator,  \* the ids that are taken
    player_id,
    gamepads,     \* the devices whose gamepad is registered: it can rumble
    initialized,  \* output_worker_initialized
    worker        \* the output worker of a device: "idle", "pending",
                  \* "running", or "again" (running and pending)

registry == <<lateFailures, mac_address, ps_devices_list,
              ps_player_id_allocator, player_id>>
work == <<gamepads, initialized, worker>>
vars == <<stage, registry, work>>

\* An address: whose it is, and the bit that usb_handle_ep0 flips, the group
\* bit, which no controller's own address has.  Zeros are no controller's.
Real(c)   == [of |-> c, group |-> 0]
Spoof(m)  == [m EXCEPT !.group = 1 - m.group]
Zero      == [of |-> "nobody", group |-> 0]
Addresses == [of : {Controller[d] : d \in Devices} \cup {"nobody"},
              group : 0 .. 1]

NoId == -1  \* U32_MAX
PlayerIds == 0 .. Cardinality(Devices)

Probing  == {"mac", "firmware", "list", "calibration", "gamepad", "inputs",
             "lights", "lightbar", "leds", "player"}
Listed   == {"calibration", "gamepad", "inputs", "lights", "lightbar", "leds",
             "player", "undo", "bound"}
Removing == {"release", "quiesce", "cancel"}
Stages   == {"absent", "undo", "bound", "close"} \cup Probing \cup Removing
-----------------------------------------------------------------------------
Init ==
    /\ stage = [d \in Devices |-> "absent"]
    /\ lateFailures \in BOOLEAN
    /\ mac_address = [d \in Devices |-> Zero]
    /\ ps_devices_list = {} /\ ps_player_id_allocator = {}
    /\ player_id = [d \in Devices |-> NoId]
    /\ gamepads = {}
    /\ initialized = [d \in Devices |-> FALSE]
    /\ worker = [d \in Devices |-> "idle"]

Go(d, s) == stage' = [stage EXCEPT ![d] = s]

\* dualsense_schedule_work, dualshock4_schedule_work.
Schedule(d) ==
    worker' =
        IF initialized[d]
        THEN [worker EXCEPT ![d] =
                  CASE @ = "idle" -> "pending"
                    [] @ = "running" -> "again"
                    [] OTHER -> @]
        ELSE worker
-----------------------------------------------------------------------------
(* ps_probe *)

\* The device is opened and its state set up.
Probe(d) ==
    /\ stage[d] = "absent"
    /\ Go(d, "mac")
    /\ initialized' = [initialized EXCEPT ![d] = TRUE]
    /\ UNCHANGED <<registry, gamepads, worker>>

\* Mutant: the gadget passes the address on as it is.
Reported_Real(d) == {Real(Controller[d])}

\* What ps_get_report gets for the address: the controller's; from a gadget,
\* that with a bit flipped, or zeros when the controller does not answer.
Reported(d) ==
    IF d \in Gadgets THEN {Spoof(Real(Controller[d])), Zero}
                     ELSE {Real(Controller[d])}

\* dualsense_get_mac_address, dualshock4_get_mac_address.  When the
\* report cannot be had, is too short or has another id or a bad CRC, that
\* ends the probe.
GetMacAddress(d) ==
    /\ stage[d] = "mac"
    /\ \/ /\ \E m \in Reported(d) :
                mac_address' = [mac_address EXCEPT ![d] = m]
          /\ Go(d, "firmware")
       \/ Go(d, "close") /\ UNCHANGED mac_address
    /\ UNCHANGED <<lateFailures, ps_devices_list, ps_player_id_allocator,
                   player_id, work>>

\* ps_get_report as a step of a probe: the report, or an error.
GetReport(d, from, to, otherwise) ==
    /\ stage[d] = from
    /\ \/ Go(d, to)
       \/ Go(d, otherwise)
    /\ UNCHANGED <<registry, work>>

\* dualsense_get_firmware_info.  A DualShock 4 can do without.
GetFirmwareInfo(d) == GetReport(d, "firmware", "list", "close")
TryFirmwareInfo(d) == GetReport(d, "firmware", "list", "list")

Twin(d, e) == mac_address[e] = mac_address[d]

\* Mutant: only one entry of the list is compared.
ListAdd_FirstOnly(d) ==
    /\ stage[d] = "list"
    /\ IF ps_devices_list # {} /\ Twin(d, CHOOSE e \in ps_devices_list : TRUE)
       THEN Go(d, "close") /\ UNCHANGED ps_devices_list
       ELSE /\ ps_devices_list' = ps_devices_list \cup {d}
            /\ Go(d, "calibration")
    /\ UNCHANGED <<lateFailures, mac_address, ps_player_id_allocator,
                   player_id, work>>

\* ps_devices_list_add, under its mutex.
ListAdd(d) ==
    /\ stage[d] = "list"
    /\ IF \E e \in ps_devices_list : Twin(d, e)
       THEN Go(d, "close") /\ UNCHANGED ps_devices_list
       ELSE /\ ps_devices_list' = ps_devices_list \cup {d}
            /\ Go(d, "calibration")
    /\ UNCHANGED <<lateFailures, mac_address, ps_player_id_allocator,
                   player_id, work>>

\* dualsense_get_calibration_data.  A DualShock 4 can do without.
GetCalibrationData(d) == GetReport(d, "calibration", "gamepad", "undo")
TryCalibrationData(d) == GetReport(d, "calibration", "gamepad", "gamepad")

\* ps_gamepad_create: from its success on the gamepad can rumble.
CreateGamepad(d) ==
    /\ stage[d] = "gamepad"
    /\ \/ Go(d, "inputs") /\ gamepads' = gamepads \cup {d}
       \/ Go(d, "undo") /\ UNCHANGED gamepads
    /\ UNCHANGED <<registry, initialized, worker>>

\* A step of the probe that registers something, which may fail.
Register(d, from, to) ==
    /\ stage[d] = from
    /\ \/ Go(d, to)
       \/ lateFailures /\ Go(d, "undo")

\* Motion sensors, touchpad, headset jack and battery.
CreateInputs(d) ==
    /\ Register(d, "inputs", "lights")
    /\ UNCHANGED <<registry, work>>

\* dualsense_reset_leds, and the lightbar of a DualSense or the four LEDs of
\* a DualShock 4.
RegisterLights(d) ==
    /\ Register(d, "lights", "lightbar")
    /\ UNCHANGED <<registry, work>>

\* Work is scheduled for the first time.
FirstWork(d, to) ==
    /\ stage[d] = "lightbar"
    /\ Go(d, to)
    /\ Schedule(d)
    /\ UNCHANGED <<registry, gamepads, initialized>>

\* dualsense_set_lightbar, dualshock4_set_bt_poll_interval.
SetLightbar(d)       == FirstWork(d, "leds")
SetBtPollInterval(d) == FirstWork(d, "player")

\* The player LEDs of a DualSense.
RegisterPlayerLeds(d) ==
    /\ Register(d, "leds", "player")
    /\ UNCHANGED <<registry, work>>

\* Mutant: as many as there are players.
FreeId_Count(n) == n = Cardinality(ps_player_id_allocator)

\* ida_alloc gives the lowest free id.
FreeId(n) ==
    /\ n \notin ps_player_id_allocator
    /\ 0 .. n - 1 \subseteq ps_player_id_allocator

\* ps_device_set_player_id, and what it shows of the id.
SetPlayerId(d) ==
    /\ stage[d] = "player"
    /\ \/ \E n \in PlayerIds :
             /\ FreeId(n)
             /\ ps_player_id_allocator' = ps_player_id_allocator \cup {n}
             /\ player_id' = [player_id EXCEPT ![d] = n]
             /\ Go(d, "bound") /\ Schedule(d)
       \/ /\ lateFailures
          /\ Go(d, "undo")
          /\ UNCHANGED <<ps_player_id_allocator, player_id, worker>>
    /\ UNCHANGED <<lateFailures, mac_address, ps_devices_list, gamepads,
                   initialized>>

\* err of the two create functions: off the list, and no more.
Undo(d) ==
    /\ stage[d] = "undo"
    /\ ps_devices_list' = ps_devices_list \ {d}
    /\ Go(d, "close")
    /\ UNCHANGED <<lateFailures, mac_address, ps_player_id_allocator,
                   player_id, work>>

\* err_close of ps_probe, or the end of ps_remove: the device is closed, and
\* what was allocated for it is freed.
Close(d) ==
    /\ stage[d] = "close"
    /\ Go(d, "absent")
    /\ gamepads' = gamepads \ {d}
    /\ UNCHANGED <<registry, initialized, worker>>
-----------------------------------------------------------------------------
(* ps_remove *)

\* ps_devices_list_remove.
RemoveFromList(d) ==
    /\ stage[d] = "bound"
    /\ ps_devices_list' = ps_devices_list \ {d}
    /\ Go(d, "release")
    /\ UNCHANGED <<lateFailures, mac_address, ps_player_id_allocator,
                   player_id, work>>

\* ps_device_release_player_id.
ReleasePlayerId(d) ==
    /\ stage[d] = "release"
    /\ ps_player_id_allocator' = ps_player_id_allocator \ {player_id[d]}
    /\ player_id' = [player_id EXCEPT ![d] = NoId]
    /\ Go(d, "quiesce")
    /\ UNCHANGED <<lateFailures, mac_address, ps_devices_list, work>>

\* Mutant: the worker is cancelled without being barred first.
Quiesce_NotBarred(d) ==
    /\ stage[d] = "quiesce"
    /\ Go(d, "cancel")
    /\ UNCHANGED <<registry, work>>

\* dualsense_remove, dualshock4_remove: no more work is scheduled ...
Quiesce(d) ==
    /\ stage[d] = "quiesce"
    /\ initialized' = [initialized EXCEPT ![d] = FALSE]
    /\ Go(d, "cancel")
    /\ UNCHANGED <<registry, gamepads, worker>>

\* ... and cancel_work_sync takes back what was, and waits for what runs.
CancelWork(d) ==
    /\ stage[d] = "cancel"
    /\ \/ /\ worker[d] \in {"pending", "again"}
          /\ worker' = [worker EXCEPT ![d] = IF @ = "again" THEN "running"
                                                            ELSE "idle"]
          /\ UNCHANGED stage
       \/ /\ worker[d] = "idle"
          /\ Go(d, "close")
          /\ UNCHANGED worker
    /\ UNCHANGED <<registry, gamepads, initialized>>
-----------------------------------------------------------------------------
(* The rest of the kernel, and the user. *)

\* dualsense_play_effect, or an LED is set.
Play(d) ==
    /\ d \in gamepads
    /\ Schedule(d)
    /\ UNCHANGED <<stage, registry, gamepads, initialized>>

\* The output worker starts, and is done.
WorkerStarts(d) ==
    /\ worker[d] = "pending"
    /\ worker' = [worker EXCEPT ![d] = "running"]
    /\ UNCHANGED <<stage, registry, gamepads, initialized>>

WorkerEnds(d) ==
    /\ worker[d] \in {"running", "again"}
    /\ worker' = [worker EXCEPT ![d] = IF @ = "again" THEN "pending"
                                                      ELSE "idle"]
    /\ UNCHANGED <<stage, registry, gamepads, initialized>>
-----------------------------------------------------------------------------
\* dualsense_create and dualshock4_create.
DualsenseCreate(d) ==
    /\ Kind[d] = "dualsense"
    /\ \/ GetMacAddress(d) \/ GetFirmwareInfo(d) \/ ListAdd(d)
       \/ GetCalibrationData(d) \/ CreateGamepad(d) \/ CreateInputs(d)
       \/ RegisterLights(d) \/ SetLightbar(d) \/ RegisterPlayerLeds(d)
       \/ SetPlayerId(d) \/ Undo(d)
Dualshock4Create(d) ==
    /\ Kind[d] = "dualshock4"
    /\ \/ GetMacAddress(d) \/ TryFirmwareInfo(d) \/ ListAdd(d)
       \/ TryCalibrationData(d) \/ CreateGamepad(d) \/ CreateInputs(d)
       \/ RegisterLights(d) \/ SetBtPollInterval(d) \/ SetPlayerId(d)
       \/ Undo(d)

ProbeStep(d) == DualsenseCreate(d) \/ Dualshock4Create(d) \/ Close(d)
RemoveStep(d) == ReleasePlayerId(d) \/ Quiesce(d) \/ CancelWork(d)
WorkerStep(d) == WorkerStarts(d) \/ WorkerEnds(d)

Next == \E d \in Devices :
    \/ Probe(d) \/ ProbeStep(d) \/ RemoveFromList(d) \/ RemoveStep(d)
    \/ Play(d) \/ WorkerStep(d)

Spec == Init /\ [][Next]_vars
-----------------------------------------------------------------------------
(* Properties. *)

\* The values the variables range over.
TypeOK ==
    /\ stage \in [Devices -> Stages] /\ lateFailures \in BOOLEAN
    /\ mac_address \in [Devices -> Addresses]
    /\ ps_devices_list \subseteq Devices
    /\ ps_player_id_allocator \subseteq PlayerIds
    /\ player_id \in [Devices -> PlayerIds \cup {NoId}]
    /\ gamepads \subseteq Devices /\ initialized \in [Devices -> BOOLEAN]
    /\ worker \in [Devices -> {"idle", "pending", "running", "again"}]

\* ps_devices_list holds the devices that are being set up or in use and no
\* other: none that was turned away is taken off it, and none whose memory
\* is freed stays on it for the next probe to compare with.
ListIsLive == ps_devices_list = {d \in Devices : stage[d] \in Listed}

\* "Return error on duplicate device, which can happen if the same device is
\* connected using both Bluetooth and USB" (src/hid-playstation.c:583): no
\* two devices with the same address are in use at once, however their
\* probes interleave.
NoTwins ==
    \A d, e \in Devices :
        stage[d] \in Listed /\ stage[e] \in Listed /\ d # e => ~Twin(d, e)

\* Each player has an id of their own, and the ids of those who left are free.
PlayersDistinct ==
    LET seated == {d \in Devices : stage[d] \in {"bound", "release"}}
    IN  /\ \A d \in seated : player_id[d] # NoId
        /\ \A d, e \in seated : player_id[d] = player_id[e] => d = e
        /\ ps_player_id_allocator = {player_id[d] : d \in seated}

\* The output worker neither runs nor is about to when the memory of its
\* device is freed, whoever plays on it while it is removed, as long as no
\* probe fails after the gamepad is registered: err leaves the worker alone.
WorkerOutlived ==
    ~lateFailures =>
        \A d \in Devices : stage[d] = "absent" => worker[d] = "idle"

\* "Spoof MAC address to prevent kernel -EEXIST (Duplicate device)"
\* (src/src/usb.cpp:645): one gadget in front of a controller is never turned
\* away because of the controller's own connection.
GadgetIsAccepted ==
    [][\A g \in Gadgets :
          stage[g] = "list" /\ stage'[g] = "close"
              => \E e \in ps_devices_list \cap Gadgets : Twin(g, e)]_vars
=============================================================================
