------------------------------ MODULE Discovery ------------------------------
(***************************************************************************)
(* How the daemon gets hold of the controller (src/src/bt.cpp): the search *)
(* of main and bt_init for a hidraw device, the grabs that keep the input  *)
(* of the controller itself from the system, bt_deinit, and devices that   *)
(* come and go meanwhile.                                                  *)
(*                                                                         *)
(* A device here is a connection of a controller, or something else with a *)
(* hidraw node.  The kernel gives it the lowest free hidraw number at      *)
(* once; its driver registers its input devices one by one, with requests  *)
(* to the controller before (DriverProbe).                                 *)
(***************************************************************************)
EXTENDS Integers, FiniteSets

CONSTANTS
    Bluetooth,  \* DualSenses connected by Bluetooth
    Cable,      \* DualSenses on the USB, a gadget among them perhaps
    Others,     \* other devices with a hidraw node
    Inputs,     \* input devices of a DualSense
    Held        \* pairs of a device and an input that others have grabbed

DiscoveryAssumption ==
    /\ Bluetooth \cap Cable = {} /\ (Bluetooth \cup Cable) \cap Others = {}
    /\ {"none", "gone"} \cap (Bluetooth \cup Cable \cup Others) = {}
    /\ Inputs \in Nat \ {0}

DualSenses == Bluetooth \cup Cable
Devices    == DualSenses \cup Others

VARIABLES
    early,    \* the daemon may look while a driver is still probing
    node,     \* the number of a device's hidraw node, 0 when it has none
    inputs,   \* how many of its input devices are registered
    stage,    \* where the daemon is
    path,     \* hidraw_path, its number
    fd,       \* hidraw_fd: the device that was opened; it may have gone
    todo,     \* input devices that grab_evdev_devices is sure to come by
    grabbed   \* grabbed_evdev_fds, without those whose device has gone

system == <<early, node, inputs>>
daemon == <<stage, path, fd, todo, grabbed>>
vars == <<system, daemon>>

None == "none"
Gone == "gone"

InputsOf(d) == {d} \X (1 .. inputs[d])
Present == {d \in Devices : node[d] # 0}

Init ==
    /\ early \in BOOLEAN
    /\ node = [d \in Devices |-> 0] /\ inputs = [d \in Devices |-> 0]
    /\ stage = "search" /\ path = 0 /\ fd = None
    /\ todo = {} /\ grabbed = {}
-----------------------------------------------------------------------------
(* Devices. *)

Lowest(S) == CHOOSE n \in S : \A m \in S : n <= m

Connects(d) ==
    /\ node[d] = 0
    /\ node' = [node EXCEPT ![d] =
           Lowest({n \in 1 .. Cardinality(Devices) : \A e \in Devices : node[e] # n})]
    /\ inputs' = [inputs EXCEPT ![d] =
           IF early \/ d \in Others THEN 0 ELSE Inputs]
    /\ UNCHANGED <<early, daemon>>

Registers(d) ==
    /\ d \in DualSenses \cap Present /\ inputs[d] < Inputs
    /\ inputs' = [inputs EXCEPT ![d] = @ + 1]
    /\ UNCHANGED <<early, node, daemon>>

Disconnects(d) ==
    /\ d \in Present
    /\ node' = [node EXCEPT ![d] = 0] /\ inputs' = [inputs EXCEPT ![d] = 0]
    /\ fd' = IF fd = d THEN Gone ELSE fd
    /\ todo' = todo \ InputsOf(d) /\ grabbed' = grabbed \ InputsOf(d)
    /\ UNCHANGED <<early, stage, path>>
-----------------------------------------------------------------------------
(* bt_init, again and again until it succeeds. *)

\* find_hidraw_device: the first DualSense the directory lists; there is no
\* order among them.
Find ==
    /\ stage = "search"
    /\ \E d \in DualSenses \cap Present : path' = node[d]
    /\ stage' = "found"
    /\ UNCHANGED <<system, fd, todo, grabbed>>

\* Mutant: the number is kept for the next attempt.
Open_Again ==
    /\ stage = "found"
    /\ \E d \in Present :
           /\ node[d] = path
           /\ fd' = d
    /\ stage' = "opened"
    /\ UNCHANGED <<system, path, todo, grabbed>>

\* What has that number now is opened.
Open ==
    /\ stage = "found"
    /\ \/ \E d \in Present :
              /\ node[d] = path
              /\ fd' = d
          /\ stage' = "opened"
       \/ /\ \A d \in Present : node[d] # path
          /\ stage' = "search"
          /\ UNCHANGED fd
    /\ UNCHANGED <<system, path, todo, grabbed>>

\* grab_evdev_devices gives up without the link of the node, or goes through
\* the input devices ...
StartGrabbing ==
    /\ stage = "opened"
    /\ IF \E d \in Present : node[d] = path
       THEN /\ stage' = "grabbing"
            /\ todo' = UNION {InputsOf(d) : d \in Present}
       ELSE stage' = "up" /\ UNCHANGED todo
    /\ UNCHANGED <<system, path, fd, grabbed>>

\* The evdev nodes grab_evdev_devices takes, by name and bus.
Suppressed(d) == d \in Bluetooth

\* Mutant: the first input device that cannot be grabbed ends the loop.
Grab_Break(i) ==
    /\ stage = "grabbing"
    /\ IF i \in Held
       THEN todo' = {} /\ UNCHANGED grabbed
       ELSE /\ todo' = todo \ {i}
            /\ grabbed' = IF Suppressed(i[1]) THEN grabbed \cup {i} ELSE grabbed
    /\ UNCHANGED <<system, stage, path, fd>>

\* ... and takes each DualSense's on the Bluetooth bus, if nobody else has.
Grab(i) ==
    /\ stage = "grabbing"
    /\ todo' = todo \ {i}
    /\ grabbed' = IF Suppressed(i[1]) /\ i \notin Held THEN grabbed \cup {i}
                                                      ELSE grabbed
    /\ UNCHANGED <<system, stage, path, fd>>

\* One that was registered since it started is come by or not.
StopGrabbing ==
    /\ stage = "grabbing" /\ todo = {}
    /\ stage' = "up"
    /\ UNCHANGED <<system, path, fd, todo, grabbed>>
-----------------------------------------------------------------------------
\* bt_deinit, when the user ends the daemon or, after bt_process_epoll_event
\* could not read, the daemon itself.
Deinit ==
    /\ stage = "up"
    /\ stage' = "exited"
    /\ path' = 0 /\ fd' = None /\ grabbed' = {}
    /\ UNCHANGED <<system, todo>>

\* The user starts the daemon again.
Restart ==
    /\ stage = "exited"
    /\ stage' = "search"
    /\ UNCHANGED <<system, path, fd, todo, grabbed>>

Daemon ==
    \/ Find \/ Open \/ StartGrabbing \/ StopGrabbing
    \/ \E d \in Present : \E i \in InputsOf(d) : Grab(i)

Next ==
    \/ Daemon \/ Deinit \/ Restart
    \/ \E d \in Devices : Connects(d) \/ Registers(d) \/ Disconnects(d)

Spec == Init /\ [][Next]_vars

\* The daemon runs.
FairSpec == Spec /\ WF_vars(Daemon)
-----------------------------------------------------------------------------
(* Properties. *)

\* The values the variables range over; nothing is open or grabbed between two
\* runs of the daemon.
TypeOK ==
    /\ early \in BOOLEAN
    /\ \A d \in Devices : node[d] \in Nat /\ inputs[d] \in 0 .. Inputs
    /\ \A d, e \in Present : node[d] = node[e] => d = e
    /\ stage \in {"search", "found", "opened", "grabbing", "up", "exited"}
    /\ path \in Nat /\ fd \in Devices \cup {None, Gone}
    /\ stage \in {"search", "found", "exited"} => fd = None /\ grabbed = {}
    /\ todo \cup grabbed \subseteq UNION {InputsOf(d) : d \in Present}

\* "This prevents the 'real' DualSense input events from reaching the system"
\* (src/src/bt.cpp:102): while the daemon passes on a controller's input, each
\* of its input devices is grabbed, but for those another program has.  (When
\* the daemon may look early, one that is registered after the grabs is not.)
NoDoubleInput ==
    ~early /\ stage = "up" /\ fd \in Bluetooth
        => InputsOf(fd) \subseteq grabbed \cup Held

\* When devices have stopped coming and going and a DualSense is there, one
\* is opened, whatever happened between finding and opening before.
Served ==
    <>[][FALSE]_system /\ <>[](DualSenses \cap Present # {} /\ stage # "exited")
        => <>(stage = "up")
=============================================================================
