---------------------------- MODULE GadgetScripts ----------------------------
(***************************************************************************)
(* setup_gadget.sh and teardown_gadget.sh on ConfigFS, and the daemon that *)
(* uses what they leave (usb_init, usb_deinit).  A user runs a script at   *)
(* any time and may interrupt it; the daemon runs teardown when it ends,   *)
(* may be killed, and the machine may be rebooted.                         *)
(*                                                                         *)
(* Both scripts run under "set -e": a command that fails ends the script,  *)
(* unless it is followed by "|| true".                                     *)
(***************************************************************************)
EXTENDS Naturals, Sequences

CONSTANT Users  \* who runs the scripts by hand, beside the daemon

VARIABLES
    dirs,     \* directories of the gadget in ConfigFS
    written,  \* those whose attributes have been written
    links,    \* functions that are linked in configs/c.1
    mounted,  \* what is mounted at /dev/ffs, see Instance
    real,     \* a UDC of the machine's own is listed before dummy_udc.0
    dummy,    \* dummy_hcd is loaded
    bound,    \* the UDC of the gadget
    flag,     \* /tmp/ds5_uac1_enabled
    todo,     \* the steps a script still has to take, for each who runs one
    outcome,  \* of the scripts since the last one started
    alone,    \* no other script ran since the last one started
    orderly,  \* no two scripts ran at once since a teardown that ran alone
    daemon,   \* where the daemon is
    fd,       \* what ep0_fd belongs to, see Instance
    enabled   \* uac1_enabled

tree   == <<dirs, written, links, mounted, bound>>
host   == <<real, dummy, flag>>
run == <<alone, orderly>>
script == <<todo, outcome, run>>
process == <<daemon, fd, enabled>>
vars == <<tree, host, script, process>>

Parent == [gadget |-> "root", strings |-> "gadget", config |-> "gadget",
           cfgstrings |-> "config", uac1 |-> "gadget", ffs |-> "gadget"]
Dirs      == DOMAIN Parent
Functions == {"uac1", "ffs"}

\* No instance of FunctionFS, that of the directory functions/ffs.ds, or that
\* of a directory of this name that was removed.
Instance == {"none", "current", "stale"}

Teardown == <<
    <<"Unbind", "">>, <<"Umount", "">>, <<"Unlink", "ffs">>, <<"Unlink", "uac1">>,
    <<"Rmdir", "cfgstrings">>, <<"Rmdir", "config">>, <<"Rmdir", "ffs">>,
    <<"Rmdir", "uac1">>, <<"Rmdir", "strings">>, <<"Rmdir", "gadget">>,
    <<"Unload", "">>, <<"Load", "">>, <<"RmFlag", "">>, <<"Report", "">> >>

\* What set-up does after a teardown of its own.
Build == <<
    <<"Load", "">>, <<"Detect", "">>, <<"Mkdir", "gadget">>, <<"Write", "gadget">>,
    <<"Mkdir", "strings">>, <<"Write", "strings">>,
    <<"Mkdir", "config">>, <<"Write", "config">>,
    <<"Mkdir", "cfgstrings">>, <<"Write", "cfgstrings">>,
    <<"Mkdir", "uac1">>, <<"Write", "uac1">>, <<"Link", "uac1">>,
    <<"Mkdir", "ffs">>, <<"Link", "ffs">>,
    <<"Mount", "">>, <<"Verify", "">>, <<"WriteFlag", "">>, <<"Ready", "">> >>

\* Mutant: UAC1 is linked as soon as it is there.
SetUp_LinkFirst == Teardown \o <<
    <<"Load", "">>, <<"Detect", "">>, <<"Mkdir", "gadget">>, <<"Write", "gadget">>,
    <<"Mkdir", "strings">>, <<"Write", "strings">>,
    <<"Mkdir", "config">>, <<"Write", "config">>,
    <<"Mkdir", "cfgstrings">>, <<"Write", "cfgstrings">>,
    <<"Mkdir", "uac1">>, <<"Link", "uac1">>, <<"Write", "uac1">>,
    <<"Mkdir", "ffs">>, <<"Link", "ffs">>,
    <<"Mount", "">>, <<"Verify", "">>, <<"WriteFlag", "">>, <<"Ready", "">> >>

SetUp == Teardown \o Build

Init ==
    /\ dirs = {} /\ written = {} /\ links = {}
    /\ mounted = "none" /\ bound = "none"
    /\ real \in BOOLEAN /\ dummy = FALSE /\ flag = "none"
    /\ todo = [r \in Users \cup {"daemon"} |-> <<>>]
    /\ outcome = "none" /\ alone = TRUE /\ orderly = TRUE
    /\ daemon = "off" /\ fd = "none" /\ enabled = FALSE
-----------------------------------------------------------------------------
(* The steps of a script.  Those of set-up that are about UAC1 are skipped  *)
(* without it.                                                             *)

At(r, command) == todo[r] # <<>> /\ Head(todo[r])[1] = command
On(r)          == Head(todo[r])[2]
Continue(r)    == todo' = [todo EXCEPT ![r] = Tail(@)] /\ UNCHANGED outcome
Fail(r)        == todo' = [todo EXCEPT ![r] = <<>>] /\ outcome' = "failed"

Unbind(r) ==
    /\ At(r, "Unbind")
    /\ bound' = "none"
    /\ Continue(r)
    /\ UNCHANGED <<dirs, written, links, mounted, host, run, process>>

\* Plainly or, while the daemon has ep0 open, lazily.
Umount(r) ==
    /\ At(r, "Umount")
    /\ mounted' = "none"
    /\ Continue(r)
    /\ UNCHANGED <<dirs, written, links, bound, host, run, process>>

\* A function that leaves the configuration unbinds the gadget.
Unlink(r) ==
    /\ At(r, "Unlink")
    /\ links' = links \ {On(r)}
    /\ bound' = IF On(r) \in links THEN "none" ELSE bound
    /\ Continue(r)
    /\ UNCHANGED <<dirs, written, mounted, host, run, process>>

\* rmdir leaves a directory with children or links in it, and a function
\* that is linked.
Removable(d) ==
    /\ \A e \in dirs : Parent[e] # d
    /\ d = "config" => links = {}
    /\ d \notin links

Stale(i) == IF i = "current" THEN "stale" ELSE i

RemoveDir(d) ==
    LET Goes == d \in dirs /\ Removable(d)
    IN  /\ dirs' = IF Goes THEN dirs \ {d} ELSE dirs
        /\ written' = written \cap dirs'
        /\ mounted' = IF Goes /\ d = "ffs" THEN Stale(mounted) ELSE mounted
        /\ fd' = IF Goes /\ d = "ffs" THEN Stale(fd) ELSE fd

Rmdir(r) ==
    /\ At(r, "Rmdir")
    /\ RemoveDir(On(r))
    /\ Continue(r)
    /\ UNCHANGED <<links, bound, host, run, daemon, enabled>>

\* Teardown verifies, and tries again.
Report(r) ==
    /\ At(r, "Report")
    /\ RemoveDir("gadget")
    /\ orderly' = (orderly \/ alone)
    /\ Continue(r)
    /\ UNCHANGED <<links, bound, host, alone, daemon, enabled>>

Unload(r) ==
    /\ At(r, "Unload")
    /\ dummy' = FALSE /\ bound' = "none"
    /\ Continue(r)
    /\ UNCHANGED <<dirs, written, links, mounted, real, flag, run, process>>

Load(r) ==
    /\ At(r, "Load")
    /\ dummy' = TRUE
    /\ Continue(r)
    /\ UNCHANGED <<tree, real, flag, run, process>>

\* Mutant: the flag is left to set-up.
RmFlag_Kept(r) ==
    /\ At(r, "RmFlag")
    /\ Continue(r)
    /\ UNCHANGED <<tree, host, run, process>>

RmFlag(r) ==
    /\ At(r, "RmFlag")
    /\ flag' = "none"
    /\ Continue(r)
    /\ UNCHANGED <<tree, real, dummy, run, process>>

Detect(r) ==
    /\ At(r, "Detect")
    /\ IF dummy THEN Continue(r) ELSE Fail(r)
    /\ UNCHANGED <<tree, host, run, process>>

\* UAC1_ENABLED is about the UDC that is listed first.
Skipped(r) == On(r) = "uac1" /\ ~real

\* mkdir -p: with its parents.
Mkdir(r) ==
    /\ At(r, "Mkdir")
    /\ dirs' = IF Skipped(r) THEN dirs
               ELSE dirs \cup ({On(r), Parent[On(r)], "gadget"} \cap Dirs)
    /\ Continue(r)
    /\ UNCHANGED <<written, links, mounted, bound, host, run, process>>

\* Attributes in a directory that must be there; a linked function's are fixed.
Write(r) ==
    /\ At(r, "Write")
    /\ IF Skipped(r) \/ (On(r) \in dirs /\ On(r) \notin links)
       THEN /\ Continue(r)
            /\ written' = IF Skipped(r) THEN written ELSE written \cup {On(r)}
       ELSE Fail(r) /\ UNCHANGED written
    /\ UNCHANGED <<dirs, links, mounted, bound, host, run, process>>

\* ln -s: function and configuration are there, a link is not.
Link(r) ==
    /\ At(r, "Link")
    /\ IF Skipped(r) \/ ({On(r), "config"} \subseteq dirs /\ On(r) \notin links)
       THEN /\ Continue(r)
            /\ links' = IF Skipped(r) THEN links ELSE links \cup {On(r)}
       ELSE Fail(r) /\ UNCHANGED links
    /\ UNCHANGED <<dirs, written, mounted, bound, host, run, process>>

\* An instance can be mounted once, lazily unmounted or not.
Mount(r) ==
    /\ At(r, "Mount")
    /\ IF "ffs" \in dirs /\ "current" \notin {mounted, fd}
       THEN Continue(r) /\ mounted' = "current"
       ELSE Fail(r) /\ UNCHANGED mounted
    /\ UNCHANGED <<dirs, written, links, bound, host, run, process>>

Verify(r) ==
    /\ At(r, "Verify")
    /\ IF mounted # "none" THEN Continue(r) ELSE Fail(r)
    /\ UNCHANGED <<tree, host, run, process>>

WriteFlag(r) ==
    /\ At(r, "WriteFlag")
    /\ flag' = IF real THEN "1" ELSE "0"
    /\ Continue(r)
    /\ UNCHANGED <<tree, real, dummy, run, process>>

\* "Gadget setup complete."
Ready(r) ==
    /\ At(r, "Ready")
    /\ todo' = [todo EXCEPT ![r] = <<>>] /\ outcome' = "complete"
    /\ UNCHANGED <<tree, host, run, process>>

Step(r) ==
    \/ Unbind(r) \/ Umount(r) \/ Unlink(r) \/ Rmdir(r) \/ Unload(r)
    \/ Load(r) \/ RmFlag(r) \/ Report(r) \/ Detect(r) \/ Mkdir(r)
    \/ Write(r) \/ Link(r) \/ Mount(r) \/ Verify(r) \/ WriteFlag(r)
    \/ Ready(r)
-----------------------------------------------------------------------------
(* Who runs the scripts. *)

Run(r, steps) ==
    /\ todo[r] = <<>>
    /\ todo' = [todo EXCEPT ![r] = steps]
    /\ outcome' = "none"
    /\ alone' = \A q \in DOMAIN todo \ {r} : todo[q] = <<>>
    /\ orderly' = (orderly /\ alone')

User ==
    /\ \E r \in Users, steps \in {SetUp, Teardown} : Run(r, steps)
    /\ UNCHANGED <<tree, host, process>>

Interrupt(r) ==
    /\ todo[r] # <<>>
    /\ todo' = [todo EXCEPT ![r] = <<>>]
    /\ UNCHANGED <<tree, host, outcome, run, process>>

\* ConfigFS and the mounts are gone; /tmp may be or not, and the UDC listed
\* first need not be the one that was: another kernel may have come up.
Reboot ==
    /\ dirs' = {} /\ written' = {} /\ links' = {}
    /\ mounted' = "none" /\ bound' = "none"
    /\ real' \in BOOLEAN /\ dummy' = FALSE /\ flag' \in {flag, "none"}
    /\ todo' = [r \in DOMAIN todo |-> <<>>]
    /\ outcome' = "none" /\ alone' = TRUE /\ orderly' = TRUE
    /\ daemon' = "off" /\ fd' = "none" /\ enabled' = FALSE
-----------------------------------------------------------------------------
(* The daemon, one at a time. *)

\* check_uac1_flag, as usb_init begins.  One that begins before the gadget has
\* been mounted is early: what it reads may be of another boot.
CheckFlag ==
    /\ daemon \in {"off", "failed"}
    /\ daemon' = (IF mounted = "current" THEN "checked" ELSE "early")
    /\ enabled' = (flag = "1")
    /\ UNCHANGED <<tree, host, script, fd>>

\* The process ends.  When the last descriptor of an instance is closed the
\* gadget is unbound.
Close ==
    /\ fd' = "none" /\ enabled' = FALSE
    /\ bound' = IF fd = "current" THEN "none" ELSE bound

\* usb_init opens ep0 and writes descriptors and strings.
OpenEp0 ==
    /\ daemon \in {"checked", "early"}
    /\ IF mounted = "current"
       THEN daemon' = "opened" /\ fd' = "current"
       ELSE daemon' = "failed" /\ UNCHANGED fd
    /\ enabled' = (enabled /\ daemon' = "opened")
    /\ UNCHANGED <<tree, host, script>>

\* try_bind_udc, after at most five attempts.
BindUdc ==
    /\ daemon = "opened"
    /\ IF /\ "gadget" \in dirs /\ "ffs" \in links
          /\ fd = "current" /\ dummy /\ bound = "none"
       THEN daemon' = "up" /\ bound' = "dummy" /\ UNCHANGED <<fd, enabled>>
       ELSE daemon' = "failed" /\ Close
    /\ UNCHANGED <<dirs, written, links, mounted, host, script>>

\* usb_unbind_udc.
UnbindUdc ==
    /\ daemon = "up"
    /\ daemon' = "unbound" /\ bound' = "none"
    /\ UNCHANGED <<dirs, written, links, mounted, host, script, fd, enabled>>

\* usb_close_fds: teardown is looked for in the working directory and above it.
CloseFds ==
    /\ daemon = "unbound"
    /\ Close
    /\ \/ daemon' = "tearing down" /\ Run("daemon", Teardown)
       \/ daemon' = "off" /\ UNCHANGED <<todo, outcome, run>>
    /\ UNCHANGED <<dirs, written, links, mounted, host>>

Exit ==
    /\ daemon = "tearing down" /\ todo["daemon"] = <<>>
    /\ daemon' = "off"
    /\ UNCHANGED <<tree, host, script, fd, enabled>>

\* Its script goes on.
Kill ==
    /\ daemon \notin {"off", "failed"}
    /\ daemon' = "off"
    /\ Close
    /\ UNCHANGED <<dirs, written, links, mounted, host, script>>

Next ==
    \/ \E r \in DOMAIN todo : Step(r) \/ Interrupt(r)
    \/ User \/ Reboot
    \/ CheckFlag \/ OpenEp0 \/ BindUdc \/ UnbindUdc \/ CloseFds \/ Exit \/ Kill

Spec == Init /\ [][Next]_vars
-----------------------------------------------------------------------------
(* Properties. *)

Complete ==
    /\ links = (IF real THEN Functions ELSE {"ffs"})
    /\ dirs = Dirs \ (Functions \ links)
    /\ written = dirs \ {"ffs"}
    /\ mounted = "current"
    /\ flag = (IF real THEN "1" ELSE "0")

Clean ==
    /\ dirs = {} /\ links = {} /\ mounted = "none" /\ bound = "none"
    /\ flag = "none"

\* The values the variables range over, and what ConfigFS itself ensures: the
\* parent of a directory exists, as do the ends of a link, and only a gadget
\* with a function in its configuration is bound.
TypeOK ==
    /\ dirs \subseteq Dirs /\ written \subseteq dirs
    /\ \A d \in dirs : Parent[d] \in dirs \cup {"root"}
    /\ links \subseteq Functions
    /\ links # {} => links \cup {"config"} \subseteq dirs
    /\ mounted \in Instance /\ fd \in Instance
    /\ "current" \in {mounted, fd} => "ffs" \in dirs
    /\ real \in BOOLEAN /\ dummy \in BOOLEAN /\ bound \in {"none", "dummy"}
    /\ bound # "none" => links # {} /\ fd = "current" /\ dummy
    /\ flag \in {"none", "0", "1"}
    /\ outcome \in {"none", "complete", "failed"}
    /\ alone \in BOOLEAN /\ orderly \in BOOLEAN
    /\ enabled \in BOOLEAN
    /\ daemon \in {"off", "checked", "early", "opened", "up", "unbound",
                   "tearing down", "failed"}

\* "Forcefully clean up any stale USB gadget state" (src/teardown_gadget.sh:2):
\* a teardown that gets to its report, with no other script meanwhile, has left
\* nothing, whatever was interrupted or killed before, the daemon running or not.
TeardownClears ==
    \A r \in DOMAIN todo : alone /\ At(r, "Report") => Clean

\* A set-up that is the only script while it runs never fails, and has made
\* everything when it says so: no left-over of an earlier one is in its way.
SetUpComplete ==
    alone => outcome # "failed" /\ (outcome = "complete" => Complete)

\* A daemon that gets hold of the gadget and has read in the flag that there is
\* UAC1 (src/src/usb.cpp:259) finds it in the configuration: a flag that is left
\* over, of an interrupted script or from a boot with another UDC, misleads no
\* daemon, unless it was early.
FlagTrue ==
    [][daemon = "checked" /\ daemon' = "opened" /\ orderly /\ enabled
           => "uac1" \in links]_vars
=============================================================================
