----------------------------- MODULE GadgetState -----------------------------
(***************************************************************************)
(* GadgetScripts beside the daemon whose gadget it is about: its names are *)
(* its own here, so that DaemonProofs can have it next to Daemon.          *)
(***************************************************************************)
CONSTANT Users
VARIABLES dirs, written, links, mounted, real, dummy, udc, flag, to_run,
          outcome, alone, orderly, daemon, ep0, uac1

Scripts == INSTANCE GadgetScripts
           WITH bound <- udc, todo <- to_run, fd <- ep0, enabled <- uac1

GadgetSpec == Scripts!Spec
-----------------------------------------------------------------------------
\* A teardown that no other script disturbs leaves nothing behind
\* (src/teardown_gadget.sh:2), see GadgetScripts.
TeardownClears == Scripts!TeardownClears

\* A set-up that no other script disturbs makes everything
\* (src/setup_gadget.sh:3), see GadgetScripts.
SetUpComplete == Scripts!SetUpComplete

\* What the daemon reads of UAC1 is so (src/src/usb.cpp:259), see
\* GadgetScripts.
FlagTrue == Scripts!FlagTrue
=============================================================================
