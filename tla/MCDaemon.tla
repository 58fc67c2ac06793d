------------------------------ MODULE MCDaemon ------------------------------
(***************************************************************************)
(* The instance of Daemon that TLC checks, with the number of attempts the *)
(* code makes.  In one half of the behaviours any of the system calls may  *)
(* fail that the code does not expect to, in the other half none does.     *)
(***************************************************************************)
EXTENDS Daemon

MCMaxAttempts == 5
MCFaults      == {"readback", "epoll_ctl", "epoll_wait", "udc_open"}
=============================================================================
