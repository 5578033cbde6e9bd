--------------------------- MODULE MCBootWatchdog ---------------------------
(* The watchdog controller with any caller, on a small instance.           *)
EXTENDS BootWatchdog
=============================================================================
