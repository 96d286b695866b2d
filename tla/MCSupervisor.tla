---------------------------- MODULE MCSupervisor ----------------------------
(* Model-checking instance of Supervisor: one request arriving at a time,   *)
(* one event stream, and a watchdog that gives up at its first failure.     *)
EXTENDS Supervisor
=============================================================================
