-------------------------- MODULE MCSchedulerTimers --------------------------
(* Small instances of SchedulerTimers for TLC. *)
EXTENDS SchedulerTimers, TLC
==============================================================================
