---------------------------- MODULE MCJobExecutor ----------------------------
(* A small instance of JobExecutor for TLC. *)
EXTENDS JobExecutor, TLC

CONSTANTS t1, t2, w1
==============================================================================
