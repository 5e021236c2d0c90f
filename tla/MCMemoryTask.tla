---------------------------- MODULE MCMemoryTask ----------------------------
(* Instances of MemoryTask; the constants are in the .cfg files. *)
EXTENDS MemoryTask, TLC
=============================================================================
