------------------------------ MODULE WindowSync ------------------------------
(***************************************************************************)
(* What the checkpoints of a sync task promise (internal/syncer/README.md, *)
(* "Checkpoint and resume").  The batches of a window are written in any   *)
(* order; the resume position moves forward over written batches only; the *)
(* task completes once, when every batch of the window is written and      *)
(* counted once.  A lost resume anchor starts the window over, within a    *)
(* budget, and a lost checkpoint starts another window.                    *)
(***************************************************************************)
EXTENDS Naturals

CONSTANTS
    N,           \* batches of the window
    MaxRestarts  \* MaxAnchorRestartCount

VARIABLES
    position,   \* batches that a resumed run skips
    budget,     \* times the window may still start over
    written,    \* batches whose documents are stored
    status,     \* of the task: open, cancel, done
    reported    \* how often each batch is counted in the completed task

vars == <<position, budget, written, status, reported>>

Batches == 1..N

Init ==
    /\ position = 0 /\ budget = MaxRestarts /\ written = {}
    /\ status = "open" /\ reported = [b \in Batches |-> 0]

Write ==
    /\ \E b \in Batches : written' = written \cup {b}
    /\ UNCHANGED <<position, budget, status, reported>>

Commit ==
    /\ \E k \in Batches : k > position /\ 1..k \subseteq written /\ position' = k
    /\ UNCHANGED <<budget, written, status, reported>>

StartOver ==
    /\ budget > 0 /\ status # "done"
    /\ budget' = budget - 1 /\ position' = 0 /\ written' = {}
    /\ UNCHANGED <<status, reported>>

\* A run that finds no checkpoint begins another window.
NewWindow ==
    /\ status # "done" /\ position = 0 /\ budget = MaxRestarts
    /\ written' = {}
    /\ UNCHANGED <<position, budget, status, reported>>

Complete ==
    /\ status = "open" /\ written = Batches
    /\ status' = "done" /\ reported' = [b \in Batches |-> 1]
    /\ UNCHANGED <<position, budget, written>>

Cancel ==
    /\ status = "open" /\ status' = "cancel"
    /\ UNCHANGED <<position, budget, written, reported>>

\* The checkpoint is dropped: a later run of the task would be another window.
Forget ==
    /\ position' = 0 /\ budget' = MaxRestarts
    /\ UNCHANGED <<written, status, reported>>

Next == Write \/ Commit \/ StartOver \/ NewWindow \/ Complete \/ Cancel \/ Forget

Spec == Init /\ [][Next]_vars
==============================================================================
