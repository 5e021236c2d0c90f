------------------------------ MODULE SyncRunner ------------------------------
(***************************************************************************)
(* The runs of one sync task (internal/syncer/sync_runner.go) over its     *)
(* checkpoint in the store (checkpoint_store.go, the KV bucket of          *)
(* engine/nats/syncer.go).                                                 *)
(*                                                                         *)
(* The source lists the window's N batches in a stable order, as the       *)
(* connector contract asks; a session that resumes after batch k delivers  *)
(* k+1, k+2, ...  Every batch is a job of the executor, and jobs end in    *)
(* any order.  Each call to the store, the source or the database may      *)
(* fail, a write with or without its effect; the run may be cut short      *)
(* anywhere, by its deadline, a shutdown or a crash.  At most one run of   *)
(* the task exists at a time (the claim and the connector lock).           *)
(***************************************************************************)
EXTENDS Naturals

CONSTANTS
    N,            \* batches of the window
    Marked,       \* the batches that carry a checkpoint
    MaxRestarts,  \* MaxAnchorRestartCount
    NoState       \* the store has no checkpoint state

ASSUME RunnerAssumption ==
    N \in Nat /\ Marked \subseteq 1..N /\ MaxRestarts \in Nat

Batches == 1..N

\* The stats count batches; the checkpoint state is the anchor that a session
\* resumes after, the restarts so far, and the stats of what the anchor covers.
Counts == [Batches -> Nat]
States == [anchor : 0..N, restarts : 0..MaxRestarts, counted : Counts]

ASSUME NoStateAssumption == NoState \notin States

VARIABLES
    pc,        \* where the run is
    store,     \* the saved checkpoint state
    mem,       \* the run's checkpointState
    stats,     \* how often the run has counted each batch
    next,      \* the batch the session delivers next
    got,       \* the last batch whose result was collected
    result,    \* what each job returned
    bad,       \* collectResults has seen an error
    lost,      \* NextBatch returned ErrSyncResumeInvalid
    written,   \* the batches whose documents are stored, in this listing
    status,    \* of the row: open (RUNNING for the run), cancel, done
    reported   \* the stats that CompleteSync committed

session == <<next, got, result, bad, lost>>
row     == <<status, reported>>
vars    == <<pc, store, mem, stats, session, written, row>>

None  == [b \in Batches |-> 0]
Fresh == [anchor |-> 0, restarts |-> 0, counted |-> None]

NoResults == [b \in Batches |-> "none"]

\* SaveSyncCheckpoint succeeds and the run goes on at l, or fails, with or without
\* having stored the state, and the run ends.
Save(s, l) ==
    \/ store' = s /\ pc' = l
    \/ store' = s /\ pc' = "idle"
    \/ UNCHANGED store /\ pc' = "idle"

\* The state of a new listing is saved: what was written of an earlier one no longer
\* counts.
Begin(s, l) ==
    /\ Save(s, l)
    /\ written' = IF store' = s THEN {} ELSE written

\* prepareCheckpoint: a run takes up the saved window, or begins one.
Prepare ==
    /\ pc = "idle" /\ status = "open"
    /\ \/ store # NoState /\ mem' = store /\ pc' = "opening" /\ UNCHANGED <<store, written>>
       \/ store = NoState /\ mem' = Fresh /\ Begin(Fresh, "opening")
    /\ UNCHANGED <<stats, session, row>>

\* The session begins after the anchor, the stats are those of the checkpoint.
Reopened ==
    /\ stats' = mem.counted
    /\ next'  = mem.anchor + 1
    /\ got'   = mem.anchor
    /\ result' = NoResults /\ bad' = FALSE /\ lost' = FALSE

\* openSyncSession got a session.
Open ==
    /\ pc = "opening"
    /\ Reopened
    /\ pc' = "reading"
    /\ UNCHANGED <<store, mem, written, row>>

\* Mutant of Reset: the restart is not counted.
ResetUncounted ==
    /\ mem.restarts < MaxRestarts
    /\ mem' = Fresh
    /\ Begin(mem', "opening")

\* resetCheckpointForRestart: the window starts over with another listing.
Reset ==
    /\ mem.restarts < MaxRestarts
    /\ mem' = [anchor |-> 0, restarts |-> mem.restarts + 1, counted |-> None]
    /\ Begin(mem', "opening")

\* OpenSync returned ErrSyncResumeInvalid.
OpenInvalid ==
    /\ pc = "opening"
    /\ Reset
    /\ UNCHANGED <<stats, session, row>>

\* Run's loop: a batch was read and submitted.
NextBatch ==
    /\ pc = "reading" /\ status # "cancel" /\ next \in Batches
    /\ next' = next + 1
    /\ UNCHANGED <<pc, store, mem, stats, got, result, bad, lost, written, row>>

\* NextBatch returned io.EOF.
SourceEnds ==
    /\ pc = "reading" /\ status # "cancel" /\ next = N + 1
    /\ pc' = "ended"
    /\ UNCHANGED <<store, mem, stats, session, written, row>>

\* NextBatch failed, maybe because the anchor is gone.
SourceFails ==
    /\ pc = "reading" /\ status # "cancel"
    /\ pc' = "drain" /\ lost' \in BOOLEAN
    /\ UNCHANGED <<store, mem, stats, next, got, result, bad, written, row>>

\* A submitted job returns: all documents of the batch are stored, or one could not
\* be, after the retries of processDocumentWithRetry.
JobReturns(b) ==
    /\ pc # "idle" /\ got < b /\ b < next /\ result[b] = "none"
    /\ \/ result' = [result EXCEPT ![b] = "ok"] /\ written' = written \cup {b}
       \/ result' = [result EXCEPT ![b] = "failed"] /\ UNCHANGED written
    /\ UNCHANGED <<pc, store, mem, stats, next, got, bad, lost, row>>

\* Mutant of MayCommit: an earlier failure is forgotten.
MayCommitAnyway(b) == result[b] = "ok" /\ b \in Marked

\* collectResults saves the checkpoint of a batch if no error came before it.
MayCommit(b) == ~bad /\ result[b] = "ok" /\ b \in Marked

\* collectResults takes the result of the next batch.
Collect ==
    /\ pc \in {"drain", "ended"} /\ got + 1 < next
    /\ LET b == got + 1
       IN  /\ result[b] # "none"
           /\ got'   = b
           /\ stats' = [stats EXCEPT ![b] = @ + 1]
           /\ bad'   = (bad \/ result[b] = "failed")
           /\ IF MayCommit(b)
              THEN /\ mem' = [mem EXCEPT !.anchor = b, !.counted = stats']
                   /\ Save(mem', pc)
              ELSE UNCHANGED <<mem, store, pc>>
    /\ UNCHANGED <<next, result, lost, written, row>>

\* Mutant of WindowEnds: the error of a job is ignored.
WindowEndsAnyway ==
    /\ pc = "ended" /\ got + 1 = next
    /\ status # "cancel"
    /\ pc' = "committing"
    /\ UNCHANGED <<store, mem, stats, session, written, row>>

\* All results are in, without an error: the window is through, ...
WindowEnds ==
    /\ pc = "ended" /\ got + 1 = next /\ ~bad
    /\ status # "cancel"
    /\ pc' = "committing"
    /\ UNCHANGED <<store, mem, stats, session, written, row>>

\* ... or starts over because the anchor was gone, ...
Restart ==
    /\ pc = "drain" /\ got + 1 = next /\ ~bad /\ lost
    /\ Reset
    /\ UNCHANGED <<stats, session, row>>

\* Mutant of RunFails: the error of a job is returned only if the source failed too.
RunFailsOfSource ==
    /\ \/ pc = "drain" /\ got + 1 = next
       \/ pc = "opening"
    /\ pc' = "idle"
    /\ UNCHANGED <<store, mem, stats, session, written, row>>

\* ... or the run fails, with a job's error, the source's, or for want of budget.
RunFails ==
    /\ \/ pc \in {"drain", "ended"} /\ got + 1 = next /\ (bad \/ pc = "drain")
       \/ pc = "opening"
    /\ pc' = "idle"
    /\ UNCHANGED <<store, mem, stats, session, written, row>>

\* CompleteSync marks a running row done with the stats; on a cancelled row it does
\* nothing, and says nothing.  Its error ends the run, the commit made or not.
CompleteSync ==
    /\ pc = "committing"
    /\ pc' \in {"deleting", "idle"}
    /\ \/ status = "open" /\ status' = "done" /\ reported' = stats
       \/ status = "cancel" /\ UNCHANGED row
       \/ pc' = "idle" /\ UNCHANGED row
    /\ UNCHANGED <<store, mem, stats, session, written>>

\* DeleteSyncCheckpoint, whose error is logged.
DeleteCheckpoint ==
    /\ pc = "deleting"
    /\ store' \in {store, NoState}
    /\ pc' = "idle"
    /\ UNCHANGED <<mem, stats, session, written, row>>

\* The run is cut short: its context ends, it sees that the task was cancelled, the
\* process dies.  What is in memory is gone, the jobs' results with it.
CutShort ==
    /\ pc # "idle"
    /\ pc' = "idle"
    /\ UNCHANGED <<store, mem, stats, session, written, row>>

\* The user cancels the task.
Cancel ==
    /\ status = "open" /\ status' = "cancel"
    /\ UNCHANGED <<pc, store, mem, stats, session, written, reported>>

\* The bucket's TTL drops the state of a task that was not run for a week.
StateExpires ==
    /\ pc = "idle" /\ store # NoState
    /\ store' = NoState
    /\ UNCHANGED <<pc, mem, stats, session, written, row>>

Init ==
    /\ pc = "idle" /\ store = NoState /\ mem = Fresh /\ stats = None
    /\ next = 1 /\ got = 0 /\ result = NoResults /\ bad = FALSE /\ lost = FALSE
    /\ written = {} /\ status = "open" /\ reported = None

Next ==
    \/ Prepare \/ Open \/ OpenInvalid \/ NextBatch \/ SourceEnds \/ SourceFails
    \/ \E b \in Batches : JobReturns(b)
    \/ Collect \/ WindowEnds \/ Restart \/ RunFails \/ CompleteSync \/ DeleteCheckpoint
    \/ CutShort \/ Cancel \/ StateExpires

Spec == Init /\ [][Next]_vars

\* The run's goroutine and the executor's workers are scheduled, and calls return.
\* Nobody has to start a run, cut one short or cancel the task; a cancelled run
\* notices it.
Fairness ==
    /\ WF_vars(Open \/ OpenInvalid \/ NextBatch \/ SourceEnds \/ SourceFails \/ Collect
                \/ WindowEnds \/ Restart \/ RunFails \/ CompleteSync \/ DeleteCheckpoint)
    /\ WF_vars(CutShort /\ status = "cancel")
    /\ \A b \in Batches : WF_vars(JobReturns(b))

FairSpec == Spec /\ Fairness

------------------------------------------------------------------------------
\* Everything has its type.
TypeOK ==
    /\ pc \in {"idle", "opening", "reading", "drain", "ended", "committing", "deleting"}
    /\ store \in States \cup {NoState} /\ mem \in States
    /\ stats \in Counts /\ reported \in Counts
    /\ next \in 1..(N + 1) /\ got \in 0..N
    /\ result \in [Batches -> {"none", "ok", "failed"}]
    /\ bad \in BOOLEAN /\ lost \in BOOLEAN
    /\ written \subseteq Batches
    /\ status \in {"open", "cancel", "done"}

\* The batches up to k, once each.
Upto(k) == [b \in Batches |-> IF b <= k THEN 1 ELSE 0]

\* What a resumed run skips was stored in full: the saved anchor never lies beyond
\* a batch whose job failed, was lost with a crash, or did not end, whatever the
\* order in which jobs end; and the saved stats count each skipped batch once.
CheckpointCovers ==
    store # NoState /\ status # "done" =>
        /\ 1..store.anchor \subseteq written
        /\ store.counted = Upto(store.anchor)

\* A completed task has stored every batch of its window and counts each batch
\* once, over all the runs, resumptions and restarts it took.
CompleteIsWhole == status = "done" => written = Batches /\ reported = Upto(N)

\* A run ends: restarts are bounded by MaxAnchorRestartCount, results arrive, and
\* the reading and collecting loops make progress.
RunEnds == pc # "idle" ~> pc = "idle"

\* The runs and checkpoints implement WindowSync.  The position is the saved anchor.
Window == INSTANCE WindowSync WITH
    position <- IF store = NoState THEN 0 ELSE store.anchor,
    budget   <- IF store = NoState THEN MaxRestarts ELSE MaxRestarts - store.restarts

\* Every step of a run is a step that the checkpoint contract allows.
ImplementsWindow == Window!Spec
==============================================================================
