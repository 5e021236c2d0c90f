------------------------------ MODULE Ingestor ------------------------------
(***************************************************************************)
(* The ingestor processes (internal/ingestion/service/ingestion_service.go)*)
(* that pull task messages from the JetStream work queue (engine/nats) and *)
(* run the documents' tasks, composed with the API side of                 *)
(* IngestionTaskService.                                                   *)
(*                                                                         *)
(* A process has a pool of workers, an in-process claim set (currentTasks) *)
(* and a shutdown state.  A worker holds one delivered message from        *)
(* hand-off to settlement, and its heartbeat keeps the message invisible   *)
(* for that long; a Lapse is a heartbeat that came too late.  The broker   *)
(* redelivers whatever is neither acknowledged nor held.  The delivery     *)
(* limit of the consumer (16) is taken as never reached.                   *)
(***************************************************************************)
EXTENDS IngestionTaskService

CONSTANTS
    ProcOf,       \* the process of each worker
    MaxLapses     \* bound: heartbeats that miss the ack deadline

ASSUME IngestorAssumption == ProcOf \in [Workers -> Procs] /\ MaxLapses \in Nat

VARIABLES
    held,       \* the message each worker was handed
    owned,      \* the worker holds its process's claim on its task
    cancelled,  \* the per-task context of the worker is cancelled
    term,       \* what the run reported: a terminal status was persisted
    tries,      \* failed attempts of completeTask
    claimed,    \* currentTasks of each process
    proc,       \* down, booting (ScheduleCreatedTasks), up, stopping
    todo,       \* the CREATED tasks the startup pass has yet to publish
    lapses      \* budget spent on late heartbeats

worker    == <<held, owned, cancelled, term, tries>>
process   == <<claimed, proc, todo>>
vars      == <<serviceVars, held, owned, cancelled, term, tries, claimed, proc, todo, lapses>>

\* The parts of the state a step of a worker on its own leaves alone.
elsewhere == <<claimed, proc, todo, lapses, asks>>

\* e.ctx of the worker's process is cancelled, or about to be.
Stopping(w) == proc[ProcOf[w]] = "stopping"

\* A call made under e.ctx fails: an error, or the shutdown.
Fails(w) == Fault \/ (Stopping(w) /\ UNCHANGED faults)

------------------------------------------------------------------------------
(* Process lifecycle. *)

\* Start: InitConsumer, then the ListByStatus of ScheduleCreatedTasks, which may
\* fail without failing the startup.
StartProc(p) ==
    /\ proc[p] = "down"
    /\ proc' = [proc EXCEPT ![p] = "booting"]
    /\ pc'   = [pc EXCEPT ![p] = "Boot"]
    /\ \/ todo' = [todo EXCEPT ![p] = {t \in Tasks : status[t] = "CREATED"}] /\ UNCHANGED faults
       \/ Fault /\ UNCHANGED todo
    /\ UNCHANGED <<db, flag, broker, job, snap, mode, worker, claimed, lapses, asks>>

\* The next task of the startup pass is published; after the last the pool and
\* the dispatcher start.
Boot(p) ==
    /\ pc[p] = "Boot"
    /\ \/ \E t \in todo[p] :
            /\ todo' = [todo EXCEPT ![p] = @ \ {t}]
            /\ job'  = [job EXCEPT ![p] = t]
            /\ pc'   = [pc EXCEPT ![p] = "Publish"]
            /\ UNCHANGED proc
       \/ /\ todo[p] = {}
          /\ proc' = [proc EXCEPT ![p] = "up"]
          /\ pc'   = [pc EXCEPT ![p] = "idle"]
          /\ UNCHANGED <<todo, job>>
    /\ UNCHANGED <<db, flag, broker, snap, mode, worker, claimed, lapses, asks, faults>>

\* Stop: the dispatcher ends, then running tasks are cancelled.
StopProc(p) ==
    /\ proc[p] = "up"
    /\ Fault
    /\ proc' = [proc EXCEPT ![p] = "stopping"]
    /\ UNCHANGED <<db, flag, broker, actor, worker, claimed, todo, lapses, asks>>

\* Every worker has returned.
StopDone(p) ==
    /\ proc[p] = "stopping"
    /\ \A w \in Workers : ProcOf[w] = p => pc[w] = "idle"
    /\ proc' = [proc EXCEPT ![p] = "down"]
    /\ UNCHANGED <<db, flag, broker, actor, worker, claimed, todo, lapses, asks, faults>>

\* The process dies, or Stop gives up at its deadline and abandons the leases: its
\* workers settle nothing more.
Crash(p) ==
    LET Dies(a) == a = p \/ (a \in Workers /\ ProcOf[a] = p) IN
    /\ proc[p] # "down"
    /\ Fault
    /\ proc'    = [proc EXCEPT ![p] = "down"]
    /\ claimed' = [claimed EXCEPT ![p] = {}]
    /\ todo'    = [todo EXCEPT ![p] = {}]
    /\ pc'   = [a \in Actors |-> IF Dies(a) THEN "idle" ELSE pc[a]]
    /\ job'  = [a \in Actors |-> IF Dies(a) THEN NoTask ELSE job[a]]
    /\ snap' = [a \in Actors |-> IF Dies(a) THEN NoLog ELSE snap[a]]
    /\ mode' = [a \in Actors |-> IF Dies(a) THEN "none" ELSE mode[a]]
    /\ held'      = [w \in Workers |-> IF Dies(w) THEN NoMsg ELSE held[w]]
    /\ owned'     = [w \in Workers |-> IF Dies(w) THEN FALSE ELSE owned[w]]
    /\ cancelled' = [w \in Workers |-> IF Dies(w) THEN FALSE ELSE cancelled[w]]
    /\ term'      = [w \in Workers |-> IF Dies(w) THEN FALSE ELSE term[w]]
    /\ tries'     = [w \in Workers |-> IF Dies(w) THEN 0 ELSE tries[w]]
    /\ UNCHANGED <<db, flag, broker, lapses, asks>>

------------------------------------------------------------------------------
(* The broker. *)

\* consumeLoop: an idle worker is paired with one pulled message.
Deliver(w, m) ==
    /\ proc[ProcOf[w]] = "up"
    /\ pc[w] = "idle"
    /\ mstate[m] = "queued"
    /\ mstate' = [mstate EXCEPT ![m] = "inflight"]
    /\ held'   = [held EXCEPT ![w] = m]
    /\ job'    = [job EXCEPT ![w] = mtask[m]]
    /\ pc'     = [pc EXCEPT ![w] = "StartRunning"]
    /\ UNCHANGED <<db, flag, mtask, snap, mode, owned, cancelled, term, tries, elsewhere, faults>>

\* The ack deadline passes and nobody renews it.
Expire(m) ==
    /\ mstate[m] = "inflight"
    /\ \A w \in Workers : held[w] # m
    /\ mstate' = [mstate EXCEPT ![m] = "queued"]
    /\ UNCHANGED <<db, flag, mtask, actor, worker, elsewhere, faults>>

\* The ack deadline passes although a worker is still renewing it: a stalled
\* process, a slow network, or the time between Heartbeat.Stop and settlement.
Lapse(m) ==
    /\ mstate[m] = "inflight"
    /\ \E w \in Workers : held[w] = m
    /\ lapses < MaxLapses
    /\ lapses' = lapses + 1
    /\ mstate' = [mstate EXCEPT ![m] = "queued"]
    /\ UNCHANGED <<db, flag, mtask, actor, worker, process, asks, faults>>

------------------------------------------------------------------------------
(* handleAndExecute: StartRunning and the claim. *)

\* GetTask, and the switch on the status it returned
StartRunning(w) ==
    /\ pc[w] = "StartRunning"
    /\ LET t == job[w]
           s == status[t] IN
       \/ s \notin Statuses /\ Goto(w, "Ack") /\ UNCHANGED faults
       \/ s \in {"CREATED", "SCHEDULED"} /\ Goto(w, "StartCAS") /\ UNCHANGED faults
       \/ s = "STOPPING" /\ Goto(w, "StartStop") /\ UNCHANGED faults
       \/ /\ s = "RUNNING"
          /\ snap' = [snap EXCEPT ![w] = bound[t]]
          /\ pc'   = [pc EXCEPT ![w] = "Claim"]
          /\ UNCHANGED <<job, mode, faults>>
       \/ isTerminal(s) /\ Goto(w, "Ack") /\ UNCHANGED faults
       \/ Fails(w) /\ Goto(w, "Nack")
    /\ UNCHANGED <<db, flag, broker, worker, elsewhere>>

\* transitionFrom CREATED or SCHEDULED to RUNNING
StartCAS(w) ==
    /\ pc[w] = "StartCAS"
    /\ LET t == job[w] IN
       \/ /\ UpdateStatusIfCurrent(t, {"CREATED", "SCHEDULED"}, "RUNNING")
          /\ Goto(w, "StartReread")
          /\ UNCHANGED faults
       \/ /\ status[t] \notin {"CREATED", "SCHEDULED"}
          /\ Goto(w, IF status[t] \in Statuses THEN "Nack" ELSE "Ack")
          /\ UNCHANGED <<status, faults>>
       \/ Fails(w) /\ Goto(w, "Nack") /\ UNCHANGED status
    /\ UNCHANGED <<bound, logs, flag, broker, worker, elsewhere>>

\* The GetTask that ends transitionFrom gives the copy the whole run uses; the
\* open row is advanced, and handleAndExecute switches on the copy's status.
StartReread(w) ==
    /\ pc[w] = "StartReread"
    /\ LET t == job[w]
           s == status[t] IN
       \/ /\ s \in Statuses
          /\ \/ /\ advanceOpenLog(t, bound[t], s, {"unstart", "schedule"}, "running", TRUE)
                /\ UNCHANGED faults
             \/ Fault /\ UNCHANGED <<logs, bound>>
          /\ snap' = [snap EXCEPT ![w] =
                        IF bound[t] # NoLog THEN bound[t] ELSE CopyAfter(t, NoLog)]
          /\ pc' = [pc EXCEPT ![w] = IF s = "RUNNING" THEN "Claim" ELSE "Ack"]
          /\ UNCHANGED <<job, mode>>
       \/ s \notin Statuses /\ Goto(w, "Ack") /\ UNCHANGED <<logs, bound, faults>>
       \/ Fails(w) /\ Goto(w, "Nack") /\ UNCHANGED <<logs, bound>>
    /\ UNCHANGED <<status, flag, broker, worker, elsewhere>>

\* The STOPPING branch: the stop is finished here, without running the task.
StartStop(w) ==
    /\ pc[w] = "StartStop"
    /\ LET t == job[w] IN
       \/ /\ transition(t, "STOPPED")
          /\ snap' = [snap EXCEPT ![w] = bound[t]]
          /\ pc'   = [pc EXCEPT ![w] = "StartStopLog"]
          /\ UNCHANGED <<job, mode, faults>>
       \/ /\ transitionRefused(t, "STOPPED")
          /\ Goto(w, IF status[t] \in Statuses THEN "Nack" ELSE "Ack")
          /\ UNCHANGED faults
       \/ Fails(w) /\ Goto(w, "Nack") /\ UNCHANGED status
    /\ UNCHANGED <<bound, logs, flag, broker, worker, elsewhere>>

\* clearCancelFlag, and the log write that closes the run's row
StartStopLog(w) ==
    /\ pc[w] = "StartStopLog"
    /\ flag' = [flag EXCEPT ![job[w]] = FALSE]
    /\ \/ /\ logs' = AdvanceOpenLog(logs, snap[w], OpenPipelineOperationStatuses, "cancel")
          /\ UNCHANGED faults
       \/ Fails(w) /\ UNCHANGED logs
    /\ Goto(w, "Ack")
    /\ UNCHANGED <<status, bound, broker, worker, elsewhere>>

\* The worker is idle again.
Rest(w) ==
    /\ pc'   = [pc EXCEPT ![w] = "idle"]
    /\ job'  = [job EXCEPT ![w] = NoTask]
    /\ snap' = [snap EXCEPT ![w] = NoLog]
    /\ mode' = [mode EXCEPT ![w] = "none"]
    /\ held'      = [held EXCEPT ![w] = NoMsg]
    /\ owned'     = [owned EXCEPT ![w] = FALSE]
    /\ cancelled' = [cancelled EXCEPT ![w] = FALSE]
    /\ term'      = [term EXCEPT ![w] = FALSE]
    /\ tries'     = [tries EXCEPT ![w] = 0]

\* Mutant of Claim: the task is taken whether or not another worker has it.
ClaimAnyway(w) ==
    /\ pc[w] = "Claim"
    /\ claimed' = [claimed EXCEPT ![ProcOf[w]] = @ \cup {job[w]}]
    /\ owned'   = [owned EXCEPT ![w] = TRUE]
    /\ Goto(w, "PreCheck")
    /\ UNCHANGED <<db, flag, broker, held, cancelled, term, tries, proc, todo, lapses, asks, faults>>

\* claimTask.  A second copy of a claimed task is renewed and left unsettled.
Claim(w) ==
    /\ pc[w] = "Claim"
    /\ LET p == ProcOf[w] IN
       \/ /\ job[w] \notin claimed[p]
          /\ claimed' = [claimed EXCEPT ![p] = @ \cup {job[w]}]
          /\ owned'   = [owned EXCEPT ![w] = TRUE]
          /\ Goto(w, "PreCheck")
          /\ UNCHANGED <<held, cancelled, term, tries>>
       \/ job[w] \in claimed[p] /\ Rest(w) /\ UNCHANGED claimed
    /\ UNCHANGED <<db, flag, broker, proc, todo, lapses, asks, faults>>

------------------------------------------------------------------------------
(* runTask. *)

\* defaultCancelCheck: the Redis key, else STOPPING in the database
cancelCheck(t) == flag[t] \/ status[t] = "STOPPING"

\* The check before the pipeline starts, and the first select of runTask.
PreCheck(w) ==
    /\ pc[w] = "PreCheck"
    /\ \/ /\ cancelCheck(job[w])
          /\ cancelled' = [cancelled EXCEPT ![w] = TRUE]
          /\ mode' = [mode EXCEPT ![w] = "cancel"]
          /\ pc' = [pc EXCEPT ![w] = IF Stopping(w) THEN "Settle" ELSE "RequestStop"]
       \/ /\ ~ cancelCheck(job[w])
          /\ pc' = [pc EXCEPT ![w] = "Prepare"]
          /\ UNCHANGED <<cancelled, mode>>
       \/ /\ Stopping(w)
          /\ pc' = [pc EXCEPT ![w] = "Settle"]
          /\ UNCHANGED <<cancelled, mode>>
    /\ UNCHANGED <<db, flag, broker, job, snap, held, owned, term, tries, elsewhere, faults>>

\* IncrementRunCount, the checkpoint lookup and ClearComponentProgress: one of
\* them fails and so does the task, or the cancel key is cleared as stale (with
\* the run's context, so not once that is cancelled).
Prepare(w) ==
    /\ pc[w] = "Prepare"
    /\ \/ /\ flag' = IF cancelled[w] THEN flag ELSE [flag EXCEPT ![job[w]] = FALSE]
          /\ Goto(w, "Exec")
          /\ UNCHANGED faults
       \/ /\ Fault
          /\ mode' = [mode EXCEPT ![w] = "fail"]
          /\ pc'   = [pc EXCEPT ![w] = "MarkFailed"]
          /\ UNCHANGED <<flag, job, snap>>
    /\ UNCHANGED <<db, broker, worker, elsewhere>>

\* pollCancel runs beside the pipeline until executeTask returns.
PollCancel(w) ==
    /\ pc[w] \in {"Prepare", "Exec", "Complete", "CompleteCAS", "SettleTerminal"}
    /\ ~ cancelled[w]
    /\ cancelCheck(job[w])
    /\ cancelled' = [cancelled EXCEPT ![w] = TRUE]
    /\ UNCHANGED <<db, flag, broker, actor, held, owned, term, tries, elsewhere, faults>>

\* recordPipelineLog for the row l of the caller's copy.  Without one it adopts
\* the newest open row nobody live owns, or inserts a closed one.
recordPipelineLog(l, to) ==
    LET open == GetOpenLogByDocumentID(logs)
        free == {k \in open : ~ HasLiveTaskOwner(k)} IN
    \/ l # NoLog /\ logs' = AdvanceOpenLog(logs, l, OpenPipelineOperationStatuses, to)
    \/ /\ l = NoLog
       /\ \E k \in free : logs' = AdvanceOpenLog(logs, k, OpenPipelineOperationStatuses, to)
    \/ /\ l = NoLog /\ free = {}
       /\ \E n \in NextLogId(logs) : logs' = [logs EXCEPT ![n] = to]

\* The pipeline ran to its end: Execute closes the row as DONE before the task
\* itself is marked.
ExecDone(w) ==
    /\ pc[w] = "Exec"
    /\ \/ recordPipelineLog(snap[w], "done") /\ UNCHANGED faults
       \/ Fault /\ UNCHANGED logs
    /\ Goto(w, "Complete")
    /\ UNCHANGED <<status, bound, flag, broker, worker, elsewhere>>

\* The pipeline failed or timed out.
ExecFail(w) ==
    /\ pc[w] = "Exec"
    /\ mode' = [mode EXCEPT ![w] = "fail"]
    /\ pc'   = [pc EXCEPT ![w] = "MarkFailed"]
    /\ UNCHANGED <<job, snap, db, flag, broker, worker, elsewhere, faults>>

\* The pipeline panicked; settleMessage recovers.
ExecPanic(w) ==
    /\ pc[w] = "Exec"
    /\ Fault
    /\ mode' = [mode EXCEPT ![w] = "panic"]
    /\ pc'   = [pc EXCEPT ![w] = "MarkFailed"]
    /\ UNCHANGED <<job, snap, db, flag, broker, worker, elsewhere>>

\* The pipeline returned context.Canceled: the task was cancelled or the process
\* is shutting down.
ExecCancelled(w) ==
    /\ pc[w] = "Exec"
    /\ cancelled[w] \/ Stopping(w)
    /\ mode' = [mode EXCEPT ![w] = "cancel"]
    /\ pc'   = [pc EXCEPT ![w] = IF Stopping(w) THEN "Settle" ELSE "RequestStop"]
    /\ UNCHANGED <<job, snap, db, flag, broker, worker, elsewhere, faults>>

------------------------------------------------------------------------------
(* completeTask, markStopped, markFailed. *)

\* backoff.WithMaxTries
MaxTries == 3

\* GetTask of MarkCompleted, under the run's context
Complete(w) ==
    /\ pc[w] = "Complete"
    /\ LET s == status[job[w]] IN
       \/ /\ ~ cancelled[w] /\ isTerminal(s)
          /\ term' = [term EXCEPT ![w] = TRUE]
          /\ Goto(w, "Settle")
          /\ UNCHANGED faults
       \/ /\ ~ cancelled[w] /\ s \in ActiveTaskStatuses
          /\ Goto(w, "CompleteCAS")
          /\ UNCHANGED <<term, faults>>
       \/ /\ \/ (s \notin Statuses \/ cancelled[w]) /\ UNCHANGED faults
             \/ Fails(w)
          /\ Goto(w, "CompleteFailed")
          /\ UNCHANGED term
    /\ UNCHANGED <<db, flag, broker, held, owned, cancelled, tries, elsewhere>>

\* transition to COMPLETED; a refusal is settled by the status the task has now.
CompleteCAS(w) ==
    /\ pc[w] = "CompleteCAS"
    /\ \/ /\ ~ cancelled[w]
          /\ transition(job[w], "COMPLETED")
          /\ term' = [term EXCEPT ![w] = TRUE]
          /\ Goto(w, "Settle")
          /\ UNCHANGED faults
       \/ /\ ~ cancelled[w]
          /\ transitionRefused(job[w], "COMPLETED")
          /\ Goto(w, IF status[job[w]] \in Statuses THEN "SettleTerminal" ELSE "CompleteFailed")
          /\ UNCHANGED <<term, faults>>
       \/ /\ (cancelled[w] /\ UNCHANGED faults) \/ Fails(w)
          /\ Goto(w, "CompleteFailed")
          /\ UNCHANGED <<status, term>>
    /\ UNCHANGED <<bound, logs, flag, broker, held, owned, cancelled, tries, elsewhere>>

\* settleToTerminal
SettleTerminal(w) ==
    /\ pc[w] = "SettleTerminal"
    /\ LET s == status[job[w]] IN
       \/ /\ ~ cancelled[w] /\ s = "STOPPING"
          /\ mode' = [mode EXCEPT ![w] = "settle"]
          /\ pc'   = [pc EXCEPT ![w] = "RequestStop"]
          /\ UNCHANGED <<job, snap, term, faults>>
       \/ /\ ~ cancelled[w] /\ isTerminal(s)
          /\ term' = [term EXCEPT ![w] = TRUE]
          /\ Goto(w, "Settle")
          /\ UNCHANGED faults
       \/ /\ \/ s \notin {"STOPPING", "COMPLETED", "STOPPED", "FAILED"} /\ UNCHANGED faults
             \/ cancelled[w] /\ UNCHANGED faults
             \/ Fails(w)
          /\ Goto(w, "CompleteFailed")
          /\ UNCHANGED term
    /\ UNCHANGED <<db, flag, broker, held, owned, cancelled, tries, elsewhere>>

\* backoff.Retry: another attempt, or the error is returned.
CompleteFailed(w) ==
    /\ pc[w] = "CompleteFailed"
    /\ \/ /\ tries[w] + 1 < MaxTries /\ ~ cancelled[w]
          /\ tries' = [tries EXCEPT ![w] = @ + 1]
          /\ Goto(w, "Complete")
       \/ /\ tries[w] + 1 = MaxTries \/ cancelled[w] \/ Stopping(w)
          /\ Goto(w, "Settle")
          /\ UNCHANGED tries
    /\ UNCHANGED <<db, flag, broker, held, owned, cancelled, term, elsewhere, faults>>

\* GetTask of MarkStopped
MarkStopped(w) ==
    /\ pc[w] = "MarkStopped"
    /\ LET s == status[job[w]] IN
       \/ isTerminal(s) /\ Goto(w, "ClearFlag") /\ UNCHANGED faults
       \/ s \in ActiveTaskStatuses /\ Goto(w, "MarkStoppedCAS") /\ UNCHANGED faults
       \/ s \notin Statuses /\ StopAnswer(w, FALSE) /\ UNCHANGED faults
       \/ Fault /\ StopAnswer(w, FALSE)
    /\ UNCHANGED <<db, flag, broker, worker, elsewhere>>

MarkStoppedCAS(w) ==
    /\ pc[w] = "MarkStoppedCAS"
    /\ \/ transition(job[w], "STOPPED") /\ Goto(w, "ClearFlag") /\ UNCHANGED faults
       \/ transitionRefused(job[w], "STOPPED") /\ StopAnswer(w, FALSE) /\ UNCHANGED faults
       \/ Fault /\ StopAnswer(w, FALSE) /\ UNCHANGED status
    /\ UNCHANGED <<bound, logs, flag, broker, worker, elsewhere>>

\* The end of markStopped: the Redis key goes, and the stop is durable.
ClearFlag(w) ==
    /\ pc[w] = "ClearFlag"
    /\ flag' = [flag EXCEPT ![job[w]] = FALSE]
    /\ term' = [term EXCEPT ![w] = TRUE]
    /\ Goto(w, IF mode[w] = "cancel" THEN "TerminalLog" ELSE "Settle")
    /\ UNCHANGED <<db, broker, held, owned, cancelled, tries, elsewhere, faults>>

\* GetTask of MarkFailed
MarkFailed(w) ==
    /\ pc[w] = "MarkFailed"
    /\ LET s == status[job[w]] IN
       \/ /\ isTerminal(s)
          /\ term' = IF mode[w] = "fail" THEN [term EXCEPT ![w] = TRUE] ELSE term
          /\ Goto(w, IF mode[w] = "fail" THEN "TerminalLog" ELSE "Settle")
          /\ UNCHANGED faults
       \/ s \in ActiveTaskStatuses /\ Goto(w, "MarkFailedCAS") /\ UNCHANGED <<term, faults>>
       \/ s \notin Statuses /\ Goto(w, "Settle") /\ UNCHANGED <<term, faults>>
       \/ Fault /\ Goto(w, "Settle") /\ UNCHANGED term
    /\ UNCHANGED <<db, flag, broker, held, owned, cancelled, tries, elsewhere>>

MarkFailedCAS(w) ==
    /\ pc[w] = "MarkFailedCAS"
    /\ \/ /\ transition(job[w], "FAILED")
          /\ term' = IF mode[w] = "fail" THEN [term EXCEPT ![w] = TRUE] ELSE term
          /\ Goto(w, IF mode[w] = "fail" THEN "TerminalLog" ELSE "Settle")
          /\ UNCHANGED faults
       \/ transitionRefused(job[w], "FAILED") /\ Goto(w, "Settle") /\ UNCHANGED <<term, faults>>
       \/ Fault /\ Goto(w, "Settle") /\ UNCHANGED <<status, term>>
    /\ UNCHANGED <<bound, logs, flag, broker, held, owned, cancelled, tries, elsewhere>>

\* recordTerminalPipelineLog, after a durable stop or failure
TerminalLog(w) ==
    /\ pc[w] = "TerminalLog"
    /\ \/ /\ recordPipelineLog(snap[w], IF mode[w] = "cancel" THEN "cancel" ELSE "fail")
          /\ UNCHANGED faults
       \/ Fault /\ UNCHANGED logs
    /\ Goto(w, "Settle")
    /\ UNCHANGED <<status, bound, flag, broker, worker, elsewhere>>

------------------------------------------------------------------------------
(* settleMessage: the database decides, the run's own report only if the      *)
(* database does not answer.                                                  *)

Settle(w) ==
    /\ pc[w] = "Settle"
    /\ LET s == status[job[w]] IN
       \/ s \in Statuses /\ Goto(w, IF isTerminal(s) THEN "Ack" ELSE "Nack") /\ UNCHANGED faults
       \/ s \notin Statuses /\ Goto(w, IF term[w] THEN "Ack" ELSE "Nack") /\ UNCHANGED faults
       \/ Fails(w) /\ Goto(w, IF term[w] THEN "Ack" ELSE "Nack")
    /\ UNCHANGED <<db, flag, broker, worker, elsewhere>>

\* Mutant of releaseTask: only a run that reported a terminal status gives its claim up.
releaseIfDone(w) ==
    claimed' = IF owned[w] /\ term[w] THEN [claimed EXCEPT ![ProcOf[w]] = @ \ {job[w]}] ELSE claimed

\* The claim goes with the worker: releaseTask is deferred to the very end.
releaseTask(w) ==
    claimed' = IF owned[w] THEN [claimed EXCEPT ![ProcOf[w]] = @ \ {job[w]}] ELSE claimed

\* The message leaves the work queue, or the acknowledgement is lost.
Ack(w) ==
    /\ pc[w] = "Ack"
    /\ \/ mstate' = [mstate EXCEPT ![held[w]] = "acked"] /\ UNCHANGED faults
       \/ Fault /\ UNCHANGED mstate
    /\ releaseTask(w)
    /\ Rest(w)
    /\ UNCHANGED <<db, flag, mtask, proc, todo, lapses, asks>>

\* The message becomes deliverable at once.
Nack(w) ==
    /\ pc[w] = "Nack"
    /\ \/ /\ mstate' = [mstate EXCEPT ![held[w]] = IF @ = "acked" THEN @ ELSE "queued"]
          /\ UNCHANGED faults
       \/ Fault /\ UNCHANGED mstate
    /\ releaseTask(w)
    /\ Rest(w)
    /\ UNCHANGED <<db, flag, mtask, proc, todo, lapses, asks>>

------------------------------------------------------------------------------

Init ==
    /\ ServiceInit
    /\ held      = [w \in Workers |-> NoMsg]
    /\ owned     = [w \in Workers |-> FALSE]
    /\ cancelled = [w \in Workers |-> FALSE]
    /\ term      = [w \in Workers |-> FALSE]
    /\ tries     = [w \in Workers |-> 0]
    /\ claimed   = [p \in Procs |-> {}]
    /\ proc      = [p \in Procs |-> "down"]
    /\ todo      = [p \in Procs |-> {}]
    /\ lapses    = 0

Client(c) == ClientStep(c) /\ UNCHANGED <<worker, process, lapses>>

\* ScheduleCreatedTasks uses the service's own publishing steps.
Scheduling(p) ==
    /\ Publish(p) \/ MarkScheduled(p) \/ ScheduledLog(p)
    /\ UNCHANGED <<worker, process, lapses>>

\* The worker inside the service's RequestStop.
Stops(w) ==
    /\ \/ RequestStop(w) \/ StopQueued(w) \/ StopQueuedLog(w)
       \/ StopRunning(w) \/ StopFlag(w)
    /\ UNCHANGED <<worker, process, lapses>>

Work(w) ==
    \/ StartRunning(w) \/ StartCAS(w) \/ StartReread(w) \/ StartStop(w) \/ StartStopLog(w)
    \/ Claim(w) \/ PreCheck(w) \/ Prepare(w)
    \/ ExecDone(w) \/ ExecFail(w) \/ ExecPanic(w) \/ ExecCancelled(w)
    \/ Complete(w) \/ CompleteCAS(w) \/ SettleTerminal(w) \/ CompleteFailed(w)
    \/ Stops(w) \/ MarkStopped(w) \/ MarkStoppedCAS(w) \/ ClearFlag(w)
    \/ MarkFailed(w) \/ MarkFailedCAS(w) \/ TerminalLog(w)
    \/ Settle(w) \/ Ack(w) \/ Nack(w)

Next ==
    \/ \E c \in Clients : Client(c)
    \/ \E p \in Procs : StartProc(p) \/ Boot(p) \/ Scheduling(p) \/ StopProc(p) \/ StopDone(p) \/ Crash(p)
    \/ \E w \in Workers : Work(w) \/ PollCancel(w) \/ \E m \in MsgIds : Deliver(w, m)
    \/ \E m \in MsgIds : Expire(m) \/ Lapse(m)

Spec == Init /\ [][Next]_vars

------------------------------------------------------------------------------
(* Fairness.  Faults and requests are never owed.  A started worker or request *)
(* runs on, the supervisor restarts a process, an expired lease is noticed,    *)
(* and JetStream hands out every deliverable message again and again.          *)

Fairness ==
    /\ \A c \in Clients : WF_vars(pc[c] # "idle" /\ Client(c))
    /\ \A p \in Procs : WF_vars(StartProc(p) \/ Boot(p) \/ Scheduling(p) \/ StopDone(p))
    /\ \A w \in Workers : WF_vars(Work(w)) /\ WF_vars(PollCancel(w))
    /\ \A m \in MsgIds : WF_vars(Expire(m)) /\ SF_vars(\E w \in Workers : Deliver(w, m))

FairSpec == Spec /\ Fairness

------------------------------------------------------------------------------
(* Properties. *)

WorkerLabels ==
    {"StartRunning", "StartCAS", "StartReread", "StartStop", "StartStopLog", "Claim", "Ack", "Nack"}

\* Where a worker is between its claim and the settlement of its message.
RunLabels ==
    {"PreCheck", "Prepare", "Exec", "Complete", "CompleteCAS", "SettleTerminal", "CompleteFailed",
     "RequestStop", "StopQueued", "StopQueuedLog", "StopRunning", "StopFlag",
     "MarkStopped", "MarkStoppedCAS", "ClearFlag", "MarkFailed", "MarkFailedCAS", "TerminalLog",
     "Settle"}

ClientLabels ==
    {"ParseRead", "Create", "Retry", "RetryFlag", "OpenLog", "Publish", "MarkScheduled",
     "ScheduledLog", "DropLog", "Rollback", "RequestStop", "StopQueued", "StopQueuedLog",
     "StopRunning", "StopFlag", "Delete", "ClearDelete"}

Labels == {"idle", "Boot"} \cup ClientLabels \cup WorkerLabels \cup RunLabels

\* The shape of the state the service and the ingestors share.
ServiceTypeOK ==
    /\ status \in [Tasks -> RowStates]
    /\ bound \in [Tasks -> LogIds \cup {NoLog}]
    /\ logs \in [LogIds -> LogStates]
    /\ flag \in [Tasks -> BOOLEAN]
    /\ mstate \in [MsgIds -> MsgStates]
    /\ mtask \in [MsgIds -> Tasks \cup {NoTask}]
    /\ pc \in [Actors -> Labels]
    /\ job \in [Actors -> Tasks \cup {NoTask}]
    /\ snap \in [Actors -> LogIds \cup {NoLog}]
    /\ mode \in [Actors -> Modes]
    /\ faults \in 0 .. MaxFaults
    /\ asks \in 0 .. MaxAsks

\* The shape of the ingestors' own state.
IngestorTypeOK ==
    /\ held \in [Workers -> MsgIds \cup {NoMsg}]
    /\ owned \in [Workers -> BOOLEAN]
    /\ cancelled \in [Workers -> BOOLEAN]
    /\ term \in [Workers -> BOOLEAN]
    /\ tries \in [Workers -> 0 .. MaxTries - 1]
    /\ claimed \in [Procs -> SUBSET Tasks]
    /\ proc \in [Procs -> {"down", "booting", "up", "stopping"}]
    /\ todo \in [Procs -> SUBSET Tasks]
    /\ lapses \in 0 .. MaxLapses

\* Every variable has its type through every error path and rollback: in
\* particular rollbackRetriedTask only ever writes a task status.
TypeOK == ServiceTypeOK /\ IngestorTypeOK

InRun(w) == pc[w] \in RunLabels

\* claimTask: whatever the broker redelivers, and however statuses change under
\* the workers, one process never has two workers in runs of the same task.
ClaimExclusive ==
    \A v, w \in Workers :
        v # w /\ ProcOf[v] = ProcOf[w] /\ InRun(v) /\ InRun(w) => job[v] # job[w]

\* releaseTask: every claim belongs to a worker of the process, so no path out
\* of a run leaks a claim that would make each redelivery a duplicate for ever.
ClaimsHaveOwners ==
    \A p \in Procs : \A t \in claimed[p] :
        \E w \in Workers : ProcOf[w] = p /\ owned[w] /\ job[w] = t

\* Unsettled messages of a task.
Backing(t) == {m \in MsgIds : mtask[m] = t /\ mstate[m] \in {"queued", "inflight"}}

\* settleMessage and enqueueTask: a task that waits for a worker or is being run
\* has an unsettled message behind it, so a crash at any point leads to a
\* redelivery and not to a task nobody will ever pick up.
RunsAreBacked ==
    \A t \in Tasks : status[t] \in {"SCHEDULED", "RUNNING"} => Backing(t) # {}

\* createOpenLogBestEffort: the document never has two open rows, whichever
\* requests, workers and startup passes open, adopt and drop them concurrently.
OneOpenLog == \A k, l \in OpenLogs(logs) : k = l

LogRank(s) ==
    CASE s = "free" -> 0 [] s = "unstart" -> 1 [] s = "schedule" -> 2 [] s = "running" -> 3
      [] OTHER -> 4

\* AdvanceOpenLog, DeleteOpenLogByID, recordPipelineLog: a row only moves forward
\* (queued, scheduled, running, closed), and a closed row is history: it is never
\* reopened, rewritten or deleted.
LogsMoveForward ==
    [][\A l \in LogIds :
         /\ LogRank(logs[l]) <= LogRank(logs'[l])
         /\ logs[l] \in ClosedStatuses => logs'[l] = logs[l]]_logs

Lifecycle == INSTANCE TaskLifecycle WITH
    Ids <- Tasks, Unguarded <- "delete" \in Ops, row <- status

\* The whole system, requests, workers, redeliveries and crashes together, moves
\* the row as TaskLifecycle promises.
LifecycleSpec == Lifecycle!Spec

\* consumeLoop, handleAndExecute, settleMessage: a task that is scheduled or
\* running does not stay so for ever.
RunsEnd ==
    \A t \in Tasks :
        status[t] \in {"SCHEDULED", "RUNNING"} ~> status[t] \notin {"SCHEDULED", "RUNNING"}

------------------------------------------------------------------------------
(* What comments of the code say and the code does not do: see the README,
   section 3.  A run checks the first. *)

\* A task asked to stop still has a message behind it.
StopsAreBacked ==
    \A t \in Tasks : status[t] = "STOPPING" => Backing(t) # {}

\* No second copy of a task executes while the first owner is active.
OneExecutor ==
    \A v, w \in Workers : v # w /\ InRun(v) /\ InRun(w) => job[v] # job[w]

\* No two workers write the results of the document at the same time.
OneWriter ==
    \A v, w \in Workers : v # w => ~ (pc[v] = "Exec" /\ pc[w] = "Exec")

\* Nothing is going on and nothing is going to happen.
Quiescent ==
    /\ \A a \in Actors : pc[a] = "idle"
    /\ \A m \in MsgIds : mstate[m] \in {"free", "acked"}

\* No row stays open for ever: once everything has come to rest, an open row
\* belongs to a live task.
NoRowLeftOpen == Quiescent => \A l \in OpenLogs(logs) : HasLiveTaskOwner(l)

\* A worker gives a run up only if somebody asked to stop that run.
CancelIsRequested ==
    \A w \in Workers : pc[w] = "RequestStop" /\ mode[w] = "cancel" => status[job[w]] # "RUNNING"

\* A message whose task panicked is given back, not acknowledged.
PanicIsRedelivered ==
    \A w \in Workers : pc[w] = "Ack" => mode[w] # "panic"

=============================================================================
