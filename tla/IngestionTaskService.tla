------------------------ MODULE IngestionTaskService ------------------------
(***************************************************************************)
(* The ingestion task of one document, as the API servers drive it         *)
(* (internal/service/ingestion_task_service.go, dao/ingestion.go and the   *)
(* callers in internal/service/document).                                  *)
(*                                                                         *)
(* Every SQL statement, Redis command and broker publish is one step; what *)
(* a caller read earlier is kept in job, snap and mode and may be stale    *)
(* when it is used.  The exceptions are named where they are made.  The    *)
(* unique index on ingestion_task.document_id makes documents independent  *)
(* of each other, so the module follows one document: Tasks are the ids    *)
(* its successive rows may get.                                            *)
(***************************************************************************)
EXTENDS PipelineLog

CONSTANTS
    Tasks, NoTask,    \* task ids (UUIDs) of the document, and "no task"
    MsgIds,           \* stream sequence numbers of the broker
    Clients,          \* requests in flight on the API servers
    Procs, Workers,   \* ingestor processes and their pool workers
    Ops,              \* the requests the clients may make
    MaxAsks,          \* bound: requests made in all
    MaxFaults         \* bound: errors, lost answers and crashes in all

ASSUME ServiceAssumption ==
    /\ NoTask \notin Tasks
    /\ MsgIds \subseteq Nat \ {0}
    /\ MaxAsks \in Nat /\ MaxFaults \in Nat
    /\ Clients \cap Procs = {} /\ Clients \cap Workers = {} /\ Procs \cap Workers = {}
    /\ Ops \subseteq {"parse", "reparse", "stop", "remove", "delete"}

VARIABLES
    status,   \* ingestion_task.status of each id
    bound,    \* ingestion_task.pipeline_log_id
    logs,     \* the document's pipeline_operation_log rows (PipelineLog)
    flag,     \* the Redis key {task_id}-cancel exists
    mstate,   \* where each message of the stream is
    mtask,    \* the task_id it carries
    pc,       \* the next statement of each actor
    job,      \* the task it works on
    snap,     \* the pipeline_log_id in its in-memory copy of the task
    mode,     \* why it is where it is: see Modes
    faults,   \* budget spent on errors
    asks      \* budget spent on requests

db      == <<status, bound, logs>>
broker  == <<mstate, mtask>>
actor   == <<pc, job, snap, mode>>
serviceVars == <<status, bound, logs, flag, mstate, mtask, pc, job, snap, mode, faults, asks>>

Actors == Clients \cup Procs \cup Workers

NoMsg == 0

Statuses == {"CREATED", "SCHEDULED", "RUNNING", "STOPPING", "COMPLETED", "FAILED", "STOPPED"}

\* UNUSED: the id was never inserted.  REMOVED: its row was deleted.
RowStates == Statuses \cup {"UNUSED", "REMOVED"}

ActiveTaskStatuses == {"CREATED", "SCHEDULED", "RUNNING", "STOPPING"}

isTerminal(s) == s \in {"COMPLETED", "STOPPED", "FAILED"}

isRunningOrStopping(s) == s \in {"RUNNING", "STOPPING"}

\* The rows GetByDocumentID can return.
Rows == {t \in Tasks : status[t] \in Statuses}

\* Where a message of the stream is: never published, deliverable, delivered
\* and awaiting its acknowledgement, or acknowledged and gone.
MsgStates == {"free", "queued", "inflight", "acked"}

validateTransition(from, to) ==
    \/ from = "CREATED"   /\ to \in {"SCHEDULED", "RUNNING", "STOPPED"}
    \/ from = "SCHEDULED" /\ to \in {"RUNNING", "STOPPED"}
    \/ from = "RUNNING"   /\ to \in {"STOPPING", "COMPLETED", "FAILED"}
    \/ from = "STOPPING"  /\ to = "STOPPED"
    \/ from \in {"FAILED", "STOPPED"} /\ to = "CREATED"

\* UPDATE ... SET status = to WHERE id = t AND status IN from, one row changed
UpdateStatusIfCurrent(t, from, to) ==
    /\ status[t] \in from
    /\ status' = [status EXCEPT ![t] = to]

\* The read, the check and the CAS of transition: the row changes only if
\* nothing else changed it in between, so its success is one step.  Losing the
\* CAS is an error that leaves the row alone, like a refused transition.
transition(t, to) ==
    /\ status[t] \in Statuses
    /\ validateTransition(status[t], to)
    /\ status' = [status EXCEPT ![t] = to]

transitionRefused(t, to) ==
    /\ \/ status[t] \notin Statuses
       \/ ~ validateTransition(status[t], to)
    /\ UNCHANGED status

\* A statement or a call that fails: a database, Redis or broker error.
Fault == faults < MaxFaults /\ faults' = faults + 1

------------------------------------------------------------------------------
(* Control of an actor. *)

Goto(a, l) == pc' = [pc EXCEPT ![a] = l] /\ UNCHANGED <<job, snap, mode>>

\* A request, or the scheduling of one task at startup, is over.
Finish(a) ==
    /\ pc'   = [pc EXCEPT ![a] = IF a \in Procs THEN "Boot" ELSE "idle"]
    /\ job'  = [job EXCEPT ![a] = NoTask]
    /\ snap' = [snap EXCEPT ![a] = NoLog]
    /\ mode' = [mode EXCEPT ![a] = "none"]

------------------------------------------------------------------------------
(* The open row of a run. *)

HasLiveTaskOwner(l) ==
    \E t \in Tasks : bound[t] = l /\ status[t] \in ActiveTaskStatuses

\* Mutant of createOpenLog: the row the task is already bound to is not looked at.
createOpenLogAgain(t, to) ==
    \/ status[t] \notin ActiveTaskStatuses /\ UNCHANGED <<logs, bound>>
    \/ /\ status[t] \in ActiveTaskStatuses
       /\ \E n \in NextLogId(logs) :
            /\ logs' = [logs EXCEPT ![n] = to]
            /\ bound' = [bound EXCEPT ![t] = n]

\* The transaction of createOpenLogBestEffort, with the task row locked.
createOpenLog(t, to) ==
    \/ /\ \/ status[t] \notin ActiveTaskStatuses
          \/ bound[t] \in OpenLogs(logs)
          \/ \E l \in GetOpenLogByDocumentID(logs) : HasLiveTaskOwner(l)
       /\ UNCHANGED <<logs, bound>>
    \/ /\ status[t] \in ActiveTaskStatuses
       /\ bound[t] \notin OpenLogs(logs)
       /\ \A l \in GetOpenLogByDocumentID(logs) : ~ HasLiveTaskOwner(l)
       /\ \E n \in NextLogId(logs) :
            /\ logs' = [l \in LogIds |->
                          IF l = n THEN to
                          ELSE IF l \in GetOpenLogByDocumentID(logs) THEN "deleted"
                          ELSE logs[l]]
            /\ bound' = [bound EXCEPT ![t] = n]

\* The row id in the caller's copy of t afterwards: the bound row if the
\* transaction found or made one, else what it was.
CopyAfter(t, l) ==
    IF status[t] \in ActiveTaskStatuses /\ bound'[t] \in OpenLogs(logs')
    THEN bound'[t] ELSE l

\* advanceOpenLog for a copy of task t with row l and status s.
advanceOpenLog(t, l, s, from, to, reopen) ==
    IF l # NoLog
    THEN logs' = AdvanceOpenLog(logs, l, from, to) /\ UNCHANGED bound
    ELSE IF reopen /\ s \in ActiveTaskStatuses
    THEN createOpenLog(t, to)
    ELSE UNCHANGED <<logs, bound>>

------------------------------------------------------------------------------
(* A request arrives.  Two clients are two API servers, or two entry points *)
(* of one: lockDocumentParse serialises StartParseDocuments in one process  *)
(* only.                                                                    *)

Ask(c, op) ==
    /\ pc[c] = "idle"
    /\ op \in Ops
    /\ asks < MaxAsks
    /\ asks' = asks + 1

\* StartParseDocuments, IngestDocuments, CreateForDocuments
AskParse(c) ==
    /\ Ask(c, "parse")
    /\ Goto(c, "ParseRead")
    /\ UNCHANGED <<db, flag, broker, faults>>

\* StartParseDocuments with RerunWithDelete; clearDocumentParseResults refuses a
\* task in flight.
AskReparse(c) ==
    /\ Ask(c, "reparse")
    /\ \A t \in Rows : ~ isRunningOrStopping(status[t])
    /\ \E t \in IF Rows = {} THEN {NoTask} ELSE Rows :
         /\ job'  = [job EXCEPT ![c] = t]
         /\ snap' = [snap EXCEPT ![c] = IF t = NoTask THEN NoLog ELSE bound[t]]
    /\ mode' = [mode EXCEPT ![c] = "reparse"]
    /\ pc'   = [pc EXCEPT ![c] = "ClearDelete"]
    /\ UNCHANGED <<db, flag, broker, faults>>

\* CancelDocParse, RequestStopMany
AskStop(c) ==
    /\ Ask(c, "stop")
    /\ \E t \in Rows : job' = [job EXCEPT ![c] = t]
    /\ pc' = [pc EXCEPT ![c] = "RequestStop"]
    /\ UNCHANGED <<snap, mode, db, flag, broker, faults>>

\* RemoveMany: the GetTask of Remove
AskRemove(c) ==
    /\ Ask(c, "remove")
    /\ \E t \in Rows :
         /\ job'  = [job EXCEPT ![c] = t]
         /\ snap' = [snap EXCEPT ![c] = bound[t]]
    /\ mode' = [mode EXCEPT ![c] = "remove"]
    /\ pc'   = [pc EXCEPT ![c] = "Delete"]
    /\ UNCHANGED <<db, flag, broker, faults>>

\* Ingest with Delete and neither RUNNING nor CANCEL requested: the row's log id
\* is captured before the row is deleted.
AskDelete(c) ==
    /\ Ask(c, "delete")
    /\ \E t \in Rows :
         /\ job'  = [job EXCEPT ![c] = t]
         /\ snap' = [snap EXCEPT ![c] = bound[t]]
    /\ mode' = [mode EXCEPT ![c] = "delete"]
    /\ pc'   = [pc EXCEPT ![c] = "Delete"]
    /\ UNCHANGED <<db, flag, broker, faults>>

------------------------------------------------------------------------------
(* createAndEnqueueWithKBCache *)

\* GetByDocumentID, and the switch on the status it returned.
ParseRead(c) ==
    /\ pc[c] = "ParseRead"
    /\ \/ Rows = {} /\ Goto(c, "Create")
       \/ \E t \in Rows :
            /\ status[t] = "CREATED"
            /\ job'  = [job EXCEPT ![c] = t]
            /\ snap' = [snap EXCEPT ![c] = bound[t]]
            /\ mode' = [mode EXCEPT ![c] = "existing"]
            /\ pc'   = [pc EXCEPT ![c] = "OpenLog"]
       \/ \E t \in Rows :
            /\ status[t] \in {"FAILED", "STOPPED"}
            /\ job'  = [job EXCEPT ![c] = t]
            /\ mode' = [mode EXCEPT ![c] = status[t]]
            /\ pc'   = [pc EXCEPT ![c] = "Retry"]
            /\ UNCHANGED snap
       \/ \E t \in Rows :
            /\ status[t] \in {"SCHEDULED", "RUNNING", "STOPPING", "COMPLETED"}
            /\ Finish(c)
    /\ UNCHANGED <<db, flag, broker, faults, asks>>

\* The DAO's Create: the unique index on document_id refuses a second row.
Create(c) ==
    /\ pc[c] = "Create"
    /\ \/ /\ Rows = {}
          /\ \E t \in Tasks :
               /\ status[t] = "UNUSED"
               /\ status' = [status EXCEPT ![t] = "CREATED"]
               /\ job'    = [job EXCEPT ![c] = t]
          /\ snap' = [snap EXCEPT ![c] = NoLog]
          /\ mode' = [mode EXCEPT ![c] = "new"]
          /\ pc'   = [pc EXCEPT ![c] = "OpenLog"]
       \/ /\ Rows # {} \/ \A t \in Tasks : status[t] # "UNUSED"
          /\ Finish(c)
          /\ UNCHANGED status
    /\ UNCHANGED <<bound, logs, flag, broker, faults, asks>>

\* A FAILED or STOPPED task is run again.
Retry(c) ==
    /\ pc[c] = "Retry"
    /\ \/ /\ transition(job[c], "CREATED")
          /\ pc'   = [pc EXCEPT ![c] = "RetryFlag"]
          /\ snap' = [snap EXCEPT ![c] = bound[job[c]]]
          /\ UNCHANGED <<job, mode, faults>>
       \/ /\ transitionRefused(job[c], "CREATED")
          /\ Finish(c)
          /\ UNCHANGED faults
       \/ Fault /\ Finish(c) /\ UNCHANGED status
    /\ UNCHANGED <<bound, logs, flag, broker, asks>>

\* clearCancelFlag of the run that ended
RetryFlag(c) ==
    /\ pc[c] = "RetryFlag"
    /\ flag' = [flag EXCEPT ![job[c]] = FALSE]
    /\ Goto(c, "OpenLog")
    /\ UNCHANGED <<db, broker, faults, asks>>

\* createOpenLogBestEffort: an error is logged and the request goes on.
OpenLog(c) ==
    /\ pc[c] = "OpenLog"
    /\ \/ /\ createOpenLog(job[c], "unstart")
          /\ snap' = [snap EXCEPT ![c] = CopyAfter(job[c], snap[c])]
          /\ UNCHANGED faults
       \/ Fault /\ UNCHANGED <<logs, bound, snap>>
    /\ pc'   = [pc EXCEPT ![c] = "Publish"]
    /\ UNCHANGED <<status, flag, broker, job, mode, asks>>

\* The broker stores one more message for task t.
Enqueue(t) ==
    \E m \in MsgIds :
      /\ mstate[m] = "free"
      /\ \A k \in MsgIds : mstate[k] = "free" => m <= k
      /\ mstate' = [mstate EXCEPT ![m] = "queued"]
      /\ mtask'  = [mtask EXCEPT ![m] = t]

\* Mutant of Publish: the error of a failed publish is ignored.
PublishIgnoringErrors(a) ==
    /\ pc[a] = "Publish"
    /\ Goto(a, "MarkScheduled")
    /\ \/ Enqueue(job[a]) /\ UNCHANGED faults
       \/ Fault /\ UNCHANGED broker
    /\ UNCHANGED <<db, flag, asks>>

\* enqueueTask.  A publish that reports an error may have been stored.
Publish(a) ==
    /\ pc[a] = "Publish"
    /\ \/ /\ Enqueue(job[a])
          /\ Goto(a, "MarkScheduled")
          /\ UNCHANGED faults
       \/ /\ Fault
          /\ Enqueue(job[a]) \/ UNCHANGED broker
          /\ IF mode[a] \in {"new", "FAILED", "STOPPED"} THEN Goto(a, "DropLog") ELSE Finish(a)
    /\ UNCHANGED <<db, flag, asks>>

\* Mutant of MarkScheduled: an UPDATE without the CREATED condition.
MarkScheduledAlways(a) ==
    /\ pc[a] = "MarkScheduled"
    /\ status' = [status EXCEPT ![job[a]] = "SCHEDULED"]
    /\ Goto(a, "ScheduledLog")
    /\ UNCHANGED <<bound, logs, flag, broker, faults, asks>>

\* markScheduledAfterPublish: the CAS, or the tolerated loss of it
MarkScheduled(a) ==
    /\ pc[a] = "MarkScheduled"
    /\ \/ /\ UpdateStatusIfCurrent(job[a], {"CREATED"}, "SCHEDULED")
          /\ Goto(a, "ScheduledLog")
          /\ UNCHANGED faults
       \/ /\ status[job[a]] # "CREATED"
          /\ Finish(a)
          /\ UNCHANGED <<status, faults>>
       \/ Fault /\ Finish(a) /\ UNCHANGED status
    /\ UNCHANGED <<bound, logs, flag, broker, asks>>

\* markScheduledAfterPublish: the re-read and the log write it feeds.  The copy
\* lives no longer than this step.
ScheduledLog(a) ==
    /\ pc[a] = "ScheduledLog"
    /\ LET t == job[a] IN
       \/ /\ status[t] \in Statuses
          /\ advanceOpenLog(t, bound[t], status[t], {"unstart"}, "schedule", TRUE)
          /\ UNCHANGED faults
       \/ status[t] \notin Statuses /\ UNCHANGED <<logs, bound, faults>>
       \/ Fault /\ UNCHANGED <<logs, bound>>
    /\ Finish(a)
    /\ UNCHANGED <<status, flag, broker, asks>>

\* deleteOpenLogBestEffort and its twins: the row the caller's copy names goes.
DropLog(c) ==
    /\ pc[c] = "DropLog"
    /\ \/ logs' = DeleteOpenLogByID(logs, snap[c]) /\ UNCHANGED faults
       \/ Fault /\ UNCHANGED logs
    /\ \/ mode[c] \in {"new", "FAILED", "STOPPED"} /\ Goto(c, "Rollback")
       \/ mode[c] = "reparse" /\ Goto(c, "ParseRead")
       \/ mode[c] \in {"remove", "delete"} /\ Finish(c)
    /\ UNCHANGED <<status, bound, flag, broker, asks>>

\* The statuses the guarded DELETE of the DAO accepts.
Removable == Statuses \ {"RUNNING", "STOPPING"}

\* Mutant of Rollback: a task the request created is rolled back like a retried one.
RollbackToMode(c) ==
    /\ pc[c] = "Rollback"
    /\ UpdateStatusIfCurrent(job[c], {"CREATED"}, mode[c])
    /\ Finish(c)
    /\ UNCHANGED <<bound, logs, flag, broker, faults, asks>>

\* rollbackCreatedTask deletes the row, rollbackRetriedTask puts its status back.
Rollback(c) ==
    /\ pc[c] = "Rollback"
    /\ LET t == job[c] IN
       \/ mode[c] = "new" /\ UpdateStatusIfCurrent(t, Removable, "REMOVED") /\ UNCHANGED faults
       \/ mode[c] # "new" /\ UpdateStatusIfCurrent(t, {"CREATED"}, mode[c]) /\ UNCHANGED faults
       \/ /\ status[t] \notin (IF mode[c] = "new" THEN Removable ELSE {"CREATED"})
          /\ UNCHANGED <<status, faults>>
       \/ Fault /\ UNCHANGED status
    /\ Finish(c)
    /\ UNCHANGED <<bound, logs, flag, broker, asks>>

------------------------------------------------------------------------------
(* RequestStop, called by a client or by the worker that stops a run. *)

\* What the caller of RequestStop does with its answer: a worker is in the
\* markStopped of a cancelled run or of completeTask (mode "settle").
StopAnswer(a, ok) ==
    IF a \notin Workers THEN Finish(a)
    ELSE Goto(a, IF ok THEN "MarkStopped"
                 ELSE IF mode[a] = "settle" THEN "CompleteFailed" ELSE "Settle")

\* GetTask, and the switch on the status it returned
RequestStop(a) ==
    /\ pc[a] = "RequestStop"
    /\ LET s == status[job[a]] IN
       \/ s \in {"CREATED", "SCHEDULED"} /\ Goto(a, "StopQueued") /\ UNCHANGED faults
       \/ s = "RUNNING" /\ Goto(a, "StopRunning") /\ UNCHANGED faults
       \/ s = "STOPPING" /\ StopAnswer(a, TRUE) /\ UNCHANGED faults
       \/ isTerminal(s) /\ StopAnswer(a, TRUE) /\ UNCHANGED faults
       \/ s \notin Statuses /\ StopAnswer(a, FALSE) /\ UNCHANGED faults
       \/ Fault /\ StopAnswer(a, FALSE)
    /\ UNCHANGED <<db, flag, broker, asks>>

\* A task no worker has started is stopped at once; its message stays queued.
StopQueued(a) ==
    /\ pc[a] = "StopQueued"
    /\ \/ /\ UpdateStatusIfCurrent(job[a], {"CREATED", "SCHEDULED"}, "STOPPED")
          /\ Goto(a, "StopQueuedLog")
          /\ UNCHANGED faults
       \/ /\ status[job[a]] \notin {"CREATED", "SCHEDULED"}
          /\ StopAnswer(a, FALSE)
          /\ UNCHANGED <<status, faults>>
       \/ Fault /\ StopAnswer(a, FALSE) /\ UNCHANGED status
    /\ UNCHANGED <<bound, logs, flag, broker, asks>>

\* transitionFrom re-reads the row after its CAS; the log write names the row
\* that re-read found.
StopQueuedLog(a) ==
    /\ pc[a] = "StopQueuedLog"
    /\ LET t == job[a] IN
       \/ /\ status[t] \in Statuses
          /\ logs' = AdvanceOpenLog(logs, bound[t], {"unstart", "schedule"}, "cancel")
          /\ StopAnswer(a, TRUE)
          /\ UNCHANGED faults
       \/ status[t] \notin Statuses /\ StopAnswer(a, FALSE) /\ UNCHANGED <<logs, faults>>
       \/ Fault /\ StopAnswer(a, TRUE) /\ UNCHANGED logs
    /\ UNCHANGED <<status, bound, flag, broker, asks>>

\* A running task is asked to stop through the database ...
StopRunning(a) ==
    /\ pc[a] = "StopRunning"
    /\ \/ transition(job[a], "STOPPING") /\ Goto(a, "StopFlag") /\ UNCHANGED faults
       \/ transitionRefused(job[a], "STOPPING") /\ StopAnswer(a, FALSE) /\ UNCHANGED faults
       \/ Fault /\ StopAnswer(a, FALSE) /\ UNCHANGED status
    /\ UNCHANGED <<bound, logs, flag, broker, asks>>

\* ... and then through the Redis key its worker polls.
StopFlag(a) ==
    /\ pc[a] = "StopFlag"
    /\ flag' = [flag EXCEPT ![job[a]] = TRUE]
    /\ StopAnswer(a, TRUE)
    /\ UNCHANGED <<db, broker, faults, asks>>

------------------------------------------------------------------------------
(* Removing the row. *)

\* The DAO's Delete (Remove) is guarded by the status; DeleteIngestionTasksByDocIDs
\* (Ingest with Delete) is not, and goes by document.
Delete(c) ==
    /\ pc[c] = "Delete"
    /\ \/ /\ mode[c] = "remove"
          /\ UpdateStatusIfCurrent(job[c], Removable, "REMOVED")
          /\ Goto(c, "DropLog")
          /\ UNCHANGED faults
       \/ /\ mode[c] = "remove"
          /\ status[job[c]] \notin Removable
          /\ Finish(c)
          /\ UNCHANGED <<status, faults>>
       \/ /\ mode[c] = "delete"
          /\ status' = [t \in Tasks |-> IF t \in Rows THEN "REMOVED" ELSE status[t]]
          /\ Goto(c, "DropLog")
          /\ UNCHANGED faults
       \/ Fault /\ Finish(c) /\ UNCHANGED status
    /\ UNCHANGED <<bound, logs, flag, broker, asks>>

\* DeleteIfTerminal of clearDocumentParseResults goes by document as well, whatever
\* row the earlier read saw; only that row's log is dropped afterwards.
ClearDelete(c) ==
    /\ pc[c] = "ClearDelete"
    /\ LET gone == {t \in Rows : status[t] \in Removable} IN
       \/ /\ gone # {}
          /\ status' = [t \in Tasks |-> IF t \in gone THEN "REMOVED" ELSE status[t]]
          /\ Goto(c, IF job[c] = NoTask THEN "ParseRead" ELSE "DropLog")
          /\ UNCHANGED faults
       \/ gone = {} /\ job[c] = NoTask /\ Goto(c, "ParseRead") /\ UNCHANGED <<status, faults>>
       \/ gone = {} /\ job[c] # NoTask /\ Finish(c) /\ UNCHANGED <<status, faults>>
       \/ Fault /\ Finish(c) /\ UNCHANGED status
    /\ UNCHANGED <<bound, logs, flag, broker, asks>>

\* The API server dies with the request half done.
ClientCrash(c) ==
    /\ pc[c] # "idle"
    /\ Fault
    /\ Finish(c)
    /\ UNCHANGED <<db, flag, broker, asks>>

------------------------------------------------------------------------------

Modes == {"none", "new", "existing", "FAILED", "STOPPED", "reparse", "remove", "delete",
          "cancel", "settle", "fail", "panic"}

ServiceInit ==
    /\ status = [t \in Tasks |-> "UNUSED"]
    /\ bound  = [t \in Tasks |-> NoLog]
    /\ logs   = [l \in LogIds |-> "free"]
    /\ flag   = [t \in Tasks |-> FALSE]
    /\ mstate = [m \in MsgIds |-> "free"]
    /\ mtask  = [m \in MsgIds |-> NoTask]
    /\ pc     = [a \in Actors |-> "idle"]
    /\ job    = [a \in Actors |-> NoTask]
    /\ snap   = [a \in Actors |-> NoLog]
    /\ mode   = [a \in Actors |-> "none"]
    /\ faults = 0
    /\ asks   = 0

\* The steps of one request.
ClientStep(c) ==
    \/ AskParse(c) \/ AskReparse(c) \/ AskStop(c) \/ AskRemove(c) \/ AskDelete(c)
    \/ ParseRead(c) \/ Create(c) \/ Retry(c) \/ RetryFlag(c) \/ OpenLog(c)
    \/ Publish(c) \/ MarkScheduled(c) \/ ScheduledLog(c) \/ DropLog(c) \/ Rollback(c)
    \/ RequestStop(c) \/ StopQueued(c) \/ StopQueuedLog(c) \/ StopRunning(c) \/ StopFlag(c)
    \/ Delete(c) \/ ClearDelete(c)
    \/ ClientCrash(c)

=============================================================================
