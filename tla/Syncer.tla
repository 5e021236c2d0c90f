------------------------------- MODULE Syncer -------------------------------
(***************************************************************************)
(* The task rows of one connector and the processes that run them          *)
(* (internal/syncer, internal/dao/sync_task.go, internal/dao/connector.go, *)
(* internal/service/{sync_task_service,connector}.go).                     *)
(*                                                                         *)
(* A row of sync_logs says that a knowledge base is due a sync or a prune. *)
(* The API creates rows and publishes their ids; a worker that receives an *)
(* id claims the row, takes the connector lock, executes the task, writes  *)
(* the outcome and arms the wake-up of the row that comes next.  A process *)
(* that starts puts the RUNNING rows back to SCHEDULE and wakes the        *)
(* scheduled ones.  Every database transaction, publish and timer is a     *)
(* step of its own, and processes crash, stop and start between them.      *)
(*                                                                         *)
(* The lock is taken here as the one of ConnectorLock with a single worker *)
(* in each process, the runners as something that ends with a result, and  *)
(* the timers of a process as the set of the tasks it will wake.  Messages *)
(* of one row that wait together are one message: every one but the first  *)
(* is refused by the claim.                                                *)
(***************************************************************************)
EXTENDS Naturals, FiniteSets

CONSTANTS
    KBs,        \* the knowledge bases the connector may be linked to
    Tasks,      \* the row ids that may be created
    KbOf,       \* the kb_id ...
    TypeOf,     \* ... and the task_type a row is created with
    Procs, Workers,
    Home,       \* the process of each worker
    SyncDeletedFiles, \* whether the connector may be created asking for prune tasks, or not
    Classes, Budget,  \* the error classes and the attempts each is given
    NoTask, Nobody, Expiring, \* no row; a free lock; the lock of a dead process
    Ops,        \* the API calls of an instance
    QuietStart, \* the API is called only when every process has started
    MaxOps,     \* bound: API calls
    MaxFaults   \* bound: crashes, shutdowns and failed calls

ASSUME SyncerAssumption ==
    /\ KbOf \in [Tasks -> KBs] /\ TypeOf \in [Tasks -> {"sync", "prune"}]
    /\ Home \in [Workers -> Procs]
    /\ SyncDeletedFiles \subseteq BOOLEAN /\ QuietStart \in BOOLEAN
    /\ Budget \in [Classes -> Nat \ {0}]
    /\ NoTask \notin Tasks /\ {Nobody, Expiring} \cap Workers = {}
    /\ MaxOps \in Nat /\ MaxFaults \in Nat

VARIABLES
    status,  \* sync_logs.status of each row; "none" before it is created
    retry, class, \* retry_count and error_class of each row
    conn,    \* connector.status
    deletes, \* connector.config: sync_deleted_files
    linked,  \* connector2kb: the knowledge bases the connector is linked to
    msgs,    \* the rows whose message waits in the stream
    seen,    \* the rows whose id has been a message id
    unsent,  \* rows the API has committed and not yet published, and how it will
    canceling, \* an API call has canceled the rows and not yet the connector
    proc, timers, \* each process, and the rows it has a timer for
    at, task,  \* where each worker is, and the row it handles
    next,    \* the row a worker that has completed a task wakes
    lock,    \* the connector lock of each knowledge base
    wanted,  \* history: the knowledge bases the user wants synced
    tries,   \* history: failures of the same class since the user scheduled a row
    ops, faults

rows == <<status, retry, class, conn>>
api == <<linked, deletes, unsent, canceling, wanted, ops>>
work == <<at, task, next, lock>>
vars == <<rows, api, msgs, seen, proc, timers, work, tries, faults>>

Pair(t) == <<KbOf[t], TypeOf[t]>>

Idle == {w \in Workers : at[w] = "idle"}
Stopping(w) == proc[Home[w]] = "stopping"

Faulty == faults < MaxFaults /\ faults' = faults + 1

\* A call with the worker's context fails: its process is stopping, or the
\* database does not answer.
CallFails(w) == IF Stopping(w) THEN UNCHANGED faults ELSE Faulty

CallWorks(w) == ~Stopping(w) /\ UNCHANGED faults

Become(w, s) == at' = [at EXCEPT ![w] = s]

Finish(w) == Become(w, "idle") /\ task' = [task EXCEPT ![w] = NoTask]

\* The message has been handled for good, or goes back to the stream.
Ack(w) == Finish(w) /\ UNCHANGED msgs
Nack(w) == Finish(w) /\ msgs' = msgs \cup {task[w]}

\* PublishSyncerTask carries the row id as the message id, and the stream drops
\* an id it has seen within ten minutes; a wake-up has an id of its own.
Publish(t) ==
    /\ seen' = seen \cup {t}
    /\ \/ msgs' = msgs \cup {t}
       \/ t \in seen /\ UNCHANGED msgs
Wakeup(t) == msgs' = msgs \cup {t} /\ UNCHANGED seen

-----------------------------------------------------------------------------
(* The rows: one operator for each transaction of SyncTaskDAO.             *)

\* Mutant of MayClaim: the other rows are not looked at.
MayClaimAnyway(t) == status[t] = "schedule"

\* The condition under which ClaimTask takes row t: it is scheduled and no
\* other row of its knowledge base is running.
MayClaim(t) ==
    /\ status[t] = "schedule"
    /\ \A u \in Tasks \ {t} : KbOf[u] = KbOf[t] => status[u] # "running"

\* GetTaskContext finds the row, its connector and the link to its knowledge base.
HasContext(t) == status[t] # "deleted" /\ KbOf[t] \in linked

\* RescheduleClaimed: a running row is scheduled again, and so is its connector.
RescheduleClaimed(t) ==
    /\ status' = IF status[t] = "running" THEN [status EXCEPT ![t] = "schedule"] ELSE status
    /\ conn' = IF status[t] = "running" /\ conn = "running" THEN "schedule" ELSE conn
    /\ UNCHANGED <<retry, class>>

\* FailTask, called without a connector: every row that is not canceled fails.
FailTask(t) ==
    /\ status' = IF status[t] \in {"cancel", "deleted"} THEN status
                 ELSE [status EXCEPT ![t] = "fail"]
    /\ wanted' = IF status[t] \in {"schedule", "running"} /\ TypeOf[t] = "sync"
                 THEN wanted \ {KbOf[t]} ELSE wanted
    /\ UNCHANGED <<retry, class, conn>>

\* Mutant of Failable: the outcome of a run is written whatever the row's status.
FailableAnyway(t) == status[t] # "deleted"

\* HandleTransientFailure looks for the row among the running ones.
Failable(t) == status[t] = "running"

Attempts(t, c) == IF class[t] = c THEN retry[t] + 1 ELSE 1

\* HandleTransientFailure: one more attempt of class c is used up; the last one
\* fails the row and the connector, any other schedules them again.  A row that
\* is not running is left as it is.
HandleTransientFailure(t, c) ==
    IF ~Failable(t) THEN UNCHANGED <<rows, tries, wanted>>
    ELSE LET n == Attempts(t, c)
             s == IF n >= Budget[c] THEN "fail" ELSE "schedule"
         IN  /\ status' = [status EXCEPT ![t] = s]
             /\ retry' = [retry EXCEPT ![t] = n]
             /\ class' = [class EXCEPT ![t] = c]
             /\ conn' = s
             /\ tries' = [tries EXCEPT ![t] = IF class[t] = c THEN @ + 1 ELSE 1]
             /\ wanted' = IF s = "fail" /\ TypeOf[t] = "sync" THEN wanted \ {KbOf[t]} ELSE wanted

Scheduled(pair) == {u \in Tasks : Pair(u) = pair /\ status[u] = "schedule"}
Fresh(pair) == {u \in Tasks : Pair(u) = pair /\ status[u] = "none"}

\* Mutant of HasNext: no row is created after a sync.
HasNextNever(t) == FALSE

\* A prune row is followed by another only if the connector still asks for it.
HasNext(t) == TypeOf[t] = "sync" \/ deletes

\* CompleteSyncTask and CompletePruneTask with createScheduledTask: the running
\* row is done and u, a scheduled row of its kind or else a new one, is next.
\* Only a new row puts the connector back to SCHEDULE.
Complete(t, u) ==
    /\ UNCHANGED <<retry, class>>
    /\ \/ /\ status[t] # "running" /\ u = NoTask
          /\ UNCHANGED <<status, conn>>
       \/ /\ status[t] = "running" /\ ~HasNext(t) /\ u = NoTask
          /\ status' = [status EXCEPT ![t] = "done"] /\ conn' = "done"
       \/ /\ status[t] = "running" /\ HasNext(t) /\ KbOf[t] \in linked
          /\ u \in Scheduled(Pair(t))
          /\ status' = [status EXCEPT ![t] = "done"] /\ conn' = "done"
       \/ /\ status[t] = "running" /\ HasNext(t) /\ KbOf[t] \in linked
          /\ Scheduled(Pair(t)) = {} /\ u \in Fresh(Pair(t))
          /\ status' = [status EXCEPT ![t] = "done", ![u] = "schedule"] /\ conn' = "schedule"

\* RecoverRunning: every running row, whoever runs it, is scheduled again.
RecoverRunning ==
    /\ status' = [t \in Tasks |-> IF status[t] = "running" THEN "schedule" ELSE status[t]]
    /\ conn' = IF conn = "running" /\ \E t \in Tasks : status[t] = "running"
               THEN "schedule" ELSE conn
    /\ UNCHANGED <<retry, class>>

\* The rows ListScheduledTasks and GetScheduledTask find, and taskDelay schedules.
Listed == {t \in Tasks : /\ status[t] = "schedule" /\ conn = "schedule"
                         /\ KbOf[t] \in linked
                         /\ TypeOf[t] = "prune" => deletes}

-----------------------------------------------------------------------------
(* A worker (TaskWorker.handle).                                           *)

\* The stream delivers a message to a worker of a process that has subscribed.
Receive(w, t) ==
    /\ w \in Idle /\ t \in msgs /\ proc[Home[w]] \in {"starting", "recovered", "up"}
    /\ msgs' = msgs \ {t}
    /\ task' = [task EXCEPT ![w] = t] /\ Become(w, "got")
    /\ UNCHANGED <<rows, api, seen, proc, timers, next, lock, tries, faults>>

ClaimWins(w) ==
    /\ at[w] = "got" /\ CallWorks(w) /\ MayClaim(task[w])
    /\ status' = [status EXCEPT ![task[w]] = "running"]
    /\ Become(w, "claimed")
    /\ UNCHANGED <<retry, class, conn, api, msgs, seen, proc, timers, task, next, lock, tries>>

\* The message is acknowledged before the worker looks whether to try again.
ClaimRefused(w) ==
    /\ at[w] = "got" /\ CallWorks(w) /\ ~MayClaim(task[w])
    /\ Become(w, "refused")
    /\ UNCHANGED <<rows, api, msgs, seen, proc, timers, task, next, lock, tries>>

ClaimErrs(w) ==
    /\ at[w] = "got" /\ CallFails(w) /\ Nack(w)
    /\ UNCHANGED <<rows, api, seen, proc, timers, next, lock, tries>>

\* scheduleRetryIfTaskScheduled: a scheduled row gets a timer, unless the look-up
\* fails.
RetryIfScheduled(w) ==
    /\ at[w] = "refused" /\ Ack(w)
    /\ \/ /\ CallWorks(w)
          /\ timers' = IF HasContext(task[w]) /\ status[task[w]] = "schedule"
                       THEN [timers EXCEPT ![Home[w]] = @ \cup {task[w]}] ELSE timers
       \/ CallFails(w) /\ UNCHANGED timers
    /\ UNCHANGED <<rows, api, seen, proc, next, lock, tries>>

\* Claim, after ClaimTask has committed: the connector is marked running.  An
\* error gives the message back and leaves the row running.
MarkRunning(w) ==
    /\ at[w] = "claimed"
    /\ \/ /\ CallWorks(w) /\ HasContext(task[w])
          /\ conn' = "running" /\ Become(w, "ready") /\ UNCHANGED <<msgs, task>>
       \/ /\ ~HasContext(task[w]) /\ UNCHANGED <<conn, faults>> /\ Nack(w)
       \/ CallFails(w) /\ UNCHANGED conn /\ Nack(w)
    /\ UNCHANGED <<status, retry, class, api, seen, proc, timers, next, lock, tries>>

\* handle reads the context again: without one the row fails, and when that
\* fails too, or the process is stopping, the row is scheduled again.
ContextErrs(w) ==
    /\ at[w] = "ready"
    /\ \/ /\ ~Stopping(w) /\ FailTask(task[w]) /\ Ack(w)
          /\ IF HasContext(task[w]) THEN Faulty ELSE UNCHANGED faults
       \/ CallFails(w) /\ RescheduleClaimed(task[w]) /\ Nack(w) /\ UNCHANGED wanted
    /\ UNCHANGED <<linked, deletes, unsent, canceling, ops, seen, proc, timers, next, lock, tries>>

LockTaken(w) ==
    /\ at[w] = "ready" /\ HasContext(task[w]) /\ CallWorks(w)
    /\ lock[KbOf[task[w]]] = Nobody
    /\ lock' = [lock EXCEPT ![KbOf[task[w]]] = w] /\ Become(w, "executing")
    /\ UNCHANGED <<rows, api, msgs, seen, proc, timers, task, next, tries>>

\* The lock is another's: the row is scheduled again, or stays running when that
\* cannot be written.
LockRefused(w) ==
    /\ at[w] = "ready" /\ HasContext(task[w]) /\ ~Stopping(w)
    /\ lock[KbOf[task[w]]] # Nobody
    /\ \/ UNCHANGED faults /\ RescheduleClaimed(task[w]) /\ Become(w, "retry") /\ UNCHANGED <<msgs, task>>
       \/ Faulty /\ UNCHANGED rows /\ Nack(w)
    /\ UNCHANGED <<api, seen, proc, timers, next, lock, tries>>

Unlock(w) == lock' = [k \in KBs |-> IF lock[k] = w THEN Nobody ELSE lock[k]]

\* The coordinator has returned a result, and what it says has been written: a
\* completed task, ...
Completes(w) ==
    /\ at[w] = "executing" /\ CallWorks(w)
    /\ \E u \in Tasks \cup {NoTask} :
          Complete(task[w], u) /\ next' = [next EXCEPT ![w] = u]
    /\ Become(w, "completed")
    /\ UNCHANGED <<api, msgs, seen, proc, timers, task, lock, tries>>

\* ... a row the runner has seen canceled, ...
SeesCancel(w) ==
    /\ at[w] = "executing" /\ status[task[w]] = "cancel"
    /\ Ack(w) /\ Unlock(w)
    /\ UNCHANGED <<rows, api, seen, proc, timers, next, tries, faults>>

\* ... an error of class c (or, when even that cannot be written, a row scheduled
\* again and a message given back), ...
Fails(w, c) ==
    /\ at[w] = "executing"
    /\ \/ /\ CallWorks(w) /\ HandleTransientFailure(task[w], c)
          /\ Become(w, IF status'[task[w]] = "fail" /\ Failable(task[w]) THEN "failed" ELSE "retry")
          /\ UNCHANGED <<msgs, task, lock>>
       \/ /\ ~Stopping(w) /\ Faulty /\ RescheduleClaimed(task[w]) /\ Nack(w) /\ Unlock(w)
          /\ UNCHANGED <<wanted, tries>>
    /\ UNCHANGED <<linked, deletes, unsent, canceling, ops, seen, proc, timers, next>>

\* ... or the end of the process's context: the row is scheduled again and a timer
\* armed that lives as long as the process.
Interrupted(w) ==
    /\ at[w] = "executing" /\ Stopping(w) /\ Unlock(w)
    /\ \/ /\ RescheduleClaimed(task[w]) /\ Ack(w) /\ UNCHANGED faults
          /\ timers' = [timers EXCEPT ![Home[w]] = @ \cup {task[w]}]
       \/ Faulty /\ UNCHANGED <<rows, timers>> /\ Nack(w)
    /\ UNCHANGED <<api, seen, proc, next, tries>>

\* scheduleRetry: a timer of a stopping process publishes nothing.
ScheduleRetry(w) ==
    /\ at[w] = "retry"
    /\ timers' = IF Stopping(w) THEN timers ELSE [timers EXCEPT ![Home[w]] = @ \cup {task[w]}]
    /\ Ack(w) /\ Unlock(w)
    /\ UNCHANGED <<rows, api, seen, proc, next, tries, faults>>

GivesUp(w) ==
    /\ at[w] = "failed" /\ Ack(w) /\ Unlock(w)
    /\ UNCHANGED <<rows, api, seen, proc, timers, next, tries, faults>>

\* ScheduleTask: a row that is due is published, any other gets a timer.
ScheduleTask(p, t) ==
    \/ Publish(t) /\ UNCHANGED timers
    \/ timers' = [timers EXCEPT ![p] = @ \cup {t}] /\ UNCHANGED <<msgs, seen>>

\* scheduleNext: the next row is scheduled if the look-up finds it; otherwise
\* nothing but a log line comes of it.
ScheduleNext(w) ==
    /\ at[w] = "completed" /\ Finish(w) /\ Unlock(w)
    /\ \/ CallWorks(w) /\ next[w] \in Listed /\ ScheduleTask(Home[w], next[w])
       \/ /\ next[w] \notin Listed /\ UNCHANGED <<faults, msgs, seen, timers>>
       \/ CallFails(w) /\ UNCHANGED <<msgs, seen, timers>>
    /\ next' = [next EXCEPT ![w] = NoTask]
    /\ UNCHANGED <<rows, api, proc, tries>>

Work(w) ==
    \/ ClaimWins(w) \/ ClaimRefused(w) \/ ClaimErrs(w) \/ RetryIfScheduled(w)
    \/ MarkRunning(w) \/ ContextErrs(w) \/ LockTaken(w) \/ LockRefused(w)
    \/ Completes(w) \/ SeesCancel(w) \/ \E c \in Classes : Fails(w, c)
    \/ Interrupted(w) \/ ScheduleRetry(w) \/ GivesUp(w) \/ ScheduleNext(w)

-----------------------------------------------------------------------------
(* A process (Scheduler.runNATS, Syncer.Stop), the stream and Redis.       *)

\* The process subscribes, and its workers receive messages from then on.
Start(p) ==
    /\ proc[p] = "down" /\ proc' = [proc EXCEPT ![p] = "starting"]
    /\ UNCHANGED <<rows, api, msgs, seen, timers, work, tries, faults>>

Recover(p) ==
    /\ proc[p] = "starting"
    /\ \/ RecoverRunning /\ proc' = [proc EXCEPT ![p] = "recovered"] /\ UNCHANGED faults
       \/ Faulty /\ UNCHANGED rows /\ proc' = [proc EXCEPT ![p] = "up"]
    /\ UNCHANGED <<api, msgs, seen, timers, work, tries>>

\* publishStartupTasks: the listed rows are scheduled, those that are due now by a
\* publish; a page or a publish that fails ends the scan.
PublishStartupTasks(p) ==
    /\ proc[p] = "recovered" /\ proc' = [proc EXCEPT ![p] = "up"]
    /\ \E reached \in SUBSET Listed : \E due \in SUBSET reached :
          /\ IF reached = Listed THEN UNCHANGED faults ELSE Faulty
          /\ \E dropped \in SUBSET (due \cap seen) : msgs' = msgs \cup (due \ dropped)
          /\ seen' = seen \cup due
          /\ timers' = [timers EXCEPT ![p] = @ \cup (reached \ due)]
    /\ UNCHANGED <<rows, api, work, tries>>

\* A timer that fires publishes a wake-up (SchedulerTimers has the closure).
TimerFires(p, t) ==
    /\ proc[p] # "down" /\ t \in timers[p]
    /\ timers' = [timers EXCEPT ![p] = @ \ {t}] /\ Wakeup(t)
    /\ UNCHANGED <<rows, api, proc, work, tries, faults>>

\* Stop cancels the context; the timers are stopped and the workers run to an end.
Stop(p) ==
    /\ proc[p] = "up" /\ Faulty
    /\ proc' = [proc EXCEPT ![p] = "stopping"]
    /\ timers' = [timers EXCEPT ![p] = {}]
    /\ UNCHANGED <<rows, api, msgs, seen, work, tries>>

Exit(p) ==
    /\ proc[p] = "stopping" /\ \A w \in Workers : Home[w] = p => w \in Idle
    /\ proc' = [proc EXCEPT ![p] = "down"]
    /\ timers' = [timers EXCEPT ![p] = {}]
    /\ UNCHANGED <<rows, api, msgs, seen, work, tries, faults>>

\* A crash: the messages that are not acknowledged are delivered again, and the
\* locks of the process stay taken until their keys expire.
Crash(p) ==
    LET dead == {w \in Workers : Home[w] = p} IN
    /\ proc[p] # "down" /\ Faulty
    /\ proc' = [proc EXCEPT ![p] = "down"]
    /\ timers' = [timers EXCEPT ![p] = {}]
    /\ msgs' = msgs \cup {task[w] : w \in {v \in dead : at[v] \notin {"idle", "refused"}}}
    /\ at' = [w \in Workers |-> IF w \in dead THEN "idle" ELSE at[w]]
    /\ task' = [w \in Workers |-> IF w \in dead THEN NoTask ELSE task[w]]
    /\ next' = [w \in Workers |-> IF w \in dead THEN NoTask ELSE next[w]]
    /\ lock' = [k \in KBs |-> IF lock[k] \in dead THEN Expiring ELSE lock[k]]
    /\ UNCHANGED <<rows, api, seen, tries>>

LeaseExpires(k) ==
    /\ lock[k] = Expiring /\ lock' = [lock EXCEPT ![k] = Nobody]
    /\ UNCHANGED <<rows, api, msgs, seen, proc, timers, at, task, next, tries, faults>>

-----------------------------------------------------------------------------
(* The API (ConnectorService and the dataset's connector links).           *)

Call(op) ==
    /\ op \in Ops /\ ops < MaxOps /\ ops' = ops + 1
    /\ QuietStart => \A p \in Procs : proc[p] = "up"

KindsFor(K) == K \X (IF deletes THEN {"sync", "prune"} ELSE {"sync"})

\* New rows for the given kinds, one for each.
NewRows(kinds) ==
    {N \in SUBSET UNION {Fresh(pair) : pair \in kinds} :
        \A pair \in kinds : \E u \in N : {v \in N : Pair(v) = pair} = {u}}

\* scheduleConnectorTask for each kind: its scheduled row, nothing if a row of the
\* kind is running, or else a new row.  What it returns is then published.
ScheduleRows(kinds) ==
    LET missing == {pair \in kinds : \A t \in Tasks :
                        Pair(t) = pair => status[t] \notin {"schedule", "running"}}
    IN  \E N \in NewRows(missing) :
          /\ status' = [t \in Tasks |-> IF t \in N THEN "schedule" ELSE status[t]]
          /\ unsent' = unsent \cup {<<t, FALSE>> :
                            t \in N \cup UNION {Scheduled(pair) : pair \in kinds}}

\* LinkDatasetConnectorsTx for a knowledge base that was not linked, ...
Link(k) ==
    /\ Call("link") /\ k \notin linked
    /\ linked' = linked \cup {k} /\ wanted' = wanted \cup {k}
    /\ ScheduleRows(KindsFor({k}))
    /\ UNCHANGED <<retry, class, conn, deletes, canceling, msgs, seen, proc, timers, work, tries, faults>>

CancelRows(K) ==
    status' = [t \in Tasks |-> IF KbOf[t] \in K /\ status[t] \in {"schedule", "running"}
                               THEN "cancel" ELSE status[t]]

\* ... and for one whose link is removed.
Unlink(k) ==
    /\ Call("unlink") /\ k \in linked
    /\ linked' = linked \ {k} /\ wanted' = wanted \ {k}
    /\ CancelRows({k})
    /\ UNCHANGED <<retry, class, conn, deletes, unsent, canceling, msgs, seen, proc, timers, work, tries, faults>>

\* cancelConnectorTasks, in two statements: the rows, then the connector.
CancelTasks ==
    /\ Call("cancel") /\ ~canceling /\ canceling' = TRUE
    /\ CancelRows(KBs) /\ wanted' = {}
    /\ UNCHANGED <<retry, class, conn, linked, deletes, unsent, msgs, seen, proc, timers, work, tries, faults>>

CancelConnector ==
    /\ canceling /\ canceling' = FALSE /\ conn' = "cancel"
    /\ UNCHANGED <<status, retry, class, linked, deletes, unsent, wanted, ops, msgs, seen, proc, timers,
                   work, tries, faults>>

\* ScheduleConnectorTasks.  A reschedule is CancelTasks, CancelConnector and this.
ScheduleConnectorTasks ==
    /\ Call("schedule")
    /\ ScheduleRows(KindsFor(linked)) /\ conn' = "schedule" /\ wanted' = wanted \cup linked
    /\ UNCHANGED <<retry, class, linked, deletes, canceling, msgs, seen, proc, timers, work, tries, faults>>

\* RebuildConnector: the rows of the knowledge base are deleted and replaced.
RebuildConnector(k) ==
    /\ Call("rebuild") /\ k \in linked
    /\ \E N \in NewRows(KindsFor({k})) :
          /\ status' = [t \in Tasks |-> IF t \in N THEN "schedule"
                                        ELSE IF KbOf[t] = k /\ status[t] # "none" THEN "deleted"
                                        ELSE status[t]]
          /\ unsent' = unsent \cup (N \X {FALSE})
    /\ conn' = "schedule" /\ wanted' = wanted \cup {k}
    /\ UNCHANGED <<retry, class, linked, deletes, canceling, msgs, seen, proc, timers, work, tries, faults>>

\* ResumeFailedSyncTask: a failed sync row is scheduled again, its retry_count and
\* error_class as they were.
ResumeFailedSync(t) ==
    /\ Call("resume") /\ status[t] = "fail" /\ TypeOf[t] = "sync"
    /\ status' = [status EXCEPT ![t] = "schedule"] /\ conn' = "schedule"
    /\ unsent' = unsent \cup {<<t, TRUE>>}
    /\ tries' = [tries EXCEPT ![t] = 0] /\ wanted' = wanted \cup {KbOf[t]}
    /\ UNCHANGED <<retry, class, linked, deletes, canceling, msgs, seen, proc, timers, work, faults>>

\* UpdateConnector with a new configuration: only what the rows depend on.
UpdateConfig ==
    /\ Call("config") /\ deletes' = ~deletes
    /\ UNCHANGED <<rows, linked, unsent, canceling, wanted, msgs, seen, proc, timers, work, tries, faults>>

\* publishSyncerTasks and publishSyncerTaskWakeup, after the commit; a publish that
\* fails is logged or reported, and not tried again.
ApiPublishes(t, wakeup) ==
    /\ <<t, wakeup>> \in unsent /\ unsent' = unsent \ {<<t, wakeup>>}
    /\ IF wakeup THEN Wakeup(t) ELSE Publish(t)
    /\ UNCHANGED <<rows, linked, deletes, canceling, wanted, ops, proc, timers, work, tries, faults>>

ApiPublishFails(t, wakeup) ==
    /\ <<t, wakeup>> \in unsent /\ unsent' = unsent \ {<<t, wakeup>>} /\ Faulty
    /\ UNCHANGED <<rows, linked, deletes, canceling, wanted, ops, msgs, seen, proc, timers, work, tries>>

-----------------------------------------------------------------------------
Init ==
    /\ status = [t \in Tasks |-> "none"]
    /\ retry = [t \in Tasks |-> 0] /\ class = [t \in Tasks |-> ""]
    /\ conn = "unstart" /\ deletes \in SyncDeletedFiles /\ linked = {} /\ wanted = {}
    /\ msgs = {} /\ seen = {} /\ unsent = {} /\ canceling = FALSE
    /\ proc = [p \in Procs |-> "down"] /\ timers = [p \in Procs |-> {}]
    /\ at = [w \in Workers |-> "idle"] /\ task = [w \in Workers |-> NoTask]
    /\ next = [w \in Workers |-> NoTask] /\ lock = [k \in KBs |-> Nobody]
    /\ tries = [t \in Tasks |-> 0] /\ ops = 0 /\ faults = 0

User ==
    \/ \E k \in KBs : Link(k) \/ Unlink(k) \/ RebuildConnector(k)
    \/ CancelTasks \/ ScheduleConnectorTasks \/ UpdateConfig
    \/ \E t \in Tasks : ResumeFailedSync(t)

Environment ==
    \/ \E p \in Procs : Stop(p) \/ Crash(p)
    \/ \E t \in Tasks, wakeup \in BOOLEAN : ApiPublishFails(t, wakeup)

Next ==
    \/ User \/ Environment \/ CancelConnector
    \/ \E w \in Workers : Work(w) \/ \E t \in Tasks : Receive(w, t)
    \/ \E p \in Procs : \/ Start(p) \/ Recover(p) \/ PublishStartupTasks(p) \/ Exit(p)
                        \/ \E t \in Tasks : TimerFires(p, t)
    \/ \E k \in KBs : LeaseExpires(k)
    \/ \E t \in Tasks, wakeup \in BOOLEAN : ApiPublishes(t, wakeup)

Spec == Init /\ [][Next]_vars

-----------------------------------------------------------------------------
\* Two rows of a knowledge base are never RUNNING together, whoever claims, gives
\* back, recovers, completes or replaces them (ClaimTask's check under the lock of
\* the connector2kb row).
OneRunning ==
    \A t, u \in Tasks : KbOf[t] = KbOf[u] /\ status[t] = "running" /\ status[u] = "running" => t = u

\* Polling does not die out: a knowledge base the user wants synced, and whose sync
\* has not failed, has a sync row that is scheduled or running, through crashes,
\* recoveries, retries and completions by workers that were overtaken
\* (createScheduledTask, RescheduleClaimed, RecoverRunning).
PollingGoesOn ==
    \A k \in wanted : \E t \in Tasks :
        KbOf[t] = k /\ TypeOf[t] = "sync" /\ status[t] \in {"schedule", "running"}

\* A row the user has canceled is never run, completed, failed or scheduled again by
\* a worker or a recovery that had it in hand.
CancelIsFinal ==
    [][\A t \in Tasks : status[t] = "cancel" => status'[t] \in {"cancel", "deleted"}]_vars

------------------------------------------------------------------------------
(* What the documentation or a comment says and the code does not do: see the
   README, section 3.  No run checks these. *)

\* A run that fails a row has used up the attempts of its error class: the other
\* class's failures take none of them, and nothing before the user last scheduled
\* the row does (HandleTransientFailure; README of internal/syncer, "Whitelisted
\* transient errors ... are retried 3 times; all other errors are retried 2 times").
BudgetIsSpent ==
    [][\A w \in Workers : at[w] = "executing" /\ at'[w] = "failed"
          => tries'[task[w]] >= Budget[class'[task[w]]]]_vars

\* Something will wake row t: a message, a timer, an API call that is about to
\* publish it, or a worker that has it in hand.
Woken(t) ==
    \/ t \in msgs \/ \E p \in Procs : t \in timers[p]
    \/ \E wakeup \in BOOLEAN : <<t, wakeup>> \in unsent
    \/ \E w \in Workers : task[w] = t

\* RecoverRunning restores the rows "left behind by a previous process exit": a row
\* that a live worker runs is not taken from it (README of internal/syncer, Startup
\* recovery).
RecoversOrphansOnly ==
    [][\A p \in Procs, t \in Tasks :
          /\ proc[p] = "starting" /\ proc'[p] = "recovered"
          /\ status[t] = "running" /\ status'[t] = "schedule"
          => ~\E w \in Workers : at[w] = "executing" /\ task[w] = t]_vars

\* After a restart the rows that are scheduled in the database are woken (README of
\* internal/syncer, Startup recovery).
RestartWakes ==
    [][\A p \in Procs, t \in Tasks :
          /\ proc[p] = "recovered" /\ proc'[p] = "up"
          /\ status[t] = "schedule" /\ HasContext(t) /\ TypeOf[t] = "sync"
          => Woken(t)']_vars

\* On success the worker schedules the next row (README of internal/syncer, Worker
\* claim, ack, and heartbeat).
NextIsWoken ==
    [][\A w \in Workers, t \in Tasks :
          /\ at[w] = "completed" /\ at'[w] = "idle" /\ next[w] = t
          /\ status[t] = "schedule" /\ HasContext(t)
          => Woken(t)']_vars

\* A claim that is refused because the row runs is refused in favour of a worker that
\* has it (README of internal/syncer, Worker claim, ack, and heartbeat).
RefusedIsOwned ==
    [][\A w \in Workers :
          /\ at[w] = "got" /\ at'[w] = "refused" /\ status[task[w]] = "running"
          => \E v \in Workers \ {w} : task[v] = task[w]]_vars
=============================================================================
