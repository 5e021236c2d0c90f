----------------------------- MODULE JobExecutor -----------------------------
(***************************************************************************)
(* The batch job executor shared by the sync tasks of a process            *)
(* (internal/syncer/job_executor.go) and the coordinators that feed it     *)
(* (task_coordinator.go, and the submitting and collecting of              *)
(* sync_runner.go).                                                        *)
(*                                                                         *)
(* A run of a sync task registers a queue, submits one job per source      *)
(* batch, waits for the results in the order of submission and closes the  *)
(* queue.  The dispatcher moves jobs from the registered queues, one queue *)
(* after the other, through the job it holds (pending) into the bounded    *)
(* channel that the job workers read.  A run may be given up at any batch  *)
(* (its context ends, the task was cancelled, a checkpoint cannot be       *)
(* saved) and leaves its jobs where they are.                              *)
(***************************************************************************)
EXTENDS Integers, Sequences, FiniteSets

CONSTANTS
    Tasks,       \* sync tasks
    MaxRuns,     \* bound: the runs of a task
    MaxBatches,  \* bound: the batches of a run
    Workers,     \* job workers
    QueueSize,   \* JobQueueSize, which is PerTaskQueueSize as well
    None         \* no job

ASSUME ExecutorAssumption ==
    /\ MaxRuns \in Nat /\ MaxBatches \in Nat
    /\ QueueSize \in Nat \ {0}

Runs    == 1..MaxRuns
Batches == 1..MaxBatches

\* A job is a batch of a run of a task.
Jobs == Tasks \X Runs \X Batches

ASSUME NoneAssumption == None \notin Jobs

VARIABLES
    at,         \* where the coordinator of each task is
    run,        \* the run of each task
    sent,       \* jobs submitted by the run
    got,        \* results the run has collected
    reply,      \* the executor's answer to RegisterTask
    over,       \* the runs whose context has ended
    queue,      \* the channel of each registered task
    order,      \* the registered tasks, in the dispatcher's order
    cursor,     \* index in order of the task whose turn it is, from 0
    pending,    \* the job the dispatcher holds
    jobs,       \* the channel the job workers read
    working,    \* the job of each worker
    result,     \* what each job's done channel was sent
    executor,   \* open, stopping (Syncer.Stop), closed (stop is closed), done
    waited      \* the jobs taken from other queues while a task had one queued,
                \* since a task last left

coordinator == <<at, run, sent, got, reply, over>>
dispatcher  == <<queue, order, cursor, pending>>
vars == <<coordinator, dispatcher, jobs, working, result, executor, waited>>

\* What a job's done channel holds: nothing yet, what the job's function returned,
\* the error of the run's context, or errSyncJobExecutorClosed.
Results == {"none", "ran", "context", "closed"}

Range(s) == {s[i] : i \in DOMAIN s}
Goto(t, l) == at' = [at EXCEPT ![t] = l]
ThisRun(t) == <<t, run[t]>>
RunOf(j)   == <<j[1], j[2]>>
Settle(J, o) == result' = [j \in Jobs |-> IF j \in J THEN o ELSE result[j]]

------------------------------------------------------------------------------
(* The coordinator of a task: Execute and SyncRunner.Run. *)

\* Execute sends the register command, and the dispatcher applies it: a task that
\* is in the table is refused.
RegisterTask(t) ==
    /\ at[t] = "idle" /\ run[t] + 1 \in Runs /\ executor \in {"open", "stopping"}
    /\ Goto(t, "registering")
    /\ run'  = [run EXCEPT ![t] = @ + 1]
    /\ sent' = [sent EXCEPT ![t] = 0]
    /\ got'  = [got EXCEPT ![t] = 0]
    /\ IF t \in Range(order)
       THEN /\ reply' = [reply EXCEPT ![t] = "refused"]
            /\ UNCHANGED <<queue, order>>
       ELSE /\ reply' = [reply EXCEPT ![t] = "queue"]
            /\ queue' = [queue EXCEPT ![t] = <<>>]
            /\ order' = Append(order, t)
    /\ over' = IF executor = "open" THEN over ELSE over \cup {<<t, run[t] + 1>>}
    /\ UNCHANGED <<cursor, pending, jobs, working, result, executor, waited>>

\* RegisterTask takes the answer ...
Registered(t) ==
    /\ at[t] = "registering"
    /\ IF reply[t] = "queue" THEN Goto(t, "submitting") /\ UNCHANGED over
       ELSE Goto(t, "idle") /\ over' = over \cup {ThisRun(t)}
    /\ UNCHANGED <<run, sent, got, reply, dispatcher, jobs, working, result, executor, waited>>

\* ... or sees its context end first and returns without the queue.
RegisterAbandoned(t) ==
    /\ at[t] = "registering" /\ ThisRun(t) \in over
    /\ Goto(t, "idle")
    /\ UNCHANGED <<run, sent, got, reply, over, dispatcher, jobs, working, result, executor, waited>>

\* The run's deadline passes (Stop ends every context too).
ContextEnds(t) ==
    /\ at[t] # "idle" /\ ThisRun(t) \notin over
    /\ over' = over \cup {ThisRun(t)}
    /\ UNCHANGED <<at, run, sent, got, reply, dispatcher, jobs, working, result, executor, waited>>

\* submitBatch: the next batch enters the task's queue when there is room.
Submit(t) ==
    /\ at[t] = "submitting" /\ sent[t] + 1 \in Batches
    /\ Len(queue[t]) < QueueSize
    /\ sent'  = [sent EXCEPT ![t] = @ + 1]
    /\ queue' = [queue EXCEPT ![t] = Append(@, <<t, run[t], sent[t] + 1>>)]
    /\ UNCHANGED <<at, run, got, reply, over, order, cursor, pending, jobs, working, result, executor, waited>>

\* NextBatch is at the end of the source, or failed.
SourceEnds(t) ==
    /\ at[t] = "submitting"
    /\ Goto(t, "collecting")
    /\ UNCHANGED <<run, sent, got, reply, over, dispatcher, jobs, working, result, executor, waited>>

\* collectResults waits for the results one by one.
Collect(t) ==
    /\ at[t] = "collecting" /\ got[t] < sent[t]
    /\ result[<<t, run[t], got[t] + 1>>] # "none"
    /\ got' = [got EXCEPT ![t] = @ + 1]
    /\ UNCHANGED <<at, run, sent, reply, over, dispatcher, jobs, working, result, executor, waited>>

\* All results are there, and the run returns.
Collected(t) ==
    /\ at[t] = "collecting" /\ got[t] = sent[t]
    /\ Goto(t, "closing")
    /\ UNCHANGED <<run, sent, got, reply, over, dispatcher, jobs, working, result, executor, waited>>

\* The source had lost the resume anchor: with all results in, the run starts over.
\* How often it may is SyncRunner's concern.
Restart(t) ==
    /\ at[t] = "collecting" /\ got[t] = sent[t]
    /\ Goto(t, "submitting")
    /\ UNCHANGED <<run, sent, got, reply, over, dispatcher, jobs, working, result, executor, waited>>

\* The context ends a wait for room in the queue or for a result.
CutShort(t) ==
    /\ at[t] \in {"submitting", "collecting"} /\ ThisRun(t) \in over
    /\ Goto(t, "closing")
    /\ UNCHANGED <<run, sent, got, reply, over, dispatcher, jobs, working, result, executor, waited>>

\* The run is given up with jobs outstanding: the task was cancelled, the source
\* could not be opened again, or a checkpoint was not saved.
GiveUp(t) ==
    /\ at[t] = "submitting" \/ (at[t] = "collecting" /\ got[t] > 0)
    /\ Goto(t, "closing")
    /\ UNCHANGED <<run, sent, got, reply, over, dispatcher, jobs, working, result, executor, waited>>

\* The order of the tasks after t has left.
Without(t) ==
    IF t \in Range(order)
    THEN LET i == CHOOSE i \in DOMAIN order : order[i] = t
         IN  [k \in 1..(Len(order) - 1) |-> order[IF k < i THEN k ELSE k + 1]]
    ELSE order

\* Mutant of NewCursor: the cursor is left where it was.
StaleCursor(o) == cursor

\* The cursor after a task was taken out of the order.
NewCursor(o) == IF cursor >= Len(o) THEN 0 ELSE cursor

\* The deferred queue.Close has the dispatcher drop the task's queue, jobs and
\* all, and the deferred cancel ends the context of the run's jobs.  The second
\* run of Close that a sync.Once absorbs does not occur.
Unregister(t) ==
    /\ at[t] = "closing" /\ executor \in {"open", "stopping"}
    /\ order'  = Without(t)
    /\ cursor' = NewCursor(order')
    /\ queue'  = [queue EXCEPT ![t] = <<>>]
    /\ waited' = [u \in Tasks |-> 0]
    /\ over'   = over \cup {ThisRun(t)}
    /\ Goto(t, "idle")
    /\ UNCHANGED <<run, sent, got, reply, pending, jobs, working, result, executor>>

------------------------------------------------------------------------------
(* The dispatcher and the job workers. *)

\* The task at index i (from 0) of the order, from the cursor on.
Turn(i) == order[((cursor + i) % Len(order)) + 1]

\* Mutant of Advance: the cursor does not move on.
Stay(i) == cursor

\* The cursor after the i-th task from it was served.
Advance(i) == (cursor + i + 1) % Len(order)

\* popReadyJob: the first task from the cursor on that has a job.
PopReadyJob ==
    /\ executor \in {"open", "stopping"} /\ pending = None
    /\ \E i \in 0..(Len(order) - 1) :
         /\ queue[Turn(i)] # <<>>
         /\ \A k \in 0..(i - 1) : queue[Turn(k)] = <<>>
         /\ pending' = Head(queue[Turn(i)])
         /\ queue'   = [queue EXCEPT ![Turn(i)] = Tail(@)]
         /\ cursor'  = Advance(i)
         /\ waited'  = [t \in Tasks |-> IF t = Turn(i) \/ queue[t] = <<>> THEN 0 ELSE waited[t] + 1]
    /\ UNCHANGED <<coordinator, order, jobs, working, result, executor>>

\* Mutant of Dispatch: the dispatcher forgets to let go of the job.
DispatchKeeps ==
    /\ executor \in {"open", "stopping"} /\ pending # None
    /\ Len(jobs) < QueueSize
    /\ jobs' = Append(jobs, pending)
    /\ UNCHANGED <<coordinator, dispatcher, working, result, executor, waited>>

\* Mutant of Dispatch: the send does not wait for room.
DispatchOrDrop ==
    /\ executor \in {"open", "stopping"} /\ pending # None
    /\ jobs' = IF Len(jobs) < QueueSize THEN Append(jobs, pending) ELSE jobs
    /\ pending' = None
    /\ UNCHANGED <<coordinator, queue, order, cursor, working, result, executor, waited>>

\* The job the dispatcher holds enters the workers' channel when there is room.
Dispatch ==
    /\ executor \in {"open", "stopping"} /\ pending # None
    /\ Len(jobs) < QueueSize
    /\ jobs' = Append(jobs, pending)
    /\ pending' = None
    /\ UNCHANGED <<coordinator, queue, order, cursor, working, result, executor, waited>>

\* Mutant of Take: a worker leaves when the executor closes, jobs or no jobs.
TakeWhileOpen(w) ==
    /\ working[w] = None /\ jobs # <<>> /\ executor \in {"open", "stopping"}
    /\ jobs' = Tail(jobs)
    /\ working' = [working EXCEPT ![w] = Head(jobs)]
    /\ UNCHANGED <<coordinator, dispatcher, result, executor, waited>>

\* work takes a job; one whose context has ended is settled at once.
Take(w) ==
    /\ working[w] = None /\ jobs # <<>>
    /\ jobs' = Tail(jobs)
    /\ IF RunOf(Head(jobs)) \in over
       THEN Settle({Head(jobs)}, "context") /\ UNCHANGED working
       ELSE working' = [working EXCEPT ![w] = Head(jobs)] /\ UNCHANGED result
    /\ UNCHANGED <<coordinator, dispatcher, executor, waited>>

\* The job's function returns.
Finish(w) ==
    /\ working[w] # None
    /\ Settle({working[w]}, "ran")
    /\ working' = [working EXCEPT ![w] = None]
    /\ UNCHANGED <<coordinator, dispatcher, jobs, executor, waited>>

\* Syncer.Stop ends every context, ...
Stop ==
    /\ executor = "open"
    /\ executor' = "stopping"
    /\ over' = over \cup {ThisRun(t) : t \in {u \in Tasks : run[u] \in Runs}}
    /\ UNCHANGED <<at, run, sent, got, reply, dispatcher, jobs, working, result, waited>>

\* ... waits for the task workers and closes the executor: the dispatcher settles
\* the job it holds and what is in the queues, and closes the workers' channel.
Close ==
    /\ executor = "stopping" /\ \A t \in Tasks : at[t] = "idle"
    /\ executor' = "closed"
    /\ Settle(({pending} \ {None}) \cup UNION {Range(queue[t]) : t \in Range(order)}, "closed")
    /\ pending' = None
    /\ queue' = [t \in Tasks |-> <<>>]
    /\ waited' = [t \in Tasks |-> 0]
    /\ UNCHANGED <<coordinator, order, cursor, jobs, working>>

\* The workers have drained their channel, and Close returns.
Closed ==
    /\ executor = "closed" /\ jobs = <<>> /\ \A w \in Workers : working[w] = None
    /\ executor' = "done"
    /\ UNCHANGED <<coordinator, dispatcher, jobs, working, result, waited>>

Init ==
    /\ at    = [t \in Tasks |-> "idle"]
    /\ run   = [t \in Tasks |-> 0]
    /\ sent  = [t \in Tasks |-> 0]
    /\ got   = [t \in Tasks |-> 0]
    /\ reply = [t \in Tasks |-> "refused"]
    /\ over  = {}
    /\ queue = [t \in Tasks |-> <<>>]
    /\ order = <<>> /\ cursor = 0 /\ pending = None
    /\ jobs  = <<>>
    /\ working  = [w \in Workers |-> None]
    /\ result   = [j \in Jobs |-> "none"]
    /\ executor = "open"
    /\ waited   = [t \in Tasks |-> 0]

Next ==
    \/ \E t \in Tasks :
         \/ RegisterTask(t) \/ Registered(t) \/ RegisterAbandoned(t) \/ ContextEnds(t)
         \/ Submit(t) \/ SourceEnds(t) \/ Collect(t) \/ Collected(t)
         \/ Restart(t) \/ CutShort(t) \/ GiveUp(t) \/ Unregister(t)
    \/ PopReadyJob \/ Dispatch
    \/ \E w \in Workers : Take(w) \/ Finish(w)
    \/ Stop \/ Close \/ Closed

Spec == Init /\ [][Next]_vars

\* The dispatcher, the job workers and the coordinators are goroutines that the
\* runtime schedules; a job's function and a source's NextBatch return.  Nothing
\* says that a run is given up or starts over.
Fairness ==
    /\ WF_vars(PopReadyJob) /\ WF_vars(Dispatch) /\ WF_vars(Close) /\ WF_vars(Closed)
    /\ \A w \in Workers : WF_vars(Take(w)) /\ WF_vars(Finish(w))
    /\ \A t \in Tasks :
         /\ WF_vars(Registered(t) \/ RegisterAbandoned(t))
         /\ WF_vars(Submit(t) \/ SourceEnds(t))
         /\ WF_vars(Collect(t)) /\ WF_vars(Collected(t) \/ CutShort(t)) /\ WF_vars(Unregister(t))

FairSpec == Spec /\ Fairness

------------------------------------------------------------------------------
\* Everything has its type, the cursor is an index of the order, and a coordinator
\* at work has a run.
TypeOK ==
    /\ at \in [Tasks -> {"idle", "registering", "submitting", "collecting", "closing"}]
    /\ run \in [Tasks -> Runs \cup {0}] /\ \A t \in Tasks : at[t] # "idle" => run[t] \in Runs
    /\ sent \in [Tasks -> Batches \cup {0}] /\ got \in [Tasks -> Batches \cup {0}]
    /\ reply \in [Tasks -> {"queue", "refused"}]
    /\ over \subseteq Tasks \X (Runs \cup {0})
    /\ queue \in [Tasks -> Seq(Jobs)]
    /\ order \in Seq(Tasks)
    /\ cursor \in Nat /\ (cursor = 0 \/ cursor < Len(order))
    /\ pending \in Jobs \cup {None}
    /\ jobs \in Seq(Jobs)
    /\ working \in [Workers -> Jobs \cup {None}]
    /\ result \in [Jobs -> Results]
    /\ executor \in {"open", "stopping", "closed", "done"}
    /\ waited \in [Tasks -> Nat]

\* The places a job can be in on its way to a worker.
Queued(j)    == \E t \in Tasks : j \in Range(queue[t])
Unsettled(j) == Queued(j) \/ j = pending \/ j \in Range(jobs) \/ \E w \in Workers : working[w] = j

NoRepeat(s) == \A i, k \in DOMAIN s : s[i] = s[k] => i = k

\* A job is in one place at a time and in none once its done channel was sent to:
\* the channel has room for one result, so a second send by a worker or by
\* settleQueuedJobs would block it for ever.
SettledOnce ==
    /\ \A j \in Jobs : Unsettled(j) => result[j] = "none"
    /\ \A t \in Tasks : NoRepeat(queue[t])
    /\ NoRepeat(jobs)
    /\ \A j \in Jobs :
         /\ Queued(j) => j # pending
         /\ j \in Range(jobs) => ~Queued(j) /\ j # pending
         /\ \A w \in Workers : working[w] = j =>
              ~Queued(j) /\ j # pending /\ j \notin Range(jobs)
              /\ \A v \in Workers \ {w} : working[v] # j

\* Between two departures of tasks, a task with a queued job is passed over by each
\* other registered task at most once, however the others submit and join
\* (popReadyJob).  A departure may cost it a round: unregisterExecutorTask leaves
\* the cursor where it was, and with that on the task after the next.
BoundedWait == \A t \in Tasks : queue[t] # <<>> => waited[t] < Len(order)

\* A run that waits for results gets them and goes on: no job of a registered queue
\* is lost on the way, and no worker, dispatcher or coordinator waits for ever.
CollectEnds == \A t \in Tasks : at[t] = "collecting" ~> at[t] # "collecting"

\* Syncer.Stop returns: the runs end, the dispatcher leaves, and the workers drain
\* their channel, whichever jobs were queued, dispatched or dropped.
StopReturns == executor = "stopping" ~> executor = "done"

------------------------------------------------------------------------------
(* What the documentation or a comment says and the code does not do: see the
   README, section 3.  No run checks these. *)

\* A queue is registered for a running task only (the comment on RegisterTask).
QueueHasRun == \A t \in Range(order) : at[t] # "idle"

\* At any time the jobs of one run only write the documents of a task: a run ends,
\* and with it the connector lock, before the next run of the task begins.
OneRunWrites ==
    \A v, w \in Workers :
        working[v] # None /\ working[w] # None /\ working[v][1] = working[w][1]
            => RunOf(working[v]) = RunOf(working[w])
==============================================================================
