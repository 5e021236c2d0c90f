--------------------------- MODULE IngestorProofs ---------------------------
(***************************************************************************)
(* Proofs about Ingestor for every number of clients, processes, workers,  *)
(* tasks, messages and log rows, every set of requests and every budget of *)
(* faults and lapses; the last theorem is about one request at a time.     *)
(***************************************************************************)
EXTENDS Ingestor, TLAPS

------------------------------------------------------------------------------
(* Type correctness.  TypeOK is not inductive: which task an actor works on   *)
(* and which status a rollback restores depend on where the actor is.         *)

\* Where an actor works on a task it has read or been handed.
TaskLabels == Labels \ {"idle", "Boot", "ParseRead", "Create", "ClearDelete"}

\* A message carries a task, an actor at a TaskLabel has one, and a rollback
\* knows what it undoes.
Known ==
    /\ \A m \in MsgIds : mstate[m] # "free" => mtask[m] \in Tasks
    /\ \A a \in Actors : pc[a] \in TaskLabels => job[a] \in Tasks
    /\ \A a \in Actors : pc[a] = "Rollback" => mode[a] \in {"new", "FAILED", "STOPPED"}

ServiceInv == ServiceTypeOK /\ Known

\* A worker holds a message that was published.
Published == \A w \in Workers : held[w] \in MsgIds => mtask[held[w]] \in Tasks

\* TypeOK, strengthened to be preserved by every step.
TypeInv == ServiceInv /\ IngestorTypeOK /\ Published

\* A fault stays within its budget.
LEMMA FaultType ==
    ASSUME ServiceTypeOK, Fault
    PROVE  faults' \in 0 .. MaxFaults
  BY ServiceAssumption DEF ServiceTypeOK, Fault

\* The guarded UPDATE of the DAO keeps a log table a log table.
LEMMA AdvanceType ==
    ASSUME ServiceTypeOK, NEW l, NEW from, NEW to \in LogStates
    PROVE  AdvanceOpenLog(logs, l, from, to) \in [LogIds -> LogStates]
  BY DEF ServiceTypeOK, AdvanceOpenLog

\* So does the guarded DELETE.
LEMMA DeleteType ==
    ASSUME ServiceTypeOK, NEW l
    PROVE  DeleteOpenLogByID(logs, l) \in [LogIds -> LogStates]
  BY DEF ServiceTypeOK, DeleteOpenLogByID, AdvanceOpenLog, LogStates

\* createOpenLogBestEffort keeps the tables well typed, and so does the caller's
\* copy of the row id.
LEMMA CreateOpenLogType ==
    ASSUME ServiceTypeOK, NEW t \in Tasks, NEW to \in LogStates, NEW l \in LogIds \cup {NoLog},
           createOpenLog(t, to)
    PROVE  /\ logs' \in [LogIds -> LogStates]
           /\ bound' \in [Tasks -> LogIds \cup {NoLog}]
           /\ CopyAfter(t, l) \in LogIds \cup {NoLog}
<1>1. logs' \in [LogIds -> LogStates] /\ bound' \in [Tasks -> LogIds \cup {NoLog}]
  <2>1. CASE UNCHANGED <<logs, bound>>
    BY <2>1 DEF ServiceTypeOK
  <2>2. CASE \E n \in NextLogId(logs) :
               /\ logs' = [k \in LogIds |->
                             IF k = n THEN to
                             ELSE IF k \in GetOpenLogByDocumentID(logs) THEN "deleted"
                             ELSE logs[k]]
               /\ bound' = [bound EXCEPT ![t] = n]
    <3>1. "deleted" \in LogStates
      BY DEF LogStates
    <3> QED BY <2>2, <3>1 DEF ServiceTypeOK, NextLogId
  <2> QED BY <2>1, <2>2 DEF createOpenLog
<1>2. CopyAfter(t, l) \in LogIds \cup {NoLog}
  BY <1>1 DEF CopyAfter
<1> QED BY <1>1, <1>2

\* advanceOpenLog, whichever of its branches is taken.
LEMMA AdvanceOpenLogType ==
    ASSUME ServiceTypeOK, NEW t \in Tasks, NEW to \in LogStates, NEW l \in LogIds \cup {NoLog},
           NEW s, NEW from, NEW reopen,
           advanceOpenLog(t, l, s, from, to, reopen)
    PROVE  /\ logs' \in [LogIds -> LogStates]
           /\ bound' \in [Tasks -> LogIds \cup {NoLog}]
           /\ CopyAfter(t, NoLog) \in LogIds \cup {NoLog}
<1>1. CASE l # NoLog
  BY <1>1, AdvanceType DEF advanceOpenLog, ServiceTypeOK, CopyAfter
<1>2. CASE l = NoLog /\ reopen /\ s \in ActiveTaskStatuses
  BY <1>2, CreateOpenLogType DEF advanceOpenLog
<1>3. CASE l = NoLog /\ ~ (reopen /\ s \in ActiveTaskStatuses)
  BY <1>3 DEF advanceOpenLog, ServiceTypeOK, CopyAfter
<1> QED BY <1>1, <1>2, <1>3

\* Every step of a request, and of the service code an ingestor calls, preserves
\* the invariant.
LEMMA ServiceSteps ==
    ASSUME ServiceInv, NEW c \in Actors, ClientStep(c)
    PROVE  ServiceInv'
<1> USE ServiceAssumption
<1> USE DEF ServiceInv, ServiceTypeOK, Known, TaskLabels, Labels, ClientLabels, WorkerLabels,
            RunLabels, Modes, db, broker
<1>1. CASE AskParse(c)
  <2>1. ServiceTypeOK'
    BY <1>1 DEF AskParse, Ask, Goto
  <2>2. Known'
    BY <1>1 DEF AskParse, Ask, Goto
  <2> QED BY <2>1, <2>2
<1>2. CASE AskReparse(c)
  <2>1. ServiceTypeOK'
    BY <1>2 DEF AskReparse, Ask, Rows, isRunningOrStopping
  <2>2. Known'
    BY <1>2 DEF AskReparse, Ask, Rows, isRunningOrStopping
  <2> QED BY <2>1, <2>2
<1>3. CASE AskStop(c)
  <2>1. ServiceTypeOK'
    BY <1>3 DEF AskStop, Ask, Rows
  <2>2. Known'
    BY <1>3 DEF AskStop, Ask, Rows
  <2> QED BY <2>1, <2>2
<1>4. CASE AskRemove(c)
  <2>1. ServiceTypeOK'
    BY <1>4 DEF AskRemove, Ask, Rows
  <2>2. Known'
    BY <1>4 DEF AskRemove, Ask, Rows
  <2> QED BY <2>1, <2>2
<1>5. CASE AskDelete(c)
  <2>1. ServiceTypeOK'
    BY <1>5 DEF AskDelete, Ask, Rows
  <2>2. Known'
    BY <1>5 DEF AskDelete, Ask, Rows
  <2> QED BY <2>1, <2>2
<1>6. CASE ParseRead(c)
  <2>1. ServiceTypeOK'
    BY <1>6 DEF ParseRead, Rows, Statuses, Goto, Finish
  <2>2. Known'
    BY <1>6 DEF ParseRead, Rows, Statuses, Goto, Finish
  <2> QED BY <2>1, <2>2
<1>7. CASE Create(c)
  <2>1. ServiceTypeOK'
    BY <1>7 DEF Create, Finish, RowStates, Statuses
  <2>2. Known'
    BY <1>7 DEF Create, Finish, RowStates, Statuses
  <2> QED BY <2>1, <2>2
<1>8. CASE Retry(c)
  <2>1. ServiceTypeOK'
    BY <1>8, FaultType DEF Retry, transition, transitionRefused, RowStates, Statuses, Finish
  <2>2. Known'
    BY <1>8 DEF Retry, transition, transitionRefused, RowStates, Statuses, Finish
  <2> QED BY <2>1, <2>2
<1>9. CASE RetryFlag(c)
  <2>1. ServiceTypeOK'
    BY <1>9 DEF RetryFlag, Goto
  <2>2. Known'
    BY <1>9 DEF RetryFlag, Goto
  <2> QED BY <2>1, <2>2
<1>10. CASE OpenLog(c)
  <2>1. ServiceTypeOK'
    BY <1>10, FaultType, CreateOpenLogType DEF OpenLog, LogStates, OpenPipelineOperationStatuses
  <2>2. Known'
    BY <1>10 DEF OpenLog, LogStates, OpenPipelineOperationStatuses
  <2> QED BY <2>1, <2>2
<1>11. CASE Publish(c)
  <2>1. ServiceTypeOK'
    BY <1>11, FaultType DEF Publish, Enqueue, MsgStates, Goto, Finish
  <2>2. Known'
    BY <1>11 DEF Publish, Enqueue, MsgStates, Goto, Finish
  <2> QED BY <2>1, <2>2
<1>12. CASE MarkScheduled(c)
  <2>1. ServiceTypeOK'
    BY <1>12, FaultType DEF MarkScheduled, UpdateStatusIfCurrent, RowStates, Statuses, Goto, Finish
  <2>2. Known'
    BY <1>12 DEF MarkScheduled, UpdateStatusIfCurrent, RowStates, Statuses, Goto, Finish
  <2> QED BY <2>1, <2>2
<1>13. CASE ScheduledLog(c)
  <2>1. ServiceTypeOK'
    BY <1>13, FaultType, AdvanceOpenLogType DEF ScheduledLog, LogStates, OpenPipelineOperationStatuses, Finish
  <2>2. Known'
    BY <1>13 DEF ScheduledLog, LogStates, OpenPipelineOperationStatuses, Finish
  <2> QED BY <2>1, <2>2
<1>14. CASE DropLog(c)
  <2>1. ServiceTypeOK'
    BY <1>14, FaultType, DeleteType DEF DropLog, Goto, Finish
  <2>2. Known'
    BY <1>14 DEF DropLog, Goto, Finish
  <2> QED BY <2>1, <2>2
<1>15. CASE Rollback(c)
  <2>1. ServiceTypeOK'
    BY <1>15, FaultType DEF Rollback, UpdateStatusIfCurrent, RowStates, Statuses, Finish
  <2>2. Known'
    BY <1>15 DEF Rollback, UpdateStatusIfCurrent, RowStates, Statuses, Finish
  <2> QED BY <2>1, <2>2
<1>16. CASE RequestStop(c)
  <2>1. ServiceTypeOK'
    BY <1>16, FaultType DEF RequestStop, StopAnswer, Goto, Finish
  <2>2. Known'
    BY <1>16 DEF RequestStop, StopAnswer, Goto, Finish
  <2> QED BY <2>1, <2>2
<1>17. CASE StopQueued(c)
  <2>1. ServiceTypeOK'
    BY <1>17, FaultType DEF StopQueued, UpdateStatusIfCurrent, RowStates, Statuses, StopAnswer, Goto, Finish
  <2>2. Known'
    BY <1>17 DEF StopQueued, UpdateStatusIfCurrent, RowStates, Statuses, StopAnswer, Goto, Finish
  <2> QED BY <2>1, <2>2
<1>18. CASE StopQueuedLog(c)
  <2>1. ServiceTypeOK'
    BY <1>18, FaultType, AdvanceType DEF StopQueuedLog, LogStates, ClosedStatuses, StopAnswer, Goto, Finish
  <2>2. Known'
    BY <1>18 DEF StopQueuedLog, LogStates, ClosedStatuses, StopAnswer, Goto, Finish
  <2> QED BY <2>1, <2>2
<1>19. CASE StopRunning(c)
  <2>1. ServiceTypeOK'
    BY <1>19, FaultType DEF StopRunning, transition, transitionRefused, RowStates, Statuses, StopAnswer, Goto, Finish
  <2>2. Known'
    BY <1>19 DEF StopRunning, transition, transitionRefused, RowStates, Statuses, StopAnswer, Goto, Finish
  <2> QED BY <2>1, <2>2
<1>20. CASE StopFlag(c)
  <2>1. ServiceTypeOK'
    BY <1>20 DEF StopFlag, StopAnswer, Goto, Finish
  <2>2. Known'
    BY <1>20 DEF StopFlag, StopAnswer, Goto, Finish
  <2> QED BY <2>1, <2>2
<1>21. CASE Delete(c)
  <2>1. ServiceTypeOK'
    BY <1>21, FaultType DEF Delete, UpdateStatusIfCurrent, RowStates, Goto, Finish
  <2>2. Known'
    BY <1>21 DEF Delete, UpdateStatusIfCurrent, RowStates, Goto, Finish
  <2> QED BY <2>1, <2>2
<1>22. CASE ClearDelete(c)
  <2>1. ServiceTypeOK'
    BY <1>22, FaultType DEF ClearDelete, RowStates, Goto, Finish
  <2>2. Known'
    BY <1>22 DEF ClearDelete, RowStates, Goto, Finish
  <2> QED BY <2>1, <2>2
<1>23. CASE ClientCrash(c)
  <2>1. ServiceTypeOK'
    BY <1>23, FaultType DEF ClientCrash, Finish
  <2>2. Known'
    BY <1>23 DEF ClientCrash, Finish
  <2> QED BY <2>1, <2>2
<1> QED BY <1>1, <1>2, <1>3, <1>4, <1>5, <1>6, <1>7, <1>8, <1>9, <1>10, <1>11, <1>12, <1>13, <1>14, <1>15, <1>16, <1>17, <1>18, <1>19, <1>20, <1>21, <1>22, <1>23 DEF ClientStep

\* Only a publish changes what a message carries, and it carries a task.
LEMMA TasksStay ==
    ASSUME ServiceInv, NEW c \in Actors, ClientStep(c), NEW m \in MsgIds, mtask[m] \in Tasks
    PROVE  mtask'[m] \in Tasks
<1>1. CASE Publish(c)
  BY <1>1 DEF Publish, Enqueue, broker, ServiceInv, ServiceTypeOK, Known, TaskLabels, Labels, ClientLabels
<1>2. CASE ~ Publish(c)
  BY <1>2 DEF ClientStep, broker, AskParse, AskReparse, AskStop, AskRemove, AskDelete, ParseRead,
      Create, Retry, RetryFlag, OpenLog, MarkScheduled, ScheduledLog, DropLog, Rollback,
      RequestStop, StopQueued, StopQueuedLog, StopRunning, StopFlag, Delete, ClearDelete, ClientCrash
<1> QED BY <1>1, <1>2

\* The terminal writer keeps a log table a log table.
LEMMA RecordType ==
    ASSUME ServiceTypeOK, NEW l, NEW to \in ClosedStatuses, recordPipelineLog(l, to)
    PROVE  logs' \in [LogIds -> LogStates]
<1>1. to \in LogStates
  BY DEF LogStates
<1> QED BY <1>1, AdvanceType DEF recordPipelineLog, NextLogId, ServiceTypeOK

\* A worker that comes to rest keeps its own state well typed, and works on nothing.
LEMMA RestType ==
    ASSUME ServiceTypeOK, Known, IngestorTypeOK, NEW w \in Workers, Rest(w)
    PROVE  /\ pc' \in [Actors -> Labels] /\ job' \in [Actors -> Tasks \cup {NoTask}]
           /\ snap' \in [Actors -> LogIds \cup {NoLog}] /\ mode' \in [Actors -> Modes]
           /\ held' \in [Workers -> MsgIds \cup {NoMsg}] /\ owned' \in [Workers -> BOOLEAN]
           /\ cancelled' \in [Workers -> BOOLEAN] /\ term' \in [Workers -> BOOLEAN]
           /\ tries' \in [Workers -> 0 .. MaxTries - 1]
           /\ \A a \in Actors : pc'[a] \in TaskLabels => job'[a] \in Tasks
           /\ \A a \in Actors : pc'[a] = "Rollback" => mode'[a] \in {"new", "FAILED", "STOPPED"}
  BY DEF ServiceTypeOK, IngestorTypeOK, Known, Rest, Actors, TaskLabels, Labels, Modes, MaxTries,
         NoMsg, NoLog

\* Stream sequence numbers start at 1.
LEMMA NoMsgId == NoMsg \notin MsgIds
  BY ServiceAssumption DEF NoMsg

\* Every step of a worker preserves the invariant.
LEMMA WorkSteps ==
    ASSUME ServiceTypeOK, Known, IngestorTypeOK, Published, NEW w \in Workers, Work(w)
    PROVE  TypeInv'
<1> USE ServiceAssumption
<1> USE DEF TaskLabels, Labels, ClientLabels, WorkerLabels, RunLabels, Modes, Actors, db, broker, actor, worker,
            process, elsewhere
<1>1. CASE StartRunning(w)
  <2>1. ServiceTypeOK'
    BY <1>1, FaultType DEF ServiceTypeOK, Known, StartRunning, Fails, Goto
  <2>2. Known'
    BY <1>1 DEF ServiceTypeOK, Known, StartRunning, Fails, Goto
  <2>3. IngestorTypeOK' /\ Published'
    BY <1>1 DEF IngestorTypeOK, Published, StartRunning
  <2> QED BY <2>1, <2>2, <2>3 DEF TypeInv, ServiceInv
<1>2. CASE StartCAS(w)
  <2>1. ServiceTypeOK'
    BY <1>2, FaultType DEF ServiceTypeOK, Known, StartCAS, UpdateStatusIfCurrent, RowStates, Statuses, Fails, Goto
  <2>2. Known'
    BY <1>2 DEF ServiceTypeOK, Known, StartCAS, UpdateStatusIfCurrent, RowStates, Statuses, Fails, Goto
  <2>3. IngestorTypeOK' /\ Published'
    BY <1>2 DEF IngestorTypeOK, Published, StartCAS
  <2> QED BY <2>1, <2>2, <2>3 DEF TypeInv, ServiceInv
<1>3. CASE StartReread(w)
  <2>1. job[w] \in Tasks /\ bound[job[w]] \in LogIds \cup {NoLog}
    BY <1>3 DEF StartReread, ServiceTypeOK, Known
  <2>2. faults' \in 0 .. MaxFaults
    BY <1>3, FaultType DEF StartReread, Fails, Goto, ServiceTypeOK
  <2>3. /\ logs' \in [LogIds -> LogStates]
        /\ bound' \in [Tasks -> LogIds \cup {NoLog}]
        /\ CopyAfter(job[w], NoLog) \in LogIds \cup {NoLog}
    <3>1. CASE UNCHANGED <<logs, bound>>
      BY <2>1, <3>1 DEF ServiceTypeOK, CopyAfter
    <3>2. CASE advanceOpenLog(job[w], bound[job[w]], status[job[w]],
                              {"unstart", "schedule"}, "running", TRUE)
      BY <2>1, <3>2, AdvanceOpenLogType DEF LogStates, OpenPipelineOperationStatuses
    <3> QED BY <1>3, <3>1, <3>2 DEF StartReread
  <2>4. /\ \E l \in {"Claim", "Ack", "Nack"} : pc' = [pc EXCEPT ![w] = l]
        /\ \E l \in LogIds \cup {NoLog} : snap' = [snap EXCEPT ![w] = l] \/ snap' = snap
        /\ UNCHANGED <<job, mode, status, flag, broker, worker, elsewhere>>
    BY <1>3, <2>1, <2>3 DEF StartReread, Goto
  <2>5. ServiceTypeOK'
    BY <2>2, <2>3, <2>4 DEF ServiceTypeOK, Known
  <2>6. Known'
    BY <2>1, <2>4 DEF ServiceTypeOK, Known
  <2>7. IngestorTypeOK' /\ Published'
    BY <2>4 DEF IngestorTypeOK, Published
  <2> QED BY <2>5, <2>6, <2>7 DEF TypeInv, ServiceInv
<1>4. CASE StartStop(w)
  <2>1. ServiceTypeOK'
    BY <1>4, FaultType DEF ServiceTypeOK, Known, StartStop, transition, transitionRefused, RowStates, Statuses, Fails, Goto
  <2>2. Known'
    BY <1>4 DEF ServiceTypeOK, Known, StartStop, transition, transitionRefused, RowStates, Statuses, Fails, Goto
  <2>3. IngestorTypeOK' /\ Published'
    BY <1>4 DEF IngestorTypeOK, Published, StartStop
  <2> QED BY <2>1, <2>2, <2>3 DEF TypeInv, ServiceInv
<1>5. CASE StartStopLog(w)
  <2>1. ServiceTypeOK'
    BY <1>5, FaultType, AdvanceType DEF ServiceTypeOK, Known, StartStopLog, LogStates, ClosedStatuses, Fails, Goto
  <2>2. Known'
    BY <1>5 DEF ServiceTypeOK, Known, StartStopLog, LogStates, ClosedStatuses, Fails, Goto
  <2>3. IngestorTypeOK' /\ Published'
    BY <1>5 DEF IngestorTypeOK, Published, StartStopLog
  <2> QED BY <2>1, <2>2, <2>3 DEF TypeInv, ServiceInv
<1>6. CASE Claim(w)
  <2>1. CASE job[w] \notin claimed[ProcOf[w]]
    <3>1. job[w] \in Tasks /\ ProcOf[w] \in Procs
      BY <1>6, IngestorAssumption DEF Claim, ServiceTypeOK, Known
    <3>2. /\ claimed' = [claimed EXCEPT ![ProcOf[w]] = claimed[ProcOf[w]] \cup {job[w]}]
          /\ owned' = [owned EXCEPT ![w] = TRUE]
          /\ Goto(w, "PreCheck")
          /\ UNCHANGED <<db, flag, broker, held, cancelled, term, tries, proc, todo, lapses, asks, faults>>
      BY <1>6, <2>1 DEF Claim
    <3>3. ServiceTypeOK' /\ Known'
      BY <3>1, <3>2 DEF Goto, ServiceTypeOK, Known
    <3>4. IngestorTypeOK' /\ Published'
      BY <3>1, <3>2 DEF IngestorTypeOK, Published
    <3> QED BY <3>3, <3>4 DEF TypeInv, ServiceInv
  <2>2. CASE job[w] \in claimed[ProcOf[w]]
    <3>1. Rest(w) /\ UNCHANGED <<claimed, db, flag, broker, proc, todo, lapses, asks, faults>>
      BY <1>6, <2>2 DEF Claim
    <3>2. ServiceTypeOK' /\ Known'
      BY <3>1, RestType DEF ServiceTypeOK, Known
    <3>3. IngestorTypeOK'
      BY <3>1, RestType DEF IngestorTypeOK
    <3>4. Published'
      BY <3>1, NoMsgId DEF Published, Rest, IngestorTypeOK
    <3> QED BY <3>2, <3>3, <3>4 DEF TypeInv, ServiceInv
  <2> QED BY <2>1, <2>2
<1>7. CASE PreCheck(w)
  <2>1. ServiceTypeOK'
    BY <1>7 DEF ServiceTypeOK, Known, PreCheck
  <2>2. Known'
    BY <1>7 DEF ServiceTypeOK, Known, PreCheck, Stopping
  <2>3. IngestorTypeOK' /\ Published'
    BY <1>7 DEF IngestorTypeOK, Published, PreCheck
  <2> QED BY <2>1, <2>2, <2>3 DEF TypeInv, ServiceInv
<1>8. CASE Prepare(w)
  <2>1. ServiceTypeOK'
    <3>1. flag' \in [Tasks -> BOOLEAN]
      BY <1>8 DEF ServiceTypeOK, Prepare
    <3>2. /\ pc' \in [Actors -> Labels] /\ mode' \in [Actors -> Modes]
          /\ UNCHANGED <<job, snap, db, broker, asks>>
      BY <1>8 DEF ServiceTypeOK, Prepare, Goto
    <3>3. faults' \in 0 .. MaxFaults
      BY <1>8, FaultType DEF ServiceTypeOK, Prepare
    <3> QED BY <3>1, <3>2, <3>3 DEF ServiceTypeOK
  <2>2. Known'
    BY <1>8 DEF ServiceTypeOK, Known, Prepare, Goto
  <2>3. IngestorTypeOK' /\ Published'
    BY <1>8 DEF IngestorTypeOK, Published, Prepare
  <2> QED BY <2>1, <2>2, <2>3 DEF TypeInv, ServiceInv
<1>9. CASE ExecDone(w)
  <2>1. ServiceTypeOK'
    BY <1>9, FaultType, RecordType DEF ServiceTypeOK, Known, ExecDone, Goto, ClosedStatuses
  <2>2. Known'
    BY <1>9 DEF ServiceTypeOK, Known, ExecDone, Goto
  <2>3. IngestorTypeOK' /\ Published'
    BY <1>9 DEF IngestorTypeOK, Published, ExecDone
  <2> QED BY <2>1, <2>2, <2>3 DEF TypeInv, ServiceInv
<1>10. CASE ExecFail(w)
  <2>1. ServiceTypeOK'
    BY <1>10 DEF ServiceTypeOK, Known, ExecFail
  <2>2. Known'
    BY <1>10 DEF ServiceTypeOK, Known, ExecFail
  <2>3. IngestorTypeOK' /\ Published'
    BY <1>10 DEF IngestorTypeOK, Published, ExecFail
  <2> QED BY <2>1, <2>2, <2>3 DEF TypeInv, ServiceInv
<1>11. CASE ExecPanic(w)
  <2>1. ServiceTypeOK'
    BY <1>11, FaultType DEF ServiceTypeOK, Known, ExecPanic
  <2>2. Known'
    BY <1>11 DEF ServiceTypeOK, Known, ExecPanic
  <2>3. IngestorTypeOK' /\ Published'
    BY <1>11 DEF IngestorTypeOK, Published, ExecPanic
  <2> QED BY <2>1, <2>2, <2>3 DEF TypeInv, ServiceInv
<1>12. CASE ExecCancelled(w)
  <2>1. ServiceTypeOK'
    BY <1>12 DEF ServiceTypeOK, Known, ExecCancelled
  <2>2. Known'
    BY <1>12 DEF ServiceTypeOK, Known, ExecCancelled
  <2>3. IngestorTypeOK' /\ Published'
    BY <1>12 DEF IngestorTypeOK, Published, ExecCancelled
  <2> QED BY <2>1, <2>2, <2>3 DEF TypeInv, ServiceInv
<1>13. CASE Complete(w)
  <2>1. ServiceTypeOK'
    BY <1>13, FaultType DEF ServiceTypeOK, Known, Complete, Fails, Goto
  <2>2. Known'
    BY <1>13 DEF ServiceTypeOK, Known, Complete, Fails, Goto
  <2>3. IngestorTypeOK' /\ Published'
    BY <1>13 DEF IngestorTypeOK, Published, Complete
  <2> QED BY <2>1, <2>2, <2>3 DEF TypeInv, ServiceInv
<1>14. CASE CompleteCAS(w)
  <2>1. ServiceTypeOK'
    BY <1>14, FaultType DEF ServiceTypeOK, Known, CompleteCAS, transition, transitionRefused, RowStates, Statuses, Fails, Goto
  <2>2. Known'
    BY <1>14 DEF ServiceTypeOK, Known, CompleteCAS, transition, transitionRefused, RowStates, Statuses, Fails, Goto
  <2>3. IngestorTypeOK' /\ Published'
    BY <1>14 DEF IngestorTypeOK, Published, CompleteCAS
  <2> QED BY <2>1, <2>2, <2>3 DEF TypeInv, ServiceInv
<1>15. CASE SettleTerminal(w)
  <2>1. ServiceTypeOK'
    BY <1>15, FaultType DEF ServiceTypeOK, Known, SettleTerminal, Fails, Goto
  <2>2. Known'
    BY <1>15 DEF ServiceTypeOK, Known, SettleTerminal, Fails, Goto
  <2>3. IngestorTypeOK' /\ Published'
    BY <1>15 DEF IngestorTypeOK, Published, SettleTerminal
  <2> QED BY <2>1, <2>2, <2>3 DEF TypeInv, ServiceInv
<1>16. CASE CompleteFailed(w)
  <2>1. ServiceTypeOK'
    BY <1>16 DEF ServiceTypeOK, Known, CompleteFailed, Goto, MaxTries
  <2>2. Known'
    BY <1>16 DEF ServiceTypeOK, Known, CompleteFailed, Goto, MaxTries
  <2>3. IngestorTypeOK' /\ Published'
    BY <1>16 DEF IngestorTypeOK, Published, CompleteFailed, MaxTries
  <2> QED BY <2>1, <2>2, <2>3 DEF TypeInv, ServiceInv
<1>17. CASE MarkStopped(w)
  <2>1. ServiceTypeOK'
    BY <1>17, FaultType DEF ServiceTypeOK, Known, MarkStopped, StopAnswer, Goto
  <2>2. Known'
    BY <1>17 DEF ServiceTypeOK, Known, MarkStopped, StopAnswer, Goto
  <2>3. IngestorTypeOK' /\ Published'
    BY <1>17 DEF IngestorTypeOK, Published, MarkStopped
  <2> QED BY <2>1, <2>2, <2>3 DEF TypeInv, ServiceInv
<1>18. CASE MarkStoppedCAS(w)
  <2>1. ServiceTypeOK'
    BY <1>18, FaultType DEF ServiceTypeOK, Known, MarkStoppedCAS, transition, transitionRefused, RowStates, Statuses, StopAnswer, Goto
  <2>2. Known'
    BY <1>18 DEF ServiceTypeOK, Known, MarkStoppedCAS, transition, transitionRefused, RowStates, Statuses, StopAnswer, Goto
  <2>3. IngestorTypeOK' /\ Published'
    BY <1>18 DEF IngestorTypeOK, Published, MarkStoppedCAS
  <2> QED BY <2>1, <2>2, <2>3 DEF TypeInv, ServiceInv
<1>19. CASE ClearFlag(w)
  <2>1. ServiceTypeOK'
    BY <1>19 DEF ServiceTypeOK, Known, ClearFlag, Goto
  <2>2. Known'
    BY <1>19 DEF ServiceTypeOK, Known, ClearFlag, Goto
  <2>3. IngestorTypeOK' /\ Published'
    BY <1>19 DEF IngestorTypeOK, Published, ClearFlag
  <2> QED BY <2>1, <2>2, <2>3 DEF TypeInv, ServiceInv
<1>20. CASE MarkFailed(w)
  <2>1. ServiceTypeOK'
    BY <1>20, FaultType DEF ServiceTypeOK, Known, MarkFailed, Goto
  <2>2. Known'
    BY <1>20 DEF ServiceTypeOK, Known, MarkFailed, Goto
  <2>3. term' \in [Workers -> BOOLEAN]
    BY <1>20 DEF IngestorTypeOK, MarkFailed
  <2>4. UNCHANGED <<held, owned, cancelled, tries, elsewhere, mtask>>
    BY <1>20 DEF MarkFailed
  <2>5. IngestorTypeOK' /\ Published'
    BY <2>3, <2>4 DEF IngestorTypeOK, Published
  <2> QED BY <2>1, <2>2, <2>5 DEF TypeInv, ServiceInv
<1>21. CASE MarkFailedCAS(w)
  <2>1. ServiceTypeOK'
    BY <1>21, FaultType DEF ServiceTypeOK, Known, MarkFailedCAS, transition, transitionRefused, RowStates, Statuses, Goto
  <2>2. Known'
    BY <1>21 DEF ServiceTypeOK, Known, MarkFailedCAS, transition, transitionRefused, RowStates, Statuses, Goto
  <2>3. term' \in [Workers -> BOOLEAN]
    BY <1>21 DEF IngestorTypeOK, MarkFailedCAS
  <2>4. UNCHANGED <<held, owned, cancelled, tries, elsewhere, mtask>>
    BY <1>21 DEF MarkFailedCAS
  <2>5. IngestorTypeOK' /\ Published'
    BY <2>3, <2>4 DEF IngestorTypeOK, Published
  <2> QED BY <2>1, <2>2, <2>5 DEF TypeInv, ServiceInv
<1>22. CASE TerminalLog(w)
  <2>1. ServiceTypeOK'
    BY <1>22, FaultType, RecordType DEF ServiceTypeOK, Known, TerminalLog, Goto, ClosedStatuses
  <2>2. Known'
    BY <1>22 DEF ServiceTypeOK, Known, TerminalLog, Goto
  <2>3. IngestorTypeOK' /\ Published'
    BY <1>22 DEF IngestorTypeOK, Published, TerminalLog
  <2> QED BY <2>1, <2>2, <2>3 DEF TypeInv, ServiceInv
<1>23. CASE Settle(w)
  <2>1. ServiceTypeOK'
    BY <1>23, FaultType DEF ServiceTypeOK, Known, Settle, Fails, Goto
  <2>2. Known'
    BY <1>23 DEF ServiceTypeOK, Known, Settle, Fails, Goto
  <2>3. IngestorTypeOK' /\ Published'
    BY <1>23 DEF IngestorTypeOK, Published, Settle
  <2> QED BY <2>1, <2>2, <2>3 DEF TypeInv, ServiceInv
<1>24. CASE Ack(w)
  <2>1. claimed' \in [Procs -> SUBSET Tasks]
    BY <1>24, IngestorAssumption DEF Ack, releaseTask, IngestorTypeOK
  <2>2. faults' \in 0 .. MaxFaults /\ mstate' \in [MsgIds -> MsgStates]
    BY <1>24, FaultType DEF Ack, MsgStates, ServiceTypeOK
  <2>3. \A m \in MsgIds : mstate'[m] # "free" => mtask[m] \in Tasks
    BY <1>24 DEF Ack, ServiceTypeOK, Known, Published
  <2>4. Rest(w) /\ UNCHANGED <<db, flag, mtask, proc, todo, lapses, asks>>
    BY <1>24 DEF Ack
  <2>5. ServiceTypeOK' /\ Known'
    BY <2>2, <2>3, <2>4, RestType DEF ServiceTypeOK, Known
  <2>6. IngestorTypeOK'
    BY <2>1, <2>4, RestType DEF IngestorTypeOK
  <2>7. Published'
    BY <2>4, NoMsgId DEF Published, Rest, IngestorTypeOK
  <2> QED BY <2>5, <2>6, <2>7 DEF TypeInv, ServiceInv
<1>25. CASE Nack(w)
  <2>1. claimed' \in [Procs -> SUBSET Tasks]
    BY <1>25, IngestorAssumption DEF Nack, releaseTask, IngestorTypeOK
  <2>2. faults' \in 0 .. MaxFaults /\ mstate' \in [MsgIds -> MsgStates]
    BY <1>25, FaultType DEF Nack, MsgStates, ServiceTypeOK
  <2>3. \A m \in MsgIds : mstate'[m] # "free" => mtask[m] \in Tasks
    BY <1>25 DEF Nack, ServiceTypeOK, Known, Published
  <2>4. Rest(w) /\ UNCHANGED <<db, flag, mtask, proc, todo, lapses, asks>>
    BY <1>25 DEF Nack
  <2>5. ServiceTypeOK' /\ Known'
    BY <2>2, <2>3, <2>4, RestType DEF ServiceTypeOK, Known
  <2>6. IngestorTypeOK'
    BY <2>1, <2>4, RestType DEF IngestorTypeOK
  <2>7. Published'
    BY <2>4, NoMsgId DEF Published, Rest, IngestorTypeOK
  <2> QED BY <2>5, <2>6, <2>7 DEF TypeInv, ServiceInv
<1>26. CASE Stops(w)
  <2>1. ServiceInv'
    BY <1>26, ServiceSteps DEF Stops, ClientStep, ServiceInv
  <2>2. IngestorTypeOK'
    BY <1>26 DEF IngestorTypeOK, Stops
  <2>3. Published'
    BY <1>26, TasksStay DEF Published, Stops, ClientStep, ServiceInv
  <2> QED BY <2>1, <2>2, <2>3 DEF TypeInv, ServiceInv
<1> QED BY <1>1, <1>2, <1>3, <1>4, <1>5, <1>6, <1>7, <1>8, <1>9, <1>10, <1>11, <1>12, <1>13, <1>14, <1>15, <1>16, <1>17, <1>18, <1>19, <1>20, <1>21, <1>22, <1>23, <1>24, <1>25, <1>26 DEF Work

\* So does every other step.
LEMMA TypeStep ==
    ASSUME ServiceTypeOK, Known, IngestorTypeOK, Published, [Next]_vars
    PROVE  TypeInv'
<1> USE ServiceAssumption, IngestorAssumption
<1> USE DEF TaskLabels, Labels, ClientLabels, WorkerLabels, RunLabels, Modes, Actors, db, broker, actor, worker,
            process, elsewhere
<1>1. ASSUME NEW c \in Clients, Client(c)
      PROVE  TypeInv'
  <2>1. ServiceInv'
    BY <1>1, ServiceSteps DEF Client, ServiceInv
  <2>2. IngestorTypeOK'
    BY <1>1 DEF IngestorTypeOK, Client
  <2>3. Published'
    BY <1>1, TasksStay DEF Published, Client, ServiceInv
  <2> QED BY <2>1, <2>2, <2>3 DEF TypeInv, ServiceInv
<1>2. ASSUME NEW p \in Procs, Scheduling(p)
      PROVE  TypeInv'
  <2>1. ServiceInv'
    BY <1>2, ServiceSteps DEF Scheduling, ClientStep, ServiceInv
  <2>2. IngestorTypeOK'
    BY <1>2 DEF IngestorTypeOK, Scheduling
  <2>3. Published'
    BY <1>2, TasksStay DEF Published, Scheduling, ClientStep, ServiceInv
  <2> QED BY <2>1, <2>2, <2>3 DEF TypeInv, ServiceInv
<1>3. ASSUME NEW p \in Procs, StartProc(p)
      PROVE  TypeInv'
  <2>1. ServiceTypeOK'
    BY <1>3, FaultType DEF ServiceTypeOK, Known, StartProc
  <2>2. Known'
    BY <1>3 DEF ServiceTypeOK, Known, StartProc
  <2>3. IngestorTypeOK' /\ Published'
    BY <1>3 DEF IngestorTypeOK, Published, StartProc
  <2> QED BY <2>1, <2>2, <2>3 DEF TypeInv, ServiceInv
<1>4. ASSUME NEW p \in Procs, Boot(p)
      PROVE  TypeInv'
  <2>1. CASE todo[p] = {}
    <3>1. ServiceTypeOK' /\ Known'
      BY <1>4, <2>1 DEF Boot, ServiceTypeOK, Known
    <3>2. IngestorTypeOK' /\ Published'
      BY <1>4, <2>1 DEF Boot, IngestorTypeOK, Published
    <3> QED BY <3>1, <3>2 DEF TypeInv, ServiceInv
  <2>2. CASE todo[p] # {}
    <3>1. PICK t \in todo[p] :
            /\ todo' = [todo EXCEPT ![p] = todo[p] \ {t}]
            /\ job' = [job EXCEPT ![p] = t]
            /\ pc' = [pc EXCEPT ![p] = "Publish"]
            /\ UNCHANGED proc
      BY <1>4, <2>2 DEF Boot
    <3>2. UNCHANGED <<db, flag, broker, snap, mode, worker, claimed, lapses, asks, faults>>
      BY <1>4 DEF Boot
    <3>3. t \in Tasks
      BY DEF IngestorTypeOK
    <3>4. ServiceTypeOK' /\ Known'
      BY <3>1, <3>2, <3>3 DEF ServiceTypeOK, Known
    <3>5. IngestorTypeOK' /\ Published'
      BY <3>1, <3>2 DEF IngestorTypeOK, Published
    <3> QED BY <3>4, <3>5 DEF TypeInv, ServiceInv
  <2> QED BY <2>1, <2>2
<1>5. ASSUME NEW p \in Procs, StopProc(p)
      PROVE  TypeInv'
  <2>1. ServiceTypeOK'
    BY <1>5, FaultType DEF ServiceTypeOK, Known, StopProc
  <2>2. Known'
    BY <1>5 DEF ServiceTypeOK, Known, StopProc
  <2>3. IngestorTypeOK' /\ Published'
    BY <1>5 DEF IngestorTypeOK, Published, StopProc
  <2> QED BY <2>1, <2>2, <2>3 DEF TypeInv, ServiceInv
<1>6. ASSUME NEW p \in Procs, StopDone(p)
      PROVE  TypeInv'
  <2>1. ServiceTypeOK'
    BY <1>6 DEF ServiceTypeOK, Known, StopDone
  <2>2. Known'
    BY <1>6 DEF ServiceTypeOK, Known, StopDone
  <2>3. IngestorTypeOK' /\ Published'
    BY <1>6 DEF IngestorTypeOK, Published, StopDone
  <2> QED BY <2>1, <2>2, <2>3 DEF TypeInv, ServiceInv
<1>7. ASSUME NEW p \in Procs, Crash(p)
      PROVE  TypeInv'
  <2>1. ServiceTypeOK'
    BY <1>7, FaultType DEF ServiceTypeOK, Known, Crash
  <2>2. Known'
    BY <1>7 DEF ServiceTypeOK, Known, Crash
  <2>3. /\ held' \in [Workers -> MsgIds \cup {NoMsg}]
        /\ owned' \in [Workers -> BOOLEAN]
        /\ cancelled' \in [Workers -> BOOLEAN]
        /\ term' \in [Workers -> BOOLEAN]
    BY <1>7 DEF Crash, IngestorTypeOK
  <2>4. /\ tries' \in [Workers -> 0 .. MaxTries - 1]
        /\ claimed' \in [Procs -> SUBSET Tasks]
        /\ todo' \in [Procs -> SUBSET Tasks]
        /\ proc' \in [Procs -> {"down", "booting", "up", "stopping"}]
        /\ lapses' \in 0 .. MaxLapses
    BY <1>7 DEF Crash, MaxTries, IngestorTypeOK
  <2>5. Published'
    BY <1>7, NoMsgId DEF Published, Crash, IngestorTypeOK
  <2> QED BY <2>1, <2>2, <2>3, <2>4, <2>5 DEF TypeInv, ServiceInv, IngestorTypeOK
<1>8. ASSUME NEW w \in Workers, PollCancel(w)
      PROVE  TypeInv'
  <2>1. ServiceTypeOK'
    BY <1>8 DEF ServiceTypeOK, Known, PollCancel
  <2>2. Known'
    BY <1>8 DEF ServiceTypeOK, Known, PollCancel
  <2>3. IngestorTypeOK' /\ Published'
    BY <1>8 DEF IngestorTypeOK, Published, PollCancel
  <2> QED BY <2>1, <2>2, <2>3 DEF TypeInv, ServiceInv
<1>9. ASSUME NEW w \in Workers, NEW m \in MsgIds, Deliver(w, m)
      PROVE  TypeInv'
  <2>1. ServiceTypeOK'
    BY <1>9 DEF ServiceTypeOK, Known, Deliver, MsgStates
  <2>2. Known'
    BY <1>9 DEF ServiceTypeOK, Known, Deliver, MsgStates
  <2>3. IngestorTypeOK' /\ Published'
    BY <1>9 DEF IngestorTypeOK, Published, Known, Deliver
  <2> QED BY <2>1, <2>2, <2>3 DEF TypeInv, ServiceInv
<1>10. ASSUME NEW m \in MsgIds, Expire(m)
      PROVE  TypeInv'
  <2>1. ServiceTypeOK'
    BY <1>10 DEF ServiceTypeOK, Known, Expire, MsgStates
  <2>2. Known'
    BY <1>10 DEF ServiceTypeOK, Known, Expire, MsgStates
  <2>3. IngestorTypeOK' /\ Published'
    BY <1>10 DEF IngestorTypeOK, Published, Expire
  <2> QED BY <2>1, <2>2, <2>3 DEF TypeInv, ServiceInv
<1>11. ASSUME NEW m \in MsgIds, Lapse(m)
      PROVE  TypeInv'
  <2>1. ServiceTypeOK'
    BY <1>11 DEF ServiceTypeOK, Known, Lapse, MsgStates
  <2>2. Known'
    BY <1>11 DEF ServiceTypeOK, Known, Lapse, MsgStates
  <2>3. IngestorTypeOK' /\ Published'
    BY <1>11 DEF IngestorTypeOK, Published, Lapse
  <2> QED BY <2>1, <2>2, <2>3 DEF TypeInv, ServiceInv
<1>12. CASE UNCHANGED vars
  <2>1. ServiceTypeOK' /\ Known'
    BY <1>12 DEF vars, serviceVars, ServiceTypeOK, Known
  <2>2. IngestorTypeOK' /\ Published'
    BY <1>12 DEF vars, serviceVars, IngestorTypeOK, Published
  <2> QED BY <2>1, <2>2 DEF TypeInv, ServiceInv
<1> QED
  BY <1>1, <1>2, <1>3, <1>4, <1>5, <1>6, <1>7, <1>8, <1>9, <1>10, <1>11, <1>12, WorkSteps
  DEF Next

\* The strengthened invariant holds in every reachable state.
THEOREM TypeInvariant == Spec => []TypeInv
<1>1. Init => TypeInv
  BY ServiceAssumption, IngestorAssumption
  DEF Init, ServiceInit, TypeInv, ServiceInv, ServiceTypeOK, IngestorTypeOK, Known, Published, TaskLabels,
      Labels, Modes, RowStates, LogStates, MsgStates, MaxTries, Actors, NoMsg
<1>2. TypeInv /\ [Next]_vars => TypeInv'
  BY TypeStep DEF TypeInv, ServiceInv
<1> QED BY <1>1, <1>2, PTL DEF Spec

\* Every reachable state is well typed: no error path, rollback, crash or
\* redelivery makes an actor work on a task it does not have or writes a status
\* that is none.
THEOREM TypeCorrect == Spec => []TypeOK
<1>1. TypeInv => TypeOK
  BY DEF TypeInv, ServiceInv, TypeOK
<1> QED BY <1>1, TypeInvariant, PTL

------------------------------------------------------------------------------
(* The in-process claims of the ingestors: one run of a task at a time in each *)
(* process, and no claim without the worker that gives it up.  Neither property *)
(* is inductive alone.  A claim is given up by name, so what a worker gives up  *)
(* must be its own: ClaimInv ties every claim to one worker and every worker in *)
(* a run to a claim.                                                            *)

\* A worker holds a claim in its run and until its message is settled.
Settling == RunLabels \cup {"Ack", "Nack"}

\* The claims of a process and the runs of its workers match.
ClaimInv ==
    /\ \A w \in Workers : pc[w] \in RunLabels => owned[w]
    /\ \A w \in Workers : owned[w] => pc[w] \in Settling /\ job[w] \in claimed[ProcOf[w]]
    /\ \A v, w \in Workers :
         v # w /\ ProcOf[v] = ProcOf[w] /\ owned[v] /\ owned[w] => job[v] # job[w]
    /\ ClaimsHaveOwners

\* Where a worker is before it has the claim.
Starting == {"StartRunning", "StartCAS", "StartReread", "StartStop", "StartStopLog"}

\* A step that moves one worker on within the part of the code it is in.
Moves(w) ==
    /\ UNCHANGED <<job, owned, claimed>>
    /\ \E l \in Labels :
         /\ pc' = [pc EXCEPT ![w] = l]
         /\ \/ pc[w] \in RunLabels /\ l \in Settling
            \/ pc[w] \in Starting /\ l \in WorkerLabels

\* Such a step leaves claims and runs matched.
LEMMA MovesKeepsClaims ==
    ASSUME ServiceTypeOK, ClaimInv, NEW w \in Workers, Moves(w)
    PROVE  ClaimInv'
<1>1. PICK l \in Labels :
        /\ pc' = [pc EXCEPT ![w] = l]
        /\ \/ pc[w] \in RunLabels /\ l \in Settling
           \/ pc[w] \in Starting /\ l \in WorkerLabels
  BY DEF Moves
<1>2. pc'[w] = l /\ \A v \in Workers \ {w} : pc'[v] = pc[v]
  BY <1>1 DEF ServiceTypeOK, Actors
<1>3. UNCHANGED <<job, owned, claimed>>
  BY DEF Moves
<1>4. \A v \in Workers : pc'[v] \in RunLabels => owned'[v]
  BY <1>1, <1>2, <1>3 DEF ClaimInv, Starting, WorkerLabels, RunLabels, Settling
<1>5. \A v \in Workers : owned'[v] => pc'[v] \in Settling /\ job'[v] \in claimed'[ProcOf[v]]
  BY <1>1, <1>2, <1>3 DEF ClaimInv, Starting, WorkerLabels, RunLabels, Settling
<1> QED BY <1>3, <1>4, <1>5 DEF ClaimInv, ClaimsHaveOwners

\* So does a step of somebody else: it neither moves a worker nor touches a claim.
LEMMA OthersKeepClaims ==
    ASSUME ClaimInv, UNCHANGED <<owned, claimed>>,
           \A w \in Workers : pc'[w] = pc[w] /\ job'[w] = job[w]
    PROVE  ClaimInv'
  BY DEF ClaimInv, ClaimsHaveOwners

\* The steps of a request, and of a startup pass, are steps of somebody else.
LEMMA RequestSteps ==
    ASSUME ServiceTypeOK, NEW c \in Actors \ Workers, ClientStep(c)
    PROVE  \A w \in Workers : pc'[w] = pc[w] /\ job'[w] = job[w]
<1> SUFFICES ASSUME NEW w \in Workers
             PROVE  pc'[w] = pc[w] /\ job'[w] = job[w]
  OBVIOUS
<1> USE DEF Goto, Finish, StopAnswer
<1>1. w # c /\ w \in Actors
  BY DEF Actors
<1>2. CASE AskParse(c) \/ AskReparse(c) \/ AskStop(c) \/ AskRemove(c) \/ AskDelete(c)
  BY <1>1, <1>2 DEF ServiceTypeOK, AskParse, AskReparse, AskStop, AskRemove, AskDelete
<1>3. CASE ParseRead(c) \/ Create(c) \/ Retry(c) \/ RetryFlag(c) \/ OpenLog(c)
  BY <1>1, <1>3 DEF ServiceTypeOK, ParseRead, Create, Retry, RetryFlag, OpenLog
<1>4. CASE Publish(c) \/ MarkScheduled(c) \/ ScheduledLog(c) \/ DropLog(c) \/ Rollback(c)
  BY <1>1, <1>4 DEF ServiceTypeOK, Publish, MarkScheduled, ScheduledLog, DropLog, Rollback
<1>5. CASE RequestStop(c) \/ StopQueued(c) \/ StopQueuedLog(c) \/ StopRunning(c) \/ StopFlag(c)
  BY <1>1, <1>5 DEF ServiceTypeOK, RequestStop, StopQueued, StopQueuedLog, StopRunning, StopFlag
<1>6. CASE Delete(c) \/ ClearDelete(c) \/ ClientCrash(c)
  BY <1>1, <1>6 DEF ServiceTypeOK, Delete, ClearDelete, ClientCrash
<1> QED BY <1>2, <1>3, <1>4, <1>5, <1>6 DEF ClientStep

\* Every step of a worker but the claim and the settlement moves it on in place.
LEMMA WorkMoves ==
    ASSUME ServiceTypeOK, NEW w \in Workers, Work(w), ~ Claim(w), ~ Ack(w), ~ Nack(w)
    PROVE  Moves(w)
<1> USE DEF Moves, Labels, Settling, Starting, WorkerLabels, RunLabels, Goto, worker, elsewhere, process
<1>1. CASE StartRunning(w)
  BY <1>1 DEF StartRunning
<1>2. CASE StartCAS(w)
  BY <1>2 DEF StartCAS
<1>3. CASE StartReread(w)
  BY <1>3 DEF StartReread
<1>4. CASE StartStop(w)
  BY <1>4 DEF StartStop
<1>5. CASE StartStopLog(w)
  BY <1>5 DEF StartStopLog
<1>6. CASE PreCheck(w)
  BY <1>6 DEF PreCheck
<1>7. CASE Prepare(w)
  BY <1>7 DEF Prepare
<1>8. CASE ExecDone(w) \/ ExecFail(w) \/ ExecPanic(w)
  BY <1>8 DEF ExecDone, ExecFail, ExecPanic
<1>9. CASE ExecCancelled(w)
  BY <1>9 DEF ExecCancelled
<1>10. CASE Complete(w)
  BY <1>10 DEF Complete
<1>11. CASE CompleteCAS(w)
  BY <1>11 DEF CompleteCAS
<1>12. CASE SettleTerminal(w)
  BY <1>12 DEF SettleTerminal
<1>13. CASE CompleteFailed(w)
  BY <1>13 DEF CompleteFailed
<1>14. CASE Stops(w)
  BY <1>14 DEF Stops, RequestStop, StopQueued, StopQueuedLog, StopRunning, StopFlag, StopAnswer
<1>15. CASE MarkStopped(w) \/ MarkStoppedCAS(w)
  BY <1>15 DEF MarkStopped, MarkStoppedCAS, StopAnswer
<1>16. CASE ClearFlag(w)
  BY <1>16 DEF ClearFlag
<1>17. CASE MarkFailed(w)
  BY <1>17 DEF MarkFailed
<1>18. CASE MarkFailedCAS(w)
  BY <1>18 DEF MarkFailedCAS
<1>19. CASE TerminalLog(w) \/ Settle(w)
  BY <1>19 DEF TerminalLog, Settle
<1> QED
  BY <1>1, <1>2, <1>3, <1>4, <1>5, <1>6, <1>7, <1>8, <1>9, <1>10, <1>11, <1>12, <1>13, <1>14,
     <1>15, <1>16, <1>17, <1>18, <1>19
  DEF Work

\* claimTask takes a task nobody in the process has; a duplicate goes to rest.
LEMMA ClaimKeepsClaims ==
    ASSUME ServiceTypeOK, IngestorTypeOK, ClaimInv, NEW w \in Workers, Claim(w)
    PROVE  ClaimInv'
<1> USE IngestorAssumption
<1>1. ~ owned[w] /\ pc[w] = "Claim"
  BY DEF Claim, ClaimInv, Settling, RunLabels
<1>2. CASE job[w] \notin claimed[ProcOf[w]]
  <2>1. /\ claimed' = [claimed EXCEPT ![ProcOf[w]] = claimed[ProcOf[w]] \cup {job[w]}]
        /\ owned' = [owned EXCEPT ![w] = TRUE]
        /\ pc' = [pc EXCEPT ![w] = "PreCheck"]
        /\ job' = job
    BY <1>2 DEF Claim, Goto
  <2>2. /\ owned'[w] /\ \A v \in Workers \ {w} : owned'[v] = owned[v] /\ pc'[v] = pc[v]
        /\ pc'[w] = "PreCheck"
    BY <2>1 DEF ServiceTypeOK, IngestorTypeOK, Actors
  <2>3. /\ claimed'[ProcOf[w]] = claimed[ProcOf[w]] \cup {job[w]}
        /\ \A p \in Procs \ {ProcOf[w]} : claimed'[p] = claimed[p]
    BY <2>1 DEF IngestorTypeOK
  <2>4. \A v \in Workers : pc'[v] \in RunLabels => owned'[v]
    BY <2>2 DEF ClaimInv
  <2>5. \A v \in Workers : owned'[v] => pc'[v] \in Settling /\ job'[v] \in claimed'[ProcOf[v]]
    BY <2>1, <2>2, <2>3 DEF ClaimInv, Settling, RunLabels
  <2>6. \A u, v \in Workers :
          u # v /\ ProcOf[u] = ProcOf[v] /\ owned'[u] /\ owned'[v] => job'[u] # job'[v]
    BY <1>2, <2>1, <2>2 DEF ClaimInv
  <2>7. ClaimsHaveOwners'
    BY <1>1, <2>1, <2>2, <2>3 DEF ClaimInv, ClaimsHaveOwners
  <2> QED BY <2>4, <2>5, <2>6, <2>7 DEF ClaimInv
<1>3. CASE job[w] \in claimed[ProcOf[w]]
  <2>1. /\ pc'[w] = "idle" /\ ~ owned'[w] /\ claimed' = claimed
        /\ \A v \in Workers \ {w} : pc'[v] = pc[v] /\ job'[v] = job[v] /\ owned'[v] = owned[v]
    BY <1>3 DEF Claim, Rest, ServiceTypeOK, IngestorTypeOK, Actors
  <2>2. "idle" \notin RunLabels
    BY DEF RunLabels
  <2> QED BY <1>1, <2>1, <2>2 DEF ClaimInv, ClaimsHaveOwners
<1> QED BY <1>2, <1>3

\* releaseTask gives up the worker's own claim and nobody else's.
LEMMA SettleKeepsClaims ==
    ASSUME ServiceTypeOK, IngestorTypeOK, ClaimInv, NEW w \in Workers, Ack(w) \/ Nack(w)
    PROVE  ClaimInv'
<1> USE IngestorAssumption
<1>1. /\ pc'[w] = "idle" /\ ~ owned'[w]
      /\ \A v \in Workers \ {w} : pc'[v] = pc[v] /\ job'[v] = job[v] /\ owned'[v] = owned[v]
  BY DEF Ack, Nack, Rest, ServiceTypeOK, IngestorTypeOK, Actors
<1>2. "idle" \notin RunLabels
  BY DEF RunLabels
<1>3. CASE owned[w]
  <2>1. claimed' = [claimed EXCEPT ![ProcOf[w]] = claimed[ProcOf[w]] \ {job[w]}]
    BY <1>3 DEF Ack, Nack, releaseTask
  <2>2. /\ claimed'[ProcOf[w]] = claimed[ProcOf[w]] \ {job[w]}
        /\ \A p \in Procs \ {ProcOf[w]} : claimed'[p] = claimed[p]
    BY <2>1 DEF IngestorTypeOK
  <2>3. ClaimsHaveOwners'
    BY <1>1, <2>2 DEF ClaimInv, ClaimsHaveOwners
  <2> QED BY <1>1, <1>2, <1>3, <2>2, <2>3 DEF ClaimInv
<1>4. CASE ~ owned[w]
  <2>1. claimed' = claimed
    BY <1>4 DEF Ack, Nack, releaseTask
  <2> QED BY <1>1, <1>2, <1>4, <2>1 DEF ClaimInv, ClaimsHaveOwners
<1> QED BY <1>3, <1>4

\* Every step keeps claims and runs matched.
LEMMA ClaimStep ==
    ASSUME TypeInv, ClaimInv, [Next]_vars
    PROVE  ClaimInv'
<1> USE ServiceAssumption, IngestorAssumption
<1>0. ServiceTypeOK /\ IngestorTypeOK
  BY DEF TypeInv, ServiceInv
<1>1. ASSUME NEW c \in Clients, Client(c)
      PROVE  ClaimInv'
  BY <1>0, <1>1, RequestSteps, OthersKeepClaims DEF Client, Actors, worker, process
<1>2. ASSUME NEW p \in Procs, Scheduling(p)
      PROVE  ClaimInv'
  BY <1>0, <1>2, RequestSteps, OthersKeepClaims DEF Scheduling, ClientStep, Actors, worker, process
<1>3. ASSUME NEW p \in Procs, StartProc(p) \/ Boot(p)
      PROVE  ClaimInv'
  <2>1. \A w \in Workers : w # p /\ w \in Actors
    BY DEF Actors
  <2>2. \A w \in Workers : pc'[w] = pc[w] /\ job'[w] = job[w]
    BY <1>0, <1>3, <2>1 DEF StartProc, Boot, ServiceTypeOK
  <2> QED BY <1>3, <2>2, OthersKeepClaims DEF StartProc, Boot, worker
<1>4. ASSUME NEW p \in Procs, StopProc(p) \/ StopDone(p)
      PROVE  ClaimInv'
  BY <1>4, OthersKeepClaims DEF StopProc, StopDone, actor, worker
<1>5. ASSUME NEW p \in Procs, Crash(p)
      PROVE  ClaimInv'
  <2>1. \A w \in Workers : w # p /\ w \in Actors
    BY DEF Actors
  <2>2. \A w \in Workers :
          IF ProcOf[w] = p THEN pc'[w] = "idle" /\ ~ owned'[w]
          ELSE pc'[w] = pc[w] /\ job'[w] = job[w] /\ owned'[w] = owned[w]
    BY <1>5, <2>1 DEF Crash
  <2>3. claimed'[p] = {} /\ \A q \in Procs \ {p} : claimed'[q] = claimed[q]
    BY <1>0, <1>5 DEF Crash, IngestorTypeOK
  <2>4. "idle" \notin RunLabels
    BY DEF RunLabels
  <2>5. ClaimsHaveOwners'
    BY <2>2, <2>3 DEF ClaimInv, ClaimsHaveOwners
  <2> QED BY <2>2, <2>3, <2>4, <2>5 DEF ClaimInv
<1>6. ASSUME NEW w \in Workers, Work(w)
      PROVE  ClaimInv'
  BY <1>0, <1>6, WorkMoves, MovesKeepsClaims, ClaimKeepsClaims, SettleKeepsClaims
<1>7. ASSUME NEW w \in Workers, PollCancel(w)
      PROVE  ClaimInv'
  BY <1>7, OthersKeepClaims DEF PollCancel, actor, elsewhere
<1>8. ASSUME NEW w \in Workers, NEW m \in MsgIds, Deliver(w, m)
      PROVE  ClaimInv'
  <2>1. ~ owned[w]
    BY <1>8 DEF Deliver, ClaimInv, Settling, RunLabels
  <2>2. /\ pc'[w] = "StartRunning" /\ UNCHANGED <<owned, claimed>>
        /\ \A v \in Workers \ {w} : pc'[v] = pc[v] /\ job'[v] = job[v]
    BY <1>0, <1>8 DEF Deliver, ServiceTypeOK, Actors, elsewhere
  <2>3. "StartRunning" \notin RunLabels
    BY DEF RunLabels
  <2> QED BY <2>1, <2>2, <2>3 DEF ClaimInv, ClaimsHaveOwners
<1>9. ASSUME NEW m \in MsgIds, Expire(m) \/ Lapse(m)
      PROVE  ClaimInv'
  BY <1>9, OthersKeepClaims DEF Expire, Lapse, actor, worker, elsewhere, process
<1>10. CASE UNCHANGED vars
  BY <1>10, OthersKeepClaims DEF vars, serviceVars
<1> QED
  BY <1>1, <1>2, <1>3, <1>4, <1>5, <1>6, <1>7, <1>8, <1>9, <1>10 DEF Next

\* ClaimInv is an invariant.
THEOREM ClaimsMatchRuns == Spec => []ClaimInv
<1>1. Init => ClaimInv
  BY DEF Init, ServiceInit, ClaimInv, ClaimsHaveOwners, Actors, RunLabels
<1>2. TypeInv /\ ClaimInv /\ [Next]_vars => ClaimInv'
  BY ClaimStep
<1> QED BY <1>1, <1>2, TypeInvariant, PTL DEF Spec

\* claimTask: whatever is redelivered, stopped, removed or crashes, a process never
\* has two workers in runs of the same task.
THEOREM ClaimsExclude == Spec => []ClaimExclusive
<1>1. ClaimInv => ClaimExclusive
  BY DEF ClaimInv, ClaimExclusive, InRun
<1> QED BY <1>1, ClaimsMatchRuns, PTL

\* releaseTask: on no path does a claim outlive the worker that took it.
THEOREM ClaimsAreReleased == Spec => []ClaimsHaveOwners
<1>1. ClaimInv => ClaimsHaveOwners
  BY DEF ClaimInv
<1> QED BY <1>1, ClaimsMatchRuns, PTL

------------------------------------------------------------------------------
(* The document's log rows: never two open ones, and rows that only move        *)
(* forward.  Both follow from one fact about every step, LogStep.               *)

\* What may happen to one row: it is inserted, moved on while open, closed or
\* dropped while open.
RowStep(old, new) ==
    \/ old = new
    \/ old = "free" /\ new \in OpenPipelineOperationStatuses \cup ClosedStatuses
    \/ old = "unstart" /\ new = "schedule"
    \/ old \in {"unstart", "schedule"} /\ new = "running"
    \/ old \in OpenPipelineOperationStatuses /\ new \in ClosedStatuses \cup {"deleted"}

\* What a step may do to the rows: a new open row is the only open one.
LogStep ==
    /\ \A l \in LogIds : RowStep(logs[l], logs'[l])
    /\ \A k, l \in LogIds :
         /\ logs[k] = "free"
         /\ logs'[k] \in OpenPipelineOperationStatuses
         /\ logs'[l] \in OpenPipelineOperationStatuses
         => k = l

\* The moves AdvanceOpenLog is called with.
Advances(from, to) ==
    \/ from = {"unstart"} /\ to = "schedule"
    \/ from = {"unstart", "schedule"} /\ to = "running"
    \/ from = {"unstart", "schedule"} /\ to = "cancel"
    \/ from = OpenPipelineOperationStatuses /\ to \in ClosedStatuses \cup {"deleted"}

\* A step that leaves the rows alone.
LEMMA SameLogs ==
    ASSUME UNCHANGED logs
    PROVE  LogStep
  BY DEF LogStep, RowStep, OpenPipelineOperationStatuses

\* The guarded UPDATE opens no row and moves at most one forward.
LEMMA AdvanceLogStep ==
    ASSUME ServiceTypeOK, NEW l, NEW from, NEW to, Advances(from, to),
           logs' = AdvanceOpenLog(logs, l, from, to)
    PROVE  LogStep
<1>1. CASE ~ (l \in LogIds /\ logs[l] \in from)
  BY <1>1, SameLogs DEF AdvanceOpenLog
<1>2. CASE l \in LogIds /\ logs[l] \in from
  <2>1. /\ logs'[l] = to
        /\ \A k \in LogIds \ {l} : logs'[k] = logs[k]
    BY <1>2 DEF AdvanceOpenLog, ServiceTypeOK
  <2>2. RowStep(logs[l], to) /\ logs[l] # "free"
    BY <1>2 DEF Advances, RowStep, OpenPipelineOperationStatuses, ClosedStatuses
  <2> QED BY <2>1, <2>2 DEF LogStep, RowStep, OpenPipelineOperationStatuses
<1> QED BY <1>1, <1>2

\* So does the guarded DELETE.
LEMMA DeleteLogStep ==
    ASSUME ServiceTypeOK, NEW l, logs' = DeleteOpenLogByID(logs, l)
    PROVE  LogStep
  BY AdvanceLogStep DEF DeleteOpenLogByID, Advances

\* createOpenLogBestEffort drops the open row it replaces.
LEMMA CreateLogStep ==
    ASSUME ServiceTypeOK, OneOpenLog, NEW t \in Tasks, NEW to \in OpenPipelineOperationStatuses,
           createOpenLog(t, to)
    PROVE  LogStep
<1>1. CASE UNCHANGED <<logs, bound>>
  BY <1>1, SameLogs
<1>2. CASE \E n \in NextLogId(logs) :
             /\ logs' = [l \in LogIds |->
                           IF l = n THEN to
                           ELSE IF l \in GetOpenLogByDocumentID(logs) THEN "deleted"
                           ELSE logs[l]]
             /\ bound' = [bound EXCEPT ![t] = n]
  <2>1. PICK n \in NextLogId(logs) :
          logs' = [l \in LogIds |-> IF l = n THEN to
                                    ELSE IF l \in GetOpenLogByDocumentID(logs) THEN "deleted"
                                    ELSE logs[l]]
    BY <1>2
  <2>2. n \in LogIds /\ logs[n] = "free"
    BY DEF NextLogId
  <2>3. GetOpenLogByDocumentID(logs) = OpenLogs(logs)
    <3>1. \A l \in OpenLogs(logs) : l <= l
      BY LogIdsAssumption DEF OpenLogs
    <3>2. \A l \in OpenLogs(logs) : \A k \in OpenLogs(logs) : k <= l
      BY <3>1 DEF OneOpenLog
    <3> QED BY <3>2 DEF GetOpenLogByDocumentID
  <2>4. /\ logs'[n] = to
        /\ \A l \in LogIds \ {n} :
             IF logs[l] \in OpenPipelineOperationStatuses THEN logs'[l] = "deleted"
             ELSE logs'[l] = logs[l]
    BY <2>1, <2>2, <2>3 DEF OpenLogs
  <2> QED BY <2>2, <2>4 DEF LogStep, RowStep, OpenPipelineOperationStatuses
<1> QED BY <1>1, <1>2 DEF createOpenLog

\* advanceOpenLog, whichever branch it takes.
LEMMA AdvanceOpenLogStep ==
    ASSUME ServiceTypeOK, OneOpenLog, NEW t \in Tasks, NEW l, NEW s, NEW from,
           NEW to \in OpenPipelineOperationStatuses, NEW reopen, Advances(from, to),
           advanceOpenLog(t, l, s, from, to, reopen)
    PROVE  LogStep
<1>1. CASE l # NoLog
  BY <1>1, AdvanceLogStep DEF advanceOpenLog
<1>2. CASE l = NoLog /\ reopen /\ s \in ActiveTaskStatuses
  BY <1>2, CreateLogStep DEF advanceOpenLog
<1>3. CASE l = NoLog /\ ~ (reopen /\ s \in ActiveTaskStatuses)
  BY <1>3, SameLogs DEF advanceOpenLog
<1> QED BY <1>1, <1>2, <1>3

\* The terminal writer closes a row or inserts a closed one.
LEMMA RecordLogStep ==
    ASSUME ServiceTypeOK, NEW l, NEW to \in ClosedStatuses, recordPipelineLog(l, to)
    PROVE  LogStep
<1>1. ASSUME NEW k, logs' = AdvanceOpenLog(logs, k, OpenPipelineOperationStatuses, to)
      PROVE  LogStep
  BY <1>1, AdvanceLogStep DEF Advances
<1>2. ASSUME NEW n \in NextLogId(logs), logs' = [logs EXCEPT ![n] = to]
      PROVE  LogStep
  BY <1>2 DEF NextLogId, ServiceTypeOK, LogStep, RowStep, OpenPipelineOperationStatuses, ClosedStatuses
<1> QED BY <1>1, <1>2 DEF recordPipelineLog

\* The steps of a request that touch the rows are four; the others leave them alone.
LEMMA RequestLogStep ==
    ASSUME ServiceInv, OneOpenLog, NEW c \in Actors, ClientStep(c)
    PROVE  LogStep
<1>0. ServiceTypeOK /\ Known
  BY DEF ServiceInv
<1>1. CASE OpenLog(c)
  <2>1. job[c] \in Tasks
    BY <1>0, <1>1 DEF OpenLog, Known, TaskLabels, Labels, ClientLabels
  <2> QED BY <1>0, <1>1, <2>1, CreateLogStep, SameLogs DEF OpenLog, OpenPipelineOperationStatuses
<1>2. CASE ScheduledLog(c)
  <2>1. job[c] \in Tasks
    BY <1>0, <1>2 DEF ScheduledLog, Known, TaskLabels, Labels, ClientLabels
  <2> QED
    BY <1>0, <1>2, <2>1, AdvanceOpenLogStep, SameLogs
    DEF ScheduledLog, OpenPipelineOperationStatuses, Advances
<1>3. CASE DropLog(c)
  BY <1>0, <1>3, DeleteLogStep, SameLogs DEF DropLog
<1>4. CASE StopQueuedLog(c)
  BY <1>0, <1>4, AdvanceLogStep, SameLogs DEF StopQueuedLog, Advances
<1>5. CASE ~ (OpenLog(c) \/ ScheduledLog(c) \/ DropLog(c) \/ StopQueuedLog(c))
  <2>1. UNCHANGED logs
    BY <1>5
    DEF ClientStep, db, AskParse, AskReparse, AskStop, AskRemove, AskDelete, ParseRead, Create,
        Retry, RetryFlag, Publish, MarkScheduled, Rollback, RequestStop, StopQueued, StopRunning,
        StopFlag, Delete, ClearDelete, ClientCrash
  <2> QED BY <2>1, SameLogs
<1> QED BY <1>1, <1>2, <1>3, <1>4, <1>5

\* The same for the steps of a worker.
LEMMA WorkLogStep ==
    ASSUME ServiceInv, OneOpenLog, NEW w \in Workers, Work(w)
    PROVE  LogStep
<1>0. ServiceTypeOK /\ Known
  BY DEF ServiceInv
<1>1. CASE StartReread(w)
  <2>1. job[w] \in Tasks
    BY <1>0, <1>1 DEF StartReread, Known, TaskLabels, Labels, WorkerLabels, Actors
  <2>2. \/ advanceOpenLog(job[w], bound[job[w]], status[job[w]], {"unstart", "schedule"}, "running", TRUE)
        \/ UNCHANGED logs
    BY <1>1 DEF StartReread
  <2> QED
    BY <1>0, <2>1, <2>2, AdvanceOpenLogStep, SameLogs DEF OpenPipelineOperationStatuses, Advances
<1>2. CASE StartStopLog(w)
  BY <1>0, <1>2, AdvanceLogStep, SameLogs DEF StartStopLog, Advances, ClosedStatuses
<1>3. CASE ExecDone(w)
  BY <1>0, <1>3, RecordLogStep, SameLogs DEF ExecDone, ClosedStatuses
<1>4. CASE TerminalLog(w)
  BY <1>0, <1>4, RecordLogStep, SameLogs DEF TerminalLog, ClosedStatuses
<1>5. CASE Stops(w)
  BY <1>5, RequestLogStep DEF Stops, ClientStep, Actors
<1>6. CASE ~ (StartReread(w) \/ StartStopLog(w) \/ ExecDone(w) \/ TerminalLog(w) \/ Stops(w))
  <2>1. UNCHANGED logs
    BY <1>6
    DEF Work, db, StartRunning, StartCAS, StartStop, Claim, PreCheck, Prepare, ExecFail,
        ExecPanic, ExecCancelled, Complete, CompleteCAS, SettleTerminal, CompleteFailed,
        MarkStopped, MarkStoppedCAS, ClearFlag, MarkFailed, MarkFailedCAS, Settle, Ack, Nack
  <2> QED BY <2>1, SameLogs
<1> QED BY <1>1, <1>2, <1>3, <1>4, <1>5, <1>6

\* Every step of the system moves the rows as LogStep says.
LEMMA EveryLogStep ==
    ASSUME TypeInv, OneOpenLog, [Next]_vars
    PROVE  LogStep
<1>0. ServiceInv
  BY DEF TypeInv
<1>1. ASSUME NEW c \in Clients, Client(c)
      PROVE  LogStep
  BY <1>0, <1>1, RequestLogStep DEF Client, Actors
<1>2. ASSUME NEW p \in Procs, Scheduling(p)
      PROVE  LogStep
  BY <1>0, <1>2, RequestLogStep DEF Scheduling, ClientStep, Actors
<1>3. ASSUME NEW w \in Workers, Work(w)
      PROVE  LogStep
  BY <1>0, <1>3, WorkLogStep
<1>4. ASSUME NEW p \in Procs, StartProc(p) \/ Boot(p) \/ StopProc(p) \/ StopDone(p) \/ Crash(p)
      PROVE  LogStep
  BY <1>4, SameLogs DEF StartProc, Boot, StopProc, StopDone, Crash, db
<1>5. ASSUME NEW w \in Workers, PollCancel(w) \/ \E m \in MsgIds : Deliver(w, m)
      PROVE  LogStep
  BY <1>5, SameLogs DEF PollCancel, Deliver, db
<1>6. ASSUME NEW m \in MsgIds, Expire(m) \/ Lapse(m)
      PROVE  LogStep
  BY <1>6, SameLogs DEF Expire, Lapse, db
<1>7. CASE UNCHANGED vars
  BY <1>7, SameLogs DEF vars, serviceVars
<1> QED BY <1>1, <1>2, <1>3, <1>4, <1>5, <1>6, <1>7 DEF Next

\* createOpenLogBestEffort: the document never has two open rows, for any number
\* of API servers, ingestors and tasks.
THEOREM OpenLogIsUnique == Spec => []OneOpenLog
<1>1. Init => OneOpenLog
  BY DEF Init, ServiceInit, OneOpenLog, OpenLogs, OpenPipelineOperationStatuses
<1>2. LogStep /\ OneOpenLog => OneOpenLog'
  <2> SUFFICES ASSUME LogStep, OneOpenLog,
                      NEW k \in LogIds, NEW l \in LogIds,
                      logs'[k] \in OpenPipelineOperationStatuses,
                      logs'[l] \in OpenPipelineOperationStatuses
               PROVE  k = l
    BY DEF OneOpenLog, OpenLogs
  <2>1. \A i \in {k, l} : logs[i] = "free" \/ logs[i] \in OpenPipelineOperationStatuses
    BY DEF LogStep, RowStep, OpenPipelineOperationStatuses, ClosedStatuses
  <2> QED BY <2>1 DEF LogStep, OneOpenLog, OpenLogs
<1>3. TypeInv /\ OneOpenLog /\ [Next]_vars => OneOpenLog'
  BY <1>2, EveryLogStep
<1> QED BY <1>1, <1>3, TypeInvariant, PTL DEF Spec

\* The DAO's guarded statements: rows only move forward, and a closed row is never
\* rewritten or deleted.
THEOREM LogsAreHistory == Spec => LogsMoveForward
<1>1. LogStep => /\ \A l \in LogIds : LogRank(logs[l]) <= LogRank(logs'[l])
                 /\ \A l \in LogIds : logs[l] \in ClosedStatuses => logs'[l] = logs[l]
  <2> SUFFICES ASSUME LogStep, NEW l \in LogIds
               PROVE  /\ LogRank(logs[l]) <= LogRank(logs'[l])
                      /\ logs[l] \in ClosedStatuses => logs'[l] = logs[l]
    OBVIOUS
  <2>1. RowStep(logs[l], logs'[l])
    BY DEF LogStep
  <2> QED BY <2>1 DEF RowStep, LogRank, OpenPipelineOperationStatuses, ClosedStatuses
<1>2. TypeInv /\ OneOpenLog /\ [Next]_vars =>
        [\A l \in LogIds : /\ LogRank(logs[l]) <= LogRank(logs'[l])
                           /\ logs[l] \in ClosedStatuses => logs'[l] = logs[l]]_logs
  BY <1>1, EveryLogStep
<1> QED BY <1>2, TypeInvariant, OpenLogIsUnique, PTL DEF Spec, LogsMoveForward

------------------------------------------------------------------------------
(* The system implements TaskLifecycle: every SQL statement that writes the row *)
(* of the document is one of the lifecycle's moves, whatever its caller had     *)
(* read before.  Two facts are needed beyond the types.  Statements that go by  *)
(* document delete one row because there is at most one (OneRow, a property of  *)
(* the lifecycle itself), and only the request that says so deletes without a   *)
(* status condition (DeletesAreAsked).                                          *)

\* The unique index on document_id.
OneRow == \A s, t \in Rows : s = t

\* A caller in mode "delete" serves a request of that kind.
DeletesAreAsked == \A a \in Actors : mode[a] = "delete" => "delete" \in Ops

RowInv == OneRow /\ DeletesAreAsked

\* The row moves or stays.
RowMove == Lifecycle!Next \/ UNCHANGED status

\* Rows are the rows of the lifecycle.
LEMMA RowsAreRows ==
    ASSUME ServiceTypeOK
    PROVE  \A t \in Tasks : t \in Rows <=> Lifecycle!Row(t)
  BY DEF ServiceTypeOK, Rows, RowStates, Statuses, Lifecycle!Row

\* A guarded UPDATE along the state machine is a move.
LEMMA TransitionMoves ==
    ASSUME NEW t \in Tasks, NEW to, transition(t, to)
    PROVE  RowMove
<1>1. CASE to = "SCHEDULED"
  BY <1>1 DEF transition, validateTransition, RowMove, Lifecycle!Next, Lifecycle!Schedule, Lifecycle!Move
<1>2. CASE to = "RUNNING"
  BY <1>2 DEF transition, validateTransition, RowMove, Lifecycle!Next, Lifecycle!Begin, Lifecycle!Move
<1>3. CASE to \in {"STOPPING", "STOPPED"}
  BY <1>3 DEF transition, validateTransition, RowMove, Lifecycle!Next, Lifecycle!Stop, Lifecycle!Move
<1>4. CASE to \in {"COMPLETED", "FAILED"}
  BY <1>4 DEF transition, validateTransition, RowMove, Lifecycle!Next, Lifecycle!End, Lifecycle!Move
<1>5. CASE to = "CREATED"
  BY <1>5 DEF transition, validateTransition, RowMove, Lifecycle!Next, Lifecycle!Again, Lifecycle!Move
<1> QED BY <1>1, <1>2, <1>3, <1>4, <1>5 DEF transition, validateTransition

\* Deleting one row is a move if its status allows it.
LEMMA DropMoves ==
    ASSUME ServiceTypeOK, NEW t \in Rows,
           "delete" \in Ops \/ status[t] \in Removable,
           status' = [status EXCEPT ![t] = "REMOVED"]
    PROVE  RowMove
<1>1. t \in Tasks /\ Lifecycle!Row(t)
  BY RowsAreRows DEF Rows
<1>2. Lifecycle!Drop(t)
  BY <1>1 DEF Lifecycle!Drop, Removable
<1> QED BY <1>1, <1>2 DEF RowMove, Lifecycle!Next

\* So is deleting by document, as there is at most one row.
LEMMA DropAllMoves ==
    ASSUME ServiceTypeOK, OneRow, NEW gone \in SUBSET Rows,
           "delete" \in Ops \/ \A t \in gone : status[t] \in Removable,
           status' = [t \in Tasks |-> IF t \in gone THEN "REMOVED" ELSE status[t]]
    PROVE  RowMove
<1>1. CASE gone = {}
  <2>1. status' = status
    BY <1>1 DEF ServiceTypeOK
  <2> QED BY <2>1 DEF RowMove
<1>2. CASE gone # {}
  <2>1. PICK t \in gone : TRUE
    BY <1>2
  <2>2. gone = {t}
    BY DEF OneRow
  <2>3. status' = [status EXCEPT ![t] = "REMOVED"]
    BY <2>2 DEF ServiceTypeOK
  <2>4. t \in Rows
    OBVIOUS
  <2> QED BY <2>1, <2>3, <2>4, DropMoves
<1> QED BY <1>1, <1>2

\* Every step of a request, and of the service code an ingestor calls.
LEMMA RequestMoves ==
    ASSUME ServiceTypeOK, Known, RowInv, NEW c \in Actors, ClientStep(c)
    PROVE  RowMove
<1>1. pc[c] \in TaskLabels => job[c] \in Tasks
  BY DEF Known
<1>2. CASE Create(c)
  <2>1. ASSUME NEW t \in Tasks, Rows = {}, status[t] = "UNUSED",
               status' = [status EXCEPT ![t] = "CREATED"]
        PROVE  RowMove
    <3>1. \A s \in Tasks : ~ Lifecycle!Row(s)
      BY <2>1, RowsAreRows
    <3>2. Lifecycle!Accept(t)
      BY <2>1, <3>1 DEF Lifecycle!Accept, Lifecycle!Move
    <3> QED BY <3>2 DEF RowMove, Lifecycle!Next
  <2> QED BY <1>2, <2>1 DEF Create, RowMove
<1>3. CASE Retry(c)
  BY <1>1, <1>3, TransitionMoves
  DEF Retry, transitionRefused, RowMove, TaskLabels, Labels, ClientLabels
<1>4. CASE MarkScheduled(c)
  <2>1. job[c] \in Tasks
    BY <1>1, <1>4 DEF MarkScheduled, TaskLabels, Labels, ClientLabels
  <2>2. Lifecycle!Schedule(job[c]) \/ UNCHANGED status
    BY <1>4 DEF MarkScheduled, UpdateStatusIfCurrent, Lifecycle!Schedule, Lifecycle!Move
  <2> QED BY <2>1, <2>2 DEF RowMove, Lifecycle!Next
<1>5. CASE Rollback(c)
  <2>1. job[c] \in Tasks /\ mode[c] \in {"new", "FAILED", "STOPPED"}
    BY <1>1, <1>5 DEF Rollback, Known, TaskLabels, Labels, ClientLabels
  <2>2. CASE UpdateStatusIfCurrent(job[c], Removable, "REMOVED")
    <3>1. job[c] \in Rows
      BY <2>1, <2>2 DEF UpdateStatusIfCurrent, Removable, Rows
    <3> QED BY <2>2, <3>1, DropMoves DEF UpdateStatusIfCurrent
  <2>3. CASE mode[c] # "new" /\ UpdateStatusIfCurrent(job[c], {"CREATED"}, mode[c])
    <3>1. Lifecycle!Again(job[c]) \/ Lifecycle!Stop(job[c])
      BY <2>1, <2>3 DEF UpdateStatusIfCurrent, Lifecycle!Again, Lifecycle!Stop, Lifecycle!Move
    <3> QED BY <2>1, <3>1 DEF RowMove, Lifecycle!Next
  <2> QED BY <1>5, <2>2, <2>3 DEF Rollback, RowMove
<1>6. CASE StopQueued(c)
  <2>1. job[c] \in Tasks
    BY <1>1, <1>6 DEF StopQueued, TaskLabels, Labels, ClientLabels
  <2>2. Lifecycle!Stop(job[c]) \/ UNCHANGED status
    BY <1>6 DEF StopQueued, UpdateStatusIfCurrent, Lifecycle!Stop, Lifecycle!Move
  <2> QED BY <2>1, <2>2 DEF RowMove, Lifecycle!Next
<1>7. CASE StopRunning(c)
  BY <1>1, <1>7, TransitionMoves
  DEF StopRunning, transitionRefused, RowMove, TaskLabels, Labels, ClientLabels
<1>8. CASE Delete(c)
  <2>1. job[c] \in Tasks
    BY <1>1, <1>8 DEF Delete, TaskLabels, Labels, ClientLabels
  <2>2. CASE UpdateStatusIfCurrent(job[c], Removable, "REMOVED")
    <3>1. job[c] \in Rows
      BY <2>1, <2>2 DEF UpdateStatusIfCurrent, Removable, Rows
    <3> QED BY <2>2, <3>1, DropMoves DEF UpdateStatusIfCurrent
  <2>3. CASE /\ mode[c] = "delete"
             /\ status' = [t \in Tasks |-> IF t \in Rows THEN "REMOVED" ELSE status[t]]
    <3>1. "delete" \in Ops
      BY <2>3 DEF RowInv, DeletesAreAsked
    <3> QED BY <2>3, <3>1, DropAllMoves DEF RowInv
  <2> QED BY <1>8, <2>2, <2>3 DEF Delete, RowMove
<1>9. CASE ClearDelete(c)
  <2> DEFINE gone == {t \in Rows : status[t] \in Removable}
  <2>1. CASE status' = [t \in Tasks |-> IF t \in gone THEN "REMOVED" ELSE status[t]]
    <3>1. gone \in SUBSET Rows /\ \A t \in gone : status[t] \in Removable
      OBVIOUS
    <3> QED BY <2>1, <3>1, DropAllMoves DEF RowInv
  <2> QED BY <1>9, <2>1 DEF ClearDelete, RowMove
<1>10. CASE ~ (\/ Create(c) \/ Retry(c) \/ MarkScheduled(c) \/ Rollback(c) \/ StopQueued(c)
               \/ StopRunning(c) \/ Delete(c) \/ ClearDelete(c))
  BY <1>10
  DEF RowMove, ClientStep, db, AskParse, AskReparse, AskStop, AskRemove, AskDelete, ParseRead,
      RetryFlag, OpenLog, Publish, ScheduledLog, DropLog, RequestStop, StopQueuedLog, StopFlag,
      ClientCrash
<1> QED BY <1>2, <1>3, <1>4, <1>5, <1>6, <1>7, <1>8, <1>9, <1>10

\* Every step of a worker.
LEMMA WorkMovesRow ==
    ASSUME ServiceTypeOK, Known, RowInv, NEW w \in Workers, Work(w)
    PROVE  RowMove
<1>1. w \in Actors
  BY DEF Actors
<1>2. pc[w] \in TaskLabels => job[w] \in Tasks
  BY <1>1 DEF Known
<1>3. CASE StartCAS(w)
  <2>1. job[w] \in Tasks
    BY <1>2, <1>3 DEF StartCAS, TaskLabels, Labels, WorkerLabels
  <2>2. Lifecycle!Begin(job[w]) \/ UNCHANGED status
    BY <1>3 DEF StartCAS, UpdateStatusIfCurrent, Lifecycle!Begin, Lifecycle!Move
  <2> QED BY <2>1, <2>2 DEF RowMove, Lifecycle!Next
<1>4. CASE StartStop(w)
  BY <1>2, <1>4, TransitionMoves DEF StartStop, transitionRefused, RowMove, TaskLabels, Labels, WorkerLabels
<1>5. CASE CompleteCAS(w)
  BY <1>2, <1>5, TransitionMoves DEF CompleteCAS, transitionRefused, RowMove, TaskLabels, Labels, RunLabels
<1>6. CASE MarkStoppedCAS(w)
  BY <1>2, <1>6, TransitionMoves DEF MarkStoppedCAS, transitionRefused, RowMove, TaskLabels, Labels, RunLabels
<1>7. CASE MarkFailedCAS(w)
  BY <1>2, <1>7, TransitionMoves DEF MarkFailedCAS, transitionRefused, RowMove, TaskLabels, Labels, RunLabels
<1>8. CASE Stops(w)
  BY <1>1, <1>8, RequestMoves DEF Stops, ClientStep
<1>9. CASE ~ (\/ StartCAS(w) \/ StartStop(w) \/ CompleteCAS(w) \/ MarkStoppedCAS(w)
              \/ MarkFailedCAS(w) \/ Stops(w))
  BY <1>9
  DEF RowMove, Work, db, StartRunning, StartReread, StartStopLog, Claim, PreCheck, Prepare,
      ExecDone, ExecFail, ExecPanic, ExecCancelled, Complete, SettleTerminal, CompleteFailed,
      MarkStopped, ClearFlag, MarkFailed, TerminalLog, Settle, Ack, Nack
<1> QED BY <1>3, <1>4, <1>5, <1>6, <1>7, <1>8, <1>9

\* Every step of the system.
LEMMA EveryMove ==
    ASSUME TypeInv, RowInv, [Next]_vars
    PROVE  RowMove
<1>0. ServiceTypeOK /\ Known
  BY DEF TypeInv, ServiceInv
<1>1. ASSUME NEW c \in Clients, Client(c)
      PROVE  RowMove
  BY <1>0, <1>1, RequestMoves DEF Client, Actors
<1>2. ASSUME NEW p \in Procs, Scheduling(p)
      PROVE  RowMove
  BY <1>0, <1>2, RequestMoves DEF Scheduling, ClientStep, Actors
<1>3. ASSUME NEW w \in Workers, Work(w)
      PROVE  RowMove
  BY <1>0, <1>3, WorkMovesRow
<1>4. ASSUME NEW p \in Procs, StartProc(p) \/ Boot(p) \/ StopProc(p) \/ StopDone(p) \/ Crash(p)
      PROVE  RowMove
  BY <1>4 DEF RowMove, StartProc, Boot, StopProc, StopDone, Crash, db
<1>5. ASSUME NEW w \in Workers, PollCancel(w) \/ \E m \in MsgIds : Deliver(w, m)
      PROVE  RowMove
  BY <1>5 DEF RowMove, PollCancel, Deliver, db
<1>6. ASSUME NEW m \in MsgIds, Expire(m) \/ Lapse(m)
      PROVE  RowMove
  BY <1>6 DEF RowMove, Expire, Lapse, db
<1>7. CASE UNCHANGED vars
  BY <1>7 DEF RowMove, vars, serviceVars
<1> QED BY <1>1, <1>2, <1>3, <1>4, <1>5, <1>6, <1>7 DEF Next

\* A move never makes a second row.
LEMMA MovesKeepOneRow ==
    ASSUME ServiceTypeOK, OneRow, RowMove
    PROVE  OneRow'
<1>1. CASE UNCHANGED status
  BY <1>1 DEF OneRow, Rows
<1>2. ASSUME NEW i \in Tasks, Lifecycle!Accept(i)
      PROVE  OneRow'
  <2>1. Rows = {}
    BY <1>2, RowsAreRows DEF Lifecycle!Accept, Rows
  <2> QED BY <1>2, <2>1 DEF Lifecycle!Accept, Lifecycle!Move, OneRow, Rows, ServiceTypeOK
<1>3. ASSUME NEW i \in Tasks, NEW to, i \in Rows, status' = [status EXCEPT ![i] = to]
      PROVE  OneRow'
  BY <1>3 DEF OneRow, Rows, ServiceTypeOK
<1>4. ASSUME NEW i \in Tasks, NEW from \in SUBSET Statuses, NEW to, Lifecycle!Move(i, from, to)
      PROVE  OneRow'
  BY <1>3, <1>4 DEF Lifecycle!Move, Rows
<1>5. ASSUME NEW i \in Tasks, Lifecycle!Drop(i)
      PROVE  OneRow'
  BY <1>3, <1>5, RowsAreRows DEF Lifecycle!Drop
<1>6. ASSUME NEW i \in Tasks, Lifecycle!Schedule(i) \/ Lifecycle!Begin(i) \/ Lifecycle!End(i)
      PROVE  OneRow'
  BY <1>4, <1>6 DEF Lifecycle!Schedule, Lifecycle!Begin, Lifecycle!End, Statuses
<1>7. ASSUME NEW i \in Tasks, Lifecycle!Stop(i) \/ Lifecycle!Again(i)
      PROVE  OneRow'
  BY <1>4, <1>7 DEF Lifecycle!Stop, Lifecycle!Again, Statuses
<1> QED BY <1>1, <1>2, <1>5, <1>6, <1>7 DEF RowMove, Lifecycle!Next

\* A caller gets into mode "delete" only by such a request.
LEMMA ModesKeep ==
    ASSUME ServiceTypeOK, DeletesAreAsked, [Next]_vars
    PROVE  DeletesAreAsked'
<1> USE DEF DeletesAreAsked, Goto, Finish, StopAnswer
<1>1. ASSUME NEW c \in Actors, ClientStep(c)
      PROVE  DeletesAreAsked'
  <2>1. CASE AskDelete(c)
    BY <1>1, <2>1 DEF AskDelete, Ask
  <2>2. CASE ~ AskDelete(c)
    <3>1. mode' = mode \/ \E m \in Modes \ {"delete"} : mode' = [mode EXCEPT ![c] = m]
      <4> USE DEF Modes
      <4>1. CASE AskParse(c) \/ AskReparse(c) \/ AskStop(c) \/ AskRemove(c)
        BY <4>1 DEF AskParse, AskReparse, AskStop, AskRemove
      <4>2. CASE ParseRead(c) \/ Create(c) \/ Retry(c) \/ RetryFlag(c) \/ OpenLog(c)
        BY <4>2 DEF ParseRead, Create, Retry, RetryFlag, OpenLog
      <4>3. CASE Publish(c) \/ MarkScheduled(c) \/ ScheduledLog(c) \/ DropLog(c) \/ Rollback(c)
        BY <4>3 DEF Publish, MarkScheduled, ScheduledLog, DropLog, Rollback
      <4>4. CASE RequestStop(c) \/ StopQueued(c) \/ StopQueuedLog(c) \/ StopRunning(c) \/ StopFlag(c)
        BY <4>4 DEF RequestStop, StopQueued, StopQueuedLog, StopRunning, StopFlag
      <4>5. CASE Delete(c) \/ ClearDelete(c) \/ ClientCrash(c)
        BY <4>5 DEF Delete, ClearDelete, ClientCrash
      <4> QED BY <1>1, <2>2, <4>1, <4>2, <4>3, <4>4, <4>5 DEF ClientStep
    <3> QED BY <3>1 DEF ServiceTypeOK
  <2> QED BY <2>1, <2>2
<1>2. ASSUME NEW w \in Workers, Work(w)
      PROVE  DeletesAreAsked'
  <2>1. CASE Stops(w)
    BY <1>1, <2>1 DEF Stops, ClientStep, Actors
  <2>2. CASE ~ Stops(w)
    <3>1. \/ mode' = mode
          \/ \E m \in {"none", "cancel", "settle", "fail", "panic"} : mode' = [mode EXCEPT ![w] = m]
      BY <1>2, <2>2
      DEF Work, StartRunning, StartCAS, StartReread, StartStop, StartStopLog, Claim, PreCheck,
          Prepare, ExecDone, ExecFail, ExecPanic, ExecCancelled, Complete, CompleteCAS,
          SettleTerminal, CompleteFailed, MarkStopped, MarkStoppedCAS, ClearFlag, MarkFailed,
          MarkFailedCAS, TerminalLog, Settle, Ack, Nack, Rest, actor
    <3> QED BY <3>1 DEF ServiceTypeOK
  <2> QED BY <2>1, <2>2
<1>3. ASSUME NEW p \in Procs, Scheduling(p)
      PROVE  DeletesAreAsked'
  BY <1>1, <1>3 DEF Scheduling, ClientStep, Actors
<1>4. ASSUME NEW p \in Procs, StartProc(p) \/ Boot(p) \/ StopProc(p) \/ StopDone(p) \/ Crash(p)
      PROVE  DeletesAreAsked'
  BY <1>4 DEF StartProc, Boot, StopProc, StopDone, Crash, actor
<1>5. ASSUME NEW w \in Workers, PollCancel(w) \/ \E m \in MsgIds : Deliver(w, m)
      PROVE  DeletesAreAsked'
  BY <1>5 DEF PollCancel, Deliver, actor
<1>6. ASSUME NEW m \in MsgIds, Expire(m) \/ Lapse(m)
      PROVE  DeletesAreAsked'
  BY <1>6 DEF Expire, Lapse, actor
<1>7. CASE UNCHANGED vars
  BY <1>7 DEF vars, serviceVars
<1> QED BY <1>1, <1>2, <1>3, <1>4, <1>5, <1>6, <1>7 DEF Next, Client, Actors

\* The unique index and the guarded statements keep RowInv.
LEMMA RowInvariant == Spec => []RowInv
<1>1. Init => RowInv
  BY DEF Init, ServiceInit, RowInv, OneRow, DeletesAreAsked, Rows, Statuses, Actors
<1>2. TypeInv /\ RowInv /\ [Next]_vars => RowInv'
  BY EveryMove, MovesKeepOneRow, ModesKeep DEF RowInv, TypeInv, ServiceInv
<1> QED BY <1>1, <1>2, TypeInvariant, PTL DEF Spec

\* The API servers, the ingestors and the broker, with their crashes, redeliveries
\* and races, implement TaskLifecycle: the row moves only along the state machine,
\* is the document's only one, and is not deleted under a worker unless an
\* unguarded delete was asked for.
THEOREM ImplementsLifecycle == Spec => LifecycleSpec
<1>1. Init => Lifecycle!Init
  BY DEF Init, ServiceInit, Lifecycle!Init
<1>2. TypeInv /\ RowInv /\ [Next]_vars => [Lifecycle!Next]_status
  BY EveryMove DEF RowMove
<1> QED BY <1>1, <1>2, TypeInvariant, RowInvariant, PTL DEF Spec, LifecycleSpec, Lifecycle!Spec

------------------------------------------------------------------------------
(* The messages behind the runs.  RunsAreBacked is not inductive: a worker that *)
(* has seen its task end acknowledges the message some steps later, when a      *)
(* retry may have made the task live again.  Such a worker is Spent, and a run  *)
(* must have a message that no Spent worker holds (Covered).  A publisher that  *)
(* has yet to mark its task SCHEDULED must find it covered as well.             *)

\* One request at a time, one ingestor process, and no message with two holders:
\* heartbeats keep their deadlines or the process has one worker.
OneAtATime ==
    /\ \A c, d \in Clients : c = d
    /\ \A p, q \in Procs : p = q
    /\ MaxLapses = 0 \/ \A v, w \in Workers : v = w

\* The statuses of a task that is going to run or runs.
Live == {"CREATED", "SCHEDULED", "RUNNING"}

\* The worker is going to acknowledge its message, or may do so, whatever the
\* status of its task is then.
Spent(w) ==
    \/ pc[w] \in {"Ack", "StartStopLog", "ClearFlag"}
    \/ term[w]
    \/ pc[w] = "StartReread" /\ status[job[w]] # "RUNNING"

\* An unsettled message of t that no worker is going to acknowledge regardless.
Covers(m, t) ==
    /\ mtask[m] = t /\ mstate[m] \in {"queued", "inflight"}
    /\ \A w \in Workers : held[w] = m => ~ Spent(w)

Covered(t) == \E m \in MsgIds : Covers(m, t)

\* A worker holds the unsettled message of its task from hand-off to settlement
\* and shares it with nobody; a process that boots has no worker at work.
HeldInv ==
    /\ \A w \in Workers : held[w] \in MsgIds <=> pc[w] # "idle"
    /\ \A w \in Workers : held[w] \in MsgIds =>
         /\ mtask[held[w]] = job[w]
         /\ mstate[held[w]] = "inflight" \/ (mstate[held[w]] = "queued" /\ MaxLapses # 0)
    /\ \A v, w \in Workers : held[v] \in MsgIds /\ held[v] = held[w] => v = w
    /\ \A w \in Workers : pc[w] \in {"idle", "StartRunning", "StartCAS"} => ~ term[w]
    /\ \A p \in Procs : proc[p] \in {"down", "booting"} =>
         \A w \in Workers : ProcOf[w] = p => pc[w] = "idle"
    /\ \A p \in Procs : pc[p] # "idle" => proc[p] = "booting"

\* A run, and whoever is about to schedule one, has a message behind it.
CoverInv ==
    \A t \in Tasks :
        \/ status[t] \in {"SCHEDULED", "RUNNING"}
        \/ status[t] = "CREATED" /\ \E c \in Clients : pc[c] = "MarkScheduled" /\ job[c] = t
        \/ \E p \in Procs : pc[p] = "MarkScheduled" /\ job[p] = t
        => Covered(t)

\* A worker that goes on with its message: it is spent only if its task has ended.
Proceeds(w) ==
    /\ UNCHANGED <<mstate, mtask, held, job, proc>>
    /\ pc[w] # "idle"
    /\ \E l \in Labels \ {"idle"} : pc' = [pc EXCEPT ![w] = l]
    /\ \A v \in Workers \ {w} : term'[v] = term[v]
    /\ pc'[w] \in {"StartRunning", "StartCAS"} => pc[w] = "StartRunning" /\ term'[w] = term[w]
    /\ Spent(w)' => Spent(w) \/ status'[job[w]] \notin Live

\* Every step of a worker but a refused claim and the settlement goes on with the
\* message.
LEMMA WorkProceeds ==
    ASSUME ServiceTypeOK, Known, IngestorTypeOK, NEW w \in Workers, Work(w), ~ Ack(w), ~ Nack(w),
           ~ (Claim(w) /\ job[w] \in claimed[ProcOf[w]])
    PROVE  Proceeds(w)
<1>1. w \in Actors /\ (pc[w] \in TaskLabels => job[w] \in Tasks)
  BY DEF Actors, Known
<1> USE <1>1 DEF Proceeds, Spent, Live, Labels, WorkerLabels, RunLabels, Goto, worker, elsewhere, process,
                 db, broker
<1>2. CASE StartRunning(w)
  BY <1>2 DEF StartRunning, ServiceTypeOK, IngestorTypeOK, isTerminal, Statuses
<1>3. CASE StartCAS(w)
  BY <1>3 DEF StartCAS, UpdateStatusIfCurrent, ServiceTypeOK, IngestorTypeOK, Statuses, TaskLabels
<1>4. CASE StartReread(w)
  BY <1>4 DEF StartReread, ServiceTypeOK, IngestorTypeOK, Statuses
<1>5. CASE StartStop(w)
  BY <1>5 DEF StartStop, transition, transitionRefused, ServiceTypeOK, IngestorTypeOK, Statuses, TaskLabels
<1>6. CASE StartStopLog(w)
  BY <1>6 DEF StartStopLog, ServiceTypeOK, IngestorTypeOK
<1>7. CASE Claim(w) \/ PreCheck(w) \/ Prepare(w)
  BY <1>7 DEF Claim, PreCheck, Prepare, ServiceTypeOK, IngestorTypeOK
<1>8. CASE ExecDone(w) \/ ExecFail(w) \/ ExecPanic(w) \/ ExecCancelled(w)
  BY <1>8 DEF ExecDone, ExecFail, ExecPanic, ExecCancelled, ServiceTypeOK, IngestorTypeOK
<1>9. CASE Complete(w)
  BY <1>9 DEF Complete, isTerminal, ServiceTypeOK, IngestorTypeOK
<1>10. CASE CompleteCAS(w)
  BY <1>10 DEF CompleteCAS, transition, transitionRefused, ServiceTypeOK, IngestorTypeOK, TaskLabels
<1>11. CASE SettleTerminal(w)
  BY <1>11 DEF SettleTerminal, isTerminal, ServiceTypeOK, IngestorTypeOK
<1>12. CASE CompleteFailed(w)
  BY <1>12 DEF CompleteFailed, ServiceTypeOK, IngestorTypeOK
<1>13. CASE Stops(w)
  <2> USE DEF Stops, StopAnswer, ServiceTypeOK, IngestorTypeOK
  <2>1. CASE RequestStop(w)
    BY <1>13, <2>1 DEF RequestStop
  <2>2. CASE StopQueued(w)
    BY <1>13, <2>2 DEF StopQueued
  <2>3. CASE StopQueuedLog(w)
    BY <1>13, <2>3 DEF StopQueuedLog
  <2>4. CASE StopRunning(w)
    BY <1>13, <2>4 DEF StopRunning
  <2>5. CASE StopFlag(w)
    BY <1>13, <2>5 DEF StopFlag
  <2> QED BY <1>13, <2>1, <2>2, <2>3, <2>4, <2>5
<1>14. CASE MarkStopped(w)
  BY <1>14 DEF MarkStopped, isTerminal, StopAnswer, ServiceTypeOK, IngestorTypeOK
<1>15. CASE MarkStoppedCAS(w)
  BY <1>15 DEF MarkStoppedCAS, transition, StopAnswer, ServiceTypeOK, IngestorTypeOK, TaskLabels
<1>16. CASE ClearFlag(w)
  BY <1>16 DEF ClearFlag, ServiceTypeOK, IngestorTypeOK
<1>17. CASE MarkFailed(w)
  BY <1>17 DEF MarkFailed, isTerminal, ServiceTypeOK, IngestorTypeOK
<1>18. CASE MarkFailedCAS(w)
  BY <1>18 DEF MarkFailedCAS, transition, transitionRefused, ServiceTypeOK, IngestorTypeOK, TaskLabels
<1>19. CASE TerminalLog(w)
  BY <1>19 DEF TerminalLog, ServiceTypeOK, IngestorTypeOK
<1>20. CASE Settle(w)
  BY <1>20 DEF Settle, isTerminal, Statuses, ServiceTypeOK, IngestorTypeOK
<1> QED
  BY <1>2, <1>3, <1>4, <1>5, <1>6, <1>7, <1>8, <1>9, <1>10, <1>11, <1>12, <1>13, <1>14,
     <1>15, <1>16, <1>17, <1>18, <1>19, <1>20
  DEF Work

\* A run that is left is not left for another start.
LEMMA RunningEnds ==
    ASSUME ServiceTypeOK, RowMove, NEW t \in Tasks, status[t] = "RUNNING", status'[t] # "RUNNING"
    PROVE  status'[t] \notin Live
  BY DEF ServiceTypeOK, RowMove, Live, Lifecycle!Next, Lifecycle!Accept, Lifecycle!Schedule,
         Lifecycle!Begin, Lifecycle!End, Lifecycle!Stop, Lifecycle!Again, Lifecycle!Drop,
         Lifecycle!Move, Lifecycle!Row

\* A step that leaves the messages where they are takes no cover from a live task.
LEMMA CoverStays ==
    ASSUME ServiceTypeOK, HeldInv, RowMove, UNCHANGED <<mstate, mtask, held>>,
           \A v \in Workers : job'[v] = job[v],
           \A v \in Workers : \/ pc'[v] = pc[v] /\ term'[v] = term[v]
                              \/ Spent(v)' => Spent(v) \/ status'[job[v]] \notin Live,
           NEW t \in Tasks, NEW m \in MsgIds, Covers(m, t),
           status'[t] \in Live \/ \A v \in Workers : held[v] # m
    PROVE  Covers(m, t)'
<1>1. SUFFICES ASSUME NEW v \in Workers, held[v] = m, Spent(v)'
               PROVE  FALSE
  BY DEF Covers
<1>2. job[v] = t /\ job'[v] = t /\ status'[t] \in Live /\ ~ Spent(v)
  BY <1>1 DEF HeldInv, Covers
<1>3. pc'[v] = pc[v] /\ term'[v] = term[v]
  BY <1>1, <1>2
<1>4. status[t] = "RUNNING" /\ status'[t] # "RUNNING"
  BY <1>1, <1>2, <1>3 DEF Spent
<1> QED BY <1>2, <1>4, RunningEnds

\* A step of a request or of a startup pass starts no run: it makes a task SCHEDULED
\* only in MarkScheduled, where only a publish brings it.
LEMMA RequestStatus ==
    ASSUME ServiceTypeOK, Known, NEW c \in Actors, ClientStep(c)
    PROVE  /\ \A t \in Tasks : status'[t] \in {"SCHEDULED", "RUNNING"} =>
                \/ status'[t] = status[t]
                \/ pc[c] = "MarkScheduled" /\ t = job[c] /\ status[t] = "CREATED"
           /\ ~ Publish(c) => UNCHANGED <<mstate, mtask>> /\ pc'[c] # "MarkScheduled"
           /\ \A a \in Actors \ {c} : pc'[a] = pc[a] /\ job'[a] = job[a]
<1> USE DEF Goto, Finish, StopAnswer, db, broker, ServiceTypeOK
<1>1. pc[c] \in TaskLabels => job[c] \in Tasks
  BY DEF Known
<1>2. CASE AskParse(c) \/ AskReparse(c) \/ AskStop(c) \/ AskRemove(c) \/ AskDelete(c)
  BY <1>2 DEF AskParse, AskReparse, AskStop, AskRemove, AskDelete
<1>3. CASE ParseRead(c) \/ RetryFlag(c) \/ OpenLog(c)
  BY <1>3 DEF ParseRead, RetryFlag, OpenLog
<1>4. CASE Create(c)
  BY <1>4 DEF Create
<1>5. CASE Retry(c)
  BY <1>5 DEF Retry, transition, transitionRefused
<1>6. CASE Publish(c)
  BY <1>6 DEF Publish
<1>7. CASE MarkScheduled(c)
  BY <1>1, <1>7 DEF MarkScheduled, UpdateStatusIfCurrent, TaskLabels, Labels, ClientLabels
<1>8. CASE ScheduledLog(c) \/ DropLog(c) \/ ClientCrash(c)
  BY <1>8 DEF ScheduledLog, DropLog, ClientCrash
<1>9. CASE Rollback(c)
  BY <1>9 DEF Rollback, UpdateStatusIfCurrent, Known
<1>10. CASE RequestStop(c) \/ StopQueuedLog(c) \/ StopFlag(c)
  BY <1>10 DEF RequestStop, StopQueuedLog, StopFlag
<1>11. CASE StopQueued(c)
  BY <1>11 DEF StopQueued, UpdateStatusIfCurrent
<1>12. CASE StopRunning(c)
  BY <1>12 DEF StopRunning, transition, transitionRefused
<1>13. CASE Delete(c)
  BY <1>13 DEF Delete, UpdateStatusIfCurrent
<1>14. CASE ClearDelete(c)
  BY <1>14 DEF ClearDelete
<1> QED
  BY <1>2, <1>3, <1>4, <1>5, <1>6, <1>7, <1>8, <1>9, <1>10, <1>11, <1>12, <1>13, <1>14
  DEF ClientStep

\* A worker makes a task RUNNING only in StartCAS, and never CREATED or SCHEDULED.
LEMMA WorkStatus ==
    ASSUME ServiceTypeOK, Known, NEW w \in Workers, Work(w), NEW t \in Tasks,
           status'[t] # status[t]
    PROVE  /\ status'[t] \notin {"CREATED", "SCHEDULED"}
           /\ status'[t] = "RUNNING" =>
                /\ t = job[w] /\ pc[w] = "StartCAS" /\ status[t] \in {"CREATED", "SCHEDULED"}
                /\ pc' = [pc EXCEPT ![w] = "StartReread"] /\ UNCHANGED worker
<1>1. w \in Actors /\ (pc[w] \in TaskLabels => job[w] \in Tasks)
  BY DEF Actors, Known
<1> USE <1>1 DEF ServiceTypeOK, db
<1>2. CASE StartCAS(w)
  BY <1>2 DEF StartCAS, UpdateStatusIfCurrent, Goto
<1>3. CASE StartStop(w)
  BY <1>3 DEF StartStop, transition, transitionRefused
<1>4. CASE CompleteCAS(w)
  BY <1>4 DEF CompleteCAS, transition, transitionRefused
<1>5. CASE MarkStoppedCAS(w)
  BY <1>5 DEF MarkStoppedCAS, transition, transitionRefused
<1>6. CASE MarkFailedCAS(w)
  BY <1>6 DEF MarkFailedCAS, transition, transitionRefused
<1>7. CASE Stops(w)
  BY <1>7 DEF Stops, RequestStop, StopQueued, StopQueuedLog, StopRunning, StopFlag,
              UpdateStatusIfCurrent, transition, transitionRefused
<1>8. CASE ~ (\/ StartCAS(w) \/ StartStop(w) \/ CompleteCAS(w) \/ MarkStoppedCAS(w)
              \/ MarkFailedCAS(w) \/ Stops(w))
  BY <1>8
  DEF Work, StartRunning, StartReread, StartStopLog, Claim, PreCheck, Prepare,
      ExecDone, ExecFail, ExecPanic, ExecCancelled, Complete, SettleTerminal, CompleteFailed,
      MarkStopped, ClearFlag, MarkFailed, TerminalLog, Settle, Ack, Nack
<1> QED BY <1>2, <1>3, <1>4, <1>5, <1>6, <1>7, <1>8

\* A worker comes to rest and lets its message go; it settles no other message, and
\* acknowledges its own only where it was going to.
LetsGo(w) ==
    /\ pc[w] # "idle" /\ pc'[w] = "idle" /\ held'[w] = NoMsg /\ ~ term'[w]
    /\ UNCHANGED <<status, mtask, proc>>
    /\ \A a \in Actors \ {w} : pc'[a] = pc[a] /\ job'[a] = job[a]
    /\ \A v \in Workers \ {w} : held'[v] = held[v] /\ term'[v] = term[v]
    /\ \A m \in MsgIds : m # held[w] => mstate'[m] = mstate[m]
    /\ mstate[held[w]] \in {"queued", "inflight"} /\ pc[w] # "Ack" =>
         mstate'[held[w]] \in {"queued", "inflight"}

\* A refused claim and the settlement let the message go.
LEMMA WorkLetsGo ==
    ASSUME ServiceTypeOK, IngestorTypeOK, HeldInv, NEW w \in Workers,
           Ack(w) \/ Nack(w) \/ (Claim(w) /\ job[w] \in claimed[ProcOf[w]])
    PROVE  LetsGo(w)
<1>1. w \in Actors /\ pc[w] # "idle" /\ held[w] \in MsgIds
  BY DEF Actors, HeldInv, Ack, Nack, Claim
<1>2. \A v \in Workers : v \in Actors
  BY DEF Actors
<1>3. CASE Ack(w)
  BY <1>1, <1>2, <1>3 DEF Ack, Rest, LetsGo, db, ServiceTypeOK, IngestorTypeOK
<1>4. CASE Nack(w)
  BY <1>1, <1>2, <1>4 DEF Nack, Rest, LetsGo, db, ServiceTypeOK, IngestorTypeOK
<1>5. CASE Claim(w) /\ job[w] \in claimed[ProcOf[w]]
  BY <1>1, <1>2, <1>5 DEF Claim, Rest, LetsGo, db, broker, ServiceTypeOK, IngestorTypeOK
<1> QED BY <1>3, <1>4, <1>5

\* Every step keeps holders and messages matched.
LEMMA HeldStep ==
    ASSUME OneAtATime, TypeInv, HeldInv, [Next]_vars
    PROVE  HeldInv'
<1> USE ServiceAssumption, IngestorAssumption, NoMsgId
<1>0. ServiceTypeOK /\ IngestorTypeOK /\ Known /\ \A v \in Workers : v \in Actors
  BY DEF TypeInv, ServiceInv, Actors
<1>1. ASSUME NEW c \in Clients \cup Procs, ClientStep(c), UNCHANGED <<worker, process>>,
             c \in Procs => pc[c] # "idle"
      PROVE  HeldInv'
  <2>1. \A v \in Workers : pc'[v] = pc[v] /\ job'[v] = job[v]
    BY <1>0, <1>1, RequestSteps DEF Actors
  <2>2. \A p \in Procs : pc'[p] # "idle" => pc[p] # "idle"
    BY <1>0, <1>1, RequestStatus DEF Actors
  <2>3. \A w \in Workers : held[w] \in MsgIds =>
           mstate'[held[w]] = mstate[held[w]] /\ mtask'[held[w]] = mtask[held[w]]
    <3>1. CASE Publish(c)
      <4>1. \A k \in MsgIds : mstate[k] # "free" => mstate'[k] = mstate[k] /\ mtask'[k] = mtask[k]
        BY <1>0, <3>1 DEF Publish, Enqueue, broker, ServiceTypeOK
      <4> QED BY <4>1 DEF HeldInv
    <3>2. CASE ~ Publish(c)
      BY <1>0, <1>1, <3>2, RequestStatus DEF Actors
    <3> QED BY <3>1, <3>2
  <2> QED BY <1>1, <2>1, <2>2, <2>3 DEF HeldInv, worker, process
<1>2. ASSUME NEW p \in Procs, StartProc(p) \/ Boot(p) \/ StopProc(p) \/ StopDone(p)
      PROVE  HeldInv'
  <2>1. \A v \in Workers : pc'[v] = pc[v] /\ job'[v] = job[v]
    BY <1>0, <1>2 DEF StartProc, Boot, StopProc, StopDone, actor, ServiceTypeOK
  <2>2. UNCHANGED <<mstate, mtask, held, term>>
    BY <1>2 DEF StartProc, Boot, StopProc, StopDone, broker, worker
  <2>3. \A q \in Procs : proc'[q] \in {"down", "booting"} =>
          \A w \in Workers : ProcOf[w] = q => pc[w] = "idle"
    BY <1>0, <1>2 DEF StartProc, Boot, StopProc, StopDone, HeldInv, IngestorTypeOK
  <2>4. \A q \in Procs : q \in Actors
    BY DEF Actors
  <2>5. \A q \in Procs : pc'[q] # "idle" => proc'[q] = "booting"
    BY <1>0, <1>2, <2>4 DEF StartProc, Boot, StopProc, StopDone, actor, HeldInv, IngestorTypeOK, ServiceTypeOK
  <2> QED BY <2>1, <2>2, <2>3, <2>5 DEF HeldInv
<1>3. ASSUME NEW p \in Procs, Crash(p)
      PROVE  HeldInv'
  <2>1. \A w \in Workers :
          IF ProcOf[w] = p THEN pc'[w] = "idle" /\ held'[w] = NoMsg /\ ~ term'[w]
          ELSE pc'[w] = pc[w] /\ job'[w] = job[w] /\ held'[w] = held[w] /\ term'[w] = term[w]
    BY <1>0, <1>3 DEF Crash
  <2>2. UNCHANGED <<mstate, mtask>> /\ proc' = [proc EXCEPT ![p] = "down"]
    BY <1>3 DEF Crash, broker
  <2>3. \A q \in Procs : pc'[q] = IF q = p THEN "idle" ELSE pc[q]
    BY <1>3 DEF Crash, Actors
  <2> QED BY <1>0, <2>1, <2>2, <2>3 DEF HeldInv, IngestorTypeOK
<1>4. ASSUME NEW w \in Workers, Proceeds(w)
      PROVE  HeldInv'
  <2>1. /\ pc'[w] # "idle" /\ pc[w] # "idle"
        /\ \A a \in Actors \ {w} : pc'[a] = pc[a]
        /\ \A p \in Procs : p \in Actors \ {w}
        /\ \A v \in Workers \ {w} : v \in Actors \ {w} /\ term'[v] = term[v]
        /\ pc'[w] \in {"StartRunning", "StartCAS"} => pc[w] = "StartRunning" /\ term'[w] = term[w]
    BY <1>0, <1>4 DEF Proceeds, ServiceTypeOK, Actors
  <2>2. UNCHANGED <<mstate, mtask, held, job, proc>>
    BY <1>4 DEF Proceeds
  <2> QED BY <2>1, <2>2 DEF HeldInv
<1>5. ASSUME NEW w \in Workers, LetsGo(w)
      PROVE  HeldInv'
  <2>1. \A p \in Procs : p \in Actors \ {w}
    BY DEF Actors
  <2>2. \A v \in Workers \ {w} : held[v] \in MsgIds => held[v] # held[w]
    BY DEF HeldInv
  <2>3. \A v \in Workers : held'[v] \in MsgIds =>
          v # w /\ held'[v] = held[v] /\ mstate'[held[v]] = mstate[held[v]]
    BY <1>5, <2>2 DEF LetsGo
  <2>4. \A v \in Workers : held'[v] \in MsgIds <=> pc'[v] # "idle"
    BY <1>0, <1>5 DEF HeldInv, LetsGo
  <2>5. \A v \in Workers : held'[v] \in MsgIds =>
          /\ mtask'[held'[v]] = job'[v]
          /\ mstate'[held'[v]] = "inflight" \/ (mstate'[held'[v]] = "queued" /\ MaxLapses # 0)
    BY <1>0, <1>5, <2>3 DEF HeldInv, LetsGo
  <2>6. \A u, v \in Workers : held'[u] \in MsgIds /\ held'[u] = held'[v] => u = v
    BY <2>3 DEF HeldInv
  <2>7. \A v \in Workers : pc'[v] \in {"idle", "StartRunning", "StartCAS"} => ~ term'[v]
    BY <1>0, <1>5 DEF HeldInv, LetsGo
  <2>8. \A p \in Procs : proc'[p] \in {"down", "booting"} =>
          \A v \in Workers : ProcOf[v] = p => pc'[v] = "idle"
    BY <1>0, <1>5 DEF HeldInv, LetsGo
  <2>9. \A p \in Procs : pc'[p] # "idle" => proc'[p] = "booting"
    BY <1>5, <2>1 DEF HeldInv, LetsGo
  <2> QED BY <2>4, <2>5, <2>6, <2>7, <2>8, <2>9 DEF HeldInv
<1>6. ASSUME NEW w \in Workers, PollCancel(w)
      PROVE  HeldInv'
  BY <1>6 DEF PollCancel, actor, broker, elsewhere, HeldInv
<1>7. ASSUME NEW w \in Workers, NEW m \in MsgIds, Deliver(w, m)
      PROVE  HeldInv'
  <2>1. /\ pc'[w] = "StartRunning" /\ held'[w] = m /\ job'[w] = mtask[m]
        /\ \A v \in Workers \ {w} : pc'[v] = pc[v] /\ job'[v] = job[v] /\ held'[v] = held[v]
        /\ \A p \in Procs : pc'[p] = pc[p]
    BY <1>0, <1>7 DEF Deliver, ServiceTypeOK, IngestorTypeOK, Actors
  <2>2. /\ mstate'[m] = "inflight" /\ \A k \in MsgIds \ {m} : mstate'[k] = mstate[k]
        /\ UNCHANGED <<mtask, term, proc>>
    BY <1>0, <1>7 DEF Deliver, ServiceTypeOK, elsewhere
  <2>3. \A v \in Workers \ {w} : held[v] # m
    BY <1>7 DEF Deliver, HeldInv, OneAtATime
  <2>4. proc[ProcOf[w]] = "up"
    BY <1>7 DEF Deliver
  <2>5. \A v \in Workers : held'[v] \in MsgIds <=> pc'[v] # "idle"
    BY <2>1 DEF HeldInv
  <2>6. \A v \in Workers : held'[v] \in MsgIds =>
          /\ mtask'[held'[v]] = job'[v]
          /\ mstate'[held'[v]] = "inflight" \/ (mstate'[held'[v]] = "queued" /\ MaxLapses # 0)
    <3> SUFFICES ASSUME NEW v \in Workers, held'[v] \in MsgIds
                 PROVE  /\ mtask'[held'[v]] = job'[v]
                        /\ \/ mstate'[held'[v]] = "inflight"
                           \/ mstate'[held'[v]] = "queued" /\ MaxLapses # 0
      OBVIOUS
    <3>1. CASE v = w
      BY <2>1, <2>2, <3>1
    <3>2. CASE v # w
      <4>1. held'[v] = held[v] /\ job'[v] = job[v] /\ held[v] \in MsgIds \ {m}
        BY <2>1, <2>3, <3>2
      <4>2. mstate'[held[v]] = mstate[held[v]] /\ mtask' = mtask
        BY <2>2, <4>1
      <4> QED BY <4>1, <4>2 DEF HeldInv
    <3> QED BY <3>1, <3>2
  <2>7. \A u, v \in Workers : held'[u] \in MsgIds /\ held'[u] = held'[v] => u = v
    BY <2>1, <2>3 DEF HeldInv
  <2>8. \A v \in Workers : pc'[v] \in {"idle", "StartRunning", "StartCAS"} => ~ term'[v]
    BY <1>7, <2>1, <2>2 DEF HeldInv, Deliver
  <2>9. \A p \in Procs : proc'[p] \in {"down", "booting"} =>
          \A v \in Workers : ProcOf[v] = p => pc'[v] = "idle"
    BY <2>1, <2>2, <2>4 DEF HeldInv
  <2>10. \A p \in Procs : pc'[p] # "idle" => proc'[p] = "booting"
    BY <2>1, <2>2 DEF HeldInv
  <2> QED BY <2>5, <2>6, <2>7, <2>8, <2>9, <2>10 DEF HeldInv
<1>8. ASSUME NEW m \in MsgIds, Expire(m) \/ Lapse(m)
      PROVE  HeldInv'
  <2>1. /\ mstate' = [mstate EXCEPT ![m] = "queued"]
        /\ UNCHANGED <<mtask, pc, job, held, term, proc>>
        /\ MaxLapses # 0 \/ \A w \in Workers : held[w] # m
    BY <1>0, <1>8 DEF Expire, Lapse, actor, worker, elsewhere, process, IngestorTypeOK
  <2> QED BY <1>0, <2>1 DEF HeldInv, ServiceTypeOK
<1>9. CASE UNCHANGED vars
  BY <1>9 DEF vars, serviceVars, HeldInv
<1>10. ASSUME NEW c \in Clients, Client(c) PROVE HeldInv'
  BY <1>1, <1>10 DEF Client
<1>11. ASSUME NEW p \in Procs, Scheduling(p) PROVE HeldInv'
  BY <1>1, <1>11 DEF Scheduling, ClientStep, Publish, MarkScheduled, ScheduledLog
<1>12. ASSUME NEW w \in Workers, Work(w) PROVE HeldInv'
  BY <1>0, <1>4, <1>5, <1>12, WorkProceeds, WorkLetsGo
<1> QED
  BY <1>2, <1>3, <1>6, <1>7, <1>8, <1>9, <1>10, <1>11, <1>12 DEF Next

\* While a process boots nobody holds a message.
LEMMA BootHoldsNothing ==
    ASSUME OneAtATime, HeldInv, NEW p \in Procs, pc[p] # "idle", NEW w \in Workers
    PROVE  pc[w] = "idle" /\ held[w] \notin MsgIds
  BY IngestorAssumption DEF OneAtATime, HeldInv

\* A step of a request, or of a startup pass, that publishes nothing.
LEMMA RequestKeepsCover ==
    ASSUME OneAtATime, TypeInv, RowMove, HeldInv, CoverInv, NEW c \in Clients \cup Procs,
           ClientStep(c), ~ Publish(c), UNCHANGED worker,
           c \in Procs => MarkScheduled(c) \/ ScheduledLog(c)
    PROVE  CoverInv'
<1> USE ServiceAssumption
<1>0. ServiceTypeOK /\ Known /\ c \in Actors /\ c \notin Workers
  BY DEF TypeInv, ServiceInv, Actors
<1>1. /\ \A v \in Workers : pc'[v] = pc[v] /\ job'[v] = job[v] /\ term'[v] = term[v]
      /\ UNCHANGED <<mstate, mtask, held>>
  BY <1>0, RequestSteps, RequestStatus DEF worker
<1>2. pc'[c] # "MarkScheduled" /\ \A a \in (Clients \cup Procs) \ {c} : pc'[a] = pc[a] /\ job'[a] = job[a]
  BY <1>0, RequestStatus DEF Actors
<1>3. ASSUME NEW t \in Tasks, Covered(t),
             status'[t] \in Live \/ \E p \in Procs : pc[p] = "MarkScheduled"
      PROVE  Covered(t)'
  <2>1. PICK m \in MsgIds : Covers(m, t)
    BY <1>3 DEF Covered
  <2>2. status'[t] \in Live \/ \A v \in Workers : held[v] # m
    BY <1>3, BootHoldsNothing
  <2>3. Covers(m, t)'
    BY <1>0, <1>1, <2>1, <2>2, CoverStays
  <2> QED BY <2>3 DEF Covered
<1>4. ASSUME NEW t \in Tasks, status'[t] \in {"SCHEDULED", "RUNNING"}
      PROVE  Covered(t)'
  <2>1. \/ status[t] = status'[t]
        \/ pc[c] = "MarkScheduled" /\ t = job[c] /\ status[t] = "CREATED"
    BY <1>0, <1>4, RequestStatus
  <2>2. Covered(t)
    BY <1>4, <2>1 DEF CoverInv
  <2> QED BY <1>3, <1>4, <2>2 DEF Live
<1>5. ASSUME NEW t \in Tasks, NEW d \in Clients, status'[t] = "CREATED", pc'[d] = "MarkScheduled", job'[d] = t
      PROVE  Covered(t)'
  <2>1. d # c /\ c \in Procs /\ pc[d] = "MarkScheduled" /\ job[d] = t
    BY <1>2, <1>5 DEF OneAtATime
  <2>2. status[t] = "CREATED"
    BY <1>0, <1>5, <2>1 DEF MarkScheduled, UpdateStatusIfCurrent, ScheduledLog, ServiceTypeOK
  <2> QED BY <1>3, <1>5, <2>1, <2>2 DEF CoverInv, Live
<1>6. ASSUME NEW t \in Tasks, NEW p \in Procs, pc'[p] = "MarkScheduled", job'[p] = t
      PROVE  Covered(t)'
  <2>1. pc[p] = "MarkScheduled" /\ job[p] = t
    BY <1>2, <1>6
  <2> QED BY <1>3, <2>1 DEF CoverInv
<1> QED BY <1>4, <1>5, <1>6 DEF CoverInv

\* A publish covers its task, and takes no cover from another.
LEMMA PublishCovers ==
    ASSUME TypeInv, HeldInv, CoverInv, NEW c \in Clients \cup Procs, Publish(c), UNCHANGED worker
    PROVE  CoverInv'
<1> USE ServiceAssumption
<1>0. ServiceTypeOK /\ Known /\ c \in Actors /\ c \notin Workers
  BY DEF TypeInv, ServiceInv, Actors
<1>1. /\ \A a \in Actors \ {c} : pc'[a] = pc[a] /\ job'[a] = job[a]
      /\ UNCHANGED <<status, held, term>>
  BY <1>0, RequestStatus DEF ClientStep, Publish, db, worker
<1>2. \A v \in Workers : pc'[v] = pc[v] /\ job'[v] = job[v] /\ (Spent(v)' <=> Spent(v))
  BY <1>0, <1>1 DEF Actors, Spent
<1>3. \A k \in MsgIds : mstate[k] # "free" => mstate'[k] = mstate[k] /\ mtask'[k] = mtask[k]
  BY <1>0 DEF Publish, Enqueue, broker, ServiceTypeOK
<1>4. ASSUME NEW t \in Tasks, Covered(t)
      PROVE  Covered(t)'
  <2>1. PICK m \in MsgIds : Covers(m, t)
    BY <1>4 DEF Covered
  <2>2. mtask'[m] = t /\ mstate'[m] \in {"queued", "inflight"}
    BY <1>3, <2>1 DEF Covers
  <2>3. Covers(m, t)'
    BY <1>1, <1>2, <2>1, <2>2 DEF Covers
  <2> QED BY <2>3 DEF Covered
<1>5. ASSUME NEW t \in Tasks, pc'[c] = "MarkScheduled", job'[c] = t
      PROVE  Covered(t)'
  <2>1. job[c] = t /\ Enqueue(t)
    BY <1>0, <1>5 DEF Publish, Goto, Finish, ServiceTypeOK
  <2>2. PICK m \in MsgIds : mstate[m] = "free" /\ mstate'[m] = "queued" /\ mtask'[m] = t
    BY <1>0, <2>1 DEF Enqueue, ServiceTypeOK
  <2>3. \A v \in Workers : held[v] # m
    BY <2>2 DEF HeldInv
  <2>4. Covers(m, t)'
    BY <1>1, <2>2, <2>3 DEF Covers
  <2> QED BY <2>4 DEF Covered
<1>6. ASSUME NEW t \in Tasks, NEW a \in Clients \cup Procs, pc'[a] = "MarkScheduled", job'[a] = t,
             a \in Clients => status[t] = "CREATED"
      PROVE  Covered(t)'
  <2>1. CASE a = c
    BY <1>5, <1>6, <2>1
  <2>2. CASE a # c
    <3>1. pc[a] = "MarkScheduled" /\ job[a] = t
      BY <1>1, <1>6, <2>2 DEF Actors
    <3> QED BY <1>4, <1>6, <3>1 DEF CoverInv
  <2> QED BY <2>1, <2>2
<1>7. ASSUME NEW t \in Tasks, status'[t] \in {"SCHEDULED", "RUNNING"}
      PROVE  Covered(t)'
  BY <1>1, <1>4, <1>7 DEF CoverInv
<1> QED BY <1>1, <1>6, <1>7 DEF CoverInv

\* A worker at work keeps the runs covered, and covers the run it starts.
LEMMA WorkCovers ==
    ASSUME OneAtATime, TypeInv, RowMove, HeldInv, CoverInv, NEW w \in Workers, Work(w), Proceeds(w)
    PROVE  CoverInv'
<1> USE ServiceAssumption
<1>0. ServiceTypeOK /\ Known /\ IngestorTypeOK /\ w \in Actors
  BY DEF TypeInv, ServiceInv, Actors
<1>1. /\ UNCHANGED <<mstate, mtask, held, job>> /\ pc[w] # "idle"
      /\ \A a \in Actors \ {w} : pc'[a] = pc[a]
      /\ \A v \in Workers \ {w} : term'[v] = term[v] /\ v \in Actors
      /\ Spent(w)' => Spent(w) \/ status'[job[w]] \notin Live
  BY <1>0 DEF Proceeds, ServiceTypeOK, Actors
<1>2. ASSUME NEW t \in Tasks, Covered(t), status'[t] \in Live
      PROVE  Covered(t)'
  <2>1. PICK m \in MsgIds : Covers(m, t)
    BY <1>2 DEF Covered
  <2>2. Covers(m, t)'
    BY <1>0, <1>1, <1>2, <2>1, CoverStays
  <2> QED BY <2>2 DEF Covered
<1>3. ASSUME NEW t \in Tasks, status'[t] \in {"SCHEDULED", "RUNNING"}
      PROVE  Covered(t)'
  <2>1. CASE status'[t] = status[t]
    BY <1>2, <1>3, <2>1 DEF CoverInv, Live
  <2>2. CASE status'[t] # status[t]
    <3>1. /\ status'[t] = "RUNNING" /\ t = job[w] /\ pc[w] = "StartCAS"
          /\ pc' = [pc EXCEPT ![w] = "StartReread"] /\ UNCHANGED worker
      BY <1>0, <1>3, <2>2, WorkStatus
    <3>2. PICK m \in MsgIds : m = held[w] /\ mtask[m] = t /\ mstate[m] \in {"queued", "inflight"}
      BY <1>1, <3>1 DEF HeldInv
    <3>3. \A v \in Workers : held[v] = m => v = w
      BY <3>2 DEF HeldInv
    <3>4. ~ Spent(w)'
      BY <1>0, <1>1, <3>1 DEF Spent, HeldInv, ServiceTypeOK, worker
    <3>5. Covers(m, t)'
      BY <1>1, <3>2, <3>3, <3>4 DEF Covers
    <3> QED BY <3>2, <3>5 DEF Covered
  <2> QED BY <2>1, <2>2
<1>4. ASSUME NEW t \in Tasks, NEW c \in Clients, status'[t] = "CREATED", pc'[c] = "MarkScheduled", job'[c] = t
      PROVE  Covered(t)'
  <2>1. status[t] = "CREATED"
    BY <1>0, <1>4, WorkStatus
  <2>2. pc[c] = "MarkScheduled" /\ job[c] = t
    BY <1>1, <1>4 DEF Actors
  <2> QED BY <1>2, <1>4, <2>1, <2>2 DEF CoverInv, Live
<1>5. ASSUME NEW p \in Procs, pc'[p] = "MarkScheduled"
      PROVE  FALSE
  <2>1. pc[p] = "MarkScheduled"
    BY <1>1, <1>5 DEF Actors
  <2> QED BY <1>1, <2>1, BootHoldsNothing
<1> QED BY <1>3, <1>4, <1>5 DEF CoverInv

\* A worker that lets its message go takes no cover: what it acknowledges was none.
LEMMA RestKeepsCover ==
    ASSUME TypeInv, HeldInv, CoverInv, NEW w \in Workers, LetsGo(w)
    PROVE  CoverInv'
<1> USE ServiceAssumption, NoMsgId
<1>0. ServiceTypeOK /\ IngestorTypeOK
  BY DEF TypeInv, ServiceInv
<1>1. \A v \in Workers \ {w} : Spent(v)' <=> Spent(v)
  BY DEF LetsGo, Spent, Actors
<1>2. ASSUME NEW t \in Tasks, Covered(t)
      PROVE  Covered(t)'
  <2>1. PICK m \in MsgIds : Covers(m, t)
    BY <1>2 DEF Covered
  <2>2. mtask'[m] = t /\ mstate'[m] \in {"queued", "inflight"}
    BY <2>1 DEF LetsGo, Covers, Spent
  <2>3. \A v \in Workers : held'[v] = m => v # w /\ held[v] = m
    BY DEF LetsGo
  <2>4. Covers(m, t)'
    BY <1>1, <2>1, <2>2, <2>3 DEF Covers
  <2> QED BY <2>4 DEF Covered
<1>3. \A a \in Clients \cup Procs : pc'[a] = pc[a] /\ job'[a] = job[a]
  BY DEF LetsGo, Actors
<1> QED BY <1>2, <1>3 DEF CoverInv, LetsGo

\* Every step keeps the runs covered.
LEMMA CoverStep ==
    ASSUME OneAtATime, TypeInv, RowInv, HeldInv, CoverInv, [Next]_vars
    PROVE  CoverInv'
<1> USE ServiceAssumption, IngestorAssumption, NoMsgId
<1>0. /\ ServiceTypeOK /\ IngestorTypeOK /\ Known /\ RowMove
      /\ \A v \in Workers : v \in Actors
      /\ \A a \in Clients \cup Procs : a \in Actors /\ a \notin Workers
  BY EveryMove DEF TypeInv, ServiceInv, Actors
<1>1. ASSUME NEW c \in Clients, Client(c)
      PROVE  CoverInv'
  BY <1>0, <1>1, RequestKeepsCover, PublishCovers DEF Client
<1>2. ASSUME NEW p \in Procs, Scheduling(p)
      PROVE  CoverInv'
  BY <1>0, <1>2, RequestKeepsCover, PublishCovers DEF Scheduling, ClientStep
<1>3. ASSUME NEW w \in Workers, Work(w)
      PROVE  CoverInv'
  BY <1>0, <1>3, WorkProceeds, WorkLetsGo, WorkCovers, RestKeepsCover
\* What is left changes no status and takes no message away.
<1>4. ASSUME UNCHANGED status,
             \A a \in Clients \cup Procs : pc'[a] = "MarkScheduled" => pc[a] = "MarkScheduled" /\ job'[a] = job[a],
             \A m \in MsgIds, t \in Tasks : Covers(m, t) => Covers(m, t)'
      PROVE  CoverInv'
  <2>1. \A t \in Tasks : Covered(t) => Covered(t)'
    BY <1>4 DEF Covered
  <2> QED BY <1>4, <2>1 DEF CoverInv
<1>5. ASSUME NEW p \in Procs, StartProc(p) \/ Boot(p) \/ StopProc(p) \/ StopDone(p)
      PROVE  CoverInv'
  <2>1. /\ \A v \in Workers : pc'[v] = pc[v] /\ job'[v] = job[v]
        /\ \A a \in Clients \cup Procs : pc'[a] = "MarkScheduled" => pc[a] = "MarkScheduled" /\ job'[a] = job[a]
    BY <1>0, <1>5 DEF StartProc, Boot, StopProc, StopDone, actor, ServiceTypeOK
  <2>2. UNCHANGED <<status, mstate, mtask, held, term>>
    BY <1>5 DEF StartProc, Boot, StopProc, StopDone, db, broker, worker
  <2> QED BY <1>4, <2>1, <2>2 DEF Covers, Spent
<1>6. ASSUME NEW p \in Procs, Crash(p)
      PROVE  CoverInv'
  <2>1. \A w \in Workers :
          IF ProcOf[w] = p THEN held'[w] = NoMsg
          ELSE pc'[w] = pc[w] /\ job'[w] = job[w] /\ held'[w] = held[w] /\ term'[w] = term[w]
    BY <1>0, <1>6 DEF Crash
  <2>2. UNCHANGED <<status, mstate, mtask>>
    BY <1>6 DEF Crash, db, broker
  <2>3. \A a \in Clients \cup Procs : pc'[a] = "MarkScheduled" => pc[a] = "MarkScheduled" /\ job'[a] = job[a]
    BY <1>0, <1>6 DEF Crash
  <2> QED BY <1>4, <2>1, <2>2, <2>3 DEF Covers, Spent
<1>7. ASSUME NEW w \in Workers, PollCancel(w)
      PROVE  CoverInv'
  <2>1. UNCHANGED <<status, mstate, mtask, pc, job, held, term>>
    BY <1>7 DEF PollCancel, actor, db, broker
  <2> QED BY <1>4, <2>1 DEF Covers, Spent
<1>8. ASSUME NEW w \in Workers, NEW m \in MsgIds, Deliver(w, m)
      PROVE  CoverInv'
  <2>1. /\ pc'[w] = "StartRunning" /\ held'[w] = m /\ ~ term'[w]
        /\ \A v \in Workers \ {w} :
             pc'[v] = pc[v] /\ job'[v] = job[v] /\ held'[v] = held[v] /\ term'[v] = term[v]
        /\ \A a \in Clients \cup Procs : pc'[a] = pc[a] /\ job'[a] = job[a]
    BY <1>0, <1>8 DEF Deliver, HeldInv, ServiceTypeOK, IngestorTypeOK
  <2>2. /\ mstate'[m] = "inflight" /\ \A k \in MsgIds \ {m} : mstate'[k] = mstate[k]
        /\ UNCHANGED <<status, mtask>>
    BY <1>0, <1>8 DEF Deliver, ServiceTypeOK, db
  <2>3. ~ Spent(w)' /\ \A v \in Workers \ {w} : Spent(v)' => Spent(v)
    BY <2>1, <2>2 DEF Spent
  <2>4. ASSUME NEW k \in MsgIds, NEW t \in Tasks, Covers(k, t) PROVE Covers(k, t)'
    <3>1. mtask'[k] = t /\ mstate'[k] \in {"queued", "inflight"}
      BY <2>2, <2>4 DEF Covers
    <3>2. \A v \in Workers : held'[v] = k => ~ Spent(v)'
      BY <2>1, <2>3, <2>4 DEF Covers
    <3> QED BY <3>1, <3>2 DEF Covers
  <2> QED BY <1>4, <2>1, <2>2, <2>4
<1>9. ASSUME NEW m \in MsgIds, Expire(m) \/ Lapse(m)
      PROVE  CoverInv'
  <2>1. /\ mstate' = [mstate EXCEPT ![m] = "queued"] /\ mstate[m] = "inflight"
        /\ UNCHANGED <<status, mtask, pc, job, held, term>>
    BY <1>9 DEF Expire, Lapse, actor, worker, db
  <2> QED BY <1>0, <1>4, <2>1 DEF Covers, Spent, ServiceTypeOK
<1>10. CASE UNCHANGED vars
  <2>1. UNCHANGED <<status, mstate, mtask, pc, job, held, term>>
    BY <1>10 DEF vars, serviceVars
  <2> QED BY <1>4, <2>1 DEF Covers, Spent
<1> QED BY <1>1, <1>2, <1>3, <1>5, <1>6, <1>7, <1>8, <1>9, <1>10 DEF Next

\* Where requests are made one at a time and one ingestor runs the tasks, with as
\* many workers as it likes as long as their heartbeats keep the ack deadline, a task
\* that waits for a worker or is being run has an unsettled message behind it:
\* through every failed publish, lost acknowledgement, crash, restart and retry a
\* redelivery picks it up.
THEOREM RunsStayBacked == OneAtATime => (Spec => []RunsAreBacked)
<1> DEFINE Inv == OneAtATime /\ HeldInv /\ CoverInv
<1>1. OneAtATime /\ Init => Inv
  BY ServiceAssumption, IngestorAssumption, NoMsgId
  DEF Init, ServiceInit, HeldInv, CoverInv, Actors
<1>2. TypeInv /\ RowInv /\ Inv /\ [Next]_vars => Inv'
  BY HeldStep, CoverStep DEF OneAtATime
<1>3. Inv => RunsAreBacked
  BY DEF CoverInv, Covered, Covers, RunsAreBacked, Backing
<1> QED BY <1>1, <1>2, <1>3, TypeInvariant, RowInvariant, PTL DEF Spec
=============================================================================
