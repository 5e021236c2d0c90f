----------------------------- MODULE PipelineLog -----------------------------
(***************************************************************************)
(* The pipeline_operation_log rows of ONE document, as the DAO of          *)
(* internal/dao/pipeline_operation_log.go reads and writes them.  A table  *)
(* is a function from row ids to row states; the operators are the DAO's   *)
(* statements, each one SQL statement, hence atomic.  Row ids grow with    *)
(* create_time, so "newest" is "largest id".  Only operation_status is     *)
(* kept of a row: titles, avatars, DSL and progress snapshots are data no  *)
(* property looks at.                                                      *)
(***************************************************************************)
EXTENDS Integers

CONSTANT LogIds

ASSUME LogIdsAssumption == LogIds \subseteq Nat \ {0}

\* pipeline_log_id IS NULL
NoLog == 0

\* operation_status "unstart", "schedule", "running": a run still moves the row.
OpenPipelineOperationStatuses == {"unstart", "schedule", "running"}

\* operation_status DONE, FAIL, CANCEL: the row is history.
ClosedStatuses == {"done", "fail", "cancel"}

\* "free" is a row that was never inserted, "deleted" one that was dropped.
LogStates == OpenPipelineOperationStatuses \cup ClosedStatuses \cup {"free", "deleted"}

OpenLogs(table) == {l \in LogIds : table[l] \in OpenPipelineOperationStatuses}

\* The newest open row of the document, as a set with at most one element.
GetOpenLogByDocumentID(table) ==
    {l \in OpenLogs(table) : \A k \in OpenLogs(table) : k <= l}

\* The id the next INSERT gets.
NextLogId(table) ==
    {l \in LogIds : /\ table[l] = "free"
                    /\ \A k \in LogIds : table[k] = "free" => l <= k}

\* Mutant of AdvanceOpenLog: the WHERE clause has lost its status condition.
AdvanceAnyLog(table, l, from, to) ==
    IF l \in LogIds THEN [table EXCEPT ![l] = to] ELSE table

\* UPDATE ... SET operation_status = to WHERE id = l AND operation_status IN from
AdvanceOpenLog(table, l, from, to) ==
    IF l \in LogIds /\ table[l] \in from THEN [table EXCEPT ![l] = to] ELSE table

\* DELETE ... WHERE id = l AND operation_status IN (open statuses)
DeleteOpenLogByID(table, l) ==
    AdvanceOpenLog(table, l, OpenPipelineOperationStatuses, "deleted")

=============================================================================
