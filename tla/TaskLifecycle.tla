---------------------------- MODULE TaskLifecycle ----------------------------
(***************************************************************************)
(* What the ingestion task row of a document promises, whoever writes it:  *)
(* at most one row at a time, statuses that move only along the state      *)
(* machine, a terminal status left only by running the task again or by    *)
(* deleting it, and a row that is never deleted while a worker may be      *)
(* executing it (unless Unguarded deletes are made).                       *)
(***************************************************************************)
CONSTANTS
    Ids,         \* task ids the document's rows may get
    Unguarded    \* TRUE if rows may be deleted whatever their status

VARIABLE row     \* the status of each id's row

Row(i) == row[i] \notin {"UNUSED", "REMOVED"}

Init == row = [i \in Ids |-> "UNUSED"]

Move(i, from, to) == row[i] \in from /\ row' = [row EXCEPT ![i] = to]

\* A request is accepted: the document's only row appears.
Accept(i) == (\A j \in Ids : ~ Row(j)) /\ Move(i, {"UNUSED"}, "CREATED")

\* The request reached the work queue.
Schedule(i) == Move(i, {"CREATED"}, "SCHEDULED")

\* A worker starts it; the publisher's own write may come later or never.
Begin(i) == Move(i, {"CREATED", "SCHEDULED"}, "RUNNING")

\* A worker ends it.
End(i) == Move(i, {"RUNNING"}, "COMPLETED") \/ Move(i, {"RUNNING"}, "FAILED")

\* A stop takes effect at once before a worker started, in two steps afterwards.
Stop(i) == \/ Move(i, {"CREATED", "SCHEDULED", "STOPPING"}, "STOPPED")
           \/ Move(i, {"RUNNING"}, "STOPPING")

\* A failed or stopped task is run again, or that attempt is rolled back.
Again(i) == \/ Move(i, {"FAILED", "STOPPED"}, "CREATED")
            \/ Move(i, {"CREATED"}, "FAILED")

\* The row is deleted.
Drop(i) == /\ Row(i)
           /\ Unguarded \/ row[i] \notin {"RUNNING", "STOPPING"}
           /\ row' = [row EXCEPT ![i] = "REMOVED"]

Next == \E i \in Ids : Accept(i) \/ Schedule(i) \/ Begin(i) \/ End(i) \/ Stop(i) \/ Again(i) \/ Drop(i)

Spec == Init /\ [][Next]_row

=============================================================================
