---------------------------- MODULE SyncerProofs ----------------------------
(***************************************************************************)
(* Proofs about Syncer, for any number of knowledge bases, rows, processes *)
(* and workers, and any number of API calls and faults.                    *)
(***************************************************************************)
EXTENDS Syncer, TLAPS

Statuses == {"none", "schedule", "running", "cancel", "done", "fail", "deleted"}
Places == {"idle", "got", "refused", "claimed", "ready", "executing", "retry",
           "failed", "completed"}

\* The types the proofs rest on, and that a worker that is not idle has a row.
Typed ==
    /\ status \in [Tasks -> Statuses]
    /\ at \in [Workers -> Places]
    /\ task \in [Workers -> Tasks \cup {NoTask}]
    /\ \A w \in Workers : at[w] # "idle" => task[w] \in Tasks

\* The row t is a sync row of k that is scheduled or running.
Polls(t, k) == KbOf[t] = k /\ TypeOf[t] = "sync" /\ status[t] \in {"schedule", "running"}

Polled == \A k \in wanted : \E t \in Tasks : Polls(t, k)

\* New rows have not existed before, and there is one of each kind asked for.
LEMMA NewRowsAreNew ==
    ASSUME NEW kinds, NEW N \in NewRows(kinds)
    PROVE  /\ \A t \in N : t \in Tasks /\ status[t] = "none"
           /\ \A pair \in kinds : \E u \in N : Pair(u) = pair
<1>1. N \subseteq UNION {Fresh(pair) : pair \in kinds}
  BY DEF NewRows
<1>2. \A t \in N : t \in Tasks /\ status[t] = "none"
  BY <1>1 DEF Fresh
<1>3. \A pair \in kinds : \E u \in N : {v \in N : Pair(v) = pair} = {u}
  BY DEF NewRows
<1>4. \A pair \in kinds : \E u \in N : Pair(u) = pair
  <2> SUFFICES ASSUME NEW pair \in kinds PROVE \E u \in N : Pair(u) = pair
    OBVIOUS
  <2>1. PICK u \in N : {v \in N : Pair(v) = pair} = {u}
    BY <1>3
  <2>2. u \in {v \in N : Pair(v) = pair}
    BY <2>1
  <2> QED
    BY <2>2
<1> QED
  BY <1>2, <1>4

\* What scheduleConnectorTask does to the rows: new ones are scheduled, no other
\* changes, and every kind has a row that is scheduled or running.
LEMMA ScheduleRowsEffect ==
    ASSUME NEW kinds, ScheduleRows(kinds), status \in [Tasks -> Statuses]
    PROVE  /\ status' \in [Tasks -> Statuses]
           /\ \A t \in Tasks : \/ status'[t] = status[t]
                               \/ status[t] = "none" /\ status'[t] = "schedule"
           /\ \A pair \in kinds : \E t \in Tasks :
                 Pair(t) = pair /\ status'[t] \in {"schedule", "running"}
<1> DEFINE missing == {pair \in kinds : \A t \in Tasks :
                          Pair(t) = pair => status[t] \notin {"schedule", "running"}}
<1>1. PICK N \in NewRows(missing) :
          status' = [t \in Tasks |-> IF t \in N THEN "schedule" ELSE status[t]]
  BY DEF ScheduleRows
<1> HIDE DEF missing
<1>2. /\ \A t \in N : t \in Tasks /\ status[t] = "none"
      /\ \A pair \in missing : \E u \in N : Pair(u) = pair
  BY <1>1, NewRowsAreNew
<1>3. \A t \in Tasks : \/ status'[t] = status[t]
                       \/ status[t] = "none" /\ status'[t] = "schedule"
  BY <1>1, <1>2
<1>4. status' \in [Tasks -> Statuses]
  BY <1>1 DEF Statuses
<1>5. ASSUME NEW pair \in kinds
      PROVE  \E t \in Tasks : Pair(t) = pair /\ status'[t] \in {"schedule", "running"}
  <2>1. CASE pair \in missing
    <3>1. PICK u \in N : Pair(u) = pair
      BY <2>1, <1>2
    <3>2. u \in Tasks /\ status'[u] = "schedule"
      BY <1>1, <1>2
    <3> QED
      BY <3>1, <3>2
  <2>2. CASE pair \notin missing
    <3>1. PICK t \in Tasks : Pair(t) = pair /\ status[t] \in {"schedule", "running"}
      BY <2>2 DEF missing
    <3>2. status'[t] \in {"schedule", "running"}
      BY <3>1, <1>3
    <3> QED
      BY <3>1, <3>2
  <2> QED
    BY <2>1, <2>2
<1> QED
  BY <1>3, <1>4, <1>5

\* RebuildConnector deletes the rows of its knowledge base, changes no other and
\* schedules a new sync row.
LEMMA RebuildEffect ==
    ASSUME NEW k \in KBs, RebuildConnector(k), status \in [Tasks -> Statuses]
    PROVE  /\ status' \in [Tasks -> Statuses]
           /\ \A t \in Tasks : \/ status'[t] = status[t]
                               \/ KbOf[t] = k /\ status'[t] \in {"schedule", "deleted"}
           /\ \A t \in Tasks : status[t] = "cancel" => status'[t] \in {"cancel", "deleted"}
           /\ \E t \in Tasks : Polls(t, k)'
<1> USE SyncerAssumption
<1>1. PICK N \in NewRows(KindsFor({k})) :
          status' = [t \in Tasks |-> IF t \in N THEN "schedule"
                                     ELSE IF KbOf[t] = k /\ status[t] # "none" THEN "deleted"
                                     ELSE status[t]]
  BY DEF RebuildConnector
<1>2. /\ \A t \in N : t \in Tasks /\ status[t] = "none"
      /\ \A pair \in KindsFor({k}) : \E u \in N : Pair(u) = pair
  BY <1>1, NewRowsAreNew
<1>3. <<k, "sync">> \in KindsFor({k})
  BY DEF KindsFor
<1>4. PICK u \in N : Pair(u) = <<k, "sync">>
  BY <1>2, <1>3
<1>5. u \in Tasks /\ Polls(u, k)'
  BY <1>1, <1>2, <1>4 DEF Polls, Pair
<1>6. \A t \in N : KbOf[t] = k
  <2>1. N \subseteq UNION {Fresh(pair) : pair \in KindsFor({k})}
    BY <1>1 DEF NewRows
  <2>2. \A t \in N : \E kind \in {Fresh(pair) : pair \in KindsFor({k})} : t \in kind
    BY <2>1
  <2>3. \A kind \in {Fresh(pair) : pair \in KindsFor({k})} : \A t \in kind : KbOf[t] = k
    BY DEF KindsFor, Fresh, Pair
  <2> QED
    BY <2>2, <2>3
<1>7. status' \in [Tasks -> Statuses]
  BY <1>1 DEF Statuses
<1>8. \A t \in Tasks : \/ status'[t] = status[t]
                       \/ KbOf[t] = k /\ status'[t] \in {"schedule", "deleted"}
  BY <1>1, <1>6
<1>9. \A t \in Tasks : status[t] = "cancel" => status'[t] \in {"cancel", "deleted"}
  BY <1>1, <1>2
<1> QED
  BY <1>5, <1>7, <1>8, <1>9

\* Every step keeps the types.
LEMMA TypedStep ==
    Typed /\ [Next]_vars => Typed'
<1> SUFFICES ASSUME Typed, [Next]_vars PROVE Typed'
  OBVIOUS
<1> USE SyncerAssumption DEF Typed, Statuses, Places
<1>1. CASE UNCHANGED vars
  BY <1>1 DEF vars, rows, api, work
<1>2. ASSUME NEW w \in Workers, ClaimWins(w) PROVE Typed'
  BY <1>2 DEF ClaimWins, Become, MayClaim, api, rows, work
<1>3. ASSUME NEW w \in Workers, ClaimRefused(w) PROVE Typed'
  BY <1>3 DEF ClaimRefused, Become, api, rows, work
<1>4. ASSUME NEW w \in Workers, ClaimErrs(w) PROVE Typed'
  BY <1>4 DEF ClaimErrs, Nack, Finish, Become, api, rows, work
<1>5. ASSUME NEW w \in Workers, RetryIfScheduled(w) PROVE Typed'
  BY <1>5 DEF RetryIfScheduled, Ack, Finish, Become, api, rows, work
<1>6. ASSUME NEW w \in Workers, MarkRunning(w) PROVE Typed'
  BY <1>6 DEF MarkRunning, Become, Nack, Finish, api, rows, work
<1>7. ASSUME NEW w \in Workers, ContextErrs(w) PROVE Typed'
  BY <1>7 DEF ContextErrs, FailTask, RescheduleClaimed, Ack, Nack, Finish, Become, api, rows, work
<1>8. ASSUME NEW w \in Workers, LockTaken(w) PROVE Typed'
  BY <1>8 DEF LockTaken, Become, api, rows, work
<1>9. ASSUME NEW w \in Workers, LockRefused(w) PROVE Typed'
  BY <1>9 DEF LockRefused, RescheduleClaimed, Become, Nack, Finish, api, rows, work
<1>10. ASSUME NEW w \in Workers, Completes(w) PROVE Typed'
  BY <1>10 DEF Completes, Complete, Scheduled, Fresh, Pair, Become, api, rows, work
<1>11. ASSUME NEW w \in Workers, SeesCancel(w) PROVE Typed'
  BY <1>11 DEF SeesCancel, Ack, Finish, Become, api, rows, work
<1>12. ASSUME NEW w \in Workers, Interrupted(w) PROVE Typed'
  BY <1>12 DEF Interrupted, RescheduleClaimed, Ack, Nack, Finish, Become, api, rows, work
<1>13. ASSUME NEW w \in Workers, ScheduleRetry(w) PROVE Typed'
  BY <1>13 DEF ScheduleRetry, Ack, Finish, Become, api, rows, work
<1>14. ASSUME NEW w \in Workers, GivesUp(w) PROVE Typed'
  BY <1>14 DEF GivesUp, Ack, Finish, Become, api, rows, work
<1>15. ASSUME NEW w \in Workers, ScheduleNext(w) PROVE Typed'
  BY <1>15 DEF ScheduleNext, Finish, Become, api, rows, work
<1>16. ASSUME NEW w \in Workers, NEW c \in Classes, Fails(w, c) PROVE Typed'
  BY <1>16 DEF Fails, HandleTransientFailure, Failable, RescheduleClaimed, Nack, Finish, Become, api, rows, work
<1>17. ASSUME NEW w \in Workers, NEW t \in Tasks, Receive(w, t) PROVE Typed'
  BY <1>17 DEF Receive, Become, Idle, api, rows, work
<1>18. ASSUME NEW p \in Procs, Start(p) PROVE Typed'
  BY <1>18 DEF Start, api, rows, work
<1>19. ASSUME NEW p \in Procs, Recover(p) PROVE Typed'
  BY <1>19 DEF Recover, RecoverRunning, api, rows, work
<1>20. ASSUME NEW p \in Procs, PublishStartupTasks(p) PROVE Typed'
  BY <1>20 DEF PublishStartupTasks, api, rows, work
<1>21. ASSUME NEW p \in Procs, Stop(p) PROVE Typed'
  BY <1>21 DEF Stop, api, rows, work
<1>22. ASSUME NEW p \in Procs, Exit(p) PROVE Typed'
  BY <1>22 DEF Exit, api, rows, work
<1>23. ASSUME NEW p \in Procs, Crash(p) PROVE Typed'
  BY <1>23 DEF Crash, api, rows, work
<1>24. ASSUME NEW p \in Procs, NEW t \in Tasks, TimerFires(p, t) PROVE Typed'
  BY <1>24 DEF TimerFires, api, rows, work
<1>25. ASSUME NEW k \in KBs, LeaseExpires(k) PROVE Typed'
  BY <1>25 DEF LeaseExpires, api, rows, work
<1>26. ASSUME NEW k \in KBs, Link(k) PROVE Typed'
  BY <1>26, ScheduleRowsEffect DEF Link, api, rows, work
<1>27. ASSUME NEW k \in KBs, Unlink(k) PROVE Typed'
  BY <1>27 DEF Unlink, CancelRows, api, rows, work
<1>28. ASSUME NEW k \in KBs, RebuildConnector(k) PROVE Typed'
  BY <1>28, RebuildEffect DEF RebuildConnector, api, rows, work
<1>29. CASE CancelTasks
  BY <1>29 DEF CancelTasks, CancelRows, api, rows, work
<1>30. CASE CancelConnector
  BY <1>30 DEF CancelConnector, api, rows, work
<1>31. CASE ScheduleConnectorTasks
  BY <1>31, ScheduleRowsEffect DEF ScheduleConnectorTasks, api, rows, work
<1>32. CASE UpdateConfig
  BY <1>32 DEF UpdateConfig, api, rows, work
<1>33. ASSUME NEW t \in Tasks, ResumeFailedSync(t) PROVE Typed'
  BY <1>33 DEF ResumeFailedSync, api, rows, work
<1>34. ASSUME NEW t \in Tasks, NEW b \in BOOLEAN, ApiPublishes(t, b) PROVE Typed'
  BY <1>34 DEF ApiPublishes, api, rows, work
<1>35. ASSUME NEW t \in Tasks, NEW b \in BOOLEAN, ApiPublishFails(t, b) PROVE Typed'
  BY <1>35 DEF ApiPublishFails, api, rows, work
<1> QED
  BY <1>1, <1>2, <1>3, <1>4, <1>5, <1>6, <1>7, <1>8, <1>9, <1>10, <1>11, <1>12, <1>13, <1>14, <1>15, <1>16, <1>17, <1>18, <1>19, <1>20, <1>21, <1>22, <1>23, <1>24, <1>25, <1>26, <1>27, <1>28, <1>29, <1>30, <1>31, <1>32, <1>33, <1>34, <1>35 DEF Next, User, Environment, Work

\* Only ClaimTask makes a row RUNNING, and it looks at the other rows first.
LEMMA RunningStep ==
    Typed /\ OneRunning /\ [Next]_vars => OneRunning'
<1> SUFFICES ASSUME Typed, OneRunning, [Next]_vars PROVE OneRunning'
  OBVIOUS
<1> USE SyncerAssumption DEF Typed, Statuses, OneRunning
<1>1. CASE UNCHANGED vars
  BY <1>1 DEF vars, rows, api, work
<1>2. ASSUME NEW w \in Workers, ClaimWins(w) PROVE OneRunning'
  BY <1>2 DEF ClaimWins, Become, MayClaim, api, rows, work
<1>3. ASSUME NEW w \in Workers, ClaimRefused(w) PROVE OneRunning'
  BY <1>3 DEF ClaimRefused, Become, api, rows, work
<1>4. ASSUME NEW w \in Workers, ClaimErrs(w) PROVE OneRunning'
  BY <1>4 DEF ClaimErrs, Nack, Finish, Become, api, rows, work
<1>5. ASSUME NEW w \in Workers, RetryIfScheduled(w) PROVE OneRunning'
  BY <1>5 DEF RetryIfScheduled, Ack, Finish, Become, api, rows, work
<1>6. ASSUME NEW w \in Workers, MarkRunning(w) PROVE OneRunning'
  BY <1>6 DEF MarkRunning, Become, Nack, Finish, api, rows, work
<1>7. ASSUME NEW w \in Workers, ContextErrs(w) PROVE OneRunning'
  BY <1>7 DEF ContextErrs, FailTask, RescheduleClaimed, Ack, Nack, Finish, Become, api, rows, work
<1>8. ASSUME NEW w \in Workers, LockTaken(w) PROVE OneRunning'
  BY <1>8 DEF LockTaken, Become, api, rows, work
<1>9. ASSUME NEW w \in Workers, LockRefused(w) PROVE OneRunning'
  BY <1>9 DEF LockRefused, RescheduleClaimed, Become, Nack, Finish, api, rows, work
<1>10. ASSUME NEW w \in Workers, Completes(w) PROVE OneRunning'
  BY <1>10 DEF Completes, Complete, Scheduled, Fresh, Pair, Become, api, rows, work
<1>11. ASSUME NEW w \in Workers, SeesCancel(w) PROVE OneRunning'
  BY <1>11 DEF SeesCancel, Ack, Finish, Become, api, rows, work
<1>12. ASSUME NEW w \in Workers, Interrupted(w) PROVE OneRunning'
  BY <1>12 DEF Interrupted, RescheduleClaimed, Ack, Nack, Finish, Become, api, rows, work
<1>13. ASSUME NEW w \in Workers, ScheduleRetry(w) PROVE OneRunning'
  BY <1>13 DEF ScheduleRetry, Ack, Finish, Become, api, rows, work
<1>14. ASSUME NEW w \in Workers, GivesUp(w) PROVE OneRunning'
  BY <1>14 DEF GivesUp, Ack, Finish, Become, api, rows, work
<1>15. ASSUME NEW w \in Workers, ScheduleNext(w) PROVE OneRunning'
  BY <1>15 DEF ScheduleNext, Finish, Become, api, rows, work
<1>16. ASSUME NEW w \in Workers, NEW c \in Classes, Fails(w, c) PROVE OneRunning'
  BY <1>16 DEF Fails, HandleTransientFailure, Failable, RescheduleClaimed, Nack, Finish, Become, api, rows, work
<1>17. ASSUME NEW w \in Workers, NEW t \in Tasks, Receive(w, t) PROVE OneRunning'
  BY <1>17 DEF Receive, Become, Idle, api, rows, work
<1>18. ASSUME NEW p \in Procs, Start(p) PROVE OneRunning'
  BY <1>18 DEF Start, api, rows, work
<1>19. ASSUME NEW p \in Procs, Recover(p) PROVE OneRunning'
  BY <1>19 DEF Recover, RecoverRunning, api, rows, work
<1>20. ASSUME NEW p \in Procs, PublishStartupTasks(p) PROVE OneRunning'
  BY <1>20 DEF PublishStartupTasks, api, rows, work
<1>21. ASSUME NEW p \in Procs, Stop(p) PROVE OneRunning'
  BY <1>21 DEF Stop, api, rows, work
<1>22. ASSUME NEW p \in Procs, Exit(p) PROVE OneRunning'
  BY <1>22 DEF Exit, api, rows, work
<1>23. ASSUME NEW p \in Procs, Crash(p) PROVE OneRunning'
  BY <1>23 DEF Crash, api, rows, work
<1>24. ASSUME NEW p \in Procs, NEW t \in Tasks, TimerFires(p, t) PROVE OneRunning'
  BY <1>24 DEF TimerFires, api, rows, work
<1>25. ASSUME NEW k \in KBs, LeaseExpires(k) PROVE OneRunning'
  BY <1>25 DEF LeaseExpires, api, rows, work
<1>26. ASSUME NEW k \in KBs, Link(k) PROVE OneRunning'
  BY <1>26, ScheduleRowsEffect DEF Link, api, rows, work
<1>27. ASSUME NEW k \in KBs, Unlink(k) PROVE OneRunning'
  BY <1>27 DEF Unlink, CancelRows, api, rows, work
<1>28. ASSUME NEW k \in KBs, RebuildConnector(k) PROVE OneRunning'
  BY <1>28, RebuildEffect DEF RebuildConnector, api, rows, work
<1>29. CASE CancelTasks
  BY <1>29 DEF CancelTasks, CancelRows, api, rows, work
<1>30. CASE CancelConnector
  BY <1>30 DEF CancelConnector, api, rows, work
<1>31. CASE ScheduleConnectorTasks
  BY <1>31, ScheduleRowsEffect DEF ScheduleConnectorTasks, api, rows, work
<1>32. CASE UpdateConfig
  BY <1>32 DEF UpdateConfig, api, rows, work
<1>33. ASSUME NEW t \in Tasks, ResumeFailedSync(t) PROVE OneRunning'
  BY <1>33 DEF ResumeFailedSync, api, rows, work
<1>34. ASSUME NEW t \in Tasks, NEW b \in BOOLEAN, ApiPublishes(t, b) PROVE OneRunning'
  BY <1>34 DEF ApiPublishes, api, rows, work
<1>35. ASSUME NEW t \in Tasks, NEW b \in BOOLEAN, ApiPublishFails(t, b) PROVE OneRunning'
  BY <1>35 DEF ApiPublishFails, api, rows, work
<1> QED
  BY <1>1, <1>2, <1>3, <1>4, <1>5, <1>6, <1>7, <1>8, <1>9, <1>10, <1>11, <1>12, <1>13, <1>14, <1>15, <1>16, <1>17, <1>18, <1>19, <1>20, <1>21, <1>22, <1>23, <1>24, <1>25, <1>26, <1>27, <1>28, <1>29, <1>30, <1>31, <1>32, <1>33, <1>34, <1>35 DEF Next, User, Environment, Work

\* No step takes a canceled row up again.
LEMMA CancelStep ==
    Typed /\ [Next]_vars =>
    \A x \in Tasks : status[x] = "cancel" => status'[x] \in {"cancel", "deleted"}
<1> SUFFICES ASSUME Typed, [Next]_vars PROVE \A x \in Tasks : status[x] = "cancel" => status'[x] \in {"cancel", "deleted"}
  OBVIOUS
<1> USE SyncerAssumption DEF Typed, Statuses
<1>1. CASE UNCHANGED vars
  BY <1>1 DEF vars, rows, api, work
<1>2. ASSUME NEW w \in Workers, ClaimWins(w) PROVE \A x \in Tasks : status[x] = "cancel" => status'[x] \in {"cancel", "deleted"}
  BY <1>2 DEF ClaimWins, Become, MayClaim, api, rows, work
<1>3. ASSUME NEW w \in Workers, ClaimRefused(w) PROVE \A x \in Tasks : status[x] = "cancel" => status'[x] \in {"cancel", "deleted"}
  BY <1>3 DEF ClaimRefused, Become, api, rows, work
<1>4. ASSUME NEW w \in Workers, ClaimErrs(w) PROVE \A x \in Tasks : status[x] = "cancel" => status'[x] \in {"cancel", "deleted"}
  BY <1>4 DEF ClaimErrs, Nack, Finish, Become, api, rows, work
<1>5. ASSUME NEW w \in Workers, RetryIfScheduled(w) PROVE \A x \in Tasks : status[x] = "cancel" => status'[x] \in {"cancel", "deleted"}
  BY <1>5 DEF RetryIfScheduled, Ack, Finish, Become, api, rows, work
<1>6. ASSUME NEW w \in Workers, MarkRunning(w) PROVE \A x \in Tasks : status[x] = "cancel" => status'[x] \in {"cancel", "deleted"}
  BY <1>6 DEF MarkRunning, Become, Nack, Finish, api, rows, work
<1>7. ASSUME NEW w \in Workers, ContextErrs(w) PROVE \A x \in Tasks : status[x] = "cancel" => status'[x] \in {"cancel", "deleted"}
  BY <1>7 DEF ContextErrs, FailTask, RescheduleClaimed, Ack, Nack, Finish, Become, api, rows, work
<1>8. ASSUME NEW w \in Workers, LockTaken(w) PROVE \A x \in Tasks : status[x] = "cancel" => status'[x] \in {"cancel", "deleted"}
  BY <1>8 DEF LockTaken, Become, api, rows, work
<1>9. ASSUME NEW w \in Workers, LockRefused(w) PROVE \A x \in Tasks : status[x] = "cancel" => status'[x] \in {"cancel", "deleted"}
  BY <1>9 DEF LockRefused, RescheduleClaimed, Become, Nack, Finish, api, rows, work
<1>10. ASSUME NEW w \in Workers, Completes(w) PROVE \A x \in Tasks : status[x] = "cancel" => status'[x] \in {"cancel", "deleted"}
  BY <1>10 DEF Completes, Complete, Scheduled, Fresh, Pair, Become, api, rows, work
<1>11. ASSUME NEW w \in Workers, SeesCancel(w) PROVE \A x \in Tasks : status[x] = "cancel" => status'[x] \in {"cancel", "deleted"}
  BY <1>11 DEF SeesCancel, Ack, Finish, Become, api, rows, work
<1>12. ASSUME NEW w \in Workers, Interrupted(w) PROVE \A x \in Tasks : status[x] = "cancel" => status'[x] \in {"cancel", "deleted"}
  BY <1>12 DEF Interrupted, RescheduleClaimed, Ack, Nack, Finish, Become, api, rows, work
<1>13. ASSUME NEW w \in Workers, ScheduleRetry(w) PROVE \A x \in Tasks : status[x] = "cancel" => status'[x] \in {"cancel", "deleted"}
  BY <1>13 DEF ScheduleRetry, Ack, Finish, Become, api, rows, work
<1>14. ASSUME NEW w \in Workers, GivesUp(w) PROVE \A x \in Tasks : status[x] = "cancel" => status'[x] \in {"cancel", "deleted"}
  BY <1>14 DEF GivesUp, Ack, Finish, Become, api, rows, work
<1>15. ASSUME NEW w \in Workers, ScheduleNext(w) PROVE \A x \in Tasks : status[x] = "cancel" => status'[x] \in {"cancel", "deleted"}
  BY <1>15 DEF ScheduleNext, Finish, Become, api, rows, work
<1>16. ASSUME NEW w \in Workers, NEW c \in Classes, Fails(w, c) PROVE \A x \in Tasks : status[x] = "cancel" => status'[x] \in {"cancel", "deleted"}
  BY <1>16 DEF Fails, HandleTransientFailure, Failable, RescheduleClaimed, Nack, Finish, Become, api, rows, work
<1>17. ASSUME NEW w \in Workers, NEW t \in Tasks, Receive(w, t) PROVE \A x \in Tasks : status[x] = "cancel" => status'[x] \in {"cancel", "deleted"}
  BY <1>17 DEF Receive, Become, Idle, api, rows, work
<1>18. ASSUME NEW p \in Procs, Start(p) PROVE \A x \in Tasks : status[x] = "cancel" => status'[x] \in {"cancel", "deleted"}
  BY <1>18 DEF Start, api, rows, work
<1>19. ASSUME NEW p \in Procs, Recover(p) PROVE \A x \in Tasks : status[x] = "cancel" => status'[x] \in {"cancel", "deleted"}
  BY <1>19 DEF Recover, RecoverRunning, api, rows, work
<1>20. ASSUME NEW p \in Procs, PublishStartupTasks(p) PROVE \A x \in Tasks : status[x] = "cancel" => status'[x] \in {"cancel", "deleted"}
  BY <1>20 DEF PublishStartupTasks, api, rows, work
<1>21. ASSUME NEW p \in Procs, Stop(p) PROVE \A x \in Tasks : status[x] = "cancel" => status'[x] \in {"cancel", "deleted"}
  BY <1>21 DEF Stop, api, rows, work
<1>22. ASSUME NEW p \in Procs, Exit(p) PROVE \A x \in Tasks : status[x] = "cancel" => status'[x] \in {"cancel", "deleted"}
  BY <1>22 DEF Exit, api, rows, work
<1>23. ASSUME NEW p \in Procs, Crash(p) PROVE \A x \in Tasks : status[x] = "cancel" => status'[x] \in {"cancel", "deleted"}
  BY <1>23 DEF Crash, api, rows, work
<1>24. ASSUME NEW p \in Procs, NEW t \in Tasks, TimerFires(p, t) PROVE \A x \in Tasks : status[x] = "cancel" => status'[x] \in {"cancel", "deleted"}
  BY <1>24 DEF TimerFires, api, rows, work
<1>25. ASSUME NEW k \in KBs, LeaseExpires(k) PROVE \A x \in Tasks : status[x] = "cancel" => status'[x] \in {"cancel", "deleted"}
  BY <1>25 DEF LeaseExpires, api, rows, work
<1>26. ASSUME NEW k \in KBs, Link(k) PROVE \A x \in Tasks : status[x] = "cancel" => status'[x] \in {"cancel", "deleted"}
  BY <1>26, ScheduleRowsEffect DEF Link, api, rows, work
<1>27. ASSUME NEW k \in KBs, Unlink(k) PROVE \A x \in Tasks : status[x] = "cancel" => status'[x] \in {"cancel", "deleted"}
  BY <1>27 DEF Unlink, CancelRows, api, rows, work
<1>28. ASSUME NEW k \in KBs, RebuildConnector(k) PROVE \A x \in Tasks : status[x] = "cancel" => status'[x] \in {"cancel", "deleted"}
  BY <1>28, RebuildEffect DEF RebuildConnector, api, rows, work
<1>29. CASE CancelTasks
  BY <1>29 DEF CancelTasks, CancelRows, api, rows, work
<1>30. CASE CancelConnector
  BY <1>30 DEF CancelConnector, api, rows, work
<1>31. CASE ScheduleConnectorTasks
  BY <1>31, ScheduleRowsEffect DEF ScheduleConnectorTasks, api, rows, work
<1>32. CASE UpdateConfig
  BY <1>32 DEF UpdateConfig, api, rows, work
<1>33. ASSUME NEW t \in Tasks, ResumeFailedSync(t) PROVE \A x \in Tasks : status[x] = "cancel" => status'[x] \in {"cancel", "deleted"}
  BY <1>33 DEF ResumeFailedSync, api, rows, work
<1>34. ASSUME NEW t \in Tasks, NEW b \in BOOLEAN, ApiPublishes(t, b) PROVE \A x \in Tasks : status[x] = "cancel" => status'[x] \in {"cancel", "deleted"}
  BY <1>34 DEF ApiPublishes, api, rows, work
<1>35. ASSUME NEW t \in Tasks, NEW b \in BOOLEAN, ApiPublishFails(t, b) PROVE \A x \in Tasks : status[x] = "cancel" => status'[x] \in {"cancel", "deleted"}
  BY <1>35 DEF ApiPublishFails, api, rows, work
<1> QED
  BY <1>1, <1>2, <1>3, <1>4, <1>5, <1>6, <1>7, <1>8, <1>9, <1>10, <1>11, <1>12, <1>13, <1>14, <1>15, <1>16, <1>17, <1>18, <1>19, <1>20, <1>21, <1>22, <1>23, <1>24, <1>25, <1>26, <1>27, <1>28, <1>29, <1>30, <1>31, <1>32, <1>33, <1>34, <1>35 DEF Next, User, Environment, Work

\* A knowledge base loses its sync row only to its successor, to a failure or to the
\* user.
LEMMA PollingStep ==
    Typed /\ Polled /\ [Next]_vars => Polled'
<1> SUFFICES ASSUME Typed, Polled, [Next]_vars PROVE Polled'
  OBVIOUS
<1> USE SyncerAssumption DEF Typed, Statuses, Polled
<1>1. CASE UNCHANGED vars
  BY <1>1 DEF vars, rows, api, work, Polls
<1>2. ASSUME NEW w \in Workers, ClaimWins(w) PROVE Polled'
  <2>1. wanted' \subseteq wanted /\ \A x \in Tasks, j \in wanted' : Polls(x, j) => Polls(x, j)'
    BY <1>2 DEF ClaimWins, Become, MayClaim, api, rows, work, Polls
  <2> QED
    BY <2>1 DEF Polls
<1>3. ASSUME NEW w \in Workers, ClaimRefused(w) PROVE Polled'
  BY <1>3 DEF ClaimRefused, Become, api, rows, work, Polls
<1>4. ASSUME NEW w \in Workers, ClaimErrs(w) PROVE Polled'
  BY <1>4 DEF ClaimErrs, Nack, Finish, Become, api, rows, work, Polls
<1>5. ASSUME NEW w \in Workers, RetryIfScheduled(w) PROVE Polled'
  BY <1>5 DEF RetryIfScheduled, Ack, Finish, Become, api, rows, work, Polls
<1>6. ASSUME NEW w \in Workers, MarkRunning(w) PROVE Polled'
  <2>1. wanted' \subseteq wanted /\ \A x \in Tasks, j \in wanted' : Polls(x, j) => Polls(x, j)'
    BY <1>6 DEF MarkRunning, Become, Nack, Finish, api, rows, work, Polls
  <2> QED
    BY <2>1 DEF Polls
<1>7. ASSUME NEW w \in Workers, ContextErrs(w) PROVE Polled'
  <2>1. wanted' \subseteq wanted /\ \A x \in Tasks, j \in wanted' : Polls(x, j) => Polls(x, j)'
    BY <1>7 DEF ContextErrs, FailTask, RescheduleClaimed, Ack, Nack, Finish, Become, api, rows, work, Polls
  <2> QED
    BY <2>1 DEF Polls
<1>8. ASSUME NEW w \in Workers, LockTaken(w) PROVE Polled'
  BY <1>8 DEF LockTaken, Become, api, rows, work, Polls
<1>9. ASSUME NEW w \in Workers, LockRefused(w) PROVE Polled'
  <2>1. wanted' \subseteq wanted /\ \A x \in Tasks, j \in wanted' : Polls(x, j) => Polls(x, j)'
    BY <1>9 DEF LockRefused, RescheduleClaimed, Become, Nack, Finish, api, rows, work, Polls
  <2> QED
    BY <2>1 DEF Polls
<1>10. ASSUME NEW w \in Workers, Completes(w) PROVE Polled'
  <2>1. PICK u \in Tasks \cup {NoTask} : Complete(task[w], u)
    BY <1>10 DEF Completes
  <2>2. task[w] \in Tasks /\ wanted' = wanted
    BY <1>10 DEF Completes, api
  <2> SUFFICES ASSUME NEW k \in wanted PROVE \E t \in Tasks : Polls(t, k)'
    BY <2>2
  <2>3. PICK t \in Tasks : Polls(t, k)
    OBVIOUS
  <2>4. CASE t = task[w] /\ status[t] = "running"
    <3>1. HasNext(t) /\ TypeOf[t] = "sync" /\ KbOf[t] = k
      BY <2>3, <2>4 DEF HasNext, Polls
    <3>2. u \in Tasks /\ Pair(u) = Pair(t) /\ status'[u] = "schedule"
      BY <2>1, <2>4, <3>1 DEF Complete, Scheduled, Fresh
    <3> QED
      BY <3>1, <3>2 DEF Polls, Pair
  <2>5. CASE ~(t = task[w] /\ status[t] = "running")
    <3>1. status'[t] \in {"schedule", "running"}
      BY <2>1, <2>2, <2>3, <2>5 DEF Complete, Scheduled, Fresh, Polls
    <3> QED
      BY <2>3, <3>1 DEF Polls
  <2> QED
    BY <2>4, <2>5
<1>11. ASSUME NEW w \in Workers, SeesCancel(w) PROVE Polled'
  BY <1>11 DEF SeesCancel, Ack, Finish, Become, api, rows, work, Polls
<1>12. ASSUME NEW w \in Workers, Interrupted(w) PROVE Polled'
  <2>1. wanted' \subseteq wanted /\ \A x \in Tasks, j \in wanted' : Polls(x, j) => Polls(x, j)'
    BY <1>12 DEF Interrupted, RescheduleClaimed, Ack, Nack, Finish, Become, api, rows, work, Polls
  <2> QED
    BY <2>1 DEF Polls
<1>13. ASSUME NEW w \in Workers, ScheduleRetry(w) PROVE Polled'
  BY <1>13 DEF ScheduleRetry, Ack, Finish, Become, api, rows, work, Polls
<1>14. ASSUME NEW w \in Workers, GivesUp(w) PROVE Polled'
  BY <1>14 DEF GivesUp, Ack, Finish, Become, api, rows, work, Polls
<1>15. ASSUME NEW w \in Workers, ScheduleNext(w) PROVE Polled'
  BY <1>15 DEF ScheduleNext, Finish, Become, api, rows, work, Polls
<1>16. ASSUME NEW w \in Workers, NEW c \in Classes, Fails(w, c) PROVE Polled'
  <2>1. wanted' \subseteq wanted /\ \A x \in Tasks, j \in wanted' : Polls(x, j) => Polls(x, j)'
    BY <1>16 DEF Fails, HandleTransientFailure, Failable, RescheduleClaimed, Nack, Finish, Become, api, rows, work, Polls
  <2> QED
    BY <2>1 DEF Polls
<1>17. ASSUME NEW w \in Workers, NEW t \in Tasks, Receive(w, t) PROVE Polled'
  BY <1>17 DEF Receive, Become, Idle, api, rows, work, Polls
<1>18. ASSUME NEW p \in Procs, Start(p) PROVE Polled'
  BY <1>18 DEF Start, api, rows, work, Polls
<1>19. ASSUME NEW p \in Procs, Recover(p) PROVE Polled'
  <2>1. wanted' \subseteq wanted /\ \A x \in Tasks, j \in wanted' : Polls(x, j) => Polls(x, j)'
    BY <1>19 DEF Recover, RecoverRunning, api, rows, work, Polls
  <2> QED
    BY <2>1 DEF Polls
<1>20. ASSUME NEW p \in Procs, PublishStartupTasks(p) PROVE Polled'
  BY <1>20 DEF PublishStartupTasks, api, rows, work, Polls
<1>21. ASSUME NEW p \in Procs, Stop(p) PROVE Polled'
  BY <1>21 DEF Stop, api, rows, work, Polls
<1>22. ASSUME NEW p \in Procs, Exit(p) PROVE Polled'
  BY <1>22 DEF Exit, api, rows, work, Polls
<1>23. ASSUME NEW p \in Procs, Crash(p) PROVE Polled'
  BY <1>23 DEF Crash, api, rows, work, Polls
<1>24. ASSUME NEW p \in Procs, NEW t \in Tasks, TimerFires(p, t) PROVE Polled'
  BY <1>24 DEF TimerFires, api, rows, work, Polls
<1>25. ASSUME NEW k \in KBs, LeaseExpires(k) PROVE Polled'
  BY <1>25 DEF LeaseExpires, api, rows, work, Polls
<1>26. ASSUME NEW k \in KBs, Link(k) PROVE Polled'
  <2>1. ScheduleRows(KindsFor({k})) /\ wanted' = wanted \cup {k}
    BY <1>26 DEF Link
  <2>2. <<k, "sync">> \in KindsFor({k})
    BY DEF KindsFor
  <2>3. \E t \in Tasks : Polls(t, k)'
    BY <2>1, <2>2, ScheduleRowsEffect DEF Polls, Pair
  <2>4. \A t \in Tasks, j \in wanted : Polls(t, j) => Polls(t, j)'
    BY <2>1, ScheduleRowsEffect DEF Polls
  <2> QED
    BY <2>1, <2>3, <2>4
<1>27. ASSUME NEW k \in KBs, Unlink(k) PROVE Polled'
  <2>1. wanted' \subseteq wanted /\ \A x \in Tasks, j \in wanted' : Polls(x, j) => Polls(x, j)'
    BY <1>27 DEF Unlink, CancelRows, api, rows, work, Polls
  <2> QED
    BY <2>1 DEF Polls
<1>28. ASSUME NEW k \in KBs, RebuildConnector(k) PROVE Polled'
  <2>1. wanted' = wanted \cup {k}
    BY <1>28 DEF RebuildConnector
  <2>2. \E t \in Tasks : Polls(t, k)'
    BY <1>28, RebuildEffect
  <2>3. \A t \in Tasks, j \in wanted : Polls(t, j) /\ j # k => Polls(t, j)'
    BY <1>28, RebuildEffect DEF Polls
  <2> QED
    BY <2>1, <2>2, <2>3
<1>29. CASE CancelTasks
  <2>1. wanted' \subseteq wanted /\ \A x \in Tasks, j \in wanted' : Polls(x, j) => Polls(x, j)'
    BY <1>29 DEF CancelTasks, CancelRows, api, rows, work, Polls
  <2> QED
    BY <2>1 DEF Polls
<1>30. CASE CancelConnector
  BY <1>30 DEF CancelConnector, api, rows, work, Polls
<1>31. CASE ScheduleConnectorTasks
  <2>1. ScheduleRows(KindsFor(linked)) /\ wanted' = wanted \cup linked
    BY <1>31 DEF ScheduleConnectorTasks
  <2>2. \A k \in linked : <<k, "sync">> \in KindsFor(linked)
    BY DEF KindsFor
  <2>3. ASSUME NEW k \in linked PROVE \E t \in Tasks : Polls(t, k)'
    <3> DEFINE kinds == KindsFor(linked)
    <3>1. <<k, "sync">> \in kinds
      BY <2>2
    <3> HIDE DEF kinds
    <3>2. ScheduleRows(kinds)
      BY <2>1 DEF kinds
    <3>3. \A pair \in kinds : \E t \in Tasks :
             Pair(t) = pair /\ status'[t] \in {"schedule", "running"}
      BY <3>2, ScheduleRowsEffect
    <3>4. PICK t \in Tasks : Pair(t) = <<k, "sync">> /\ status'[t] \in {"schedule", "running"}
      BY <3>1, <3>3
    <3> QED
      BY <3>4 DEF Polls, Pair
  <2>4. \A t \in Tasks, j \in wanted : Polls(t, j) => Polls(t, j)'
    BY <2>1, ScheduleRowsEffect DEF Polls
  <2> QED
    BY <2>1, <2>3, <2>4
<1>32. CASE UpdateConfig
  BY <1>32 DEF UpdateConfig, api, rows, work, Polls
<1>33. ASSUME NEW t \in Tasks, ResumeFailedSync(t) PROVE Polled'
  <2>1. Polls(t, KbOf[t])'
    BY <1>33 DEF ResumeFailedSync, Polls
  <2>2. \A u \in Tasks, j \in wanted : Polls(u, j) => Polls(u, j)'
    BY <1>33 DEF ResumeFailedSync, Polls
  <2> QED
    BY <1>33, <2>1, <2>2 DEF ResumeFailedSync
<1>34. ASSUME NEW t \in Tasks, NEW b \in BOOLEAN, ApiPublishes(t, b) PROVE Polled'
  BY <1>34 DEF ApiPublishes, api, rows, work, Polls
<1>35. ASSUME NEW t \in Tasks, NEW b \in BOOLEAN, ApiPublishFails(t, b) PROVE Polled'
  BY <1>35 DEF ApiPublishFails, api, rows, work, Polls
<1> QED
  BY <1>1, <1>2, <1>3, <1>4, <1>5, <1>6, <1>7, <1>8, <1>9, <1>10, <1>11, <1>12, <1>13, <1>14, <1>15, <1>16, <1>17, <1>18, <1>19, <1>20, <1>21, <1>22, <1>23, <1>24, <1>25, <1>26, <1>27, <1>28, <1>29, <1>30, <1>31, <1>32, <1>33, <1>34, <1>35 DEF Next, User, Environment, Work

-----------------------------------------------------------------------------
\* The types hold of every reachable state.
LEMMA TypedAlways == Spec => []Typed
<1>1. Init => Typed
  <2> SUFFICES ASSUME Init PROVE Typed
    OBVIOUS
  <2>1. status \in [Tasks -> Statuses]
    BY DEF Init, Statuses
  <2>2. at \in [Workers -> Places] /\ task \in [Workers -> Tasks \cup {NoTask}]
    BY DEF Init, Places
  <2>3. \A w \in Workers : at[w] = "idle"
    BY DEF Init
  <2> QED
    BY <2>1, <2>2, <2>3 DEF Typed
<1> QED
  BY <1>1, TypedStep, PTL DEF Spec

\* Two rows of a knowledge base are never RUNNING together, whatever processes crash,
\* stop, start and recover.
THEOREM RowsAreSafe == Spec => []OneRunning
<1>1. Init => OneRunning
  BY DEF Init, OneRunning
<1> QED
  BY <1>1, TypedAlways, RunningStep, PTL DEF Spec

\* A knowledge base the user wants synced keeps a sync row that is scheduled or running
\* until the sync fails or the user stops it, whatever processes crash, stop, start and
\* recover.
THEOREM PollingIsKept == Spec => []PollingGoesOn
<1>1. Init => Polled
  BY DEF Init, Polled
<1>2. Polled => PollingGoesOn
  BY DEF Polled, Polls, PollingGoesOn
<1> QED
  BY <1>1, <1>2, TypedAlways, PollingStep, PTL DEF Spec

\* No worker, recovery or other API call takes a row up again that the user has
\* canceled.
THEOREM CanceledStays == Spec => CancelIsFinal
<1>1. Typed /\ [Next]_vars =>
        [\A t \in Tasks : status[t] = "cancel" => status'[t] \in {"cancel", "deleted"}]_vars
  BY CancelStep
<1> QED
  BY <1>1, TypedAlways, PTL DEF Spec, CancelIsFinal
=============================================================================
