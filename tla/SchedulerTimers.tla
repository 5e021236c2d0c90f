--------------------------- MODULE SchedulerTimers ---------------------------
(***************************************************************************)
(* The wake-up timers of the sync scheduler of one process                 *)
(* (internal/syncer/scheduler.go).                                         *)
(*                                                                         *)
(* ScheduleTaskAfter keeps a timer per task in a map under a mutex.  A     *)
(* timer that fires runs a closure in a goroutine of its own: it publishes *)
(* the wake-up, and then either removes the task's entry of the map or, if *)
(* the publish failed, schedules the task again.  Between the steps of a   *)
(* closure the task workers call ScheduleTaskAfter for the same task: the  *)
(* wake-up is delivered to a worker at once, which may fail to claim the   *)
(* task and ask for another one.                                           *)
(***************************************************************************)
EXTENDS Naturals, FiniteSets

CONSTANTS
    Tasks,
    Timers,     \* bound: the timers and closures of a task at a time
    MaxCalls,   \* bound: the calls of ScheduleTaskAfter by workers and startup
    NoTimer     \* the map has no entry

ASSUME TimersAssumption == NoTimer \notin Timers /\ MaxCalls \in Nat

VARIABLES
    timer,   \* the state of each timer of each task
    entry,   \* the map: the timer of each task
    owed,    \* the tasks scheduled since their last wake-up
    calls,   \* calls of ScheduleTaskAfter so far
    ended    \* the scheduler's context has ended

timerVars == <<timer, entry, owed, calls, ended>>

\* A timer is free (stopped, or its closure has returned) or armed; its closure is
\* publishing, removing the entry, or scheduling the task again.
TimerStates == {"free", "armed", "publish", "remove", "again"}

\* Mutant of Arm: a task that has an entry keeps it.
ArmIfAbsent(t, i) ==
    IF entry[t] = NoTimer
    THEN /\ timer' = [timer EXCEPT ![t][i] = "armed"]
         /\ entry' = [entry EXCEPT ![t] = i]
    ELSE UNCHANGED <<timer, entry>>

\* ScheduleTaskAfter under the mutex: the timer of the map is stopped, if it is not
\* too late for that, and timer i takes its place.
Arm(t, i) ==
    /\ timer' = [timer EXCEPT ![t] =
                    [j \in Timers |-> IF j = i THEN "armed"
                                      ELSE IF j = entry[t] /\ timer[t][j] = "armed" THEN "free"
                                      ELSE timer[t][j]]]
    /\ entry' = [entry EXCEPT ![t] = i]

\* A worker or the startup scan schedules a task with a delay.
ScheduleTaskAfter(t) ==
    /\ calls < MaxCalls /\ calls' = calls + 1
    /\ \E i \in Timers : timer[t][i] = "free" /\ Arm(t, i)
    /\ owed' = owed \cup {t}
    /\ UNCHANGED ended

\* The delay has passed: the closure begins.
Fire(t, i) ==
    /\ timer[t][i] = "armed"
    /\ timer' = [timer EXCEPT ![t][i] = "publish"]
    /\ UNCHANGED <<entry, owed, calls, ended>>

\* The wake-up is published.
Publish(t, i) ==
    /\ timer[t][i] = "publish" /\ ~ended
    /\ timer' = [timer EXCEPT ![t][i] = "remove"]
    /\ owed' = owed \ {t}
    /\ UNCHANGED <<entry, calls, ended>>

\* The broker refuses it, or the context has ended.
PublishFails(t, i) ==
    /\ timer[t][i] = "publish"
    /\ timer' = [timer EXCEPT ![t][i] = IF ended THEN "remove" ELSE "again"]
    /\ UNCHANGED <<entry, owed, calls, ended>>

\* Mutant of Again: the closure holds the mutex that ScheduleTaskAfter waits for.
AgainBlocked(t, i) == timer[t][i] = "again" /\ UNCHANGED timerVars

\* The failed closure schedules the task again, in 3 seconds.
Again(t, i) ==
    /\ timer[t][i] = "again"
    /\ Arm(t, i)
    /\ UNCHANGED <<owed, calls, ended>>

\* The closure ends with the removal of the entry, whichever timer that is.
Remove(t, i) ==
    /\ timer[t][i] = "remove"
    /\ timer' = [timer EXCEPT ![t][i] = "free"]
    /\ entry' = [entry EXCEPT ![t] = NoTimer]
    /\ UNCHANGED <<owed, calls, ended>>

\* The context ends.
End ==
    /\ ~ended /\ ended' = TRUE
    /\ UNCHANGED <<timer, entry, owed, calls>>

\* stopTimers: the timers of the map are stopped and the map is emptied.
StopTimers ==
    /\ ended
    /\ timer' = [t \in Tasks |-> [i \in Timers |->
                    IF i = entry[t] /\ timer[t][i] = "armed" THEN "free" ELSE timer[t][i]]]
    /\ entry' = [t \in Tasks |-> NoTimer]
    /\ UNCHANGED <<owed, calls, ended>>

TimersInit ==
    /\ timer = [t \in Tasks |-> [i \in Timers |-> "free"]]
    /\ entry = [t \in Tasks |-> NoTimer]
    /\ owed = {} /\ calls = 0 /\ ended = FALSE

Closure(t, i) == Publish(t, i) \/ PublishFails(t, i) \/ Again(t, i) \/ Remove(t, i)

TimersNext ==
    \/ \E t \in Tasks : ScheduleTaskAfter(t) \/ \E i \in Timers : Fire(t, i) \/ Closure(t, i)
    \/ End \/ StopTimers

TimersSpec == TimersInit /\ [][TimersNext]_timerVars

\* Delays pass, goroutines are scheduled, and the broker does not refuse a task's
\* wake-ups for ever.
FairTimersSpec ==
    /\ TimersSpec
    /\ \A t \in Tasks : \A i \in Timers :
         WF_timerVars(Fire(t, i)) /\ WF_timerVars(Closure(t, i)) /\ SF_timerVars(Publish(t, i))

------------------------------------------------------------------------------
\* Timers of a task that are going to wake it.
Live(t) == {i \in Timers : timer[t][i] \in {"armed", "publish", "again"}}

\* A scheduled wake-up has a timer or a closure behind it until it is published,
\* although closures remove and replace timers that are not theirs.
WakeupKept == ~ended => \A t \in owed : Live(t) # {}

\* A scheduled task is woken, unless the scheduler ends.
WakeupComes == \A t \in Tasks : t \in owed ~> t \notin owed \/ ended

------------------------------------------------------------------------------
(* What the documentation or a comment says and the code does not do: see the
   README, section 3.  No run checks these. *)

\* A task has one armed timer (internal/syncer/README.md, "Timer re-arm").
OneTimer == \A t \in Tasks : Cardinality({i \in Timers : timer[t][i] = "armed"}) <= 1
==============================================================================
