--------------------------- MODULE SchedulerProofs ---------------------------
(***************************************************************************)
(* The two tables a syncer process keeps in memory, for any number of      *)
(* processes, workers, tasks and timers: the connector lock                *)
(* (ConnectorLock) and the wake-up timers (SchedulerTimers).               *)
(*                                                                         *)
(* The lock guarantees exclusion within a process, a Redis key that a      *)
(* running task loses only to its own process, and exclusion between       *)
(* processes as long as no two workers share a ConnectorLock.  Exclusion   *)
(* within a process is not inductive by itself: the local table must have  *)
(* the key for as long as a worker is past it (Entered).  Exclusion        *)
(* between processes rests on the Redis key (KeyInv): a worker that holds  *)
(* the lock finds its own holder id there.                                 *)
(*                                                                         *)
(* The timers never drop a wake-up: whichever timer a step stops or takes  *)
(* out of the map, one that is going to publish is left.                   *)
(***************************************************************************)
EXTENDS ConnectorLock, SchedulerTimers, TLAPS

\* The labels at which a worker counts as having the lock of its process.
Inside == Trying \cup {"held"}

\* A worker that is past the local table has the key in it.
Entered == \A w \in Workers : pc[w] \in Inside => ProcOf[w] \in local

LocalInv == TypeOK /\ Entered /\ LocalExclusion

\* A worker that is alone in its process and got the Redis lock finds its holder id
\* in the key.
KeyInv ==
    UseRedis =>
        \A w \in Workers : Lone(w) /\ (At(w, "record") \/ At(w, "held")) => redis = ProcOf[w]

\* No step of any worker breaks the exclusion of the local table.
LEMMA LocalStep == LocalInv /\ [Next]_vars => LocalInv'
<1> SUFFICES ASSUME LocalInv, [Next]_vars PROVE LocalInv'
    OBVIOUS
<1> USE LockAssumption DEF LocalInv, TypeOK, Entered, LocalExclusion, Inside, Trying, Labels, Goto, At
<1>1. ASSUME NEW w \in Workers, TryLock(w) PROVE LocalInv'
    BY <1>1 DEF TryLock
<1>2. ASSUME NEW w \in Workers, DeleteStale(w) PROVE LocalInv'
    BY <1>2 DEF DeleteStale, DeleteIfEqual
<1>3. ASSUME NEW w \in Workers, SetNX(w) PROVE LocalInv'
    BY <1>3 DEF SetNX
<1>4. ASSUME NEW w \in Workers, GiveUp(w) PROVE LocalInv'
    BY <1>4 DEF GiveUp
<1>5. ASSUME NEW w \in Workers, Record(w) PROVE LocalInv'
    BY <1>5 DEF Record
<1>6. ASSUME NEW w \in Workers, Unlock(w) PROVE LocalInv'
    BY <1>6 DEF Unlock
<1>7. ASSUME NEW w \in Workers, Release(w) PROVE LocalInv'
    BY <1>7 DEF Release, DeleteIfEqual
<1>8. CASE Expire
    BY <1>8 DEF Expire
<1>9. ASSUME NEW p \in Procs, Crash(p) PROVE LocalInv'
    BY <1>9 DEF Crash
<1>10. CASE UNCHANGED vars
    BY <1>10 DEF vars
<1> QED
    BY <1>1, <1>2, <1>3, <1>4, <1>5, <1>6, <1>7, <1>8, <1>9, <1>10 DEF Next

\* The local table and the workers past it match in every reachable state.
LEMMA LocalInvariant == Spec => []LocalInv
<1>1. Init => LocalInv
    BY LockAssumption DEF Init, LocalInv, TypeOK, Entered, LocalExclusion, Inside, Trying, Labels
<1> QED
    BY <1>1, LocalStep, PTL DEF Spec

\* ConnectorLock.TryLock admits one worker of a process at a time, however the
\* Redis commands of the workers fail and interleave.
THEOREM LocalLockExcludes == Spec => [](TypeOK /\ LocalExclusion)
<1>1. LocalInv => TypeOK /\ LocalExclusion
    BY DEF LocalInv
<1> QED
    BY <1>1, LocalInvariant, PTL

\* The Redis key of a task that executes under the lock is never deleted by
\* another process, and within the process only by a Release that was overtaken.
THEOREM KeyIsOwn == Spec => KeyLostToOwnRelease
<1> DEFINE Lost ==
      \A w \in Workers :
         At(w, "held") /\ At(w, "held")' /\ redis = ProcOf[w] /\ redis' # redis =>
             \E v \in Workers \ {w} :
                 ProcOf[v] = ProcOf[w] /\ pc[v] = "release" /\ pc'[v] = "idle"
<1>1. LocalInv /\ [Next]_vars => [Lost]_vars
  <2> SUFFICES ASSUME LocalInv, Next PROVE Lost
      OBVIOUS
  <2> USE LockAssumption DEF LocalInv, TypeOK, LocalExclusion, Trying, Labels, Goto, At
  <2>1. ASSUME NEW v \in Workers, DeleteStale(v) PROVE Lost
      BY <2>1 DEF DeleteStale, DeleteIfEqual
  <2>2. ASSUME NEW v \in Workers, SetNX(v) PROVE Lost
      BY <2>2 DEF SetNX
  <2>3. ASSUME NEW v \in Workers, Release(v) PROVE Lost
      BY <2>3 DEF Release, DeleteIfEqual
  <2>4. ASSUME NEW v \in Workers, TryLock(v) \/ GiveUp(v) \/ Record(v) \/ Unlock(v) PROVE Lost
      BY <2>4 DEF TryLock, GiveUp, Record, Unlock
  <2>5. CASE Expire
      BY <2>5 DEF Expire
  <2>6. ASSUME NEW p \in Procs, Crash(p) PROVE Lost
      BY <2>6 DEF Crash
  <2> QED
      BY <2>1, <2>2, <2>3, <2>4, <2>5, <2>6 DEF Next
<1> QED
    BY <1>1, LocalInvariant, PTL DEF Spec, KeyLostToOwnRelease

\* No step takes the key from a holder that is alone in its process.
LEMMA KeyStep == LocalInv /\ KeyInv /\ [Next]_vars => KeyInv'
<1> SUFFICES ASSUME LocalInv, KeyInv, [Next]_vars PROVE KeyInv'
    OBVIOUS
<1> USE LockAssumption DEF LocalInv, TypeOK, KeyInv, Lone, Labels, Trying, Goto, At
<1>1. ASSUME NEW w \in Workers, TryLock(w) PROVE KeyInv'
    BY <1>1 DEF TryLock
<1>2. ASSUME NEW w \in Workers, DeleteStale(w) PROVE KeyInv'
    BY <1>2 DEF DeleteStale, DeleteIfEqual
<1>3. ASSUME NEW w \in Workers, SetNX(w) PROVE KeyInv'
    BY <1>3 DEF SetNX
<1>4. ASSUME NEW w \in Workers, GiveUp(w) \/ Record(w) \/ Unlock(w) PROVE KeyInv'
    BY <1>4 DEF GiveUp, Record, Unlock
<1>5. ASSUME NEW w \in Workers, Release(w) PROVE KeyInv'
    BY <1>5 DEF Release, DeleteIfEqual
<1>6. CASE Expire
    BY <1>6 DEF Expire
<1>7. ASSUME NEW p \in Procs, Crash(p) PROVE KeyInv'
    BY <1>7 DEF Crash
<1>8. CASE UNCHANGED vars
    BY <1>8 DEF vars
<1> QED
    BY <1>1, <1>2, <1>3, <1>4, <1>5, <1>6, <1>7, <1>8 DEF Next

\* Processes that run one task worker each never execute two tasks of the
\* connector and knowledge base at once, through crashes, lost replies and expiry.
\* For a process with more workers this is false: they write the same holder id.
THEOREM LockExcludes == Spec => []LoneWorkersExclude
<1>1. Init => KeyInv
    BY DEF Init, KeyInv, At
<1>2. KeyInv => LoneWorkersExclude
    BY DEF KeyInv, LoneWorkersExclude, Lone
<1>3. LocalInv /\ KeyInv /\ [Next]_vars => KeyInv'
    BY KeyStep
<1> QED
    BY <1>1, <1>2, <1>3, LocalInvariant, PTL DEF Spec

-------------------------------------------------------------------------------
(* The timers. *)

\* Every timer of every task has a state.
TimersTyped == timer \in [Tasks -> [Timers -> TimerStates]] /\ owed \subseteq Tasks

\* ScheduleTaskAfter, called by a worker or by a failed closure, leaves the task
\* with an armed timer and touches no other task.
LEMMA ArmEffect ==
    ASSUME TimersTyped, NEW t \in Tasks, NEW i \in Timers, Arm(t, i)
    PROVE  /\ timer' \in [Tasks -> [Timers -> TimerStates]]
           /\ timer'[t][i] = "armed"
           /\ \A u \in Tasks : u # t => timer'[u] = timer[u]
<1> DEFINE armed == [j \in Timers |-> IF j = i THEN "armed"
                                      ELSE IF j = entry[t] /\ timer[t][j] = "armed" THEN "free"
                                      ELSE timer[t][j]]
<1>1. armed \in [Timers -> TimerStates] /\ armed[i] = "armed"
  BY DEF TimersTyped, TimerStates
<1>2. timer' = [timer EXCEPT ![t] = armed]
  BY DEF Arm
<1> QED
  BY <1>1, <1>2 DEF TimersTyped

\* Every step of the callers, the timers and their closures keeps the types.
LEMMA TimersTypedStep == TimersTyped /\ [TimersNext]_timerVars => TimersTyped'
<1> SUFFICES ASSUME TimersTyped, [TimersNext]_timerVars PROVE TimersTyped'
  OBVIOUS
<1>1. ASSUME NEW t \in Tasks, ScheduleTaskAfter(t) PROVE TimersTyped'
  BY <1>1, ArmEffect DEF ScheduleTaskAfter, TimersTyped
<1>2. ASSUME NEW t \in Tasks, NEW i \in Timers, Fire(t, i) PROVE TimersTyped'
  BY <1>2 DEF Fire, TimersTyped, TimerStates
<1>3. ASSUME NEW t \in Tasks, NEW i \in Timers, Publish(t, i) PROVE TimersTyped'
  BY <1>3 DEF Publish, TimersTyped, TimerStates
<1>4. ASSUME NEW t \in Tasks, NEW i \in Timers, PublishFails(t, i) PROVE TimersTyped'
  BY <1>4 DEF PublishFails, TimersTyped, TimerStates
<1>5. ASSUME NEW t \in Tasks, NEW i \in Timers, Again(t, i) PROVE TimersTyped'
  BY <1>5, ArmEffect DEF Again, TimersTyped
<1>6. ASSUME NEW t \in Tasks, NEW i \in Timers, Remove(t, i) PROVE TimersTyped'
  BY <1>6 DEF Remove, TimersTyped, TimerStates
<1>7. CASE End
  BY <1>7 DEF End, TimersTyped
<1>8. CASE StopTimers
  BY <1>8 DEF StopTimers, TimersTyped, TimerStates
<1>9. CASE UNCHANGED timerVars
  BY <1>9 DEF timerVars, TimersTyped
<1> QED
  BY <1>1, <1>2, <1>3, <1>4, <1>5, <1>6, <1>7, <1>8, <1>9 DEF TimersNext, Closure

\* Whoever stops, fires or removes a timer, a task that is owed a wake-up keeps one
\* that will publish it.
LEMMA WakeupStep == TimersTyped /\ WakeupKept /\ [TimersNext]_timerVars => WakeupKept'
<1> SUFFICES ASSUME TimersTyped, WakeupKept, [TimersNext]_timerVars, ~ended',
                    NEW u \in owed'
             PROVE  Live(u)' # {}
  BY DEF WakeupKept
<1>0. TimersTyped'
  BY TimersTypedStep
<1>1. ASSUME NEW t \in Tasks, ScheduleTaskAfter(t) PROVE Live(u)' # {}
  <2>1. PICK i \in Timers : Arm(t, i)
    BY <1>1 DEF ScheduleTaskAfter
  <2>2. CASE u = t
    BY <2>1, <2>2, ArmEffect DEF Live
  <2>3. CASE u # t
    <3>1. u \in owed /\ ~ended /\ u \in Tasks
      BY <1>1, <2>3 DEF ScheduleTaskAfter, TimersTyped
    <3> QED
      BY <2>1, <2>3, <3>1, ArmEffect DEF Live, WakeupKept
  <2> QED
    BY <2>2, <2>3
<1>2. ASSUME NEW t \in Tasks, NEW i \in Timers, Fire(t, i) PROVE Live(u)' # {}
  BY <1>2 DEF Fire, Live, WakeupKept, TimersTyped
<1>3. ASSUME NEW t \in Tasks, NEW i \in Timers, Publish(t, i) PROVE Live(u)' # {}
  BY <1>3 DEF Publish, Live, WakeupKept, TimersTyped
<1>4. ASSUME NEW t \in Tasks, NEW i \in Timers, PublishFails(t, i) PROVE Live(u)' # {}
  BY <1>4 DEF PublishFails, Live, WakeupKept, TimersTyped
<1>5. ASSUME NEW t \in Tasks, NEW i \in Timers, Again(t, i) PROVE Live(u)' # {}
  <2>1. CASE u = t
    BY <1>5, <2>1, ArmEffect DEF Again, Live
  <2>2. CASE u # t
    <3>1. u \in owed /\ ~ended /\ u \in Tasks
      BY <1>5 DEF Again, TimersTyped
    <3> QED
      BY <1>5, <2>2, <3>1, ArmEffect DEF Again, Live, WakeupKept
  <2> QED
    BY <2>1, <2>2
<1>6. ASSUME NEW t \in Tasks, NEW i \in Timers, Remove(t, i) PROVE Live(u)' # {}
  BY <1>6 DEF Remove, Live, WakeupKept, TimersTyped
<1>7. CASE End
  BY <1>7 DEF End
<1>8. CASE StopTimers
  BY <1>8 DEF StopTimers
<1>9. CASE UNCHANGED timerVars
  BY <1>9 DEF timerVars, Live, WakeupKept
<1> QED
  BY <1>1, <1>2, <1>3, <1>4, <1>5, <1>6, <1>7, <1>8, <1>9 DEF TimersNext, Closure

\* A wake-up that ScheduleTaskAfter has promised keeps a timer or a closure behind it
\* until it is published or the scheduler ends, although a closure removes the
\* map entry of whichever timer has replaced its own.
THEOREM WakeupsAreKept == TimersSpec => []WakeupKept
<1>1. TimersInit => TimersTyped /\ WakeupKept
  BY DEF TimersInit, TimersTyped, WakeupKept, TimerStates
<1> QED
  BY <1>1, TimersTypedStep, WakeupStep, PTL DEF TimersSpec
===============================================================================
