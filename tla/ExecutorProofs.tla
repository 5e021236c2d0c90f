---------------------------- MODULE ExecutorProofs ----------------------------
(***************************************************************************)
(* The batch job executor for any number of tasks, runs, batches and       *)
(* workers and any queue size: a job is settled at most once, and the      *)
(* dispatcher passes a waiting task over at most once per other task.      *)
(*                                                                         *)
(* SettledOnce needs to know that a job that is about to be submitted is   *)
(* new (Fresh) and that a task's queue holds that task's jobs (OwnQueue).  *)
(* BoundedWait needs the distance from the cursor to a task in the order:  *)
(* every job taken from another queue brings the cursor nearer, and a task *)
(* that joins makes both the way and the bound longer by one.              *)
(***************************************************************************)
EXTENDS JobExecutor, TLAPS

\* The job has not been submitted yet.
Future(j) == j[2] > run[j[1]] \/ (j[2] = run[j[1]] /\ j[3] > sent[j[1]])

\* A job that was not submitted is nowhere.
Fresh == \A j \in Jobs : Future(j) => ~Unsettled(j) /\ result[j] = "none"

\* A task's queue holds jobs of that task.
OwnQueue == \A t \in Tasks : \A j \in Range(queue[t]) : j[1] = t

------------------------------------------------------------------------------
(* Sequences. *)

\* What is in a sequence that was appended to.
LEMMA RangeAppend ==
    ASSUME NEW S, NEW s \in Seq(S), NEW e \in S
    PROVE  /\ Append(s, e) \in Seq(S)
           /\ Range(Append(s, e)) = Range(s) \cup {e}
           /\ NoRepeat(s) /\ e \notin Range(s) => NoRepeat(Append(s, e))
<1>1. Append(s, e) \in Seq(S) /\ Len(Append(s, e)) = Len(s) + 1
      /\ \A i \in 1..Len(s) : Append(s, e)[i] = s[i]
      /\ Append(s, e)[Len(s) + 1] = e
    OBVIOUS
<1>2. DOMAIN s = 1..Len(s) /\ DOMAIN Append(s, e) = 1..(Len(s) + 1) /\ Len(s) \in Nat
    BY <1>1
<1>3. Range(Append(s, e)) = Range(s) \cup {e}
  <2>1. ASSUME NEW x \in Range(Append(s, e)) PROVE x \in Range(s) \cup {e}
      BY <1>1, <1>2, <2>1 DEF Range
  <2>2. ASSUME NEW x \in Range(s) \cup {e} PROVE x \in Range(Append(s, e))
    <3>1. CASE x = e
        BY <1>1, <1>2, <3>1 DEF Range
    <3>2. CASE x \in Range(s)
      <4>1. PICK i \in 1..Len(s) : x = s[i]
          BY <3>2, <1>2 DEF Range
      <4> QED
          BY <4>1, <1>1, <1>2 DEF Range
    <3> QED
        BY <3>1, <3>2
  <2> QED
      BY <2>1, <2>2
<1> QED
    BY <1>1, <1>2, <1>3 DEF Range, NoRepeat

\* What is in a sequence whose head was taken.
LEMMA RangeTail ==
    ASSUME NEW S, NEW s \in Seq(S), s # <<>>
    PROVE  /\ Tail(s) \in Seq(S) /\ Head(s) \in S
           /\ Head(s) \in Range(s)
           /\ Range(Tail(s)) \subseteq Range(s)
           /\ NoRepeat(s) => NoRepeat(Tail(s)) /\ Head(s) \notin Range(Tail(s))
<1>1. Tail(s) \in Seq(S) /\ Len(Tail(s)) = Len(s) - 1 /\ Head(s) = s[1] /\ Len(s) \in Nat \ {0}
      /\ \A i \in 1..(Len(s) - 1) : Tail(s)[i] = s[i + 1]
    OBVIOUS
<1>2. DOMAIN s = 1..Len(s) /\ DOMAIN Tail(s) = 1..(Len(s) - 1)
    BY <1>1
<1>3. Head(s) \in Range(s) /\ Head(s) \in S
    BY <1>1, <1>2 DEF Range
<1>4. Range(Tail(s)) \subseteq Range(s)
    BY <1>1, <1>2 DEF Range
<1>5. ASSUME NoRepeat(s) PROVE NoRepeat(Tail(s)) /\ Head(s) \notin Range(Tail(s))
    BY <1>1, <1>2, <1>5 DEF Range, NoRepeat
<1> QED
    BY <1>1, <1>3, <1>4, <1>5

\* Nothing is in the empty sequence.
LEMMA RangeEmpty == Range(<<>>) = {} /\ NoRepeat(<<>>)
    BY DEF Range, NoRepeat

------------------------------------------------------------------------------
(* Types. *)

\* Taking a task out of the order leaves a sequence of tasks, shorter by one if the
\* task was there.
LEMMA WithoutType ==
    ASSUME TypeOK, NEW t \in Tasks
    PROVE  /\ Without(t) \in Seq(Tasks)
           /\ t \in Range(order) => Len(Without(t)) = Len(order) - 1
           /\ t \notin Range(order) => Without(t) = order
<1>1. CASE t \notin Range(order)
    BY <1>1 DEF Without, TypeOK
<1>2. CASE t \in Range(order)
  <2> DEFINE i == CHOOSE i \in DOMAIN order : order[i] = t
             f == [k \in 1..(Len(order) - 1) |-> order[IF k < i THEN k ELSE k + 1]]
  <2>1. order \in Seq(Tasks) /\ Len(order) \in Nat \ {0} /\ DOMAIN order = 1..Len(order)
      BY <1>2 DEF TypeOK, Range
  <2>2. i \in 1..Len(order)
      BY <1>2, <2>1 DEF Range
  <2>3. Without(t) = f
      BY <1>2 DEF Without
  <2>4. \A k \in 1..(Len(order) - 1) : f[k] \in Tasks
      BY <2>1, <2>2
  <2>5. f \in Seq(Tasks) /\ Len(f) = Len(order) - 1
      BY <2>1, <2>4
  <2> QED
      BY <1>2, <2>3, <2>5
<1> QED
    BY <1>1, <1>2

\* Every step keeps every variable in its type.
LEMMA TypeStep == TypeOK /\ [Next]_vars => TypeOK'
<1> SUFFICES ASSUME TypeOK, [Next]_vars PROVE TypeOK'
    OBVIOUS
<1> USE ExecutorAssumption, NoneAssumption
    DEF Runs, Batches, Results, Goto, ThisRun, coordinator, dispatcher
<1>1. ASSUME NEW t \in Tasks, RegisterTask(t) PROVE TypeOK'
  <2>1. queue' \in [Tasks -> Seq(Jobs)] /\ order' \in Seq(Tasks) /\ Len(order') >= Len(order)
    <3>1. CASE t \in Range(order)
        BY <1>1, <3>1 DEF TypeOK, RegisterTask
    <3>2. CASE t \notin Range(order)
      <4>1. order' = Append(order, t) /\ queue' = [queue EXCEPT ![t] = <<>>]
          BY <1>1, <3>2 DEF RegisterTask
      <4>2. order' \in Seq(Tasks) /\ Len(order') = Len(order) + 1 /\ Len(order) \in Nat
          BY <4>1 DEF TypeOK
      <4>3. <<>> \in Seq(Jobs)
          OBVIOUS
      <4>4. queue' \in [Tasks -> Seq(Jobs)]
          BY <4>1, <4>3 DEF TypeOK
      <4> QED
          BY <4>2, <4>4
    <3> QED
        BY <3>1, <3>2
  <2>2. <<t, run[t] + 1>> \in Tasks \X (Runs \cup {0})
      BY <1>1 DEF RegisterTask
  <2>3. over' \subseteq Tasks \X (Runs \cup {0})
      BY <1>1, <2>2 DEF TypeOK, RegisterTask
  <2>4. /\ at' \in [Tasks -> {"idle", "registering", "submitting", "collecting", "closing"}]
        /\ run' \in [Tasks -> Runs \cup {0}]
        /\ \A u \in Tasks : at'[u] # "idle" => run'[u] \in Runs
      BY <1>1 DEF TypeOK, RegisterTask
  <2>41. sent' \in [Tasks -> Batches \cup {0}] /\ got' \in [Tasks -> Batches \cup {0}]
      BY <1>1 DEF TypeOK, RegisterTask
  <2>43. reply' \in [Tasks -> {"queue", "refused"}]
      BY <1>1 DEF TypeOK, RegisterTask
  <2>5. cursor' \in Nat /\ (cursor' = 0 \/ cursor' < Len(order'))
      BY <1>1, <2>1 DEF TypeOK, RegisterTask
  <2> QED
      BY <1>1, <2>1, <2>3, <2>4, <2>41, <2>43, <2>5 DEF TypeOK, RegisterTask
<1>2. ASSUME NEW t \in Tasks, Registered(t) \/ RegisterAbandoned(t) \/ ContextEnds(t) PROVE TypeOK'
  <2>1. ThisRun(t) \in Tasks \X (Runs \cup {0})
      BY DEF TypeOK
  <2>2. over' \subseteq Tasks \X (Runs \cup {0})
      BY <1>2, <2>1 DEF TypeOK, Registered, RegisterAbandoned, ContextEnds
  <2>3. at' \in [Tasks -> {"idle", "registering", "submitting", "collecting", "closing"}]
      BY <1>2 DEF TypeOK, Registered, RegisterAbandoned, ContextEnds
  <2> QED
      BY <1>2, <2>2, <2>3 DEF TypeOK, Registered, RegisterAbandoned, ContextEnds
<1>3. ASSUME NEW t \in Tasks, Submit(t) PROVE TypeOK'
  <2>1. sent[t] + 1 \in Batches /\ (at[t] = "submitting")
      BY <1>3 DEF Submit
  <2>2. run[t] \in Runs
      BY <2>1 DEF TypeOK
  <2>3. <<t, run[t], sent[t] + 1>> \in Jobs
      BY <2>1, <2>2 DEF Jobs
  <2>4. queue' \in [Tasks -> Seq(Jobs)] /\ sent' \in [Tasks -> Batches \cup {0}]
      BY <1>3, <2>3, <2>1 DEF TypeOK, Submit
  <2> QED
      BY <1>3, <2>4 DEF TypeOK, Submit
<1>4. ASSUME NEW t \in Tasks, SourceEnds(t) \/ Collected(t) \/ CutShort(t) \/ GiveUp(t) PROVE TypeOK'
    BY <1>4 DEF TypeOK, SourceEnds, Collected, CutShort, GiveUp
<1>5. ASSUME NEW t \in Tasks, Collect(t) PROVE TypeOK'
  <2>0. got[t] \in Batches \cup {0} /\ sent[t] \in Batches \cup {0} /\ got[t] < sent[t]
      BY <1>5 DEF TypeOK, Collect
  <2>1. got[t] + 1 \in Batches
      BY <2>0
  <2> QED
      BY <1>5, <2>1 DEF TypeOK, Collect
<1>51. ASSUME NEW t \in Tasks, Restart(t) PROVE TypeOK'
    BY <1>51 DEF TypeOK, Restart
<1>6. ASSUME NEW t \in Tasks, Unregister(t) PROVE TypeOK'
  <2>1. order' \in Seq(Tasks) /\ Len(order') \in Nat
      BY <1>6, WithoutType DEF Unregister
  <2>2. cursor' \in Nat /\ (cursor' = 0 \/ cursor' < Len(order'))
      BY <1>6, <2>1 DEF TypeOK, Unregister, NewCursor
  <2>3. ThisRun(t) \in Tasks \X (Runs \cup {0})
      BY DEF TypeOK
  <2>4. over' \subseteq Tasks \X (Runs \cup {0})
      BY <1>6, <2>3 DEF TypeOK, Unregister
  <2>5. /\ at' \in [Tasks -> {"idle", "registering", "submitting", "collecting", "closing"}]
        /\ queue' \in [Tasks -> Seq(Jobs)] /\ waited' \in [Tasks -> Nat]
      BY <1>6 DEF TypeOK, Unregister
  <2> QED
      BY <1>6, <2>1, <2>2, <2>4, <2>5 DEF TypeOK, Unregister
<1>7. CASE PopReadyJob
  <2>1. PICK i \in 0..(Len(order) - 1) :
          /\ queue[Turn(i)] # <<>>
          /\ pending' = Head(queue[Turn(i)])
          /\ queue'   = [queue EXCEPT ![Turn(i)] = Tail(@)]
          /\ cursor'  = Advance(i)
          /\ waited'  = [t \in Tasks |-> IF t = Turn(i) \/ queue[t] = <<>> THEN 0 ELSE waited[t] + 1]
      BY <1>7 DEF PopReadyJob
  <2>2. Len(order) \in Nat \ {0} /\ cursor \in Nat /\ order \in Seq(Tasks)
      BY <2>1 DEF TypeOK
  <2>3. (cursor + i) % Len(order) \in 0..(Len(order) - 1) /\ (cursor + i + 1) % Len(order) \in 0..(Len(order) - 1)
      BY <2>2
  <2>4. Turn(i) \in Tasks
      BY <2>2, <2>3 DEF Turn
  <2>5. pending' \in Jobs /\ queue' \in [Tasks -> Seq(Jobs)]
      BY <2>1, <2>4, RangeTail DEF TypeOK
  <2>6. cursor' \in Nat /\ cursor' < Len(order)
      BY <2>1, <2>2, <2>3 DEF Advance
  <2>7. waited' \in [Tasks -> Nat]
    <3>1. \A t \in Tasks : waited[t] \in Nat
        BY DEF TypeOK
    <3>2. \A t \in Tasks : (IF t = Turn(i) \/ queue[t] = <<>> THEN 0 ELSE waited[t] + 1) \in Nat
        BY <3>1
    <3> QED
        BY <2>1, <3>2
  <2> QED
      BY <1>7, <2>5, <2>6, <2>7 DEF TypeOK, PopReadyJob
<1>8. CASE Dispatch
    BY <1>8 DEF TypeOK, Dispatch
<1>9. ASSUME NEW w \in Workers, Take(w) PROVE TypeOK'
  <2>1. Head(jobs) \in Jobs /\ Tail(jobs) \in Seq(Jobs)
      BY <1>9, RangeTail DEF TypeOK, Take
  <2>2. working' \in [Workers -> Jobs \cup {None}] /\ result' \in [Jobs -> Results]
    <3>1. CASE RunOf(Head(jobs)) \in over
        BY <1>9, <2>1, <3>1 DEF TypeOK, Take, Settle
    <3>2. CASE RunOf(Head(jobs)) \notin over
        BY <1>9, <2>1, <3>2 DEF TypeOK, Take
    <3> QED
        BY <3>1, <3>2
  <2> QED
      BY <1>9, <2>1, <2>2 DEF TypeOK, Take
<1>91. ASSUME NEW w \in Workers, Finish(w) PROVE TypeOK'
    BY <1>91 DEF TypeOK, Finish, Settle
<1>10. CASE Stop
  <2>1. {ThisRun(t) : t \in {u \in Tasks : run[u] \in Runs}} \subseteq Tasks \X (Runs \cup {0})
      BY DEF TypeOK
  <2>2. over' \subseteq Tasks \X (Runs \cup {0})
      BY <1>10, <2>1 DEF TypeOK, Stop
  <2> QED
      BY <1>10, <2>2 DEF TypeOK, Stop
<1>101. CASE Close
  <2>1. result' \in [Jobs -> Results]
      BY <1>101 DEF TypeOK, Close, Settle
  <2>2. queue' \in [Tasks -> Seq(Jobs)]
      BY <1>101 DEF Close
  <2> QED
      BY <1>101, <2>1, <2>2 DEF TypeOK, Close
<1>102. CASE Closed
    BY <1>102 DEF TypeOK, Closed
<1>11. CASE UNCHANGED vars
    BY <1>11 DEF TypeOK, vars
<1> QED
    BY <1>1, <1>2, <1>3, <1>4, <1>5, <1>51, <1>6, <1>7, <1>8, <1>9, <1>91,
       <1>10, <1>101, <1>102, <1>11 DEF Next

------------------------------------------------------------------------------
(* A job is settled once. *)

\* The parts of SettleInv after the types.
Settled == SettledOnce /\ Fresh /\ OwnQueue

\* What is queued for one task is not queued for another.
LEMMA QueuedAtOwn ==
    ASSUME OwnQueue, NEW t \in Tasks, NEW u \in Tasks, NEW j, j \in Range(queue[t]), j \in Range(queue[u])
    PROVE  t = u
    BY DEF OwnQueue

\* A job that leaves the coordinators' world alone: no place gains a job, no result
\* changes, and no job becomes one that was not submitted.
LEMMA Fewer ==
    ASSUME TypeOK, Settled,
           \A t \in Tasks : Range(queue'[t]) \subseteq Range(queue[t]) /\ NoRepeat(queue'[t]),
           pending' \in {pending, None}, jobs' = jobs, working' = working,
           \A j \in Jobs : result'[j] # result[j] => ~Unsettled(j)' /\ ~Future(j)',
           \A j \in Jobs : Future(j)' => Future(j)
    PROVE  Settled'
<1> USE NoneAssumption
<1>1. \A j \in Jobs : Unsettled(j)' => Unsettled(j)
    BY DEF Unsettled, Queued
<1>2. \A j \in Jobs : Queued(j)' => Queued(j)
    BY DEF Queued
<1>3. \A j \in Jobs : j = pending' => j = pending
    OBVIOUS
<1>4. \A j \in Jobs : Unsettled(j)' => result'[j] = "none"
    BY <1>1 DEF Settled, SettledOnce
<1>5. \A j \in Jobs :
         /\ Queued(j)' => j # pending'
         /\ j \in Range(jobs') => ~Queued(j)' /\ j # pending'
         /\ \A w \in Workers : working'[w] = j =>
              ~Queued(j)' /\ j # pending' /\ j \notin Range(jobs')
              /\ \A v \in Workers \ {w} : working'[v] # j
    BY <1>2, <1>3 DEF Settled, SettledOnce
<1>6. NoRepeat(jobs')
    BY DEF Settled, SettledOnce
<1>7. SettledOnce'
    BY <1>4, <1>5, <1>6 DEF SettledOnce
<1>8. Fresh'
  <2> SUFFICES ASSUME NEW j \in Jobs, Future(j)' PROVE ~Unsettled(j)' /\ result'[j] = "none"
      BY DEF Fresh
  <2>1. ~Unsettled(j) /\ result[j] = "none"
      BY DEF Settled, Fresh
  <2> QED
      BY <1>1, <2>1
<1>9. OwnQueue'
    BY DEF Settled, OwnQueue
<1> QED
    BY <1>7, <1>8, <1>9 DEF Settled

\* A step that leaves every job where it is.
LEMMA Elsewhere ==
    ASSUME TypeOK, Settled,
           UNCHANGED <<queue, pending, jobs, working, result, run, sent>>
    PROVE  Settled'
<1>1. \A t \in Tasks : Range(queue'[t]) \subseteq Range(queue[t]) /\ NoRepeat(queue'[t])
    BY DEF Settled, SettledOnce
<1>2. \A j \in Jobs : Future(j)' => Future(j)
    BY DEF Future
<1> QED
    BY <1>1, <1>2, Fewer

\* Every step keeps a job in one place until it is settled, and settles it once.
LEMMA SettleStep == TypeOK /\ TypeOK' /\ Settled /\ [Next]_vars => Settled'
<1> SUFFICES ASSUME TypeOK, TypeOK', Settled, [Next]_vars PROVE Settled'
    OBVIOUS
<1> USE ExecutorAssumption, NoneAssumption DEF coordinator, dispatcher
<1>1. ASSUME NEW t \in Tasks, RegisterTask(t) PROVE Settled'
  <2>1. \A u \in Tasks : Range(queue'[u]) \subseteq Range(queue[u]) /\ NoRepeat(queue'[u])
    <3>1. CASE queue' = queue
        BY <3>1 DEF Settled, SettledOnce
    <3>2. CASE queue' = [queue EXCEPT ![t] = <<>>]
        BY <3>2, RangeEmpty DEF Settled, SettledOnce, TypeOK
    <3> QED
        BY <1>1, <3>1, <3>2 DEF RegisterTask
  <2>2. ASSUME NEW j \in Jobs, Future(j)' PROVE Future(j)
    <3>1. j[1] \in Tasks /\ j[2] \in Nat /\ j[3] \in Nat
        BY DEF Jobs, Runs, Batches
    <3>2. run[t] \in Nat /\ run' = [run EXCEPT ![t] = @ + 1] /\ sent' = [sent EXCEPT ![t] = 0]
        BY <1>1 DEF TypeOK, Runs, RegisterTask
    <3>3. CASE j[1] = t
      <4>1. run'[j[1]] = run[t] + 1
          BY <3>2, <3>3 DEF TypeOK
      <4>2. j[2] > run[t]
          BY <2>2, <3>1, <3>2, <4>1 DEF Future
      <4> QED
          BY <4>2, <3>3 DEF Future
    <3>4. CASE j[1] # t
      <4>1. run'[j[1]] = run[j[1]] /\ sent'[j[1]] = sent[j[1]]
          BY <3>1, <3>2, <3>4 DEF TypeOK
      <4> QED
          BY <2>2, <4>1 DEF Future
    <3> QED
        BY <3>3, <3>4
  <2>3. UNCHANGED <<pending, jobs, working, result>>
      BY <1>1 DEF RegisterTask
  <2> QED
      BY <2>1, <2>2, <2>3, Fewer
<1>2. ASSUME NEW t \in Tasks,
             \/ Registered(t) \/ RegisterAbandoned(t) \/ ContextEnds(t) \/ SourceEnds(t)
             \/ Collect(t) \/ Collected(t) \/ Restart(t) \/ CutShort(t) \/ GiveUp(t)
      PROVE Settled'
  <2>1. UNCHANGED <<queue, pending, jobs, working, result, run, sent>>
      BY <1>2 DEF Registered, RegisterAbandoned, ContextEnds, SourceEnds, Collect, Collected,
                  Restart, CutShort, GiveUp
  <2> QED
      BY <2>1, Elsewhere
<1>3. ASSUME NEW t \in Tasks, Submit(t) PROVE Settled'
  <2> DEFINE n == <<t, run[t], sent[t] + 1>>
  <2>1. /\ at[t] = "submitting" /\ sent[t] + 1 \in Batches
        /\ sent' = [sent EXCEPT ![t] = @ + 1]
        /\ queue' = [queue EXCEPT ![t] = Append(@, n)]
        /\ UNCHANGED <<run, pending, jobs, working, result>>
      BY <1>3 DEF Submit
  <2>20. run[t] \in Runs /\ sent[t] \in Batches \cup {0}
      BY <2>1 DEF TypeOK
  <2>2. run[t] \in Nat /\ run[t] \in Runs /\ sent[t] \in Nat
      BY <2>20 DEF Runs, Batches
  <2>3. n \in Jobs
      BY <2>1, <2>2 DEF Jobs
  <2>4. Future(n) /\ n[1] = t /\ n[2] = run[t] /\ n[3] = sent[t] + 1
      BY <2>2 DEF Future
  <2>5. ~Unsettled(n) /\ result[n] = "none"
      BY <2>3, <2>4 DEF Settled, Fresh
  <2>6. /\ \A u \in Tasks : u # t => queue'[u] = queue[u]
        /\ Range(queue'[t]) = Range(queue[t]) \cup {n}
        /\ NoRepeat(queue'[t])
    <3>1. queue[t] \in Seq(Jobs) /\ queue'[t] = Append(queue[t], n)
          /\ \A u \in Tasks : u # t => queue'[u] = queue[u]
        BY <2>1 DEF TypeOK
    <3>2. NoRepeat(queue[t]) /\ n \notin Range(queue[t])
        BY <2>5 DEF Unsettled, Queued, Settled, SettledOnce
    <3> QED
        BY <3>1, <3>2, <2>3, RangeAppend
  <2>7. \A j \in Jobs : Queued(j)' <=> Queued(j) \/ j = n
      BY <2>6 DEF Queued
  <2>8. \A j \in Jobs : Unsettled(j)' <=> Unsettled(j) \/ j = n
      BY <2>7, <2>1 DEF Unsettled
  <2>9. SettledOnce'
    <3>1. \A j \in Jobs : Unsettled(j)' => result'[j] = "none"
        BY <2>8, <2>5, <2>1 DEF Settled, SettledOnce
    <3>2. \A u \in Tasks : NoRepeat(queue'[u])
        BY <2>6 DEF Settled, SettledOnce
    <3>3. NoRepeat(jobs')
        BY <2>1 DEF Settled, SettledOnce
    <3>4. n # pending /\ n \notin Range(jobs) /\ \A w \in Workers : working[w] # n
        BY <2>5 DEF Unsettled
    <3>5. \A j \in Jobs :
             /\ Queued(j)' => j # pending'
             /\ j \in Range(jobs') => ~Queued(j)' /\ j # pending'
             /\ \A w \in Workers : working'[w] = j =>
                  ~Queued(j)' /\ j # pending' /\ j \notin Range(jobs')
                  /\ \A v \in Workers \ {w} : working'[v] # j
        BY <2>1, <2>7, <3>4 DEF Settled, SettledOnce
    <3> QED
        BY <3>1, <3>2, <3>3, <3>5 DEF SettledOnce
  <2>10. Fresh'
    <3> SUFFICES ASSUME NEW j \in Jobs, Future(j)' PROVE ~Unsettled(j)' /\ result'[j] = "none"
        BY DEF Fresh
    <3>1. j[1] \in Tasks /\ j[2] \in Nat /\ j[3] \in Nat
        BY DEF Jobs, Runs, Batches
    <3>2. CASE j[1] = t
      <4>1. sent'[j[1]] = sent[t] + 1 /\ run'[j[1]] = run[t]
          BY <2>1, <3>2 DEF TypeOK
      <4>2. j[2] > run[t] \/ (j[2] = run[t] /\ j[3] > sent[t] + 1)
          BY <4>1 DEF Future
      <4>3. Future(j) /\ j # n
          BY <4>2, <3>1, <3>2, <2>2, <2>4 DEF Future
      <4> QED
          BY <4>3, <2>1, <2>8 DEF Settled, Fresh
    <3>3. CASE j[1] # t
      <4>1. sent'[j[1]] = sent[j[1]] /\ run'[j[1]] = run[j[1]]
          BY <2>1, <3>1, <3>3 DEF TypeOK
      <4>2. Future(j) /\ j # n
          BY <4>1, <3>3, <2>4 DEF Future
      <4> QED
          BY <4>2, <2>1, <2>8 DEF Settled, Fresh
    <3> QED
        BY <3>2, <3>3
  <2>11. OwnQueue'
      BY <2>6, <2>4 DEF Settled, OwnQueue
  <2> QED
      BY <2>9, <2>10, <2>11 DEF Settled
<1>4. ASSUME NEW t \in Tasks, Unregister(t) PROVE Settled'
  <2>1. queue' = [queue EXCEPT ![t] = <<>>] /\ UNCHANGED <<run, sent, pending, jobs, working, result>>
      BY <1>4 DEF Unregister
  <2>2. \A u \in Tasks : Range(queue'[u]) \subseteq Range(queue[u]) /\ NoRepeat(queue'[u])
      BY <2>1, RangeEmpty DEF Settled, SettledOnce, TypeOK
  <2>3. \A j \in Jobs : Future(j)' => Future(j)
      BY <2>1 DEF Future
  <2> QED
      BY <2>1, <2>2, <2>3, Fewer
<1>5. CASE PopReadyJob
  <2>1. PICK i \in 0..(Len(order) - 1) :
          /\ queue[Turn(i)] # <<>>
          /\ pending' = Head(queue[Turn(i)])
          /\ queue'   = [queue EXCEPT ![Turn(i)] = Tail(@)]
      BY <1>5 DEF PopReadyJob
  <2>0. PICK t, n : t = Turn(i) /\ n = Head(queue[t])
      OBVIOUS
  <2>2. pending = None /\ UNCHANGED <<run, sent, jobs, working, result>>
      BY <1>5 DEF PopReadyJob
  <2>3. t \in Tasks
    <3>1. Len(order) \in Nat \ {0} /\ cursor \in Nat /\ order \in Seq(Tasks)
        BY DEF TypeOK
    <3>2. (cursor + i) % Len(order) \in 0..(Len(order) - 1)
        BY <3>1
    <3> QED
        BY <2>0, <3>1, <3>2 DEF Turn
  <2>4. queue[t] \in Seq(Jobs) /\ NoRepeat(queue[t])
        /\ queue'[t] = Tail(queue[t]) /\ \A u \in Tasks : u # t => queue'[u] = queue[u]
      BY <2>0, <2>1, <2>3 DEF TypeOK, Settled, SettledOnce
  <2>5. /\ n \in Jobs /\ n \in Range(queue[t]) /\ n \notin Range(queue'[t])
        /\ Range(queue'[t]) \subseteq Range(queue[t]) /\ NoRepeat(queue'[t])
      BY <2>0, <2>1, <2>4, RangeTail
  <2>6. Queued(n) /\ ~Queued(n)'
    <3>1. Queued(n)
        BY <2>3, <2>5 DEF Queued
    <3>2. ASSUME NEW u \in Tasks, n \in Range(queue'[u]) PROVE FALSE
      <4>1. CASE u = t
          BY <3>2, <4>1, <2>5
      <4>2. CASE u # t
          BY <3>2, <4>2, <2>3, <2>4, <2>5 DEF Settled, OwnQueue
      <4> QED
          BY <4>1, <4>2
    <3> QED
        BY <3>1, <3>2 DEF Queued
  <2>7. \A j \in Jobs : Queued(j)' => Queued(j) /\ j # n
      BY <2>3, <2>4, <2>5, <2>6 DEF Queued
  <2>8. pending' = n
      BY <2>0, <2>1
  <2>9. \A j \in Jobs : Unsettled(j)' => Unsettled(j)
      BY <2>2, <2>6, <2>7, <2>8 DEF Unsettled
  <2>10. SettledOnce'
    <3>1. \A j \in Jobs : Unsettled(j)' => result'[j] = "none"
        BY <2>9, <2>2 DEF Settled, SettledOnce
    <3>2. \A u \in Tasks : NoRepeat(queue'[u])
        BY <2>3, <2>4, <2>5 DEF Settled, SettledOnce
    <3>3. NoRepeat(jobs')
        BY <2>2 DEF Settled, SettledOnce
    <3>4. n \notin Range(jobs) /\ \A w \in Workers : working[w] # n
        BY <2>5, <2>6 DEF Settled, SettledOnce
    <3>5. \A j \in Jobs :
             /\ Queued(j)' => j # pending'
             /\ j \in Range(jobs') => ~Queued(j)' /\ j # pending'
             /\ \A w \in Workers : working'[w] = j =>
                  ~Queued(j)' /\ j # pending' /\ j \notin Range(jobs')
                  /\ \A v \in Workers \ {w} : working'[v] # j
        BY <2>2, <2>7, <2>8, <3>4 DEF Settled, SettledOnce
    <3> QED
        BY <3>1, <3>2, <3>3, <3>5 DEF SettledOnce
  <2>11. Fresh'
      BY <2>2, <2>9 DEF Settled, Fresh, Future
  <2>12. OwnQueue'
      BY <2>3, <2>4, <2>5 DEF Settled, OwnQueue
  <2> QED
      BY <2>10, <2>11, <2>12 DEF Settled
<1>6. CASE Dispatch
  <2>1. pending # None /\ jobs' = Append(jobs, pending) /\ pending' = None
        /\ UNCHANGED <<run, sent, queue, working, result>>
      BY <1>6 DEF Dispatch
  <2>2. pending \in Jobs /\ jobs \in Seq(Jobs) /\ NoRepeat(jobs) /\ pending \notin Range(jobs)
      BY <2>1 DEF TypeOK, Settled, SettledOnce
  <2>3. Range(jobs') = Range(jobs) \cup {pending} /\ NoRepeat(jobs')
      BY <2>1, <2>2, RangeAppend
  <2>4. \A j \in Jobs : (Queued(j)' <=> Queued(j)) /\ j # pending'
      BY <2>1 DEF Queued
  <2>5. \A j \in Jobs : Unsettled(j)' => Unsettled(j)
      BY <2>1, <2>3, <2>4 DEF Unsettled
  <2>6. SettledOnce'
    <3>1. \A j \in Jobs : Unsettled(j)' => result'[j] = "none"
        BY <2>5, <2>1 DEF Settled, SettledOnce
    <3>2. \A u \in Tasks : NoRepeat(queue'[u])
        BY <2>1 DEF Settled, SettledOnce
    <3>3. \A j \in Jobs :
             /\ Queued(j)' => j # pending'
             /\ j \in Range(jobs') => ~Queued(j)' /\ j # pending'
             /\ \A w \in Workers : working'[w] = j =>
                  ~Queued(j)' /\ j # pending' /\ j \notin Range(jobs')
                  /\ \A v \in Workers \ {w} : working'[v] # j
        BY <2>1, <2>3, <2>4 DEF Settled, SettledOnce
    <3> QED
        BY <3>1, <3>2, <3>3, <2>3 DEF SettledOnce
  <2>7. Fresh'
      BY <2>1, <2>5 DEF Settled, Fresh, Future
  <2>8. OwnQueue'
      BY <2>1 DEF Settled, OwnQueue
  <2> QED
      BY <2>6, <2>7, <2>8 DEF Settled
<1>7. ASSUME NEW w \in Workers, Take(w) PROVE Settled'
  <2> DEFINE n == Head(jobs)
  <2>1. jobs # <<>> /\ jobs' = Tail(jobs) /\ working[w] = None
        /\ UNCHANGED <<run, sent, queue, pending>>
      BY <1>7 DEF Take
  <2>2. jobs \in Seq(Jobs) /\ NoRepeat(jobs)
      BY DEF TypeOK, Settled, SettledOnce
  <2>3. n \in Jobs /\ n \in Range(jobs) /\ n \notin Range(jobs') /\ NoRepeat(jobs')
        /\ Range(jobs') \subseteq Range(jobs)
      BY <2>1, <2>2, RangeTail
  <2>4. ~Queued(n) /\ n # pending /\ \A v \in Workers : working[v] # n
      BY <2>3 DEF Settled, SettledOnce
  <2>5. \A j \in Jobs : Queued(j)' <=> Queued(j)
      BY <2>1 DEF Queued
  <2>6. \/ result' = [result EXCEPT ![n] = "context"] /\ working' = working
        \/ result' = result /\ working' = [working EXCEPT ![w] = n]
    <3>1. Settle({n}, "context") => result' = [result EXCEPT ![n] = "context"]
        BY <2>3 DEF Settle, TypeOK
    <3> QED
        BY <1>7, <3>1 DEF Take
  <2>7. \A v \in Workers : working'[v] = working[v] \/ (v = w /\ working'[v] = n /\ result' = result)
      BY <2>6 DEF TypeOK
  <2>8. \A j \in Jobs : Unsettled(j)' => Unsettled(j) /\ (j = n => result' = result)
      BY <2>1, <2>3, <2>4, <2>5, <2>7 DEF Unsettled
  <2>9. \A j \in Jobs : j # n => result'[j] = result[j]
      BY <2>6 DEF TypeOK
  <2>10. SettledOnce'
    <3>1. \A j \in Jobs : Unsettled(j)' => result'[j] = "none"
        BY <2>8, <2>9 DEF Settled, SettledOnce
    <3>2. \A u \in Tasks : NoRepeat(queue'[u])
        BY <2>1 DEF Settled, SettledOnce
    <3>3. \A j \in Jobs :
             /\ Queued(j)' => j # pending'
             /\ j \in Range(jobs') => ~Queued(j)' /\ j # pending'
        BY <2>1, <2>3, <2>5 DEF Settled, SettledOnce
    <3>4. ASSUME NEW j \in Jobs, NEW v \in Workers, working'[v] = j
          PROVE  ~Queued(j)' /\ j # pending' /\ j \notin Range(jobs')
                 /\ \A x \in Workers \ {v} : working'[x] # j
      <4>1. CASE working[v] = j
        <5>1. j # n
            BY <4>1, <2>4
        <5>2. ~Queued(j) /\ j # pending /\ j \notin Range(jobs) /\ \A x \in Workers \ {v} : working[x] # j
            BY <4>1 DEF Settled, SettledOnce
        <5> QED
            BY <5>1, <5>2, <2>1, <2>3, <2>5, <2>7
      <4>2. CASE v = w /\ j = n
        <5>1. \A x \in Workers \ {v} : working'[x] # j
            BY <4>2, <2>4, <2>7
        <5> QED
            BY <4>2, <5>1, <2>1, <2>3, <2>4, <2>5
      <4> QED
          BY <3>4, <4>1, <4>2, <2>7
    <3> QED
        BY <3>1, <3>2, <3>3, <3>4, <2>3 DEF SettledOnce
  <2>11. Fresh'
    <3> SUFFICES ASSUME NEW j \in Jobs, Future(j)' PROVE ~Unsettled(j)' /\ result'[j] = "none"
        BY DEF Fresh
    <3>1. Future(j)
        BY <2>1 DEF Future
    <3>2. ~Unsettled(j) /\ result[j] = "none"
        BY <3>1 DEF Settled, Fresh
    <3>3. j # n
        BY <3>2, <2>3 DEF Unsettled
    <3> QED
        BY <3>2, <3>3, <2>8, <2>9
  <2>12. OwnQueue'
      BY <2>1 DEF Settled, OwnQueue
  <2> QED
      BY <2>10, <2>11, <2>12 DEF Settled
<1>8. ASSUME NEW w \in Workers, Finish(w) PROVE Settled'
  <2> DEFINE n == working[w]
  <2>1. n # None /\ working' = [working EXCEPT ![w] = None]
        /\ UNCHANGED <<run, sent, queue, pending, jobs>>
      BY <1>8 DEF Finish
  <2>2. n \in Jobs /\ ~Queued(n) /\ n # pending /\ n \notin Range(jobs)
        /\ \A v \in Workers \ {w} : working[v] # n
      BY <2>1 DEF TypeOK, Settled, SettledOnce
  <2>3. \A j \in Jobs : j # n => result'[j] = result[j]
      BY <1>8 DEF Finish, Settle
  <2>4. \A v \in Workers : working'[v] = IF v = w THEN None ELSE working[v]
      BY <2>1 DEF TypeOK
  <2>5. \A j \in Jobs : Queued(j)' <=> Queued(j)
      BY <2>1 DEF Queued
  <2>6. \A j \in Jobs : Unsettled(j)' => Unsettled(j) /\ j # n
      BY <2>1, <2>2, <2>4, <2>5 DEF Unsettled
  <2>7. SettledOnce'
    <3>1. \A j \in Jobs : Unsettled(j)' => result'[j] = "none"
        BY <2>6, <2>3 DEF Settled, SettledOnce
    <3>2. \A u \in Tasks : NoRepeat(queue'[u])
        BY <2>1 DEF Settled, SettledOnce
    <3>3. NoRepeat(jobs')
        BY <2>1 DEF Settled, SettledOnce
    <3>4. \A j \in Jobs :
             /\ Queued(j)' => j # pending'
             /\ j \in Range(jobs') => ~Queued(j)' /\ j # pending'
             /\ \A v \in Workers : working'[v] = j =>
                  ~Queued(j)' /\ j # pending' /\ j \notin Range(jobs')
                  /\ \A x \in Workers \ {v} : working'[x] # j
        BY <2>1, <2>4, <2>5 DEF Settled, SettledOnce
    <3> QED
        BY <3>1, <3>2, <3>3, <3>4 DEF SettledOnce
  <2>8. Fresh'
    <3> SUFFICES ASSUME NEW j \in Jobs, Future(j)' PROVE ~Unsettled(j)' /\ result'[j] = "none"
        BY DEF Fresh
    <3>1. Future(j)
        BY <2>1 DEF Future
    <3>2. ~Unsettled(j) /\ result[j] = "none"
        BY <3>1 DEF Settled, Fresh
    <3>3. j # n
        BY <3>2 DEF Unsettled
    <3> QED
        BY <3>2, <3>3, <2>3, <2>6
  <2>9. OwnQueue'
      BY <2>1 DEF Settled, OwnQueue
  <2> QED
      BY <2>7, <2>8, <2>9 DEF Settled
<1>9. CASE Stop \/ Closed
  <2>1. UNCHANGED <<queue, pending, jobs, working, result, run, sent>>
      BY <1>9 DEF Stop, Closed
  <2> QED
      BY <2>1, Elsewhere
<1>10. CASE Close
  <2> DEFINE J == ({pending} \ {None}) \cup UNION {Range(queue[t]) : t \in Range(order)}
  <2>1. /\ \A j \in Jobs : result'[j] = IF j \in J THEN "closed" ELSE result[j]
        /\ pending' = None /\ queue' = [t \in Tasks |-> <<>>]
        /\ UNCHANGED <<run, sent, jobs, working>>
      BY <1>10 DEF Close, Settle
  <2>2. \A u \in Tasks : Range(queue'[u]) \subseteq Range(queue[u]) /\ NoRepeat(queue'[u])
      BY <2>1, RangeEmpty
  <2>3. Range(order) \subseteq Tasks
      BY DEF Range, TypeOK
  <2>4. ASSUME NEW j \in Jobs, result'[j] # result[j] PROVE ~Unsettled(j)' /\ ~Future(j)'
    <3>1. j = pending \/ Queued(j)
        BY <2>1, <2>3, <2>4 DEF Queued
    <3>2. j \notin Range(jobs) /\ \A w \in Workers : working[w] # j
        BY <3>1 DEF Settled, SettledOnce
    <3>3. ~Unsettled(j)'
        BY <3>2, <2>1, RangeEmpty DEF Unsettled, Queued
    <3>4. Unsettled(j)
        BY <3>1 DEF Unsettled
    <3>5. ~Future(j)
        BY <3>4 DEF Settled, Fresh
    <3> QED
        BY <3>3, <3>5, <2>1 DEF Future
  <2>5. \A j \in Jobs : Future(j)' => Future(j)
      BY <2>1 DEF Future
  <2> QED
      BY <2>1, <2>2, <2>4, <2>5, Fewer
<1>11. CASE UNCHANGED vars
    BY <1>11, Elsewhere DEF vars
<1> QED
    BY <1>1, <1>2, <1>3, <1>4, <1>5, <1>6, <1>7, <1>8, <1>9, <1>10, <1>11 DEF Next

\* The initial states: nothing was submitted, and no job is anywhere.
LEMMA ExecutorInit == Init => TypeOK /\ Settled
<1> SUFFICES ASSUME Init PROVE TypeOK /\ Settled
    OBVIOUS
<1> USE ExecutorAssumption, NoneAssumption DEF Init
<1>1. TypeOK
    BY DEF TypeOK, Runs, Batches, Results
<1>2. \A j \in Jobs : ~Queued(j) /\ ~Unsettled(j)
    BY RangeEmpty DEF Queued, Unsettled
<1>3. SettledOnce
    BY <1>2, RangeEmpty DEF SettledOnce, Unsettled
<1>4. Fresh
    BY <1>2 DEF Fresh
<1>5. OwnQueue
    BY RangeEmpty DEF OwnQueue
<1> QED
    BY <1>1, <1>3, <1>4, <1>5 DEF Settled

\* The executor's invariant holds at all times.
LEMMA ExecutorInvariant == Spec => [](TypeOK /\ Settled)
<1>1. Init => TypeOK /\ Settled
    BY ExecutorInit
<1>2. (TypeOK /\ Settled) /\ [Next]_vars => (TypeOK /\ Settled)'
    BY TypeStep, SettleStep
<1> QED
    BY <1>1, <1>2, PTL DEF Spec

\* For any number of tasks, runs, batches and job workers: a job is in one place
\* between submitBatch and its done channel, and the channel is sent to at most
\* once, by the worker that ran the job or by the executor's Close.
THEOREM JobSettledOnce == Spec => []SettledOnce
<1>1. TypeOK /\ Settled => SettledOnce
    BY DEF Settled
<1> QED
    BY <1>1, ExecutorInvariant, PTL

\* Types, and with them: the cursor stays inside the rotation whichever tasks leave it
\* while popReadyJob scans, a coordinator that is not idle has a run, and everything
\* queued, pending or running is a job.
THEOREM ExecutorTypes == Spec => []TypeOK
<1>1. TypeOK /\ Settled => TypeOK
    OBVIOUS
<1> QED
    BY <1>1, ExecutorInvariant, PTL

------------------------------------------------------------------------------
(* A task waits for at most one job of every other task. *)

\* Steps from the cursor to index p of the order (from 1).
Dist(p) == IF p - 1 >= cursor THEN p - 1 - cursor ELSE p - 1 - cursor + Len(order)

\* The tasks are in the order once.
OrderOnce == NoRepeat(order)

\* The coordinator has a queue, or is about to learn that it has.
HasQueue(t) ==
    at[t] \in {"submitting", "collecting"} \/ (at[t] = "registering" /\ reply[t] = "queue")

\* A coordinator with a queue, and a task with jobs in its queue, is in the order.
Ordered ==
    /\ \A t \in Tasks : HasQueue(t) => t \in Range(order)
    /\ \A t \in Tasks : queue[t] # <<>> => t \in Range(order)

\* The jobs a waiting task has seen pass, and the way of the cursor to it, are
\* together less than a round.
Nearer ==
    \A p \in 1..Len(order) : waited[order[p]] + Dist(p) < Len(order)

\* A task without queued jobs waits for nothing.
Idle == \A t \in Tasks : queue[t] = <<>> => waited[t] = 0

WaitInv == OrderOnce /\ Ordered /\ Nearer /\ Idle

\* Indices wrap around once.
LEMMA Wrap ==
    ASSUME NEW n \in Nat, n > 0, NEW a \in Nat, a < 2 * n
    PROVE  a % n = IF a < n THEN a ELSE a - n
<1>1. CASE a < n
    BY <1>1
<1>2. CASE a >= n
    BY <1>2
<1> QED
    BY <1>1, <1>2

\* The indices that popReadyJob computes from the cursor.
LEMMA WrapAt ==
    ASSUME NEW n \in Nat, NEW c \in Nat, c < n, NEW k \in 0..(n - 1)
    PROVE  /\ (c + k) % n = IF c + k < n THEN c + k ELSE c + k - n
           /\ (c + k + 1) % n = IF c + k + 1 < n THEN c + k + 1 ELSE c + k + 1 - n
<1>1. PICK a \in Nat : a = c + k
    OBVIOUS
<1>2. PICK b \in Nat : b = c + k + 1
    OBVIOUS
<1>3. a % n = IF a < n THEN a ELSE a - n
    BY <1>1, Wrap
<1>4. b % n = IF b < n THEN b ELSE b - n
    BY <1>2, Wrap
<1> QED
    BY <1>1, <1>2, <1>3, <1>4

\* Taking a task out of an order leaves the others.
LEMMA WithoutOrder ==
    ASSUME TypeOK, OrderOnce, NEW t \in Tasks
    PROVE  NoRepeat(Without(t)) /\ \A u \in Range(order) : u # t => u \in Range(Without(t))
<1>1. CASE t \notin Range(order)
    BY <1>1, WithoutType DEF OrderOnce
<1>2. CASE t \in Range(order)
  <2> DEFINE i == CHOOSE i \in DOMAIN order : order[i] = t
             f == [k \in 1..(Len(order) - 1) |-> order[IF k < i THEN k ELSE k + 1]]
  <2>1. order \in Seq(Tasks) /\ Len(order) \in Nat \ {0} /\ DOMAIN order = 1..Len(order)
      BY <1>2 DEF TypeOK, Range
  <2>2. i \in 1..Len(order) /\ order[i] = t
      BY <1>2, <2>1 DEF Range
  <2>3. Without(t) = f /\ DOMAIN f = 1..(Len(order) - 1)
      BY <1>2 DEF Without
  <2> HIDE DEF i
  <2>4. NoRepeat(f)
    <3> SUFFICES ASSUME NEW j \in 1..(Len(order) - 1), NEW k \in 1..(Len(order) - 1), f[j] = f[k]
                 PROVE  j = k
        BY <2>3 DEF NoRepeat
    <3> DEFINE J == IF j < i THEN j ELSE j + 1
               K == IF k < i THEN k ELSE k + 1
    <3>1. J \in 1..Len(order) /\ K \in 1..Len(order) /\ order[J] = order[K]
        BY <2>1, <2>2
    <3>2. J = K
        BY <3>1, <2>1 DEF OrderOnce, NoRepeat
    <3> QED
        BY <3>2, <2>2
  <2>5. ASSUME NEW u \in Range(order), u # t PROVE u \in Range(f)
    <3>1. PICK k \in 1..Len(order) : order[k] = u
        BY <2>1 DEF Range
    <3>2. k # i
        BY <3>1, <2>2, <2>5
    <3>3. CASE k < i
      <4>1. k \in 1..(Len(order) - 1) /\ f[k] = u
          BY <3>1, <3>3, <2>1, <2>2
      <4> QED
          BY <4>1, <2>3 DEF Range
    <3>4. CASE k > i
      <4>1. k - 1 \in 1..(Len(order) - 1) /\ f[k - 1] = u
          BY <3>1, <3>4, <2>1, <2>2
      <4> QED
          BY <4>1, <2>3 DEF Range
    <3> QED
        BY <3>2, <3>3, <3>4, <2>2
  <2> QED
      BY <2>3, <2>4, <2>5
<1> QED
    BY <1>1, <1>2

\* A step that leaves the dispatcher alone.
LEMMA WaitElsewhere ==
    ASSUME TypeOK, WaitInv, UNCHANGED <<queue, order, cursor, waited>>,
           \A t \in Tasks : HasQueue(t)' => HasQueue(t)
    PROVE  WaitInv'
    BY DEF WaitInv, OrderOnce, Ordered, Nearer, Idle, Dist

\* Every step brings the cursor nearer to a task it lets wait.
LEMMA WaitStep == TypeOK /\ TypeOK' /\ WaitInv /\ [Next]_vars => WaitInv'
<1> SUFFICES ASSUME TypeOK, TypeOK', WaitInv, [Next]_vars PROVE WaitInv'
    OBVIOUS
<1> USE ExecutorAssumption, NoneAssumption DEF coordinator, dispatcher, Goto
<1>0. order \in Seq(Tasks) /\ Len(order) \in Nat /\ DOMAIN order = 1..Len(order)
      /\ cursor \in Nat /\ (cursor = 0 \/ cursor < Len(order))
      /\ (\A p \in 1..Len(order) : order[p] \in Tasks)
      /\ (\A u \in Tasks : waited[u] \in Nat)
  <2>1. order \in Seq(Tasks) /\ cursor \in Nat /\ (cursor = 0 \/ cursor < Len(order))
        /\ waited \in [Tasks -> Nat]
      BY DEF TypeOK
  <2> QED
      BY <2>1
<1>1. ASSUME NEW t \in Tasks, RegisterTask(t) PROVE WaitInv'
  <2>1. at' = [at EXCEPT ![t] = "registering"] /\ UNCHANGED <<cursor, waited>>
      BY <1>1 DEF RegisterTask
  <2>2. CASE t \in Range(order)
    <3>1. UNCHANGED <<queue, order>> /\ reply' = [reply EXCEPT ![t] = "refused"]
        BY <1>1, <2>2 DEF RegisterTask
    <3> QED
        BY <2>1, <3>1, WaitElsewhere DEF TypeOK, HasQueue
  <2>3. CASE t \notin Range(order)
    <3>1. order' = Append(order, t) /\ queue' = [queue EXCEPT ![t] = <<>>]
        BY <1>1, <2>3 DEF RegisterTask
    <3>2. /\ Len(order') = Len(order) + 1 /\ order'[Len(order) + 1] = t
          /\ \A p \in 1..Len(order) : order'[p] = order[p] /\ order[p] # t
        BY <2>3, <3>1, <1>0 DEF Range
    <3>3. OrderOnce' /\ Range(order') = Range(order) \cup {t}
        BY <2>3, <3>1, <1>0, RangeAppend DEF WaitInv, OrderOnce
    <3>4. queue[t] = <<>> /\ queue' = queue
        BY <2>3, <3>1 DEF WaitInv, Ordered, TypeOK
    <3>5. waited[t] = 0
        BY <3>4 DEF WaitInv, Idle
    <3>6. Ordered'
        BY <2>1, <3>3, <3>4, <1>1 DEF WaitInv, Ordered, TypeOK, RegisterTask, HasQueue
    <3>7. Idle'
        BY <2>1, <3>4 DEF WaitInv, Idle
    <3>8. Nearer'
      <4> SUFFICES ASSUME NEW p \in 1..(Len(order) + 1)
                   PROVE  waited[order'[p]] + Dist(p)' < Len(order) + 1
          BY <2>1, <3>2 DEF Nearer
      <4>1. CASE p \in 1..Len(order)
        <5>1. order'[p] = order[p] /\ waited[order[p]] + Dist(p) < Len(order) /\ waited[order[p]] \in Nat
            BY <4>1, <3>2, <1>0 DEF WaitInv, Nearer
        <5>2. Dist(p)' <= Dist(p) + 1 /\ Dist(p) \in Int /\ Dist(p)' \in Int
            BY <4>1, <2>1, <3>2, <1>0 DEF Dist
        <5> QED
            BY <5>1, <5>2, <1>0
      <4>2. CASE p = Len(order) + 1
        <5>1. Dist(p)' < Len(order) + 1 /\ Dist(p)' \in Int
            BY <4>2, <2>1, <3>2, <1>0 DEF Dist
        <5> QED
            BY <4>2, <3>2, <3>5, <5>1, <1>0
      <4> QED
          BY <4>1, <4>2, <1>0
    <3> QED
        BY <3>3, <3>6, <3>7, <3>8 DEF WaitInv
  <2> QED
      BY <2>2, <2>3
<1>2. ASSUME NEW t \in Tasks, Registered(t) PROVE WaitInv'
  <2>1. UNCHANGED <<queue, order, cursor, waited, reply>>
      BY <1>2 DEF Registered
  <2>2. at' = [at EXCEPT ![t] = IF reply[t] = "queue" THEN "submitting" ELSE "idle"] /\ at[t] = "registering"
      BY <1>2 DEF Registered
  <2> QED
      BY <2>1, <2>2, WaitElsewhere DEF TypeOK, HasQueue
<1>3. ASSUME NEW t \in Tasks,
             \/ RegisterAbandoned(t) \/ ContextEnds(t) \/ SourceEnds(t)
             \/ Collect(t) \/ Collected(t) \/ Restart(t) \/ CutShort(t) \/ GiveUp(t)
      PROVE WaitInv'
  <2>1. UNCHANGED <<queue, order, cursor, waited, reply>>
      BY <1>3 DEF RegisterAbandoned, ContextEnds, SourceEnds, Collect, Collected, Restart, CutShort, GiveUp
  <2>2. \/ at' = at
        \/ \E l \in {"idle", "closing"} : at' = [at EXCEPT ![t] = l]
        \/ at[t] \in {"submitting", "collecting"}
           /\ \E l \in {"submitting", "collecting"} : at' = [at EXCEPT ![t] = l]
      BY <1>3 DEF RegisterAbandoned, ContextEnds, SourceEnds, Collect, Collected, Restart, CutShort, GiveUp
  <2> QED
      BY <2>1, <2>2, WaitElsewhere DEF TypeOK, HasQueue
<1>4. ASSUME NEW t \in Tasks, Submit(t) PROVE WaitInv'
  <2>1. at[t] = "submitting" /\ UNCHANGED <<order, cursor, waited, reply, at>>
        /\ \A u \in Tasks : u # t => queue'[u] = queue[u]
      BY <1>4 DEF Submit, TypeOK
  <2>2. t \in Range(order)
      BY <2>1 DEF WaitInv, Ordered, HasQueue
  <2>3. queue'[t] # <<>>
    <3>1. queue'[t] = Append(queue[t], <<t, run[t], sent[t] + 1>>) /\ queue[t] \in Seq(Jobs)
        BY <1>4 DEF Submit, TypeOK
    <3>2. Len(queue'[t]) = Len(queue[t]) + 1 /\ Len(queue[t]) \in Nat
        BY <3>1
    <3> QED
        BY <3>2
  <2>4. Ordered'
      BY <2>1, <2>2 DEF WaitInv, Ordered, HasQueue
  <2>5. Idle'
      BY <2>1, <2>3 DEF WaitInv, Idle
  <2> QED
      BY <2>1, <2>4, <2>5 DEF WaitInv, OrderOnce, Nearer, Dist
<1>5. ASSUME NEW t \in Tasks, Unregister(t) PROVE WaitInv'
  <2>1. /\ order' = Without(t) /\ cursor' = NewCursor(order')
        /\ queue' = [queue EXCEPT ![t] = <<>>] /\ waited' = [u \in Tasks |-> 0]
        /\ at' = [at EXCEPT ![t] = "idle"] /\ UNCHANGED reply
      BY <1>5 DEF Unregister
  <2>2. OrderOnce' /\ \A u \in Range(order) : u # t => u \in Range(order')
      BY <2>1, WithoutOrder DEF WaitInv, OrderOnce
  <2>3. Ordered'
    <3>1. ~HasQueue(t)' /\ queue'[t] = <<>>
          /\ \A u \in Tasks : u # t => (HasQueue(u)' => HasQueue(u)) /\ queue'[u] = queue[u]
        BY <2>1 DEF TypeOK, HasQueue
    <3> QED
        BY <2>2, <3>1 DEF WaitInv, Ordered
  <2>4. Idle'
      BY <2>1 DEF Idle
  <2>5. Nearer'
    <3>1. order' \in Seq(Tasks) /\ Len(order') \in Nat /\ cursor' \in Nat
          /\ (cursor' = 0 \/ cursor' < Len(order'))
        BY DEF TypeOK
    <3>2. \A p \in 1..Len(order') : order'[p] \in Tasks /\ waited'[order'[p]] = 0
        BY <3>1, <2>1
    <3>3. \A p \in 1..Len(order') : Dist(p)' < Len(order') /\ Dist(p)' \in Int
        BY <3>1 DEF Dist
    <3> QED
        BY <3>1, <3>2, <3>3 DEF Nearer
  <2> QED
      BY <2>2, <2>3, <2>4, <2>5 DEF WaitInv
<1>6. CASE PopReadyJob
  <2>1. PICK i \in 0..(Len(order) - 1) :
          /\ queue[Turn(i)] # <<>>
          /\ \A k \in 0..(i - 1) : queue[Turn(k)] = <<>>
          /\ queue'   = [queue EXCEPT ![Turn(i)] = Tail(@)]
          /\ cursor'  = Advance(i)
          /\ waited'  = [t \in Tasks |-> IF t = Turn(i) \/ queue[t] = <<>> THEN 0 ELSE waited[t] + 1]
      BY <1>6 DEF PopReadyJob
  <2>2. Len(order) > 0 /\ cursor < Len(order) /\ UNCHANGED <<order, at, reply>>
      BY <2>1, <1>0, <1>6 DEF PopReadyJob
  <2>3. \A k \in 0..(Len(order) - 1) :
          Turn(k) = order[(IF cursor + k < Len(order) THEN cursor + k ELSE cursor + k - Len(order)) + 1]
    <3> SUFFICES ASSUME NEW k \in 0..(Len(order) - 1)
                 PROVE  (cursor + k) % Len(order)
                          = IF cursor + k < Len(order) THEN cursor + k ELSE cursor + k - Len(order)
        BY Zenon DEF Turn
    <3> QED
        BY <1>0, <2>2, WrapAt, Zenon
  <2>4. cursor' = IF cursor + i + 1 < Len(order) THEN cursor + i + 1 ELSE cursor + i + 1 - Len(order)
    <3>1. cursor' = (cursor + i + 1) % Len(order)
        BY <2>1, Zenon DEF Advance
    <3> QED
        BY <3>1, <1>0, <2>2, WrapAt, Zenon
  <2>5. Turn(i) \in Tasks
    <3>1. (IF cursor + i < Len(order) THEN cursor + i ELSE cursor + i - Len(order)) + 1 \in 1..Len(order)
        BY <1>0, <2>2
    <3> QED
        BY <3>1, <1>0, <2>3
  <2>6. \A u \in Tasks : u # Turn(i) => queue'[u] = queue[u]
      BY <2>1, <2>5 DEF TypeOK
  <2>7. Ordered'
      BY <2>1, <2>2, <2>5, <2>6 DEF WaitInv, Ordered, HasQueue
  <2>8. Idle'
      BY <2>1, <2>6 DEF Idle
  <2>9. Nearer'
    <3> SUFFICES ASSUME NEW p \in 1..Len(order) PROVE waited'[order[p]] + Dist(p)' < Len(order)
        BY <2>2 DEF Nearer
    <3>1. order[p] \in Tasks /\ waited[order[p]] \in Nat /\ waited[order[p]] + Dist(p) < Len(order)
        BY <1>0 DEF WaitInv, Nearer
    <3>2. Dist(p) \in 0..(Len(order) - 1) /\ Turn(Dist(p)) = order[p]
      <4>1. Dist(p) \in 0..(Len(order) - 1)
          BY <1>0, <2>2 DEF Dist
      <4>2. (IF cursor + Dist(p) < Len(order) THEN cursor + Dist(p) ELSE cursor + Dist(p) - Len(order)) + 1 = p
          BY <1>0, <2>2 DEF Dist
      <4> QED
          BY <4>1, <4>2, <2>3
    <3>3. Dist(p)' \in 0..(Len(order) - 1)
        BY <1>0, <2>2, <2>4 DEF Dist
    <3>4. CASE order[p] = Turn(i) \/ queue[order[p]] = <<>>
        BY <2>1, <3>1, <3>3, <3>4, <1>0
    <3>5. CASE order[p] # Turn(i) /\ queue[order[p]] # <<>>
      <4>1. Dist(p) > i
          BY <2>1, <3>2, <3>5, <1>0
      <4>2. Dist(p)' = Dist(p) - i - 1
        <5>1. Dist(p)' = IF p - 1 >= cursor' THEN p - 1 - cursor' ELSE p - 1 - cursor' + Len(order)
            BY <2>2 DEF Dist
        <5>2. Dist(p) = IF p - 1 >= cursor THEN p - 1 - cursor ELSE p - 1 - cursor + Len(order)
            BY DEF Dist
        <5>3. CASE cursor + i + 1 < Len(order)
            BY <5>1, <5>2, <5>3, <4>1, <1>0, <2>2, <2>4
        <5>4. CASE cursor + i + 1 >= Len(order)
          <6>1. cursor' = cursor + i + 1 - Len(order)
              BY <5>4, <1>0, <2>4
          <6>2. p - 1 < cursor /\ Dist(p) = p - 1 - cursor + Len(order)
              BY <5>2, <5>4, <4>1, <1>0, <2>2
          <6>3. p - 1 >= cursor'
              BY <6>1, <6>2, <4>1, <1>0, <2>2
          <6> QED
              BY <5>1, <6>1, <6>2, <6>3, <1>0
        <5> QED
            BY <5>3, <5>4, <1>0
      <4>3. waited'[order[p]] = waited[order[p]] + 1
          BY <2>1, <3>1, <3>5
      <4> QED
          BY <3>1, <3>2, <4>2, <4>3, <1>0
    <3> QED
        BY <3>4, <3>5
  <2> QED
      BY <2>2, <2>7, <2>8, <2>9 DEF WaitInv, OrderOnce
<1>7. CASE Close
  <2>1. queue' = [t \in Tasks |-> <<>>] /\ waited' = [t \in Tasks |-> 0]
        /\ UNCHANGED <<order, cursor, at, reply>>
      BY <1>7 DEF Close
  <2>2. \A p \in 1..Len(order) : Dist(p)' < Len(order) /\ Dist(p)' \in Int
      BY <1>0, <2>1 DEF Dist
  <2>3. Nearer'
      BY <2>1, <2>2, <1>0 DEF Nearer
  <2>4. Ordered' /\ Idle'
      BY <2>1 DEF WaitInv, Ordered, HasQueue, Idle
  <2> QED
      BY <2>1, <2>3, <2>4 DEF WaitInv, OrderOnce
<1>9. CASE Dispatch \/ Stop \/ Closed \/ (\E w \in Workers : Take(w) \/ Finish(w)) \/ UNCHANGED vars
  <2>1. UNCHANGED <<queue, order, cursor, waited, reply, at>>
      BY <1>9 DEF Dispatch, Stop, Closed, Take, Finish, vars
  <2> QED
      BY <2>1, WaitElsewhere DEF HasQueue
<1> QED
    BY <1>1, <1>2, <1>3, <1>4, <1>5, <1>6, <1>7, <1>9 DEF Next

\* For any number of tasks and any queue size, and however tasks register and
\* submit: between two departures popReadyJob passes a task with a queued job over
\* less often than there are registered tasks.
THEOREM DispatchIsFair == Spec => []BoundedWait
<1>1. Init => WaitInv
  <2> SUFFICES ASSUME Init PROVE WaitInv
      OBVIOUS
  <2>1. order = <<>> /\ Len(order) = 0
      BY DEF Init
  <2> QED
      BY <2>1, RangeEmpty DEF Init, WaitInv, OrderOnce, Ordered, Nearer, Idle, HasQueue
<1>2. Init => TypeOK
    BY ExecutorInit
<1>3. (TypeOK /\ WaitInv) /\ [Next]_vars => (TypeOK /\ WaitInv)'
    BY TypeStep, WaitStep
<1>4. TypeOK /\ WaitInv => BoundedWait
  <2> SUFFICES ASSUME TypeOK, WaitInv, NEW t \in Tasks, queue[t] # <<>> PROVE waited[t] < Len(order)
      BY DEF BoundedWait
  <2>1. PICK p \in 1..Len(order) : order[p] = t
    <3>1. t \in Range(order) /\ DOMAIN order = 1..Len(order)
        BY DEF WaitInv, Ordered, TypeOK
    <3> QED
        BY <3>1 DEF Range
  <2>2. waited[t] + Dist(p) < Len(order) /\ waited[t] \in Nat /\ Len(order) \in Nat
        /\ cursor \in Nat /\ (cursor = 0 \/ cursor < Len(order))
      BY <2>1 DEF WaitInv, Nearer, TypeOK
  <2>3. Dist(p) \in Nat
      BY <2>2 DEF Dist
  <2> QED
      BY <2>2, <2>3
<1> QED
    BY <1>1, <1>2, <1>3, <1>4, PTL DEF Spec
==============================================================================
