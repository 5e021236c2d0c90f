----------------------------- MODULE MemoryProofs -----------------------------
(***************************************************************************)
(* The durable memory tasks for any number of tasks and workers and any    *)
(* attempt limit: one extraction per task reaches the store and a stored   *)
(* task has all of it, a run whose lease has not lapsed owns its row, and  *)
(* only a fault buys an attempt beyond the limit.                          *)
(*                                                                         *)
(* Two facts carry the proofs.  A row's extraction is written once, when   *)
(* the row leaves "pending", so a run that carries one carries that one.   *)
(* And a row is left for another attempt by a run that counted it as not   *)
(* the last, or by a fault.                                                *)
(***************************************************************************)
EXTENDS MemoryTask, TLAPS

RowStates == {"absent", "pending", "extracted", "stored", "completed", "failed"}

Pcs == {"idle", "prepare", "extract", "report", "store", "mark", "complete",
        "error", "permanent"}

Rows == [state : RowStates, extraction : SUBSET Nat, attempts : Nat,
         owner : Workers \cup {NoOwner}, lease : {"none", "live", "expired"},
         retry : {"none", "later", "due"}]

Runners == [pc : Pcs, task : Tasks \cup {NoOwner}, attempt : Nat,
            extraction : SUBSET Nat]

\* Every variable the invariants read has its type.
Typed ==
    /\ api \in [Tasks -> {"new", "save", "publish", "unclaimed", "done"}]
    /\ row \in [Tasks -> Rows]
    /\ store \in [Tasks -> SUBSET Nat]
    /\ worker \in [Workers -> Runners]
    /\ faults \in Nat
    /\ \A w \in Workers : worker[w].pc # "idle" => worker[w].task \in Tasks

\* A request that has not inserted its row has none, nothing stored, and no run.
NotYet ==
    \A t \in Tasks : (api[t] = "new" \/ row[t].state = "absent") =>
        /\ api[t] = "new" /\ row[t].state = "absent"
        /\ row[t].lease = "none" /\ row[t].attempts = 0
        /\ \A w \in Workers : ~Runs(w, t)

\* The extraction is written when the row leaves "pending", and a run that is past
\* its extraction carries the row's.
OneAnswer ==
    /\ \A t \in Tasks : row[t].state \in {"absent", "pending"} => row[t].extraction = {}
    /\ \A w \in Workers : worker[w].pc \in {"report", "store", "mark"} =>
         /\ row[worker[w].task].state \notin {"absent", "pending"}
         /\ worker[w].extraction = row[worker[w].task].extraction

\* A run about to mark its row has stored what the row checkpoints.
MarkedIsStored ==
    \A w \in Workers : worker[w].pc = "mark" =>
        worker[w].extraction \subseteq store[worker[w].task]

\* The run of worker w at task t is the one the row names as its owner.
Owning(w, t) == Runs(w, t) /\ row[t].owner = w

\* Where the attempts of a row can stand: a row at rest has attempts left, one left
\* behind by its run has a fault to its account, and the owner counts with the row.
Counted ==
    /\ \A t \in Tasks : row[t].state \notin Active => row[t].lease = "none"
    /\ \A t \in Tasks : row[t].state \in Active /\ row[t].lease = "none" =>
         row[t].attempts < MaxAttempts
    /\ \A t \in Tasks :
         \/ row[t].lease = "expired"
         \/ row[t].lease = "live" /\ \A w \in Workers : ~Owning(w, t)
         => row[t].attempts < MaxAttempts + faults
    /\ \A w \in Workers, t \in Tasks :
         Owning(w, t) /\ row[t].lease = "live" => worker[w].attempt = row[t].attempts

\* The inductive invariant.
MemoryInv ==
    /\ NotYet /\ OneAnswer /\ MarkedIsStored /\ Counted
    /\ OneExtraction /\ StoredIsStored /\ LeaseProtects /\ AttemptLimit

-------------------------------------------------------------------------------
(* Types. *)

\* What Complete and persistMemoryTaskFailure leave of a row is a row.
LEMMA ReleasedTyped ==
    ASSUME NEW r \in Rows, NEW s \in RowStates
    PROVE  Released(r, s) \in Rows /\ [Released(r, s) EXCEPT !.retry = "later"] \in Rows
<1>1. Released(r, s) \in Rows
  BY DEF Rows, Released
<1>2. ASSUME NEW x \in Rows PROVE [x EXCEPT !.retry = "later"] \in Rows
  BY DEF Rows
<1> QED
  BY <1>1, <1>2

\* Every step keeps every variable in its type.
LEMMA TypedStep == Typed /\ [Next]_vars => Typed'
<1> SUFFICES ASSUME Typed, [Next]_vars PROVE Typed'
  OBVIOUS
<1>1. ASSUME NEW t \in Tasks, Insert(t) PROVE Typed'
  BY <1>1 DEF Insert, NewRow, Typed, Rows, RowStates, Runners, Pcs, Active, ResumeAt, Idle, NoOwner
<1>2. ASSUME NEW t \in Tasks, SaveRaw(t) PROVE Typed'
  BY <1>2 DEF SaveRaw, Typed, Rows, RowStates, Runners, Pcs, Active, ResumeAt, Idle, NoOwner
<1>3. ASSUME NEW t \in Tasks, MarkUnclaimedFailed(t) PROVE Typed'
  <2>1. CASE row[t].state = "pending" /\ row[t].lease = "none"
    <3>1. row' = [row EXCEPT ![t].state = "failed", ![t].retry = "none"]
      BY <1>3, <2>1 DEF MarkUnclaimedFailed
    <3> DEFINE r == [row[t] EXCEPT !.state = "failed", !.retry = "none"]
    <3>0. row[t] \in Rows
      BY DEF Typed
    <3>2. r \in Rows
      BY <3>0 DEF Rows, RowStates
    <3>3. row' = [row EXCEPT ![t] = r]
      BY <3>1
    <3>4. row' \in [Tasks -> Rows]
      BY <3>2, <3>3 DEF Typed
    <3> QED
      BY <1>3, <3>4 DEF MarkUnclaimedFailed, Typed
  <2>2. CASE ~(row[t].state = "pending" /\ row[t].lease = "none")
    BY <1>3, <2>2 DEF MarkUnclaimedFailed, Typed
  <2> QED
    BY <2>1, <2>2
<1>4. ASSUME NEW t \in Tasks, Publish(t) PROVE Typed'
  BY <1>4 DEF Publish, Typed, Rows, RowStates, Runners, Pcs, Active, ResumeAt, Idle, NoOwner
<1>5. ASSUME NEW t \in Tasks, Abort(t) PROVE Typed'
  BY <1>5 DEF Abort, Typed, Rows, RowStates, Runners, Pcs, Active, ResumeAt, Idle, NoOwner
<1>6. ASSUME NEW t \in Tasks, Reconcile(t) PROVE Typed'
  BY <1>6 DEF Reconcile, Due, Typed, Rows, RowStates, Runners, Pcs, Active, ResumeAt, Idle, NoOwner
<1>7. ASSUME NEW t \in Tasks, RetryDue(t) PROVE Typed'
  BY <1>7 DEF RetryDue, Typed, Rows, RowStates, Runners, Pcs, Active, ResumeAt, Idle, NoOwner
<1>8. ASSUME NEW t \in Tasks, Lapse(t) PROVE Typed'
  BY <1>8 DEF Lapse, Runs, Typed, Rows, RowStates, Runners, Pcs, Active, ResumeAt, Idle, NoOwner
<1>9. ASSUME NEW t \in Tasks, LoseWakeup(t) PROVE Typed'
  BY <1>9 DEF LoseWakeup, Typed, Rows, RowStates, Runners, Pcs, Active, ResumeAt, Idle, NoOwner
<1>10. ASSUME NEW w \in Workers, Prepare(w) PROVE Typed'
  BY <1>10 DEF Prepare, Goes, Shows, Typed, Rows, RowStates, Runners, Pcs, Active, ResumeAt, Idle, NoOwner
<1>11. ASSUME NEW w \in Workers, Extract(w) PROVE Typed'
  <2> DEFINE t == worker[w].task
  <2>0. t \in Tasks /\ worker[w] \in Runners
    BY <1>11 DEF Extract, Typed
  <2>1. PICK found \in {{}, {worker[w].attempt}} :
          \/ /\ row' = [row EXCEPT ![t].state = "extracted", ![t].extraction = found]
             /\ worker' = [worker EXCEPT ![w].pc = "report", ![w].extraction = found]
          \/ worker' = [worker EXCEPT ![w].pc = "error"] /\ row' = row
    BY <1>11 DEF Extract, Goes
  <2>2. found \in SUBSET Nat
    BY <2>0 DEF Runners
  <2> DEFINE r == [row[t] EXCEPT !.state = "extracted", !.extraction = found]
  <2>3. row' \in [Tasks -> Rows]
    <3>0. row[t] \in Rows
      BY <2>0 DEF Typed
    <3>1. r \in Rows
      BY <2>2, <3>0 DEF Rows, RowStates
    <3>2. row' = row \/ row' = [row EXCEPT ![t] = r]
      BY <2>1
    <3> QED
      BY <2>0, <3>1, <3>2 DEF Typed
  <2>4. worker' \in [Workers -> Runners]
    BY <2>1, <2>2 DEF Typed, Runners, Pcs
  <2>5. \A v \in Workers : worker'[v].pc # "idle" => worker'[v].task \in Tasks
    BY <2>0, <2>1 DEF Typed, Runners
  <2> QED
    BY <1>11, <2>3, <2>4, <2>5 DEF Extract, Typed
<1>12. ASSUME NEW w \in Workers, Report(w) PROVE Typed'
  BY <1>12 DEF Report, Goes, Shows, Typed, Rows, RowStates, Runners, Pcs, Active, ResumeAt, Idle, NoOwner
<1>13. ASSUME NEW w \in Workers, Store(w) PROVE Typed'
  BY <1>13 DEF Store, Goes, Typed, Rows, RowStates, Runners, Pcs, Active, ResumeAt, Idle, NoOwner
<1>14. ASSUME NEW w \in Workers, MarkStored(w) PROVE Typed'
  <2> DEFINE t == worker[w].task
  <2>0. t \in Tasks /\ worker[w] \in Runners
    BY <1>14 DEF MarkStored, Typed
  <2>1. \/ row' = [row EXCEPT ![t].state = "stored"] /\ worker' = [worker EXCEPT ![w].pc = "complete"]
        \/ row' = row /\ worker' = [worker EXCEPT ![w].pc = "error"]
    BY <1>14 DEF MarkStored, Goes
  <2>2. row' \in [Tasks -> Rows]
    BY <2>0, <2>1 DEF Typed, Rows, RowStates
  <2>3. worker' \in [Workers -> Runners]
    BY <2>1 DEF Typed, Runners, Pcs
  <2>4. \A v \in Workers : worker'[v].pc # "idle" => worker'[v].task \in Tasks
    BY <2>0, <2>1 DEF Typed, Runners
  <2> QED
    BY <1>14, <2>2, <2>3, <2>4 DEF MarkStored, Typed
<1>15. ASSUME NEW w \in Workers, Complete(w) PROVE Typed'
  <2> DEFINE t == worker[w].task
  <2>0. t \in Tasks /\ row[t] \in Rows
    BY <1>15 DEF Complete, Typed
  <2>1. \/ row' = [row EXCEPT ![t] = Released(row[t], "completed")]
        \/ row' = row
    BY <1>15 DEF Complete
  <2>2. worker' = [worker EXCEPT ![w] = Idle] \/ worker' = [worker EXCEPT ![w].pc = "error"]
    BY <1>15 DEF Complete, Ends, Goes
  <2>3. row' \in [Tasks -> Rows]
    <3>1. row[t].state \in RowStates /\ "completed" \in RowStates
      BY <2>0 DEF Rows, RowStates
    <3>2. Released(row[t], "completed") \in Rows
      BY <2>0, <3>1, ReleasedTyped
    <3> QED
      BY <2>0, <2>1, <3>2 DEF Typed
  <2>4. worker' \in [Workers -> Runners]
    BY <2>2 DEF Typed, Runners, Pcs, Idle
  <2>5. \A v \in Workers : worker'[v].pc # "idle" => worker'[v].task \in Tasks
    BY <2>0, <2>2 DEF Typed, Runners, Idle
  <2> QED
    BY <1>15, <2>3, <2>4, <2>5 DEF Complete, Typed
<1>16. ASSUME NEW w \in Workers, PersistFailure(w) PROVE Typed'
  <2> DEFINE t == worker[w].task
  <2>0. t \in Tasks /\ row[t] \in Rows
    BY <1>16 DEF PersistFailure, Typed
  <2>1. \/ row' = row
        \/ row' = [row EXCEPT ![t] = Released(row[t], "failed")]
        \/ row' = [row EXCEPT ![t] = [Released(row[t], row[t].state) EXCEPT !.retry = "later"]]
    BY <1>16 DEF PersistFailure
  <2>2. worker' = [worker EXCEPT ![w] = Idle] \/ worker' = [worker EXCEPT ![w].pc = "error"]
    BY <1>16 DEF PersistFailure, Ends
  <2>3. row' \in [Tasks -> Rows]
    <3>1. row[t].state \in RowStates /\ "failed" \in RowStates
      BY <2>0 DEF Rows, RowStates
    <3>2. Released(row[t], "failed") \in Rows
      BY <2>0, <3>1, ReleasedTyped
    <3>3. [Released(row[t], row[t].state) EXCEPT !.retry = "later"] \in Rows
      BY <2>0, <3>1, ReleasedTyped
    <3> QED
      BY <2>0, <2>1, <3>2, <3>3 DEF Typed
  <2>4. worker' \in [Workers -> Runners]
    BY <2>2 DEF Typed, Runners, Pcs, Idle
  <2>5. \A v \in Workers : worker'[v].pc # "idle" => worker'[v].task \in Tasks
    BY <2>0, <2>2 DEF Typed, Runners, Idle
  <2> QED
    BY <1>16, <2>3, <2>4, <2>5 DEF PersistFailure, Typed
<1>17. ASSUME NEW w \in Workers, Err(w) PROVE Typed'
  <2>0. worker[w].task \in Tasks /\ worker[w] \in Runners
    BY <1>17 DEF Err, Typed
  <2>1. PICK pc \in {"error", "permanent"} : worker' = [worker EXCEPT ![w].pc = pc]
    BY <1>17 DEF Err, Goes
  <2>2. store' \in [Tasks -> SUBSET Nat]
    BY <1>17, <2>0 DEF Err, Typed, Runners
  <2>3. worker' \in [Workers -> Runners]
    BY <2>1 DEF Typed, Runners, Pcs
  <2>4. \A v \in Workers : worker'[v].pc # "idle" => worker'[v].task \in Tasks
    BY <2>0, <2>1 DEF Typed, Runners
  <2> QED
    BY <1>17, <2>2, <2>3, <2>4 DEF Err, Typed
<1>18. ASSUME NEW w \in Workers, Crash(w) PROVE Typed'
  BY <1>18 DEF Crash, Ends, Typed, Rows, RowStates, Runners, Pcs, Active, ResumeAt, Idle, NoOwner
<1>19. ASSUME NEW w \in Workers, NEW t \in Tasks, Claim(w, t) PROVE Typed'
  BY <1>19 DEF Claim, Due, Typed, Rows, RowStates, Runners, Pcs, Active, ResumeAt, Idle, NoOwner
<1>20. CASE UNCHANGED vars
  BY <1>20 DEF vars, Typed, Rows, RowStates, Runners, Pcs, Active, ResumeAt, Idle, NoOwner
<1> QED
  BY <1>1, <1>2, <1>3, <1>4, <1>5, <1>6, <1>7, <1>8, <1>9, <1>10, <1>11, <1>12, <1>13, <1>14, <1>15, <1>16, <1>17, <1>18, <1>19, <1>20 DEF Next, Request, Run

-------------------------------------------------------------------------------
(* What the steps that end a stage do to rows and runs, field by field. *)

\* A step of worker w changes no other run, and not the task or attempt of its own.
SameRuns(w) ==
    /\ \A v \in Workers : v # w => worker'[v] = worker[v]
    /\ worker'[w].task = worker[w].task /\ worker'[w].attempt = worker[w].attempt

\* A step changes no row but that of t, and of that neither claim nor attempts.
SameClaims(t) ==
    /\ \A u \in Tasks : u # t => row'[u] = row[u]
    /\ row'[t].owner = row[t].owner /\ row'[t].lease = row[t].lease
    /\ row'[t].attempts = row[t].attempts

\* A step gives up the claim of the row of t, and counts no attempt.
GivesUp(t) ==
    /\ \A u \in Tasks : u # t => row'[u] = row[u]
    /\ row'[t].lease = "none"
    /\ row'[t].attempts = row[t].attempts /\ row'[t].extraction = row[t].extraction

\* The request's rollback touches a row that nobody has claimed.
LEMMA RollbackEffect ==
    ASSUME Typed, NEW t \in Tasks, MarkUnclaimedFailed(t)
    PROVE  /\ UNCHANGED <<store, worker, lapsed, faults>>
           /\ api[t] = "unclaimed" /\ api' = [api EXCEPT ![t] = "done"]
           /\ SameClaims(t) /\ row'[t].extraction = row[t].extraction
           /\ \/ row' = row
              \/ row[t].state = "pending" /\ row[t].lease = "none" /\ row'[t].state = "failed"
<1>0. row[t] \in Rows
  BY DEF Typed
<1>1. CASE row[t].state = "pending" /\ row[t].lease = "none"
  <2>1. row' = [row EXCEPT ![t] = [row[t] EXCEPT !.state = "failed", !.retry = "none"]]
    BY <1>1 DEF MarkUnclaimedFailed
  <2>2. row'[t] = [row[t] EXCEPT !.state = "failed", !.retry = "none"]
    BY <2>1 DEF Typed
  <2>3. \A u \in Tasks : u # t => row'[u] = row[u]
    BY <2>1 DEF Typed
  <2> QED
    BY <1>0, <1>1, <2>2, <2>3 DEF MarkUnclaimedFailed, SameClaims, Rows
<1>2. CASE ~(row[t].state = "pending" /\ row[t].lease = "none")
  BY <1>2 DEF MarkUnclaimedFailed, SameClaims
<1> QED
  BY <1>1, <1>2

\* PersistExtraction succeeds for the owner of a pending row, or the run ends.
LEMMA ExtractEffect ==
    ASSUME Typed, NEW w \in Workers, Extract(w), NEW t, t = worker[w].task
    PROVE  /\ UNCHANGED <<api, store, lapsed, faults>>
           /\ t \in Tasks /\ worker[w].pc = "extract"
           /\ SameRuns(w) /\ SameClaims(t)
           /\ \/ row' = row /\ worker'[w].pc = "error"
              \/ /\ Holds(w) /\ row[t].state = "pending" /\ row'[t].state = "extracted"
                 /\ worker'[w].pc = "report" /\ worker'[w].extraction = row'[t].extraction
<1>0. t \in Tasks /\ row[t] \in Rows /\ worker[w] \in Runners
  BY DEF Typed, Extract
<1>1. PICK found \in {{}, {worker[w].attempt}} :
         IF Persists(w)
         THEN /\ row' = [row EXCEPT ![t].state = "extracted", ![t].extraction = found]
              /\ worker' = [worker EXCEPT ![w].pc = "report", ![w].extraction = found]
         ELSE worker' = [worker EXCEPT ![w].pc = "error"] /\ row' = row
  BY DEF Extract, Goes
<1>2. CASE Persists(w)
  <2>1. row' = [row EXCEPT ![t] = [row[t] EXCEPT !.state = "extracted", !.extraction = found]]
    BY <1>1, <1>2
  <2>2. worker' = [worker EXCEPT ![w] = [worker[w] EXCEPT !.pc = "report", !.extraction = found]]
    BY <1>1, <1>2
  <2>3. row'[t] = [row[t] EXCEPT !.state = "extracted", !.extraction = found]
    BY <1>0, <2>1 DEF Typed
  <2>4. worker'[w] = [worker[w] EXCEPT !.pc = "report", !.extraction = found]
    BY <2>2 DEF Typed
  <2>5. SameClaims(t) /\ row'[t].state = "extracted" /\ row'[t].extraction = found
    BY <1>0, <2>1, <2>3 DEF SameClaims, Rows, Typed
  <2>6. SameRuns(w) /\ worker'[w].pc = "report" /\ worker'[w].extraction = found
    BY <1>0, <2>2, <2>4 DEF SameRuns, Runners, Typed
  <2> QED
    BY <1>0, <1>2, <2>5, <2>6 DEF Extract, Persists
<1>3. CASE ~Persists(w)
  <2>1. row' = row /\ worker' = [worker EXCEPT ![w].pc = "error"]
    BY <1>1, <1>3
  <2>2. SameRuns(w) /\ worker'[w].pc = "error"
    BY <1>0, <2>1 DEF SameRuns, Runners, Typed
  <2> QED
    BY <1>0, <2>1, <2>2 DEF Extract, SameClaims
<1> QED
  BY <1>2, <1>3

\* MarkStored succeeds for the owner of an extracted row, or the run ends.
LEMMA MarkStoredEffect ==
    ASSUME Typed, NEW w \in Workers, MarkStored(w), NEW t, t = worker[w].task
    PROVE  /\ UNCHANGED <<api, store, lapsed, faults>>
           /\ t \in Tasks /\ worker[w].pc = "mark"
           /\ SameRuns(w) /\ SameClaims(t) /\ row'[t].extraction = row[t].extraction
           /\ \/ row' = row /\ worker'[w].pc = "error"
              \/ /\ Holds(w) /\ row[t].state = "extracted" /\ row'[t].state = "stored"
                 /\ worker'[w].pc = "complete"
<1>0. t \in Tasks /\ row[t] \in Rows /\ worker[w] \in Runners
  BY DEF Typed, MarkStored
<1>1. CASE Holds(w) /\ row[t].state = "extracted"
  <2>1. row' = [row EXCEPT ![t].state = "stored"] /\ worker' = [worker EXCEPT ![w].pc = "complete"]
    BY <1>1 DEF MarkStored, Goes
  <2>2. row'[t] = [row[t] EXCEPT !.state = "stored"]
    BY <1>0, <2>1 DEF Typed
  <2>3. SameClaims(t) /\ row'[t].state = "stored" /\ row'[t].extraction = row[t].extraction
    BY <1>0, <2>1, <2>2 DEF SameClaims, Rows, Typed
  <2>4. SameRuns(w) /\ worker'[w].pc = "complete"
    BY <1>0, <2>1 DEF SameRuns, Runners, Typed
  <2> QED
    BY <1>0, <1>1, <2>3, <2>4 DEF MarkStored
<1>2. CASE ~(Holds(w) /\ row[t].state = "extracted")
  <2>1. row' = row /\ worker' = [worker EXCEPT ![w].pc = "error"]
    BY <1>2 DEF MarkStored, Goes
  <2>2. SameRuns(w) /\ worker'[w].pc = "error"
    BY <1>0, <2>1 DEF SameRuns, Runners, Typed
  <2> QED
    BY <1>0, <2>1, <2>2 DEF MarkStored, SameClaims
<1> QED
  BY <1>1, <1>2

\* Complete succeeds for the owner of a stored row and ends its run.
LEMMA CompleteEffect ==
    ASSUME Typed, NEW w \in Workers, Complete(w), NEW t, t = worker[w].task
    PROVE  /\ UNCHANGED <<api, store, faults>>
           /\ t \in Tasks /\ worker[w].pc = "complete"
           /\ \A v \in Workers : v # w => worker'[v] = worker[v]
           /\ \/ row' = row /\ worker'[w].pc = "error" /\ SameRuns(w) /\ lapsed' = lapsed
              \/ /\ Holds(w) /\ row[t].state = "stored" /\ row'[t].state = "completed"
                 /\ GivesUp(t) /\ worker'[w] = Idle /\ lapsed' = lapsed \ {w}
<1>0. t \in Tasks /\ row[t] \in Rows /\ worker[w] \in Runners
  BY DEF Typed, Complete
<1>1. CASE Holds(w) /\ row[t].state = "stored"
  <2>1. row' = [row EXCEPT ![t] = Released(row[t], "completed")]
    BY <1>1 DEF Complete
  <2>2. row'[t] = Released(row[t], "completed")
    BY <1>0, <2>1 DEF Typed
  <2>3. GivesUp(t) /\ row'[t].state = "completed"
    BY <1>0, <2>1, <2>2 DEF GivesUp, Released, Rows, Typed
  <2>4. worker' = [worker EXCEPT ![w] = Idle] /\ lapsed' = lapsed \ {w}
    BY <1>1 DEF Complete, Ends
  <2> QED
    BY <1>0, <1>1, <2>3, <2>4 DEF Complete, Typed
<1>2. CASE ~(Holds(w) /\ row[t].state = "stored")
  <2>1. row' = row /\ lapsed' = lapsed /\ worker' = [worker EXCEPT ![w].pc = "error"]
    BY <1>2 DEF Complete, Goes
  <2>2. SameRuns(w) /\ worker'[w].pc = "error"
    BY <1>0, <2>1 DEF SameRuns, Runners, Typed
  <2> QED
    BY <1>0, <2>1, <2>2 DEF Complete, SameRuns
<1> QED
  BY <1>1, <1>2

\* persistMemoryTaskFailure takes its decision as the owner of an active row, and
\* ends its run in any case.
LEMMA PersistFailureEffect ==
    ASSUME Typed, NEW w \in Workers, PersistFailure(w), NEW t, t = worker[w].task
    PROVE  /\ UNCHANGED <<api, store, faults>>
           /\ t \in Tasks /\ worker[w].pc \in {"error", "permanent"}
           /\ worker' = [worker EXCEPT ![w] = Idle] /\ lapsed' = lapsed \ {w}
           /\ \/ row' = row /\ ~(Holds(w) /\ row[t].state \in Active)
              \/ /\ Holds(w) /\ row[t].state \in Active /\ GivesUp(t)
                 /\ \/ row'[t].state = "failed"
                    \/ row'[t].state = row[t].state /\ ~Last(w)
<1>0. t \in Tasks /\ row[t] \in Rows
  BY DEF Typed, PersistFailure
<1>1. CASE Holds(w) /\ row[t].state \in Active /\ Last(w)
  <2>1. row' = [row EXCEPT ![t] = Released(row[t], "failed")]
    BY <1>1 DEF PersistFailure
  <2>2. row'[t] = Released(row[t], "failed")
    BY <1>0, <2>1 DEF Typed
  <2>3. GivesUp(t) /\ row'[t].state = "failed"
    BY <1>0, <2>1, <2>2 DEF GivesUp, Released, Rows, Typed
  <2> QED
    BY <1>0, <1>1, <2>3 DEF PersistFailure, Ends
<1>2. CASE Holds(w) /\ row[t].state \in Active /\ ~Last(w)
  <2> DEFINE r == Released(row[t], row[t].state)
  <2>1. row' = [row EXCEPT ![t] = [r EXCEPT !.retry = "later"]]
    BY <1>2 DEF PersistFailure
  <2>2. row'[t] = [r EXCEPT !.retry = "later"]
    BY <1>0, <2>1 DEF Typed
  <2>3. r \in Rows
    BY <1>0, ReleasedTyped DEF Rows
  <2>4. r.lease = "none" /\ r.state = row[t].state /\ r.attempts = row[t].attempts
        /\ r.extraction = row[t].extraction
    BY <1>0 DEF Rows, Released
  <2>5. GivesUp(t) /\ row'[t].state = row[t].state
    <3> HIDE DEF r
    <3> QED
      BY <2>1, <2>2, <2>3, <2>4 DEF GivesUp, Rows, Typed
  <2> QED
    BY <1>0, <1>2, <2>5 DEF PersistFailure, Ends
<1>3. CASE ~(Holds(w) /\ row[t].state \in Active)
  BY <1>0, <1>3 DEF PersistFailure, Ends
<1> QED
  BY <1>1, <1>2, <1>3

\* A failed stage leaves the rows alone; an insert may have taken effect.
LEMMA ErrEffect ==
    ASSUME Typed, NEW w \in Workers, Err(w), NEW t, t = worker[w].task
    PROVE  /\ UNCHANGED <<api, row, lapsed, faults>>
           /\ t \in Tasks /\ worker[w].pc # "idle"
           /\ SameRuns(w) /\ worker'[w].pc \in {"error", "permanent"}
           /\ \/ store' = store
              \/ /\ worker[w].pc = "store"
                 /\ store' = [store EXCEPT ![t] = @ \union worker[w].extraction]
<1>0. t \in Tasks /\ worker[w] \in Runners
  BY DEF Typed, Err
<1>1. PICK pc \in {"error", "permanent"} : worker' = [worker EXCEPT ![w].pc = pc]
  BY DEF Err, Goes
<1>2. SameRuns(w) /\ worker'[w].pc \in {"error", "permanent"}
  BY <1>0, <1>1 DEF SameRuns, Runners, Typed
<1>3. \/ store' = store
      \/ worker[w].pc = "store" /\ store' = [store EXCEPT ![t] = @ \union worker[w].extraction]
  BY DEF Err
<1> QED
  BY <1>0, <1>2, <1>3 DEF Err

-------------------------------------------------------------------------------
(* What is stored. *)

\* Before its request inserts a row, nothing happens to a task.
LEMMA NotYetStep == Typed /\ NotYet /\ [Next]_vars => NotYet'
<1> SUFFICES ASSUME Typed, NotYet, [Next]_vars PROVE NotYet'
  OBVIOUS
<1>1. ASSUME NEW t \in Tasks, Insert(t) PROVE NotYet'
  BY <1>1 DEF Insert, NewRow, NotYet, Runs, Active, Typed, Rows, Runners, Idle
<1>2. ASSUME NEW t \in Tasks, SaveRaw(t) PROVE NotYet'
  BY <1>2 DEF SaveRaw, NotYet, Runs, Active, Typed, Rows, Runners, Idle
<1>3. ASSUME NEW t \in Tasks, MarkUnclaimedFailed(t) PROVE NotYet'
  BY <1>3, RollbackEffect DEF NotYet, Runs, Active, SameRuns, SameClaims, GivesUp, Typed, Idle
<1>4. ASSUME NEW t \in Tasks, Publish(t) PROVE NotYet'
  BY <1>4 DEF Publish, NotYet, Runs, Active, Typed, Rows, Runners, Idle
<1>5. ASSUME NEW t \in Tasks, Abort(t) PROVE NotYet'
  BY <1>5 DEF Abort, NotYet, Runs, Active, Typed, Rows, Runners, Idle
<1>6. ASSUME NEW t \in Tasks, Reconcile(t) PROVE NotYet'
  BY <1>6 DEF Reconcile, Due, NotYet, Runs, Active, Typed, Rows, Runners, Idle
<1>7. ASSUME NEW t \in Tasks, RetryDue(t) PROVE NotYet'
  BY <1>7 DEF RetryDue, NotYet, Runs, Active, Typed, Rows, Runners, Idle
<1>8. ASSUME NEW t \in Tasks, Lapse(t) PROVE NotYet'
  BY <1>8 DEF Lapse, Runs, NotYet, Runs, Active, Typed, Rows, Runners, Idle
<1>9. ASSUME NEW t \in Tasks, LoseWakeup(t) PROVE NotYet'
  BY <1>9 DEF LoseWakeup, NotYet, Runs, Active, Typed, Rows, Runners, Idle
<1>10. ASSUME NEW w \in Workers, Prepare(w) PROVE NotYet'
  BY <1>10 DEF Prepare, Goes, Shows, NotYet, Runs, Active, Typed, Rows, Runners, Idle
<1>11. ASSUME NEW w \in Workers, Extract(w) PROVE NotYet'
  BY <1>11, ExtractEffect DEF NotYet, Runs, Active, SameRuns, SameClaims, GivesUp, Typed, Idle
<1>12. ASSUME NEW w \in Workers, Report(w) PROVE NotYet'
  BY <1>12 DEF Report, Goes, Shows, NotYet, Runs, Active, Typed, Rows, Runners, Idle
<1>13. ASSUME NEW w \in Workers, Store(w) PROVE NotYet'
  BY <1>13 DEF Store, Goes, NotYet, Runs, Active, Typed, Rows, Runners, Idle
<1>14. ASSUME NEW w \in Workers, MarkStored(w) PROVE NotYet'
  BY <1>14, MarkStoredEffect DEF NotYet, Runs, Active, SameRuns, SameClaims, GivesUp, Typed, Idle
<1>15. ASSUME NEW w \in Workers, Complete(w) PROVE NotYet'
  BY <1>15, CompleteEffect DEF NotYet, Runs, Active, SameRuns, SameClaims, GivesUp, Typed, Idle
<1>16. ASSUME NEW w \in Workers, PersistFailure(w) PROVE NotYet'
  BY <1>16, PersistFailureEffect DEF NotYet, Runs, Active, SameRuns, SameClaims, GivesUp, Typed, Idle
<1>17. ASSUME NEW w \in Workers, Err(w) PROVE NotYet'
  BY <1>17, ErrEffect DEF NotYet, Runs, Active, SameRuns, SameClaims, GivesUp, Typed, Idle
<1>18. ASSUME NEW w \in Workers, Crash(w) PROVE NotYet'
  BY <1>18 DEF Crash, Ends, NotYet, Runs, Active, Typed, Rows, Runners, Idle
<1>19. ASSUME NEW w \in Workers, NEW t \in Tasks, Claim(w, t) PROVE NotYet'
  BY <1>19 DEF Claim, Due, NotYet, Runs, Active, Typed, Rows, Runners, Idle
<1>20. CASE UNCHANGED vars
  BY <1>20 DEF vars, NotYet, Runs, Active, Typed, Rows, Runners, Idle
<1> QED
  BY <1>1, <1>2, <1>3, <1>4, <1>5, <1>6, <1>7, <1>8, <1>9, <1>10, <1>11, <1>12, <1>13, <1>14, <1>15, <1>16, <1>17, <1>18, <1>19, <1>20 DEF Next, Request, Run

\* PersistExtraction writes a row's extraction once; runs resume with it.
LEMMA OneAnswerStep == Typed /\ NotYet /\ OneAnswer /\ [Next]_vars => OneAnswer'
<1> SUFFICES ASSUME Typed, NotYet, OneAnswer, [Next]_vars PROVE OneAnswer'
  OBVIOUS
<1>1. ASSUME NEW t \in Tasks, Insert(t) PROVE OneAnswer'
  BY <1>1 DEF Insert, NewRow, OneAnswer, NotYet, Runs, ResumeAt, Active, Typed, Rows, Runners, Idle
<1>2. ASSUME NEW t \in Tasks, SaveRaw(t) PROVE OneAnswer'
  BY <1>2 DEF SaveRaw, OneAnswer, NotYet, Runs, ResumeAt, Active, Typed, Rows, Runners, Idle
<1>3. ASSUME NEW t \in Tasks, MarkUnclaimedFailed(t) PROVE OneAnswer'
  BY <1>3, RollbackEffect DEF OneAnswer, NotYet, Runs, SameRuns, SameClaims, GivesUp, Typed, Idle
<1>4. ASSUME NEW t \in Tasks, Publish(t) PROVE OneAnswer'
  BY <1>4 DEF Publish, OneAnswer, NotYet, Runs, ResumeAt, Active, Typed, Rows, Runners, Idle
<1>5. ASSUME NEW t \in Tasks, Abort(t) PROVE OneAnswer'
  BY <1>5 DEF Abort, OneAnswer, NotYet, Runs, ResumeAt, Active, Typed, Rows, Runners, Idle
<1>6. ASSUME NEW t \in Tasks, Reconcile(t) PROVE OneAnswer'
  BY <1>6 DEF Reconcile, Due, OneAnswer, NotYet, Runs, ResumeAt, Active, Typed, Rows, Runners, Idle
<1>7. ASSUME NEW t \in Tasks, RetryDue(t) PROVE OneAnswer'
  BY <1>7 DEF RetryDue, OneAnswer, NotYet, Runs, ResumeAt, Active, Typed, Rows, Runners, Idle
<1>8. ASSUME NEW t \in Tasks, Lapse(t) PROVE OneAnswer'
  BY <1>8 DEF Lapse, Runs, OneAnswer, NotYet, Runs, ResumeAt, Active, Typed, Rows, Runners, Idle
<1>9. ASSUME NEW t \in Tasks, LoseWakeup(t) PROVE OneAnswer'
  BY <1>9 DEF LoseWakeup, OneAnswer, NotYet, Runs, ResumeAt, Active, Typed, Rows, Runners, Idle
<1>10. ASSUME NEW w \in Workers, Prepare(w) PROVE OneAnswer'
  BY <1>10 DEF Prepare, Goes, Shows, OneAnswer, NotYet, Runs, ResumeAt, Active, Typed, Rows, Runners, Idle
<1>11. ASSUME NEW w \in Workers, Extract(w) PROVE OneAnswer'
  BY <1>11, ExtractEffect DEF OneAnswer, NotYet, Runs, SameRuns, SameClaims, GivesUp, Typed, Idle
<1>12. ASSUME NEW w \in Workers, Report(w) PROVE OneAnswer'
  BY <1>12 DEF Report, Goes, Shows, OneAnswer, NotYet, Runs, ResumeAt, Active, Typed, Rows, Runners, Idle
<1>13. ASSUME NEW w \in Workers, Store(w) PROVE OneAnswer'
  BY <1>13 DEF Store, Goes, OneAnswer, NotYet, Runs, ResumeAt, Active, Typed, Rows, Runners, Idle
<1>14. ASSUME NEW w \in Workers, MarkStored(w) PROVE OneAnswer'
  BY <1>14, MarkStoredEffect DEF OneAnswer, NotYet, Runs, SameRuns, SameClaims, GivesUp, Typed, Idle
<1>15. ASSUME NEW w \in Workers, Complete(w) PROVE OneAnswer'
  BY <1>15, CompleteEffect DEF OneAnswer, NotYet, Runs, SameRuns, SameClaims, GivesUp, Typed, Idle
<1>16. ASSUME NEW w \in Workers, PersistFailure(w) PROVE OneAnswer'
  BY <1>16, PersistFailureEffect DEF OneAnswer, NotYet, Runs, SameRuns, SameClaims, GivesUp, Typed, Idle
<1>17. ASSUME NEW w \in Workers, Err(w) PROVE OneAnswer'
  BY <1>17, ErrEffect DEF OneAnswer, NotYet, Runs, SameRuns, SameClaims, GivesUp, Typed, Idle
<1>18. ASSUME NEW w \in Workers, Crash(w) PROVE OneAnswer'
  BY <1>18 DEF Crash, Ends, OneAnswer, NotYet, Runs, ResumeAt, Active, Typed, Rows, Runners, Idle
<1>19. ASSUME NEW w \in Workers, NEW t \in Tasks, Claim(w, t) PROVE OneAnswer'
  BY <1>19 DEF Claim, Due, OneAnswer, NotYet, Runs, ResumeAt, Active, Typed, Rows, Runners, Idle
<1>20. CASE UNCHANGED vars
  BY <1>20 DEF vars, OneAnswer, NotYet, Runs, ResumeAt, Active, Typed, Rows, Runners, Idle
<1> QED
  BY <1>1, <1>2, <1>3, <1>4, <1>5, <1>6, <1>7, <1>8, <1>9, <1>10, <1>11, <1>12, <1>13, <1>14, <1>15, <1>16, <1>17, <1>18, <1>19, <1>20 DEF Next, Request, Run

\* Only the row's extraction is stored, and it is stored before the row says so.
LEMMA StoredStep == Typed /\ NotYet /\ OneAnswer /\ MarkedIsStored /\ OneExtraction /\ StoredIsStored /\ [Next]_vars => (MarkedIsStored /\ OneExtraction /\ StoredIsStored)'
<1> SUFFICES ASSUME Typed, NotYet, OneAnswer, MarkedIsStored, OneExtraction, StoredIsStored, [Next]_vars PROVE (MarkedIsStored /\ OneExtraction /\ StoredIsStored)'
  OBVIOUS
<1>1. ASSUME NEW t \in Tasks, Insert(t) PROVE (MarkedIsStored /\ OneExtraction /\ StoredIsStored)'
  BY <1>1 DEF Insert, NewRow, MarkedIsStored, OneExtraction, StoredIsStored, OneAnswer, NotYet, Runs, ResumeAt, Active, Typed, Rows, Runners, Idle
<1>2. ASSUME NEW t \in Tasks, SaveRaw(t) PROVE (MarkedIsStored /\ OneExtraction /\ StoredIsStored)'
  BY <1>2 DEF SaveRaw, MarkedIsStored, OneExtraction, StoredIsStored, OneAnswer, NotYet, Runs, ResumeAt, Active, Typed, Rows, Runners, Idle
<1>3. ASSUME NEW t \in Tasks, MarkUnclaimedFailed(t) PROVE (MarkedIsStored /\ OneExtraction /\ StoredIsStored)'
  BY <1>3, RollbackEffect DEF MarkedIsStored, OneExtraction, StoredIsStored, OneAnswer, NotYet, Runs, SameRuns, SameClaims, GivesUp, Typed, Idle
<1>4. ASSUME NEW t \in Tasks, Publish(t) PROVE (MarkedIsStored /\ OneExtraction /\ StoredIsStored)'
  BY <1>4 DEF Publish, MarkedIsStored, OneExtraction, StoredIsStored, OneAnswer, NotYet, Runs, ResumeAt, Active, Typed, Rows, Runners, Idle
<1>5. ASSUME NEW t \in Tasks, Abort(t) PROVE (MarkedIsStored /\ OneExtraction /\ StoredIsStored)'
  BY <1>5 DEF Abort, MarkedIsStored, OneExtraction, StoredIsStored, OneAnswer, NotYet, Runs, ResumeAt, Active, Typed, Rows, Runners, Idle
<1>6. ASSUME NEW t \in Tasks, Reconcile(t) PROVE (MarkedIsStored /\ OneExtraction /\ StoredIsStored)'
  BY <1>6 DEF Reconcile, Due, MarkedIsStored, OneExtraction, StoredIsStored, OneAnswer, NotYet, Runs, ResumeAt, Active, Typed, Rows, Runners, Idle
<1>7. ASSUME NEW t \in Tasks, RetryDue(t) PROVE (MarkedIsStored /\ OneExtraction /\ StoredIsStored)'
  BY <1>7 DEF RetryDue, MarkedIsStored, OneExtraction, StoredIsStored, OneAnswer, NotYet, Runs, ResumeAt, Active, Typed, Rows, Runners, Idle
<1>8. ASSUME NEW t \in Tasks, Lapse(t) PROVE (MarkedIsStored /\ OneExtraction /\ StoredIsStored)'
  BY <1>8 DEF Lapse, Runs, MarkedIsStored, OneExtraction, StoredIsStored, OneAnswer, NotYet, Runs, ResumeAt, Active, Typed, Rows, Runners, Idle
<1>9. ASSUME NEW t \in Tasks, LoseWakeup(t) PROVE (MarkedIsStored /\ OneExtraction /\ StoredIsStored)'
  BY <1>9 DEF LoseWakeup, MarkedIsStored, OneExtraction, StoredIsStored, OneAnswer, NotYet, Runs, ResumeAt, Active, Typed, Rows, Runners, Idle
<1>10. ASSUME NEW w \in Workers, Prepare(w) PROVE (MarkedIsStored /\ OneExtraction /\ StoredIsStored)'
  BY <1>10 DEF Prepare, Goes, Shows, MarkedIsStored, OneExtraction, StoredIsStored, OneAnswer, NotYet, Runs, ResumeAt, Active, Typed, Rows, Runners, Idle
<1>11. ASSUME NEW w \in Workers, Extract(w) PROVE (MarkedIsStored /\ OneExtraction /\ StoredIsStored)'
  BY <1>11, ExtractEffect DEF MarkedIsStored, OneExtraction, StoredIsStored, OneAnswer, NotYet, Runs, SameRuns, SameClaims, GivesUp, Typed, Idle
<1>12. ASSUME NEW w \in Workers, Report(w) PROVE (MarkedIsStored /\ OneExtraction /\ StoredIsStored)'
  BY <1>12 DEF Report, Goes, Shows, MarkedIsStored, OneExtraction, StoredIsStored, OneAnswer, NotYet, Runs, ResumeAt, Active, Typed, Rows, Runners, Idle
<1>13. ASSUME NEW w \in Workers, Store(w) PROVE (MarkedIsStored /\ OneExtraction /\ StoredIsStored)'
  BY <1>13 DEF Store, Goes, MarkedIsStored, OneExtraction, StoredIsStored, OneAnswer, NotYet, Runs, ResumeAt, Active, Typed, Rows, Runners, Idle
<1>14. ASSUME NEW w \in Workers, MarkStored(w) PROVE (MarkedIsStored /\ OneExtraction /\ StoredIsStored)'
  BY <1>14, MarkStoredEffect DEF MarkedIsStored, OneExtraction, StoredIsStored, OneAnswer, NotYet, Runs, SameRuns, SameClaims, GivesUp, Typed, Idle
<1>15. ASSUME NEW w \in Workers, Complete(w) PROVE (MarkedIsStored /\ OneExtraction /\ StoredIsStored)'
  BY <1>15, CompleteEffect DEF MarkedIsStored, OneExtraction, StoredIsStored, OneAnswer, NotYet, Runs, SameRuns, SameClaims, GivesUp, Typed, Idle
<1>16. ASSUME NEW w \in Workers, PersistFailure(w) PROVE (MarkedIsStored /\ OneExtraction /\ StoredIsStored)'
  BY <1>16, PersistFailureEffect DEF MarkedIsStored, OneExtraction, StoredIsStored, OneAnswer, NotYet, Runs, SameRuns, SameClaims, GivesUp, Typed, Idle
<1>17. ASSUME NEW w \in Workers, Err(w) PROVE (MarkedIsStored /\ OneExtraction /\ StoredIsStored)'
  BY <1>17, ErrEffect DEF MarkedIsStored, OneExtraction, StoredIsStored, OneAnswer, NotYet, Runs, SameRuns, SameClaims, GivesUp, Typed, Idle
<1>18. ASSUME NEW w \in Workers, Crash(w) PROVE (MarkedIsStored /\ OneExtraction /\ StoredIsStored)'
  BY <1>18 DEF Crash, Ends, MarkedIsStored, OneExtraction, StoredIsStored, OneAnswer, NotYet, Runs, ResumeAt, Active, Typed, Rows, Runners, Idle
<1>19. ASSUME NEW w \in Workers, NEW t \in Tasks, Claim(w, t) PROVE (MarkedIsStored /\ OneExtraction /\ StoredIsStored)'
  BY <1>19 DEF Claim, Due, MarkedIsStored, OneExtraction, StoredIsStored, OneAnswer, NotYet, Runs, ResumeAt, Active, Typed, Rows, Runners, Idle
<1>20. CASE UNCHANGED vars
  BY <1>20 DEF vars, MarkedIsStored, OneExtraction, StoredIsStored, OneAnswer, NotYet, Runs, ResumeAt, Active, Typed, Rows, Runners, Idle
<1> QED
  BY <1>1, <1>2, <1>3, <1>4, <1>5, <1>6, <1>7, <1>8, <1>9, <1>10, <1>11, <1>12, <1>13, <1>14, <1>15, <1>16, <1>17, <1>18, <1>19, <1>20 DEF Next, Request, Run

-------------------------------------------------------------------------------
(* Leases and attempts. *)

\* A run loses its row to nobody while its lease has not lapsed.
LEMMA LeaseStep == Typed /\ NotYet /\ LeaseProtects /\ [Next]_vars => LeaseProtects'
<1> SUFFICES ASSUME Typed, NotYet, LeaseProtects, [Next]_vars PROVE LeaseProtects'
  OBVIOUS
<1>1. ASSUME NEW t \in Tasks, Insert(t) PROVE LeaseProtects'
  BY <1>1 DEF Insert, NewRow, LeaseProtects, NotYet, Runs, Active, Typed, Rows, Runners, Idle, Holds
<1>2. ASSUME NEW t \in Tasks, SaveRaw(t) PROVE LeaseProtects'
  BY <1>2 DEF SaveRaw, LeaseProtects, NotYet, Runs, Active, Typed, Rows, Runners, Idle, Holds
<1>3. ASSUME NEW t \in Tasks, MarkUnclaimedFailed(t) PROVE LeaseProtects'
  BY <1>3, RollbackEffect DEF LeaseProtects, Holds, SameRuns, SameClaims, GivesUp, Typed, Idle
<1>4. ASSUME NEW t \in Tasks, Publish(t) PROVE LeaseProtects'
  BY <1>4 DEF Publish, LeaseProtects, NotYet, Runs, Active, Typed, Rows, Runners, Idle, Holds
<1>5. ASSUME NEW t \in Tasks, Abort(t) PROVE LeaseProtects'
  BY <1>5 DEF Abort, LeaseProtects, NotYet, Runs, Active, Typed, Rows, Runners, Idle, Holds
<1>6. ASSUME NEW t \in Tasks, Reconcile(t) PROVE LeaseProtects'
  BY <1>6 DEF Reconcile, Due, LeaseProtects, NotYet, Runs, Active, Typed, Rows, Runners, Idle, Holds
<1>7. ASSUME NEW t \in Tasks, RetryDue(t) PROVE LeaseProtects'
  BY <1>7 DEF RetryDue, LeaseProtects, NotYet, Runs, Active, Typed, Rows, Runners, Idle, Holds
<1>8. ASSUME NEW t \in Tasks, Lapse(t) PROVE LeaseProtects'
  BY <1>8 DEF Lapse, Runs, LeaseProtects, NotYet, Runs, Active, Typed, Rows, Runners, Idle, Holds
<1>9. ASSUME NEW t \in Tasks, LoseWakeup(t) PROVE LeaseProtects'
  BY <1>9 DEF LoseWakeup, LeaseProtects, NotYet, Runs, Active, Typed, Rows, Runners, Idle, Holds
<1>10. ASSUME NEW w \in Workers, Prepare(w) PROVE LeaseProtects'
  BY <1>10 DEF Prepare, Goes, Shows, LeaseProtects, NotYet, Runs, Active, Typed, Rows, Runners, Idle, Holds
<1>11. ASSUME NEW w \in Workers, Extract(w) PROVE LeaseProtects'
  BY <1>11, ExtractEffect DEF LeaseProtects, Holds, SameRuns, SameClaims, GivesUp, Typed, Idle
<1>12. ASSUME NEW w \in Workers, Report(w) PROVE LeaseProtects'
  BY <1>12 DEF Report, Goes, Shows, LeaseProtects, NotYet, Runs, Active, Typed, Rows, Runners, Idle, Holds
<1>13. ASSUME NEW w \in Workers, Store(w) PROVE LeaseProtects'
  BY <1>13 DEF Store, Goes, LeaseProtects, NotYet, Runs, Active, Typed, Rows, Runners, Idle, Holds
<1>14. ASSUME NEW w \in Workers, MarkStored(w) PROVE LeaseProtects'
  BY <1>14, MarkStoredEffect DEF LeaseProtects, Holds, SameRuns, SameClaims, GivesUp, Typed, Idle
<1>15. ASSUME NEW w \in Workers, Complete(w) PROVE LeaseProtects'
  BY <1>15, CompleteEffect DEF LeaseProtects, Holds, SameRuns, SameClaims, GivesUp, Typed, Idle
<1>16. ASSUME NEW w \in Workers, PersistFailure(w) PROVE LeaseProtects'
  BY <1>16, PersistFailureEffect DEF LeaseProtects, Holds, SameRuns, SameClaims, GivesUp, Typed, Idle
<1>17. ASSUME NEW w \in Workers, Err(w) PROVE LeaseProtects'
  BY <1>17, ErrEffect DEF LeaseProtects, Holds, SameRuns, SameClaims, GivesUp, Typed, Idle
<1>18. ASSUME NEW w \in Workers, Crash(w) PROVE LeaseProtects'
  BY <1>18 DEF Crash, Ends, LeaseProtects, NotYet, Runs, Active, Typed, Rows, Runners, Idle, Holds
<1>19. ASSUME NEW w \in Workers, NEW t \in Tasks, Claim(w, t) PROVE LeaseProtects'
  BY <1>19 DEF Claim, Due, LeaseProtects, NotYet, Runs, Active, Typed, Rows, Runners, Idle, Holds
<1>20. CASE UNCHANGED vars
  BY <1>20 DEF vars, LeaseProtects, NotYet, Runs, Active, Typed, Rows, Runners, Idle, Holds
<1> QED
  BY <1>1, <1>2, <1>3, <1>4, <1>5, <1>6, <1>7, <1>8, <1>9, <1>10, <1>11, <1>12, <1>13, <1>14, <1>15, <1>16, <1>17, <1>18, <1>19, <1>20 DEF Next, Request, Run

\* An attempt more than the limit needs a fault more.
LEMMA CountedStep == Typed /\ NotYet /\ Counted /\ AttemptLimit /\ [Next]_vars => (Counted /\ AttemptLimit)'
<1> SUFFICES ASSUME Typed, NotYet, Counted, AttemptLimit, [Next]_vars PROVE (Counted /\ AttemptLimit)'
  OBVIOUS
<1> USE MemoryAssumption
<1>1. ASSUME NEW t \in Tasks, Insert(t) PROVE (Counted /\ AttemptLimit)'
  BY <1>1 DEF Insert, NewRow, Counted, AttemptLimit, Owning, NotYet, Runs, Active, Typed, Rows, Runners, Idle
<1>2. ASSUME NEW t \in Tasks, SaveRaw(t) PROVE (Counted /\ AttemptLimit)'
  BY <1>2 DEF SaveRaw, Counted, AttemptLimit, Owning, NotYet, Runs, Active, Typed, Rows, Runners, Idle
<1>3. ASSUME NEW t \in Tasks, MarkUnclaimedFailed(t) PROVE (Counted /\ AttemptLimit)'
  BY <1>3, RollbackEffect DEF Counted, AttemptLimit, Owning, NotYet, Runs, Active, Holds, Last, SameRuns, SameClaims, GivesUp, Typed, Idle
<1>4. ASSUME NEW t \in Tasks, Publish(t) PROVE (Counted /\ AttemptLimit)'
  BY <1>4 DEF Publish, Counted, AttemptLimit, Owning, NotYet, Runs, Active, Typed, Rows, Runners, Idle
<1>5. ASSUME NEW t \in Tasks, Abort(t) PROVE (Counted /\ AttemptLimit)'
  BY <1>5 DEF Abort, Counted, AttemptLimit, Owning, NotYet, Runs, Active, Typed, Rows, Runners, Idle
<1>6. ASSUME NEW t \in Tasks, Reconcile(t) PROVE (Counted /\ AttemptLimit)'
  BY <1>6 DEF Reconcile, Due, Counted, AttemptLimit, Owning, NotYet, Runs, Active, Typed, Rows, Runners, Idle
<1>7. ASSUME NEW t \in Tasks, RetryDue(t) PROVE (Counted /\ AttemptLimit)'
  BY <1>7 DEF RetryDue, Counted, AttemptLimit, Owning, NotYet, Runs, Active, Typed, Rows, Runners, Idle
<1>8. ASSUME NEW t \in Tasks, Lapse(t) PROVE (Counted /\ AttemptLimit)'
  BY <1>8 DEF Lapse, Runs, Counted, AttemptLimit, Owning, NotYet, Runs, Active, Typed, Rows, Runners, Idle
<1>9. ASSUME NEW t \in Tasks, LoseWakeup(t) PROVE (Counted /\ AttemptLimit)'
  BY <1>9 DEF LoseWakeup, Counted, AttemptLimit, Owning, NotYet, Runs, Active, Typed, Rows, Runners, Idle
<1>10. ASSUME NEW w \in Workers, Prepare(w) PROVE (Counted /\ AttemptLimit)'
  BY <1>10 DEF Prepare, Goes, Shows, Counted, AttemptLimit, Owning, NotYet, Runs, Active, Typed, Rows, Runners, Idle
<1>11. ASSUME NEW w \in Workers, Extract(w) PROVE (Counted /\ AttemptLimit)'
  BY <1>11, ExtractEffect DEF Counted, AttemptLimit, Owning, NotYet, Runs, Active, Holds, Last, SameRuns, SameClaims, GivesUp, Typed, Idle
<1>12. ASSUME NEW w \in Workers, Report(w) PROVE (Counted /\ AttemptLimit)'
  BY <1>12 DEF Report, Goes, Shows, Counted, AttemptLimit, Owning, NotYet, Runs, Active, Typed, Rows, Runners, Idle
<1>13. ASSUME NEW w \in Workers, Store(w) PROVE (Counted /\ AttemptLimit)'
  BY <1>13 DEF Store, Goes, Counted, AttemptLimit, Owning, NotYet, Runs, Active, Typed, Rows, Runners, Idle
<1>14. ASSUME NEW w \in Workers, MarkStored(w) PROVE (Counted /\ AttemptLimit)'
  BY <1>14, MarkStoredEffect DEF Counted, AttemptLimit, Owning, NotYet, Runs, Active, Holds, Last, SameRuns, SameClaims, GivesUp, Typed, Idle
<1>15. ASSUME NEW w \in Workers, Complete(w) PROVE (Counted /\ AttemptLimit)'
  BY <1>15, CompleteEffect DEF Counted, AttemptLimit, Owning, NotYet, Runs, Active, Holds, Last, SameRuns, SameClaims, GivesUp, Typed, Idle
<1>16. ASSUME NEW w \in Workers, PersistFailure(w) PROVE (Counted /\ AttemptLimit)'
  <2>t. PICK t : t = worker[w].task
    OBVIOUS
  <2>0. t \in Tasks /\ worker[w].pc # "idle" /\ Runs(w, t)
    BY <1>16, <2>t, PersistFailureEffect DEF Runs
  <2>1. /\ UNCHANGED faults
        /\ worker'[w] = Idle /\ \A v \in Workers : v # w => worker'[v] = worker[v]
    BY <1>16, PersistFailureEffect DEF Typed
  <2>2. \A v \in Workers, u \in Tasks : Runs(v, u)' => v # w /\ Runs(v, u)
    BY <2>1 DEF Runs, Idle
  <2>3. \A v \in Workers, u \in Tasks : v # w => (Runs(v, u)' <=> Runs(v, u))
    BY <2>1 DEF Runs
  <2>4. \A u \in Tasks : u # t => ~Runs(w, u)
    BY <2>t DEF Runs
  <2>5. CASE row' = row /\ ~(Holds(w) /\ row[t].state \in Active)
    <3>1. row[t].owner # w \/ row[t].lease # "live"
      BY <2>0, <2>t, <2>5 DEF Holds, Counted
    <3>2. \A v \in Workers, u \in Tasks : row[u].lease = "live" =>
             (Owning(v, u)' <=> Owning(v, u))
      BY <2>2, <2>3, <2>4, <2>5, <3>1 DEF Owning
    <3>3. \A v \in Workers, u \in Tasks : Owning(v, u)' => worker'[v] = worker[v]
      BY <2>1, <2>2 DEF Owning
    <3> QED
      BY <2>1, <2>5, <3>2, <3>3 DEF Counted, AttemptLimit
  <2>6. CASE /\ Holds(w) /\ row[t].state \in Active /\ GivesUp(t)
             /\ \/ row'[t].state = "failed"
                \/ row'[t].state = row[t].state /\ ~Last(w)
    <3>1. worker[w].attempt = row[t].attempts
      BY <2>0, <2>t, <2>6 DEF Counted, Owning, Holds
    <3>2. ~Last(w) => row[t].attempts < MaxAttempts
      BY <2>0, <3>1 DEF Last, Typed, Rows
    <3>3. \A v \in Workers, u \in Tasks : u # t => (Owning(v, u)' <=> Owning(v, u))
      BY <2>2, <2>3, <2>4, <2>6 DEF Owning, GivesUp
    <3>4. ~Owning(w, t)' /\ \A v \in Workers : worker'[v].pc # "idle" => worker'[v] = worker[v]
      BY <2>0, <2>1, <2>2 DEF Owning, Idle
    <3> QED
      BY <2>0, <2>1, <2>6, <3>2, <3>3, <3>4 DEF Counted, AttemptLimit, GivesUp, Active, Owning, Runs
  <2> QED
    BY <1>16, <2>t, <2>5, <2>6, PersistFailureEffect
<1>17. ASSUME NEW w \in Workers, Err(w) PROVE (Counted /\ AttemptLimit)'
  BY <1>17, ErrEffect DEF Counted, AttemptLimit, Owning, NotYet, Runs, Active, Holds, Last, SameRuns, SameClaims, GivesUp, Typed, Idle
<1>18. ASSUME NEW w \in Workers, Crash(w) PROVE (Counted /\ AttemptLimit)'
  BY <1>18 DEF Crash, Ends, Counted, AttemptLimit, Owning, NotYet, Runs, Active, Typed, Rows, Runners, Idle
<1>19. ASSUME NEW w \in Workers, NEW t \in Tasks, Claim(w, t) PROVE (Counted /\ AttemptLimit)'
  BY <1>19 DEF Claim, Due, Counted, AttemptLimit, Owning, NotYet, Runs, Active, Typed, Rows, Runners, Idle
<1>20. CASE UNCHANGED vars
  BY <1>20 DEF vars, Counted, AttemptLimit, Owning, NotYet, Runs, Active, Typed, Rows, Runners, Idle
<1> QED
  BY <1>1, <1>2, <1>3, <1>4, <1>5, <1>6, <1>7, <1>8, <1>9, <1>10, <1>11, <1>12, <1>13, <1>14, <1>15, <1>16, <1>17, <1>18, <1>19, <1>20 DEF Next, Request, Run

-------------------------------------------------------------------------------
(* The theorems. *)

\* The inductive invariant holds of every reachable state.
LEMMA MemoryInvariant == Spec => [](Typed /\ MemoryInv)
<1>1. Init => Typed /\ MemoryInv
  <2> SUFFICES ASSUME Init PROVE Typed /\ MemoryInv
    OBVIOUS
  <2> USE MemoryAssumption DEF Init, NewRow, Idle
  <2>1. Typed
    BY DEF Typed, Rows, RowStates, Runners, Pcs
  <2>2. NotYet /\ OneAnswer /\ MarkedIsStored /\ Counted
    BY DEF NotYet, OneAnswer, MarkedIsStored, Counted, Runs, Owning, Active
  <2>3. OneExtraction /\ StoredIsStored /\ LeaseProtects /\ AttemptLimit
    BY DEF OneExtraction, StoredIsStored, LeaseProtects, AttemptLimit
  <2> QED
    BY <2>1, <2>2, <2>3 DEF MemoryInv
<1>2. Typed /\ MemoryInv /\ [Next]_vars => (Typed /\ MemoryInv)'
  BY TypedStep, NotYetStep, OneAnswerStep, StoredStep, LeaseStep, CountedStep DEF MemoryInv
<1> QED
  BY <1>1, <1>2, PTL DEF Spec

\* Of the answers the model gave to the attempts at a task, only the one that
\* PersistExtraction checkpointed reaches the message store, whatever worker lost
\* its lease before storeMemoryTaskExtraction, which no lease guards.
THEOREM OneAnswerIsStored == Spec => []OneExtraction
<1>1. MemoryInv => OneExtraction
  BY DEF MemoryInv
<1> QED
  BY <1>1, MemoryInvariant, PTL

\* MarkStored and Complete are reached only with every extracted message stored.
THEOREM StoredTasksAreStored == Spec => []StoredIsStored
<1>1. MemoryInv => StoredIsStored
  BY DEF MemoryInv
<1> QED
  BY <1>1, MemoryInvariant, PTL

\* No worker takes over, retries, fails or completes a task whose run has not lost
\* its lease.
THEOREM LeasesProtectRuns == Spec => []LeaseProtects
<1>1. MemoryInv => LeaseProtects
  BY DEF MemoryInv
<1> QED
  BY <1>1, MemoryInvariant, PTL

\* memoryTaskMaxAttempts is exceeded at most once for each crash or lapsed lease.
THEOREM AttemptsAreLimited == Spec => []AttemptLimit
<1>1. MemoryInv => AttemptLimit
  BY DEF MemoryInv
<1> QED
  BY <1>1, MemoryInvariant, PTL
===============================================================================
