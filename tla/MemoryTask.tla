----------------------------- MODULE MemoryTask -----------------------------
(***************************************************************************)
(* The durable memory tasks: QueueSaveToMemoryTask of a request            *)
(* (memory_message_service.go), the memory_task rows (dao/memory_task.go),  *)
(* the ingestor workers that claim and resume them (memory_extractor.go)    *)
(* and the reconciler that wakes them again.                                *)
(*                                                                          *)
(* An extraction is the set of message ids it was materialised with: empty, *)
(* or the number of the attempt that asked the model.  Time is what the     *)
(* guards read of it: a lease is live or expired, a retry is later or due.  *)
(***************************************************************************)
EXTENDS Naturals

CONSTANTS
    Tasks,       \* the saved messages, one task each
    Workers,     \* the pool workers of all ingestors
    MaxAttempts, \* memoryTaskMaxAttempts
    MaxFails,    \* bound: errors of a run that are worth a retry
    MaxFaults    \* bound: crashes, leases that lapse under a run, lost wake-ups

ASSUME MemoryAssumption ==
    /\ MaxAttempts \in Nat \ {0}
    /\ {MaxFails, MaxFaults} \subseteq Nat

VARIABLES
    api,      \* per task: where its request is
    row,      \* per task: its memory_task row
    progress, \* per task: the progress of its UI row
    raw,      \* the tasks whose raw message is in the message store
    store,    \* per task: ids of its extracted messages in the message store
    waking,   \* the tasks with a wake-up at the broker
    worker,   \* per worker: its run
    lapsed,   \* history: the workers whose lease lapsed during their run
    fails, faults

vars == <<api, row, progress, raw, store, waking, worker, lapsed, fails, faults>>

NoOwner == "none"

NewRow == [state |-> "pending", extraction |-> {}, attempts |-> 0,
           owner |-> NoOwner, lease |-> "none", retry |-> "none"]

Idle == [pc |-> "idle", task |-> NoOwner, attempt |-> 0, extraction |-> {}]

Active == {"pending", "extracted", "stored"}

Init ==
    /\ api = [t \in Tasks |-> "new"]
    /\ row = [t \in Tasks |-> [NewRow EXCEPT !.state = "absent"]]
    /\ progress = [t \in Tasks |-> "none"]
    /\ raw = {} /\ waking = {} /\ lapsed = {}
    /\ store = [t \in Tasks |-> {}]
    /\ worker = [w \in Workers |-> Idle]
    /\ fails = 0 /\ faults = 0

-----------------------------------------------------------------------------
(* The request. *)

\* insertMemoryTask: both rows in one transaction.
Insert(t) ==
    /\ api[t] = "new"
    /\ api' = [api EXCEPT ![t] = "save"]
    /\ row' = [row EXCEPT ![t] = NewRow]
    /\ progress' = [progress EXCEPT ![t] = "begun"]
    /\ UNCHANGED <<raw, store, waking, worker, lapsed, fails, faults>>

\* embedAndSave of the raw message.
SaveRaw(t) ==
    /\ api[t] = "save"
    /\ \/ raw' = raw \union {t} /\ api' = [api EXCEPT ![t] = "publish"]
          /\ UNCHANGED fails
       \/ /\ fails < MaxFails /\ fails' = fails + 1
          /\ raw' = raw /\ api' = [api EXCEPT ![t] = "unclaimed"]
    /\ UNCHANGED <<row, progress, store, waking, worker, lapsed, faults>>

\* MarkUnclaimedFailed: only a pending row that nobody has a claim on.
MarkUnclaimedFailed(t) ==
    /\ api[t] = "unclaimed"
    /\ api' = [api EXCEPT ![t] = "done"]
    /\ IF row[t].state = "pending" /\ row[t].lease = "none"
       THEN /\ row' = [row EXCEPT ![t].state = "failed", ![t].retry = "none"]
            /\ progress' = [progress EXCEPT ![t] = "failed"]
       ELSE UNCHANGED <<row, progress>>
    /\ UNCHANGED <<raw, store, waking, worker, lapsed, fails, faults>>

\* publishMemoryTaskWakeup; a failure is left to the reconciler.
Publish(t) ==
    /\ api[t] = "publish"
    /\ api' = [api EXCEPT ![t] = "done"]
    /\ waking' \in {waking, waking \union {t}}
    /\ UNCHANGED <<row, progress, raw, store, worker, lapsed, fails, faults>>

\* The API server dies in the middle of the request.
Abort(t) ==
    /\ api[t] \in {"save", "unclaimed", "publish"}
    /\ faults < MaxFaults /\ faults' = faults + 1
    /\ api' = [api EXCEPT ![t] = "done"]
    /\ UNCHANGED <<row, progress, raw, store, waking, worker, lapsed, fails>>

-----------------------------------------------------------------------------
(* Due tasks, and the reconciler. *)

\* ListDue and Claim read the same condition.
DueUnowned(r) == r.state \in Active /\ r.retry # "later" /\ r.lease = "none"

Due(r) == r.state \in Active /\ r.retry # "later" /\ r.lease # "live"

Reconcile(t) ==
    /\ Due(row[t])
    /\ t \notin waking
    /\ waking' = waking \union {t}
    /\ UNCHANGED <<api, row, progress, raw, store, worker, lapsed, fails, faults>>

\* Time: next_retry_at passes.
RetryDue(t) ==
    /\ row[t].retry = "later"
    /\ row' = [row EXCEPT ![t].retry = "due"]
    /\ UNCHANGED <<api, progress, raw, store, waking, worker, lapsed, fails, faults>>

Runs(w, t) == worker[w].pc # "idle" /\ worker[w].task = t

\* Time: the two minutes of a lease pass.  renewMemoryTaskLease prevents it while
\* the owner runs, unless the worker is paused or cannot reach the database.
Lapse(t) ==
    LET held == row[t].owner \in Workers /\ Runs(row[t].owner, t) IN
    /\ row[t].lease = "live"
    /\ held => faults < MaxFaults
    /\ row' = [row EXCEPT ![t].lease = "expired"]
    /\ faults' = IF held THEN faults + 1 ELSE faults
    /\ lapsed' = IF held THEN lapsed \union {row[t].owner} ELSE lapsed
    /\ UNCHANGED <<api, progress, raw, store, waking, worker, fails>>

\* The broker drops a wake-up after its last delivery.
LoseWakeup(t) ==
    /\ t \in waking
    /\ faults < MaxFaults /\ faults' = faults + 1
    /\ waking' = waking \ {t}
    /\ UNCHANGED <<api, row, progress, raw, store, worker, lapsed, fails>>

-----------------------------------------------------------------------------
(* The run of a worker: HandleSaveToMemoryTask. *)

\* The checkpoint a run resumes from.
ResumeAt(state) ==
    CASE state = "pending" -> "prepare" [] state = "extracted" -> "store"
      [] state = "stored" -> "complete"

\* Claim: an attempt more and a fresh lease; the delivery of a finished task is
\* acknowledged, any other that cannot be claimed is left to be delivered again.
Claim(w, t) ==
    /\ worker[w].pc = "idle"
    /\ t \in waking
    /\ \/ /\ Due(row[t])
          /\ row' = [row EXCEPT ![t].attempts = @ + 1, ![t].owner = w,
                                ![t].lease = "live", ![t].retry = "none"]
          /\ worker' = [worker EXCEPT ![w] =
                 [pc |-> ResumeAt(row[t].state), task |-> t,
                  attempt |-> row[t].attempts + 1,
                  extraction |-> row[t].extraction]]
          /\ UNCHANGED waking
       \/ /\ row[t].state \notin Active
          /\ waking' = waking \ {t}
          /\ UNCHANGED <<row, worker>>
    /\ UNCHANGED <<api, progress, raw, store, lapsed, fails, faults>>

\* What guards every write of a run to its row.
HoldsAnyOwner(w) == row[worker[w].task].lease = "live"

Holds(w) ==
    /\ row[worker[w].task].owner = w
    /\ row[worker[w].task].lease = "live"

Goes(w, pc) == worker' = [worker EXCEPT ![w].pc = pc]

Ends(w) == worker' = [worker EXCEPT ![w] = Idle] /\ lapsed' = lapsed \ {w}

\* updateTaskProgress: guarded by no lease, and its errors are ignored.
Shows(w, p) == progress' \in {progress, [progress EXCEPT ![worker[w].task] = p]}

\* extractByLLM reports that it is ready, if there is anything to extract.
Prepare(w) ==
    /\ worker[w].pc = "prepare"
    /\ Shows(w, "prepared")
    /\ Goes(w, "extract")
    /\ UNCHANGED <<api, row, raw, store, waking, lapsed, fails, faults>>

Persists(w) == Holds(w) /\ row[worker[w].task].state = "pending"

\* The run goes on although its checkpoint was not written.
ExtractUnchecked(w) ==
    /\ worker[w].pc = "extract"
    /\ \E found \in {{}, {worker[w].attempt}} :
         /\ row' = IF Persists(w)
                   THEN [row EXCEPT ![worker[w].task].state = "extracted",
                                    ![worker[w].task].extraction = found]
                   ELSE row
         /\ worker' = [worker EXCEPT ![w].pc = "report", ![w].extraction = found]
    /\ UNCHANGED <<api, progress, raw, store, waking, lapsed, fails, faults>>

\* The model answers, the answer is given its message ids, and
\* PersistExtraction checkpoints both.
Extract(w) ==
    /\ worker[w].pc = "extract"
    /\ \E found \in {{}, {worker[w].attempt}} :
         IF Persists(w)
         THEN /\ row' = [row EXCEPT ![worker[w].task].state = "extracted",
                                    ![worker[w].task].extraction = found]
              /\ worker' = [worker EXCEPT ![w].pc = "report",
                                          ![w].extraction = found]
         ELSE Goes(w, "error") /\ UNCHANGED row
    /\ UNCHANGED <<api, progress, raw, store, waking, lapsed, fails, faults>>

Report(w) ==
    /\ worker[w].pc = "report"
    /\ Shows(w, "extracted")
    /\ Goes(w, "store")
    /\ UNCHANGED <<api, row, raw, store, waking, lapsed, fails, faults>>

StoreLater(w) ==
    /\ worker[w].pc = "store"
    /\ Goes(w, "mark")
    /\ UNCHANGED <<api, row, progress, raw, store, waking, lapsed, fails, faults>>

\* storeMemoryTaskExtraction: an upsert by message id, guarded by no lease.
Store(w) ==
    /\ worker[w].pc = "store"
    /\ store' = [store EXCEPT ![worker[w].task] = @ \union worker[w].extraction]
    /\ Goes(w, "mark")
    /\ UNCHANGED <<api, row, progress, raw, waking, lapsed, fails, faults>>

MarkStored(w) ==
    /\ worker[w].pc = "mark"
    /\ IF Holds(w) /\ row[worker[w].task].state = "extracted"
       THEN Goes(w, "complete") /\ row' = [row EXCEPT ![worker[w].task].state = "stored"]
       ELSE Goes(w, "error") /\ UNCHANGED row
    /\ UNCHANGED <<api, progress, raw, store, waking, lapsed, fails, faults>>

Released(r, state) == [r EXCEPT !.state = state, !.owner = NoOwner,
                                !.lease = "none", !.retry = "none"]

\* Complete: the row and its UI projection in one transaction; the delivery is
\* acknowledged.
Complete(w) ==
    /\ worker[w].pc = "complete"
    /\ IF Holds(w) /\ row[worker[w].task].state = "stored"
       THEN /\ row' = [row EXCEPT ![worker[w].task] = Released(@, "completed")]
            /\ progress' = [progress EXCEPT ![worker[w].task] = "done"]
            /\ waking' = waking \ {worker[w].task}
            /\ Ends(w)
       ELSE Goes(w, "error") /\ UNCHANGED <<row, progress, waking, lapsed>>
    /\ UNCHANGED <<api, raw, store, fails, faults>>

\* A stage fails, panics, or is cancelled because the lease was not renewed.
Err(w) ==
    /\ worker[w].pc \in {"prepare", "extract", "store", "mark", "complete"}
    /\ fails < MaxFails /\ fails' = fails + 1
    /\ \/ Goes(w, "error") /\ UNCHANGED store
       \/ /\ worker[w].pc \in {"prepare", "extract", "store"}
          /\ Goes(w, "permanent") /\ UNCHANGED store
       \/ /\ worker[w].pc = "store"   \* the insert took effect all the same
          /\ store' = [store EXCEPT ![worker[w].task] = @ \union worker[w].extraction]
          /\ Goes(w, "error")
    /\ UNCHANGED <<api, row, progress, raw, waking, lapsed, faults>>

LastOneOff(w) == worker[w].pc = "permanent" \/ worker[w].attempt > MaxAttempts

Last(w) == worker[w].pc = "permanent" \/ worker[w].attempt >= MaxAttempts

\* persistMemoryTaskFailure: the last attempt and a permanent error end the
\* task, any other is retried; the delivery is acknowledged only if the row took
\* the decision.
PersistFailure(w) ==
    LET t == worker[w].task IN
    /\ worker[w].pc \in {"error", "permanent"}
    /\ IF Holds(w) /\ row[t].state \in Active
       THEN /\ row' = [row EXCEPT ![t] = IF Last(w) THEN Released(@, "failed") ELSE
                          [Released(@, @.state) EXCEPT !.retry = "later"]]
            /\ progress' = IF Last(w) THEN [progress EXCEPT ![t] = "failed"] ELSE progress
            /\ waking' = waking \ {t}
       ELSE UNCHANGED <<row, progress, waking>>
    /\ Ends(w)
    /\ UNCHANGED <<api, raw, store, fails, faults>>

\* The ingestor dies: the row keeps its claim until the lease lapses.
Crash(w) ==
    /\ worker[w].pc # "idle"
    /\ faults < MaxFaults /\ faults' = faults + 1
    /\ Ends(w)
    /\ UNCHANGED <<api, row, progress, raw, store, waking, fails>>

-----------------------------------------------------------------------------

Request(t) == Insert(t) \/ SaveRaw(t) \/ MarkUnclaimedFailed(t) \/ Publish(t)

Run(w) ==
    \/ Prepare(w) \/ Extract(w) \/ Report(w) \/ Store(w) \/ MarkStored(w)
    \/ Complete(w) \/ PersistFailure(w)

Next ==
    \/ \E t \in Tasks : Request(t) \/ Abort(t) \/ Reconcile(t) \/ RetryDue(t)
                        \/ Lapse(t) \/ LoseWakeup(t)
    \/ \E w \in Workers : Run(w) \/ Err(w) \/ Crash(w) \/ \E t \in Tasks : Claim(w, t)

Spec == Init /\ [][Next]_vars

(* Time passes, the reconciler polls, runs go on, and a wake-up is delivered to
   some idle worker in the end. *)
FairSpec ==
    /\ Spec
    /\ \A t \in Tasks : WF_vars(Reconcile(t)) /\ WF_vars(RetryDue(t)) /\ WF_vars(Lapse(t))
    /\ \A t \in Tasks : SF_vars(\E w \in Workers : Claim(w, t))
    /\ \A w \in Workers : WF_vars(Run(w))

-----------------------------------------------------------------------------

\* Of all answers the model gave to the attempts at one task, at most one ever
\* reaches the message store, and it is the one the row checkpoints: whatever
\* worker lost its lease between the answer, the checkpoint and the insert.
OneExtraction == \A t \in Tasks : store[t] \subseteq row[t].extraction

\* A task that counts as stored or completed has all its messages in the store.
StoredIsStored ==
    \A t \in Tasks : row[t].state \in {"stored", "completed"} =>
        row[t].extraction \subseteq store[t]

\* A run whose lease has not lapsed still has the row to itself: no run that
\* outlived its own lease retries, fails or finishes the task under it.
LeaseProtects ==
    \A w \in Workers : worker[w].pc # "idle" /\ w \notin lapsed => Holds(w)

\* Every queued task is completed or failed in the end.
TasksSettle ==
    \A t \in Tasks : (row[t].state \in Active) ~> (row[t].state \in {"completed", "failed"})

\* A task is attempted beyond the limit only after a crash or a lost lease, which
\* no run is left to count, and once more for each.
AttemptLimit == \A t \in Tasks : row[t].attempts <= MaxAttempts + faults

------------------------------------------------------------------------------
(* What the documentation or a comment says and the code does not do: see the
   README, section 3.  No run checks these. *)

\* The progress shown for a completed task is that of a completed task.
ProgressProjected == \A t \in Tasks : row[t].state = "completed" => progress[t] = "done"

\* Extracted messages in the store point at a raw message in the store, once the
\* request that stores it is over.
SourceIsStored == \A t \in Tasks : store[t] # {} /\ api[t] = "done" => t \in raw
=============================================================================
