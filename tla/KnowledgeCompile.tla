-------------------------- MODULE KnowledgeCompile --------------------------
(***************************************************************************)
(* The dataset-level knowledge compiler of                                  *)
(* internal/ingestion/knowledge_compile: one dataset's scheduling row, the  *)
(* workers that claim batches of document events from it, the products they *)
(* merge, and a rebuild of the whole dataset.                               *)
(*                                                                          *)
(* A document event is its position in `events`, the order of publication.  *)
(* The products of a document are the set of Items compiled from it: the    *)
(* names of the entities and relations of a structure template, or the      *)
(* content of a Wiki page.  The dataset-level products are kept by source:  *)
(* merged[d] holds the items of the rows that name d in source_doc_ids.     *)
(* All templates of the dataset are of one Variant: "wiki" pages are        *)
(* replaced, by comparison with per-document contribution snapshots, while  *)
(* "structure" rows are only added to and leave with a retracted document.  *)
(***************************************************************************)
EXTENDS Naturals, Sequences, SequencesExt, FiniteSets

CONSTANTS
    Docs,        \* the documents of the dataset
    Workers,     \* the Run loops of all ingestors
    Local,       \* those of the ingestor whose consumer rebuilds the dataset
    Items,       \* what may be compiled from a document
    Variant,     \* "wiki" or "structure"
    Changes,     \* what users do: a subset of {"parse", "toggle", "delete"}
    ClaimBatch,  \* claimBatchSize
    MaxEvents,   \* bound: events ever published
    MaxClaims,   \* bound: claims ever made
    MaxFaults,   \* bound: leases that expire while their worker goes on, and batches
                 \* and rebuilds that end in an error, a crash or a shutdown
    MaxRebuilds  \* bound: calls of RebuildDataset

ASSUME CompileAssumption ==
    /\ Local \subseteq Workers
    /\ Variant \in {"wiki", "structure"}
    /\ Changes \subseteq {"parse", "toggle", "delete"}
    /\ ClaimBatch \in Nat \ {0}
    /\ {MaxEvents, MaxClaims, MaxFaults, MaxRebuilds} \subseteq Nat

Retracting == {"deleted", "disabled"}

VARIABLES
    row,       \* the dataset's row of knowledge_compile_docs
    events,    \* every event published so far, in order
    docs,      \* per document: what its source compiles to, whether it is being
               \* parsed, enabled, deleted, and marked for a Wiki refresh
    prod,      \* per document: its document-level products
    merged,    \* per document: the dataset-level products it is a source of
    contrib,   \* per document: its Wiki contribution snapshot
    worker,    \* per worker: the batch it is processing
    rebuild,   \* the rebuild under way
    claims,    \* claims made so far: the last token
    lapses, fails, rebuilds,
    done,      \* history: the events a completed batch has covered
    writer     \* history: per document, the claim that last wrote `merged`

vars == <<row, events, docs, prod, merged, contrib, worker, rebuild, claims,
          lapses, fails, rebuilds, done, writer>>

store == <<merged, contrib, writer>>
bounds == <<lapses, fails, rebuilds>>

Idle == [pc |-> "idle", token |-> 0, batch |-> <<>>, upto |-> 0,
         affected |-> {}, current |-> [d \in Docs |-> {}],
         loaded |-> [d \in Docs |-> {}]]

Init ==
    /\ row = [backlog |-> <<>>, inflight |-> <<>>, token |-> 0, live |-> FALSE,
              state |-> "idle"]
    /\ events = <<>>
    /\ docs = [d \in Docs |-> [source |-> {}, parsing |-> FALSE, enabled |-> TRUE,
                               gone |-> FALSE, dirty |-> FALSE]]
    /\ prod = [d \in Docs |-> {}]
    /\ merged = [d \in Docs |-> {}]
    /\ contrib = [d \in Docs |-> {}]
    /\ worker = [w \in Workers |-> Idle]
    /\ rebuild = [pc |-> "idle", todo |-> {}, since |-> 0, fresh |-> 0]
    /\ claims = 0 /\ lapses = 0 /\ fails = 0 /\ rebuilds = 0
    /\ done = {}
    /\ writer = [d \in Docs |-> 0]

-----------------------------------------------------------------------------
(* Publishing: append under the row lock; a running dataset stays running. *)

PublishEntry(r, n) ==
    [r EXCEPT !.backlog = Append(@, n),
              !.state = IF @ = "running" THEN @ ELSE "pending"]

\* Bound: users change nothing more once MaxEvents events are published.
Room == Len(events) < MaxEvents

Publish(d, ev) ==
    /\ Room
    /\ events' = Append(events, [doc |-> d, ev |-> ev])
    /\ row' = PublishEntry(row, Len(events) + 1)

\* The pipeline loads the document and begins to parse it.
StartParse(d) ==
    /\ "parse" \in Changes /\ Room
    /\ ~docs[d].gone /\ ~docs[d].parsing
    /\ docs' = [docs EXCEPT ![d].parsing = TRUE]
    /\ UNCHANGED <<row, events, prod, store, worker, rebuild, claims, bounds, done>>

\* The pipeline has replaced the document's products and reports it, unless there
\* were and are none.  The document may have been disabled or deleted since.
Parse(d, new) ==
    /\ docs[d].parsing
    /\ docs' = [docs EXCEPT ![d].source = new, ![d].parsing = FALSE]
    /\ prod' = [prod EXCEPT ![d] = new]
    /\ IF new = {} /\ prod[d] = {}
       THEN UNCHANGED <<row, events>>
       ELSE Publish(d, "completed")
    /\ UNCHANGED <<store, worker, rebuild, claims, bounds, done>>

\* The user enables or disables the document: the Wiki refresh is requested and,
\* for a document with products, the change of availability published.
Toggle(d) ==
    /\ "toggle" \in Changes /\ Room
    /\ ~docs[d].gone
    /\ docs' = [docs EXCEPT ![d].enabled = ~@, ![d].dirty = (Variant = "wiki")]
    /\ IF prod[d] = {}
       THEN UNCHANGED <<row, events>>
       ELSE Publish(d, IF docs[d].enabled THEN "disabled" ELSE "enabled")
    /\ UNCHANGED <<prod, store, worker, rebuild, claims, bounds, done>>

\* The user deletes the document; a parse that is under way goes on.
Gone(d) ==
    /\ "delete" \in Changes
    /\ ~docs[d].gone
    /\ docs' = [docs EXCEPT ![d].gone = TRUE, ![d].dirty = FALSE]
    /\ Publish(d, "deleted")
    /\ UNCHANGED <<store, worker, rebuild, claims, bounds, done>>

\* deleteDocumentFull drops the document-level products before it publishes.  It is
\* refused while the ingestion task is running, but the task's row may be gone by then
\* (Ingestor, AskDelete), so a parse under way is no guard.
Delete(d) == Gone(d) /\ prod' = [prod EXCEPT ![d] = {}]

\* The replacement of a file leaves them to the consumer.
RemoveKeepFile(d) == Gone(d) /\ prod' = prod

\* The Wiki refresh recompiles the document from its enabled source chunks and
\* publishes the outcome unless there was and is nothing.
Refresh(d) ==
    LET new == IF docs[d].enabled THEN docs[d].source ELSE {}
    IN  /\ docs[d].dirty
        /\ docs' = [docs EXCEPT ![d].dirty = FALSE]
        /\ prod' = [prod EXCEPT ![d] = new]
        /\ IF new = {} /\ prod[d] = {}
           THEN UNCHANGED <<row, events>>
           ELSE Publish(d, "completed")
        /\ UNCHANGED <<store, worker, rebuild, claims, bounds, done>>

-----------------------------------------------------------------------------
(* The scheduling row. *)

LiveLease(r) == r.token # 0 /\ r.live

Claimable(r) == ~LiveLease(r) /\ r.backlog # <<>>

Released(r) == [r EXCEPT !.token = 0, !.live = FALSE]

\* claimRow's move of a batch from the backlog to inflight, which keeps what an
\* expired claim has left there.
ClaimRowDropping(r, token) ==
    LET n == IF Len(r.backlog) < ClaimBatch THEN Len(r.backlog) ELSE ClaimBatch
    IN  [r EXCEPT !.backlog = SubSeq(@, n + 1, Len(@)),
                  !.inflight = SubSeq(r.backlog, 1, n),
                  !.token = token, !.live = TRUE, !.state = "running"]

ClaimRow(r, token) ==
    LET n == IF Len(r.backlog) < ClaimBatch THEN Len(r.backlog) ELSE ClaimBatch
    IN  [r EXCEPT !.backlog = SubSeq(@, n + 1, Len(@)),
                  !.inflight = @ \o SubSeq(r.backlog, 1, n),
                  !.token = token, !.live = TRUE, !.state = "running"]

\* reclaimOne: the inflight entries of an expired claim go back to the backlog.
Reclaimable(r) == r.token # 0 /\ ~r.live /\ r.inflight # <<>>

Requeue(r) ==
    [Released(r) EXCEPT !.backlog = @ \o r.inflight, !.inflight = <<>>,
                        !.state = "pending"]

ReclaimNot(r) == r

Reclaim(r) == Requeue(r)

\* CancelInflight returns the batch of a live claim, and does nothing otherwise.
CancelInflight(r) == IF LiveLease(r) THEN Requeue(r) ELSE r

\* removeEntries matches by document and event type; what is left keeps its order.
RemoveEntries(inflight, batch) ==
    LET kept == {i \in DOMAIN inflight :
                    \A m \in ToSet(batch) : events[m] # events[inflight[i]]}
        nth(k) == CHOOSE i \in kept : Cardinality({j \in kept : j <= i}) = k
    IN  [k \in 1..Cardinality(kept) |-> inflight[nth(k)]]

AckRow(r, batch) ==
    LET left == RemoveEntries(r.inflight, batch)
        base == IF left = <<>> THEN Released(r) ELSE r
    IN  [base EXCEPT !.inflight = left,
                     !.state = IF r.backlog # <<>> THEN "pending" ELSE "completed"]

\* A worker's Claim, after a wake-up, or TryClaim: the row as it is when it has
\* a backlog and no live lease, otherwise the entries of an expired lease.
Ready == IF Claimable(row) THEN row ELSE Reclaim(row)

Claim(w) ==
    /\ worker[w].pc = "idle"
    /\ claims < MaxClaims
    /\ Claimable(row) \/ Reclaimable(row)
    /\ Claimable(Ready)
    /\ claims' = claims + 1
    /\ row' = ClaimRow(Ready, claims')
    /\ worker' = [worker EXCEPT ![w] =
         [Idle EXCEPT !.pc = "prepare", !.token = claims', !.upto = Len(events),
                      !.batch = SubSeq(Ready.backlog, 1,
                                       Len(Ready.backlog) - Len(row'.backlog))]]
    /\ UNCHANGED <<events, docs, prod, store, rebuild, bounds, done>>

\* The heartbeat of a worker that still holds the claim renews the lease, an
\* expired one too.
Touch(w) ==
    /\ worker[w].pc # "idle" /\ worker[w].token = row.token
    /\ ~row.live
    /\ row' = [row EXCEPT !.live = TRUE]
    /\ UNCHANGED <<events, docs, prod, store, worker, rebuild, claims, bounds, done>>

Held == \E w \in Workers : worker[w].pc # "idle" /\ worker[w].token = row.token

FaultLeft == lapses + fails < MaxFaults

\* Time: a lease expires once nobody renews it, or while its worker is stalled.
Expire ==
    /\ LiveLease(row)
    /\ Held => FaultLeft
    /\ lapses' = IF Held THEN lapses + 1 ELSE lapses
    /\ row' = [row EXCEPT !.live = FALSE]
    /\ UNCHANGED <<events, docs, prod, store, worker, rebuild, claims, fails,
                   rebuilds, done>>

-----------------------------------------------------------------------------
(* A worker's batch: processClaim and processBatch. *)

\* The last event of a document in the batch decides what is done for it.
WinningFirst(batch, d) ==
    LET idx == {i \in DOMAIN batch : events[batch[i]].doc = d}
    IN  events[batch[CHOOSE i \in idx : \A j \in idx : i <= j]].ev

Winning(batch, d) ==
    LET idx == {i \in DOMAIN batch : events[batch[i]].doc = d}
    IN  events[batch[CHOOSE i \in idx : \A j \in idx : j <= i]].ev

BatchDocs(w) == {events[n].doc : n \in ToSet(worker[w].batch)}
Deleted(w) == {d \in BatchDocs(w) : Winning(worker[w].batch, d) = "deleted"}
Retracted(w) == {d \in BatchDocs(w) : Winning(worker[w].batch, d) \in Retracting}
Completed(w) == BatchDocs(w) \ Retracted(w)

\* What the snapshot, or the merged page where there is none, says of a document.
Previous(d) == IF contrib[d] # {} THEN contrib[d] ELSE merged[d]

Wiki == Variant = "wiki"

Affected(w) ==
    {d \in BatchDocs(w) :
        Wiki /\ Previous(d) # (IF d \in Completed(w) THEN prod[d] ELSE {})}

Goto(w, pc) == worker' = [worker EXCEPT ![w].pc = pc]

\* A claim made while this consumer rebuilds the dataset is left alone.
LeavePaused(w) ==
    /\ worker[w].pc = "prepare"
    /\ w \in Local /\ rebuild.pc # "idle"
    /\ worker' = [worker EXCEPT ![w] = Idle]
    /\ UNCHANGED <<row, events, docs, prod, store, rebuild, claims, bounds, done>>

\* Classification and prepareWikiContributionDiff: the products of the completed
\* documents and the affected pages, read without the lock.
Prepare(w) ==
    /\ worker[w].pc = "prepare"
    /\ ~(w \in Local /\ rebuild.pc # "idle")
    /\ worker' = [worker EXCEPT ![w].affected = Affected(w),
                                ![w].current = [d \in Docs |->
                                     IF d \in Completed(w) THEN prod[d] ELSE {}],
                                ![w].pc =
                                     IF Retracted(w) = {} /\ Wiki /\ Affected(w) = {}
                                       THEN "ack"
                                     ELSE IF Deleted(w) # {} THEN "delete"
                                     ELSE IF Retracted(w) # {} THEN "strip"
                                     ELSE "load"]
    /\ UNCHANGED <<row, events, docs, prod, store, rebuild, claims, bounds, done>>

\* withWriteLock: the claim token is compared under the dataset row lock.
HoldsClaimAnyway(w) == TRUE

HoldsClaim(w) == worker[w].token = row.token

\* Affected pages that no document contributes to any more.
Missing(w) == {d \in worker[w].affected : worker[w].loaded[d] = {} /\ merged[d] # {}}

Superseded(w) ==
    /\ \/ worker[w].pc \in {"delete", "strip", "structure", "write", "project"}
       \/ worker[w].pc = "missing" /\ Missing(w) # {}
    /\ ~HoldsClaim(w)
    /\ worker' = [worker EXCEPT ![w] = Idle]
    /\ UNCHANGED <<row, events, docs, prod, store, rebuild, claims, bounds, done>>

\* DeleteDocLevelForDocs.
DeleteDocs(w) ==
    /\ worker[w].pc = "delete"
    /\ HoldsClaim(w)
    /\ prod' = [d \in Docs |-> IF d \in Deleted(w) THEN {} ELSE prod[d]]
    /\ Goto(w, "strip")
    /\ UNCHANGED <<row, events, docs, store, rebuild, claims, bounds, done>>

\* StripMergedSources and DeleteStructureForDocs: a row leaves with its last source.
Strip(w) ==
    /\ worker[w].pc = "strip"
    /\ HoldsClaim(w)
    /\ merged' = [d \in Docs |-> IF d \in Retracted(w) THEN {} ELSE merged[d]]
    /\ Goto(w, IF Completed(w) = {} /\ worker[w].affected = {}
               THEN "commit" ELSE "load")
    /\ UNCHANGED <<row, events, docs, prod, contrib, rebuild, claims, bounds, done,
                   writer>>

\* The products to merge: those read before, and the current document-level
\* pages of the affected slugs, whatever their document's status.
Load(w) ==
    /\ worker[w].pc = "load"
    /\ worker' = [worker EXCEPT ![w].loaded = [d \in Docs |->
                     IF Wiki
                     THEN IF d \in worker[w].affected THEN prod[d] ELSE {}
                     ELSE worker[w].current[d]],
                  ![w].pc = "structure"]
    /\ UNCHANGED <<row, events, docs, prod, store, rebuild, claims, bounds, done>>

Written(w) == {d \in Docs : worker[w].loaded[d] # {}}

\* The claims whose worker wrote the merged products of a document.
WrittenBy(w, written) ==
    writer' = [d \in Docs |-> IF d \in written THEN worker[w].token ELSE writer[d]]

\* mergeStructureDataset: the rows of the loaded items are written, with the document
\* among their sources; a row of an earlier parse keeps it.
MergeStructure(w) ==
    /\ worker[w].pc = "structure"
    /\ HoldsClaim(w)
    /\ IF Wiki
       THEN UNCHANGED <<merged, writer>>
       ELSE /\ merged' = [d \in Docs |-> merged[d] \cup worker[w].loaded[d]]
            /\ WrittenBy(w, Written(w))
    /\ Goto(w, "missing")
    /\ UNCHANGED <<row, events, docs, prod, contrib, rebuild, claims, bounds, done>>

\* deleteMissingScopedWikiPages takes the lock only when there is a page to drop.
DeleteMissing(w) ==
    /\ worker[w].pc = "missing"
    /\ Missing(w) # {} => HoldsClaim(w)
    /\ merged' = [d \in Docs |-> IF d \in Missing(w) THEN {} ELSE merged[d]]
    /\ Goto(w, "write")
    /\ UNCHANGED <<row, events, docs, prod, contrib, rebuild, claims, bounds, done,
                   writer>>

\* WriteMerged replaces the Wiki pages; of structure products there is nothing left.
Write(w) ==
    /\ worker[w].pc = "write"
    /\ HoldsClaim(w)
    /\ IF Wiki
       THEN /\ merged' = [d \in Docs |-> IF d \in Written(w) THEN worker[w].loaded[d]
                                          ELSE merged[d]]
            /\ WrittenBy(w, Written(w))
       ELSE UNCHANGED <<merged, writer>>
    /\ Goto(w, "project")
    /\ UNCHANGED <<row, events, docs, prod, contrib, rebuild, claims, bounds, done>>

\* ProjectWikiGraph: the graph is a projection of the merged pages.
Project(w) ==
    /\ worker[w].pc = "project"
    /\ HoldsClaim(w)
    /\ Goto(w, "commit")
    /\ UNCHANGED <<row, events, docs, prod, store, rebuild, claims, bounds, done>>

\* commitWikiContributions runs outside the lock.
Commit(w) ==
    /\ worker[w].pc = "commit"
    /\ contrib' = [d \in Docs |->
                     IF d \in Completed(w) /\ Wiki THEN worker[w].current[d]
                     ELSE IF d \in BatchDocs(w) THEN {}
                     ELSE contrib[d]]
    /\ Goto(w, "ack")
    /\ UNCHANGED <<row, events, docs, prod, merged, writer, rebuild, claims, bounds,
                   done>>

\* Ack succeeds only under the claim; the events it covers are those published
\* before the claim that equal one of the batch.
Ack(w) ==
    /\ worker[w].pc = "ack"
    /\ IF HoldsClaim(w)
       THEN /\ row' = AckRow(row, worker[w].batch)
            /\ done' = done \cup {n \in 1..worker[w].upto :
                         \E m \in ToSet(worker[w].batch) : events[m] = events[n]}
       ELSE UNCHANGED <<row, done>>
    /\ worker' = [worker EXCEPT ![w] = Idle]
    /\ UNCHANGED <<events, docs, prod, store, rebuild, claims, bounds>>

\* A step of the batch fails, the heartbeat has failed, or the process stops:
\* the batch stays inflight under its lease.
Fail(w) ==
    /\ worker[w].pc # "idle"
    /\ FaultLeft
    /\ fails' = fails + 1
    /\ worker' = [worker EXCEPT ![w] = Idle]
    /\ UNCHANGED <<row, events, docs, prod, store, rebuild, claims, lapses, rebuilds,
                   done>>

-----------------------------------------------------------------------------
(* RebuildDataset: pause and cancel, clear, list, republish. *)

RebuildBegin ==
    /\ rebuild.pc = "idle"
    /\ rebuilds < MaxRebuilds
    /\ rebuilds' = rebuilds + 1
    /\ rebuild' = [rebuild EXCEPT !.pc = "clear", !.since = claims]
    /\ row' = CancelInflight(row)
    /\ UNCHANGED <<events, docs, prod, store, worker, claims, lapses, fails, done>>

RebuildClear ==
    /\ rebuild.pc = "clear"
    /\ merged' = [d \in Docs |-> {}]
    /\ contrib' = [d \in Docs |-> {}]
    /\ writer' = [d \in Docs |-> 0]
    /\ rebuild' = [rebuild EXCEPT !.pc = "list", !.fresh = rebuild.since]
    /\ UNCHANGED <<row, events, docs, prod, worker, claims, bounds, done>>

RebuildList ==
    /\ rebuild.pc = "list"
    /\ rebuild' = [rebuild EXCEPT !.pc = "publish",
                     !.todo = {d \in Docs : ~docs[d].gone}]
    /\ UNCHANGED <<row, events, docs, prod, store, worker, claims, bounds, done>>

RebuildPublish(d) ==
    /\ rebuild.pc = "publish"
    /\ d \in rebuild.todo
    /\ IF prod[d] = {} THEN UNCHANGED <<row, events>> ELSE Publish(d, "completed")
    /\ rebuild' = [rebuild EXCEPT !.todo = @ \ {d}]
    /\ UNCHANGED <<docs, prod, store, worker, claims, bounds, done>>

\* The rebuild returns, having published all or after an error: the deferred
\* cleanup lifts the pause.
RebuildReturn ==
    /\ \/ rebuild.pc = "publish" /\ rebuild.todo = {} /\ fails' = fails
       \/ rebuild.pc # "idle" /\ FaultLeft /\ fails' = fails + 1
    /\ rebuild' = [rebuild EXCEPT !.pc = "idle", !.todo = {}]
    /\ UNCHANGED <<row, events, docs, prod, store, worker, claims, lapses, rebuilds,
                   done>>

-----------------------------------------------------------------------------

WorkStep(w) ==
    \/ Claim(w) \/ LeavePaused(w) \/ Prepare(w) \/ Superseded(w) \/ DeleteDocs(w)
    \/ Strip(w) \/ Load(w) \/ MergeStructure(w) \/ DeleteMissing(w) \/ Write(w)
    \/ Project(w) \/ Commit(w) \/ Ack(w)

Next ==
    \/ \E d \in Docs : \/ StartParse(d) \/ \E new \in SUBSET Items : Parse(d, new)
                       \/ Toggle(d) \/ Delete(d) \/ RemoveKeepFile(d) \/ Refresh(d)
                       \/ RebuildPublish(d)
    \/ \E w \in Workers : WorkStep(w) \/ Touch(w) \/ Fail(w)
    \/ Expire \/ RebuildBegin \/ RebuildClear \/ RebuildList \/ RebuildReturn

Spec == Init /\ [][Next]_vars

(***************************************************************************)
(* A worker loop polls and works on, a lease nobody renews expires, a       *)
(* rebuild goes on and a requested refresh is compiled.                     *)
(***************************************************************************)
FairSpec ==
    /\ Spec
    /\ \A w \in Workers : WF_vars(WorkStep(w)) /\ WF_vars(Touch(w))
    /\ WF_vars(Expire)
    /\ WF_vars(\/ RebuildClear \/ RebuildList \/ RebuildReturn
               \/ \E d \in Docs : RebuildPublish(d))
    /\ WF_vars(\E d \in Docs : Refresh(d))

-----------------------------------------------------------------------------

\* Every published event waits in the backlog, is inflight under a claim that a
\* lease ends, or was covered by a batch that was processed after it: no claim,
\* takeover, cancellation, failure or acknowledgement drops one.
NothingLost ==
    \A n \in 1..Len(events) :
        n \in ToSet(row.backlog) \cup ToSet(row.inflight) \cup done

Quiet ==
    /\ row.backlog = <<>> /\ row.inflight = <<>>
    /\ \A w \in Workers : worker[w].pc = "idle"
    /\ rebuild.pc = "idle"
    /\ \A d \in Docs : ~docs[d].dirty

\* Every batch so far has run through: none was taken over, cancelled, left to its
\* lease or ended by an error.
Undisturbed == lapses = 0 /\ fails = 0 /\ rebuilds = 0

\* The last event about the document asks for its products to be merged.
Included(d) ==
    \E n \in 1..Len(events) :
        /\ events[n].doc = d /\ events[n].ev \notin Retracting
        /\ \A m \in 1..Len(events) : events[m].doc = d => m <= n

\* What is merged of the document is what its last event asks for.
Answered(d) == IF Included(d) THEN prod[d] \subseteq merged[d] ELSE merged[d] = {}

\* The last event about a document decides, however the events were split into batches
\* and whatever happened to the document while a batch was being processed
\* (processBatch's winning event): once everything published has been processed, a
\* document last reported as completed or enabled has all its present products in the
\* dataset's structure products, and one last reported as deleted or disabled, or never
\* reported, is a source of none.  A batch that does not run through is requeued behind
\* later events, so the statement is about those that do; Wiki pages are merged against
\* snapshots that may be of another parse, and products of an earlier parse stay
\* (README, section 3).
LastEventDecides == ~Wiki /\ Undisturbed /\ Quiet => \A d \in Docs : Answered(d)

\* A rebuild's clearing is final: what is merged after it was merged under a claim
\* made after the rebuild had cancelled the claims of before (CancelInflight and the
\* token comparison of withWriteLock), unless a lease had lapsed: CancelInflight
\* leaves an expired claim its token.
RebuiltIsFresh == lapses = 0 => \A d \in Docs : writer[d] = 0 \/ writer[d] > rebuild.fresh

\* Every published event is eventually processed, although batches fail and leases
\* lapse (Reclaim, and the polling of Run).
EventsSettle == []<>(row.backlog = <<>> /\ row.inflight = <<>>)

-----------------------------------------------------------------------------
(* What the documentation or a comment says and the code does not do: see the
   README, section 3.  No run checks these. *)

\* What is merged of a document is what the document, while it exists and is enabled,
\* compiles to.  (The code does not keep this, even where every batch runs through: a
\* parse that ends after a disabling or a deletion reports the document as completed,
\* and the structure rows of an earlier parse stay.)
Current ==
    \A d \in Docs :
        merged[d] = IF docs[d].gone \/ ~docs[d].enabled THEN {} ELSE docs[d].source

\* A dataset reported as completed has no claimed work left.  (The code does not
\* keep this: an acknowledgement looks at the backlog only.)
CompletedIsDrained == row.state = "completed" => row.inflight = <<>>

\* A Wiki contribution snapshot changes only under the claim that is current, or
\* when a rebuild clears the dataset.  (The code does not keep this:
\* commitWikiContributions runs outside the write lock.)
SnapshotsAreFenced ==
    [][contrib' # contrib =>
         \/ rebuild.pc = "clear"
         \/ \E w \in Workers : worker'[w] # worker[w] /\ HoldsClaim(w)]_vars
=============================================================================
