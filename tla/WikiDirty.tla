------------------------------ MODULE WikiDirty ------------------------------
(***************************************************************************)
(* The debounced Wiki refresh of one document (wiki_dirty.go, and           *)
(* replaceDirtyWikiProducts of task/knowledge_compiler_wiring.go): the      *)
(* durable dirty row that every change of the document's chunks marks, and  *)
(* the dirty workers of the ingestors, one each, that claim and compile it. *)
(*                                                                          *)
(* The content of the document is the number of changes made to it.  The    *)
(* row's revision starts again at 1 whenever the row has been deleted.      *)
(***************************************************************************)
EXTENDS Naturals

CONSTANTS
    Procs,       \* the ingestors; each names itself as the owner of its claims
    MaxChanges,  \* bound: changes of the document
    MaxExpiries, \* bound: leases that expire while their worker compiles
    MaxFails     \* bound: compilations that fail or die with their process

ASSUME DirtyAssumption ==
    /\ "" \notin Procs   \* the claim_owner of a row that nobody has claimed
    /\ {MaxChanges, MaxExpiries, MaxFails} \subseteq Nat

VARIABLES
    source,    \* changes made so far
    row,       \* the document's dirty row; revision 0 when there is none
    prod,      \* the change the document's Wiki products were compiled from
    proc,      \* per ingestor: the refresh it works on
    expiries, fails,
    compiled   \* history: what the refresh that removed the row last had read

vars == <<source, row, prod, proc, expiries, fails, compiled>>

NoRow == [revision |-> 0, state |-> "pending", owner |-> "", due |-> FALSE,
          live |-> FALSE]

Idle == [pc |-> "idle", revision |-> 0, read |-> 0]

Init ==
    /\ source = 0 /\ prod = 0 /\ compiled = 0
    /\ row = NoRow
    /\ proc = [p \in Procs |-> Idle]
    /\ expiries = 0 /\ fails = 0

\* Chunks of the document change and MarkWikiDocumentDirty records it: a new
\* revision, due twenty seconds later, taken from whoever is compiling.
Mark ==
    /\ source < MaxChanges
    /\ source' = source + 1
    /\ row' = [NoRow EXCEPT !.revision = row.revision + 1]
    /\ UNCHANGED <<prod, proc, expiries, fails, compiled>>

\* Time: the row's run_after passes.
Due ==
    /\ row.revision # 0 /\ ~row.due
    /\ row' = [row EXCEPT !.due = TRUE]
    /\ UNCHANGED <<source, prod, proc, expiries, fails, compiled>>

Compiling == \E p \in Procs : proc[p].pc # "idle" /\ p = row.owner

\* Time: a claim's ten minutes pass; nothing renews it.
Expire ==
    /\ row.state = "running" /\ row.live
    /\ Compiling => expiries < MaxExpiries
    /\ expiries' = IF Compiling THEN expiries + 1 ELSE expiries
    /\ row' = [row EXCEPT !.live = FALSE]
    /\ UNCHANGED <<source, prod, proc, fails, compiled>>

ClaimablePending(r) == r.due /\ r.state = "pending"

Claimable(r) == r.due /\ (r.state = "pending" \/ (r.state = "running" /\ ~r.live))

\* claimWikiDirty.
Claim(p) ==
    /\ proc[p].pc = "idle"
    /\ row.revision # 0 /\ Claimable(row)
    /\ row' = [row EXCEPT !.state = "running", !.owner = p, !.live = TRUE]
    /\ proc' = [proc EXCEPT ![p] = [Idle EXCEPT !.pc = "read",
                                                !.revision = row.revision]]
    /\ UNCHANGED <<source, prod, expiries, fails, compiled>>

\* The compiler reads the active chunks and compiles them.
Read(p) ==
    /\ proc[p].pc = "read"
    /\ proc' = [proc EXCEPT ![p].pc = "check", ![p].read = source]
    /\ UNCHANGED <<source, row, prod, expiries, fails, compiled>>

\* replaceDirtyWikiProducts gives up, without an error, on a row that is gone or
\* of another revision.
Check(p) ==
    /\ proc[p].pc = "check"
    /\ proc' = [proc EXCEPT ![p].pc =
                   IF row.revision = proc[p].revision THEN "replace" ELSE "finish"]
    /\ UNCHANGED <<source, row, prod, expiries, fails, compiled>>

Replace(p) ==
    /\ proc[p].pc = "replace"
    /\ prod' = proc[p].read
    /\ proc' = [proc EXCEPT ![p].pc = "finish"]
    /\ UNCHANGED <<source, row, expiries, fails, compiled>>

\* The row is deleted, or put back after an error, only by the owner of the
\* claim and at the revision it claimed.
OwnsAnyOwner(p) == row.revision # 0 /\ row.revision = proc[p].revision

Owns(p) ==
    /\ row.revision # 0 /\ row.revision = proc[p].revision
    /\ row.owner = p

Finish(p) ==
    /\ proc[p].pc = "finish"
    /\ IF Owns(p) THEN row' = NoRow /\ compiled' = proc[p].read
       ELSE UNCHANGED <<row, compiled>>
    /\ proc' = [proc EXCEPT ![p] = Idle]
    /\ UNCHANGED <<source, prod, expiries, fails>>

Fail(p) ==
    /\ proc[p].pc \in {"read", "check", "replace"}
    /\ fails < MaxFails
    /\ fails' = fails + 1
    /\ row' = IF Owns(p) THEN [NoRow EXCEPT !.revision = row.revision] ELSE row
    /\ proc' = [proc EXCEPT ![p] = Idle]
    /\ UNCHANGED <<source, prod, expiries, compiled>>

\* The process dies: the row keeps its claim.
Crash(p) ==
    /\ proc[p].pc # "idle"
    /\ fails < MaxFails
    /\ fails' = fails + 1
    /\ proc' = [proc EXCEPT ![p] = Idle]
    /\ UNCHANGED <<source, row, prod, expiries, compiled>>

Work(p) == Claim(p) \/ Read(p) \/ Check(p) \/ Replace(p) \/ Finish(p)

Next ==
    \/ Mark \/ Due \/ Expire
    \/ \E p \in Procs : Work(p) \/ Fail(p) \/ Crash(p)

Spec == Init /\ [][Next]_vars

(* Time passes, and every ingestor's dirty worker polls and works on. *)
FairSpec ==
    Spec /\ WF_vars(Due) /\ WF_vars(Expire) /\ \A p \in Procs : WF_vars(Work(p))

-----------------------------------------------------------------------------

\* The row goes away only with a refresh that has read the latest change: no
\* mark made during a compilation, after a lost lease or after a restart of the
\* revision is removed by a refresh of before.
MarkKept == row.revision = 0 => compiled = source

\* Every mark is eventually answered, whichever refresh fails or dies.
MarkAnswered == []<>(row.revision = 0)
=============================================================================
