------------------------------ MODULE WikiProofs ------------------------------
(***************************************************************************)
(* The Wiki refresh for any number of ingestors, changes, expired leases   *)
(* and failures: the dirty row goes away only with a refresh that has read *)
(* the latest change.                                                      *)
(*                                                                         *)
(* The revision alone does not tell one row from the next, because it      *)
(* starts again at 1.  What does is the owner: a mark takes it away, and   *)
(* an ingestor gets it back only by a claim, which reads again.            *)
(***************************************************************************)
EXTENDS WikiDirty, TLAPS

RowType == [revision : Nat, state : {"pending", "running"}, owner : Procs \cup {""},
            due : BOOLEAN, live : BOOLEAN]

ProcType == [pc : {"idle", "read", "check", "replace", "finish"}, revision : Nat,
             read : Nat]

\* The variables the invariant reads have their types.
Typed == source \in Nat /\ row \in RowType /\ proc \in [Procs -> ProcType]

\* The owner of the row has read the latest change once it has read at all.
OwnerIsCurrent ==
    \A p \in Procs : row.owner = p /\ proc[p].pc \in {"check", "replace", "finish"} =>
        proc[p].read = source

\* The inductive invariant.
DirtyInv == Typed /\ OwnerIsCurrent /\ MarkKept

\* Every step of the changes, the clock and the ingestors keeps it.
LEMMA DirtyStep == DirtyInv /\ [Next]_vars => DirtyInv'
<1> SUFFICES ASSUME DirtyInv, [Next]_vars PROVE DirtyInv'
  OBVIOUS
<1>1. CASE Mark
  <2>1. row' = [NoRow EXCEPT !.revision = row.revision + 1]
    BY <1>1 DEF Mark
  <2>0. row.revision \in Nat
    BY DEF DirtyInv, Typed, RowType
  <2>2. row.revision + 1 \in Nat /\ row.revision + 1 # 0
    BY <2>0
  <2>3. ASSUME NEW n \in Nat PROVE [NoRow EXCEPT !.revision = n] \in RowType
    BY DEF NoRow, RowType
  <2>4. row' \in RowType /\ row'.revision # 0 /\ row'.owner = ""
    BY <2>1, <2>2, <2>3 DEF NoRow
  <2>5. source' \in Nat /\ UNCHANGED <<proc, compiled>>
    BY <1>1 DEF Mark, DirtyInv, Typed
  <2> QED
    BY <2>4, <2>5, DirtyAssumption DEF DirtyInv, Typed, OwnerIsCurrent, MarkKept
<1> USE DirtyAssumption DEF DirtyInv, Typed, OwnerIsCurrent, MarkKept, RowType, ProcType, NoRow, Idle
<1>2. CASE Due
  BY <1>2 DEF Due
<1>3. CASE Expire
  BY <1>3 DEF Expire
<1>4. ASSUME NEW p \in Procs, Claim(p) PROVE DirtyInv'
  <2>1. /\ UNCHANGED <<source, compiled>> /\ row.revision # 0
        /\ row' = [row EXCEPT !.state = "running", !.owner = p, !.live = TRUE]
        /\ proc' = [proc EXCEPT ![p] = [Idle EXCEPT !.pc = "read", !.revision = row.revision]]
    BY <1>4 DEF Claim
  <2>2. row' \in RowType /\ row'.revision = row.revision /\ row'.owner = p
    BY <2>1
  <2>3. [Idle EXCEPT !.pc = "read", !.revision = row.revision] \in ProcType
    OBVIOUS
  <2>4. proc' \in [Procs -> ProcType] /\ proc'[p].pc = "read"
    BY <2>1, <2>3
  <2> QED
    BY <2>1, <2>2, <2>4
<1>5. ASSUME NEW p \in Procs, Read(p) PROVE DirtyInv'
  BY <1>5 DEF Read
<1>6. ASSUME NEW p \in Procs, Check(p) PROVE DirtyInv'
  BY <1>6 DEF Check
<1>7. ASSUME NEW p \in Procs, Replace(p) PROVE DirtyInv'
  BY <1>7 DEF Replace
<1>8. ASSUME NEW p \in Procs, Finish(p) PROVE DirtyInv'
  <2>1. proc' \in [Procs -> ProcType]
    BY <1>8 DEF Finish
  <2>2. CASE Owns(p)
    <3>1. row' = NoRow /\ source' = source /\ compiled' = source
      BY <1>8, <2>2 DEF Finish, Owns
    <3>2. row' \in RowType /\ row'.owner = ""
      BY <3>1
    <3> QED
      BY <2>1, <3>1, <3>2
  <2>3. CASE ~Owns(p)
    BY <1>8, <2>1, <2>3 DEF Finish
  <2> QED
    BY <2>2, <2>3
<1>9. ASSUME NEW p \in Procs, Fail(p) PROVE DirtyInv'
  BY <1>9 DEF Fail, Owns
<1>10. ASSUME NEW p \in Procs, Crash(p) PROVE DirtyInv'
  BY <1>10 DEF Crash
<1>11. CASE UNCHANGED vars
  BY <1>11 DEF vars
<1> QED
  BY <1>1, <1>2, <1>3, <1>4, <1>5, <1>6, <1>7, <1>8, <1>9, <1>10, <1>11 DEF Next, Work

\* No mark is removed by a refresh of before it: neither by one that lost its lease
\* during a compilation, nor by one whose revision number is in use again.
THEOREM MarksAreKept == Spec => []MarkKept
<1>1. Init => DirtyInv
  <2> SUFFICES ASSUME Init PROVE DirtyInv
    OBVIOUS
  <2>1. row \in RowType /\ source = 0 /\ compiled = 0
    BY DEF Init, RowType, NoRow
  <2>2. proc \in [Procs -> ProcType] /\ \A p \in Procs : proc[p].pc = "idle"
    BY DEF Init, ProcType, Idle
  <2> QED
    BY <2>1, <2>2 DEF DirtyInv, Typed, OwnerIsCurrent, MarkKept
<1>2. DirtyInv => MarkKept
  BY DEF DirtyInv
<1> QED
  BY <1>1, <1>2, DirtyStep, PTL DEF Spec
===============================================================================
