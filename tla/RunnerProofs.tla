----------------------------- MODULE RunnerProofs -----------------------------
(***************************************************************************)
(* The runs of a sync task for any number of batches, any choice of the    *)
(* batches that carry a checkpoint and any restart budget: a checkpoint    *)
(* covers what it skips, a completed task is whole, and the runs implement *)
(* the checkpoint contract of WindowSync.                                  *)
(*                                                                         *)
(* The invariant follows a run between its checkpoints: while a run is     *)
(* under way its state is the saved one, its stats count the collected     *)
(* batches once, the batches between anchor and the last result all went   *)
(* well unless an error is noted, and a job that went well was stored.     *)
(***************************************************************************)
EXTENDS SyncRunner, TLAPS

\* A run is under way and has not committed.
Running == pc \in {"opening", "reading", "drain", "ended", "committing"}

\* The run's session is open.
InSession == pc \in {"reading", "drain", "ended", "committing"}

\* The saved state covers what it skips.
Covered(s) == 1..s.anchor \subseteq written /\ s.counted = Upto(s.anchor)

\* The run's state is the saved one, and the row was not completed by another.
Saved == Running => store = mem /\ status # "done"

\* How far reading and collecting are.
Progress ==
    InSession =>
        /\ mem.anchor <= got /\ got < next
        /\ stats = Upto(got)
        /\ \A b \in Batches : result[b] = "ok" => b \in written
        /\ ~bad => \A b \in Batches : mem.anchor < b /\ b <= got => result[b] = "ok"

\* The whole window was read, and then collected without an error.
AtEnd ==
    /\ pc \in {"ended", "committing"} => next = N + 1
    /\ pc = "committing" => got = N /\ ~bad

\* The inductive invariant.
RunInv == CheckpointCovers /\ CompleteIsWhole /\ Saved /\ Progress /\ AtEnd

------------------------------------------------------------------------------
(* Types. *)

\* Every step keeps every variable in its type.
LEMMA RunnerType == TypeOK /\ [Next]_vars => TypeOK'
<1> SUFFICES ASSUME TypeOK, [Next]_vars PROVE TypeOK'
    OBVIOUS
<1> USE RunnerAssumption DEF session, row
<1>0. Fresh \in States /\ None \in Counts /\ NoResults \in [Batches -> {"none", "ok", "failed"}]
    BY DEF Fresh, None, NoResults, States, Counts, Batches
<1>1. CASE Prepare
  <2>1. mem' \in States /\ store' \in States \cup {NoState} /\ written' \subseteq Batches
      BY <1>1, <1>0 DEF TypeOK, Prepare, Save, Begin
  <2> QED
      BY <1>1, <2>1 DEF TypeOK, Prepare, Save, Begin
<1>2. CASE Open
  <2>1. mem.anchor \in 0..N /\ mem.counted \in Counts
      BY DEF TypeOK, States
  <2>2. next' \in 1..(N + 1) /\ got' \in 0..N /\ stats' \in Counts /\ bad' = FALSE /\ lost' = FALSE
      BY <1>2, <2>1 DEF Open, Reopened
  <2>3. result' \in [Batches -> {"none", "ok", "failed"}]
      BY <1>2, <1>0 DEF Open, Reopened
  <2> QED
      BY <1>2, <2>2, <2>3 DEF TypeOK, Open
<1>3. ASSUME Reset, UNCHANGED <<stats, session, row>> PROVE TypeOK'
  <2>0. mem.restarts \in 0..MaxRestarts /\ mem.restarts < MaxRestarts
      BY <1>3 DEF TypeOK, Reset, States
  <2>01. mem.restarts + 1 \in 0..MaxRestarts /\ 0 \in 0..N
      BY <2>0
  <2>1. mem' \in States
      BY <1>3, <1>0, <2>01 DEF Reset, States
  <2> QED
      BY <1>3, <2>1 DEF TypeOK, Reset, Save, Begin
<1>4. CASE OpenInvalid \/ Restart
    BY <1>3, <1>4 DEF OpenInvalid, Restart
<1>5. CASE NextBatch
    BY <1>5 DEF TypeOK, NextBatch, Batches
<1>6. CASE SourceEnds \/ SourceFails \/ WindowEnds \/ RunFails \/ CutShort \/ Cancel
    BY <1>6 DEF TypeOK, SourceEnds, SourceFails, WindowEnds, RunFails, CutShort, Cancel
<1>7. ASSUME NEW b \in Batches, JobReturns(b) PROVE TypeOK'
    BY <1>7 DEF TypeOK, JobReturns
<1>8. CASE Collect
  <2>1. got + 1 \in Batches /\ got' = got + 1
      BY <1>8 DEF TypeOK, Collect, Batches
  <2>2. stats' \in Counts
      BY <1>8, <2>1 DEF TypeOK, Collect, Counts
  <2>3. mem' \in States
    <3>1. mem \in States /\ got + 1 \in 0..N
        BY <2>1 DEF TypeOK, Batches
    <3>2. mem' = mem \/ mem' = [mem EXCEPT !.anchor = got + 1, !.counted = stats']
        BY <1>8 DEF Collect
    <3> QED
        BY <2>2, <3>1, <3>2 DEF States
  <2>4. store' \in {store, mem'} /\ pc' \in {pc, "idle"}
      BY <1>8 DEF Collect, Save
  <2>5. bad' \in BOOLEAN /\ UNCHANGED <<next, result, lost, written, status, reported>>
      BY <1>8 DEF Collect, TypeOK
  <2>6. got' \in 0..N
      BY <2>1 DEF Batches
  <2> QED
      BY <2>2, <2>3, <2>4, <2>5, <2>6 DEF TypeOK
<1>9. CASE CompleteSync
    BY <1>9 DEF TypeOK, CompleteSync
<1>10. CASE DeleteCheckpoint \/ StateExpires
    BY <1>10 DEF TypeOK, DeleteCheckpoint, StateExpires
<1>11. CASE UNCHANGED vars
    BY <1>11 DEF TypeOK, vars
<1> QED
    BY <1>1, <1>2, <1>4, <1>5, <1>6, <1>7, <1>8, <1>9, <1>10, <1>11 DEF Next

------------------------------------------------------------------------------
(* The invariant. *)

\* A state that begins a listing covers nothing.
LEMMA BeginCovers ==
    ASSUME RunnerAssumption, TypeOK, NEW s \in States, s.anchor = 0, s.counted = None
    PROVE  1..s.anchor = {} /\ s.counted = Upto(s.anchor)
<1>1. 1..0 = {}
    OBVIOUS
<1>2. None = Upto(0)
    BY DEF None, Upto, Batches
<1> QED
    BY <1>1, <1>2

\* Starting over keeps the invariant.
LEMMA ResetKeeps ==
    ASSUME TypeOK, RunInv, Running, Reset, UNCHANGED <<stats, session, row>>
    PROVE  RunInv'
<1> USE RunnerAssumption, NoStateAssumption DEF session, row
<1>1. mem' \in States /\ mem'.anchor = 0 /\ mem'.counted = None
    BY DEF Reset, States, TypeOK, Batches, Counts, None
<1>2. 1..mem'.anchor = {} /\ mem'.counted = Upto(mem'.anchor)
    BY <1>1, BeginCovers
<1>3. status # "done" /\ status' = status /\ store = mem
    BY DEF RunInv, Saved
<1>4. \/ store' = mem' /\ written' = {} /\ pc' \in {"opening", "idle"}
      \/ store' = store /\ written' \in {written, {}} /\ pc' = "idle" /\ (written' = {} => store' = mem' \/ written = {})
    BY DEF Reset, Begin, Save
<1>5. CheckpointCovers'
  <2>1. CASE store' = mem'
      BY <2>1, <1>2 DEF CheckpointCovers, Upto
  <2>2. CASE store' = store /\ written' = written
      BY <2>2, <1>3 DEF RunInv, CheckpointCovers, Upto
  <2> QED
      BY <1>4, <2>1, <2>2
<1>6. CompleteIsWhole'
    BY <1>3 DEF CompleteIsWhole
<1>7. Saved' /\ Progress' /\ AtEnd'
    BY <1>3, <1>4 DEF Saved, Progress, AtEnd, Running, InSession
<1> QED
    BY <1>5, <1>6, <1>7 DEF RunInv

\* Every step of a run keeps the invariant.
LEMMA RunStep == TypeOK /\ RunInv /\ [Next]_vars => RunInv'
<1> SUFFICES ASSUME TypeOK, RunInv, [Next]_vars PROVE RunInv'
    OBVIOUS
<1> USE RunnerAssumption, NoStateAssumption DEF session, row
<1>1. CASE Prepare
  <2>1. status = "open" /\ status' = status /\ reported' = reported /\ pc = "idle" /\ pc' \in {"opening", "idle"}
      BY <1>1 DEF Prepare, Save, Begin
  <2>2. CASE store # NoState
    <3>1. mem' = store /\ store' = store /\ written' = written
        BY <1>1, <2>2 DEF Prepare
    <3> QED
        BY <2>1, <3>1 DEF RunInv, CheckpointCovers, CompleteIsWhole, Saved, Progress, AtEnd, Running, InSession, Upto
  <2>3. CASE store = NoState
    <3>1. mem' = Fresh /\ Save(Fresh, "opening")
          /\ written' = IF store' = Fresh THEN {} ELSE written
        BY <1>1, <2>3 DEF Prepare, Begin
    <3>2. Fresh \in States /\ Fresh.anchor = 0 /\ Fresh.counted = None
        BY DEF Fresh, States, None, Counts, Batches
    <3>3. 1..Fresh.anchor = {} /\ Fresh.counted = Upto(Fresh.anchor)
        BY <3>2, BeginCovers
    <3>4. store' = NoState \/ store' = Fresh
        BY <3>1, <2>3 DEF Save
    <3>5. CheckpointCovers'
        BY <3>3, <3>4 DEF CheckpointCovers, Upto
    <3>6. Saved'
        BY <2>1, <3>1 DEF Saved, Save, Running
    <3> QED
        BY <2>1, <3>5, <3>6 DEF RunInv, CompleteIsWhole, Progress, AtEnd, InSession
  <2> QED
      BY <2>2, <2>3
<1>2. CASE Open
  <2>1. /\ pc = "opening" /\ pc' = "reading" /\ UNCHANGED <<store, mem, written, status, reported>>
        /\ stats' = mem.counted /\ next' = mem.anchor + 1 /\ got' = mem.anchor
        /\ result' = NoResults /\ bad' = FALSE
      BY <1>2 DEF Open, Reopened
  <2>2. store = mem /\ status # "done" /\ mem \in States
      BY <2>1 DEF RunInv, Saved, Running, TypeOK
  <2>3. mem.anchor \in Nat /\ mem.counted = Upto(mem.anchor)
      BY <2>2 DEF RunInv, CheckpointCovers, States
  <2>4. \A b \in Batches : result'[b] # "ok" /\ ~(mem.anchor < b /\ b <= mem.anchor)
      BY <2>1, <2>3 DEF NoResults, Batches
  <2>5. Progress'
      BY <2>1, <2>3, <2>4 DEF Progress, Upto
  <2> QED
      BY <2>1, <2>2, <2>5 DEF RunInv, CheckpointCovers, CompleteIsWhole, Saved, AtEnd, Running, Upto
<1>3. CASE OpenInvalid \/ Restart
    BY <1>3, ResetKeeps DEF OpenInvalid, Restart, Running
<1>4. CASE NextBatch
    BY <1>4 DEF NextBatch, TypeOK, RunInv, CheckpointCovers, CompleteIsWhole, Saved, Progress, AtEnd,
                Running, InSession, Upto, Batches
<1>5. CASE SourceEnds \/ SourceFails \/ RunFails \/ CutShort
    BY <1>5 DEF SourceEnds, SourceFails, RunFails, CutShort, RunInv, CheckpointCovers, CompleteIsWhole,
                Saved, Progress, AtEnd, Running, InSession, Upto
<1>6. ASSUME NEW b \in Batches, JobReturns(b) PROVE RunInv'
  <2>1. /\ pc # "idle" /\ written \subseteq written' /\ written' \subseteq written \cup {b}
        /\ result' \in {[result EXCEPT ![b] = "ok"], [result EXCEPT ![b] = "failed"]}
        /\ result[b] = "none" /\ got < b
        /\ (result' = [result EXCEPT ![b] = "ok"] => b \in written')
        /\ UNCHANGED <<pc, store, mem, stats, next, got, bad, lost, status, reported>>
      BY <1>6 DEF JobReturns, TypeOK
  <2>2. CheckpointCovers'
      BY <2>1 DEF RunInv, CheckpointCovers, Upto
  <2>3. CompleteIsWhole'
      BY <2>1 DEF RunInv, CompleteIsWhole, TypeOK, Upto
  <2>4. Saved' /\ AtEnd'
      BY <2>1 DEF RunInv, Saved, AtEnd, Running
  <2>5. Progress'
    <3> SUFFICES ASSUME InSession PROVE Progress'
        BY <2>1 DEF Progress, InSession
    <3>1. \A c \in Batches : c # b => result'[c] = result[c]
        BY <2>1 DEF TypeOK
    <3>2. result'[b] = "ok" => b \in written'
        BY <2>1 DEF TypeOK
    <3>3. \A c \in Batches : result'[c] = "ok" => c \in written'
        BY <3>1, <3>2, <2>1 DEF RunInv, Progress
    <3>4. ~bad => \A c \in Batches : mem.anchor < c /\ c <= got => result'[c] = "ok"
        BY <3>1, <2>1 DEF RunInv, Progress, TypeOK, Batches
    <3> QED
        BY <3>3, <3>4, <2>1 DEF RunInv, Progress, InSession, Upto
  <2> QED
      BY <2>2, <2>3, <2>4, <2>5 DEF RunInv
<1>7. CASE Collect
  <2> DEFINE b == got + 1
  <2>1. /\ pc \in {"drain", "ended"} /\ b < next /\ result[b] # "none" /\ got' = b
        /\ stats' = [stats EXCEPT ![b] = @ + 1]
        /\ bad' = (bad \/ result[b] = "failed")
        /\ UNCHANGED <<next, result, lost, written, status, reported>>
      BY <1>7 DEF Collect
  <2>2. b \in Batches /\ got \in Nat /\ next \in Nat
      BY <2>1 DEF TypeOK, Batches
  <2>3. /\ store = mem /\ status # "done" /\ mem.anchor <= got /\ stats = Upto(got)
        /\ (\A c \in Batches : result[c] = "ok" => c \in written)
        /\ (~bad => \A c \in Batches : mem.anchor < c /\ c <= got => result[c] = "ok")
      BY <2>1 DEF RunInv, Saved, Progress, Running, InSession
  <2>4. stats' = Upto(b)
    <3>1. stats' = [c \in Batches |-> IF c = b THEN stats[c] + 1 ELSE stats[c]]
        BY <2>1, <2>2, <2>3 DEF Upto
    <3>2. \A c \in Batches : stats[c] = IF c <= got THEN 1 ELSE 0
        BY <2>3 DEF Upto
    <3>3. \A c \in Batches : (IF c = b THEN stats[c] + 1 ELSE stats[c]) = IF c <= b THEN 1 ELSE 0
        BY <3>2, <2>2 DEF Batches
    <3> QED
        BY <3>1, <3>3 DEF Upto
  <2>5. mem.anchor \in Nat /\ mem \in States
      BY DEF TypeOK, States
  <2>6. CASE MayCommit(b)
    <3>1. ~bad /\ result[b] = "ok" /\ mem' = [mem EXCEPT !.anchor = b, !.counted = stats'] /\ Save(mem', pc)
        BY <1>7, <2>6 DEF Collect, MayCommit
    <3>2. mem'.anchor = b /\ mem'.counted = Upto(b)
        BY <3>1, <2>4, <2>5 DEF States
    <3>3. 1..mem.anchor \subseteq written
      <4>1. store # NoState
          BY <2>3, <2>5
      <4> QED
          BY <4>1, <2>3 DEF RunInv, CheckpointCovers
    <3>4. 1..b \subseteq written
      <4> SUFFICES ASSUME NEW c \in 1..b PROVE c \in written
          OBVIOUS
      <4>1. c \in Batches
          BY <2>2 DEF Batches
      <4>2. CASE c <= mem.anchor
          BY <4>2, <3>3, <2>5
      <4>3. CASE mem.anchor < c /\ c <= got
          BY <4>1, <4>3, <3>1, <2>3
      <4>4. CASE c = b
          BY <4>1, <4>4, <3>1, <2>3
      <4> QED
          BY <4>2, <4>3, <4>4, <2>2, <2>5
    <3>5. store' \in {mem', store} /\ pc' \in {pc, "idle"} /\ (pc' # "idle" => store' = mem')
        BY <3>1, <2>1 DEF Save
    <3>6. CheckpointCovers'
      <4>1. CASE store' = mem'
          BY <4>1, <3>2, <3>4, <2>1 DEF CheckpointCovers, Upto
      <4>2. CASE store' = store
          BY <4>2, <2>1 DEF RunInv, CheckpointCovers, Upto
      <4> QED
          BY <3>5, <4>1, <4>2
    <3>7. CompleteIsWhole' /\ Saved' /\ AtEnd'
        BY <2>1, <2>3, <3>5 DEF RunInv, CompleteIsWhole, Saved, AtEnd, Running, Upto
    <3>8. Progress'
      <4>0. mem'.anchor <= got' /\ got' < next'
          BY <2>1, <2>2, <3>2
      <4>1. mem'.anchor <= got' /\ got' < next' /\ stats' = Upto(got')
          BY <2>1, <2>4, <4>0, Zenon
      <4>2. \A c \in Batches : ~(mem'.anchor < c /\ c <= got')
          BY <2>1, <2>2, <3>2 DEF Batches
      <4> QED
          BY <2>1, <2>3, <4>1, <4>2 DEF Progress, Upto
    <3> QED
        BY <3>6, <3>7, <3>8 DEF RunInv
  <2>7. CASE ~MayCommit(b)
    <3>1. UNCHANGED <<mem, store, pc>>
        BY <1>7, <2>7 DEF Collect
    <3>2. Progress'
      <4>1. ~bad' => result[b] = "ok"
          BY <2>1, <2>2 DEF TypeOK
      <4>20. mem'.anchor <= got' /\ got' < next'
          BY <2>1, <2>2, <2>3, <2>5, <3>1
      <4>2. mem'.anchor <= got' /\ got' < next' /\ stats' = Upto(got')
          BY <2>1, <2>4, <4>20, Zenon
      <4>3. \A c \in Batches : c <= got' => c <= got \/ c = b
          BY <2>1, <2>2 DEF Batches
      <4>4. ~bad' => ~bad
          BY <2>1 DEF TypeOK
      <4>5. ~bad' => \A c \in Batches : mem'.anchor < c /\ c <= got' => result'[c] = "ok"
          BY <2>1, <2>3, <3>1, <4>1, <4>3, <4>4
      <4> QED
          BY <2>1, <2>3, <4>2, <4>5 DEF Progress, Upto
    <3> QED
        BY <2>1, <2>3, <3>1, <3>2 DEF RunInv, CheckpointCovers, CompleteIsWhole, Saved, AtEnd, Running, Upto
  <2> QED
      BY <2>6, <2>7
<1>8. CASE WindowEnds
  <2>1. pc = "ended" /\ pc' = "committing" /\ got + 1 = next /\ ~bad
        /\ UNCHANGED <<store, mem, stats, next, got, result, bad, written, status, reported>>
      BY <1>8 DEF WindowEnds
  <2>2. next = N + 1 /\ got = N
      BY <2>1 DEF RunInv, AtEnd, TypeOK
  <2> QED
      BY <2>1, <2>2 DEF RunInv, CheckpointCovers, CompleteIsWhole, Saved, Progress, AtEnd, Running, InSession, Upto
<1>9. CASE CompleteSync
  <2>1. pc = "committing" /\ pc' \in {"deleting", "idle"} /\ UNCHANGED <<store, mem, stats, written>>
      BY <1>9 DEF CompleteSync
  <2>2. got = N /\ ~bad /\ store = mem /\ stats = Upto(N) /\ mem.anchor \in Nat /\ status # "done"
        /\ (\A c \in Batches : result[c] = "ok" => c \in written)
        /\ (\A c \in Batches : mem.anchor < c /\ c <= N => result[c] = "ok")
      BY <2>1 DEF RunInv, Saved, Progress, AtEnd, Running, InSession, TypeOK, States
  <2>3. 1..mem.anchor \subseteq written
    <3>1. store # NoState
        BY <2>2 DEF TypeOK
    <3> QED
        BY <2>2, <3>1 DEF RunInv, CheckpointCovers
  <2>5. written = Batches
    <3>1. ASSUME NEW c \in Batches PROVE c \in written
      <4>1. CASE c <= mem.anchor
          BY <4>1, <2>2, <2>3 DEF Batches
      <4>2. CASE mem.anchor < c
          BY <4>2, <2>2 DEF Batches
      <4> QED
          BY <4>1, <4>2, <2>2 DEF Batches
    <3> QED
        BY <3>1 DEF TypeOK
  <2>6. CASE status' = "done" /\ reported' = stats
      BY <2>1, <2>2, <2>5, <2>6 DEF RunInv, CheckpointCovers, CompleteIsWhole, Saved, Progress, AtEnd,
                                   Running, InSession, Upto
  <2>7. CASE UNCHANGED row
      BY <2>1, <2>2, <2>7 DEF RunInv, CheckpointCovers, CompleteIsWhole, Saved, Progress, AtEnd,
                              Running, InSession, Upto
  <2> QED
      BY <1>9, <2>6, <2>7 DEF CompleteSync
<1>10. CASE DeleteCheckpoint \/ StateExpires
  <2>1. pc' = "idle" /\ store' \in {store, NoState} /\ UNCHANGED <<written, status, reported>>
      BY <1>10 DEF DeleteCheckpoint, StateExpires
  <2> QED
      BY <2>1 DEF RunInv, CheckpointCovers, CompleteIsWhole, Saved, Progress, AtEnd, Running, InSession, Upto
<1>11. CASE Cancel
    BY <1>11 DEF Cancel, RunInv, CheckpointCovers, CompleteIsWhole, Saved, Progress, AtEnd, Running, InSession, Upto
<1>12. CASE UNCHANGED vars
    BY <1>12 DEF vars, RunInv, CheckpointCovers, CompleteIsWhole, Saved, Progress, AtEnd, Running, InSession, Upto
<1> QED
    BY <1>1, <1>2, <1>3, <1>4, <1>5, <1>6, <1>7, <1>8, <1>9, <1>10, <1>11, <1>12 DEF Next

\* The initial states.
LEMMA RunnerInit == Init => TypeOK /\ RunInv
<1> SUFFICES ASSUME Init PROVE TypeOK /\ RunInv
    OBVIOUS
<1>1. Fresh \in States /\ None \in Counts /\ NoResults \in [Batches -> {"none", "ok", "failed"}]
    BY RunnerAssumption DEF Fresh, None, NoResults, States, Counts, Batches
<1>10. 1 \in 1..(N + 1) /\ 0 \in 0..N
    BY RunnerAssumption
<1>2. TypeOK
    BY <1>1, <1>10 DEF Init, TypeOK
<1>3. RunInv
    BY DEF Init, RunInv, CheckpointCovers, CompleteIsWhole, Saved, Progress, AtEnd, Running, InSession
<1> QED
    BY <1>2, <1>3

\* The invariant holds at all times.
LEMMA RunnerInvariant == Spec => [](TypeOK /\ RunInv)
<1>1. Init => TypeOK /\ RunInv
    BY RunnerInit
<1>2. (TypeOK /\ RunInv) /\ [Next]_vars => (TypeOK /\ RunInv)'
    BY RunnerType, RunStep
<1> QED
    BY <1>1, <1>2, PTL DEF Spec

\* For any window, any choice of marked batches and any restart budget, the saved
\* anchor skips stored batches only.
THEOREM CheckpointsAreSafe == Spec => []CheckpointCovers
<1>1. TypeOK /\ RunInv => CheckpointCovers
    BY DEF RunInv
<1> QED
    BY <1>1, RunnerInvariant, PTL

\* A task that CompleteSync marks done has stored every batch of its window and counted
\* it once, through every resume, restart and failed save before.
THEOREM CompletedIsWhole == Spec => []CompleteIsWhole
<1>1. TypeOK /\ RunInv => CompleteIsWhole
    BY DEF RunInv
<1> QED
    BY <1>1, RunnerInvariant, PTL

------------------------------------------------------------------------------
(* The refinement. *)

\* Starting over is a step of the contract, or changes nothing.
LEMMA ResetMaps ==
    ASSUME TypeOK, RunInv, Running, Reset, UNCHANGED <<stats, session, row>>
    PROVE  Window!StartOver \/ UNCHANGED Window!vars
<1> USE RunnerAssumption, NoStateAssumption DEF row
<1>1. store = mem /\ status # "done" /\ mem.restarts < MaxRestarts /\ mem.restarts \in Nat /\ store # NoState
    BY DEF RunInv, Saved, Reset, TypeOK, States
<1>2. CASE store' = mem'
  <2>1. mem'.anchor = 0 /\ mem'.restarts = mem.restarts + 1 /\ written' = {} /\ mem' # NoState
    <3>1. mem' \in States
        BY <1>1 DEF Reset, States, TypeOK, None, Counts, Batches
    <3> QED
        BY <3>1, <1>2 DEF Reset, Begin
  <2>2. MaxRestarts - mem.restarts > 0
        /\ MaxRestarts - mem'.restarts = MaxRestarts - mem.restarts - 1
      BY <1>1, <2>1
  <2> QED
      BY <1>1, <1>2, <2>1, <2>2 DEF Window!StartOver
<1>3. CASE store' = store /\ written' = written
    BY <1>3 DEF Window!vars
<1> QED
    BY <1>2, <1>3 DEF Reset, Begin, Save

\* Every step maps to a step of the contract or to none.
LEMMA RunnerMaps == TypeOK /\ RunInv /\ [Next]_vars => [Window!Next]_(Window!vars)
<1> SUFFICES ASSUME TypeOK, RunInv, [Next]_vars PROVE Window!Next \/ UNCHANGED Window!vars
    OBVIOUS
<1> USE RunnerAssumption, NoStateAssumption DEF session, row
<1>1. CASE Prepare
  <2>1. CASE store # NoState
      BY <1>1, <2>1 DEF Prepare, Window!vars
  <2>2. CASE store = NoState
    <3>1. status = "open" /\ Save(Fresh, "opening") /\ UNCHANGED <<status, reported>>
          /\ written' = IF store' = Fresh THEN {} ELSE written
        BY <1>1, <2>2 DEF Prepare, Begin
    <3>2. Fresh # NoState /\ Fresh.anchor = 0 /\ Fresh.restarts = 0
      <4>1. Fresh \in States
          BY DEF Fresh, States, None, Counts, Batches
      <4> QED
          BY <4>1 DEF Fresh
    <3>3. CASE store' = Fresh
      <4>1. Window!NewWindow
          BY <2>2, <3>1, <3>2, <3>3 DEF Window!NewWindow
      <4> QED
          BY <4>1 DEF Window!Next
    <3>4. CASE store' = store
      <4>1. Fresh # store
          BY <2>2, <3>2
      <4> QED
          BY <3>1, <3>4, <4>1 DEF Window!vars
    <3> QED
        BY <3>1, <3>3, <3>4 DEF Save
  <2> QED
      BY <2>1, <2>2
<1>2. CASE OpenInvalid \/ Restart
  <2>1. Window!StartOver \/ UNCHANGED Window!vars
      BY <1>2, ResetMaps DEF OpenInvalid, Restart, Running
  <2> QED
      BY <2>1 DEF Window!Next
<1>3. CASE Open \/ NextBatch \/ SourceEnds \/ SourceFails \/ WindowEnds \/ RunFails \/ CutShort
    BY <1>3 DEF Open, NextBatch, SourceEnds, SourceFails, WindowEnds, RunFails, CutShort, Window!vars
<1>4. ASSUME NEW b \in Batches, JobReturns(b) PROVE Window!Next \/ UNCHANGED Window!vars
  <2>1. UNCHANGED <<store, status, reported>> /\ (written' = written \cup {b} \/ written' = written)
      BY <1>4 DEF JobReturns
  <2>2. CASE written' = written \cup {b}
    <3>1. Window!Write
        BY <2>1, <2>2 DEF Window!Write, Window!Batches, Batches
    <3> QED
        BY <3>1 DEF Window!Next
  <2>3. CASE written' = written
      BY <2>1, <2>3 DEF Window!vars
  <2> QED
      BY <2>1, <2>2, <2>3
<1>5. CASE Collect
  <2>1. UNCHANGED <<written, status, reported>>
      BY <1>5 DEF Collect
  <2>2. CASE store' = store
      BY <2>1, <2>2 DEF Window!vars
  <2>3. CASE store' # store
    <3> DEFINE b == got + 1
    <3>1. store' = mem' /\ mem' = [mem EXCEPT !.anchor = b, !.counted = stats'] /\ b \in Batches
          /\ pc \in {"drain", "ended"}
        BY <1>5, <2>3 DEF Collect, Save, TypeOK, Batches
    <3>2. store = mem /\ mem \in States /\ mem.anchor <= got /\ status # "done" /\ got \in Nat
        BY <3>1 DEF RunInv, Saved, Progress, Running, InSession, TypeOK
    <3>3. store # NoState /\ store.anchor \in Nat /\ store.anchor < b
        BY <3>2 DEF States
    <3>4. store'.anchor = b /\ store'.restarts = store.restarts
        BY <3>1, <3>2 DEF States
    <3>5. store' # NoState
      <4>1. mem' \in States
          BY <1>5, RunnerType DEF Next, TypeOK
      <4> QED
          BY <3>1, <4>1
    <3>6. 1..b \subseteq written
      <4>1. RunInv'
          BY <1>5, RunStep DEF Next
      <4>2. 1..store'.anchor \subseteq written'
          BY <4>1, <3>2, <3>5, <2>1 DEF RunInv, CheckpointCovers
      <4> QED
          BY <4>2, <3>4, <2>1
    <3>7. Window!Commit
        BY <2>1, <3>1, <3>3, <3>4, <3>5, <3>6 DEF Window!Commit, Window!Batches, Batches
    <3> QED
        BY <3>7 DEF Window!Next
  <2> QED
      BY <2>2, <2>3
<1>6. CASE CompleteSync
  <2>1. UNCHANGED <<store, written>> /\ pc = "committing"
      BY <1>6 DEF CompleteSync
  <2>2. CASE UNCHANGED row
      BY <2>1, <2>2 DEF Window!vars
  <2>3. CASE status = "open" /\ status' = "done" /\ reported' = stats
    <3>1. RunInv'
        BY <1>6, RunStep DEF Next
    <3>2. written = Batches /\ reported' = Upto(N)
        BY <2>1, <2>3, <3>1 DEF RunInv, CompleteIsWhole, Upto
    <3>3. Upto(N) = [b \in Batches |-> 1]
        BY DEF Upto, Batches
    <3>4. Window!Complete
        BY <2>1, <2>3, <3>2, <3>3 DEF Window!Complete, Window!Batches, Batches
    <3> QED
        BY <3>4 DEF Window!Next
  <2> QED
      BY <1>6, <2>2, <2>3 DEF CompleteSync
<1>7. CASE DeleteCheckpoint \/ StateExpires
  <2>1. UNCHANGED <<written, status, reported>> /\ store' \in {store, NoState}
      BY <1>7 DEF DeleteCheckpoint, StateExpires
  <2>2. CASE store' = store
      BY <2>1, <2>2 DEF Window!vars
  <2>3. CASE store' = NoState
    <3>1. Window!Forget
        BY <2>1, <2>3 DEF Window!Forget
    <3> QED
        BY <3>1 DEF Window!Next
  <2> QED
      BY <2>1, <2>2, <2>3
<1>8. CASE Cancel
  <2>1. Window!Cancel
      BY <1>8 DEF Cancel, Window!Cancel
  <2> QED
      BY <2>1 DEF Window!Next
<1>9. CASE UNCHANGED vars
    BY <1>9 DEF vars, Window!vars
<1> QED
    BY <1>1, <1>2, <1>3, <1>4, <1>5, <1>6, <1>7, <1>8, <1>9 DEF Next

\* For any window: the runs of SyncRunner.Run, with their crashes, failed saves,
\* restarts and expiries, implement the checkpoint contract.
THEOREM RunsImplementWindow == Spec => ImplementsWindow
<1>1. Init => Window!Init
    BY DEF Init, Window!Init, Window!Batches, Batches, None
<1>2. TypeOK /\ RunInv /\ [Next]_vars => [Window!Next]_(Window!vars)
    BY RunnerMaps
<1> QED
    BY <1>1, <1>2, RunnerInvariant, PTL DEF Spec, ImplementsWindow, Window!Spec
==============================================================================
