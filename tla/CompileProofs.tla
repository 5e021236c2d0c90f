----------------------------- MODULE CompileProofs -----------------------------
(***************************************************************************)
(* The dataset-level compiler for any number of documents, workers, events *)
(* and rebuilds and any batch size: no published event is lost, nothing    *)
(* merged under a cancelled claim survives a rebuild, and once everything  *)
(* has been processed the merged products are those of the last events.    *)
(***************************************************************************)
EXTENDS KnowledgeCompile, SequenceTheorems, FiniteSetTheorems, TLAPS

-------------------------------------------------------------------------------
(* Sequences and sets of positions. *)

\* The k-th position of a set, counted from the left, exists and is one position.
LEMMA Ranks ==
    ASSUME NEW n \in Nat, NEW T, T \subseteq 1..n
    PROVE  /\ IsFiniteSet(T) /\ Cardinality(T) \in Nat
           /\ \A i \in T : Cardinality({j \in T : j <= i}) \in 1..Cardinality(T)
           /\ \A i, k \in T : Cardinality({j \in T : j <= i}) = Cardinality({j \in T : j <= k}) => i = k
           /\ \A k \in 1..Cardinality(T) : \E i \in T : Cardinality({j \in T : j <= i}) = k
<1> DEFINE upto(i) == {j \in T : j <= i}
           N == Cardinality(T)
           rank == [i \in T |-> Cardinality(upto(i))]
<1>1. IsFiniteSet(T) /\ N \in Nat
  <2>1. IsFiniteSet(1..n)
    BY FS_Interval
  <2> QED
    BY <2>1, FS_Subset, FS_CardinalityType
<1>2. ASSUME NEW i \in T
      PROVE  IsFiniteSet(upto(i)) /\ Cardinality(upto(i)) \in 1..N
  <2>1. upto(i) \in SUBSET T /\ i \in upto(i)
    OBVIOUS
  <2>2. IsFiniteSet(upto(i)) /\ Cardinality(upto(i)) <= N
    BY <1>1, <2>1, FS_Subset
  <2>3. Cardinality(upto(i)) \in Nat /\ Cardinality(upto(i)) # 0
    BY <2>1, <2>2, FS_CardinalityType, FS_EmptySet
  <2> QED
    BY <1>1, <2>2, <2>3
<1>3. ASSUME NEW i \in T, NEW k \in T, i < k
      PROVE  Cardinality(upto(i)) # Cardinality(upto(k))
  <2>1. \A j \in T : j <= i => j <= k
    BY <1>3
  <2>2. upto(i) \in SUBSET upto(k)
    BY <2>1
  <2>3. k \notin upto(i) /\ k \in upto(k)
    BY <1>3
  <2>4. IsFiniteSet(upto(k))
    BY <1>2
  <2> HIDE DEF upto
  <2> QED
    BY <2>2, <2>3, <2>4, FS_Subset
<1>4. \A i, k \in T : Cardinality(upto(i)) = Cardinality(upto(k)) => i = k
  <2> SUFFICES ASSUME NEW i \in T, NEW k \in T, i # k
               PROVE  Cardinality(upto(i)) # Cardinality(upto(k))
    OBVIOUS
  <2>1. i < k \/ k < i
    OBVIOUS
  <2> HIDE DEF upto
  <2> QED
    BY <1>3, <2>1
<1>5. rank \in Injection(T, 1..N)
  <2>1. rank \in [T -> 1..N]
    BY <1>2
  <2>2. \A i, k \in T : rank[i] = rank[k] => i = k
    BY <1>4
  <2> HIDE DEF rank
  <2> QED
    BY <2>1, <2>2 DEF Injection, IsInjective
<1>6. \A k \in 1..N : \E i \in T : Cardinality(upto(i)) = k
  <2>1. IsFiniteSet(1..N) /\ Cardinality(1..N) = N
    BY <1>1, FS_Interval
  <2>2. rank \in Surjection(T, 1..N)
    <3> HIDE DEF rank
    <3> QED
      BY <1>5, <2>1, FS_Injection
  <2> QED
    BY <2>2 DEF Surjection
<1> QED
  BY <1>1, <1>2, <1>4, <1>6

\* A set of positions has a last one: what Winning chooses exists.
LEMMA LastPosition ==
    ASSUME NEW n \in Nat, NEW T, T \subseteq 1..n, T # {}
    PROVE  \E i \in T : \A j \in T : j <= i
<1> DEFINE N == Cardinality(T)
<1>1. IsFiniteSet(T) /\ N \in Nat
  BY Ranks
<1>2. N \in 1..N
  BY <1>1, FS_EmptySet
<1>3. PICK i \in T : Cardinality({j \in T : j <= i}) = N
  BY <1>2, Ranks
<1>4. {j \in T : j <= i} = T
  BY <1>1, <1>3, FS_Subset
<1> QED
  BY <1>4

\* The elements of a sequence, and those of the sequences made from it.
LEMMA InSeq ==
    ASSUME NEW s \in Seq(Nat)
    PROVE  \A x : x \in ToSet(s) <=> \E i \in 1..Len(s) : x = s[i]
  BY DEF ToSet

\* A function on the first n positions is a sequence.
LEMMA IsSeq == ASSUME NEW n \in Nat, NEW f \in [1..n -> Nat] PROVE f \in Seq(Nat)
  BY DEF Seq

\* A published entry joins the backlog.
LEMMA SetOfAppend ==
    ASSUME NEW s \in Seq(Nat), NEW n \in Nat
    PROVE  Append(s, n) \in Seq(Nat) /\ ToSet(Append(s, n)) = ToSet(s) \cup {n}
<1> DEFINE a == Append(s, n)
<1>1. a \in Seq(Nat) /\ Len(a) = Len(s) + 1 /\ Len(s) \in Nat
  OBVIOUS
<1>2. (\A i \in 1..Len(s) : a[i] = s[i]) /\ a[Len(s) + 1] = n
  OBVIOUS
<1> HIDE DEF a
<1>3. ASSUME NEW x \in ToSet(a) PROVE x \in ToSet(s) \cup {n}
  <2>1. PICK i \in 1..Len(a) : x = a[i]
    BY <1>1, InSeq
  <2>2. i \in 1..Len(s) \/ i = Len(s) + 1
    BY <1>1
  <2> QED
    BY <1>2, <2>1, <2>2, InSeq
<1>4. ASSUME NEW x \in ToSet(s) PROVE x \in ToSet(a)
  <2>1. PICK i \in 1..Len(s) : x = s[i]
    BY InSeq
  <2>2. i \in 1..Len(a) /\ x = a[i]
    BY <1>1, <1>2, <2>1
  <2> QED
    BY <1>1, <2>2, InSeq
<1>5. n \in ToSet(a)
  <2>1. Len(s) + 1 \in 1..Len(a)
    BY <1>1
  <2> QED
    BY <1>1, <1>2, <2>1, InSeq
<1> QED
  BY <1>1, <1>3, <1>4, <1>5 DEF a

\* A reclaimed batch joins the backlog, and a claimed one the entries inflight.
LEMMA SetOfConcat ==
    ASSUME NEW s \in Seq(Nat), NEW t \in Seq(Nat)
    PROVE  s \o t \in Seq(Nat) /\ ToSet(s \o t) = ToSet(s) \cup ToSet(t)
<1> DEFINE c == s \o t
<1>0. Len(s) \in Nat /\ Len(t) \in Nat
  OBVIOUS
<1>1. c \in Seq(Nat) /\ Len(c) = Len(s) + Len(t)
  BY ConcatProperties
<1>2. \A i \in 1..(Len(s) + Len(t)) : c[i] = IF i <= Len(s) THEN s[i] ELSE t[i - Len(s)]
  BY ConcatProperties
<1> HIDE DEF c
<1>3. ASSUME NEW x \in ToSet(c) PROVE x \in ToSet(s) \cup ToSet(t)
  <2>1. PICK i \in 1..Len(c) : x = c[i]
    BY <1>1, InSeq
  <2>2. CASE i <= Len(s)
    <3>1. i \in 1..Len(s) /\ x = s[i]
      BY <1>0, <1>1, <1>2, <2>1, <2>2
    <3> QED
      BY <3>1, InSeq
  <2>3. CASE ~(i <= Len(s))
    <3>1. i - Len(s) \in 1..Len(t) /\ x = t[i - Len(s)]
      BY <1>0, <1>1, <1>2, <2>1, <2>3
    <3> QED
      BY <3>1, InSeq
  <2> QED
    BY <2>2, <2>3
<1>4. ASSUME NEW x \in ToSet(s) PROVE x \in ToSet(c)
  <2>1. PICK i \in 1..Len(s) : x = s[i]
    BY InSeq
  <2>2. i \in 1..Len(c) /\ x = c[i]
    BY <1>0, <1>1, <1>2, <2>1
  <2> QED
    BY <1>1, <2>2, InSeq
<1>5. ASSUME NEW x \in ToSet(t) PROVE x \in ToSet(c)
  <2>1. PICK i \in 1..Len(t) : x = t[i]
    BY InSeq
  <2>2. Len(s) + i \in 1..Len(c) /\ ~(Len(s) + i <= Len(s)) /\ (Len(s) + i) - Len(s) = i
    BY <1>0, <1>1
  <2>3. x = c[Len(s) + i]
    BY <1>1, <1>2, <2>1, <2>2
  <2> QED
    BY <1>1, <2>2, <2>3, InSeq
<1> QED
  BY <1>1, <1>3, <1>4, <1>5 DEF c

\* A batch and the backlog it is cut from.
LEMMA SetOfSplit ==
    ASSUME NEW s \in Seq(Nat), NEW n \in 0..Len(s)
    PROVE  /\ SubSeq(s, 1, n) \in Seq(Nat) /\ SubSeq(s, n + 1, Len(s)) \in Seq(Nat)
           /\ Len(SubSeq(s, 1, n)) = n /\ Len(SubSeq(s, n + 1, Len(s))) = Len(s) - n
           /\ \A i \in 1..n : SubSeq(s, 1, n)[i] = s[i]
           /\ \A i \in 1..(Len(s) - n) : SubSeq(s, n + 1, Len(s))[i] = s[n + i]
           /\ ToSet(s) = ToSet(SubSeq(s, 1, n)) \cup ToSet(SubSeq(s, n + 1, Len(s)))
<1> DEFINE a == SubSeq(s, 1, n)
           b == SubSeq(s, n + 1, Len(s))
<1>0. Len(s) \in Nat /\ n \in Nat /\ \A i \in 1..Len(s) : s[i] \in Nat
  OBVIOUS
<1>1. a \in Seq(Nat) /\ Len(a) = n /\ \A i \in 1..n : a[i] = s[i]
  BY <1>0, SubSeqProperties
<1>2. b \in Seq(Nat) /\ Len(b) = Len(s) - n /\ \A i \in 1..(Len(s) - n) : b[i] = s[n + i]
  BY <1>0, SubSeqProperties
<1> HIDE DEF a, b
<1>3. ASSUME NEW x \in ToSet(a) \cup ToSet(b) PROVE x \in ToSet(s)
  <2>1. CASE x \in ToSet(a)
    <3>1. PICK i \in 1..n : x = a[i]
      BY <1>1, <2>1, InSeq
    <3>2. i \in 1..Len(s) /\ x = s[i]
      BY <1>0, <1>1, <3>1
    <3> QED
      BY <3>2, InSeq
  <2>2. CASE x \in ToSet(b)
    <3>1. PICK i \in 1..(Len(s) - n) : x = b[i]
      BY <1>2, <2>2, InSeq
    <3>2. n + i \in 1..Len(s) /\ x = s[n + i]
      BY <1>0, <1>2, <3>1
    <3> QED
      BY <3>2, InSeq
  <2> QED
    BY <2>1, <2>2
<1>4. ASSUME NEW x \in ToSet(s) PROVE x \in ToSet(a) \cup ToSet(b)
  <2>0. PICK i \in 1..Len(s) : x = s[i]
    BY InSeq
  <2>1. CASE i <= n
    <3>1. i \in 1..Len(a) /\ x = a[i]
      BY <1>0, <1>1, <2>0, <2>1
    <3> QED
      BY <1>1, <3>1, InSeq
  <2>2. CASE i > n
    <3>1. i - n \in 1..(Len(s) - n) /\ n + (i - n) = i
      BY <1>0, <2>2
    <3> QED
      BY <1>2, <2>0, <3>1, InSeq
  <2> QED
    BY <1>0, <2>1, <2>2
<1> QED
  BY <1>1, <1>2, <1>3, <1>4 DEF a, b

\* removeEntries leaves exactly the entries that equal none of the batch.
LEMMA SetOfRemoved ==
    ASSUME NEW s \in Seq(Nat), NEW batch
    PROVE  /\ RemoveEntries(s, batch) \in Seq(Nat)
           /\ ToSet(RemoveEntries(s, batch)) =
                {n \in ToSet(s) : \A m \in ToSet(batch) : events[m] # events[n]}
           /\ ToSet(RemoveEntries(s, batch)) = {} => RemoveEntries(s, batch) = <<>>
<1> DEFINE kept == {i \in DOMAIN s : \A m \in ToSet(batch) : events[m] # events[s[i]]}
           rank(i) == Cardinality({j \in kept : j <= i})
           nth(k) == CHOOSE i \in kept : rank(i) = k
           N == Cardinality(kept)
           left == [k \in 1..N |-> s[nth(k)]]
<1>0. Len(s) \in Nat /\ DOMAIN s = 1..Len(s) /\ \A i \in 1..Len(s) : s[i] \in Nat
  OBVIOUS
<1>1. left = RemoveEntries(s, batch)
  BY DEF RemoveEntries
<1>2. kept \subseteq 1..Len(s)
  BY <1>0
<1>3. \A i \in 1..Len(s) : i \in kept <=> \A m \in ToSet(batch) : events[m] # events[s[i]]
  BY <1>0
<1> HIDE DEF kept
<1>4. N \in Nat
  BY <1>0, <1>2, Ranks
<1>5. \A i \in kept : rank(i) \in 1..N
  BY <1>0, <1>2, Ranks
<1>6. \A i, j \in kept : rank(i) = rank(j) => i = j
  BY <1>0, <1>2, Ranks
<1>7. \A k \in 1..N : \E i \in kept : rank(i) = k
  BY <1>0, <1>2, Ranks
<1> HIDE DEF rank
<1>8. \A k \in 1..N : nth(k) \in kept
  BY <1>7
<1>9. \A i \in kept : nth(rank(i)) = i
  BY <1>6
<1> HIDE DEF nth, N
<1>10. \A k \in 1..N : nth(k) \in 1..Len(s) /\ s[nth(k)] \in Nat
  BY <1>0, <1>2, <1>8
<1>11. left \in Seq(Nat) /\ Len(left) = N /\ \A k \in 1..N : left[k] = s[nth(k)]
  <2>1. left \in [1..N -> Nat]
    BY <1>10
  <2>2. left \in Seq(Nat)
    BY <1>4, <2>1, IsSeq
  <2>3. DOMAIN left = 1..N
    OBVIOUS
  <2>4. Len(left) = N
    BY <1>4, <2>2, <2>3, LenProperties
  <2> QED
    BY <2>2, <2>4
<1> HIDE DEF left
<1>12. ASSUME NEW x \in ToSet(left)
       PROVE  x \in ToSet(s) /\ \A m \in ToSet(batch) : events[m] # events[x]
  <2>1. PICK k \in 1..N : x = s[nth(k)]
    BY <1>11, InSeq
  <2>2. nth(k) \in kept /\ nth(k) \in 1..Len(s)
    BY <1>8, <1>10
  <2> QED
    BY <1>3, <2>1, <2>2, InSeq
<1>13. ASSUME NEW x \in ToSet(s), \A m \in ToSet(batch) : events[m] # events[x]
       PROVE  x \in ToSet(left)
  <2>1. PICK i \in 1..Len(s) : x = s[i]
    BY InSeq
  <2>2. i \in kept
    BY <1>3, <1>13, <2>1
  <2>3. rank(i) \in 1..N /\ nth(rank(i)) = i
    BY <1>5, <1>9, <2>2
  <2> QED
    BY <1>11, <2>1, <2>3, InSeq
<1>14. ToSet(left) = {} => left = <<>>
  <2> SUFFICES ASSUME ToSet(left) = {} PROVE left = <<>>
    OBVIOUS
  <2>1. ~(1 \in 1..N)
    BY <1>11, InSeq
  <2>2. N = 0
    BY <1>4, <2>1
  <2> QED
    BY <1>11, <2>2, EmptySeq
<1> QED
  BY <1>1, <1>11, <1>12, <1>13, <1>14

-------------------------------------------------------------------------------
(* Types. *)

Products == SUBSET Items

RowType == [backlog : Seq(Nat), inflight : Seq(Nat), token : Nat, live : BOOLEAN,
            state : {"idle", "pending", "running", "completed"}]

EventType == [doc : Docs, ev : {"completed", "enabled", "disabled", "deleted"}]

DocType == [source : Products, parsing : BOOLEAN, enabled : BOOLEAN, gone : BOOLEAN, dirty : BOOLEAN]

WorkerType == [pc : {"idle", "prepare", "delete", "strip", "load", "structure", "missing",
                     "write", "project", "commit", "ack"},
               token : Nat, batch : Seq(Nat), upto : Nat, affected : SUBSET Docs,
               current : [Docs -> Products], loaded : [Docs -> Products]]

RebuildType == [pc : {"idle", "clear", "list", "publish"}, todo : SUBSET Docs,
                since : Nat, fresh : Nat]

\* The variables have their types.
Typed ==
    /\ row \in RowType
    /\ events \in Seq(EventType)
    /\ docs \in [Docs -> DocType]
    /\ prod \in [Docs -> Products]
    /\ merged \in [Docs -> Products]
    /\ contrib \in [Docs -> Products]
    /\ worker \in [Workers -> WorkerType]
    /\ rebuild \in RebuildType
    /\ claims \in Nat /\ lapses \in Nat /\ fails \in Nat /\ rebuilds \in Nat
    /\ writer \in [Docs -> Nat]

\* What publishing does to the row.
LEMMA RowPublished ==
    ASSUME NEW r \in RowType, NEW n \in Nat
    PROVE  /\ PublishEntry(r, n) \in RowType
           /\ PublishEntry(r, n).backlog = Append(r.backlog, n)
           /\ PublishEntry(r, n).inflight = r.inflight
           /\ PublishEntry(r, n).token = r.token
           /\ PublishEntry(r, n).live = r.live
<1>1. Append(r.backlog, n) \in Seq(Nat)
  BY SetOfAppend DEF RowType
<1> QED
  BY <1>1 DEF PublishEntry, RowType

\* What a release, a reclamation and a cancellation do to the row.
LEMMA RowRequeued ==
    ASSUME NEW r \in RowType
    PROVE  /\ Requeue(r) \in RowType
           /\ Requeue(r).backlog = r.backlog \o r.inflight
           /\ Requeue(r).inflight = <<>>
           /\ Requeue(r).token = 0
           /\ ~Requeue(r).live
<1>1. r.backlog \o r.inflight \in Seq(Nat) /\ <<>> \in Seq(Nat)
  BY SetOfConcat DEF RowType
<1>2. Released(r) \in RowType /\ Released(r).backlog = r.backlog
  BY DEF Released, RowType
<1>3. Released(r).token = 0 /\ ~Released(r).live
  BY DEF Released, RowType
<1> HIDE DEF Released
<1> QED
  BY <1>1, <1>2, <1>3 DEF Requeue, RowType

\* How much of the backlog a claim takes.
Taken(r) == IF Len(r.backlog) < ClaimBatch THEN Len(r.backlog) ELSE ClaimBatch

\* What a claim does to the row.
LEMMA RowClaimed ==
    ASSUME NEW r \in RowType, NEW k \in Nat
    PROVE  /\ ClaimRow(r, k) \in RowType
           /\ Taken(r) \in 0..Len(r.backlog)
           /\ ClaimRow(r, k).backlog = SubSeq(r.backlog, Taken(r) + 1, Len(r.backlog))
           /\ ClaimRow(r, k).inflight = r.inflight \o SubSeq(r.backlog, 1, Taken(r))
           /\ ClaimRow(r, k).token = k
           /\ ClaimRow(r, k).live
           /\ Len(r.backlog) - Len(ClaimRow(r, k).backlog) = Taken(r)
           /\ r.backlog # <<>> => Taken(r) # 0
<1>0. r.backlog \in Seq(Nat) /\ r.inflight \in Seq(Nat) /\ Len(r.backlog) \in Nat
  BY DEF RowType
<1>1. Taken(r) \in 0..Len(r.backlog) /\ (r.backlog # <<>> => Taken(r) # 0)
  BY <1>0, CompileAssumption DEF Taken
<1> DEFINE a == SubSeq(r.backlog, 1, Taken(r))
           b == SubSeq(r.backlog, Taken(r) + 1, Len(r.backlog))
<1>2. a \in Seq(Nat) /\ b \in Seq(Nat) /\ Len(b) = Len(r.backlog) - Taken(r)
  BY <1>0, <1>1, SetOfSplit
<1>3. r.inflight \o a \in Seq(Nat)
  BY <1>0, <1>2, SetOfConcat
<1>4. ClaimRow(r, k) = [r EXCEPT !.backlog = b, !.inflight = r.inflight \o a,
                                 !.token = k, !.live = TRUE, !.state = "running"]
  BY DEF ClaimRow, Taken, RowType
<1> HIDE DEF a, b
<1>5. /\ ClaimRow(r, k) \in RowType /\ ClaimRow(r, k).backlog = b
      /\ ClaimRow(r, k).inflight = r.inflight \o a
      /\ ClaimRow(r, k).token = k /\ ClaimRow(r, k).live
  BY <1>2, <1>3, <1>4 DEF RowType
<1>6. Len(r.backlog) - Len(b) = Taken(r)
  BY <1>0, <1>1, <1>2
<1> QED
  BY <1>1, <1>5, <1>6 DEF a, b

\* What an acknowledgement does to the row.
LEMMA RowAcked ==
    ASSUME NEW r \in RowType, NEW batch
    PROVE  /\ AckRow(r, batch) \in RowType
           /\ AckRow(r, batch).backlog = r.backlog
           /\ AckRow(r, batch).inflight = RemoveEntries(r.inflight, batch)
           /\ \/ AckRow(r, batch).token = r.token /\ AckRow(r, batch).live = r.live
                 /\ AckRow(r, batch).inflight # <<>>
              \/ AckRow(r, batch).token = 0 /\ AckRow(r, batch).inflight = <<>>
                 /\ ~AckRow(r, batch).live
<1> DEFINE left == RemoveEntries(r.inflight, batch)
           base == IF left = <<>> THEN Released(r) ELSE r
<1>1. left \in Seq(Nat)
  BY SetOfRemoved DEF RowType
<1>2. /\ base \in RowType /\ base.backlog = r.backlog
      /\ \/ left # <<>> /\ base.token = r.token /\ base.live = r.live
         \/ left = <<>> /\ base.token = 0 /\ ~base.live
  BY DEF Released, RowType
<1>3. AckRow(r, batch) = [base EXCEPT !.inflight = left,
                            !.state = IF r.backlog # <<>> THEN "pending" ELSE "completed"]
  BY DEF AckRow
<1> HIDE DEF base, left
<1>4. /\ AckRow(r, batch) \in RowType /\ AckRow(r, batch).backlog = base.backlog
      /\ AckRow(r, batch).inflight = left
      /\ AckRow(r, batch).token = base.token /\ AckRow(r, batch).live = base.live
  BY <1>1, <1>2, <1>3 DEF RowType
<1> QED
  BY <1>2, <1>4 DEF left

\* What a claim starts from: a typed row with entries to claim.
LEMMA RowReady ==
    ASSUME row \in RowType
    PROVE  Ready \in RowType /\ (Ready = row \/ Ready = Requeue(row))
  BY RowRequeued DEF Ready, Reclaim

\* Entries are positions of published events.
InRange ==
    /\ ToSet(row.backlog) \subseteq 1..Len(events)
    /\ ToSet(row.inflight) \subseteq 1..Len(events)
    /\ \A w \in Workers : ToSet(worker[w].batch) \subseteq 1..Len(events)

-------------------------------------------------------------------------------
(* What the actions do, in the terms of the invariants. *)

\* One more event, or none, without a change to the claim.
Published(d) ==
    \/ UNCHANGED <<row, events>>
    \/ \E ev \in {"completed", "enabled", "disabled", "deleted"} :
         /\ events' \in Seq(EventType)
         /\ Len(events') = Len(events) + 1
         /\ \A n \in 1..Len(events) : events'[n] = events[n]
         /\ events'[Len(events) + 1] = [doc |-> d, ev |-> ev]
         /\ row' \in RowType
         /\ row'.backlog = Append(row.backlog, Len(events) + 1)
         /\ row'.inflight = row.inflight
         /\ row'.token = row.token /\ row'.live = row.live

\* publishLocked: one more event, and its entry at the end of the backlog.
LEMMA PublishEffect ==
    ASSUME Typed, NEW d \in Docs,
           NEW ev \in {"completed", "enabled", "disabled", "deleted"}, Publish(d, ev)
    PROVE  /\ events' \in Seq(EventType)
           /\ Len(events') = Len(events) + 1
           /\ \A n \in 1..Len(events) : events'[n] = events[n]
           /\ events'[Len(events) + 1] = [doc |-> d, ev |-> ev]
           /\ row' \in RowType
           /\ row'.backlog = Append(row.backlog, Len(events) + 1)
           /\ row'.inflight = row.inflight
           /\ row'.token = row.token /\ row'.live = row.live
<1> DEFINE e == [doc |-> d, ev |-> ev]
<1>1. events \in Seq(EventType) /\ row \in RowType /\ Len(events) + 1 \in Nat
  BY DEF Typed
<1>2. e \in EventType
  BY DEF EventType
<1>3. events' = Append(events, e) /\ row' = PublishEntry(row, Len(events) + 1)
  BY DEF Publish
<1> HIDE DEF e
<1>4. /\ events' \in Seq(EventType) /\ Len(events') = Len(events) + 1
      /\ \A n \in 1..Len(events) : events'[n] = events[n]
      /\ events'[Len(events) + 1] = e
  BY <1>1, <1>2, <1>3, AppendProperties
<1> QED
  BY <1>1, <1>3, <1>4, RowPublished DEF e

\* The changes users make, the refresh and the rebuild's publication.
Changed(d) ==
    /\ Published(d)
    /\ UNCHANGED <<store, worker, claims, bounds, done>>
    /\ rebuild' \in RebuildType
    /\ rebuild'.pc = rebuild.pc
    /\ rebuild'.since = rebuild.since /\ rebuild'.fresh = rebuild.fresh
    /\ docs' \in [Docs -> DocType] /\ prod' \in [Docs -> Products]

\* A parse that begins marks its document.
LEMMA StartParseEffect ==
    ASSUME Typed, NEW d \in Docs, StartParse(d) PROVE Changed(d)
<1>1. rebuild' = rebuild /\ UNCHANGED <<row, events, prod, store, worker, claims, bounds, done>>
  BY DEF StartParse
<1>2. docs' \in [Docs -> DocType]
  BY DEF StartParse, Typed, DocType
<1> QED
  BY <1>1, <1>2 DEF Changed, Published, Typed

\* A finished parse publishes unless there was and is nothing, and changes its document
\* and its products.
LEMMA ParseEffect ==
    ASSUME Typed, NEW d \in Docs, NEW new \in SUBSET Items, Parse(d, new) PROVE Changed(d)
<1>1. Published(d)
  BY PublishEffect DEF Parse, Published
<1>2. rebuild' = rebuild /\ UNCHANGED <<store, worker, claims, bounds, done>>
  BY DEF Parse
<1>3. new \in Products
  BY DEF Products
<1>4. docs' \in [Docs -> DocType] /\ prod' \in [Docs -> Products]
  BY <1>3 DEF Parse, Typed, DocType
<1> QED
  BY <1>1, <1>2, <1>4 DEF Changed, Typed

\* Enabling or disabling publishes if the document has a product.
LEMMA ToggleEffect ==
    ASSUME Typed, NEW d \in Docs, Toggle(d) PROVE Changed(d)
<1>1. Published(d)
  BY PublishEffect DEF Toggle, Published
<1>2. rebuild' = rebuild /\ UNCHANGED <<prod, store, worker, claims, bounds, done>>
  BY DEF Toggle
<1>3. docs[d] \in DocType /\ docs[d].enabled \in BOOLEAN
  BY DEF Typed, DocType
<1>4. docs' = [docs EXCEPT ![d] = [docs[d] EXCEPT !.enabled = ~docs[d].enabled,
                                                   !.dirty = (Variant = "wiki")]]
  BY <1>3 DEF Toggle, Typed
<1>5. [docs[d] EXCEPT !.enabled = ~docs[d].enabled, !.dirty = (Variant = "wiki")] \in DocType
  BY <1>3 DEF DocType
<1>6. docs' \in [Docs -> DocType]
  BY <1>4, <1>5 DEF Typed
<1> QED
  BY <1>1, <1>2, <1>6 DEF Changed, Typed

\* A deletion publishes.
LEMMA DeleteEffect ==
    ASSUME Typed, NEW d \in Docs, Delete(d) \/ RemoveKeepFile(d) PROVE Changed(d)
<1>0. Gone(d) /\ (prod' = [prod EXCEPT ![d] = {}] \/ prod' = prod)
  BY DEF Delete, RemoveKeepFile
<1>1. Published(d)
  BY <1>0, PublishEffect DEF Gone, Published
<1>2. rebuild' = rebuild /\ UNCHANGED <<store, worker, claims, bounds, done>>
  BY <1>0 DEF Gone
<1>3. docs' \in [Docs -> DocType]
  BY <1>0 DEF Gone, Typed, DocType
<1>4. prod' \in [Docs -> Products]
  BY <1>0 DEF Typed, Products
<1> QED
  BY <1>1, <1>2, <1>3, <1>4 DEF Changed, Typed

\* A Wiki refresh publishes unless there was and is nothing.
LEMMA RefreshEffect ==
    ASSUME Typed, NEW d \in Docs, Refresh(d) PROVE Changed(d)
<1>1. Published(d)
  BY PublishEffect DEF Refresh, Published
<1>2. rebuild' = rebuild /\ UNCHANGED <<store, worker, claims, bounds, done>>
  BY DEF Refresh
<1>3. docs' \in [Docs -> DocType]
  BY DEF Refresh, Typed, DocType
<1>4. prod' \in [Docs -> Products]
  BY DEF Refresh, Typed, DocType, Products
<1> QED
  BY <1>1, <1>2, <1>3, <1>4 DEF Changed, Typed

\* The rebuild republishes a listed document that has products.
LEMMA RebuildPublishEffect ==
    ASSUME Typed, NEW d \in Docs, RebuildPublish(d) PROVE Changed(d)
<1>1. Published(d)
  BY PublishEffect DEF RebuildPublish, Published
<1>2. UNCHANGED <<docs, prod, store, worker, claims, bounds, done>>
  BY DEF RebuildPublish
<1>3. rebuild' = [rebuild EXCEPT !.todo = @ \ {d}]
  BY DEF RebuildPublish
<1>4. /\ rebuild' \in RebuildType /\ rebuild'.pc = rebuild.pc
      /\ rebuild'.since = rebuild.since /\ rebuild'.fresh = rebuild.fresh
  BY <1>3 DEF Typed, RebuildType
<1> QED
  BY <1>1, <1>2, <1>4 DEF Changed, Typed

\* A worker takes a step of its batch.
Moved(w) ==
    /\ worker' \in [Workers -> WorkerType]
    /\ \A v \in Workers \ {w} : worker'[v] = worker[v]
    /\ worker[w].pc # "idle" /\ worker'[w].pc # "idle"
    /\ worker'[w].token = worker[w].token
    /\ worker'[w].batch = worker[w].batch
    /\ worker'[w].upto = worker[w].upto
    /\ UNCHANGED <<row, events, docs, rebuild, claims, bounds, done>>
    /\ prod' \in [Docs -> Products] /\ merged' \in [Docs -> Products]
    /\ contrib' \in [Docs -> Products]
    /\ \A d \in Docs : writer'[d] = writer[d] \/ (HoldsClaim(w) /\ writer'[d] = worker[w].token)
    /\ writer' \in [Docs -> Nat]

\* A worker goes to the next step and keeps what it has read.
LEMMA MoveEffect ==
    ASSUME Typed, NEW w \in Workers,
           NEW pc \in {"prepare", "delete", "strip", "load", "structure", "missing", "write",
                       "project", "commit", "ack"},
           Goto(w, pc)
    PROVE  /\ worker' \in [Workers -> WorkerType]
           /\ \A v \in Workers \ {w} : worker'[v] = worker[v]
           /\ worker'[w].pc = pc
           /\ worker'[w].token = worker[w].token
           /\ worker'[w].batch = worker[w].batch
           /\ worker'[w].upto = worker[w].upto
           /\ worker'[w].affected = worker[w].affected
           /\ worker'[w].current = worker[w].current
           /\ worker'[w].loaded = worker[w].loaded
<1>1. worker[w] \in WorkerType
  BY DEF Typed
<1>2. worker' = [worker EXCEPT ![w] = [worker[w] EXCEPT !.pc = pc]]
  BY DEF Goto, Typed
<1>3. [worker[w] EXCEPT !.pc = pc] \in WorkerType
  BY <1>1 DEF WorkerType
<1>4. worker' \in [Workers -> WorkerType] /\ worker'[w] = [worker[w] EXCEPT !.pc = pc]
  BY <1>2, <1>3 DEF Typed
<1>5. \A v \in Workers \ {w} : worker'[v] = worker[v]
  BY <1>2 DEF Typed
<1> QED
  BY <1>1, <1>4, <1>5 DEF WorkerType

\* The documents of a batch are documents of the dataset.
LEMMA BatchInDocs ==
    ASSUME Typed, InRange, NEW w \in Workers
    PROVE  /\ BatchDocs(w) \subseteq Docs /\ Affected(w) \subseteq Docs
           /\ Completed(w) \subseteq BatchDocs(w) /\ Retracted(w) \subseteq BatchDocs(w)
           /\ Deleted(w) \subseteq Retracted(w)
<1>1. \A n \in 1..Len(events) : events[n] \in EventType
  BY DEF Typed
<1>2. BatchDocs(w) \subseteq Docs
  BY <1>1 DEF InRange, BatchDocs, EventType
<1> QED
  BY <1>2 DEF Affected, Completed, Retracted, Deleted, Retracting

\* Preparation reads the products and the affected pages.
LEMMA PrepareEffect ==
    ASSUME Typed, InRange, NEW w \in Workers, Prepare(w)
    PROVE  /\ Moved(w)
           /\ UNCHANGED <<prod, store>>
           /\ worker[w].pc = "prepare"
           /\ worker'[w].affected = Affected(w)
           /\ worker'[w].current = [d \in Docs |-> IF d \in Completed(w) THEN prod[d] ELSE {}]
           /\ worker'[w].pc = IF Retracted(w) = {} /\ Wiki /\ Affected(w) = {} THEN "ack"
                              ELSE IF Deleted(w) # {} THEN "delete"
                              ELSE IF Retracted(w) # {} THEN "strip"
                              ELSE "load"
<1> DEFINE aff == Affected(w)
           cur == [d \in Docs |-> IF d \in Completed(w) THEN prod[d] ELSE {}]
           npc == IF Retracted(w) = {} /\ Wiki /\ Affected(w) = {} THEN "ack"
                  ELSE IF Deleted(w) # {} THEN "delete"
                  ELSE IF Retracted(w) # {} THEN "strip"
                  ELSE "load"
<1>1. worker[w] \in WorkerType
  BY DEF Typed
<1>2. aff \in SUBSET Docs
  BY BatchInDocs
<1>3. cur \in [Docs -> Products]
  BY DEF Typed, Products
<1>4. npc \in {"ack", "delete", "strip", "load"}
  OBVIOUS
<1>5. worker' = [worker EXCEPT ![w].affected = aff, ![w].current = cur, ![w].pc = npc]
  BY DEF Prepare
<1>5a. worker[w].pc = "prepare" /\ UNCHANGED <<row, events, docs, prod, store, rebuild, claims, bounds, done>>
  BY DEF Prepare
<1> HIDE DEF aff, cur, npc
<1>6. worker' = [worker EXCEPT ![w] = [worker[w] EXCEPT !.affected = aff, !.current = cur, !.pc = npc]]
  BY <1>5 DEF Typed
<1>7. [worker[w] EXCEPT !.affected = aff, !.current = cur, !.pc = npc] \in WorkerType
  BY <1>1, <1>2, <1>3, <1>4 DEF WorkerType
<1>8. /\ worker' \in [Workers -> WorkerType]
      /\ worker'[w] = [worker[w] EXCEPT !.affected = aff, !.current = cur, !.pc = npc]
      /\ \A v \in Workers \ {w} : worker'[v] = worker[v]
  BY <1>6, <1>7 DEF Typed
<1>9. /\ worker'[w].token = worker[w].token /\ worker'[w].batch = worker[w].batch
      /\ worker'[w].upto = worker[w].upto
      /\ worker'[w].affected = aff /\ worker'[w].current = cur /\ worker'[w].pc = npc
  BY <1>1, <1>8 DEF WorkerType
<1>10. Moved(w)
  BY <1>4, <1>5a, <1>8, <1>9 DEF Moved, Typed, store
<1> QED
  BY <1>5a, <1>9, <1>10 DEF aff, cur, npc

\* Loading leaves the row and the store alone.
LEMMA LoadEffect ==
    ASSUME Typed, NEW w \in Workers, Load(w)
    PROVE  /\ Moved(w)
           /\ UNCHANGED <<prod, store>>
           /\ worker[w].pc = "load" /\ worker'[w].pc = "structure"
           /\ worker'[w].affected = worker[w].affected
           /\ worker'[w].current = worker[w].current
           /\ ~Wiki => worker'[w].loaded = worker[w].current
<1> DEFINE new == [d \in Docs |-> IF Wiki
                     THEN IF d \in worker[w].affected THEN prod[d] ELSE {}
                     ELSE worker[w].current[d]]
<1>1. worker[w] \in WorkerType
  BY DEF Typed
<1>2. worker[w].current \in [Docs -> Products]
  BY <1>1 DEF WorkerType
<1>3. new \in [Docs -> Products] /\ (~Wiki => new = worker[w].current)
  BY <1>2 DEF Typed, Products
<1>4. worker' = [worker EXCEPT ![w].loaded = new, ![w].pc = "structure"]
  BY DEF Load
<1>5. worker[w].pc = "load" /\ UNCHANGED <<row, events, docs, prod, store, rebuild, claims, bounds, done>>
  BY DEF Load
<1> HIDE DEF new
<1>6. worker' = [worker EXCEPT ![w] = [worker[w] EXCEPT !.loaded = new, !.pc = "structure"]]
  BY <1>4 DEF Typed
<1>7. [worker[w] EXCEPT !.loaded = new, !.pc = "structure"] \in WorkerType
  BY <1>1, <1>3 DEF WorkerType
<1>8. /\ worker' \in [Workers -> WorkerType]
      /\ worker'[w] = [worker[w] EXCEPT !.loaded = new, !.pc = "structure"]
      /\ \A v \in Workers \ {w} : worker'[v] = worker[v]
  BY <1>6, <1>7 DEF Typed
<1>9. /\ worker'[w].token = worker[w].token /\ worker'[w].batch = worker[w].batch
      /\ worker'[w].upto = worker[w].upto /\ worker'[w].affected = worker[w].affected
      /\ worker'[w].current = worker[w].current /\ worker'[w].pc = "structure"
      /\ worker'[w].loaded = new
  BY <1>1, <1>8 DEF WorkerType
<1>10. Moved(w)
  BY <1>5, <1>8, <1>9 DEF Moved, Typed, store
<1> QED
  BY <1>3, <1>5, <1>9, <1>10

\* DeleteDocLevelForDocs changes document-level products only.
LEMMA DeleteDocsEffect ==
    ASSUME Typed, NEW w \in Workers, DeleteDocs(w)
    PROVE  /\ Moved(w)
           /\ worker[w].pc = "delete" /\ worker'[w].pc = "strip"
           /\ worker'[w].affected = worker[w].affected
           /\ worker'[w].current = worker[w].current
           /\ worker'[w].loaded = worker[w].loaded
           /\ UNCHANGED <<merged, contrib, writer>>
<1> DEFINE npc == "strip"
<1>0. worker[w] \in WorkerType
  BY DEF Typed
<1>1. Goto(w, npc) /\ npc \in {"load", "strip", "missing", "write", "project", "commit", "ack"}
  BY DEF DeleteDocs
<1>2. /\ worker[w].pc = "delete" /\ UNCHANGED <<row, events, docs, rebuild, claims, bounds, done>>
      /\ UNCHANGED <<merged, contrib, writer>>
  BY DEF DeleteDocs, store, bounds
<1>3. prod' \in [Docs -> Products]
  BY DEF DeleteDocs, Typed, Products
<1> HIDE DEF npc
<1>4. /\ worker' \in [Workers -> WorkerType]
      /\ \A v \in Workers \ {w} : worker'[v] = worker[v]
      /\ worker'[w].pc = npc /\ worker'[w].token = worker[w].token
      /\ worker'[w].batch = worker[w].batch /\ worker'[w].upto = worker[w].upto
      /\ worker'[w].affected = worker[w].affected
      /\ worker'[w].current = worker[w].current
      /\ worker'[w].loaded = worker[w].loaded
  BY <1>1, MoveEffect
<1>5. Moved(w)
  BY <1>1, <1>2, <1>3, <1>4 DEF Moved, Typed
<1> QED
  BY <1>2, <1>4, <1>5 DEF npc

\* Stripping changes what is merged only.
LEMMA StripEffect ==
    ASSUME Typed, NEW w \in Workers, Strip(w)
    PROVE  /\ Moved(w)
           /\ worker[w].pc = "strip" /\ worker'[w].pc = (IF Completed(w) = {} /\ worker[w].affected = {} THEN "commit" ELSE "load")
           /\ worker'[w].affected = worker[w].affected
           /\ worker'[w].current = worker[w].current
           /\ worker'[w].loaded = worker[w].loaded
           /\ UNCHANGED <<prod, contrib, writer>>
<1> DEFINE npc == (IF Completed(w) = {} /\ worker[w].affected = {} THEN "commit" ELSE "load")
<1>0. worker[w] \in WorkerType
  BY DEF Typed
<1>1. Goto(w, npc) /\ npc \in {"load", "strip", "missing", "write", "project", "commit", "ack"}
  BY DEF Strip
<1>2. /\ worker[w].pc = "strip" /\ UNCHANGED <<row, events, docs, rebuild, claims, bounds, done>>
      /\ UNCHANGED <<prod, contrib, writer>>
  BY DEF Strip, store, bounds
<1>3. merged' \in [Docs -> Products]
  BY DEF Strip, Typed, Products
<1> HIDE DEF npc
<1>4. /\ worker' \in [Workers -> WorkerType]
      /\ \A v \in Workers \ {w} : worker'[v] = worker[v]
      /\ worker'[w].pc = npc /\ worker'[w].token = worker[w].token
      /\ worker'[w].batch = worker[w].batch /\ worker'[w].upto = worker[w].upto
      /\ worker'[w].affected = worker[w].affected
      /\ worker'[w].current = worker[w].current
      /\ worker'[w].loaded = worker[w].loaded
  BY <1>1, MoveEffect
<1>5. Moved(w)
  BY <1>1, <1>2, <1>3, <1>4 DEF Moved, Typed
<1> QED
  BY <1>2, <1>4, <1>5 DEF npc

\* Dropping missing pages changes what is merged only.
LEMMA DeleteMissingEffect ==
    ASSUME Typed, NEW w \in Workers, DeleteMissing(w)
    PROVE  /\ Moved(w)
           /\ worker[w].pc = "missing" /\ worker'[w].pc = "write"
           /\ worker'[w].affected = worker[w].affected
           /\ worker'[w].current = worker[w].current
           /\ worker'[w].loaded = worker[w].loaded
           /\ UNCHANGED <<prod, contrib, writer>>
<1> DEFINE npc == "write"
<1>0. worker[w] \in WorkerType
  BY DEF Typed
<1>1. Goto(w, npc) /\ npc \in {"load", "strip", "missing", "write", "project", "commit", "ack"}
  BY DEF DeleteMissing
<1>2. /\ worker[w].pc = "missing" /\ UNCHANGED <<row, events, docs, rebuild, claims, bounds, done>>
      /\ UNCHANGED <<prod, contrib, writer>>
  BY DEF DeleteMissing, store, bounds
<1>3. merged' \in [Docs -> Products]
  BY DEF DeleteMissing, Typed, Products
<1> HIDE DEF npc
<1>4. /\ worker' \in [Workers -> WorkerType]
      /\ \A v \in Workers \ {w} : worker'[v] = worker[v]
      /\ worker'[w].pc = npc /\ worker'[w].token = worker[w].token
      /\ worker'[w].batch = worker[w].batch /\ worker'[w].upto = worker[w].upto
      /\ worker'[w].affected = worker[w].affected
      /\ worker'[w].current = worker[w].current
      /\ worker'[w].loaded = worker[w].loaded
  BY <1>1, MoveEffect
<1>5. Moved(w)
  BY <1>1, <1>2, <1>3, <1>4 DEF Moved, Typed
<1> QED
  BY <1>2, <1>4, <1>5 DEF npc

\* Structure rows are written under the claim, and by it.
LEMMA MergeStructureEffect ==
    ASSUME Typed, NEW w \in Workers, MergeStructure(w)
    PROVE  /\ Moved(w)
           /\ worker[w].pc = "structure" /\ worker'[w].pc = "missing"
           /\ worker'[w].affected = worker[w].affected
           /\ worker'[w].current = worker[w].current
           /\ worker'[w].loaded = worker[w].loaded
           /\ UNCHANGED <<prod, contrib>>
<1> DEFINE npc == "missing"
<1>0. worker[w] \in WorkerType
  BY DEF Typed
<1>1. Goto(w, npc) /\ npc \in {"load", "strip", "missing", "write", "project", "commit", "ack"}
  BY DEF MergeStructure
<1>2. /\ worker[w].pc = "structure" /\ UNCHANGED <<row, events, docs, rebuild, claims, bounds, done>>
      /\ UNCHANGED <<prod, contrib>>
  BY DEF MergeStructure, store, bounds
<1>3. merged' \in [Docs -> Products] /\ writer' \in [Docs -> Nat]
  <2>1. worker[w].loaded \in [Docs -> Products] /\ worker[w].token \in Nat
    BY <1>0 DEF WorkerType
  <2>2. CASE Wiki
    BY <2>2 DEF MergeStructure, Typed
  <2>3. CASE ~Wiki
    <3>1. \A d \in Docs : merged[d] \cup worker[w].loaded[d] \in Products
      BY <2>1 DEF Typed, Products
    <3>2. merged' = [d \in Docs |-> merged[d] \cup worker[w].loaded[d]]
      BY <2>3 DEF MergeStructure
    <3>3. merged' \in [Docs -> Products]
      BY <3>1, <3>2
    <3>4. writer' = [d \in Docs |-> IF d \in Written(w) THEN worker[w].token ELSE writer[d]]
      BY <2>3 DEF MergeStructure, WrittenBy
    <3>5. writer' \in [Docs -> Nat]
      BY <2>1, <3>4 DEF Typed
    <3> QED
      BY <3>3, <3>5
  <2> QED
    BY <2>2, <2>3
<1>3a. \A d \in Docs : writer'[d] = writer[d] \/ (HoldsClaim(w) /\ writer'[d] = worker[w].token)
  BY DEF MergeStructure, WrittenBy
<1> HIDE DEF npc
<1>4. /\ worker' \in [Workers -> WorkerType]
      /\ \A v \in Workers \ {w} : worker'[v] = worker[v]
      /\ worker'[w].pc = npc /\ worker'[w].token = worker[w].token
      /\ worker'[w].batch = worker[w].batch /\ worker'[w].upto = worker[w].upto
      /\ worker'[w].affected = worker[w].affected
      /\ worker'[w].current = worker[w].current
      /\ worker'[w].loaded = worker[w].loaded
  BY <1>1, MoveEffect
<1>5. Moved(w)
  BY <1>1, <1>2, <1>3, <1>3a, <1>4 DEF Moved, Typed
<1> QED
  BY <1>2, <1>4, <1>5 DEF npc

\* Wiki pages are written under the claim, and by it.
LEMMA WriteEffect ==
    ASSUME Typed, NEW w \in Workers, Write(w)
    PROVE  /\ Moved(w)
           /\ worker[w].pc = "write" /\ worker'[w].pc = "project"
           /\ worker'[w].affected = worker[w].affected
           /\ worker'[w].current = worker[w].current
           /\ worker'[w].loaded = worker[w].loaded
           /\ UNCHANGED <<prod, contrib>>
<1> DEFINE npc == "project"
<1>0. worker[w] \in WorkerType
  BY DEF Typed
<1>1. Goto(w, npc) /\ npc \in {"load", "strip", "missing", "write", "project", "commit", "ack"}
  BY DEF Write
<1>2. /\ worker[w].pc = "write" /\ UNCHANGED <<row, events, docs, rebuild, claims, bounds, done>>
      /\ UNCHANGED <<prod, contrib>>
  BY DEF Write, store, bounds
<1>3. merged' \in [Docs -> Products] /\ writer' \in [Docs -> Nat]
  <2>1. worker[w].loaded \in [Docs -> Products] /\ worker[w].token \in Nat
    BY <1>0 DEF WorkerType
  <2> QED
    BY <2>1 DEF Write, WrittenBy, Typed
<1>3a. \A d \in Docs : writer'[d] = writer[d] \/ (HoldsClaim(w) /\ writer'[d] = worker[w].token)
  BY DEF Write, WrittenBy
<1> HIDE DEF npc
<1>4. /\ worker' \in [Workers -> WorkerType]
      /\ \A v \in Workers \ {w} : worker'[v] = worker[v]
      /\ worker'[w].pc = npc /\ worker'[w].token = worker[w].token
      /\ worker'[w].batch = worker[w].batch /\ worker'[w].upto = worker[w].upto
      /\ worker'[w].affected = worker[w].affected
      /\ worker'[w].current = worker[w].current
      /\ worker'[w].loaded = worker[w].loaded
  BY <1>1, MoveEffect
<1>5. Moved(w)
  BY <1>1, <1>2, <1>3, <1>3a, <1>4 DEF Moved, Typed
<1> QED
  BY <1>2, <1>4, <1>5 DEF npc

\* The projection changes nothing that is merged.
LEMMA ProjectEffect ==
    ASSUME Typed, NEW w \in Workers, Project(w)
    PROVE  /\ Moved(w)
           /\ worker[w].pc = "project" /\ worker'[w].pc = "commit"
           /\ worker'[w].affected = worker[w].affected
           /\ worker'[w].current = worker[w].current
           /\ worker'[w].loaded = worker[w].loaded
           /\ UNCHANGED <<prod, merged, contrib, writer>>
<1> DEFINE npc == "commit"
<1>0. worker[w] \in WorkerType
  BY DEF Typed
<1>1. Goto(w, npc) /\ npc \in {"load", "strip", "missing", "write", "project", "commit", "ack"}
  BY DEF Project
<1>2. /\ worker[w].pc = "project" /\ UNCHANGED <<row, events, docs, rebuild, claims, bounds, done>>
      /\ UNCHANGED <<prod, merged, contrib, writer>>
  BY DEF Project, store, bounds
<1> HIDE DEF npc
<1>4. /\ worker' \in [Workers -> WorkerType]
      /\ \A v \in Workers \ {w} : worker'[v] = worker[v]
      /\ worker'[w].pc = npc /\ worker'[w].token = worker[w].token
      /\ worker'[w].batch = worker[w].batch /\ worker'[w].upto = worker[w].upto
      /\ worker'[w].affected = worker[w].affected
      /\ worker'[w].current = worker[w].current
      /\ worker'[w].loaded = worker[w].loaded
  BY <1>1, MoveEffect
<1>5. Moved(w)
  BY <1>1, <1>2, <1>4 DEF Moved, Typed
<1> QED
  BY <1>2, <1>4, <1>5 DEF npc

\* The commit changes contribution snapshots only.
LEMMA CommitEffect ==
    ASSUME Typed, NEW w \in Workers, Commit(w)
    PROVE  /\ Moved(w)
           /\ worker[w].pc = "commit" /\ worker'[w].pc = "ack"
           /\ worker'[w].affected = worker[w].affected
           /\ worker'[w].current = worker[w].current
           /\ worker'[w].loaded = worker[w].loaded
           /\ UNCHANGED <<prod, merged, writer>>
<1> DEFINE npc == "ack"
<1>0. worker[w] \in WorkerType
  BY DEF Typed
<1>1. Goto(w, npc) /\ npc \in {"load", "strip", "missing", "write", "project", "commit", "ack"}
  BY DEF Commit
<1>2. /\ worker[w].pc = "commit" /\ UNCHANGED <<row, events, docs, rebuild, claims, bounds, done>>
      /\ UNCHANGED <<prod, merged, writer>>
  BY DEF Commit, store, bounds
<1>3. contrib' \in [Docs -> Products]
  <2>1. worker[w].current \in [Docs -> Products]
    BY <1>0 DEF WorkerType
  <2> QED
    BY <2>1 DEF Commit, Typed, Products
<1> HIDE DEF npc
<1>4. /\ worker' \in [Workers -> WorkerType]
      /\ \A v \in Workers \ {w} : worker'[v] = worker[v]
      /\ worker'[w].pc = npc /\ worker'[w].token = worker[w].token
      /\ worker'[w].batch = worker[w].batch /\ worker'[w].upto = worker[w].upto
      /\ worker'[w].affected = worker[w].affected
      /\ worker'[w].current = worker[w].current
      /\ worker'[w].loaded = worker[w].loaded
  BY <1>1, MoveEffect
<1>5. Moved(w)
  BY <1>1, <1>2, <1>3, <1>4 DEF Moved, Typed
<1> QED
  BY <1>2, <1>4, <1>5 DEF npc

\* The steps of a batch.
Moves(w) ==
    \/ Prepare(w) \/ DeleteDocs(w) \/ Strip(w) \/ Load(w) \/ MergeStructure(w)
    \/ DeleteMissing(w) \/ Write(w) \/ Project(w) \/ Commit(w)

\* Every step of a batch keeps the row, the claim and the batch.
LEMMA MovesEffect ==
    ASSUME Typed, InRange, NEW w \in Workers, Moves(w) PROVE Moved(w)
  BY PrepareEffect, DeleteDocsEffect, StripEffect, LoadEffect, MergeStructureEffect,
     DeleteMissingEffect, WriteEffect, ProjectEffect, CommitEffect DEF Moves

\* A worker's record is emptied, and the others are left alone.
Left(w) ==
    /\ worker' \in [Workers -> WorkerType]
    /\ worker'[w].pc = "idle" /\ worker'[w].batch = <<>>
    /\ \A v \in Workers \ {w} : worker'[v] = worker[v]

\* A worker that drops its batch is idle.
LEMMA LeaveEffect ==
    ASSUME Typed, NEW w \in Workers, worker' = [worker EXCEPT ![w] = Idle]
    PROVE  Left(w)
<1>1. Idle \in WorkerType /\ Idle.pc = "idle" /\ Idle.batch = <<>>
  BY DEF Idle, WorkerType, Products
<1> HIDE DEF Idle
<1> QED
  BY <1>1 DEF Typed, Left

\* A batch is given up.
GivesUp(w) == LeavePaused(w) \/ Superseded(w) \/ Fail(w)

\* Giving a batch up leaves the row as it is.
LEMMA GivesUpEffect ==
    ASSUME Typed, NEW w \in Workers, GivesUp(w)
    PROVE  /\ Left(w) /\ fails' \in Nat
           /\ UNCHANGED <<row, events, docs, prod, store, rebuild, claims, lapses, rebuilds, done>>
<1>1. worker' = [worker EXCEPT ![w] = Idle]
  BY DEF GivesUp, LeavePaused, Superseded, Fail
<1>2. /\ fails' \in Nat
      /\ UNCHANGED <<row, events, docs, prod, store, rebuild, claims, lapses, rebuilds, done>>
  BY DEF GivesUp, LeavePaused, Superseded, Fail, bounds, Typed
<1> QED
  BY <1>1, <1>2, LeaveEffect

\* A claim.
LEMMA ClaimEffect ==
    ASSUME Typed, NEW w \in Workers, Claim(w)
    PROVE  /\ UNCHANGED <<events, docs, prod, store, rebuild, bounds, done>>
           /\ claims' = claims + 1
           /\ worker[w].pc = "idle"
           /\ Ready \in RowType /\ (Ready = row \/ Ready = Requeue(row))
           /\ ~LiveLease(Ready)
           /\ row' \in RowType /\ row' = ClaimRow(Ready, claims + 1)
           /\ row'.token = claims + 1 /\ row'.live
           /\ worker' \in [Workers -> WorkerType]
           /\ \A v \in Workers \ {w} : worker'[v] = worker[v]
           /\ worker'[w].pc = "prepare" /\ worker'[w].token = claims + 1
           /\ worker'[w].upto = Len(events)
           /\ worker'[w].batch = SubSeq(Ready.backlog, 1, Taken(Ready))
           /\ worker'[w].affected = {}
<1>1. Ready \in RowType /\ (Ready = row \/ Ready = Requeue(row))
  BY RowReady DEF Typed
<1>2. /\ UNCHANGED <<events, docs, prod, store, rebuild, bounds, done>>
      /\ claims' = claims + 1 /\ worker[w].pc = "idle" /\ ~LiveLease(Ready)
      /\ row' = ClaimRow(Ready, claims')
  BY DEF Claim, Claimable
<1>3. claims \in Nat /\ claims + 1 \in Nat /\ Len(events) \in Nat
  BY DEF Typed
<1>4. row' = ClaimRow(Ready, claims + 1)
  BY <1>2
<1>5. /\ row' \in RowType /\ row'.token = claims + 1 /\ row'.live
      /\ Len(Ready.backlog) - Len(row'.backlog) = Taken(Ready)
      /\ Taken(Ready) \in 0..Len(Ready.backlog)
  BY <1>1, <1>3, <1>4, RowClaimed
<1> DEFINE b == SubSeq(Ready.backlog, 1, Taken(Ready))
<1>6. b \in Seq(Nat)
  BY <1>1, <1>5, SetOfSplit DEF RowType
<1>7. worker' = [worker EXCEPT ![w] =
         [Idle EXCEPT !.pc = "prepare", !.token = claims + 1, !.upto = Len(events), !.batch = b]]
  BY <1>2, <1>5 DEF Claim
<1> HIDE DEF b
<1> DEFINE new == [Idle EXCEPT !.pc = "prepare", !.token = claims + 1, !.upto = Len(events), !.batch = b]
<1>8. /\ new \in WorkerType /\ new.pc = "prepare" /\ new.token = claims + 1
      /\ new.upto = Len(events) /\ new.batch = b /\ new.affected = {}
  BY <1>3, <1>6 DEF Idle, WorkerType, Products
<1> HIDE DEF new
<1>9. /\ worker' \in [Workers -> WorkerType] /\ worker'[w] = new
      /\ \A v \in Workers \ {w} : worker'[v] = worker[v]
  BY <1>7, <1>8 DEF Typed, new
<1> QED
  BY <1>1, <1>2, <1>4, <1>5, <1>8, <1>9 DEF b

\* Entries only change places when a batch is claimed.
LEMMA ClaimKeeps ==
    ASSUME Typed, NEW w \in Workers, Claim(w)
    PROVE  /\ ToSet(row'.backlog) \cup ToSet(row'.inflight) =
                ToSet(row.backlog) \cup ToSet(row.inflight)
           /\ ToSet(worker'[w].batch) \subseteq ToSet(row.backlog) \cup ToSet(row.inflight)
<1>1. /\ Ready \in RowType /\ (Ready = row \/ Ready = Requeue(row))
      /\ row' = ClaimRow(Ready, claims + 1) /\ claims + 1 \in Nat
      /\ worker'[w].batch = SubSeq(Ready.backlog, 1, Taken(Ready))
  BY ClaimEffect DEF Typed
<1>2. PICK r \in RowType : r = Ready
  BY <1>1
<1>2a. row \in RowType
  BY DEF Typed
<1>3. ToSet(r.backlog) \cup ToSet(r.inflight) = ToSet(row.backlog) \cup ToSet(row.inflight)
  <2>1. CASE r = row
    BY <2>1
  <2>2. CASE r = Requeue(row)
    <3>1. row.backlog \in Seq(Nat) /\ row.inflight \in Seq(Nat)
      BY <1>2a DEF RowType
    <3>2. r.backlog = row.backlog \o row.inflight /\ r.inflight = <<>>
      BY <1>2a, <2>2, RowRequeued
    <3>3. ToSet(<<>>) = {}
      BY DEF ToSet
    <3> QED
      BY <3>1, <3>2, <3>3, SetOfConcat
  <2> QED
    BY <1>1, <1>2, <2>1, <2>2
<1> DEFINE a == SubSeq(r.backlog, 1, Taken(r))
           b == SubSeq(r.backlog, Taken(r) + 1, Len(r.backlog))
<1>4. r.backlog \in Seq(Nat) /\ r.inflight \in Seq(Nat) /\ Taken(r) \in 0..Len(r.backlog)
  BY RowClaimed DEF RowType
<1>5. row'.backlog = b /\ row'.inflight = r.inflight \o a
  BY <1>1, <1>2, RowClaimed
<1>6. a \in Seq(Nat) /\ ToSet(r.backlog) = ToSet(a) \cup ToSet(b)
  BY <1>4, SetOfSplit
<1>7. worker'[w].batch = a
  BY <1>1, <1>2
<1> HIDE DEF a, b
<1>8. ToSet(row'.inflight) = ToSet(r.inflight) \cup ToSet(a)
  BY <1>4, <1>5, <1>6, SetOfConcat
<1> QED
  BY <1>3, <1>5, <1>6, <1>7, <1>8

\* An acknowledgement under the claim removes the entries that equal one of the batch,
\* releases the claim if none is left, and covers the events published before the claim.
LEMMA AckEffect ==
    ASSUME Typed, NEW w \in Workers, Ack(w)
    PROVE  /\ Left(w)
           /\ worker[w].pc = "ack"
           /\ UNCHANGED <<events, docs, prod, store, rebuild, claims, bounds>>
           /\ \/ UNCHANGED <<row, done>> /\ ~HoldsClaim(w)
              \/ /\ HoldsClaim(w)
                 /\ row' = AckRow(row, worker[w].batch) /\ row' \in RowType
                 /\ row'.backlog = row.backlog
                 /\ row'.inflight \in Seq(Nat)
                 /\ ToSet(row'.inflight) = {n \in ToSet(row.inflight) :
                       \A m \in ToSet(worker[w].batch) : events[m] # events[n]}
                 /\ ToSet(row'.inflight) = {} => row'.inflight = <<>>
                 /\ \/ row'.token = row.token /\ row'.live = row.live /\ row'.inflight # <<>>
                    \/ row'.token = 0 /\ row'.inflight = <<>> /\ ~row'.live
                 /\ done' = done \cup {n \in 1..worker[w].upto :
                       \E m \in ToSet(worker[w].batch) : events[m] = events[n]}
<1>1. Left(w) /\ worker[w].pc = "ack" /\ UNCHANGED <<events, docs, prod, store, rebuild, claims, bounds>>
  BY LeaveEffect DEF Ack
<1>2. CASE ~HoldsClaim(w)
  BY <1>1, <1>2 DEF Ack
<1>3. CASE HoldsClaim(w)
  <2> DEFINE b == worker[w].batch
  <2>1. row \in RowType /\ row.inflight \in Seq(Nat)
    BY DEF Typed, RowType
  <2>2. /\ row' = AckRow(row, b)
        /\ done' = done \cup {n \in 1..worker[w].upto : \E m \in ToSet(b) : events[m] = events[n]}
    BY <1>3 DEF Ack
  <2> HIDE DEF b
  <2>3. /\ row' \in RowType /\ row'.backlog = row.backlog
        /\ row'.inflight = RemoveEntries(row.inflight, b)
        /\ \/ row'.token = row.token /\ row'.live = row.live /\ row'.inflight # <<>>
           \/ row'.token = 0 /\ row'.inflight = <<>> /\ ~row'.live
    BY <2>1, <2>2, RowAcked
  <2>4. /\ row'.inflight \in Seq(Nat)
        /\ ToSet(row'.inflight) = {n \in ToSet(row.inflight) :
                \A m \in ToSet(b) : events[m] # events[n]}
        /\ ToSet(row'.inflight) = {} => row'.inflight = <<>>
    BY <2>1, <2>3, SetOfRemoved
  <2> QED
    BY <1>1, <1>3, <2>2, <2>3, <2>4 DEF b
<1> QED
  BY <1>2, <1>3

\* The lease is renewed or expires.
LEMMA LeaseEffect ==
    ASSUME Typed, NEW live \in BOOLEAN, row' = [row EXCEPT !.live = live]
    PROVE  /\ row' \in RowType /\ row'.live = live /\ row'.token = row.token
           /\ row'.backlog = row.backlog /\ row'.inflight = row.inflight
  BY DEF Typed, RowType

\* A rebuild cancels a live claim, whose entries go back to the backlog.
LEMMA RebuildBeginEffect ==
    ASSUME Typed, RebuildBegin
    PROVE  /\ UNCHANGED <<events, docs, prod, store, worker, claims, lapses, fails, done>>
           /\ rebuilds' = rebuilds + 1
           /\ rebuild' \in RebuildType
           /\ rebuild'.since = claims /\ rebuild'.fresh = rebuild.fresh
           /\ row' \in RowType
           /\ \/ ~LiveLease(row) /\ row' = row
              \/ /\ row'.token = 0 /\ row'.inflight = <<>>
                 /\ row'.backlog = row.backlog \o row.inflight
           /\ ToSet(row'.backlog) \cup ToSet(row'.inflight) =
                ToSet(row.backlog) \cup ToSet(row.inflight)
<1>1. row \in RowType /\ row.backlog \in Seq(Nat) /\ row.inflight \in Seq(Nat)
  BY DEF Typed, RowType
<1>2. /\ UNCHANGED <<events, docs, prod, store, worker, claims, lapses, fails, done>>
      /\ rebuilds' = rebuilds + 1
      /\ rebuild' = [rebuild EXCEPT !.pc = "clear", !.since = claims]
      /\ row' = CancelInflight(row)
  BY DEF RebuildBegin
<1>3. /\ rebuild' \in RebuildType
      /\ rebuild'.since = claims /\ rebuild'.fresh = rebuild.fresh
  BY <1>2 DEF Typed, RebuildType
<1>4. CASE ~LiveLease(row)
  BY <1>1, <1>2, <1>3, <1>4 DEF CancelInflight
<1>5. CASE LiveLease(row)
  <2>1. row' = Requeue(row)
    BY <1>2, <1>5 DEF CancelInflight
  <2>2. /\ row' \in RowType /\ row'.backlog = row.backlog \o row.inflight
        /\ row'.inflight = <<>> /\ row'.token = 0
    BY <1>1, <2>1, RowRequeued
  <2>3. ToSet(row.backlog \o row.inflight) = ToSet(row.backlog) \cup ToSet(row.inflight)
    BY <1>1, SetOfConcat
  <2>4. ToSet(<<>>) = {}
    BY DEF ToSet
  <2> QED
    BY <1>2, <1>3, <2>2, <2>3, <2>4
<1> QED
  BY <1>4, <1>5

\* The other steps of a rebuild.
LEMMA RebuildEffect ==
    ASSUME Typed, RebuildClear \/ RebuildList \/ RebuildReturn
    PROVE  /\ UNCHANGED <<row, events, docs, prod, worker, claims, lapses, rebuilds, done>>
           /\ rebuild' \in RebuildType /\ rebuild'.since = rebuild.since
           /\ rebuild'.pc # "clear"
           /\ fails' \in Nat
           /\ merged' \in [Docs -> Products] /\ contrib' \in [Docs -> Products]
           /\ writer' \in [Docs -> Nat]
           /\ \/ rebuild.pc = "clear" /\ rebuild'.fresh = rebuild.since /\ \A d \in Docs : writer'[d] = 0
              \/ rebuild'.fresh = rebuild.fresh /\ writer' = writer
<1>1. CASE RebuildClear
  BY <1>1 DEF RebuildClear, Typed, RebuildType, Products, bounds
<1>2. CASE RebuildList
  BY <1>2 DEF RebuildList, Typed, RebuildType, bounds, store
<1>3. CASE RebuildReturn
  <2>1. fails \in Nat /\ (fails' = fails \/ fails' = fails + 1)
    BY <1>3 DEF RebuildReturn, Typed
  <2>2. rebuild' = [rebuild EXCEPT !.pc = "idle", !.todo = {}]
    BY <1>3 DEF RebuildReturn
  <2>3. UNCHANGED <<row, events, docs, prod, store, worker, claims, lapses, rebuilds, done>>
    BY <1>3 DEF RebuildReturn
  <2>4. fails' \in Nat
    BY <2>1
  <2>5. /\ rebuild' \in RebuildType /\ rebuild'.since = rebuild.since
        /\ rebuild'.pc # "clear" /\ rebuild'.fresh = rebuild.fresh
    BY <2>2 DEF Typed, RebuildType
  <2> QED
    BY <2>3, <2>4, <2>5 DEF Typed, store
<1> QED
  BY <1>1, <1>2, <1>3

\* The steps of the dataset.
LEMMA Steps ==
    ASSUME Typed, Next
    PROVE  \/ \E d \in Docs : Changed(d)
           \/ \E w \in Workers : \/ Claim(w) \/ Moves(w) \/ GivesUp(w) \/ Ack(w) \/ Touch(w)
           \/ Expire \/ RebuildBegin \/ RebuildClear \/ RebuildList \/ RebuildReturn
<1>1. ASSUME NEW d \in Docs,
             \/ StartParse(d) \/ \E new \in SUBSET Items : Parse(d, new)
             \/ Toggle(d) \/ Delete(d) \/ RemoveKeepFile(d) \/ Refresh(d)
             \/ RebuildPublish(d)
      PROVE  Changed(d)
  BY <1>1, StartParseEffect, ParseEffect, ToggleEffect, DeleteEffect, RefreshEffect,
     RebuildPublishEffect
<1> QED
  BY <1>1 DEF Next, WorkStep, Moves, GivesUp

-------------------------------------------------------------------------------
(* Types and ranges. *)

\* Every step keeps the types, and entries within the published events.
LEMMA TypedStep == Typed /\ InRange /\ [Next]_vars => Typed' /\ InRange'
<1> SUFFICES ASSUME Typed, InRange, [Next]_vars PROVE Typed' /\ InRange'
  OBVIOUS
<1>0. Len(events) \in Nat /\ row \in RowType /\ row.backlog \in Seq(Nat) /\ row.inflight \in Seq(Nat)
  BY DEF Typed, RowType
<1>e. ToSet(<<>>) = {}
  BY DEF ToSet
<1>1. ASSUME NEW d \in Docs, Changed(d) PROVE Typed' /\ InRange'
  <2>1. CASE UNCHANGED <<row, events>>
    BY <1>1, <2>1 DEF Changed, Typed, InRange, store, bounds
  <2>2. CASE ~UNCHANGED <<row, events>>
    <3>1. /\ events' \in Seq(EventType) /\ Len(events') = Len(events) + 1
          /\ row' \in RowType /\ row'.backlog = Append(row.backlog, Len(events) + 1)
          /\ row'.inflight = row.inflight
      BY <1>1, <2>2 DEF Changed, Published
    <3>2. ToSet(row'.backlog) = ToSet(row.backlog) \cup {Len(events) + 1}
      BY <1>0, <3>1, SetOfAppend
    <3>3. 1..Len(events) \subseteq 1..Len(events') /\ Len(events) + 1 \in 1..Len(events')
      BY <1>0, <3>1
    <3>4. InRange'
      BY <1>1, <3>1, <3>2, <3>3 DEF Changed, InRange
    <3> QED
      BY <1>1, <3>1, <3>4 DEF Changed, Typed, store, bounds
  <2> QED
    BY <2>1, <2>2
<1>2. ASSUME NEW w \in Workers, Claim(w) PROVE Typed' /\ InRange'
  <2>1. /\ UNCHANGED <<events, docs, prod, store, rebuild, bounds, done>>
        /\ claims' = claims + 1 /\ row' \in RowType /\ worker' \in [Workers -> WorkerType]
        /\ \A v \in Workers \ {w} : worker'[v] = worker[v]
    BY <1>2, ClaimEffect
  <2>2. InRange'
    BY <1>2, <2>1, ClaimKeeps DEF InRange
  <2> QED
    BY <2>1, <2>2 DEF Typed, store, bounds
<1>3. ASSUME NEW w \in Workers, Moves(w) PROVE Typed' /\ InRange'
  BY <1>3, MovesEffect DEF Moved, Typed, InRange, bounds
<1>4. ASSUME NEW w \in Workers, GivesUp(w) PROVE Typed' /\ InRange'
  BY <1>4, <1>e, GivesUpEffect DEF Left, Typed, InRange, store
<1>5. ASSUME NEW w \in Workers, Ack(w) PROVE Typed' /\ InRange'
  <2>1. /\ Left(w) /\ UNCHANGED <<events, docs, prod, store, rebuild, claims, bounds>>
        /\ row' \in RowType /\ row'.backlog = row.backlog
        /\ ToSet(row'.inflight) \subseteq ToSet(row.inflight)
    BY <1>0, <1>5, AckEffect
  <2> QED
    BY <1>e, <2>1 DEF Left, Typed, InRange, store, bounds
<1>6. ASSUME NEW w \in Workers, Touch(w) PROVE Typed' /\ InRange'
  <2>1. /\ row' = [row EXCEPT !.live = TRUE]
        /\ UNCHANGED <<events, docs, prod, store, worker, rebuild, claims, bounds, done>>
    BY <1>6 DEF Touch
  <2> QED
    BY <2>1, LeaseEffect DEF Typed, InRange, store, bounds
<1>7. CASE Expire
  <2>1. /\ row' = [row EXCEPT !.live = FALSE] /\ (lapses' = lapses \/ lapses' = lapses + 1)
        /\ UNCHANGED <<events, docs, prod, store, worker, rebuild, claims, fails, rebuilds, done>>
    BY <1>7 DEF Expire
  <2>2. lapses' \in Nat
    BY <2>1 DEF Typed
  <2>3. row' \in RowType /\ row'.backlog = row.backlog /\ row'.inflight = row.inflight
    BY <2>1, LeaseEffect
  <2> QED
    BY <2>1, <2>2, <2>3 DEF Typed, InRange, store
<1>8. CASE RebuildBegin
  <2>1. /\ UNCHANGED <<events, docs, prod, store, worker, claims, lapses, fails, done>>
        /\ rebuilds' = rebuilds + 1 /\ rebuild' \in RebuildType /\ row' \in RowType
        /\ ToSet(row'.backlog) \cup ToSet(row'.inflight) =
                ToSet(row.backlog) \cup ToSet(row.inflight)
    BY <1>8, RebuildBeginEffect
  <2>2. rebuilds' \in Nat
    BY <2>1 DEF Typed
  <2>3. InRange'
    BY <2>1 DEF InRange
  <2> QED
    BY <2>1, <2>2, <2>3 DEF Typed, store
<1>9. CASE RebuildClear \/ RebuildList \/ RebuildReturn
  BY <1>9, RebuildEffect DEF Typed, InRange
<1>10. CASE UNCHANGED vars
  BY <1>10 DEF vars, Typed, InRange
<1> QED
  BY <1>1, <1>2, <1>3, <1>4, <1>5, <1>6, <1>7, <1>8, <1>9, <1>10, Steps

-------------------------------------------------------------------------------
(* No event is lost. *)

\* Tokens are those of claims made, and what is inflight under a worker's claim was
\* published before it.
Covering ==
    /\ row.token <= claims
    /\ \A w \in Workers : worker[w].pc # "idle" =>
          /\ worker[w].token \in 1..claims
          /\ worker[w].upto <= Len(events)
          /\ worker[w].token = row.token => \A n \in ToSet(row.inflight) : n <= worker[w].upto

\* Every step keeps the events: a claim moves them, a reclamation and a cancellation move
\* them back, and an acknowledgement removes those it covers.
LEMMA CoveringStep ==
    Typed /\ InRange /\ Covering /\ NothingLost /\ [Next]_vars => Covering' /\ NothingLost'
<1> SUFFICES ASSUME Typed, InRange, Covering, NothingLost, [Next]_vars
             PROVE  Covering' /\ NothingLost'
  OBVIOUS
<1>0. Len(events) \in Nat /\ row.backlog \in Seq(Nat) /\ row.token \in Nat /\ claims \in Nat
  BY DEF Typed, RowType
<1>w. \A w \in Workers : worker[w].token \in Nat /\ worker[w].upto \in Nat
  BY DEF Typed, WorkerType
<1>e. ToSet(<<>>) = {}
  BY DEF ToSet
<1>1. ASSUME NEW d \in Docs, Changed(d) PROVE Covering' /\ NothingLost'
  <2>1. CASE UNCHANGED <<row, events>>
    BY <1>1, <2>1 DEF Changed, Covering, NothingLost
  <2>2. CASE ~UNCHANGED <<row, events>>
    <3>1. /\ Len(events') = Len(events) + 1 /\ row'.token = row.token
          /\ row'.backlog = Append(row.backlog, Len(events) + 1)
          /\ row'.inflight = row.inflight
      BY <1>1, <2>2 DEF Changed, Published
    <3>2. ToSet(row'.backlog) = ToSet(row.backlog) \cup {Len(events) + 1}
      BY <1>0, <3>1, SetOfAppend
    <3>3. UNCHANGED <<worker, claims, done>>
      BY <1>1 DEF Changed
    <3>4. Covering'
      BY <1>0, <1>w, <3>1, <3>3 DEF Covering
    <3>5. \A n \in 1..Len(events') : n \in 1..Len(events) \/ n = Len(events) + 1
      BY <1>0, <3>1
    <3> QED
      BY <3>1, <3>2, <3>3, <3>4, <3>5 DEF NothingLost
  <2> QED
    BY <2>1, <2>2
<1>2. ASSUME NEW w \in Workers, Claim(w) PROVE Covering' /\ NothingLost'
  <2>1. /\ UNCHANGED <<events, done>> /\ claims' = claims + 1
        /\ row'.token = claims + 1
        /\ \A v \in Workers \ {w} : worker'[v] = worker[v]
        /\ worker'[w].token = claims + 1 /\ worker'[w].upto = Len(events)
    BY <1>2, ClaimEffect
  <2>2. ToSet(row'.backlog) \cup ToSet(row'.inflight) = ToSet(row.backlog) \cup ToSet(row.inflight)
    BY <1>2, ClaimKeeps
  <2>3. \A n \in ToSet(row'.inflight) : n <= Len(events)
    BY <1>0, <2>2 DEF InRange
  <2>4. Covering'
    BY <1>0, <1>w, <2>1, <2>3 DEF Covering
  <2> QED
    BY <2>1, <2>2, <2>4 DEF NothingLost
<1>3. ASSUME NEW w \in Workers, Moves(w) PROVE Covering' /\ NothingLost'
  BY <1>3, MovesEffect DEF Moved, Covering, NothingLost
<1>4. ASSUME NEW w \in Workers, GivesUp(w) PROVE Covering' /\ NothingLost'
  BY <1>4, GivesUpEffect DEF Left, Covering, NothingLost
<1>5. ASSUME NEW w \in Workers, Ack(w) PROVE Covering' /\ NothingLost'
  <2>1. CASE UNCHANGED <<row, done>>
    BY <1>5, <2>1, AckEffect DEF Left, Covering, NothingLost
  <2>2. CASE ~UNCHANGED <<row, done>>
    <3>1. /\ Left(w) /\ worker[w].pc = "ack" /\ UNCHANGED <<events, claims>>
          /\ worker[w].token = row.token
          /\ row'.backlog = row.backlog
          /\ ToSet(row'.inflight) = {n \in ToSet(row.inflight) :
                \A m \in ToSet(worker[w].batch) : events[m] # events[n]}
          /\ row'.token = row.token \/ row'.token = 0
          /\ done' = done \cup {n \in 1..worker[w].upto :
                \E m \in ToSet(worker[w].batch) : events[m] = events[n]}
      BY <1>5, <2>2, AckEffect DEF HoldsClaim
    <3>2. ToSet(row'.inflight) \subseteq ToSet(row.inflight)
      BY <3>1
    <3>3. Covering'
      BY <1>0, <1>w, <3>1, <3>2 DEF Covering, Left
    <3>4. \A n \in ToSet(row.inflight) : n \in 1..worker[w].upto
      BY <1>0, <1>w, <3>1 DEF Covering, InRange
    <3>5. ToSet(row.inflight) \subseteq ToSet(row'.inflight) \cup done'
      BY <3>1, <3>4
    <3> QED
      BY <3>1, <3>3, <3>5 DEF NothingLost
  <2> QED
    BY <2>1, <2>2
<1>6. ASSUME NEW w \in Workers, Touch(w) PROVE Covering' /\ NothingLost'
  <2>1. row' = [row EXCEPT !.live = TRUE] /\ UNCHANGED <<events, worker, claims, done>>
    BY <1>6 DEF Touch
  <2> QED
    BY <2>1, LeaseEffect DEF Covering, NothingLost
<1>7. CASE Expire
  <2>1. row' = [row EXCEPT !.live = FALSE] /\ UNCHANGED <<events, worker, claims, done>>
    BY <1>7 DEF Expire
  <2> QED
    BY <2>1, LeaseEffect DEF Covering, NothingLost
<1>8. CASE RebuildBegin
  <2>1. CASE row' = row
    BY <1>8, <2>1, RebuildBeginEffect DEF Covering, NothingLost
  <2>2. CASE row' # row
    <3>1. /\ UNCHANGED <<events, worker, claims, done>> /\ row'.token = 0 /\ row'.inflight = <<>>
          /\ ToSet(row'.backlog) \cup ToSet(row'.inflight) =
                ToSet(row.backlog) \cup ToSet(row.inflight)
      BY <1>8, <2>2, RebuildBeginEffect
    <3>2. Covering'
      BY <1>0, <1>e, <3>1 DEF Covering
    <3> QED
      BY <3>1, <3>2 DEF NothingLost
  <2> QED
    BY <2>1, <2>2
<1>9. CASE RebuildClear \/ RebuildList \/ RebuildReturn
  BY <1>9, RebuildEffect DEF Covering, NothingLost
<1>10. CASE UNCHANGED vars
  BY <1>10 DEF vars, Covering, NothingLost
<1> QED
  BY <1>1, <1>2, <1>3, <1>4, <1>5, <1>6, <1>7, <1>8, <1>9, <1>10, Steps

-------------------------------------------------------------------------------
(* Rebuilds. *)

\* While no lease has lapsed, a worker that holds the claim has a live lease, and its
\* claim was made after the last rebuild had cancelled the one before.
HoldersAreFresh ==
    /\ rebuild.fresh <= rebuild.since /\ rebuild.since <= claims
    /\ lapses = 0 => \A w \in Workers : worker[w].pc # "idle" /\ worker[w].token = row.token =>
          /\ row.live
          /\ worker[w].token > rebuild.fresh
          /\ rebuild.pc = "clear" => worker[w].token > rebuild.since

\* Every step keeps a rebuild final: no claim of before it writes after its clearing.
LEMMA FreshStep ==
    Typed /\ InRange /\ Covering /\ HoldersAreFresh /\ RebuiltIsFresh /\ [Next]_vars
        => HoldersAreFresh' /\ RebuiltIsFresh'
<1> SUFFICES ASSUME Typed, InRange, Covering, HoldersAreFresh, RebuiltIsFresh, [Next]_vars
             PROVE  HoldersAreFresh' /\ RebuiltIsFresh'
  OBVIOUS
<1>0. /\ row.token \in Nat /\ claims \in Nat /\ lapses \in Nat
      /\ rebuild.since \in Nat /\ rebuild.fresh \in Nat
  BY DEF Typed, RowType, RebuildType
<1>w. \A w \in Workers : worker[w].token \in Nat
  BY DEF Typed, WorkerType
<1>1. ASSUME NEW d \in Docs, Changed(d) PROVE HoldersAreFresh' /\ RebuiltIsFresh'
  <2>1. /\ UNCHANGED <<store, worker, claims, bounds>>
        /\ rebuild'.pc = rebuild.pc
        /\ rebuild'.since = rebuild.since /\ rebuild'.fresh = rebuild.fresh
        /\ row'.token = row.token /\ row'.live = row.live
    BY <1>1 DEF Changed, Published
  <2> QED
    BY <2>1 DEF HoldersAreFresh, RebuiltIsFresh, store, bounds
<1>2. ASSUME NEW w \in Workers, Claim(w) PROVE HoldersAreFresh' /\ RebuiltIsFresh'
  <2>1. /\ UNCHANGED <<rebuild, writer, lapses>> /\ claims' = claims + 1
        /\ row'.token = claims + 1 /\ row'.live
        /\ \A v \in Workers \ {w} : worker'[v] = worker[v]
        /\ worker'[w].token = claims + 1
    BY <1>2, ClaimEffect DEF store, bounds
  <2> QED
    BY <1>0, <1>w, <2>1 DEF HoldersAreFresh, RebuiltIsFresh, Covering
<1>3. ASSUME NEW w \in Workers, Moves(w) PROVE HoldersAreFresh' /\ RebuiltIsFresh'
  <2>1. Moved(w)
    BY <1>3, MovesEffect
  <2>2. HoldersAreFresh'
    BY <2>1 DEF Moved, HoldersAreFresh, bounds
  <2> QED
    BY <2>1, <2>2 DEF Moved, HoldsClaim, HoldersAreFresh, RebuiltIsFresh, bounds
<1>4. ASSUME NEW w \in Workers, GivesUp(w) PROVE HoldersAreFresh' /\ RebuiltIsFresh'
  BY <1>4, GivesUpEffect DEF Left, HoldersAreFresh, RebuiltIsFresh, store
<1>5. ASSUME NEW w \in Workers, Ack(w) PROVE HoldersAreFresh' /\ RebuiltIsFresh'
  <2>1. /\ Left(w) /\ UNCHANGED <<store, rebuild, claims, bounds>>
        /\ row'.token = 0 \/ (row'.token = row.token /\ row'.live = row.live)
    BY <1>5, AckEffect
  <2> QED
    BY <1>0, <1>w, <2>1 DEF Left, Covering, HoldersAreFresh, RebuiltIsFresh, store, bounds
<1>6. ASSUME NEW w \in Workers, Touch(w) PROVE HoldersAreFresh' /\ RebuiltIsFresh'
  <2>1. row' = [row EXCEPT !.live = TRUE] /\ UNCHANGED <<store, worker, rebuild, claims, bounds>>
    BY <1>6 DEF Touch
  <2> QED
    BY <2>1, LeaseEffect DEF HoldersAreFresh, RebuiltIsFresh, store, bounds
<1>7. CASE Expire
  <2>1. /\ row' = [row EXCEPT !.live = FALSE] /\ UNCHANGED <<store, worker, rebuild, claims>>
        /\ lapses' = IF Held THEN lapses + 1 ELSE lapses
    BY <1>7 DEF Expire
  <2>2. lapses' = 0 => ~Held /\ lapses = 0
    BY <1>0, <2>1
  <2>3. row'.token = row.token
    BY <2>1, LeaseEffect
  <2> QED
    BY <2>1, <2>2, <2>3 DEF Held, HoldersAreFresh, RebuiltIsFresh, store
<1>8. CASE RebuildBegin
  <2>1. /\ UNCHANGED <<store, worker, claims, lapses>>
        /\ rebuild'.since = claims /\ rebuild'.fresh = rebuild.fresh
        /\ (~LiveLease(row) /\ row' = row) \/ row'.token = 0
    BY <1>8, RebuildBeginEffect
  <2>2. lapses = 0 => \A w \in Workers : ~(worker[w].pc # "idle" /\ worker[w].token = row'.token)
    BY <1>0, <1>w, <2>1 DEF LiveLease, Covering, HoldersAreFresh
  <2> QED
    BY <1>0, <2>1, <2>2 DEF HoldersAreFresh, RebuiltIsFresh, store
<1>9. CASE RebuildClear \/ RebuildList \/ RebuildReturn
  BY <1>0, <1>9, RebuildEffect DEF HoldersAreFresh, RebuiltIsFresh
<1>10. CASE UNCHANGED vars
  BY <1>10 DEF vars, HoldersAreFresh, RebuiltIsFresh
<1> QED
  BY <1>1, <1>2, <1>3, <1>4, <1>5, <1>6, <1>7, <1>8, <1>9, <1>10, Steps

-------------------------------------------------------------------------------
(* The theorems on events and rebuilds. *)

\* The inductive invariant of the scheduling row and its claims.
CompileInv ==
    Typed /\ InRange /\ Covering /\ NothingLost /\ HoldersAreFresh /\ RebuiltIsFresh

\* It holds at the start.
LEMMA CompileInit == Init => CompileInv
<1> SUFFICES ASSUME Init PROVE CompileInv
  OBVIOUS
<1>e. ToSet(<<>>) = {}
  BY DEF ToSet
<1>1. row \in RowType /\ row.backlog = <<>> /\ row.inflight = <<>> /\ row.token = 0
  BY DEF Init, RowType
<1>2. events = <<>> /\ Len(events) = 0 /\ events \in Seq(EventType)
  BY DEF Init
<1>3. Idle \in WorkerType /\ Idle.pc = "idle" /\ Idle.batch = <<>>
  BY DEF Idle, WorkerType, Products
<1>4. /\ worker \in [Workers -> WorkerType]
      /\ \A w \in Workers : worker[w].pc = "idle" /\ worker[w].batch = <<>>
  BY <1>3 DEF Init
<1>5. rebuild \in RebuildType /\ rebuild.since = 0 /\ rebuild.fresh = 0
  BY DEF Init, RebuildType
<1>6. docs \in [Docs -> DocType]
  BY DEF Init, DocType, Products
<1>7. Typed
  BY <1>1, <1>2, <1>4, <1>5, <1>6 DEF Init, Typed, Products
<1>8. InRange
  BY <1>e, <1>1, <1>4 DEF InRange
<1>9. Covering /\ HoldersAreFresh
  BY <1>1, <1>4, <1>5 DEF Init, Covering, HoldersAreFresh
<1>10. NothingLost
  BY <1>2 DEF NothingLost
<1>11. RebuiltIsFresh
  BY DEF Init, RebuiltIsFresh
<1> QED
  BY <1>7, <1>8, <1>9, <1>10, <1>11 DEF CompileInv

\* Every step keeps it.
LEMMA CompileStep == CompileInv /\ [Next]_vars => CompileInv'
  BY TypedStep, CoveringStep, FreshStep DEF CompileInv

\* It holds of every reachable state.
LEMMA CompileInvariant == Spec => []CompileInv
  BY CompileInit, CompileStep, PTL DEF Spec

\* However claims expire, are taken over, cancelled, given up or acknowledged, and
\* whatever batch size splits the backlog, a published event waits, is inflight or was
\* covered by a batch claimed after its publication.
THEOREM EventsAreKept == Spec => []NothingLost
<1>1. CompileInv => NothingLost
  BY DEF CompileInv
<1> QED
  BY <1>1, CompileInvariant, PTL

\* While no lease has lapsed, nothing that a claim from before a rebuild merged is in
\* the dataset after the rebuild's clearing: CancelInflight takes the claim away, and
\* withWriteLock compares tokens.
THEOREM RebuildsAreFinal == Spec => []RebuiltIsFresh
<1>1. CompileInv => RebuiltIsFresh
  BY DEF CompileInv
<1> QED
  BY <1>1, CompileInvariant, PTL

-------------------------------------------------------------------------------
(* What is merged, while every batch runs through. *)

\* The dataset's products are structure rows, and every batch has run through.
Smooth == ~Wiki /\ Undisturbed

\* One worker at most has a batch: the entries inflight, under a live lease.
OneBatch ==
    /\ rebuild.pc = "idle"
    /\ \A v, w \in Workers : worker[v].pc # "idle" /\ worker[w].pc # "idle" => v = w
    /\ \A w \in Workers : worker[w].pc # "idle" =>
          worker[w].token = row.token /\ row.live /\ row.inflight = worker[w].batch
    /\ (\A w \in Workers : worker[w].pc = "idle") => row.token = 0 /\ row.inflight = <<>>

\* The entries inflight and those of the backlog are the latest events, in order.
InOrder ==
    /\ \A i \in 1..Len(row.backlog) : row.backlog[i] + Len(row.backlog) = Len(events) + i
    /\ \A i \in 1..Len(row.inflight) :
          row.inflight[i] + Len(row.inflight) + Len(row.backlog) = Len(events) + i

\* No Wiki refresh is asked for.
NoRefresh == \A d \in Docs : ~docs[d].dirty

\* The document has an event that is not claimed yet.
Waiting(d) == \E n \in ToSet(row.backlog) : events[n].doc = d

\* What the last event of a document asks to be merged of it.
Asked(d) == IF Included(d) THEN prod[d] ELSE {}

\* What a batch has read of documents that are not its own, and what of its own.
ReadsItsOwn ==
    \A w \in Workers : worker[w].pc # "idle" =>
        /\ worker[w].affected = {}
        /\ \A d \in Docs \ BatchDocs(w) :
              /\ worker[w].pc \in {"delete", "strip", "load"} => worker[w].current[d] = {}
              /\ worker[w].pc = "structure" => worker[w].loaded[d] = {}

\* How far a document's part of the batch is.
Underway(w, d) ==
    /\ worker[w].pc \in {"delete", "strip", "load"} => worker[w].current[d] = Asked(d)
    /\ worker[w].pc \in {"load", "structure"} /\ ~Included(d) => merged[d] = {}
    /\ worker[w].pc = "structure" => worker[w].loaded[d] = Asked(d)
    /\ worker[w].pc \in {"missing", "write", "project", "commit", "ack"} => Answered(d)

\* A document without a waiting event is merged as its last event asks, or the batch
\* under way is about to do so.
MergesAsked ==
    \A d \in Docs : ~Waiting(d) =>
        \/ Answered(d)
        \/ \E w \in Workers : worker[w].pc # "idle" /\ d \in BatchDocs(w)

BatchesWork ==
    \A d \in Docs : ~Waiting(d) =>
        \A w \in Workers : worker[w].pc # "idle" /\ d \in BatchDocs(w) => Underway(w, d)

\* The parts of the inductive invariant, which the lemmas below carry over a step.
Parts == OneBatch /\ InOrder /\ NoRefresh /\ ReadsItsOwn /\ MergesAsked /\ BatchesWork

\* The inductive invariant of smooth behaviours.
SmoothInv == Smooth => Parts

\* A behaviour that is smooth after a step was smooth before it.
LEMMA SmoothBefore ==
    ASSUME Typed, InRange, Smooth', Next PROVE Smooth
<1>0. lapses \in Nat /\ fails \in Nat /\ rebuilds \in Nat
  BY DEF Typed
<1>1. /\ lapses' = lapses \/ lapses' = lapses + 1
      /\ fails' = fails \/ fails' = fails + 1
      /\ rebuilds' = rebuilds \/ rebuilds' = rebuilds + 1
  <2>1. ASSUME NEW d \in Docs, Changed(d) PROVE bounds' = bounds
    BY <2>1 DEF Changed
  <2>2. ASSUME NEW w \in Workers, Claim(w) \/ Moves(w) \/ Ack(w) \/ Touch(w) PROVE bounds' = bounds
    BY <2>2, MovesEffect DEF Claim, Moved, Ack, Touch
  <2>3. ASSUME NEW w \in Workers, GivesUp(w)
        PROVE  UNCHANGED <<lapses, rebuilds>> /\ (fails' = fails \/ fails' = fails + 1)
    BY <2>3 DEF GivesUp, LeavePaused, Superseded, Fail, bounds
  <2>4. CASE Expire
    BY <2>4 DEF Expire
  <2>5. CASE RebuildBegin
    BY <2>5 DEF RebuildBegin
  <2>6. CASE RebuildClear \/ RebuildList \/ RebuildReturn
    BY <2>6 DEF RebuildClear, RebuildList, RebuildReturn, bounds
  <2> QED
    BY <2>1, <2>2, <2>3, <2>4, <2>5, <2>6, Steps DEF bounds
<1>2. lapses' = 0 /\ fails' = 0 /\ rebuilds' = 0 /\ ~Wiki
  BY DEF Smooth, Undisturbed, Wiki
<1> QED
  BY <1>0, <1>1, <1>2 DEF Smooth, Undisturbed

\* The changes that users make.
Uses(d) ==
    \/ StartParse(d) \/ \E new \in SUBSET Items : Parse(d, new)
    \/ Toggle(d) \/ Delete(d) \/ RemoveKeepFile(d)

\* In a behaviour that stays smooth, users change documents, workers claim batches and
\* run them through to their acknowledgement, and nothing else happens.
LEMMA SmoothSteps ==
    ASSUME Typed, Covering, Parts, Smooth', Next
    PROVE  \/ \E d \in Docs : Uses(d)
           \/ \E w \in Workers : Claim(w) \/ Moves(w) \/ Ack(w)
<1>0. lapses \in Nat /\ fails \in Nat /\ rebuilds \in Nat
  BY DEF Typed
<1>s. lapses' = 0 /\ fails' = 0 /\ rebuilds' = 0 /\ ~Wiki
  BY DEF Smooth, Undisturbed, Wiki
<1>p. rebuild.pc = "idle"
  BY DEF Parts, OneBatch
<1>1. ASSUME NEW d \in Docs, Refresh(d) \/ RebuildPublish(d) PROVE FALSE
  BY <1>1, <1>p DEF Refresh, RebuildPublish, Parts, NoRefresh
<1>2. ASSUME NEW w \in Workers, Touch(w) \/ LeavePaused(w) \/ Superseded(w) PROVE FALSE
  BY <1>2, <1>p DEF Touch, LeavePaused, Superseded, HoldsClaim, Parts, OneBatch
<1>3. ASSUME NEW w \in Workers, Fail(w) PROVE FALSE
  BY <1>0, <1>s, <1>3 DEF Fail
<1>4. ~Expire
  <2> SUFFICES ASSUME Expire PROVE FALSE
    OBVIOUS
  <2>1. row.token # 0
    BY DEF Expire, LiveLease
  <2>2. PICK w \in Workers : worker[w].pc # "idle"
    BY <2>1 DEF Parts, OneBatch
  <2>3. Held
    BY <2>2 DEF Held, Parts, OneBatch
  <2> QED
    BY <1>0, <1>s, <2>3 DEF Expire
<1>5. ~RebuildBegin
  BY <1>0, <1>s DEF RebuildBegin
<1>6. ~(RebuildClear \/ RebuildList \/ RebuildReturn)
  BY <1>p DEF RebuildClear, RebuildList, RebuildReturn
<1>7. \/ \E d \in Docs : Uses(d)
      \/ \E w \in Workers : Claim(w) \/ Moves(w) \/ Ack(w)
  BY <1>1, <1>2, <1>3, <1>4, <1>5, <1>6 DEF Next, WorkStep, Moves, Uses
<1> QED
  BY <1>7

\* A user's change is told by an event, unless it leaves the products as they are.
LEMMA UserEffect ==
    ASSUME Typed, NoRefresh, ~Wiki, NEW d \in Docs, Uses(d)
    PROVE  /\ UNCHANGED <<merged, worker, rebuild>>
           /\ NoRefresh'
           /\ \A e \in Docs \ {d} : prod'[e] = prod[e]
           /\ \/ UNCHANGED <<row, events, prod>>
              \/ \E ev \in {"completed", "enabled", "disabled", "deleted"} : Publish(d, ev)
<1>0. docs[d] \in DocType /\ ~docs[d].dirty /\ Variant # "wiki"
  BY DEF Typed, NoRefresh, Wiki
<1>1. CASE StartParse(d)
  <2>1. docs' = [docs EXCEPT ![d] = [docs[d] EXCEPT !.parsing = TRUE]]
    BY <1>1 DEF StartParse, Typed
  <2>2. ~[docs[d] EXCEPT !.parsing = TRUE].dirty
    BY <1>0 DEF DocType
  <2>3. NoRefresh'
    BY <2>1, <2>2 DEF Typed, NoRefresh
  <2> QED
    BY <1>1, <2>3 DEF StartParse, store
<1>2. CASE \E new \in SUBSET Items : Parse(d, new)
  <2>0. PICK new \in SUBSET Items : Parse(d, new)
    BY <1>2
  <2>1. docs' = [docs EXCEPT ![d] = [docs[d] EXCEPT !.source = new, !.parsing = FALSE]]
    BY <2>0 DEF Parse, Typed
  <2>2. ~[docs[d] EXCEPT !.source = new, !.parsing = FALSE].dirty
    BY <1>0 DEF DocType
  <2>3. NoRefresh'
    BY <2>1, <2>2 DEF Typed, NoRefresh
  <2>4. prod' = [prod EXCEPT ![d] = new] /\ UNCHANGED <<merged, worker, rebuild>>
    BY <2>0 DEF Parse, store
  <2>5. \A e \in Docs \ {d} : prod'[e] = prod[e]
    BY <2>4 DEF Typed
  <2>6. CASE new = {} /\ prod[d] = {}
    <3>1. UNCHANGED <<row, events>>
      BY <2>0, <2>6 DEF Parse
    <3>2. prod' = prod
      BY <2>4, <2>6 DEF Typed
    <3> QED
      BY <2>3, <2>4, <3>1, <3>2
  <2>7. CASE ~(new = {} /\ prod[d] = {})
    <3>1. Publish(d, "completed")
      BY <2>0, <2>7 DEF Parse
    <3> QED
      BY <2>3, <2>4, <2>5, <3>1
  <2> QED
    BY <2>6, <2>7
<1>3. CASE Toggle(d)
  <2> DEFINE flip == ~docs[d].enabled
  <2>1. docs' = [docs EXCEPT ![d] = [docs[d] EXCEPT !.enabled = flip, !.dirty = FALSE]]
    BY <1>0, <1>3 DEF Toggle, Typed
  <2> HIDE DEF flip
  <2>2. ~[docs[d] EXCEPT !.enabled = flip, !.dirty = FALSE].dirty
    BY <1>0 DEF DocType
  <2>3. NoRefresh'
    BY <2>1, <2>2 DEF Typed, NoRefresh
  <2>4. UNCHANGED <<prod, merged, worker, rebuild>>
    BY <1>3 DEF Toggle, store
  <2>5. UNCHANGED <<row, events>> \/ Publish(d, "disabled") \/ Publish(d, "enabled")
    BY <1>3 DEF Toggle
  <2> QED
    BY <2>3, <2>4, <2>5
<1>4. CASE Delete(d) \/ RemoveKeepFile(d)
  <2>0. Gone(d) /\ (prod' = [prod EXCEPT ![d] = {}] \/ prod' = prod)
    BY <1>4 DEF Delete, RemoveKeepFile
  <2>1. docs' = [docs EXCEPT ![d] = [docs[d] EXCEPT !.gone = TRUE, !.dirty = FALSE]]
    BY <2>0 DEF Gone, Typed
  <2>2. ~[docs[d] EXCEPT !.gone = TRUE, !.dirty = FALSE].dirty
    BY <1>0 DEF DocType
  <2>3. NoRefresh'
    BY <2>1, <2>2 DEF Typed, NoRefresh
  <2>4. \A e \in Docs \ {d} : prod'[e] = prod[e]
    BY <2>0 DEF Typed
  <2>5. UNCHANGED <<merged, worker, rebuild>> /\ Publish(d, "deleted")
    BY <2>0 DEF Gone, store
  <2> QED
    BY <2>3, <2>4, <2>5
<1> QED
  BY <1>1, <1>2, <1>3, <1>4 DEF Uses

\* Positions in the queue when an event is published and when a batch is cut off.
LEMMA Shifts ==
    ASSUME NEW x \in Nat, NEW y \in Nat, NEW l \in Nat, NEW e \in Nat, NEW i \in Nat, NEW k \in Nat
    PROVE  /\ x + l = e + i => x + (l + 1) = (e + 1) + i
           /\ x + y + l = e + i => x + y + (l + 1) = (e + 1) + i
           /\ x + l = e + (k + i) => x + (l - k) = e + i
           /\ x + l = e + i => x + k + (l - k) = e + i
  OBVIOUS

\* A user's change leaves the other documents as they are merged and unsettles its own.
LEMMA UserStep ==
    ASSUME Typed, InRange, Parts, ~Wiki, NEW d \in Docs, Uses(d)
    PROVE  Parts'
<1>0. Len(events) \in Nat /\ row.backlog \in Seq(Nat) /\ row.inflight \in Seq(Nat)
  BY DEF Typed, RowType
<1>1. /\ UNCHANGED <<merged, worker, rebuild>> /\ NoRefresh'
      /\ \A e \in Docs \ {d} : prod'[e] = prod[e]
      /\ \/ UNCHANGED <<row, events, prod>>
         \/ \E ev \in {"completed", "enabled", "disabled", "deleted"} : Publish(d, ev)
  BY UserEffect DEF Parts
<1>2. CASE UNCHANGED <<row, events, prod>>
  <2>0. UNCHANGED <<row, events, prod, merged, worker, rebuild>>
    BY <1>1, <1>2
  <2>1. OneBatch' /\ InOrder'
    BY <2>0 DEF Parts, OneBatch, InOrder
  <2>2. ReadsItsOwn'
    BY <2>0 DEF Parts, ReadsItsOwn, BatchDocs
  <2>3. MergesAsked' /\ BatchesWork'
    BY <2>0 DEF Parts, MergesAsked, BatchesWork, Underway, Asked, Answered, Included,
                BatchDocs, Waiting
  <2> QED
    BY <1>1, <2>1, <2>2, <2>3 DEF Parts
<1> SUFFICES ASSUME NEW ev \in {"completed", "enabled", "disabled", "deleted"}, Publish(d, ev)
             PROVE  Parts'
  BY <1>1, <1>2
<1>3. /\ Len(events') = Len(events) + 1
      /\ \A n \in 1..Len(events) : events'[n] = events[n]
      /\ events'[Len(events) + 1].doc = d /\ events'[Len(events) + 1].ev = ev
      /\ row'.backlog = Append(row.backlog, Len(events) + 1)
      /\ row'.inflight = row.inflight
      /\ row'.token = row.token /\ row'.live = row.live
  <2>1. events'[Len(events) + 1] = [doc |-> d, ev |-> ev]
    BY PublishEffect
  <2>2. events'[Len(events) + 1].doc = d /\ events'[Len(events) + 1].ev = ev
    BY <2>1
  <2>3. /\ Len(events') = Len(events) + 1
        /\ \A n \in 1..Len(events) : events'[n] = events[n]
        /\ row'.backlog = Append(row.backlog, Len(events) + 1)
        /\ row'.inflight = row.inflight
        /\ row'.token = row.token /\ row'.live = row.live
    BY PublishEffect
  <2> QED
    BY <2>2, <2>3
<1>5. OneBatch'
  BY <1>1, <1>3 DEF Parts, OneBatch
<1>6. InOrder'
  <2>1. Len(row.backlog) \in Nat /\ Len(row.inflight) \in Nat
    BY <1>0
  <2>2. \A i \in 1..Len(row.backlog) : row.backlog[i] \in Nat
    BY <1>0
  <2>2a. \A i \in 1..Len(row.inflight) : row.inflight[i] \in Nat
    BY <1>0
  <2>3. /\ Len(row'.backlog) = Len(row.backlog) + 1
        /\ \A i \in 1..Len(row.backlog) : row'.backlog[i] = row.backlog[i]
        /\ row'.backlog[Len(row.backlog) + 1] = Len(events) + 1
    BY <1>0, <1>3, AppendProperties
  <2>4. ASSUME NEW i \in 1..Len(row'.backlog)
        PROVE  row'.backlog[i] + Len(row'.backlog) = Len(events') + i
    <3>1. CASE i = Len(row.backlog) + 1
      BY <1>0, <1>3, <2>1, <2>3, <3>1
    <3>2. CASE i # Len(row.backlog) + 1
      <4>1. i \in 1..Len(row.backlog)
        BY <2>1, <2>3, <3>2
      <4>2. row.backlog[i] + Len(row.backlog) = Len(events) + i
        BY <4>1 DEF Parts, InOrder
      <4>3. row.backlog[i] + (Len(row.backlog) + 1) = (Len(events) + 1) + i
        <5>1. i \in Nat /\ row.backlog[i] \in Nat /\ Len(row.backlog) \in Nat /\ Len(events) \in Nat
          BY <1>0, <2>1, <2>2, <4>1
        <5>2. PICK x \in Nat, l \in Nat, e \in Nat :
                 x = row.backlog[i] /\ l = Len(row.backlog) /\ e = Len(events)
          BY <5>1
        <5>3. x + l = e + i => x + (l + 1) = (e + 1) + i
          BY <5>1, Shifts
        <5> QED
          BY <4>2, <5>2, <5>3
      <4> QED
        BY <1>3, <2>3, <4>1, <4>3
    <3> QED
      BY <3>1, <3>2
  <2>5. ASSUME NEW i \in 1..Len(row'.inflight)
        PROVE  row'.inflight[i] + Len(row'.inflight) + Len(row'.backlog) = Len(events') + i
    <3>1. /\ i \in 1..Len(row.inflight) /\ row.inflight[i] \in Nat
          /\ row.inflight[i] + Len(row.inflight) + Len(row.backlog) = Len(events) + i
      BY <1>3, <2>2a, <2>5 DEF Parts, InOrder
    <3>2. row.inflight[i] + Len(row.inflight) + (Len(row.backlog) + 1) = (Len(events) + 1) + i
      <4>1. i \in Nat /\ row.inflight[i] \in Nat /\ Len(row.inflight) \in Nat
        BY <2>1, <3>1
      <4>2. PICK x \in Nat, y \in Nat, l \in Nat, e \in Nat :
               /\ x = row.inflight[i] /\ y = Len(row.inflight)
               /\ l = Len(row.backlog) /\ e = Len(events)
        BY <1>0, <2>1, <4>1
      <4>3. x + y + l = e + i => x + y + (l + 1) = (e + 1) + i
        BY <4>1, Shifts
      <4> QED
        BY <3>1, <4>2, <4>3
    <3> QED
      BY <1>3, <2>3, <3>2
  <2> QED
    BY <2>4, <2>5 DEF InOrder
<1>8. \A w \in Workers : BatchDocs(w)' = BatchDocs(w)
  <2>1. \A w \in Workers : \A n \in ToSet(worker[w].batch) : events'[n] = events[n]
    BY <1>3 DEF InRange
  <2> QED
    BY <1>1, <2>1 DEF BatchDocs
<1>9. ReadsItsOwn'
  BY <1>1, <1>8 DEF Parts, ReadsItsOwn
<1>q. ToSet(row'.backlog) = ToSet(row.backlog) \cup {Len(events) + 1}
  <2>1. Len(events) + 1 \in Nat
    BY <1>0
  <2> QED
    BY <1>0, <1>3, <2>1, SetOfAppend
<1>10. ASSUME NEW e \in Docs, ~Waiting(e)'
       PROVE  /\ e # d /\ ~Waiting(e) /\ (Included(e)' <=> Included(e))
              /\ Asked(e)' = Asked(e) /\ (Answered(e)' <=> Answered(e))
  <2>2. e # d
    BY <1>3, <1>10, <1>q DEF Waiting
  <2>3. \A n \in ToSet(row.backlog) : events'[n] = events[n]
    BY <1>3 DEF InRange
  <2>4. ~Waiting(e)
    BY <1>10, <1>q, <2>3 DEF Waiting
  <2>5. \A n \in 1..Len(events') : n \in 1..Len(events) \/ (n = Len(events) + 1 /\ events'[n].doc # e)
    BY <1>0, <1>3, <2>2
  <2>6. 1..Len(events) \subseteq 1..Len(events')
    BY <1>0, <1>3
  <2>7. Included(e)' <=> Included(e)
    BY <1>3, <2>5, <2>6 DEF Included
  <2> QED
    BY <1>1, <2>2, <2>4, <2>7 DEF Asked, Answered
<1>11. MergesAsked'
  BY <1>1, <1>8, <1>10 DEF Parts, MergesAsked
<1>12. BatchesWork'
  <2> SUFFICES ASSUME NEW e \in Docs, ~Waiting(e)', NEW w \in Workers,
                      worker'[w].pc # "idle", e \in BatchDocs(w)'
               PROVE  Underway(w, e)'
    BY DEF BatchesWork
  <2>1. Underway(w, e)
    BY <1>1, <1>8, <1>10 DEF Parts, BatchesWork
  <2> QED
    BY <1>1, <1>10, <2>1 DEF Underway
<1> QED
  BY <1>1, <1>5, <1>6, <1>9, <1>11, <1>12 DEF Parts

\* In a smooth behaviour a claim finds no other batch, and takes the backlog's first
\* entries.
LEMMA ClaimStep ==
    ASSUME Typed, InRange, Covering, Parts, NEW w \in Workers, Claim(w)
    PROVE  Parts'
<1>0. row \in RowType /\ row.backlog \in Seq(Nat) /\ Len(events) \in Nat /\ claims + 1 \in Nat
  BY DEF Typed, RowType
<1>1. \A v \in Workers : worker[v].pc = "idle"
  <2> SUFFICES ASSUME NEW v \in Workers, worker[v].pc # "idle" PROVE FALSE
    OBVIOUS
  <2>1. worker[v].token = row.token /\ row.live /\ worker[v].token \in 1..claims
    BY DEF Parts, OneBatch, Covering
  <2>2. row.token # 0
    BY <1>0, <2>1
  <2> QED
    BY <2>1, <2>2 DEF Claim, Claimable, Reclaimable, LiveLease
<1>2. row.token = 0 /\ row.inflight = <<>>
  BY <1>1 DEF Parts, OneBatch
<1>3. Ready = row
  BY <1>2 DEF Claim, Ready, Reclaimable
<1> DEFINE k == Taken(row)
           a == SubSeq(row.backlog, 1, k)
           b == SubSeq(row.backlog, k + 1, Len(row.backlog))
<1>4. /\ UNCHANGED <<events, docs, prod, merged, rebuild>>
      /\ row' = ClaimRow(row, claims + 1)
      /\ row'.token = claims + 1 /\ row'.live
      /\ \A v \in Workers \ {w} : worker'[v] = worker[v]
      /\ worker'[w].pc = "prepare" /\ worker'[w].token = claims + 1
      /\ worker'[w].batch = a /\ worker'[w].affected = {}
  BY <1>3, ClaimEffect DEF store
<1>5a. k \in 0..Len(row.backlog) /\ Len(row.backlog) \in Nat
  <2>1. Taken(row) \in 0..Len(row.backlog)
    BY <1>0, <1>4, RowClaimed
  <2> QED
    BY <1>0, <2>1
<1>6. row'.backlog = b /\ row'.inflight = row.inflight \o a
  BY <1>0, <1>4, RowClaimed
<1> HIDE DEF k
<1>5. k \in 0..Len(row.backlog) /\ k \in Nat /\ Len(row.backlog) \in Nat
  BY <1>5a
<1>7. /\ a \in Seq(Nat) /\ b \in Seq(Nat) /\ Len(a) = k /\ Len(b) = Len(row.backlog) - k
      /\ \A i \in 1..k : a[i] = row.backlog[i]
      /\ \A i \in 1..(Len(row.backlog) - k) : b[i] = row.backlog[k + i]
      /\ ToSet(row.backlog) = ToSet(a) \cup ToSet(b)
  BY <1>0, <1>5, SetOfSplit
<1> HIDE DEF a, b
<1>8. row'.inflight = a
  BY <1>2, <1>6, <1>7, ConcatEmptySeq
<1>9. \A v \in Workers : worker'[v].pc # "idle" => v = w
  BY <1>1, <1>4
<1>10. OneBatch'
  BY <1>4, <1>8, <1>9 DEF Parts, OneBatch
<1>11. InOrder'
  <2>1. \A i \in 1..Len(row.backlog) :
           row.backlog[i] \in Nat /\ row.backlog[i] + Len(row.backlog) = Len(events) + i
    BY <1>0 DEF Parts, InOrder
  <2>2. ASSUME NEW i \in 1..Len(row'.backlog)
        PROVE  row'.backlog[i] + Len(row'.backlog) = Len(events') + i
    <3>1. i \in 1..(Len(row.backlog) - k) /\ k + i \in 1..Len(row.backlog)
      BY <1>5, <1>6, <1>7
    <3>2. row.backlog[k + i] + Len(row.backlog) = Len(events) + (k + i) /\ row.backlog[k + i] \in Nat
      BY <2>1, <3>1
    <3>3. row.backlog[k + i] + (Len(row.backlog) - k) = Len(events) + i
      <4>1. i \in Nat
        BY <3>1
      <4>2. PICK x \in Nat, l \in Nat, e \in Nat :
               x = row.backlog[k + i] /\ l = Len(row.backlog) /\ e = Len(events)
        BY <1>0, <1>5, <3>2
      <4>3. x + l = e + (k + i) => x + (l - k) = e + i
        BY <1>5, <4>1, Shifts
      <4> QED
        BY <3>2, <4>2, <4>3
    <3> QED
      BY <1>4, <1>6, <1>7, <3>1, <3>3
  <2>3. ASSUME NEW i \in 1..Len(row'.inflight)
        PROVE  row'.inflight[i] + Len(row'.inflight) + Len(row'.backlog) = Len(events') + i
    <3>1. i \in 1..k /\ i \in 1..Len(row.backlog)
      BY <1>5, <1>7, <1>8
    <3>2. row.backlog[i] + Len(row.backlog) = Len(events) + i /\ row.backlog[i] \in Nat
      BY <2>1, <3>1
    <3>3. row.backlog[i] + k + (Len(row.backlog) - k) = Len(events) + i
      BY <1>0, <1>5, <3>1, <3>2
    <3> QED
      BY <1>4, <1>6, <1>7, <1>8, <3>1, <3>3
  <2> QED
    BY <2>2, <2>3 DEF InOrder
<1>12. NoRefresh'
  BY <1>4 DEF Parts, NoRefresh
<1>13. ReadsItsOwn'
  BY <1>4, <1>9 DEF ReadsItsOwn
<1>14. BatchesWork'
  BY <1>4, <1>9 DEF BatchesWork, Underway
<1>15. MergesAsked'
  <2> SUFFICES ASSUME NEW d \in Docs, ~Waiting(d)', d \notin BatchDocs(w)'
               PROVE  Answered(d)'
    BY <1>4 DEF MergesAsked
  <2>1. \A n \in ToSet(b) : events[n].doc # d
    BY <1>4, <1>6 DEF Waiting
  <2>2. \A n \in ToSet(a) : events[n].doc # d
    BY <1>4 DEF BatchDocs
  <2>3. ~Waiting(d)
    BY <1>7, <2>1, <2>2 DEF Waiting
  <2>4. Answered(d)
    BY <1>1, <2>3 DEF Parts, MergesAsked
  <2> QED
    BY <1>4, <2>4 DEF Answered, Included
<1> QED
  BY <1>10, <1>11, <1>12, <1>13, <1>14, <1>15 DEF Parts

\* In a smooth behaviour an acknowledgement ends the claim: every entry inflight is one
\* of the batch.
LEMMA AckStep ==
    ASSUME Typed, InRange, Covering, Parts, NEW w \in Workers, Ack(w)
    PROVE  Parts'
<1>1. Left(w) /\ worker[w].pc = "ack" /\ UNCHANGED <<events, docs, prod, merged, rebuild>>
  BY AckEffect DEF store
<1>2. worker[w].token = row.token /\ row.inflight = worker[w].batch
  BY <1>1 DEF Parts, OneBatch
<1>3. /\ row'.backlog = row.backlog
      /\ ToSet(row'.inflight) = {n \in ToSet(row.inflight) :
                \A m \in ToSet(worker[w].batch) : events[m] # events[n]}
      /\ ToSet(row'.inflight) = {} => row'.inflight = <<>>
      /\ \/ row'.inflight # <<>>
         \/ row'.token = 0 /\ row'.inflight = <<>>
  BY <1>2, AckEffect DEF HoldsClaim
<1>4. row'.inflight = <<>> /\ row'.token = 0
  BY <1>2, <1>3
<1>5. \A v \in Workers : worker'[v].pc = "idle"
  BY <1>1 DEF Left, Parts, OneBatch
<1>6. OneBatch'
  BY <1>1, <1>4, <1>5 DEF Parts, OneBatch
<1>7. InOrder'
  <2>1. Len(row'.inflight) = 0
    BY <1>4
  <2> QED
    BY <1>1, <1>3, <2>1 DEF Parts, InOrder
<1>8. NoRefresh'
  BY <1>1 DEF Parts, NoRefresh
<1>9. ReadsItsOwn' /\ BatchesWork'
  BY <1>5 DEF ReadsItsOwn, BatchesWork
<1>10. MergesAsked'
  <2> SUFFICES ASSUME NEW d \in Docs, ~Waiting(d)' PROVE Answered(d)'
    BY DEF MergesAsked
  <2>1. ~Waiting(d)
    BY <1>1, <1>3 DEF Waiting
  <2>2. ASSUME NEW v \in Workers, worker[v].pc # "idle", d \in BatchDocs(v)
        PROVE  Answered(d)
    <3>1. v = w
      BY <1>1, <2>2 DEF Parts, OneBatch
    <3>2. Underway(v, d)
      BY <2>1, <2>2 DEF Parts, BatchesWork
    <3> QED
      BY <1>1, <3>1, <3>2 DEF Underway
  <2>3. Answered(d)
    BY <2>1, <2>2 DEF Parts, MergesAsked
  <2> QED
    BY <1>1, <2>3 DEF Answered, Included
<1> QED
  BY <1>6, <1>7, <1>8, <1>9, <1>10 DEF Parts

\* The event that decides for a document of the batch is the batch's last one of it.
LEMMA WinningIs ==
    ASSUME Typed, NEW w \in Workers, NEW d \in BatchDocs(w)
    PROVE  \E i \in 1..Len(worker[w].batch) :
              /\ events[worker[w].batch[i]].doc = d
              /\ Winning(worker[w].batch, d) = events[worker[w].batch[i]].ev
              /\ \A j \in 1..Len(worker[w].batch) : events[worker[w].batch[j]].doc = d => j <= i
<1>1. PICK b \in Seq(Nat) : b = worker[w].batch
  BY DEF Typed, WorkerType
<1> DEFINE idx == {i \in DOMAIN b : events[b[i]].doc = d}
<1>2. Len(b) \in Nat /\ DOMAIN b = 1..Len(b)
  OBVIOUS
<1>3. idx \subseteq 1..Len(b)
  BY <1>2
<1>4. idx # {}
  <2>1. PICK n \in ToSet(b) : events[n].doc = d
    BY <1>1 DEF BatchDocs
  <2>2. PICK i \in 1..Len(b) : n = b[i]
    BY <2>1, InSeq
  <2> QED
    BY <1>2, <2>1, <2>2
<1> DEFINE i0 == CHOOSE i \in idx : \A j \in idx : j <= i
<1>5. \E i \in idx : \A j \in idx : j <= i
  <2> HIDE DEF idx
  <2> QED
    BY <1>2, <1>3, <1>4, LastPosition
<1>6. i0 \in idx /\ \A j \in idx : j <= i0
  <2> HIDE DEF idx
  <2> QED
    BY <1>5
<1>7. Winning(b, d) = events[b[i0]].ev
  BY DEF Winning
<1> HIDE DEF i0
<1>8. i0 \in 1..Len(b) /\ events[b[i0]].doc = d
  BY <1>2, <1>6
<1>9. \A j \in 1..Len(b) : events[b[j]].doc = d => j <= i0
  BY <1>2, <1>6
<1> QED
  BY <1>1, <1>7, <1>8, <1>9

\* For a document with no event left to claim it is the last of all its events, so the
\* batch retracts the document exactly when that event does.
LEMMA BatchDecides ==
    ASSUME Typed, InRange, Parts, NEW w \in Workers, worker[w].pc # "idle",
           NEW d \in BatchDocs(w), ~Waiting(d)
    PROVE  (d \in Retracted(w) <=> ~Included(d)) /\ (d \in Completed(w) <=> Included(d))
<1>0. /\ Len(events) \in Nat /\ row.backlog \in Seq(Nat) /\ Len(row.backlog) \in Nat
      /\ d \in Docs
  BY BatchInDocs DEF Typed, RowType
<1>1. PICK b \in Seq(Nat) : b = worker[w].batch /\ b = row.inflight
  BY DEF Typed, RowType, Parts, OneBatch
<1>2. PICK i \in 1..Len(b) : /\ events[b[i]].doc = d
                             /\ Winning(b, d) = events[b[i]].ev
                             /\ \A j \in 1..Len(b) : events[b[j]].doc = d => j <= i
  <2>1. \E i \in 1..Len(worker[w].batch) :
           /\ events[worker[w].batch[i]].doc = d
           /\ Winning(worker[w].batch, d) = events[worker[w].batch[i]].ev
           /\ \A j \in 1..Len(worker[w].batch) : events[worker[w].batch[j]].doc = d => j <= i
    BY WinningIs
  <2>2. b = worker[w].batch
    BY <1>1
  <2> HIDE <1>1
  <2> QED
    BY <2>1, <2>2
<1>3. Len(b) \in Nat /\ \A j \in 1..Len(b) : b[j] \in Nat
  OBVIOUS
<1>4. \A j \in 1..Len(b) : b[j] + Len(b) + Len(row.backlog) = Len(events) + j
  BY <1>1 DEF Parts, InOrder
<1>5. \A j \in 1..Len(row.backlog) : row.backlog[j] + Len(row.backlog) = Len(events) + j
  BY DEF Parts, InOrder
<1>6. b[i] \in 1..Len(events)
  BY <1>1, <1>2, InSeq DEF InRange
<1>7. ASSUME NEW m \in 1..Len(events), events[m].doc = d PROVE m <= b[i]
  <2>0. PICK e \in Nat, k \in Nat, l \in Nat, x \in Nat :
           e = Len(events) /\ k = Len(row.backlog) /\ l = Len(b) /\ x = b[i]
    BY <1>0, <1>3
  <2>m. m \in Nat /\ m >= 1 /\ m <= e /\ i \in Nat /\ i >= 1 /\ i <= l
    BY <2>0
  <2>x. x + l + k = e + i
    BY <1>4, <2>0
  <2>1. CASE m + k > e
    <3>1. PICK j \in Nat : j + e = m + k /\ j >= 1 /\ j <= k
      <4>1. (m + k) - e \in Nat /\ ((m + k) - e) + e = m + k
        BY <2>m, <2>1
      <4> QED
        BY <2>m, <2>1, <4>1
    <3>2. j \in 1..Len(row.backlog)
      BY <2>0, <3>1
    <3>3. PICK y \in Nat : y = row.backlog[j] /\ y + k = e + j
      <4>1. row.backlog[j] \in Nat
        BY <1>0, <3>2
      <4>2. row.backlog[j] + Len(row.backlog) = Len(events) + j
        BY <1>5, <3>2
      <4> QED
        BY <2>0, <4>1, <4>2
    <3>4. y = m
      <4>1. y + k = e + j /\ j + e = m + k
        BY <3>1, <3>3
      <4> HIDE <3>3
      <4> QED
        BY <2>m, <4>1
    <3>5. m \in ToSet(row.backlog)
      BY <1>0, <3>2, <3>3, <3>4, InSeq
    <3> QED
      BY <1>7, <3>5 DEF Waiting
  <2>2. CASE m + k <= e /\ m + k + l > e
    <3>1. PICK j \in Nat : j + e = m + k + l /\ j >= 1 /\ j <= l
      <4>1. (m + k + l) - e \in Nat /\ ((m + k + l) - e) + e = m + k + l
        BY <2>m, <2>2
      <4> QED
        BY <2>m, <2>2, <4>1
    <3>2. j \in 1..Len(b)
      BY <2>0, <3>1
    <3>3. PICK y \in Nat : y = b[j] /\ y + l + k = e + j
      BY <1>3, <1>4, <2>0, <3>2
    <3>4. y = m
      BY <2>m, <3>1, <3>3
    <3>5. j <= i
      BY <1>2, <1>7, <3>2, <3>3, <3>4
    <3>6. m <= x
      BY <2>m, <2>x, <3>1, <3>5
    <3> QED
      BY <2>0, <3>6
  <2>3. CASE m + k + l <= e
    <3>1. m <= x
      BY <2>m, <2>x, <2>3
    <3> QED
      BY <2>0, <3>1
  <2>4. m + k > e \/ (m + k <= e /\ m + k + l > e) \/ m + k + l <= e
    BY <2>m
  <2> QED
    BY <2>1, <2>2, <2>3, <2>4
<1>9. events[b[i]].ev \in Retracting <=> ~Included(d)
  <2>1. events[b[i]].ev \notin Retracting => Included(d)
    BY <1>2, <1>6, <1>7 DEF Included
  <2>2. ASSUME Included(d) PROVE events[b[i]].ev \notin Retracting
    <3>1. PICK n \in 1..Len(events) :
             /\ events[n].doc = d /\ events[n].ev \notin Retracting
             /\ \A m \in 1..Len(events) : events[m].doc = d => m <= n
      BY <2>2 DEF Included
    <3>2. n = b[i]
      BY <1>2, <1>6, <1>7, <3>1
    <3> QED
      BY <3>1, <3>2
  <2> QED
    BY <2>1, <2>2
<1>10. d \in Retracted(w) <=> ~Included(d)
  BY <1>1, <1>2, <1>9 DEF Retracted
<1> QED
  BY <1>10 DEF Completed

\* What a step of the batch has to do, for the documents outside of it and for those
\* inside.
LEMMA MoveStep ==
    ASSUME Typed, InRange, Parts, NEW w \in Workers, Moved(w),
           worker'[w].affected = {},
           \A d \in Docs \ BatchDocs(w) :
               /\ prod'[d] = prod[d] /\ merged'[d] = merged[d]
               /\ worker'[w].pc \in {"delete", "strip", "load"} => worker'[w].current[d] = {}
               /\ worker'[w].pc = "structure" => worker'[w].loaded[d] = {},
           \A d \in BatchDocs(w) : ~Waiting(d) /\ Underway(w, d) => Underway(w, d)'
    PROVE  Parts'
<1>1. /\ worker[w].pc # "idle" /\ worker'[w].pc # "idle"
      /\ \A v \in Workers \ {w} : worker'[v] = worker[v]
      /\ worker'[w].token = worker[w].token /\ worker'[w].batch = worker[w].batch
      /\ UNCHANGED <<row, events, docs, rebuild>>
  BY DEF Moved
<1>2. \A v \in Workers : worker[v].pc # "idle" => v = w
  BY <1>1 DEF Parts, OneBatch
<1>3. \A v \in Workers : worker'[v].pc # "idle" => v = w
  BY <1>1, <1>2
<1>4. BatchDocs(w)' = BatchDocs(w)
  BY <1>1 DEF BatchDocs
<1>5. OneBatch'
  BY <1>1, <1>3 DEF Parts, OneBatch
<1>6. InOrder'
  BY <1>1 DEF Parts, InOrder
<1>7. NoRefresh'
  BY <1>1 DEF Parts, NoRefresh
<1>8. ReadsItsOwn'
  BY <1>3, <1>4 DEF ReadsItsOwn
<1>9. \A d \in Docs : (Waiting(d)' <=> Waiting(d)) /\ (Included(d)' <=> Included(d))
  BY <1>1 DEF Waiting, Included
<1>10. MergesAsked'
  <2> SUFFICES ASSUME NEW d \in Docs, ~Waiting(d), d \notin BatchDocs(w)
               PROVE  Answered(d)'
    BY <1>1, <1>4, <1>9 DEF MergesAsked
  <2>1. Answered(d)
    BY <1>2 DEF Parts, MergesAsked
  <2> QED
    BY <1>9, <2>1 DEF Answered
<1>11. BatchesWork'
  <2> SUFFICES ASSUME NEW d \in Docs, ~Waiting(d), d \in BatchDocs(w) PROVE Underway(w, d)'
    BY <1>3, <1>4, <1>9 DEF BatchesWork
  <2>1. Underway(w, d)
    BY <1>1 DEF Parts, BatchesWork
  <2> QED
    BY <2>1
<1> QED
  BY <1>5, <1>6, <1>7, <1>8, <1>10, <1>11 DEF Parts

\* Every step of a batch does.
LEMMA BatchStep ==
    ASSUME Typed, InRange, Parts, ~Wiki, NEW w \in Workers, Moves(w) PROVE Parts'
<1>0. Moved(w) /\ worker[w].pc # "idle" /\ UNCHANGED <<row, events, docs>>
  BY MovesEffect DEF Moved
<1>1. worker[w].affected = {}
  BY <1>0 DEF Parts, ReadsItsOwn
<1>2. \A d \in Docs \ BatchDocs(w) :
         /\ worker[w].pc \in {"delete", "strip", "load"} => worker[w].current[d] = {}
         /\ worker[w].pc = "structure" => worker[w].loaded[d] = {}
  BY <1>0 DEF Parts, ReadsItsOwn
<1>3. /\ BatchDocs(w) \subseteq Docs /\ Completed(w) \subseteq BatchDocs(w)
      /\ Retracted(w) \subseteq BatchDocs(w) /\ Deleted(w) \subseteq Retracted(w)
  BY BatchInDocs
<1>4. \A d \in BatchDocs(w) : ~Waiting(d) =>
         (d \in Retracted(w) <=> ~Included(d)) /\ (d \in Completed(w) <=> Included(d))
  BY <1>0, BatchDecides
<1>5. \A d \in Docs : Included(d)' <=> Included(d)
  BY <1>0 DEF Included
<1>6. CASE Prepare(w)
  <2>1. /\ UNCHANGED <<prod, merged>> /\ worker'[w].affected = Affected(w)
        /\ \A d \in Docs : worker'[w].current[d] = IF d \in Completed(w) THEN prod[d] ELSE {}
        /\ worker'[w].pc \in {"delete", "strip", "load"}
        /\ worker'[w].pc = "load" => Retracted(w) = {}
    BY <1>3, <1>6, PrepareEffect DEF store
  <2>2. worker'[w].affected = {}
    BY <2>1 DEF Affected
  <2>3. ASSUME NEW d \in BatchDocs(w), ~Waiting(d) PROVE Underway(w, d)'
    BY <1>3, <1>4, <1>5, <2>1, <2>3 DEF Underway, Asked
  <2> QED
    BY <1>0, <1>3, <2>1, <2>2, <2>3, MoveStep
<1>7. CASE DeleteDocs(w)
  <2>1. /\ worker[w].pc = "delete" /\ worker'[w].pc = "strip"
        /\ worker'[w].affected = worker[w].affected /\ worker'[w].current = worker[w].current
        /\ merged' = merged
    BY <1>7, DeleteDocsEffect
  <2>2. \A d \in Docs : prod'[d] = IF d \in Deleted(w) THEN {} ELSE prod[d]
    BY <1>7 DEF DeleteDocs
  <2>3. ASSUME NEW d \in BatchDocs(w), ~Waiting(d), Underway(w, d) PROVE Underway(w, d)'
    <3>1. Asked(d)' = Asked(d)
      BY <1>3, <1>4, <1>5, <2>2, <2>3 DEF Asked
    <3> QED
      BY <2>1, <2>3, <3>1 DEF Underway
  <2>4. \A d \in Docs \ BatchDocs(w) : prod'[d] = prod[d]
    BY <1>3, <2>2
  <2> QED
    BY <1>0, <1>1, <1>2, <2>1, <2>3, <2>4, MoveStep
<1>8. CASE Strip(w)
  <2>1. /\ worker[w].pc = "strip"
        /\ worker'[w].pc = IF Completed(w) = {} /\ worker[w].affected = {} THEN "commit" ELSE "load"
        /\ worker'[w].affected = worker[w].affected /\ worker'[w].current = worker[w].current
        /\ prod' = prod
    BY <1>8, StripEffect
  <2>2. \A d \in Docs : merged'[d] = IF d \in Retracted(w) THEN {} ELSE merged[d]
    BY <1>8 DEF Strip
  <2>3. ASSUME NEW d \in BatchDocs(w), ~Waiting(d), Underway(w, d) PROVE Underway(w, d)'
    <3>1. worker[w].current[d] = Asked(d) /\ Asked(d)' = Asked(d)
      BY <1>3, <1>5, <2>1, <2>3 DEF Underway, Asked
    <3>2. ~Included(d)' => merged'[d] = {}
      BY <1>3, <1>4, <1>5, <2>2, <2>3
    <3>3. worker'[w].pc = "commit" => ~Included(d)'
      BY <1>3, <1>4, <1>5, <2>1, <2>3
    <3>4. worker'[w].pc = "commit" => Answered(d)'
      BY <3>2, <3>3 DEF Answered
    <3> QED
      BY <2>1, <3>1, <3>2, <3>4 DEF Underway
  <2>4. \A d \in Docs \ BatchDocs(w) : merged'[d] = merged[d]
    BY <1>3, <2>2
  <2> QED
    BY <1>0, <1>1, <1>2, <2>1, <2>3, <2>4, MoveStep
<1>9. CASE Load(w)
  <2>1. /\ worker[w].pc = "load" /\ worker'[w].pc = "structure"
        /\ worker'[w].affected = worker[w].affected /\ worker'[w].loaded = worker[w].current
        /\ UNCHANGED <<prod, merged>>
    BY <1>9, LoadEffect DEF store
  <2>2. ASSUME NEW d \in BatchDocs(w), Underway(w, d) PROVE Underway(w, d)'
    BY <1>3, <1>5, <2>1, <2>2 DEF Underway, Asked
  <2> QED
    BY <1>0, <1>1, <1>2, <2>1, <2>2, MoveStep
<1>10. CASE MergeStructure(w)
  <2>1. /\ worker[w].pc = "structure" /\ worker'[w].pc = "missing"
        /\ worker'[w].affected = worker[w].affected /\ prod' = prod
    BY <1>10, MergeStructureEffect
  <2>2. \A d \in Docs : merged'[d] = merged[d] \cup worker[w].loaded[d]
    BY <1>10 DEF MergeStructure
  <2>3. ASSUME NEW d \in BatchDocs(w), Underway(w, d) PROVE Underway(w, d)'
    <3>1. worker[w].loaded[d] = Asked(d) /\ (~Included(d) => merged[d] = {})
      BY <2>1, <2>3 DEF Underway
    <3>2. Answered(d)'
      BY <1>3, <1>5, <2>1, <2>2, <3>1 DEF Answered, Asked
    <3> QED
      BY <2>1, <3>2 DEF Underway
  <2>4. \A d \in Docs \ BatchDocs(w) : merged'[d] = merged[d]
    BY <1>2, <2>1, <2>2
  <2> QED
    BY <1>0, <1>1, <2>1, <2>3, <2>4, MoveStep
<1>11. CASE DeleteMissing(w) \/ Write(w) \/ Project(w) \/ Commit(w)
  <2>1. /\ worker[w].pc \in {"missing", "write", "project", "commit"}
        /\ worker'[w].pc \in {"write", "project", "commit", "ack"}
        /\ worker'[w].affected = worker[w].affected /\ prod' = prod
    BY <1>11, DeleteMissingEffect, WriteEffect, ProjectEffect, CommitEffect
  <2>2. \A d \in Docs : merged'[d] = merged[d]
    BY <1>1, <1>11 DEF DeleteMissing, Missing, Write, Project, Commit, store
  <2>3. ASSUME NEW d \in BatchDocs(w), Underway(w, d) PROVE Underway(w, d)'
    BY <1>3, <1>5, <2>1, <2>2, <2>3 DEF Underway, Answered
  <2> QED
    BY <1>0, <1>1, <2>1, <2>2, <2>3, MoveStep
<1> QED
  BY <1>6, <1>7, <1>8, <1>9, <1>10, <1>11 DEF Moves

\* The inductive invariant of smooth behaviours holds of every reachable state.
LEMMA SmoothInvariant == Spec => [](CompileInv /\ SmoothInv)
<1>1. Init => SmoothInv
  <2> SUFFICES ASSUME Init PROVE Parts
    BY DEF SmoothInv
  <2>1. row.token = 0 /\ row.inflight = <<>> /\ row.backlog = <<>> /\ Len(events) = 0
    BY DEF Init
  <2>2. \A w \in Workers : worker[w].pc = "idle"
    BY DEF Init, Idle
  <2>3. \A d \in Docs : ~docs[d].dirty /\ merged[d] = {}
    BY DEF Init
  <2>4. rebuild.pc = "idle"
    BY DEF Init
  <2>5. OneBatch /\ ReadsItsOwn /\ BatchesWork
    BY <2>1, <2>2, <2>4 DEF OneBatch, ReadsItsOwn, BatchesWork
  <2>6. InOrder /\ NoRefresh
    BY <2>1, <2>3 DEF InOrder, NoRefresh
  <2>7. \A d \in Docs : ~Included(d)
    BY <2>1 DEF Included
  <2>8. MergesAsked
    BY <2>3, <2>7 DEF MergesAsked, Answered
  <2> QED
    BY <2>5, <2>6, <2>8 DEF Parts
<1>2. CompileInv /\ SmoothInv /\ [Next]_vars => SmoothInv'
  <2> SUFFICES ASSUME CompileInv, SmoothInv, [Next]_vars, Smooth' PROVE Parts'
    BY DEF SmoothInv
  <2>0. Typed /\ InRange /\ Covering
    BY DEF CompileInv
  <2>1. CASE UNCHANGED vars
    <3>1. Smooth
      BY <2>1 DEF vars, Smooth, Undisturbed, Wiki
    <3>2. Parts
      BY <3>1 DEF SmoothInv
    <3>3. OneBatch' /\ InOrder' /\ NoRefresh' /\ ReadsItsOwn'
      BY <2>1, <3>2 DEF vars, Parts, OneBatch, InOrder, NoRefresh, ReadsItsOwn, BatchDocs
    <3>4. MergesAsked' /\ BatchesWork'
      BY <2>1, <3>2 DEF vars, Parts, MergesAsked, BatchesWork, Underway, Asked, Answered,
                        Included, BatchDocs, Waiting
    <3> QED
      BY <3>3, <3>4 DEF Parts
  <2>2. CASE Next
    <3>1. Smooth
      BY <2>0, <2>2, SmoothBefore
    <3>2. Parts /\ ~Wiki
      BY <3>1 DEF SmoothInv, Smooth
    <3>3. \/ \E d \in Docs : Uses(d)
          \/ \E w \in Workers : Claim(w) \/ Moves(w) \/ Ack(w)
      BY <2>0, <2>2, <3>2, SmoothSteps
    <3> QED
      BY <2>0, <3>2, <3>3, UserStep, ClaimStep, BatchStep, AckStep
  <2> QED
    BY <2>1, <2>2
<1> QED
  BY <1>1, <1>2, CompileInit, CompileStep, PTL DEF Spec

\* However users parse, disable, enable and delete documents between and during the
\* batches, however the events are split into batches and whichever workers process
\* them: once everything published has been processed the dataset's structure products
\* hold all present products of the documents whose last event includes them, and
\* nothing of the others, as long as every batch ran through.
THEOREM LastEventsDecide == Spec => []LastEventDecides
<1>1. CompileInv /\ SmoothInv => LastEventDecides
  <2> SUFFICES ASSUME SmoothInv, ~Wiki, Undisturbed, Quiet, NEW d \in Docs
               PROVE  Answered(d)
    BY DEF LastEventDecides
  <2>1. MergesAsked
    BY DEF SmoothInv, Smooth, Parts
  <2>2. ToSet(<<>>) = {}
    BY DEF ToSet
  <2>3. ~Waiting(d) /\ \A w \in Workers : worker[w].pc = "idle"
    BY <2>2 DEF Quiet, Waiting
  <2> QED
    BY <2>1, <2>3 DEF MergesAsked
<1> QED
  BY <1>1, SmoothInvariant, PTL
================================================================================
