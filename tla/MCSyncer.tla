------------------------------ MODULE MCSyncer ------------------------------
(* A small instance of Syncer.                                             *)
EXTENDS Syncer, TLC

CONSTANTS k1, t1, t2, t3, p1, p2, w1, w2

\* Two sync rows and a prune row of one knowledge base, two processes of one worker.
KbOfRows == [t \in Tasks |-> k1]
Kinds == [t \in Tasks |-> IF t = t3 THEN "prune" ELSE "sync"]
Homes == [w \in Workers |-> IF w = w1 THEN p1 ELSE p2]

\* The processes, each with its worker, may trade places, and so may the sync rows.
Symmetry ==
    {f @@ g : f \in {(p1 :> p1) @@ (p2 :> p2) @@ (w1 :> w1) @@ (w2 :> w2),
                     (p1 :> p2) @@ (p2 :> p1) @@ (w1 :> w2) @@ (w2 :> w1)},
              g \in Permutations({t1, t2})}

\* One attempt instead of maxTransientTaskRetries + 1.
OneAttempt == [c \in Classes |-> 1]
=============================================================================
