----------------------------- MODULE MCIngestor -----------------------------
(* Small instances of Ingestor for TLC. *)
EXTENDS Ingestor, TLC

CONSTANTS p1, p2, w1, w2, c1, c2, t1, t2

\* every worker in one process
OneProcess == [w \in Workers |-> p1]

\* one worker in each of two processes
TwoProcesses == [w \in Workers |-> IF w = w1 THEN p1 ELSE p2]

\* Requests, task ids and the workers of one process are interchangeable.
OneProcessSymmetry ==
    Permutations(Clients) \cup Permutations(Tasks) \cup Permutations(Workers)
=============================================================================
