--------------------------- MODULE MCConnectorLock ---------------------------
(* Small instances of ConnectorLock for TLC. *)
EXTENDS ConnectorLock, TLC

CONSTANTS p1, p2, p3, w1, w2, w3, w4

\* a process with two workers and two with a single worker
Shared == (w1 :> p1) @@ (w2 :> p1) @@ (w3 :> p2) @@ (w4 :> p3)
==============================================================================
