---------------------------- MODULE ConnectorLock ----------------------------
(***************************************************************************)
(* The lock that keeps two sync or prune tasks of one connector and        *)
(* knowledge base apart (internal/syncer/connector_lock.go) over the Redis *)
(* lock of internal/engine/redis.  Keys do not interact: the module is one *)
(* key.                                                                    *)
(*                                                                         *)
(* A process has one ConnectorLock, shared by its task workers: a table of *)
(* locked keys under a mutex, and a holder id that is the value of every   *)
(* Redis key the process sets.  What happens under one hold of the mutex   *)
(* is a step, and so is every Redis command; between them other workers    *)
(* run.  A Redis command may fail, with or without having had its effect.  *)
(* A process that crashes does not come back: its restart is another       *)
(* process, with a new holder id.                                          *)
(***************************************************************************)
EXTENDS Naturals

CONSTANTS
    Procs,      \* syncer processes
    Workers,    \* task workers
    ProcOf,     \* the process of each worker
    UseRedis,   \* redis.Get() returns a client
    Nobody      \* the Redis key does not exist

ASSUME LockAssumption ==
    /\ ProcOf \in [Workers -> Procs]
    /\ UseRedis \in BOOLEAN
    /\ Nobody \notin Procs

VARIABLES
    pc,      \* where each worker is in TryLock or Unlock
    local,   \* the processes whose table of locked keys has the key
    handle,  \* the processes whose table of Redis locks has the key
    redis,   \* the value of the Redis key
    alive    \* the processes that have not crashed

vars == <<pc, local, handle, redis, alive>>

\* Steps of TryLock, the execution under the lock, and the rest of Unlock.
Trying == {"stale", "setnx", "record", "giveup"}
Labels == Trying \cup {"idle", "held", "release"}

Goto(w, l) == pc' = [pc EXCEPT ![w] = l]

\* Mutant of DeleteIfEqual: the key is deleted whoever set it.
DeleteAnyway(p) == redis' = Nobody

\* luaDeleteIfEqual: the key goes if its value is the holder id of p.
DeleteIfEqual(p) == redis' = IF redis = p THEN Nobody ELSE redis

\* The worker's process is running and the worker is at l.
At(w, l) == ProcOf[w] \in alive /\ pc[w] = l

\* Mutant of TryLock: the local table is not consulted.
TryLockUnchecked(w) ==
    /\ At(w, "idle")
    /\ local' = local \cup {ProcOf[w]}
    /\ Goto(w, IF UseRedis THEN "stale" ELSE "held")
    /\ UNCHANGED <<handle, redis, alive>>

\* TryLock enters the key into the local table, or fails there at once.
TryLock(w) ==
    /\ At(w, "idle") /\ ProcOf[w] \notin local
    /\ local' = local \cup {ProcOf[w]}
    /\ Goto(w, IF UseRedis THEN "stale" ELSE "held")
    /\ UNCHANGED <<handle, redis, alive>>

\* Acquire first removes a key its own process left behind.
DeleteStale(w) ==
    /\ At(w, "stale")
    /\ DeleteIfEqual(ProcOf[w]) \/ UNCHANGED redis
    /\ Goto(w, "setnx")
    /\ UNCHANGED <<local, handle, alive>>

\* Mutant of SetNX: the answer of Redis is not looked at.
SetNXUnchecked(w) ==
    /\ At(w, "setnx")
    /\ redis' = IF redis = Nobody THEN ProcOf[w] ELSE redis
    /\ Goto(w, "record")
    /\ UNCHANGED <<local, handle, alive>>

\* SetNX sets an absent key; an error is a refusal, whatever Redis did.
SetNX(w) ==
    /\ At(w, "setnx")
    /\ \/ redis = Nobody /\ redis' = ProcOf[w] /\ Goto(w, "record")
       \/ redis = Nobody /\ redis' = ProcOf[w] /\ Goto(w, "giveup")
       \/ UNCHANGED redis /\ Goto(w, "giveup")
    /\ UNCHANGED <<local, handle, alive>>

\* TryLock failed: the key leaves the local table again.
GiveUp(w) ==
    /\ At(w, "giveup")
    /\ local' = local \ {ProcOf[w]}
    /\ Goto(w, "idle")
    /\ UNCHANGED <<handle, redis, alive>>

\* TryLock succeeded: the process remembers its Redis lock.
Record(w) ==
    /\ At(w, "record")
    /\ handle' = handle \cup {ProcOf[w]}
    /\ Goto(w, "held")
    /\ UNCHANGED <<local, redis, alive>>

\* Unlock empties both tables under the mutex ...
Unlock(w) ==
    /\ At(w, "held")
    /\ local'  = local \ {ProcOf[w]}
    /\ handle' = handle \ {ProcOf[w]}
    /\ Goto(w, IF ProcOf[w] \in handle THEN "release" ELSE "idle")
    /\ UNCHANGED <<redis, alive>>

\* ... and releases the Redis lock outside it.
Release(w) ==
    /\ At(w, "release")
    /\ DeleteIfEqual(ProcOf[w]) \/ UNCHANGED redis
    /\ Goto(w, "idle")
    /\ UNCHANGED <<local, handle, alive>>

\* The key's TTL passes.  taskExecutionDeadline ends a run before its lock's TTL,
\* so the holder of the key has let go of it, or has died.
Expire ==
    /\ redis # Nobody
    /\ \A w \in Workers : At(w, "record") \/ At(w, "held") => ProcOf[w] # redis
    /\ redis' = Nobody
    /\ UNCHANGED <<pc, local, handle, alive>>

\* A process dies with whatever it holds.
Crash(p) ==
    /\ p \in alive
    /\ alive' = alive \ {p}
    /\ UNCHANGED <<pc, local, handle, redis>>

Init ==
    /\ pc = [w \in Workers |-> "idle"]
    /\ local = {} /\ handle = {}
    /\ redis = Nobody
    /\ alive = Procs

Next ==
    \/ \E w \in Workers :
         \/ TryLock(w) \/ DeleteStale(w) \/ SetNX(w) \/ GiveUp(w)
         \/ Record(w) \/ Unlock(w) \/ Release(w)
    \/ Expire
    \/ \E p \in Procs : Crash(p)

Spec == Init /\ [][Next]_vars

------------------------------------------------------------------------------
\* Everything has its type.
TypeOK ==
    /\ pc \in [Workers -> Labels]
    /\ local \subseteq Procs /\ handle \subseteq Procs /\ alive \subseteq Procs
    /\ redis \in Procs \cup {Nobody}

\* Two workers of one process are never both past the local table of
\* ConnectorLock.TryLock, whatever the Redis commands of either do: however a
\* TryLock fails and however an Unlock is interleaved, the process runs one task
\* of the connector and knowledge base.
LocalExclusion ==
    \A v, w \in Workers :
        v # w /\ ProcOf[v] = ProcOf[w] =>
            ~(pc[v] \in Trying \cup {"held"} /\ pc[w] \in Trying \cup {"held"})

\* While a worker executes under the lock, its Redis key goes only by the Release
\* of another worker of the same process that left Unlock's mutex earlier: no
\* process ever deletes a key that another process set (DeleteIfEqual), and no
\* Acquire takes the key from a worker that is executing.
KeyLostToOwnRelease ==
    [][\A w \in Workers :
         At(w, "held") /\ At(w, "held")' /\ redis = ProcOf[w] /\ redis' # redis =>
             \E v \in Workers \ {w} :
                 ProcOf[v] = ProcOf[w] /\ pc[v] = "release" /\ pc'[v] = "idle"]_vars

\* The worker is the only one of its process.
Lone(w) == \A v \in Workers : ProcOf[v] = ProcOf[w] => v = w

\* Processes that run one task worker each execute one task of the connector and
\* knowledge base at a time between them, through crashes, lost replies and
\* expiry, and whatever the processes with more workers do beside them.
LoneWorkersExclude ==
    UseRedis =>
        \A v, w \in Workers : Lone(v) /\ Lone(w) /\ At(v, "held") /\ At(w, "held") => v = w

------------------------------------------------------------------------------
(* What the documentation or a comment says and the code does not do: see the
   README, section 3.  No run checks these. *)

\* One task of the connector and knowledge base executes at a time, over all the
\* processes that share the Redis server.  The code does not keep this: a process
\* with two workers loses its key to its own late Release.
MutualExclusion ==
    \A v, w \in Workers : At(v, "held") /\ At(w, "held") => v = w

==============================================================================
