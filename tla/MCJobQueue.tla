---------------------------- MODULE MCJobQueue ----------------------------
(* Small instances of JobQueue: two processes, a deduplicated kind both can *)
(* run and a kind without a key that only one of them has a handler for.    *)
EXTENDS JobQueue, TLC

MCKinds    == {"scan", "bulk"}
MCDeduped  == {"scan"}
MCPriority == [k \in MCKinds |-> IF k = "scan" THEN 8 ELSE 5]
MCProcs    == {"p1", "p2"}
MCHandles  == [p \in MCProcs |-> IF p = "p1" THEN MCKinds ELSE {"scan"}]

\* One activation per slot of each process.
MCRuns   == {"p1a", "p2a"}
MCProcOf == [r \in MCRuns |-> IF r = "p1a" THEN "p1" ELSE "p2"]

\* enqueue() calls differ in nothing but their name.
CallerSymmetry == Permutations(Callers)

\* A process that dies or a statement that fails, not both.
OneFailure == used.crash + used.fault <= 1
=============================================================================
