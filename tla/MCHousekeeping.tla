--------------------------- MODULE MCHousekeeping ---------------------------
(* Two server processes on one queue whose only work is the sweep.          *)
EXTENDS Housekeeping

MCProcs    == {"p1", "p2"}
MCHandles  == [p \in MCProcs |-> {"sweep"}]
MCPriority == [k \in {"sweep"} |-> 9]
MCRuns     == {"p1a", "p2a"}
MCProcOf   == [r \in MCRuns |-> IF r = "p1a" THEN "p1" ELSE "p2"]
=============================================================================
