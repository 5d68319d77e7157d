---------------------------- MODULE Housekeeping ----------------------------
(***************************************************************************)
(* The jobs that are meant to be their own cron: server.js queues `sweep'  *)
(* once at boot, and the sweep handler of src/jobtypes.js queues the next  *)
(* run before it returns; a batch that has not ended queues the next poll  *)
(* the same way.  Both use the dedupe key their own row still holds.       *)
(* The queue, its processes and their failures are those of JobQueue.      *)
(***************************************************************************)
EXTENDS JobQueue

CONSTANT Sweep     \* the kind of work that requeues itself

ASSUME SweepAssumption == Sweep \in Deduped

VARIABLES
  boots,      \* processes that have come up and not yet queued the sweep
  requeued    \* activations whose handler has asked for the next run

hvars == <<vars, boots, requeued>>

HInit == Init /\ boots = Procs /\ requeued = {}

HTypeOK == TypeOK /\ boots \subseteq Procs /\ requeued \subseteq Runs

\* Mutant: the sweep is queued without its dedupe key.
QueueSweep_NoKey(d) == \E j \in Jobs :
  /\ rows[j].state = "absent"
  /\ rows' = [rows EXCEPT ![j] = NewRow(Sweep, d)]
  /\ worked' = [worked EXCEPT ![j] = FALSE]

\* jobs.enqueue('sweep', ...) as one step: the lookup by key, then the INSERT,
\* whose unique index rejects what the lookup would have found.  d: whether the
\* row is due at once (boot) or after SWEEP_INTERVAL_MS (from the handler).
QueueSweep(d) ==
  \/ /\ \E j \in Jobs : HoldsKey(j, Sweep)
     /\ UNCHANGED <<rows, worked>>
  \/ /\ ~ \E j \in Jobs : HoldsKey(j, Sweep)
     /\ \E j \in Jobs :
          /\ rows[j].state = "absent"
          /\ \A i \in Jobs : i < j => rows[i].state # "absent"
          /\ rows' = [rows EXCEPT ![j] = NewRow(Sweep, d)]
          /\ worked' = [worked EXCEPT ![j] = FALSE]

\* start(): after the worker is on, the boot sequence queues the first sweep.
Boot(p) ==
  /\ p \in boots /\ procs[p].mode = "up"
  /\ boots' = boots \ {p}
  /\ QueueSweep(TRUE)
  /\ UNCHANGED <<calls, procs, running, runs, used, requeued>>

\* The end of the sweep handler: "re-queues itself".
AskAgain(r) ==
  /\ runs[r].phase = "handler" /\ r \notin requeued
  /\ rows[runs[r].job].kind = Sweep
  /\ QueueSweep(FALSE)
  /\ requeued' = requeued \cup {r}
  /\ UNCHANGED <<calls, procs, running, runs, used, boots>>

\* The sweep handler swallows the errors of its statements and never checks
\* for cancellation, so it ends only by returning, after asking again.
SweepReturns(r) == r \in requeued /\ HandlerReturns(r)

SweepStep(r) == SweepReturns(r) \/ ReadState(r) \/ FinishDone(r)

\* A step of the queue itself; an activation that ends forgets what it asked.
Within(A) == /\ A /\ UNCHANGED boots
             /\ requeued' = {r \in requeued : runs'[r].phase = "handler"}

\* The process is replaced by a new one, which boots from the beginning.
Replaced(p) == /\ Crash(p)
               /\ boots' = boots \cup {p}
               /\ requeued' = {r \in requeued : ProcOf[r] # p}

HNext == \/ \E p \in Procs : Boot(p) \/ Replaced(p)
         \/ \E p \in Procs : Within(ProcStep(p)) \/ Within(Start(p))
         \/ \E r \in Runs : AskAgain(r) \/ Within(SweepStep(r))
         \/ \E j \in Jobs : Within(Clock(j))

HFairness ==
  /\ \A p \in Procs : /\ WF_hvars(Boot(p))
                      /\ WF_hvars(Within(ProcStep(p)))
                      /\ WF_hvars(Within(Start(p)))
  /\ \A r \in Runs : WF_hvars(AskAgain(r)) /\ WF_hvars(Within(SweepStep(r)))
  /\ \A j \in Jobs : WF_hvars(Within(Clock(j)))

HSpec == HInit /\ [][HNext]_hvars /\ HFairness

-----------------------------------------------------------------------------
SweepRows == {j \in Jobs : rows[j].kind = Sweep}

\* A boot's sweep is run to its end, also when the boot only found the row of a
\* process that died in the middle of its own.
BootSweepRuns == (LiveFor(Sweep) # {}) ~> (\E j \in SweepRows : worked[j])

\* The sweep is its own cron ("the handler re-queues itself at the end, which is
\* all the cron this needs"): after one that is done comes another.  MaxJobs
\* leaves room for it.
SweepRecurs == \A j \in Jobs \ {MaxJobs} :
  (j \in SweepRows /\ rows[j].state = "done") ~> \E i \in SweepRows : i > j
=============================================================================
