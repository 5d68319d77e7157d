------------------------------ MODULE JobQueue ------------------------------
(***************************************************************************)
(* The background job queue of src/jobs.js: the `jobs` table, the callers  *)
(* that queue, cancel and retry work, and the worker processes that share  *)
(* the table.  A process claims a row with one atomic UPDATE, reads it     *)
(* back, runs its handler, and then writes the outcome with further        *)
(* UPDATEs; between any two of these statements every other process and    *)
(* every caller may run, the process may die, and the lease of the row may *)
(* lapse.                                                                  *)
(*                                                                         *)
(* A row's type, payload, priority and dedupe key are determined by the    *)
(* KIND of work it stands for ("scan everything", "extract this file"), so *)
(* a kind is one unit of work and `keyed' says whether the row still holds *)
(* that kind's dedupe key or NULL.  Time is two booleans: a lease is live  *)
(* or lapsed, and run_after has passed (due) or not.                       *)
(***************************************************************************)
EXTENDS Integers, FiniteSets

CONSTANTS
  MaxJobs,        \* bound: rows the AUTO_INCREMENT id may reach
  Kinds,          \* units of work callers may queue
  Deduped,        \* the kinds queued with a dedupe key
  Priority,       \* Kinds -> Nat, lower runs first
  Callers,        \* concurrent calls of enqueue()
  Procs,          \* worker processes
  Handles,        \* Procs -> SUBSET Kinds: kinds whose type has a handler there
  Runs,           \* activations of execute() that may exist at once
  ProcOf,         \* Runs -> Procs: the process an activation belongs to
  Concurrency,    \* config.jobsConcurrency
  MaxAttempts,    \* config.jobsMaxAttempts
  None,           \* SQL NULL / JavaScript null

  \* What the environment may do.
  Overrun,        \* TRUE: a lease may lapse while its holder is alive and busy
  CancelRunning,  \* TRUE: an operator may cancel a job in state running
  EagerRetry,     \* TRUE: an operator may retry a job whose handler still runs
  BlindReads,     \* TRUE: the reads of a job's state by its execution may fail

  \* Bounds on the events that could otherwise repeat for ever.
  MaxCrashes,     \* processes killed or stopped
  MaxFaults,      \* database statements that fail
  MaxCancels,     \* cancels that take effect
  MaxRetries      \* retries that take effect

Jobs == 1..MaxJobs

ASSUME QueueAssumption ==
  /\ MaxJobs \in Nat
  /\ Deduped \subseteq Kinds
  /\ Priority \in [Kinds -> Nat]
  /\ Handles \in [Procs -> SUBSET Kinds]
  /\ \A r \in Runs : ProcOf[r] \in Procs
  /\ Concurrency \in Nat \ {0}
  /\ MaxAttempts \in Nat \ {0}
  /\ None \notin Jobs /\ None \notin Procs /\ None \notin Kinds
  /\ Overrun \in BOOLEAN /\ CancelRunning \in BOOLEAN
  /\ EagerRetry \in BOOLEAN /\ BlindReads \in BOOLEAN
  /\ MaxCrashes \in Nat /\ MaxFaults \in Nat
  /\ MaxCancels \in Nat /\ MaxRetries \in Nat

VARIABLES
  rows,     \* the jobs table
  calls,    \* where each enqueue() call stands
  procs,    \* each process's loop: up or stopped or down, and its tick
  running,  \* each process's `running' map: the ids it believes it executes
  runs,     \* the activations of execute()
  worked,   \* history: ids whose handler ran to its end since last (re)queued
  used      \* how much of each bound has been spent

vars == <<rows, calls, procs, running, runs, worked, used>>

-----------------------------------------------------------------------------
(* Shapes of the state.                                                    *)

Live     == {"queued", "running"}
Terminal == {"done", "failed", "cancelled"}

States == Live \cup Terminal \cup {"absent"}

Row == [state : States,
        kind : Kinds \cup {None}, keyed : BOOLEAN, attempts : Nat,
        owner : Procs \cup {None}, lease : {"none", "live", "lapsed"},
        due : BOOLEAN]

NoRow == [state |-> "absent", kind |-> None, keyed |-> FALSE, attempts |-> 0,
          owner |-> None, lease |-> "none", due |-> FALSE]

\* The row in state s, under no lease.
Released(row, s) == [row EXCEPT !.state = s, !.lease = "none", !.owner = None]

\* A terminal row also gives up its dedupe key (NULLs do not collide).
Closed(row, s) == [Released(row, s) EXCEPT !.keyed = FALSE]

\* The row as the claiming UPDATE leaves it.
Claimed(row, p) == [row EXCEPT !.state = "running", !.owner = p, !.lease = "live",
                               !.attempts = row.attempts + 1]

Call == [pc : {"idle", "insert", "reread"}, kind : Kinds \cup {None}]
NoCall == [pc |-> "idle", kind |-> None]

Proc == [mode : {"up", "stopped", "down"},
         tick : {"idle", "giveup", "claim", "readback"},
         got : Jobs \cup {None}]
NewProc == [mode |-> "up", tick |-> "idle", got |-> None]

\* `att' is job.attempts as the claim read it, never refreshed.
Run == [phase : {"free", "handler", "returned", "finishing", "threw"},
        job : Jobs \cup {None}, att : Nat]
FreeRun == [phase |-> "free", job |-> None, att |-> 0]

Budget == [crash : Nat, fault : Nat, cancel : Nat, retry : Nat]

TypeOK ==
  /\ rows \in [Jobs -> Row]
  /\ calls \in [Callers -> Call]
  /\ procs \in [Procs -> Proc]
  /\ running \in [Procs -> SUBSET Jobs]
  /\ runs \in [Runs -> Run]
  /\ worked \in [Jobs -> BOOLEAN]
  /\ used \in Budget

Init ==
  /\ rows = [j \in Jobs |-> NoRow]
  /\ calls = [c \in Callers |-> NoCall]
  /\ procs = [p \in Procs |-> NewProc]
  /\ running = [p \in Procs |-> {}]
  /\ runs = [r \in Runs |-> FreeRun]
  /\ worked = [j \in Jobs |-> FALSE]
  /\ used = [crash |-> 0, fault |-> 0, cancel |-> 0, retry |-> 0]

\* One more database statement fails: refused, or the connection dropped.
DbFails == /\ used.fault < MaxFaults
           /\ used' = [used EXCEPT !.fault = @ + 1]

-----------------------------------------------------------------------------
(* enqueue(): a SELECT, an INSERT, and a second SELECT on ER_DUP_ENTRY.     *)

HoldsKey(j, k) == rows[j].keyed /\ rows[j].kind = k

\* The row an INSERT creates.
NewRow(k, d) == [NoRow EXCEPT !.state = "queued", !.kind = k,
                              !.keyed = (k \in Deduped), !.due = d]

\* The lookup found nothing live, or there was no key to look up; otherwise
\* the call returns the live row's id and changes nothing.
EnqueueLookup(c, k) ==
  /\ calls[c].pc = "idle"
  /\ k \in Deduped => ~ \E j \in Jobs : HoldsKey(j, k) /\ rows[j].state \in Live
  /\ calls' = [calls EXCEPT ![c] = [pc |-> "insert", kind |-> k]]
  /\ UNCHANGED <<rows, procs, running, runs, worked, used>>

\* Mutant: no unique index on the dedupe key.
EnqueueInsert_NoIndex(c) ==
  /\ calls[c].pc = "insert"
  /\ \E j \in Jobs, d \in BOOLEAN :
       /\ rows[j].state = "absent"
       /\ rows' = [rows EXCEPT ![j] = NewRow(calls[c].kind, d)]
       /\ worked' = [worked EXCEPT ![j] = FALSE]
  /\ calls' = [calls EXCEPT ![c] = NoCall]
  /\ UNCHANGED <<procs, running, runs, used>>

\* uq_jobs_dedupe rejects a second row with the same key, whatever its state.
EnqueueInsert(c) ==
  /\ calls[c].pc = "insert"
  /\ LET k == calls[c].kind IN
     \/ /\ k \in Deduped /\ \E j \in Jobs : HoldsKey(j, k)
        /\ calls' = [calls EXCEPT ![c] = [@ EXCEPT !.pc = "reread"]]
        /\ UNCHANGED <<rows, worked, used>>
     \/ /\ k \in Deduped => ~ \E j \in Jobs : HoldsKey(j, k)
        /\ \E j \in Jobs, d \in BOOLEAN :
             /\ rows[j].state = "absent"
             /\ \A i \in Jobs : i < j => rows[i].state # "absent"
             /\ rows' = [rows EXCEPT ![j] = NewRow(k, d)]
             /\ worked' = [worked EXCEPT ![j] = FALSE]
        /\ calls' = [calls EXCEPT ![c] = NoCall]
        /\ UNCHANGED used
     \/ /\ DbFails
        /\ calls' = [calls EXCEPT ![c] = NoCall]
        /\ UNCHANGED <<rows, worked>>
  /\ UNCHANGED <<procs, running, runs>>

\* Returns the id of the row that won the race, or null if it is already gone.
EnqueueReread(c) ==
  /\ calls[c].pc = "reread"
  /\ calls' = [calls EXCEPT ![c] = NoCall]
  /\ UNCHANGED <<rows, procs, running, runs, worked, used>>

-----------------------------------------------------------------------------
(* cancel() and retry(): one conditional UPDATE each, driven by operators. *)

Executing(j) == \E r \in Runs : runs[r].job = j

Cancel(j) ==
  /\ used.cancel < MaxCancels
  /\ rows[j].state \in Live
  /\ rows[j].state = "running" => CancelRunning
  /\ rows' = [rows EXCEPT ![j] = [@ EXCEPT !.state = "cancelled", !.keyed = FALSE]]
  /\ used' = [used EXCEPT !.cancel = @ + 1]
  /\ UNCHANGED <<calls, procs, running, runs, worked>>

\* Mutant: a retry gives one attempt back instead of all of them.
Retry_RefundsOne(j) ==
  /\ used.retry < MaxRetries
  /\ rows[j].state \in Terminal
  /\ rows' = [rows EXCEPT ![j] =
               [Released(@, "queued") EXCEPT !.attempts = @ - 1, !.due = TRUE]]
  /\ worked' = [worked EXCEPT ![j] = FALSE]
  /\ used' = [used EXCEPT !.retry = @ + 1]
  /\ UNCHANGED <<calls, procs, running, runs>>

\* Mutant: a retry does not reset the attempts.
Retry_KeepsAttempts(j) ==
  /\ used.retry < MaxRetries
  /\ rows[j].state \in Terminal /\ ~ Executing(j)
  /\ rows' = [rows EXCEPT ![j] = [Released(@, "queued") EXCEPT !.due = TRUE]]
  /\ worked' = [worked EXCEPT ![j] = FALSE]
  /\ used' = [used EXCEPT !.retry = @ + 1]
  /\ UNCHANGED <<calls, procs, running, runs>>

Retry(j) ==
  /\ used.retry < MaxRetries
  /\ rows[j].state \in Terminal
  /\ Executing(j) => EagerRetry
  /\ rows' = [rows EXCEPT ![j] =
               [Released(@, "queued") EXCEPT !.attempts = 0, !.due = TRUE]]
  /\ worked' = [worked EXCEPT ![j] = FALSE]
  /\ used' = [used EXCEPT !.retry = @ + 1]
  /\ UNCHANGED <<calls, procs, running, runs>>

-----------------------------------------------------------------------------
(* tick(): reclaim expired leases, then claim until the slots are full.     *)

SetTick(p, t) == procs' = [procs EXCEPT ![p] = [@ EXCEPT !.tick = t]]

\* Mutant: every running row looks abandoned.
Lapsed_AnyLease(j) == rows[j].state = "running"

Lapsed(j) == rows[j].state = "running" /\ rows[j].lease = "lapsed"

\* Mutant: nothing reclaims the jobs of a dead process.
TickStart_NoReclaim(p) ==
  /\ procs[p].mode = "up" /\ procs[p].tick = "idle"
  /\ SetTick(p, "giveup")
  /\ UNCHANGED <<rows, calls, running, runs, worked, used>>

\* The timer fires with no tick under way: reclaimExpired(), first UPDATE.  Its
\* failure is swallowed.
TickStart(p) ==
  /\ procs[p].mode = "up" /\ procs[p].tick = "idle"
  /\ SetTick(p, "giveup")
  /\ \/ /\ rows' = [j \in Jobs |->
                      IF Lapsed(j) /\ rows[j].attempts < MaxAttempts
                      THEN Released(rows[j], "queued") ELSE rows[j]]
        /\ UNCHANGED used
     \/ DbFails /\ UNCHANGED rows
  /\ UNCHANGED <<calls, running, runs, worked>>

\* reclaimExpired(), second UPDATE.
ReclaimGiveUp(p) ==
  /\ procs[p].tick = "giveup"
  /\ SetTick(p, "claim")
  /\ \/ /\ rows' = [j \in Jobs |->
                      IF Lapsed(j) /\ rows[j].attempts >= MaxAttempts
                      THEN Closed(rows[j], "failed") ELSE rows[j]]
        /\ UNCHANGED used
     \/ DbFails /\ UNCHANGED rows
  /\ UNCHANGED <<calls, running, runs, worked>>

\* Mutant: the claim forgets to ask for state = 'queued'.
Claimable_AnyLive(p) == {j \in Jobs : /\ rows[j].state \in Live /\ rows[j].due
                                      /\ rows[j].kind \in Handles[p]}

Claimable(p) == {j \in Jobs : /\ rows[j].state = "queued" /\ rows[j].due
                              /\ rows[j].kind \in Handles[p]}

\* ORDER BY priority, id.
Precedes(i, j) == \/ Priority[rows[i].kind] < Priority[rows[j].kind]
                  \/ /\ Priority[rows[i].kind] = Priority[rows[j].kind]
                     /\ i <= j

MayClaim(p) == procs[p].mode = "up" /\ Cardinality(running[p]) < Concurrency

\* claim(), the UPDATE.  run_after has passed and stays passed.
Claim(p) ==
  /\ procs[p].tick = "claim" /\ MayClaim(p)
  /\ \E j \in Claimable(p) :
       /\ \A i \in Claimable(p) : Precedes(j, i)
       /\ rows' = [rows EXCEPT ![j] = Claimed(@, p)]
       /\ procs' = [procs EXCEPT ![p] = [@ EXCEPT !.tick = "readback", !.got = j]]
  /\ UNCHANGED <<calls, running, runs, worked, used>>

\* The loop ends: stopped, slots full, nothing to claim, or the UPDATE threw.
TickEnd(p) ==
  /\ procs[p].tick = "claim"
  /\ SetTick(p, "idle")
  /\ \/ ~ MayClaim(p) /\ UNCHANGED used
     \/ MayClaim(p) /\ Claimable(p) = {} /\ UNCHANGED used
     \/ MayClaim(p) /\ DbFails
  /\ UNCHANGED <<rows, calls, running, runs, worked>>

Mine(p, j) == rows[j].state = "running" /\ rows[j].owner = p

\* claim(), the SELECT by ticket, then execute() up to the handler's call.
\* Runs bounds the activations; within Concurrency there is always one free.
ReadBack(p) ==
  /\ procs[p].tick = "readback" /\ Mine(p, procs[p].got)
  /\ LET j == procs[p].got IN
     /\ \E r \in Runs :
          /\ ProcOf[r] = p /\ runs[r].phase = "free"
          /\ runs' = [runs EXCEPT ![r] = [phase |-> "handler", job |-> j,
                                          att |-> rows[j].attempts]]
     /\ running' = [running EXCEPT ![p] = @ \cup {j}]
  /\ procs' = [procs EXCEPT ![p] = [@ EXCEPT !.tick = "claim", !.got = None]]
  /\ UNCHANGED <<rows, calls, worked, used>>

\* The row was cancelled or reclaimed meanwhile, or the SELECT threw: the tick
\* ends and a row that is still running waits for its lease to lapse.
ReadBackMiss(p) ==
  /\ procs[p].tick = "readback"
  /\ \/ ~ Mine(p, procs[p].got) /\ UNCHANGED used
     \/ DbFails
  /\ procs' = [procs EXCEPT ![p] = [@ EXCEPT !.tick = "idle", !.got = None]]
  /\ UNCHANGED <<rows, calls, running, runs, worked>>

-----------------------------------------------------------------------------
(* execute(): the handler, then the outcome.                               *)

SetPhase(r, ph) == runs' = [runs EXCEPT ![r] = [@ EXCEPT !.phase = ph]]

\* Mutant: the slot is not given back.
Settle_KeepsSlot(r) == /\ runs' = [runs EXCEPT ![r] = FreeRun]
                       /\ UNCHANGED running

\* The promise settles and `running' forgets the id.
Settle(r) ==
  /\ running' = [running EXCEPT ![ProcOf[r]] = @ \ {runs[r].job}]
  /\ runs' = [runs EXCEPT ![r] = FreeRun]

\* ctx.heartbeat(): renews the lease of the row with this id, whoever holds it.
Heartbeat(r) ==
  /\ runs[r].phase = "handler"
  /\ rows' = [rows EXCEPT ![runs[r].job] = [@ EXCEPT !.lease = "live"]]
  /\ UNCHANGED <<calls, procs, running, runs, worked, used>>

\* ctx.cancelled() said yes, because of the row or because it could not be
\* read; the handler stops early and returns what it has.
HandlerStops(r) ==
  /\ runs[r].phase = "handler"
  /\ \/ rows[runs[r].job].state = "cancelled" /\ UNCHANGED used
     \/ BlindReads /\ DbFails
  /\ SetPhase(r, "returned")
  /\ UNCHANGED <<rows, calls, procs, running, worked>>

HandlerReturns(r) ==
  /\ runs[r].phase = "handler"
  /\ SetPhase(r, "returned")
  /\ worked' = [worked EXCEPT ![runs[r].job] = TRUE]
  /\ UNCHANGED <<rows, calls, procs, running, used>>

HandlerThrows(r) ==
  /\ runs[r].phase = "handler"
  /\ SetPhase(r, "threw")
  /\ UNCHANGED <<rows, calls, procs, running, worked, used>>

\* Mutant: what the handler returned is reported done unseen.
ReadState_Unchecked(r) ==
  /\ runs[r].phase = "returned"
  /\ SetPhase(r, "finishing")
  /\ UNCHANGED <<rows, calls, procs, running, worked, used>>

\* "A job cancelled while it ran keeps the cancelled state": a SELECT, whose
\* failure counts as not cancelled, and a separate UPDATE.
ReadState(r) ==
  /\ runs[r].phase = "returned"
  /\ \/ /\ rows[runs[r].job].state = "cancelled" /\ Settle(r) /\ UNCHANGED used
     \/ /\ rows[runs[r].job].state # "cancelled" /\ UNCHANGED used
        /\ SetPhase(r, "finishing") /\ UNCHANGED running
     \/ /\ BlindReads /\ DbFails
        /\ SetPhase(r, "finishing") /\ UNCHANGED running
  /\ UNCHANGED <<rows, calls, procs, worked>>

\* finish(id, state): no condition on the row but its id.
Finished(j, s) == [rows EXCEPT ![j] = Closed(@, s)]

BackedOff(j) == [rows EXCEPT ![j] = [Released(@, "queued") EXCEPT !.due = FALSE]]

FinishDone(r) ==
  /\ runs[r].phase = "finishing"
  /\ \/ rows' = Finished(runs[r].job, "done") /\ UNCHANGED used
     \/ DbFails /\ UNCHANGED rows
  /\ Settle(r)
  /\ UNCHANGED <<calls, procs, worked>>

\* The catch path: give up for good, or back off, going by the attempt count
\* read when the job was claimed.
FailOrBackOff(r) ==
  /\ runs[r].phase = "threw"
  /\ \/ /\ rows' = IF runs[r].att >= MaxAttempts
                   THEN Finished(runs[r].job, "failed")
                   ELSE BackedOff(runs[r].job)
        /\ UNCHANGED used
     \/ DbFails /\ UNCHANGED rows
  /\ Settle(r)
  /\ UNCHANGED <<calls, procs, worked>>

-----------------------------------------------------------------------------
(* Processes come and go; time passes.                                     *)

\* stop(): no new tick and no further claim, but a claim in flight completes.
Stop(p) ==
  /\ procs[p].mode = "up" /\ used.crash < MaxCrashes
  /\ procs' = [procs EXCEPT ![p] = [@ EXCEPT !.mode = "stopped"]]
  /\ used' = [used EXCEPT !.crash = @ + 1]
  /\ UNCHANGED <<rows, calls, running, runs, worked>>

\* The process dies with everything it had in memory.
Crash(p) ==
  /\ procs[p].mode # "down" /\ used.crash < MaxCrashes
  /\ procs' = [procs EXCEPT ![p] = [NewProc EXCEPT !.mode = "down"]]
  /\ running' = [running EXCEPT ![p] = {}]
  /\ runs' = [r \in Runs |-> IF ProcOf[r] = p THEN FreeRun ELSE runs[r]]
  /\ used' = [used EXCEPT !.crash = @ + 1]
  /\ UNCHANGED <<rows, calls, worked>>

Start(p) ==
  /\ procs[p].mode # "up"
  /\ procs' = [procs EXCEPT ![p] = [@ EXCEPT !.mode = "up"]]
  /\ UNCHANGED <<rows, calls, running, runs, worked, used>>

\* A claim not yet read back, or an activation, still stands behind the row.
Attended(j) == \/ Executing(j)
               \/ \E p \in Procs : procs[p].got = j /\ Mine(p, j)

LeaseLapses(j) ==
  /\ rows[j].state = "running" /\ rows[j].lease = "live"
  /\ Attended(j) => Overrun
  /\ rows' = [rows EXCEPT ![j] = [@ EXCEPT !.lease = "lapsed"]]
  /\ UNCHANGED <<calls, procs, running, runs, worked, used>>

RunAfterPasses(j) ==
  /\ rows[j].state = "queued" /\ ~ rows[j].due
  /\ rows' = [rows EXCEPT ![j] = [@ EXCEPT !.due = TRUE]]
  /\ UNCHANGED <<calls, procs, running, runs, worked, used>>

-----------------------------------------------------------------------------
CallerStep(c) == \/ \E k \in Kinds : EnqueueLookup(c, k)
                 \/ EnqueueInsert(c) \/ EnqueueReread(c)

Operator(j) == Cancel(j) \/ Retry(j)

ProcStep(p) == \/ TickStart(p) \/ ReclaimGiveUp(p)
               \/ Claim(p) \/ TickEnd(p) \/ ReadBack(p) \/ ReadBackMiss(p)

HandlerEnds(r) == HandlerStops(r) \/ HandlerReturns(r) \/ HandlerThrows(r)

RunStep(r) == \/ HandlerEnds(r) \/ ReadState(r) \/ FinishDone(r)
              \/ FailOrBackOff(r)

Lifecycle(p) == Stop(p) \/ Crash(p) \/ Start(p)

Clock(j) == LeaseLapses(j) \/ RunAfterPasses(j)

Next == \/ \E c \in Callers : CallerStep(c)
        \/ \E j \in Jobs : Operator(j) \/ Clock(j)
        \/ \E p \in Procs : ProcStep(p) \/ Lifecycle(p)
        \/ \E r \in Runs : RunStep(r) \/ Heartbeat(r)

Spec == Init /\ [][Next]_vars

(***************************************************************************)
(* Every process's event loop turns and a killed one is restarted; a       *)
(* handler returns or throws in the end; clocks advance.  Callers,         *)
(* operators and failures owe nothing.                                     *)
(***************************************************************************)
Fairness == /\ \A p \in Procs : WF_vars(ProcStep(p)) /\ WF_vars(Start(p))
            /\ \A r \in Runs : WF_vars(RunStep(r))
            /\ \A j \in Jobs : WF_vars(Clock(j))

FairSpec == Spec /\ Fairness

-----------------------------------------------------------------------------
(* What the queue promises.                                                *)

\* A job is started at most MaxAttempts times between two retries, however
\* claims, crashes, lapsed leases, backoffs and lost writes interleave
\* ("or fails it once attempts run out").
AttemptsBounded == \A j \in Jobs : rows[j].attempts <= MaxAttempts

\* No two activations of execute() ever work on the same job: claiming is
\* safe across processes, and live work is never handed out again.
OneExecutor == \A r, s \in Runs :
  runs[r].phase # "free" /\ runs[s].phase # "free" /\ runs[r].job = runs[s].job
    => r = s

\* While an activation stands, its row is still its own claim: running, held
\* by its process under a live lease and at the attempt it read, unless an
\* operator cancelled it.  This is what makes the unconditional UPDATEs of
\* finish() and of the backoff hit only the claim they belong to.
ClaimHeld == \A r \in Runs : runs[r].phase # "free" =>
  LET row == rows[runs[r].job] IN
  /\ row.attempts = runs[r].att
  /\ \/ row.state = "cancelled"
     \/ Mine(ProcOf[r], runs[r].job) /\ row.lease = "live"

\* The `running' map of a process is exactly the set of jobs it executes, one
\* activation each by OneExecutor, so running.size really limits it to
\* `concurrency' slots.
Active(p) == {r \in Runs : ProcOf[r] = p /\ runs[r].phase # "free"}

SlotsRespected == \A p \in Procs :
  /\ running[p] = {runs[r].job : r \in Active(p)}
  /\ Cardinality(running[p]) <= Concurrency

\* A job is given up only after its attempts are spent, by the worker that
\* failed it last or by whoever finds its lease lapsed.
FailedMeansSpent == \A j \in Jobs :
  rows[j].state = "failed" => rows[j].attempts >= MaxAttempts

\* A job is reported done only if its handler ran to its end since the job
\* was last queued or retried.
DoneMeansWorked == \A j \in Jobs : rows[j].state = "done" => worked[j]

\* At most one live job per unit of deduplicated work: "re-queuing the same
\* work while it is still pending returns the EXISTING job".
LiveFor(k) == {j \in Jobs : rows[j].state \in Live /\ rows[j].kind = k}

OneLivePerWork == \A k \in Deduped : \A i, j \in LiveFor(k) : i = j

\* The same until an operator has cancelled or retried a job: two callers that
\* both looked the key up before either inserted, a crash, a lost write or a
\* reclaim between them never leave two live rows for one unit of work. (A
\* cancel that the backoff overwrites puts a row back that has lost its key.)
OneLiveUntilOperator == used.retry = 0 /\ used.cancel = 0 => OneLivePerWork

\* "A job cancelled while it ran keeps the cancelled state": only retry()
\* takes a job out of it.
CancelSticks == [][\A j \in Jobs :
  rows[j].state = "cancelled" /\ rows'[j].state # "cancelled"
    => used'.retry = used.retry + 1]_vars

\* Every queued or running job is settled in the end, whatever crashes, lost
\* writes, cancels and retries (finitely many) come in between.
EveryJobSettles == \A j \in Jobs :
  rows[j].state \in Live ~> rows[j].state \in Terminal

-----------------------------------------------------------------------------
(* The inductive invariant behind the claims: what holds between any two    *)
(* statements, also where the properties above do not look.                 *)

Shape ==
  /\ \A r \in Runs : runs[r].phase = "free" <=> runs[r].job = None
  /\ \A p \in Procs : procs[p].tick = "readback" <=> procs[p].got # None

\* The loop tested its slots before the UPDATE; they only empty until it has
\* read the row back.
SlotKept == \A p \in Procs :
  procs[p].tick = "readback" => Cardinality(running[p]) < Concurrency

\* A row waiting to be claimed has an attempt left, a claimed one has used one.
AttemptLeft == \A j \in Jobs :
  /\ rows[j].state = "queued" => rows[j].attempts < MaxAttempts
  /\ rows[j].state = "running" => rows[j].attempts > 0

\* A claim not yet read back stands under a live lease, and nobody executes it.
ClaimPending == \A p \in Procs :
  procs[p].got # None /\ Mine(p, procs[p].got)
    => rows[procs[p].got].lease = "live" /\ ~ Executing(procs[p].got)

\* An activation about to report `done' has seen its handler to the end; one
\* whose handler stopped early finds the row cancelled.
OutcomeSound == \A r \in Runs :
  /\ runs[r].phase = "finishing" => worked[runs[r].job]
  /\ runs[r].phase = "returned" =>
       worked[runs[r].job] \/ rows[runs[r].job].state = "cancelled"

IInv == /\ TypeOK /\ Shape /\ SlotKept /\ AttemptLeft /\ ClaimPending
        /\ AttemptsBounded /\ OneExecutor /\ ClaimHeld /\ SlotsRespected
        /\ FailedMeansSpent

\* With the outcome of a handler, where its reads do not fail.
OutcomeInv == IInv /\ OutcomeSound /\ DoneMeansWorked

-----------------------------------------------------------------------------
\* The queue implements the ledger: rows queued and running are pending, the
\* attempts column counts the tries.
Ledger == INSTANCE JobLedger WITH
  Ids <- Jobs, Limit <- MaxAttempts,
  status <- [j \in Jobs |-> IF rows[j].state \in Live THEN "pending"
                           ELSE rows[j].state],
  tries <- [j \in Jobs |-> rows[j].attempts],
  performed <- worked

\* Where no running job is cancelled, no lease lapses under its holder and the
\* outcome's read does not fail, callers cannot tell the table, its processes,
\* their crashes and their lost writes from the ledger.
ImplementsLedger == Ledger!Spec
=============================================================================
